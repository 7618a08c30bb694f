----------------------- MODULE MorfeuszHandlesProofs -----------------------
(***************************************************************************)
(* Theorems about MorfeuszHandles for any number of handles, caches and    *)
(* dictionaries, and any dictionary metadata.  First the options: however  *)
(* variant_matches_preset counts and compares, it selects by the effective *)
(* options, and the cache key determines those.                            *)
(*                                                                         *)
(* Last, the entries of the dictionaries that handles share, of            *)
(* DictionaryForms, for all words.  A form is what a lemma and it share,   *)
(* letter by letter, between a prefix and a suffix; that is undone         *)
(* whichever prefix the builder kept.  The fields of an interpretation     *)
(* have the places that the first byte of its group says, and of the lines *)
(* that the sort key does not tell apart the first stands for all.         *)
(***************************************************************************)
EXTENDS MorfeuszHandles, DictionaryForms, FiniteSetTheorems, SequenceTheorems,
        WellFoundedInduction, TLAPS

-----------------------------------------------------------------------------
(* Options and the automaton that they select                              *)

LEMMA OptionsType ==
  ASSUME NEW o \in Options
  PROVE  /\ IsFiniteSet(DOMAIN o)
         /\ o = [name \in DOMAIN o |-> o[name]]
         /\ \A name \in DOMAIN o : o[name] \in Values
<1>1. PICK names \in SUBSET OptionNames : o \in [names -> Values]
  BY DEF Options
<1>2. IsFiniteSet(names)
  BY <1>1, FS_Subset, SegmentationOptionsAssumption
<1> QED  BY <1>1, <1>2

(* The length of the effective options is what effective_options_len says. *)
LEMMA EffectiveDomain ==
  ASSUME NEW md \in Metadata, NEW p \in Preset
  PROVE  /\ IsFiniteSet(DOMAIN EffectiveOptions(md, p))
         /\ Cardinality(DOMAIN EffectiveOptions(md, p)) = EffectiveLen(md, p)
<1> DEFINE D == DOMAIN md.default_options
           X == Extra(md, p)
<1>1. IsFiniteSet(D)
  BY OptionsType DEF Metadata
<1>2. IsFiniteSet(X)
  <2>1. X \subseteq OptionNames
    BY SegmentationOptionsAssumption DEF Extra
  <2> QED  BY <2>1, FS_Subset, SegmentationOptionsAssumption
<1>3. D \cap X = {}
  BY DEF Extra
<1>4. IsFiniteSet(D \cup X) /\ Cardinality(D \cup X) = Cardinality(D) + Cardinality(X)
  <2>1. IsFiniteSet(D \cup X)
    BY <1>1, <1>2, FS_Union
  <2>2. Cardinality(D \cup X) = Cardinality(D) + Cardinality(X) - Cardinality(D \cap X)
    BY <1>1, <1>2, FS_Union
  <2>3. Cardinality(D \cap X) = 0
    BY <1>3, FS_EmptySet
  <2>4. Cardinality(D) \in Nat /\ Cardinality(X) \in Nat
    BY <1>1, <1>2, FS_CardinalityType
  <2> QED  BY <2>1, <2>2, <2>3, <2>4
<1>5. DOMAIN EffectiveOptions(md, p) = D \cup X
  BY DEF EffectiveOptions
<1> QED  BY <1>4, <1>5 DEF EffectiveLen

(* variant_matches_preset accepts exactly the effective options.           *)
LEMMA MatchingIsEquality ==
  ASSUME NEW md \in Metadata, NEW p \in Preset, NEW v \in Variant
  PROVE  MatchesPreset(md, v, p) <=> v.options = EffectiveOptions(md, p)
<1> DEFINE E == EffectiveOptions(md, p)
           D == DOMAIN md.default_options
           X == Extra(md, p)
<1>1. /\ IsFiniteSet(DOMAIN v.options) /\ v.options = [n \in DOMAIN v.options |-> v.options[n]]
  BY OptionsType DEF Variant
<1>2. /\ IsFiniteSet(DOMAIN E) /\ Cardinality(DOMAIN E) = EffectiveLen(md, p)
      /\ DOMAIN E = D \cup X /\ E = [n \in DOMAIN E |-> E[n]]
      /\ \A n \in DOMAIN E : E[n] = Wanted(md, p, n)
      /\ \A n \in X : Wanted(md, p, n) = p[n]
  <2>1. IsFiniteSet(DOMAIN E) /\ Cardinality(DOMAIN E) = EffectiveLen(md, p)
    BY EffectiveDomain
  <2>2. /\ DOMAIN E = D \cup X /\ E = [n \in DOMAIN E |-> E[n]]
        /\ \A n \in DOMAIN E : E[n] = Wanted(md, p, n)
    BY DEF EffectiveOptions
  <2>3. \A n \in X : Wanted(md, p, n) = p[n]
    BY DEF Extra, Wanted
  <2> QED  BY <2>1, <2>2, <2>3
<1>3. ASSUME MatchesPreset(md, v, p) PROVE v.options = E
  <2>1. /\ \A n \in DOMAIN E : n \in DOMAIN v.options /\ v.options[n] = E[n]
        /\ Cardinality(DOMAIN v.options) = Cardinality(DOMAIN E)
    <3> HIDE DEF E
    <3> QED  BY <1>2, <1>3 DEF MatchesPreset, Has
  <2>2. DOMAIN E \subseteq DOMAIN v.options
    BY <2>1
  <2>3. DOMAIN v.options = DOMAIN E
    BY <1>1, <2>1, <2>2, FS_Subset
  <2> HIDE DEF E
  <2> QED  BY <1>1, <1>2, <2>1, <2>3
<1>4. ASSUME v.options = E PROVE MatchesPreset(md, v, p)
  <2> HIDE DEF E
  <2> QED  BY <1>2, <1>4 DEF MatchesPreset, Has
<1> QED  BY <1>3, <1>4

(* The shortcut for the empty preset and the fallback make no difference.  *)
LEMMA SelectionByOptions ==
  ASSUME NEW md \in Metadata, NEW p \in Preset
  PROVE  VariantFor(md, p) = OptionsVariant(md, EffectiveOptions(md, p))
<1>1. \A i \in DOMAIN md.variants : md.variants[i] \in Variant
  BY DEF Metadata
<1>2. PresetVariant(md, p) = OptionsVariant(md, EffectiveOptions(md, p))
  <2>1. { i \in DOMAIN md.variants : MatchesPreset(md, md.variants[i], p) }
        = { i \in DOMAIN md.variants : md.variants[i].options = EffectiveOptions(md, p) }
    BY <1>1, MatchingIsEquality
  <2> QED  BY <2>1 DEF PresetVariant, OptionsVariant
<1>3. p = NothingSet => EffectiveOptions(md, p) = md.default_options
  <2> SUFFICES ASSUME p = NothingSet PROVE EffectiveOptions(md, p) = md.default_options
    OBVIOUS
  <2>1. \A n : ~IsSet(p, n)
    BY DEF IsSet, NothingSet, Settable
  <2>2. Extra(md, p) = {}
    BY <2>1 DEF Extra
  <2>3. md.default_options = [n \in DOMAIN md.default_options |-> md.default_options[n]]
    BY OptionsType DEF Metadata
  <2> QED  BY <2>1, <2>2, <2>3 DEF EffectiveOptions, Wanted
<1> QED  BY <1>2, <1>3 DEF VariantFor

(* A code stands for one effective value of its option.                    *)
LEMMA CodesTell ==
  ASSUME NEW md \in Metadata, NEW p \in Preset, NEW q \in Preset
  PROVE  /\ \A name \in Settable : \A codes \in {AgglCodes, PraetCodes} :
              (name = "aggl" /\ codes = AgglCodes) \/ (name = "praet" /\ codes = PraetCodes) =>
                /\ CodeOf(md, p, name, codes) \in {0, 1, 2, 3, NoKey}
                /\ CodeOf(md, p, name, codes) = CodeOf(md, q, name, codes)
                   /\ CodeOf(md, p, name, codes) # NoKey =>
                     /\ name \in Extra(md, p) <=> name \in Extra(md, q)
                     /\ name \in DOMAIN md.default_options \cup Extra(md, p) =>
                          Wanted(md, p, name) = Wanted(md, q, name)
<1>1. /\ AgglCodes.strict = 1 /\ AgglCodes.permissive = 2 /\ AgglCodes.isolated = 3
      /\ DOMAIN AgglCodes = {"strict", "permissive", "isolated"}
      /\ PraetCodes.split = 1 /\ PraetCodes.composite = 2
      /\ DOMAIN PraetCodes = {"split", "composite"}
  BY DEF AgglCodes, PraetCodes
<1>2. p.aggl \in DOMAIN AgglCodes \cup {NotSet} /\ q.aggl \in DOMAIN AgglCodes \cup {NotSet}
      /\ p.praet \in DOMAIN PraetCodes \cup {NotSet} /\ q.praet \in DOMAIN PraetCodes \cup {NotSet}
  BY DEF Preset
<1> HIDE DEF AgglCodes, PraetCodes
<1>3. NoKey \notin Int
  BY SegmentationOptionsAssumption
<1> QED  BY <1>1, <1>2, <1>3 DEF CodeOf, IsSet, Extra, Wanted, Settable

(* The word template cache key determines the case handling and the        *)
(* automaton, for every dictionary: caching by key never mixes up answers  *)
(* given under different options.                                          *)
THEOREM KeysTellVariants == \A md \in Metadata : KeyTellsVariant(md)
<1> SUFFICES ASSUME NEW md \in Metadata, NEW p \in Preset, NEW q \in Preset,
                    NEW c \in DOMAIN CaseCode, NEW d \in DOMAIN CaseCode,
                    CacheKey(md, c, p) = CacheKey(md, d, q), CacheKey(md, c, p) # NoKey
             PROVE  c = d /\ VariantFor(md, p) = VariantFor(md, q)
  BY DEF KeyTellsVariant
<1> DEFINE ap == CodeOf(md, p, "aggl", AgglCodes)
           aq == CodeOf(md, q, "aggl", AgglCodes)
           pp == CodeOf(md, p, "praet", PraetCodes)
           pq == CodeOf(md, q, "praet", PraetCodes)
<1>1. /\ ap \in {0, 1, 2, 3, NoKey} /\ aq \in {0, 1, 2, 3, NoKey}
      /\ pp \in {0, 1, 2, 3, NoKey} /\ pq \in {0, 1, 2, 3, NoKey}
  BY CodesTell DEF Settable
<1>2. ap # NoKey /\ pp # NoKey /\ aq # NoKey /\ pq # NoKey
  BY DEF CacheKey
<1>3. CaseCode[c] + 4 * ap + 32 * pp = CaseCode[d] + 4 * aq + 32 * pq
  BY <1>2 DEF CacheKey
<1>4. /\ CaseCode[c] \in 0 .. 2 /\ CaseCode[d] \in 0 .. 2
      /\ CaseCode[c] = CaseCode[d] => c = d
  BY DEF CaseCode
<1>5. ap = aq /\ pp = pq /\ c = d
  <2>1. ap \in 0 .. 3 /\ aq \in 0 .. 3 /\ pp \in 0 .. 3 /\ pq \in 0 .. 3
    BY <1>1, <1>2
  <2> HIDE DEF ap, aq, pp, pq
  <2> QED  BY <1>3, <1>4, <2>1
<1>6. \A name \in Settable :
        /\ name \in Extra(md, p) <=> name \in Extra(md, q)
        /\ name \in DOMAIN md.default_options \cup Extra(md, p) =>
             Wanted(md, p, name) = Wanted(md, q, name)
  BY <1>2, <1>5, CodesTell DEF Settable
<1>7. EffectiveOptions(md, p) = EffectiveOptions(md, q)
  <2>1. Extra(md, p) = Extra(md, q)
    BY <1>6 DEF Extra
  <2>2. \A name \in DOMAIN md.default_options \cup Extra(md, p) :
          Wanted(md, p, name) = Wanted(md, q, name)
    BY <1>6 DEF Wanted, IsSet
  <2> QED  BY <2>1, <2>2 DEF EffectiveOptions
<1> QED  BY <1>5, <1>7, SelectionByOptions

(* An option that set_aggl or set_praet accepts never makes a later        *)
(* analysis or synthesis fail with "Invalid segmentation options".         *)
THEOREM ValidOptionsSelect ==
  \A md \in Metadata, p \in Preset, option \in Settable : Valid(md, p, option) => Selects(md, p)
<1> SUFFICES ASSUME NEW md \in Metadata, NEW p \in Preset, NEW option \in Settable,
                    Valid(md, p, option), md.variants # <<>>
             PROVE  VariantFor(md, p) # 0
  BY DEF Selects
<1> QED  BY DEF Valid, VariantFor

-----------------------------------------------------------------------------
(* Types                                                                   *)

LEMMA FirstOfType ==
  ASSUME NEW hits \in SUBSET Nat
  PROVE  FirstOf(hits) \in hits \cup {0}
<1>1. CASE hits = {}
  BY <1>1 DEF FirstOf
<1>2. CASE hits # {}
  <2>1. PICK i \in hits : \A j \in hits : ~ (<<j, i>> \in OpToRel(<, Nat))
    BY <1>2, WFMin, NatLessThanWellFounded
  <2>2. \A j \in hits : ~ (j < i)
    BY <2>1, Zenon DEF OpToRel
  <2>3. \A j \in hits : i <= j
    BY <2>2
  <2> QED  BY <1>2, <2>3 DEF FirstOf
<1> QED  BY <1>1, <1>2

LEMMA VariantForType ==
  ASSUME NEW md \in Metadata, NEW p \in Preset
  PROVE  /\ VariantFor(md, p) \in 0 .. Len(md.variants)
         /\ VariantFor(md, p) # 0 =>
              md.variants[VariantFor(md, p)].options = EffectiveOptions(md, p)
<1> DEFINE hits == { i \in DOMAIN md.variants :
                       md.variants[i].options = EffectiveOptions(md, p) }
<1>1. md.variants \in Seq(Variant)
  BY DEF Metadata
<1>2. DOMAIN md.variants = 1 .. Len(md.variants) /\ Len(md.variants) \in Nat
  BY <1>1
<1>3. VariantFor(md, p) = FirstOf(hits)
  BY SelectionByOptions DEF OptionsVariant
<1>4. hits \in SUBSET Nat
  BY <1>2
<1>5. FirstOf(hits) \in hits \cup {0}
  BY <1>4, FirstOfType
<1> QED  BY <1>2, <1>3, <1>5

LEMMA CacheKeyType ==
  ASSUME NEW md \in Metadata, NEW p \in Preset, NEW c \in DOMAIN CaseCode
  PROVE  CacheKey(md, c, p) \in Int \cup {NoKey}
<1> DEFINE aggl  == CodeOf(md, p, "aggl", AgglCodes)
           praet == CodeOf(md, p, "praet", PraetCodes)
<1>1. aggl \in {0, 1, 2, 3, NoKey} /\ praet \in {0, 1, 2, 3, NoKey}
  BY CodesTell DEF Settable
<1>2. CaseCode[c] \in {0, 1, 2}
  BY DEF CaseCode
<1> QED  BY <1>1, <1>2 DEF CacheKey

-----------------------------------------------------------------------------
(* Types of the constants and of parts of a handle                         *)

LEMMA Constants ==
  /\ \A f \in Files : FileMetadata[f] \in Metadata
  /\ NoFile \notin Files /\ NoCache \notin CacheIds
  /\ FilesOrNone = Files \cup {NoFile}
  /\ NothingSet \in Preset
  /\ DefaultConfig \in Config /\ DefaultConfig.segmentation = NothingSet
  /\ \A m \in Morfeusz : m # Unopened
  /\ \A c \in Call : c # Idle
BY MorfeuszHandlesAssumption
   DEF FilesOrNone, NothingSet, Preset, DefaultConfig, Config, CaseCode, Numberings, Whitespaces

(* A handle with its parts spelt out.                                      *)
LEMMA Parts ==
  ASSUME NEW m \in Morfeusz
  PROVE  /\ m.engine \in Engine /\ m.usage \in Usages
         /\ m.engine.lexicon \in Lexicon /\ m.engine.config \in Config
         /\ m.engine.config.segmentation \in Preset
         /\ m.engine.config.case \in DOMAIN CaseCode
         /\ m.engine.lexicon.analyzer \in FilesOrNone
         /\ m.engine.lexicon.generator \in FilesOrNone
         /\ m.engine.lexicon.caches \in CacheIds \cup {NoCache}
         /\ m.session.engine \in Engine /\ m.session.next_node \in Nat
BY DEF Morfeusz, Engine, Session, Lexicon, Config

LEMMA WithEngineParts ==
  ASSUME NEW engine \in Engine, NEW usage \in Usages
  PROVE  /\ WithEngine(engine, usage) \in Morfeusz
         /\ WithEngine(engine, usage).engine = engine
         /\ WithEngine(engine, usage).session.engine = engine
         /\ WithEngine(engine, usage).usage = usage
BY DEF WithEngine, NewSession, Morfeusz, Session

(* Whether a handle is sound depends on its lexicon, preset and usage.     *)
Fits(lexicon, preset, usage) ==
  /\ lexicon.caches = NoCache <=> lexicon.analyzer = NoFile
  /\ \A md \in Metadatas(lexicon) : Selects(md, preset)
  /\ FilesOf(lexicon) # {} =>
       /\ usage \in {"analyse", "both"} => lexicon.analyzer # NoFile
       /\ usage \in {"generate", "both"} => lexicon.generator # NoFile

LEMMA SoundParts ==
  ASSUME NEW m \in Morfeusz
  PROVE  Sound(m) <=> /\ m.session.engine = m.engine
                      /\ Fits(m.engine.lexicon, m.engine.config.segmentation, m.usage)
BY DEF Sound, Fits, CanAnalyse, CanGenerate

LEMMA WithEngineSound ==
  ASSUME NEW engine \in Engine, NEW usage \in Usages,
         Fits(engine.lexicon, engine.config.segmentation, usage)
  PROVE  WithEngine(engine, usage) \in Morfeusz /\ Sound(WithEngine(engine, usage))
BY WithEngineParts, SoundParts

LEMMA InMemoryFits ==
  ASSUME NEW preset, NEW usage
  PROVE  InMemory \in Lexicon /\ Fits(InMemory, preset, usage)
<1>1. FilesOf(InMemory) = {}
  BY DEF FilesOf, InMemory
<1> QED  BY <1>1 DEF Fits, InMemory, Metadatas, Lexicon, FilesOrNone

(* A lexicon with the files that its usage asks for fits the defaults.     *)
LEMMA NewLexiconFits ==
  ASSUME NEW h, NEW a \in FilesOrNone, NEW g \in FilesOrNone, NEW usage,
         usage \in {"analyse", "both"} => a # NoFile,
         usage \in {"generate", "both"} => g # NoFile,
         NEW l \in NewLexicons(h, a, g)
  PROVE  /\ l \in Lexicon
         /\ Fits(l, NothingSet, usage)
         /\ l.caches \in FreeCaches(h) \cup {NoCache}
<1>1. PICK c \in IF a = NoFile THEN {NoCache} ELSE FreeCaches(h) :
        l = [analyzer |-> a, generator |-> g, caches |-> c]
  BY DEF NewLexicons
<1>2. c \in CacheIds \cup {NoCache} /\ c \in FreeCaches(h) \cup {NoCache}
  BY <1>1 DEF FreeCaches
<1>3. c = NoCache <=> a = NoFile
  BY <1>1, Constants DEF FreeCaches
<1>4. \A md \in Metadatas(l) : Selects(md, NothingSet)
  BY <1>1, DefaultVariantAssumption, Constants DEF Metadatas, FilesOf
<1> QED  BY <1>1, <1>2, <1>3, <1>4 DEF Fits, Lexicon

-----------------------------------------------------------------------------
(* What loading returns                                                    *)

(* A handle that h may become: sound, with no cache or a free one.         *)
Loaded(h, m) ==
  \E l \in Lexicon, usage \in Usages :
    /\ m = WithLexicon(l, usage)
    /\ Fits(l, NothingSet, usage)
    /\ l.caches \in FreeCaches(h) \cup {NoCache}

LEMMA LoadNamedLoads ==
  ASSUME NEW h, NEW name, NEW usage \in Usages, NEW m \in LoadNamed(h, name, usage)
  PROVE  Loaded(h, m)
<1> DEFINE needed(part) == \/ usage = "both"
                           \/ usage = IF part = "analyzer" THEN "analyse" ELSE "generate"
           file(part) == IF needed(part) THEN FirstFile(name, part) ELSE NoFile
<1>1. /\ \A part \in {"analyzer", "generator"} : needed(part) => Loadable(file(part))
      /\ \E l \in NewLexicons(h, file("analyzer"), file("generator")) : m = WithLexicon(l, usage)
  BY DEF LoadNamed
<1>2. PICK l \in NewLexicons(h, file("analyzer"), file("generator")) : m = WithLexicon(l, usage)
  BY <1>1
<1> HIDE DEF file
<1>3. /\ usage \in {"analyse", "both"} => file("analyzer") \in Files
      /\ usage \in {"generate", "both"} => file("generator") \in Files
      /\ file("analyzer") \in FilesOrNone /\ file("generator") \in FilesOrNone
  BY <1>1 DEF Loadable, FilesOrNone, Usages, file
<1>4. /\ usage \in {"analyse", "both"} => file("analyzer") # NoFile
      /\ usage \in {"generate", "both"} => file("generator") # NoFile
  BY <1>3, Constants
<1>5. l \in Lexicon /\ Fits(l, NothingSet, usage) /\ l.caches \in FreeCaches(h) \cup {NoCache}
  BY <1>2, <1>3, <1>4, NewLexiconFits
<1> QED  BY <1>2, <1>5 DEF Loaded

LEMMA LoadPathLoads ==
  ASSUME NEW h, NEW file, NEW synthesis \in BOOLEAN, NEW usage \in Usages,
         NEW m \in LoadPath(h, file, synthesis, usage)
  PROVE  Loaded(h, m)
<1>1. file \in Files /\ file # NoFile
  BY Constants DEF LoadPath, Loadable
<1>2. EffectiveUsage(usage, synthesis) \in Usages
  BY DEF EffectiveUsage, Usages
<1>3. NoFile \in FilesOrNone /\ file \in FilesOrNone
  BY <1>1 DEF FilesOrNone
<1>4. CASE AsGenerator(usage, synthesis)
  <2>1. PICK l \in NewLexicons(h, NoFile, file) : m = WithLexicon(l, "generate")
    BY <1>1, <1>4 DEF LoadPath, EffectiveUsage
  <2>2. l \in Lexicon /\ Fits(l, NothingSet, "generate") /\ l.caches \in FreeCaches(h) \cup {NoCache}
    <3>1. "generate" \notin {"analyse", "both"}
      OBVIOUS
    <3> QED  BY <1>1, <1>3, <3>1, NewLexiconFits
  <2> QED  BY <2>1, <2>2 DEF Loaded, Usages
<1>5. CASE ~AsGenerator(usage, synthesis)
  <2>1. PICK l \in NewLexicons(h, file, NoFile) : m = WithLexicon(l, "analyse")
    BY <1>1, <1>5 DEF LoadPath, EffectiveUsage
  <2>2. l \in Lexicon /\ Fits(l, NothingSet, "analyse") /\ l.caches \in FreeCaches(h) \cup {NoCache}
    <3>1. "analyse" \notin {"generate", "both"}
      OBVIOUS
    <3> QED  BY <1>1, <1>3, <3>1, NewLexiconFits
  <2> QED  BY <2>1, <2>2 DEF Loaded, Usages
<1> QED  BY <1>4, <1>5

LEMMA LoadedSound ==
  ASSUME NEW h, NEW m, Loaded(h, m)
  PROVE  /\ m \in Morfeusz /\ Sound(m)
         /\ m.engine.lexicon.caches \in FreeCaches(h) \cup {NoCache}
<1>1. PICK l \in Lexicon, usage \in Usages :
        /\ m = WithLexicon(l, usage)
        /\ Fits(l, NothingSet, usage)
        /\ l.caches \in FreeCaches(h) \cup {NoCache}
  BY DEF Loaded
<1> DEFINE e == [lexicon |-> l, config |-> DefaultConfig]
<1>2. e \in Engine /\ e.lexicon = l /\ e.config.segmentation = NothingSet
  BY Constants DEF Engine
<1>3. m = WithEngine(e, usage)
  BY <1>1 DEF WithLexicon
<1> HIDE DEF e
<1> QED  BY <1>1, <1>2, <1>3, WithEngineSound, WithEngineParts

(* A switch drops the explicit segmentation, so what was loaded fits.      *)
LEMMA ReplacedSound ==
  ASSUME NEW h, NEW old \in Morfeusz, NEW m, Loaded(h, m)
  PROVE  /\ Replaced(old, m) \in Morfeusz /\ Sound(Replaced(old, m))
         /\ Replaced(old, m).engine.lexicon = m.engine.lexicon
         /\ m.engine.lexicon.caches \in FreeCaches(h) \cup {NoCache}
<1>1. PICK l \in Lexicon, usage \in Usages :
        /\ m = WithLexicon(l, usage)
        /\ Fits(l, NothingSet, usage)
        /\ l.caches \in FreeCaches(h) \cup {NoCache}
  BY DEF Loaded
<1>2. m.engine.lexicon = l /\ m.usage = usage
  BY <1>1 DEF WithLexicon, WithEngine
<1> DEFINE e == [lexicon |-> l, config |-> ConfigForDictionarySwitch(old)]
<1>3. ConfigForDictionarySwitch(old) \in Config
      /\ ConfigForDictionarySwitch(old).segmentation = NothingSet
  BY Parts, Constants DEF ConfigForDictionarySwitch, Config
<1>4. e \in Engine /\ e.lexicon = l /\ e.config.segmentation = NothingSet
  BY <1>3 DEF Engine
<1>5. Replaced(old, m) = WithEngine(e, usage)
  BY <1>2 DEF Replaced
<1> HIDE DEF e
<1> QED  BY <1>1, <1>2, <1>4, <1>5, WithEngineSound, WithEngineParts

-----------------------------------------------------------------------------
(* Steps that give a handle a new value                                    *)

LEMMA OpenHandle ==
  ASSUME TypeOK, NEW h \in Handles, handles[h] # Unopened
  PROVE  handles[h] \in Morfeusz
BY DEF TypeOK

(* No other open handle has a free cache.                                  *)
LEMMA FreeUnused ==
  ASSUME NEW h \in Handles, NEW o \in Handles \ {h}, NEW c \in FreeCaches(h)
  PROVE  ~Uses(o, c)
BY DEF FreeCaches, Uses

(* A cache that h has after it became m, and another open handle has as    *)
(* well, was theirs before and is the cache of the same analyzer.          *)
Shared(h, m) ==
  \E o \in Handles : /\ handles[o] # Unopened
                     /\ m.engine.lexicon = handles[o].engine.lexicon

(* What happens to the caches when h becomes m.                            *)
CachesFollow(h, m) ==
  \/ DropCaches(m.engine.lexicon.caches)
     /\ m.engine.lexicon.caches \in FreeCaches(h) \cup {NoCache}
  \/ caches' = caches /\ (m.engine.lexicon.caches = NoCache \/ Shared(h, m))

LEMMA DropCachesShrinks ==
  ASSUME TypeOK, NEW new, DropCaches(new)
  PROVE  /\ caches' \in [CacheIds -> SUBSET Template]
         /\ \A c \in CacheIds : caches'[c] \subseteq caches[c]
         /\ new \in CacheIds => caches'[new] = {}
BY DEF DropCaches, TypeOK

LEMMA BecomeKeeps ==
  ASSUME IInv, NEW h \in Handles, NEW m \in Morfeusz, Sound(m), CachesFollow(h, m),
         calls[h] = Idle, calls' = calls,
         handles' = [handles EXCEPT ![h] = m],
         expected' \in [Handles -> Nat], outcome' \in {"ok", "error"}
  PROVE  IInv'
<1>1. /\ handles' \in [Handles -> Morfeusz \cup {Unopened}]
      /\ handles'[h] = m /\ m # Unopened
      /\ \A o \in Handles \ {h} : handles'[o] = handles[o]
  BY Constants DEF IInv, TypeOK
<1>2. /\ caches' \in [CacheIds -> SUBSET Template]
      /\ \A c \in CacheIds : caches'[c] \subseteq caches[c]
  BY DropCachesShrinks DEF IInv, TypeOK, CachesFollow
<1>3. TypeOK'
  BY <1>1, <1>2 DEF IInv, TypeOK
<1>4. HandlesSound'
  BY <1>1 DEF IInv, HandlesSound, Sound, CanAnalyse, CanGenerate
<1>5. CallsOpen'
  BY <1>1 DEF IInv, CallsOpen
<1>6. ASSUME NEW c \in CacheIds, Uses(h, c)'
      PROVE  \/ caches'[c] = {} /\ \A o \in Handles \ {h} : ~Uses(o, c)
             \/ \E o \in Handles : /\ Uses(o, c)
                                   /\ m.engine.lexicon.analyzer = handles[o].engine.lexicon.analyzer
  <2>1. m.engine.lexicon.caches = c /\ c # NoCache
    BY <1>1, <1>6, Constants DEF Uses
  <2>2. CASE DropCaches(c) /\ c \in FreeCaches(h)
    BY <2>1, <2>2, FreeUnused, DropCachesShrinks DEF IInv
  <2>3. CASE Shared(h, m)
    BY <2>1, <2>3 DEF Shared, Uses
  <2> QED  BY <2>1, <2>2, <2>3 DEF CachesFollow
<1>7. \A c \in CacheIds : \A o \in Handles \ {h} : Uses(o, c)' <=> Uses(o, c)
  BY <1>1 DEF Uses
<1>8. CachesShared'
  <2> SUFFICES ASSUME NEW c \in CacheIds, NEW a \in Handles, NEW b \in Handles,
                      Uses(a, c)', Uses(b, c)'
               PROVE  handles'[a].engine.lexicon.analyzer = handles'[b].engine.lexicon.analyzer
    BY DEF CachesShared
  <2>1. ASSUME NEW o \in Handles \ {h}, Uses(o, c), Uses(h, c)'
        PROVE  m.engine.lexicon.analyzer = handles[o].engine.lexicon.analyzer
    BY <1>6, <2>1 DEF IInv, CachesShared
  <2>2. CASE a # h /\ b # h
    BY <1>1, <1>7, <2>2 DEF IInv, CachesShared
  <2> QED  BY <1>1, <1>7, <2>1, <2>2
<1>9. TemplatesStem'
  <2> SUFFICES ASSUME NEW c \in CacheIds, NEW o \in Handles, Uses(o, c)', NEW t \in caches'[c]
               PROVE  Stems(t, FileMetadata[handles'[o].engine.lexicon.analyzer])
    BY DEF TemplatesStem, Stems
  <2>1. t \in caches[c]
    BY <1>2
  <2>2. CASE o # h
    BY <1>1, <1>7, <2>1, <2>2 DEF IInv, TemplatesStem
  <2>3. CASE o = h
    BY <1>1, <1>6, <2>1, <2>3 DEF IInv, TemplatesStem
  <2> QED  BY <2>2, <2>3
<1>10. AnsweredAsConfigured'
  <2> SUFFICES ASSUME NEW o \in Handles, calls[o] # Idle
               PROVE  handles'[o] = handles[o]
    BY DEF IInv, AnsweredAsConfigured
  <2> QED  BY <1>1
<1> QED  BY <1>3, <1>4, <1>5, <1>8, <1>9, <1>10 DEF IInv

LEMMA IdleKeeps ==
  ASSUME IInv, UNCHANGED <<handles, caches, calls, expected>>, outcome' \in {"ok", "error"}
  PROVE  IInv'
BY DEF IInv, TypeOK, HandlesSound, CallsOpen, CachesShared, Uses, TemplatesStem,
       AnsweredAsConfigured

LEMMA BecomeStep ==
  ASSUME IInv, NEW h \in Handles, NEW m \in Morfeusz, Sound(m), CachesFollow(h, m),
         calls[h] = Idle, Become(h, m)
  PROVE  IInv'
<1>1. expected' \in [Handles -> Nat]
  BY DEF Become, IInv, TypeOK
<1> QED  BY <1>1, BecomeKeeps DEF Become

LEMMA UnopenedIdle ==
  ASSUME IInv, NEW h \in Handles, handles[h] = Unopened
  PROVE  calls[h] = Idle
BY DEF IInv, CallsOpen

LEMMA NewKeeps ==
  ASSUME IInv, NEW h \in Handles, NEW usage \in Usages, New(h, usage)
  PROVE  IInv'
<1> DEFINE e == [lexicon |-> InMemory, config |-> DefaultConfig]
           m == WithEngine(e, usage)
<1>1. e \in Engine /\ e.lexicon = InMemory /\ Fits(e.lexicon, e.config.segmentation, usage)
  BY Constants, InMemoryFits DEF Engine
<1>2. Become(h, m) /\ UNCHANGED caches
  BY DEF New, WithLexicon
<1> HIDE DEF e
<1>3. m \in Morfeusz /\ Sound(m) /\ m.engine = e
  BY <1>1, WithEngineSound, WithEngineParts
<1>4. CachesFollow(h, m)
  BY <1>1, <1>2, <1>3 DEF CachesFollow, InMemory
<1> HIDE DEF m
<1> QED  BY <1>2, <1>3, <1>4, BecomeStep, UnopenedIdle DEF New

LEMMA OpenAsKeeps ==
  ASSUME IInv, NEW h \in Handles, NEW loaded, \A m \in loaded : Loaded(h, m), OpenAs(h, loaded)
  PROVE  IInv'
<1>1. CASE Fail
  BY <1>1, IdleKeeps DEF Fail
<1>2. CASE \E m \in loaded : Become(h, m) /\ DropCaches(m.engine.lexicon.caches)
  <2>1. PICK m \in loaded : Become(h, m) /\ DropCaches(m.engine.lexicon.caches)
    BY <1>2
  <2>2. m \in Morfeusz /\ Sound(m) /\ CachesFollow(h, m)
    BY <2>1, LoadedSound DEF CachesFollow
  <2> QED  BY <2>1, <2>2, BecomeStep, UnopenedIdle DEF OpenAs
<1> QED  BY <1>1, <1>2 DEF OpenAs

LEMMA SwitchToKeeps ==
  ASSUME IInv, NEW h \in Handles, NEW loaded, \A m \in loaded : Loaded(h, m), SwitchTo(h, loaded)
  PROVE  IInv'
<1>1. handles[h] \in Morfeusz /\ calls[h] = Idle
  BY OpenHandle DEF SwitchTo, IsOpen, IInv
<1>2. CASE Fail
  BY <1>2, IdleKeeps DEF Fail
<1>3. CASE \E m \in loaded : /\ Become(h, Replaced(handles[h], m))
                             /\ DropCaches(m.engine.lexicon.caches)
  <2>1. PICK m \in loaded : /\ Become(h, Replaced(handles[h], m))
                            /\ DropCaches(m.engine.lexicon.caches)
    BY <1>3
  <2>2. /\ Replaced(handles[h], m) \in Morfeusz /\ Sound(Replaced(handles[h], m))
        /\ CachesFollow(h, Replaced(handles[h], m))
    BY <1>1, <2>1, ReplacedSound DEF CachesFollow
  <2> QED  BY <1>1, <2>1, <2>2, BecomeStep
<1> QED  BY <1>2, <1>3 DEF SwitchTo

LEMMA SetDictionaryKeeps ==
  ASSUME IInv, NEW h \in Handles, SetDictionary(h)
  PROVE  IInv'
<1> DEFINE e == [lexicon |-> InMemory, config |-> handles[h].engine.config]
           m == WithEngine(e, handles[h].usage)
<1>1. handles[h] \in Morfeusz /\ calls[h] = Idle
  BY OpenHandle DEF SetDictionary, IsOpen, IInv
<1>2. /\ e \in Engine /\ e.lexicon = InMemory /\ handles[h].usage \in Usages
      /\ Fits(e.lexicon, e.config.segmentation, handles[h].usage)
  BY <1>1, Parts, InMemoryFits DEF Engine
<1>3. Become(h, m) /\ DropCaches(NoCache)
  BY DEF SetDictionary
<1> HIDE DEF e
<1>4. m \in Morfeusz /\ Sound(m) /\ m.engine = e
  BY <1>2, WithEngineSound, WithEngineParts
<1>5. CachesFollow(h, m)
  BY <1>2, <1>3, <1>4 DEF CachesFollow, InMemory
<1> HIDE DEF m
<1> QED  BY <1>1, <1>3, <1>4, <1>5, BecomeStep

LEMMA CloneKeeps ==
  ASSUME IInv, NEW h \in Handles, NEW o \in Handles, Clone(h, o)
  PROVE  IInv'
<1>1. handles[h] \in Morfeusz /\ handles[h] # Unopened /\ Sound(handles[h])
  BY OpenHandle DEF Clone, IsOpen, IInv, HandlesSound
<1>2. CachesFollow(o, handles[h])
  BY <1>1 DEF CachesFollow, Shared, Clone
<1>3. expected' \in [Handles -> Nat]
  BY DEF Clone, IInv, TypeOK
<1> QED  BY <1>1, <1>2, <1>3, BecomeKeeps, UnopenedIdle DEF Clone

LEMMA ForkKeeps ==
  ASSUME IInv, NEW h \in Handles, NEW o \in Handles, Fork(h, o)
  PROVE  IInv'
<1> DEFINE old == handles[h].engine.lexicon
           e(l) == [handles[h].engine EXCEPT !.lexicon = l]
           m(l) == WithEngine(e(l), handles[h].usage)
<1>1. handles[h] \in Morfeusz /\ Sound(handles[h])
  BY OpenHandle DEF Fork, IsOpen, IInv, HandlesSound
<1>2. PICK l \in NewLexicons(o, old.analyzer, old.generator) : Become(o, m(l)) /\ DropCaches(l.caches)
  BY DEF Fork
<1>3. PICK c \in IF old.analyzer = NoFile THEN {NoCache} ELSE FreeCaches(o) :
        l = [analyzer |-> old.analyzer, generator |-> old.generator, caches |-> c]
  BY <1>2 DEF NewLexicons
<1>4. /\ c \in FreeCaches(o) \cup {NoCache} /\ c \in CacheIds \cup {NoCache}
      /\ c = NoCache <=> old.analyzer = NoFile
  BY <1>3, Constants DEF FreeCaches
<1>5. /\ l \in Lexicon /\ l.analyzer = old.analyzer /\ l.generator = old.generator
      /\ l.caches = c /\ FilesOf(l) = FilesOf(old)
  BY <1>1, <1>3, <1>4, Parts DEF Lexicon, FilesOf
<1>6. /\ e(l) \in Engine /\ e(l).lexicon = l /\ e(l).config = handles[h].engine.config
  BY <1>1, <1>5, Parts DEF Engine
<1>7. Fits(l, e(l).config.segmentation, handles[h].usage)
  BY <1>1, <1>4, <1>5, <1>6, SoundParts DEF Fits, Metadatas
<1>8. handles[h].usage \in Usages
  BY <1>1, Parts
<1> HIDE DEF e
<1>9. m(l) \in Morfeusz /\ Sound(m(l)) /\ m(l).engine = e(l)
  BY <1>6, <1>7, <1>8, WithEngineSound, WithEngineParts
<1> HIDE DEF m
<1>10. CachesFollow(o, m(l))
  BY <1>2, <1>4, <1>5, <1>6, <1>9 DEF CachesFollow
<1> QED  BY <1>2, <1>9, <1>10, BecomeStep, UnopenedIdle DEF Fork

LEMMA DropKeeps ==
  ASSUME IInv, NEW h \in Handles, Drop(h)
  PROVE  IInv'
<1>1. /\ handles' = [handles EXCEPT ![h] = Unopened] /\ calls' = calls /\ calls[h] = Idle
      /\ DropCaches(NoCache) /\ outcome' = "ok" /\ expected' = [expected EXCEPT ![h] = 0]
  BY DEF Drop, IsOpen
<1>2. /\ caches' \in [CacheIds -> SUBSET Template]
      /\ \A c \in CacheIds : caches'[c] \subseteq caches[c]
  BY <1>1, DropCachesShrinks DEF IInv
<1>3. /\ handles' \in [Handles -> Morfeusz \cup {Unopened}] /\ handles'[h] = Unopened
      /\ \A o \in Handles \ {h} : handles'[o] = handles[o]
  BY <1>1 DEF IInv, TypeOK
<1>4. TypeOK'
  BY <1>1, <1>2, <1>3 DEF IInv, TypeOK
<1>5. HandlesSound' /\ CallsOpen'
  BY <1>1, <1>3 DEF IInv, HandlesSound, CallsOpen, Sound, CanAnalyse, CanGenerate
<1>6. \A o \in Handles : \A c \in CacheIds : Uses(o, c)' => o # h /\ Uses(o, c)
  BY <1>3 DEF Uses
<1>7. CachesShared'
  BY <1>3, <1>6 DEF IInv, CachesShared
<1>8. TemplatesStem'
  <2> SUFFICES ASSUME NEW c \in CacheIds, NEW o \in Handles, Uses(o, c)', NEW t \in caches'[c]
               PROVE  Stems(t, FileMetadata[handles'[o].engine.lexicon.analyzer])
    BY DEF TemplatesStem, Stems
  <2> QED  BY <1>2, <1>3, <1>6 DEF IInv, TemplatesStem
<1>9. AnsweredAsConfigured'
  <2> SUFFICES ASSUME NEW o \in Handles, calls[o] # Idle PROVE handles'[o] = handles[o]
    BY <1>1 DEF IInv, AnsweredAsConfigured
  <2> QED  BY <1>1, <1>3
<1> QED  BY <1>4, <1>5, <1>7, <1>8, <1>9 DEF IInv

-----------------------------------------------------------------------------
(* Options                                                                 *)

LEMMA SetConfigKeeps ==
  ASSUME IInv, NEW h \in Handles, IsOpen(h), NEW config \in Config,
         \A md \in Metadatas(handles[h].engine.lexicon) : Selects(md, config.segmentation),
         SetConfig(h, config)
  PROVE  IInv'
<1> DEFINE old == handles[h]
           e == [lexicon |-> old.engine.lexicon, config |-> config]
           m == WithEngine(e, old.usage)
<1>1. old \in Morfeusz /\ Sound(old) /\ calls[h] = Idle /\ old # Unopened
  BY OpenHandle DEF IsOpen, IInv, HandlesSound
<1>2. /\ e \in Engine /\ e.lexicon = old.engine.lexicon /\ old.usage \in Usages
      /\ e.config.segmentation = config.segmentation
  BY <1>1, Parts DEF Engine
<1>3. Fits(e.lexicon, e.config.segmentation, old.usage)
  BY <1>1, <1>2, SoundParts DEF Fits
<1>4. Become(h, m) /\ UNCHANGED caches
  BY DEF SetConfig, UpdateConfig
<1> HIDE DEF e
<1>5. m \in Morfeusz /\ Sound(m) /\ m.engine = e
  BY <1>2, <1>3, WithEngineSound, WithEngineParts
<1> HIDE DEF m
<1>6. CachesFollow(h, m)
  BY <1>1, <1>2, <1>4, <1>5 DEF CachesFollow, Shared
<1> QED  BY <1>1, <1>4, <1>5, <1>6, BecomeStep

(* An option other than the segmentation leaves the automata selectable.   *)
LEMMA OtherOptionKeeps ==
  ASSUME IInv, NEW h \in Handles, IsOpen(h), NEW config \in Config,
         config.segmentation = handles[h].engine.config.segmentation,
         SetConfig(h, config)
  PROVE  IInv'
<1>1. \A md \in Metadatas(handles[h].engine.lexicon) : Selects(md, config.segmentation)
  BY DEF IsOpen, IInv, HandlesSound, Sound
<1> QED  BY <1>1, SetConfigKeeps

LEMMA SetSegmentationKeeps ==
  ASSUME IInv, NEW h \in Handles, NEW option \in Settable, NEW value,
         SetSegmentation(h, option, value)
  PROVE  IInv'
<1> DEFINE engine == handles[h].engine
           preset == [engine.config.segmentation EXCEPT ![option] = value]
           config == [engine.config EXCEPT !.segmentation = preset]
<1>1. CASE Fail
  BY <1>1, IdleKeeps DEF Fail
<1>2. CASE /\ preset \in Preset /\ AcceptedBy(engine.lexicon, preset, option)
           /\ SetConfig(h, config)
  <2>1. IsOpen(h) /\ handles[h] \in Morfeusz
    BY OpenHandle DEF SetSegmentation, IsOpen, IInv
  <2>2. config \in Config /\ config.segmentation = preset
    BY <1>2, <2>1, Parts DEF Config
  <2>3. \A md \in Metadatas(engine.lexicon) : Selects(md, preset)
    <3>1. \A md \in Metadatas(engine.lexicon) : md \in Metadata
      BY <2>1, Parts, Constants DEF Metadatas, FilesOf
    <3> QED  BY <1>2, <3>1, ValidOptionsSelect DEF AcceptedBy
  <2> HIDE DEF config
  <2> QED  BY <1>2, <2>1, <2>2, <2>3, SetConfigKeeps
<1> QED  BY <1>1, <1>2 DEF SetSegmentation

LEMMA OpeningKeeps ==
  ASSUME IInv, NEW h \in Handles, Opening(h)
  PROVE  IInv'
<1>1. ASSUME NEW usage \in UsageChoices, New(h, usage) PROVE IInv'
  BY <1>1, NewKeeps, MorfeuszHandlesAssumption
<1>2. ASSUME NEW usage \in UsageChoices, NEW n \in Names, CreateInstanceNamed(h, n, usage)
      PROVE IInv'
  <2>1. usage \in Usages
    BY MorfeuszHandlesAssumption
  <2> QED  BY <1>2, <2>1, LoadNamedLoads, OpenAsKeeps DEF CreateInstanceNamed
<1>3. ASSUME NEW o \in Handles, Clone(o, h) \/ Fork(o, h) PROVE IInv'
  BY <1>3, CloneKeeps, ForkKeeps
<1> QED  BY <1>1, <1>2, <1>3 DEF Opening

LEMMA SwitchingKeeps ==
  ASSUME IInv, NEW h \in Handles, Switching(h)
  PROVE  IInv'
<1>1. IsOpen(h) => handles[h].usage \in Usages
  BY OpenHandle, Parts DEF IsOpen, IInv
<1>2. ASSUME NEW n \in Names, SetDictionaryNamed(h, n) PROVE IInv'
  <2> DEFINE loaded == IF IsOpen(h) THEN LoadNamed(h, n, handles[h].usage) ELSE {}
  <2>1. SwitchTo(h, loaded)
    BY <1>2 DEF SetDictionaryNamed
  <2>2. \A m \in loaded : Loaded(h, m)
    BY <1>1, LoadNamedLoads
  <2> HIDE DEF loaded
  <2> QED  BY <2>1, <2>2, SwitchToKeeps
<1>3. ASSUME NEW f \in PathChoices, NEW synthesis \in BOOLEAN, SetDictionaryPath(h, f, synthesis)
      PROVE IInv'
  <2> DEFINE loaded == IF IsOpen(h) THEN LoadPath(h, f, synthesis, handles[h].usage) ELSE {}
  <2>1. SwitchTo(h, loaded)
    BY <1>3 DEF SetDictionaryPath
  <2>2. \A m \in loaded : Loaded(h, m)
    BY <1>1, LoadPathLoads
  <2> HIDE DEF loaded
  <2> QED  BY <2>1, <2>2, SwitchToKeeps
<1> QED  BY <1>2, <1>3, SetDictionaryKeeps, DropKeeps DEF Switching

LEMMA SettingKeeps ==
  ASSUME IInv, NEW h \in Handles, Setting(h)
  PROVE  IInv'
<1> DEFINE old == handles[h].engine.config
<1>1. IsOpen(h) => old \in Config
  BY OpenHandle, Parts DEF IsOpen, IInv
<1>2. ASSUME NEW c \in CaseChoices, SetCaseHandling(h, c) PROVE IInv'
  <2> DEFINE config == [old EXCEPT !.case = c]
  <2>1. config \in Config /\ config.segmentation = old.segmentation
    BY <1>1, <1>2, MorfeuszHandlesAssumption DEF SetCaseHandling, Config
  <2>2. IsOpen(h) /\ SetConfig(h, config)
    BY <1>2 DEF SetCaseHandling
  <2> HIDE DEF config
  <2> QED  BY <2>1, <2>2, OtherOptionKeeps
<1>3. ASSUME NEW w \in WhitespaceChoices, SetWhitespaceHandling(h, w) PROVE IInv'
  <2> DEFINE config == [old EXCEPT !.whitespace = w]
  <2>1. config \in Config /\ config.segmentation = old.segmentation
    BY <1>1, <1>3, MorfeuszHandlesAssumption DEF SetWhitespaceHandling, Config
  <2>2. IsOpen(h) /\ SetConfig(h, config)
    BY <1>3 DEF SetWhitespaceHandling
  <2> HIDE DEF config
  <2> QED  BY <2>1, <2>2, OtherOptionKeeps
<1>4. ASSUME NEW n \in NumberingChoices, SetTokenNumbering(h, n) PROVE IInv'
  <2> DEFINE config == [old EXCEPT !.numbering = n]
  <2>1. config \in Config /\ config.segmentation = old.segmentation
    BY <1>1, <1>4, MorfeuszHandlesAssumption DEF SetTokenNumbering, Config
  <2>2. IsOpen(h) /\ SetConfig(h, config)
    BY <1>4 DEF SetTokenNumbering
  <2> HIDE DEF config
  <2> QED  BY <2>1, <2>2, OtherOptionKeeps
<1>5. ASSUME NEW v, SetSegmentation(h, "aggl", v) \/ SetSegmentation(h, "praet", v) PROVE IInv'
  BY <1>5, SetSegmentationKeeps DEF Settable
<1> QED  BY <1>2, <1>3, <1>4, <1>5 DEF Setting

-----------------------------------------------------------------------------
(* Analysis                                                                *)

(* The readings of a call are as the options of its handle want them.      *)
AsConfigured(h, readings) ==
  LET engine == handles[h].engine IN
  \A i \in DOMAIN readings :
    /\ readings[i].case = engine.config.case
    /\ readings[i].variant = VariantIn(engine.lexicon.analyzer, engine.config.segmentation)

(* A call goes on or ends, and caches nothing.                             *)
LEMMA CallKeeps ==
  ASSUME IInv, NEW h \in Handles, NEW c \in Call \cup {Idle},
         c # Idle => handles[h] # Unopened /\ AsConfigured(h, c.readings),
         calls' = [calls EXCEPT ![h] = c],
         UNCHANGED <<handles, caches, expected>>, outcome' \in {"ok", "error"}
  PROVE  IInv'
<1>1. TypeOK'
  BY DEF IInv, TypeOK
<1>2. HandlesSound' /\ CachesShared' /\ TemplatesStem'
  BY DEF IInv, HandlesSound, CachesShared, TemplatesStem, Uses
<1>3. CallsOpen'
  BY DEF IInv, TypeOK, CallsOpen
<1>4. AnsweredAsConfigured'
  BY DEF IInv, TypeOK, AnsweredAsConfigured, AsConfigured
<1> QED  BY <1>1, <1>2, <1>3, <1>4 DEF IInv

LEMMA BeginKeeps ==
  ASSUME IInv, NEW h \in Handles, IsOpen(h), NEW text \in Texts, NEW start \in Nat,
         NEW session \in BOOLEAN, Begin(h, text, start, session)
  PROVE  IInv'
<1> DEFINE c == [ todo |-> text, readings |-> <<>>, start |-> start,
                  node |-> start, session |-> session ]
<1>1. c \in Call /\ c.readings = <<>>
  <2>1. text \in Seq(Words \cup {Space})
    BY MorfeuszHandlesAssumption
  <2>2. <<>> \in Seq(Reading)
    OBVIOUS
  <2> QED  BY <2>1, <2>2 DEF Call
<1>2. calls' = [calls EXCEPT ![h] = c] /\ UNCHANGED <<handles, caches, outcome, expected>>
  BY DEF Begin
<1> HIDE DEF c
<1>3. AsConfigured(h, c.readings)
  BY <1>1 DEF AsConfigured
<1>4. outcome' \in {"ok", "error"}
  BY <1>2 DEF IInv, TypeOK
<1> QED  BY <1>1, <1>2, <1>3, <1>4, CallKeeps DEF IsOpen

(* A call under way and the engine that it uses.                           *)
LEMMA RunningHandle ==
  ASSUME IInv, NEW h \in Handles, calls[h] # Idle
  PROVE  /\ calls[h] \in Call /\ handles[h] \in Morfeusz /\ handles[h] # Unopened
         /\ Sound(handles[h])
         /\ EngineOf(h) = handles[h].engine
         /\ AsConfigured(h, calls[h].readings)
<1>1. handles[h] # Unopened
  BY DEF IInv, CallsOpen
<1>2. calls[h] \in Call /\ handles[h] \in Morfeusz
  BY <1>1 DEF IInv, TypeOK
<1>3. Sound(handles[h])
  BY <1>1 DEF IInv, HandlesSound
<1>4. AsConfigured(h, calls[h].readings)
  BY DEF IInv, AnsweredAsConfigured, AsConfigured
<1> QED  BY <1>1, <1>2, <1>3, <1>4 DEF EngineOf, Sound

LEMMA SkipSpaceKeeps ==
  ASSUME IInv, NEW h \in Handles, SkipSpace(h)
  PROVE  IInv'
<1> DEFINE gap == IF EngineOf(h).config.whitespace = "keep" THEN 1 ELSE 0
           c == [calls[h] EXCEPT !.todo = Tail(@), !.node = @ + gap]
<1>1. calls[h] # Idle /\ calls[h].todo # <<>>
  BY DEF SkipSpace, Running
<1>2. /\ calls[h] \in Call /\ handles[h] # Unopened
      /\ AsConfigured(h, calls[h].readings)
  BY <1>1, RunningHandle
<1>3. Tail(calls[h].todo) \in Seq(Words \cup {Space}) /\ gap \in Nat
  BY <1>1, <1>2 DEF Call
<1>4. calls' = [calls EXCEPT ![h] = c] /\ UNCHANGED <<handles, caches, outcome, expected>>
  BY DEF SkipSpace, IInv, TypeOK
<1> HIDE DEF gap
<1>5. c \in Call /\ c.readings = calls[h].readings
  <2>1. calls[h].node + gap \in Nat
    BY <1>2, <1>3 DEF Call
  <2> QED  BY <1>2, <1>3, <2>1 DEF Call
<1>6. outcome' \in {"ok", "error"}
  BY <1>4 DEF IInv, TypeOK
<1> HIDE DEF c
<1> QED  BY <1>2, <1>4, <1>5, <1>6, CallKeeps

(* The variant by which a handle reads words.                              *)
LEMMA VariantInType ==
  ASSUME NEW file \in FilesOrNone, NEW p \in Preset
  PROVE  VariantIn(file, p) \in VariantsOf(file) /\ VariantIn(file, p) \in Nat
<1>1. CASE file = NoFile
  BY <1>1 DEF VariantIn, VariantsOf
<1>2. CASE file # NoFile
  <2>1. FileMetadata[file] \in Metadata
    BY <1>2, Constants
  <2>2. Len(FileMetadata[file].variants) \in Nat
    BY <2>1 DEF Metadata
  <2> QED  BY <1>2, <2>1, <2>2, VariantForType DEF VariantIn, VariantsOf
<1> QED  BY <1>1, <1>2

(* The call after a word was read as the options want it.                  *)
LEMMA AnsweredCall ==
  ASSUME IInv, NEW h \in Handles, Running(h), Head(calls[h].todo) # Space,
         NEW case, NEW variant, Answered(h, case, variant),
         case = EngineOf(h).config.case,
         variant = VariantIn(EngineOf(h).lexicon.analyzer, EngineOf(h).config.segmentation)
  PROVE  \E c \in Call : /\ calls' = [calls EXCEPT ![h] = c]
                         /\ AsConfigured(h, c.readings)
<1> DEFINE engine == EngineOf(h)
           file == engine.lexicon.analyzer
           word == Head(calls[h].todo)
           next == calls[h].node + Nodes(file, word, variant)
           r == [ word |-> word, case |-> case, variant |-> variant,
                  start |-> calls[h].node, next |-> next ]
           c == [calls[h] EXCEPT !.todo = Tail(@), !.node = next, !.readings = Append(@, r)]
<1>1. /\ calls[h] \in Call /\ handles[h] \in Morfeusz /\ engine = handles[h].engine
      /\ AsConfigured(h, calls[h].readings)
  BY RunningHandle DEF Running
<1>2. calls[h].todo \in Seq(Words \cup {Space}) /\ calls[h].todo # <<>>
  BY <1>1 DEF Call, Running
<1>3. word \in Words /\ Tail(calls[h].todo) \in Seq(Words \cup {Space})
  BY <1>2
<1>4. /\ file \in FilesOrNone /\ case \in DOMAIN CaseCode
      /\ engine.config.segmentation \in Preset
  BY <1>1, Parts
<1>5. variant \in VariantsOf(file) /\ variant \in Nat
  BY <1>4, VariantInType
<1>6. Nodes(file, word, variant) \in Nat
  BY <1>3, <1>4, <1>5, MorfeuszHandlesAssumption
<1>7. r \in Reading /\ next \in Nat
  BY <1>1, <1>3, <1>4, <1>5, <1>6 DEF Call, Reading
<1>8. calls[h].readings \in Seq(Reading)
  BY <1>1 DEF Call
<1> HIDE DEF r, next
<1>9. Append(calls[h].readings, r) \in Seq(Reading)
  BY <1>7, <1>8
<1>10. c \in Call /\ c.readings = Append(calls[h].readings, r)
  BY <1>1, <1>3, <1>7, <1>9 DEF Call
<1>11. calls' = [calls EXCEPT ![h] = c]
  BY DEF Answered, IInv, TypeOK, r, next
<1>12. r.case = handles[h].engine.config.case
       /\ r.variant = VariantIn(handles[h].engine.lexicon.analyzer,
                                handles[h].engine.config.segmentation)
  BY <1>1 DEF r
<1>13. AsConfigured(h, Append(calls[h].readings, r))
  BY <1>1, <1>7, <1>8, <1>12 DEF AsConfigured
<1> HIDE DEF c
<1> QED  BY <1>10, <1>11, <1>13

(* A template that a handle finds was made by the automaton and the case   *)
(* handling that the handle has now: this is what the cache key is for.    *)
LEMMA HitsTrue ==
  ASSUME IInv, NEW h \in Handles, handles[h] # Unopened, NEW word,
         NEW t \in Hits(handles[h].engine, word)
  PROVE  /\ t.case = handles[h].engine.config.case
         /\ t.variant = VariantIn(handles[h].engine.lexicon.analyzer,
                                  handles[h].engine.config.segmentation)
<1> DEFINE engine == handles[h].engine
           file == engine.lexicon.analyzer
           md == FileMetadata[file]
           k == engine.lexicon.caches
           q == engine.config.segmentation
<1>1. handles[h] \in Morfeusz /\ Sound(handles[h])
  BY OpenHandle DEF IInv, HandlesSound
<1>2. k # NoCache /\ t \in caches[k] /\ t.key = KeyOf(engine)
  BY DEF Hits
<1>3. k \in CacheIds /\ file \in Files /\ file # NoFile
  BY <1>1, <1>2, Parts, Constants DEF Sound
<1>4. t \in Template
  BY <1>2, <1>3 DEF IInv, TypeOK
<1>5. PICK p \in Preset : t.key = CacheKey(md, t.case, p) /\ t.variant = VariantFor(md, p)
  BY <1>2, <1>3 DEF IInv, TemplatesStem, Uses, Stems
<1>6. md \in Metadata /\ q \in Preset /\ engine.config.case \in DOMAIN CaseCode
  BY <1>1, <1>3, Parts, Constants
<1>7. CacheKey(md, engine.config.case, q) = CacheKey(md, t.case, p)
      /\ CacheKey(md, t.case, p) # NoKey
  <2>1. t.key \in Int
    BY <1>4 DEF Template
  <2> QED  BY <1>2, <1>5, <2>1, SegmentationOptionsAssumption DEF KeyOf
<1>8. t.case \in DOMAIN CaseCode
  BY <1>4 DEF Template
<1>9. t.case = engine.config.case /\ VariantFor(md, p) = VariantFor(md, q)
  BY <1>5, <1>6, <1>7, <1>8, KeysTellVariants DEF KeyTellsVariant
<1> QED  BY <1>3, <1>5, <1>9 DEF VariantIn

(* A new template stems from the options under which it was made.          *)
LEMMA CachingKeeps ==
  ASSUME IInv, NEW h \in Handles, handles[h] # Unopened, NEW word \in Words,
         LET engine == handles[h].engine IN
         /\ KeyOf(engine) # NoKey
         /\ caches' = [caches EXCEPT ![engine.lexicon.caches] = @ \cup
              {[ word |-> word, key |-> KeyOf(engine), case |-> engine.config.case,
                 variant |-> VariantIn(engine.lexicon.analyzer, engine.config.segmentation) ]}],
         handles' = handles
  PROVE  caches' \in [CacheIds -> SUBSET Template] /\ TemplatesStem'
<1> DEFINE engine == handles[h].engine
           file == engine.lexicon.analyzer
           k == engine.lexicon.caches
           p == engine.config.segmentation
           v == VariantIn(file, p)
           t == [ word |-> word, key |-> KeyOf(engine), case |-> engine.config.case, variant |-> v ]
<1>1. handles[h] \in Morfeusz /\ Sound(handles[h])
  BY OpenHandle DEF IInv, HandlesSound
<1>2. k # NoCache /\ k \in CacheIds /\ file \in Files /\ file # NoFile
  BY <1>1, Parts, Constants DEF KeyOf, Sound
<1>3. FileMetadata[file] \in Metadata /\ p \in Preset /\ engine.config.case \in DOMAIN CaseCode
  BY <1>1, <1>2, Parts, Constants
<1>4. /\ KeyOf(engine) = CacheKey(FileMetadata[file], engine.config.case, p)
      /\ KeyOf(engine) \in Int
  BY <1>2, <1>3, CacheKeyType DEF KeyOf
<1>5. v = VariantFor(FileMetadata[file], p) /\ v \in Nat
  BY <1>2, <1>3, VariantInType, Constants, SMTT(30) DEF VariantIn
<1>6. t \in Template /\ Stems(t, FileMetadata[file])
  BY <1>3, <1>4, <1>5 DEF Template, Stems
<1>7. /\ caches \in [CacheIds -> SUBSET Template]
      /\ caches' = [caches EXCEPT ![k] = @ \cup {t}]
  BY DEF IInv, TypeOK
<1> HIDE DEF t
<1>8. caches' \in [CacheIds -> SUBSET Template]
  BY <1>2, <1>6, <1>7
<1>9. TemplatesStem'
  <2> SUFFICES ASSUME NEW c \in CacheIds, NEW o \in Handles, Uses(o, c), NEW u \in caches'[c]
               PROVE  Stems(u, FileMetadata[handles[o].engine.lexicon.analyzer])
    BY DEF TemplatesStem, Stems, Uses
  <2>1. CASE u \in caches[c]
    BY <2>1 DEF IInv, TemplatesStem
  <2>2. CASE u \notin caches[c]
    <3>1. c = k /\ u = t
      BY <1>7, <2>2
    <3>2. handles[o].engine.lexicon.analyzer = file
      BY <3>1 DEF IInv, CachesShared, Uses
    <3> QED  BY <1>6, <3>1, <3>2
  <2> QED  BY <2>1, <2>2
<1> QED  BY <1>8, <1>9

LEMMA ReadWordKeeps ==
  ASSUME IInv, NEW h \in Handles, ReadWord(h)
  PROVE  IInv'
<1> DEFINE engine  == EngineOf(h)
           word    == Head(calls[h].todo)
           lexicon == engine.lexicon
           preset  == engine.config.segmentation
           variant == VariantIn(lexicon.analyzer, preset)
           template == [ word |-> word, key |-> KeyOf(engine),
                         case |-> engine.config.case, variant |-> variant ]
<1>1. /\ Running(h) /\ word # Space
      /\ handles[h] # Unopened /\ engine = handles[h].engine
      /\ calls[h] \in Call
  BY RunningHandle DEF ReadWord, Running
<1>2. word \in Words
  <2>1. calls[h].todo \in Seq(Words \cup {Space}) /\ calls[h].todo # <<>>
    BY <1>1 DEF Call, Running
  <2> QED  BY <1>1, <2>1
<1>3. ASSUME NEW t \in Hits(engine, word), Answered(h, t.case, t.variant),
             UNCHANGED <<handles, caches, outcome, expected>>
      PROVE  IInv'
  <2>1. t.case = engine.config.case /\ t.variant = variant
    BY <1>1, HitsTrue
  <2>2. PICK c \in Call : calls' = [calls EXCEPT ![h] = c] /\ AsConfigured(h, c.readings)
    BY <1>1, <1>3, <2>1, AnsweredCall
  <2>3. outcome' \in {"ok", "error"}
    BY <1>3 DEF IInv, TypeOK
  <2> QED  BY <1>1, <1>3, <2>2, <2>3, CallKeeps
<1>4. ASSUME Answered(h, engine.config.case, variant), UNCHANGED <<handles, outcome, expected>>,
             \/ UNCHANGED caches
             \/ /\ KeyOf(engine) # NoKey
                /\ caches' = [caches EXCEPT ![lexicon.caches] = @ \cup {template}]
      PROVE  IInv'
  <2>1. PICK c \in Call : calls' = [calls EXCEPT ![h] = c] /\ AsConfigured(h, c.readings)
    BY <1>1, <1>4, AnsweredCall
  <2>2. outcome' \in {"ok", "error"}
    BY <1>4 DEF IInv, TypeOK
  <2>3. CASE UNCHANGED caches
    BY <1>1, <1>4, <2>1, <2>2, <2>3, CallKeeps
  <2>4. CASE /\ KeyOf(engine) # NoKey
             /\ caches' = [caches EXCEPT ![lexicon.caches] = @ \cup {template}]
    <3>1. caches' \in [CacheIds -> SUBSET Template] /\ TemplatesStem'
      BY <1>1, <1>2, <1>4, <2>4, CachingKeeps
    <3>2. TypeOK'
      BY <1>4, <2>1, <2>2, <3>1 DEF IInv, TypeOK
    <3>3. HandlesSound' /\ CachesShared'
      BY <1>4 DEF IInv, HandlesSound, CachesShared, Uses
    <3>4. CallsOpen'
      BY <1>1, <1>4, <2>1 DEF IInv, TypeOK, CallsOpen
    <3>5. AnsweredAsConfigured'
      BY <1>1, <1>4, <2>1 DEF IInv, TypeOK, AnsweredAsConfigured, AsConfigured
    <3> QED  BY <3>1, <3>2, <3>3, <3>4, <3>5 DEF IInv
  <2> QED  BY <1>4, <2>3, <2>4
<1>5. ASSUME GiveUp(h) PROVE IInv'
  BY <1>5, CallKeeps DEF GiveUp
<1> QED  BY <1>3, <1>4, <1>5 DEF ReadWord

LEMMA ReturnKeeps ==
  ASSUME IInv, NEW h \in Handles, Return(h)
  PROVE  IInv'
<1> DEFINE m == [handles[h] EXCEPT !.session.next_node = calls[h].node]
<1>1. /\ calls[h] \in Call /\ handles[h] \in Morfeusz /\ handles[h] # Unopened
      /\ Sound(handles[h])
  BY RunningHandle DEF Return
<1>2. /\ calls' = [calls EXCEPT ![h] = Idle] /\ caches' = caches /\ outcome' = "ok"
      /\ \/ handles' = [handles EXCEPT ![h] = m] /\ expected' = [expected EXCEPT ![h] = calls[h].node]
         \/ UNCHANGED <<handles, expected>>
  BY DEF Return, IInv, TypeOK
<1>3. CASE UNCHANGED <<handles, expected>>
  BY <1>2, <1>3, CallKeeps
<1>4. CASE handles' = [handles EXCEPT ![h] = m] /\ expected' = [expected EXCEPT ![h] = calls[h].node]
  <2>1. m \in Morfeusz /\ m.engine = handles[h].engine /\ m.usage = handles[h].usage
        /\ m.session.engine = handles[h].session.engine
    BY <1>1 DEF Call, Morfeusz, Session
  <2>2. Sound(m)
    BY <1>1, <2>1, SoundParts
  <2> HIDE DEF m
  <2>3. /\ handles' \in [Handles -> Morfeusz \cup {Unopened}]
        /\ \A o \in Handles : /\ handles'[o] # Unopened <=> handles[o] # Unopened
                              /\ handles'[o].engine = handles[o].engine
    BY <1>1, <1>4, <2>1, Constants DEF IInv, TypeOK
  <2>4. TypeOK'
    BY <1>1, <1>2, <1>4, <2>3 DEF IInv, TypeOK, Call
  <2>5. HandlesSound'
    BY <1>4, <2>1, <2>2 DEF IInv, TypeOK, HandlesSound, Sound, CanAnalyse, CanGenerate
  <2>6. CallsOpen'
    BY <1>2, <2>3 DEF IInv, TypeOK, CallsOpen
  <2>7. CachesShared' /\ TemplatesStem'
    BY <1>2, <2>3 DEF IInv, CachesShared, TemplatesStem, Uses
  <2>8. AnsweredAsConfigured'
    BY <1>2, <2>3 DEF IInv, TypeOK, AnsweredAsConfigured
  <2> QED  BY <2>4, <2>5, <2>6, <2>7, <2>8 DEF IInv
<1> QED  BY <1>2, <1>3, <1>4

LEMMA UsingKeeps ==
  ASSUME IInv, NEW h \in Handles, Using(h)
  PROVE  IInv'
<1>1. ASSUME NEW t \in Texts, Analyse(h, t) PROVE IInv'
  <2>1. CASE Fail
    BY <2>1, IdleKeeps DEF Fail
  <2>2. CASE Begin(h, t, StartNode(handles[h].session), TRUE)
    <3>1. handles[h] \in Morfeusz
      BY <1>1, OpenHandle DEF Analyse, IsOpen, IInv
    <3>2. StartNode(handles[h].session) \in Nat
      BY <3>1, Parts DEF StartNode
    <3> QED  BY <1>1, <2>2, <3>2, BeginKeeps DEF Analyse
  <2> QED  BY <1>1, <2>1, <2>2 DEF Analyse
<1>2. ASSUME NEW t \in Texts, NEW n \in StartChoices, AnalyseFrom(h, t, n) PROVE IInv'
  <2>1. n \in Nat
    BY MorfeuszHandlesAssumption
  <2>2. CASE Fail
    BY <2>2, IdleKeeps DEF Fail
  <2> QED  BY <1>2, <2>1, <2>2, BeginKeeps DEF AnalyseFrom
<1>3. ASSUME Generate(h) PROVE IInv'
  BY <1>3, IdleKeeps DEF Generate
<1> QED  BY <1>1, <1>2, <1>3, SkipSpaceKeeps, ReadWordKeeps, ReturnKeeps DEF Using

-----------------------------------------------------------------------------
(* The theorems                                                            *)

LEMMA InitHolds == Init => IInv
<1> SUFFICES ASSUME Init PROVE IInv
  OBVIOUS
<1>1. TypeOK
  BY DEF Init, TypeOK
<1>2. HandlesSound /\ CallsOpen /\ CachesShared /\ TemplatesStem /\ AnsweredAsConfigured
  BY DEF Init, HandlesSound, CallsOpen, CachesShared, TemplatesStem, Uses, AnsweredAsConfigured
<1> QED  BY <1>1, <1>2 DEF IInv

LEMMA NextKeeps == IInv /\ [Next]_vars => IInv'
<1> SUFFICES ASSUME IInv, [Next]_vars PROVE IInv'
  OBVIOUS
<1>1. ASSUME NEW h \in Handles, Opening(h) \/ Switching(h) \/ Setting(h) \/ Using(h)
      PROVE  IInv'
  BY <1>1, OpeningKeeps, SwitchingKeeps, SettingKeeps, UsingKeeps
<1>2. CASE UNCHANGED vars
  <2>1. UNCHANGED <<handles, caches, calls, expected>> /\ outcome' \in {"ok", "error"}
    BY <1>2 DEF vars, IInv, TypeOK
  <2> QED  BY <2>1, IdleKeeps
<1> QED  BY <1>1, <1>2 DEF Next

LEMMA HandlesInvariance == Spec => []IInv
BY InitHolds, NextKeeps, PTL DEF Spec

(* Whatever callers do, handles, calls and templates are well-formed.      *)
THEOREM HandlesTypeCorrect == Spec => []TypeOK
<1>1. IInv => TypeOK
  BY DEF IInv
<1> QED  BY <1>1, HandlesInvariance, PTL

(* Every word that Session::analyze and Engine::analyze_from answer is     *)
(* read under the handle's own options, though handles share caches.       *)
THEOREM OptionsObeyed == Spec => []AnsweredAsConfigured
<1>1. IInv => AnsweredAsConfigured
  BY DEF IInv
<1> QED  BY <1>1, HandlesInvariance, PTL

(* A cached template answers every choice of options that has its key.     *)
THEOREM SharedTemplatesTrue == Spec => []TemplatesTrue
<1>1. IInv => TemplatesTrue
  <2> SUFFICES ASSUME IInv, NEW h \in Handles, handles[h] # Unopened,
                      handles[h].engine.lexicon.caches # NoCache,
                      NEW t \in caches[handles[h].engine.lexicon.caches],
                      NEW p \in Preset, NEW c \in DOMAIN CaseCode,
                      CacheKey(FileMetadata[handles[h].engine.lexicon.analyzer], c, p) = t.key
               PROVE  /\ t.case = c
                      /\ t.variant =
                           VariantFor(FileMetadata[handles[h].engine.lexicon.analyzer], p)
    BY DEF TemplatesTrue
  <2> DEFINE lexicon == handles[h].engine.lexicon
             md == FileMetadata[lexicon.analyzer]
  <2>1. handles[h] \in Morfeusz /\ Sound(handles[h])
    BY OpenHandle DEF IInv, HandlesSound
  <2>2. lexicon.caches \in CacheIds /\ md \in Metadata
    BY <2>1, Parts, Constants DEF Sound
  <2>3. t \in Template
    BY <2>2 DEF IInv, TypeOK
  <2>4. PICK q \in Preset : t.key = CacheKey(md, t.case, q) /\ t.variant = VariantFor(md, q)
    BY <2>2 DEF IInv, TemplatesStem, Uses, Stems
  <2>5. t.key # NoKey /\ t.case \in DOMAIN CaseCode
    BY <2>3, SegmentationOptionsAssumption DEF Template
  <2> QED  BY <2>2, <2>4, <2>5, KeysTellVariants DEF KeyTellsVariant
<1> QED  BY <1>1, HandlesInvariance, PTL

(* No sequence of constructors, setters and dictionary switches leaves a   *)
(* handle with options that one of its dictionaries has no automaton for.  *)
THEOREM AlwaysSelectable == Spec => []SegmentationSelectable
<1>1. IInv => SegmentationSelectable
  BY DEF IInv, HandlesSound, Sound, SegmentationSelectable
<1> QED  BY <1>1, HandlesInvariance, PTL

(* A handle that admits analysis or synthesis has the file for it.         *)
THEOREM UsageAlwaysServed == Spec => []UsageServed
<1>1. IInv => UsageServed
  BY DEF IInv, HandlesSound, Sound, UsageServed
<1> QED  BY <1>1, HandlesInvariance, PTL

LEMMA ReportedInOptions ==
  ASSUME NEW m \in Morfeusz, m.engine.lexicon.analyzer # NoFile,
         NEW option \in Settable, NEW conventional
  PROVE  LET md == FileMetadata[m.engine.lexicon.analyzer]
             options == EffectiveOptions(md, m.engine.config.segmentation)
         IN  option \in DOMAIN options => options[option] = Reported(m, option, conventional)
<1> DEFINE md == FileMetadata[m.engine.lexicon.analyzer]
           p  == m.engine.config.segmentation
<1>1. CASE IsSet(p, option)
  BY <1>1 DEF EffectiveOptions, Wanted, Reported
<1>2. CASE ~IsSet(p, option)
  <2>1. option \in DOMAIN EffectiveOptions(md, p) => option \in DOMAIN md.default_options
    BY <1>2 DEF EffectiveOptions, Extra
  <2>2. Reported(m, option, conventional) =
          IF option \in DOMAIN md.default_options THEN md.default_options[option] ELSE conventional
    BY <1>2, SMTT(30) DEF Reported
  <2> QED  BY <1>2, <2>1, <2>2 DEF EffectiveOptions, Wanted
<1> QED  BY <1>1, <1>2

(* What aggl and praet report is what the words are read with.             *)
THEOREM ReportedObeyed == Spec => []ReportedOptionsUsed
<1>1. IInv => ReportedOptionsUsed
  <2> SUFFICES ASSUME IInv, NEW h \in Handles, calls[h] # Idle,
                      NEW i \in DOMAIN calls[h].readings, calls[h].readings[i].variant # 0
               PROVE  LET v == calls[h].readings[i].variant
                          options == FileMetadata[handles[h].engine.lexicon.analyzer].variants[v].options
                      IN  /\ Has(options, "aggl", Reported(handles[h], "aggl", "permissive"))
                             \/ "aggl" \notin DOMAIN options
                          /\ Has(options, "praet", Reported(handles[h], "praet", "split"))
                             \/ "praet" \notin DOMAIN options
    BY DEF ReportedOptionsUsed
  <2> DEFINE file == handles[h].engine.lexicon.analyzer
             md == FileMetadata[file]
             p == handles[h].engine.config.segmentation
             v == calls[h].readings[i].variant
  <2>1. handles[h] \in Morfeusz /\ v = VariantIn(file, p)
    BY RunningHandle DEF AsConfigured
  <2>2. file # NoFile /\ file \in Files /\ p \in Preset
    BY <2>1, Parts, Constants DEF VariantIn
  <2>3. v = VariantFor(md, p) /\ md \in Metadata
    BY <2>1, <2>2, Constants DEF VariantIn
  <2>4. md.variants[v].options = EffectiveOptions(md, p)
    BY <2>2, <2>3, VariantForType
  <2>5. "aggl" \in Settable /\ "praet" \in Settable
    BY DEF Settable
  <2>6. /\ "aggl" \in DOMAIN EffectiveOptions(md, p) =>
             EffectiveOptions(md, p)["aggl"] = Reported(handles[h], "aggl", "permissive")
        /\ "praet" \in DOMAIN EffectiveOptions(md, p) =>
             EffectiveOptions(md, p)["praet"] = Reported(handles[h], "praet", "split")
    BY <2>1, <2>2, <2>5, ReportedInOptions
  <2> HIDE DEF v
  <2> QED  BY <2>4, <2>6, SMTT(30) DEF Has, v
<1> QED  BY <1>1, HandlesInvariance, PTL

-----------------------------------------------------------------------------
(* Numbering                                                               *)

(* Steps during which the handles that have a call under way rest.         *)
LEMMA RestingNumbered ==
  ASSUME IInv, NumberedInv, calls' = calls,
         \A o \in Handles : calls[o] # Idle => handles'[o] = handles[o] /\ expected'[o] = expected[o],
         \A o \in Handles : handles'[o] # Unopened => expected'[o] = handles'[o].session.next_node
  PROVE  NumberedInv'
<1>1. \A h \in Handles : calls[h] # Idle => Gaps(h)' = Gaps(h)
  BY DEF Gaps
<1>2. \A h \in Handles : calls[h] # Idle => Numbered(h)'
  BY <1>1 DEF NumberedInv, Numbered
<1>3. NodesFollowOn'
  BY <1>1 DEF NumberedInv, NodesFollowOn
<1> QED  BY <1>2, <1>3 DEF NumberedInv

LEMMA BecomeNumbered ==
  ASSUME IInv, NumberedInv, NEW h \in Handles, calls[h] = Idle,
         NEW m, m.session.next_node = 0, Become(h, m)
  PROVE  NumberedInv'
<1>1. /\ calls' = calls /\ handles'[h] = m /\ expected'[h] = 0
      /\ \A o \in Handles \ {h} : handles'[o] = handles[o] /\ expected'[o] = expected[o]
  BY DEF Become, IInv, TypeOK
<1>2. \A o \in Handles : handles'[o] # Unopened => expected'[o] = handles'[o].session.next_node
  BY <1>1 DEF NumberedInv
<1>3. \A o \in Handles : calls[o] # Idle => handles'[o] = handles[o] /\ expected'[o] = expected[o]
  BY <1>1
<1> QED  BY <1>1, <1>2, <1>3, RestingNumbered

LEMMA StartsAtZero ==
  /\ \A engine, usage : WithEngine(engine, usage).session.next_node = 0
  /\ \A h, m : Loaded(h, m) => m.session.next_node = 0
  /\ \A old, m : Replaced(old, m).session.next_node = 0
BY DEF WithEngine, NewSession, Loaded, WithLexicon, Replaced

LEMMA IdleNumbered ==
  ASSUME IInv, NumberedInv, UNCHANGED <<handles, calls, expected>>
  PROVE  NumberedInv'
BY RestingNumbered DEF NumberedInv

LEMMA OpeningNumbered ==
  ASSUME IInv, NumberedInv, NEW h \in Handles, Opening(h)
  PROVE  NumberedInv'
<1>1. ASSUME NEW usage, New(h, usage) PROVE NumberedInv'
  BY <1>1, BecomeNumbered, StartsAtZero, UnopenedIdle DEF New, WithLexicon
<1>2. ASSUME NEW usage \in UsageChoices, NEW n \in Names, CreateInstanceNamed(h, n, usage)
      PROVE NumberedInv'
  <2> DEFINE loaded == LoadNamed(h, n, usage)
  <2>1. OpenAs(h, loaded) /\ usage \in Usages
    BY <1>2, MorfeuszHandlesAssumption DEF CreateInstanceNamed
  <2>2. \A m \in loaded : m.session.next_node = 0
    BY <2>1, LoadNamedLoads, StartsAtZero
  <2> HIDE DEF loaded
  <2>3. CASE Fail
    BY <2>3, IdleNumbered DEF Fail
  <2> QED  BY <2>1, <2>2, <2>3, BecomeNumbered, UnopenedIdle DEF OpenAs
<1>3. ASSUME NEW o \in Handles, Clone(o, h) PROVE NumberedInv'
  <2>1. /\ calls' = calls /\ calls[h] = Idle /\ handles[o] # Unopened
        /\ handles'[h] = handles[o] /\ expected'[h] = expected[o]
        /\ \A u \in Handles \ {h} : handles'[u] = handles[u] /\ expected'[u] = expected[u]
    BY <1>3, UnopenedIdle DEF Clone, IsOpen, IInv, TypeOK
  <2>2. \A u \in Handles : handles'[u] # Unopened => expected'[u] = handles'[u].session.next_node
    BY <2>1 DEF NumberedInv
  <2>3. \A u \in Handles : calls[u] # Idle => handles'[u] = handles[u] /\ expected'[u] = expected[u]
    BY <2>1
  <2> QED  BY <2>1, <2>2, <2>3, RestingNumbered
<1>4. ASSUME NEW o \in Handles, Fork(o, h) PROVE NumberedInv'
  BY <1>4, BecomeNumbered, StartsAtZero, UnopenedIdle DEF Fork
<1> QED  BY <1>1, <1>2, <1>3, <1>4 DEF Opening

LEMMA SwitchToNumbered ==
  ASSUME IInv, NumberedInv, NEW h \in Handles, NEW loaded, SwitchTo(h, loaded)
  PROVE  NumberedInv'
<1>1. CASE Fail
  BY <1>1, IdleNumbered DEF Fail
<1>2. CASE \E m \in loaded : Become(h, Replaced(handles[h], m))
  BY <1>2, BecomeNumbered, StartsAtZero DEF SwitchTo, IsOpen
<1> QED  BY <1>1, <1>2 DEF SwitchTo

LEMMA SwitchingNumbered ==
  ASSUME IInv, NumberedInv, NEW h \in Handles, Switching(h)
  PROVE  NumberedInv'
<1>1. ASSUME SetDictionary(h) PROVE NumberedInv'
  BY <1>1, BecomeNumbered, StartsAtZero DEF SetDictionary, IsOpen
<1>2. ASSUME Drop(h) PROVE NumberedInv'
  <2>1. /\ calls' = calls /\ calls[h] = Idle /\ handles'[h] = Unopened
        /\ \A u \in Handles \ {h} : handles'[u] = handles[u] /\ expected'[u] = expected[u]
    BY <1>2 DEF Drop, IsOpen, IInv, TypeOK
  <2>2. \A u \in Handles : handles'[u] # Unopened => expected'[u] = handles'[u].session.next_node
    BY <2>1 DEF NumberedInv
  <2>3. \A u \in Handles : calls[u] # Idle => handles'[u] = handles[u] /\ expected'[u] = expected[u]
    BY <2>1
  <2> QED  BY <2>1, <2>2, <2>3, RestingNumbered
<1>3. ASSUME NEW n, SetDictionaryNamed(h, n) PROVE NumberedInv'
  BY <1>3, SwitchToNumbered DEF SetDictionaryNamed
<1>4. ASSUME NEW f, NEW synthesis, SetDictionaryPath(h, f, synthesis) PROVE NumberedInv'
  BY <1>4, SwitchToNumbered DEF SetDictionaryPath
<1> QED  BY <1>1, <1>2, <1>3, <1>4 DEF Switching

LEMMA SettingNumbered ==
  ASSUME IInv, NumberedInv, NEW h \in Handles, Setting(h)
  PROVE  NumberedInv'
<1>1. ASSUME IsOpen(h), NEW config, SetConfig(h, config) PROVE NumberedInv'
  BY <1>1, BecomeNumbered, StartsAtZero DEF SetConfig, UpdateConfig, IsOpen
<1>2. ASSUME NEW option, NEW value, SetSegmentation(h, option, value) PROVE NumberedInv'
  <2>1. CASE Fail
    BY <2>1, IdleNumbered DEF Fail
  <2> QED  BY <1>1, <1>2, <2>1 DEF SetSegmentation
<1> QED  BY <1>1, <1>2 DEF Setting, SetCaseHandling, SetWhitespaceHandling, SetTokenNumbering

(* A call whose words are numbered on from each other.                     *)
Follows(h, c) ==
  /\ c.session =>
       c.start = IF handles[h].engine.config.numbering = "continuous" THEN expected[h] ELSE 0
  /\ \A i \in DOMAIN c.readings :
       c.readings[i].start -
         (IF i = 1 THEN c.start ELSE c.readings[i - 1].next) \in Gaps(h)
  /\ c.node - Reached(c) \in Gaps(h)
  /\ c.node # Reached(c) /\ c.todo # <<>> => Head(c.todo) # Space
  /\ SingleSpaces(c.todo)

LEMMA CallFollows ==
  ASSUME NumberedInv, NEW h \in Handles, calls[h] # Idle
  PROVE  Follows(h, calls[h])
BY DEF NumberedInv, NodesFollowOn, Numbered, Follows

LEMMA CallNumbered ==
  ASSUME IInv, NumberedInv, NEW h \in Handles, NEW c, c # Idle => Follows(h, c),
         calls' = [calls EXCEPT ![h] = c], UNCHANGED <<handles, expected>>
  PROVE  NumberedInv'
<1>1. /\ calls'[h] = c
      /\ \A o \in Handles \ {h} : calls'[o] = calls[o]
      /\ \A o \in Handles : Gaps(o)' = Gaps(o)
  BY DEF IInv, TypeOK, Gaps
<1>2. ASSUME NEW o \in Handles, calls'[o] # Idle PROVE Follows(o, calls'[o])
  BY <1>1, <1>2, CallFollows
<1>3. \A o \in Handles : calls'[o] # Idle => Numbered(o)'
  BY <1>1, <1>2 DEF Follows, Numbered
<1>4. NodesFollowOn'
  BY <1>1, <1>2 DEF Follows, NodesFollowOn
<1> QED  BY <1>3, <1>4 DEF NumberedInv

LEMMA GapsType == \A h \in Handles : 0 \in Gaps(h) /\ Gaps(h) \subseteq {0, 1}
BY DEF Gaps

LEMMA AnalyseNumbered ==
  ASSUME IInv, NumberedInv, NEW h \in Handles, NEW text \in Texts,
         Analyse(h, text) \/ \E n \in StartChoices : AnalyseFrom(h, text, n)
  PROVE  NumberedInv'
<1>1. ASSUME NEW start \in Nat, NEW session \in BOOLEAN, Begin(h, text, start, session),
             session => start = IF handles[h].engine.config.numbering = "continuous"
                                THEN expected[h] ELSE 0
      PROVE  NumberedInv'
  <2> DEFINE c == [ todo |-> text, readings |-> <<>>, start |-> start,
                    node |-> start, session |-> session ]
  <2>1. SingleSpaces(text)
    BY MorfeuszHandlesAssumption
  <2>2. /\ c.todo = text /\ c.readings = <<>> /\ c.start = start /\ c.node = start
        /\ c.session = session /\ Reached(c) = start
    BY DEF Reached
  <2>3. calls' = [calls EXCEPT ![h] = c] /\ UNCHANGED <<handles, expected>>
    BY <1>1 DEF Begin
  <2> HIDE DEF c
  <2>4. Follows(h, c)
    BY <1>1, <2>1, <2>2, GapsType DEF Follows
  <2> QED  BY <2>3, <2>4, CallNumbered
<1>2. CASE Fail
  BY <1>2, IdleNumbered DEF Fail
<1>3. CASE IsOpen(h) /\ Begin(h, text, StartNode(handles[h].session), TRUE)
  <2>1. /\ handles[h] \in Morfeusz /\ handles[h] # Unopened /\ Sound(handles[h])
        /\ expected[h] = handles[h].session.next_node
    BY <1>3, OpenHandle DEF IsOpen, IInv, HandlesSound, NumberedInv
  <2>2. handles[h].engine.config.numbering \in {"separate", "continuous"}
    BY <2>1, Parts DEF Config, Numberings
  <2>3. /\ StartNode(handles[h].session) \in Nat
        /\ StartNode(handles[h].session) =
             IF handles[h].engine.config.numbering = "continuous" THEN expected[h] ELSE 0
    BY <2>1, <2>2, Parts DEF StartNode, Sound
  <2> QED  BY <1>1, <1>3, <2>3
<1>4. ASSUME NEW n \in StartChoices, Begin(h, text, n, FALSE) PROVE NumberedInv'
  BY <1>1, <1>4, MorfeuszHandlesAssumption
<1> QED  BY <1>2, <1>3, <1>4 DEF Analyse, AnalyseFrom

(* What is left of a text after its first word or space.                   *)
LEMMA TailSpaces ==
  ASSUME NEW todo \in Seq(Words \cup {Space}), todo # <<>>, SingleSpaces(todo)
  PROVE  /\ SingleSpaces(Tail(todo))
         /\ Head(todo) = Space /\ Tail(todo) # <<>> => Head(Tail(todo)) # Space
<1>1. /\ Len(todo) \in Nat /\ Len(todo) >= 1 /\ Len(Tail(todo)) = Len(todo) - 1
      /\ \A i \in 1 .. Len(todo) - 1 : Tail(todo)[i] = todo[i + 1]
      /\ Head(todo) = todo[1] /\ Tail(todo) \in Seq(Words \cup {Space})
  OBVIOUS
<1>2. SingleSpaces(Tail(todo))
  BY <1>1 DEF SingleSpaces
<1>3. Tail(todo) # <<>> => 1 \in 1 .. Len(todo) - 1 /\ Head(Tail(todo)) = todo[2]
  BY <1>1
<1> QED  BY <1>1, <1>2, <1>3 DEF SingleSpaces

LEMMA SkipSpaceNumbered ==
  ASSUME IInv, NumberedInv, NEW h \in Handles, SkipSpace(h)
  PROVE  NumberedInv'
<1> DEFINE gap == IF EngineOf(h).config.whitespace = "keep" THEN 1 ELSE 0
           old == calls[h]
           c == [old EXCEPT !.todo = Tail(@), !.node = @ + gap]
<1>1. old # Idle /\ old.todo # <<>> /\ Head(old.todo) = Space
  BY DEF SkipSpace, Running
<1>2. /\ old \in Call /\ EngineOf(h) = handles[h].engine
      /\ Follows(h, old)
  BY <1>1, RunningHandle, CallFollows
<1>3. gap \in Gaps(h) /\ gap \in {0, 1}
  BY <1>2 DEF Gaps
<1>4. calls' = [calls EXCEPT ![h] = c] /\ UNCHANGED <<handles, expected>>
  BY DEF SkipSpace, IInv, TypeOK
<1>5. old.todo \in Seq(Words \cup {Space}) /\ old.node \in Nat
  BY <1>2 DEF Call
<1> HIDE DEF gap
<1>6. /\ c.todo = Tail(old.todo) /\ c.node = old.node + gap /\ c.readings = old.readings
      /\ c.start = old.start /\ c.session = old.session
  BY <1>2 DEF Call
<1> HIDE DEF c
<1>7. Reached(c) = Reached(old) /\ old.node = Reached(old)
  BY <1>1, <1>2, <1>6 DEF Reached, Follows
<1>8. /\ SingleSpaces(c.todo)
      /\ c.todo # <<>> => Head(c.todo) # Space
  BY <1>1, <1>2, <1>5, <1>6, TailSpaces DEF Follows
<1>9. c.node - Reached(c) = gap
  BY <1>3, <1>5, <1>6, <1>7
<1>10. Follows(h, c)
  BY <1>2, <1>3, <1>6, <1>8, <1>9 DEF Follows
<1> QED  BY <1>4, <1>10, CallNumbered

LEMMA AnsweredNumbered ==
  ASSUME IInv, NumberedInv, NEW h \in Handles, Running(h), Head(calls[h].todo) # Space,
         NEW case, NEW variant, Answered(h, case, variant),
         case = EngineOf(h).config.case,
         variant = VariantIn(EngineOf(h).lexicon.analyzer, EngineOf(h).config.segmentation),
         UNCHANGED <<handles, expected>>
  PROVE  NumberedInv'
<1> DEFINE old == calls[h]
           word == Head(old.todo)
           next == old.node + Nodes(EngineOf(h).lexicon.analyzer, word, variant)
           r == [ word |-> word, case |-> case, variant |-> variant,
                  start |-> old.node, next |-> next ]
           c == [old EXCEPT !.todo = Tail(@), !.node = next, !.readings = Append(@, r)]
<1>1. old # Idle /\ old.todo # <<>>
  BY DEF Running
<1>2. old \in Call /\ Follows(h, old)
  BY <1>1, RunningHandle, CallFollows
<1>3. calls' = [calls EXCEPT ![h] = c]
  BY DEF Answered, IInv, TypeOK
<1>4. PICK d \in Call : calls' = [calls EXCEPT ![h] = d]
  BY AnsweredCall
<1>5. c \in Call
  BY <1>3, <1>4 DEF IInv, TypeOK
<1>6. r.start = old.node /\ r.next = next
  OBVIOUS
<1> HIDE DEF r, next
<1>7. /\ c.todo = Tail(old.todo) /\ c.node = next /\ c.readings = Append(old.readings, r)
      /\ c.start = old.start /\ c.session = old.session
  BY <1>2 DEF Call
<1> HIDE DEF c
<1>8. /\ old.todo \in Seq(Words \cup {Space}) /\ old.readings \in Seq(Reading)
      /\ old.node \in Nat /\ next \in Nat
  BY <1>2, <1>5, <1>7 DEF Call
<1>9. SingleSpaces(c.todo)
  BY <1>1, <1>2, <1>7, <1>8, TailSpaces DEF Follows
<1> DEFINE n == Len(old.readings)
<1>10. /\ n \in Nat /\ DOMAIN old.readings = 1 .. n
       /\ DOMAIN c.readings = 1 .. n + 1 /\ c.readings[n + 1] = r
       /\ \A i \in 1 .. n : c.readings[i] = old.readings[i]
       /\ Len(c.readings) = n + 1 /\ c.readings # <<>>
       /\ old.readings = <<>> <=> n = 0
  BY <1>7, <1>8
<1>11. Reached(c) = next
  BY <1>6, <1>10 DEF Reached
<1>12. c.node = Reached(c) /\ c.node - Reached(c) = 0
  BY <1>7, <1>8, <1>11
<1>13. ASSUME NEW i \in DOMAIN c.readings
       PROVE  c.readings[i].start - (IF i = 1 THEN c.start ELSE c.readings[i - 1].next) \in Gaps(h)
  <2>1. CASE i \in 1 .. n
    <3>1. i # 1 => i - 1 \in 1 .. n
      BY <1>10, <2>1
    <3> QED  BY <1>2, <1>7, <1>10, <2>1, <3>1 DEF Follows
  <2>2. CASE i = n + 1
    <3>1. Reached(old) = IF i = 1 THEN c.start ELSE c.readings[i - 1].next
      BY <1>7, <1>10, <2>2 DEF Reached
    <3> QED  BY <1>2, <1>6, <1>10, <2>2, <3>1 DEF Follows
  <2> QED  BY <1>10, <2>1, <2>2
<1>14. Follows(h, c)
  BY <1>2, <1>7, <1>9, <1>12, <1>13, GapsType DEF Follows
<1> QED  BY <1>3, <1>14, CallNumbered

LEMMA ReadWordNumbered ==
  ASSUME IInv, NumberedInv, NEW h \in Handles, ReadWord(h)
  PROVE  NumberedInv'
<1> DEFINE engine == EngineOf(h)
           word == Head(calls[h].todo)
           variant == VariantIn(engine.lexicon.analyzer, engine.config.segmentation)
<1>1. /\ Running(h) /\ word # Space
      /\ handles[h] # Unopened /\ engine = handles[h].engine
  BY RunningHandle DEF ReadWord, Running
<1>2. ASSUME NEW t \in Hits(engine, word), Answered(h, t.case, t.variant),
             UNCHANGED <<handles, expected>>
      PROVE  NumberedInv'
  <2>1. t.case = engine.config.case /\ t.variant = variant
    BY <1>1, HitsTrue
  <2> QED  BY <1>1, <1>2, <2>1, AnsweredNumbered
<1>3. ASSUME Answered(h, engine.config.case, variant), UNCHANGED <<handles, expected>>
      PROVE  NumberedInv'
  BY <1>1, <1>3, AnsweredNumbered
<1>4. ASSUME GiveUp(h) PROVE NumberedInv'
  BY <1>4, CallNumbered DEF GiveUp
<1> QED  BY <1>2, <1>3, <1>4 DEF ReadWord

LEMMA ReturnNumbered ==
  ASSUME IInv, NumberedInv, NEW h \in Handles, Return(h)
  PROVE  NumberedInv'
<1> DEFINE m == [handles[h] EXCEPT !.session.next_node = calls[h].node]
<1>1. /\ handles[h] \in Morfeusz /\ handles[h] # Unopened
      /\ calls' = [calls EXCEPT ![h] = Idle]
      /\ \/ handles' = [handles EXCEPT ![h] = m] /\ expected' = [expected EXCEPT ![h] = calls[h].node]
         \/ UNCHANGED <<handles, expected>>
  BY RunningHandle DEF Return, IInv, TypeOK
<1>2. CASE UNCHANGED <<handles, expected>>
  BY <1>1, <1>2, CallNumbered
<1>3. CASE handles' = [handles EXCEPT ![h] = m] /\ expected' = [expected EXCEPT ![h] = calls[h].node]
  <2>1. m.session.next_node = calls[h].node
    BY <1>1 DEF Morfeusz, Session
  <2> HIDE DEF m
  <2>2. /\ handles'[h] = m /\ expected'[h] = calls[h].node /\ calls'[h] = Idle
        /\ \A o \in Handles \ {h} : /\ handles'[o] = handles[o] /\ expected'[o] = expected[o]
                                    /\ calls'[o] = calls[o]
    BY <1>1, <1>3 DEF IInv, TypeOK
  <2>3. \A o \in Handles : handles'[o] # Unopened => expected'[o] = handles'[o].session.next_node
    BY <2>1, <2>2 DEF NumberedInv
  <2>4. ASSUME NEW o \in Handles, calls'[o] # Idle
        PROVE  o # h /\ Gaps(o)' = Gaps(o) /\ Follows(o, calls[o])
    BY <2>2, <2>4, CallFollows DEF Gaps
  <2>5. \A o \in Handles : calls'[o] # Idle => Numbered(o)'
    BY <2>2, <2>4 DEF Follows, Numbered
  <2>6. NodesFollowOn'
    BY <2>2, <2>4 DEF Follows, NodesFollowOn
  <2> QED  BY <2>3, <2>5, <2>6 DEF NumberedInv
<1> QED  BY <1>1, <1>2, <1>3

LEMMA NextNumbers == IInv /\ NumberedInv /\ [Next]_vars => NumberedInv'
<1> SUFFICES ASSUME IInv, NumberedInv, [Next]_vars PROVE NumberedInv'
  OBVIOUS
<1>1. ASSUME NEW h \in Handles, Using(h) PROVE NumberedInv'
  <2>1. ASSUME Generate(h) PROVE NumberedInv'
    BY <2>1, IdleNumbered DEF Generate
  <2> QED  BY <1>1, <2>1, AnalyseNumbered, SkipSpaceNumbered, ReadWordNumbered, ReturnNumbered
           DEF Using
<1>2. ASSUME NEW h \in Handles, Opening(h) \/ Switching(h) \/ Setting(h) PROVE NumberedInv'
  BY <1>2, OpeningNumbered, SwitchingNumbered, SettingNumbered
<1>3. CASE UNCHANGED vars
  BY <1>3, IdleNumbered DEF vars
<1> QED  BY <1>1, <1>2, <1>3 DEF Next

(* Words are numbered on from each other, and texts, when the numbering is *)
(* continuous, from where the last one that succeeded ended, whatever      *)
(* setters, switches, clones and failed analyses lie in between.           *)
THEOREM NumberingFollowsOn == Spec => []NodesFollowOn
<1>1. Init => NumberedInv
  BY DEF Init, NumberedInv, NodesFollowOn
<1>2. NumberedInv => NodesFollowOn
  BY DEF NumberedInv
<1> QED  BY <1>1, <1>2, NextNumbers, HandlesInvariance, PTL DEF Spec

-----------------------------------------------------------------------------
(* Numbers, ranks and sequences of sequences                               *)

LEMMA LeastOf ==
  ASSUME NEW S \in SUBSET Nat, S # {}
  PROVE  \E k \in S : \A i \in S : k <= i
<1>1. PICK k \in S : \A i \in S : ~ (<<i, k>> \in OpToRel(<, Nat))
  BY WFMin, NatLessThanWellFounded
<1>2. \A i \in S : i \in Nat /\ ~(i < k)
  BY <1>1, Zenon DEF OpToRel
<1> QED BY <1>2

LEMMA FrontIs ==
  ASSUME NEW S, NEW s \in Seq(S), Len(s) # 0, NEW t, t = SubSeq(s, 1, Len(s) - 1)
  PROVE  /\ Len(t) = Len(s) - 1 /\ t = [i \in 1 .. Len(t) |-> t[i]]
         /\ \A i \in 1 .. Len(s) - 1 : t[i] = s[i]
<1>1. Len(s) \in Nat \ {0} /\ 1 \in 1 .. Len(s) + 1 /\ Len(s) - 1 \in 1 - 1 .. Len(s)
  OBVIOUS
<1>2. /\ t \in Seq(S) /\ Len(t) = (Len(s) - 1) - 1 + 1
      /\ \A i \in 1 .. (Len(s) - 1) - 1 + 1 : t[i] = s[1 + i - 1]
  <2>1. 1 \in Int /\ Len(s) - 1 \in Int /\ \A i \in 1 .. Len(s) - 1 : s[i] \in S
    <3>1. \A i \in 1 .. Len(s) - 1 : i \in 1 .. Len(s)
      BY <1>1
    <3> QED BY <1>1, <3>1
  <2>2. 1 <= Len(s) - 1 \/ Len(s) - 1 = 0
    <3>1. \A n \in Nat \ {0} : 1 <= n - 1 \/ n - 1 = 0
      OBVIOUS
    <3> QED BY <1>1, <3>1
  <2>3. /\ t \in Seq(S) /\ Len(t) = IF 1 <= Len(s) - 1 THEN (Len(s) - 1) - 1 + 1 ELSE 0
        /\ \A i \in 1 .. (Len(s) - 1) - 1 + 1 : t[i] = s[1 + i - 1]
    BY <2>1, SubSeqProperties
  <2> QED BY <1>1, <2>2, <2>3
<1>3. (Len(s) - 1) - 1 + 1 = Len(s) - 1 /\ \A i \in 1 .. Len(s) - 1 : 1 + i - 1 = i
  BY <1>1
<1>4. t = [i \in 1 .. Len(t) |-> t[i]]
  BY <1>2
<1> QED BY <1>2, <1>3, <1>4

LEMMA RankOnto ==
  ASSUME NEW D, IsFiniteSet(D), NEW below \in [D -> SUBSET D],
         \A l \in D : l \notin below[l],
         \A k, l \in D : k # l => k \in below[l] \/ l \in below[k],
         \A k, l \in D : k \in below[l] => below[k] \subseteq below[l]
  PROVE  /\ Cardinality(D) \in Nat
         /\ \A l \in D : Cardinality(below[l]) + 1 \in 1 .. Cardinality(D)
         /\ \A k, l \in D : Cardinality(below[k]) = Cardinality(below[l]) => k = l
         /\ \A i \in 1 .. Cardinality(D) : \E l \in D : Cardinality(below[l]) = i - 1
<1>1. PICK n \in Nat : n = Cardinality(D)
  BY FS_CardinalityType
<1>2. ASSUME NEW l \in D
      PROVE  /\ IsFiniteSet(below[l]) /\ Cardinality(below[l]) \in Nat /\ Cardinality(below[l]) < n
  <2>1. below[l] \in SUBSET D /\ below[l] # D
    OBVIOUS
  <2>2. IsFiniteSet(below[l]) /\ Cardinality(below[l]) <= n /\ Cardinality(below[l]) # n
    BY <1>1, <2>1, FS_Subset
  <2>3. Cardinality(below[l]) \in Nat
    BY <2>2, FS_CardinalityType
  <2> QED BY <2>2, <2>3
<1>3. ASSUME NEW k \in D, NEW l \in D, k \in below[l]
      PROVE  Cardinality(below[k]) # Cardinality(below[l])
  <2>1. below[k] \in SUBSET below[l] /\ below[k] # below[l]
    BY <1>3
  <2> QED BY <1>2, <2>1, FS_Subset
<1>4. \A k, l \in D : Cardinality(below[k]) = Cardinality(below[l]) => k = l
  BY <1>3
<1>5. PICK rank : rank = [l \in D |-> Cardinality(below[l]) + 1]
  OBVIOUS
<1>6. \A l \in D : Cardinality(below[l]) + 1 \in 1 .. n
  BY <1>2
<1>7. rank \in Injection(D, 1 .. n)
  <2>1. rank \in [D -> 1 .. n]
    BY <1>5, <1>6
  <2>2. ASSUME NEW k \in D, NEW l \in D, rank[k] = rank[l] PROVE k = l
    BY <1>2, <1>4, <1>5, <2>2
  <2> QED BY <2>1, <2>2 DEF Injection, IsInjective
<1>8. IsFiniteSet(1 .. n) /\ Cardinality(1 .. n) = n
  BY FS_Interval
<1>9. rank \in Surjection(D, 1 .. n)
  BY <1>1, <1>7, <1>8, FS_Injection
<1>10. ASSUME NEW i \in 1 .. n PROVE \E l \in D : Cardinality(below[l]) = i - 1
  <2>1. PICK l \in D : rank[l] = i
    BY <1>9 DEF Surjection
  <2> QED BY <1>2, <1>5, <2>1
<1> QED BY <1>1, <1>4, <1>6, <1>10

Flattens(f, ss, k) == f = [i \in 1 .. k |-> IF i = 1 THEN ss[i] ELSE f[i - 1] \o ss[i]]

LEMMA FlattenExists ==
  ASSUME NEW ss, NEW n \in Nat \ {0}
  PROVE  \E f : Flattens(f, ss, n)
<1> DEFINE bad == { k \in 1 .. n : ~ \E f : Flattens(f, ss, k) }
<1> SUFFICES ASSUME bad # {} PROVE FALSE
  <2>1. n \in 1 .. n
    OBVIOUS
  <2> QED BY <2>1
<1>1. PICK k \in bad : \A i \in bad : k <= i
  <2>1. bad \in SUBSET Nat
    OBVIOUS
  <2> HIDE DEF bad
  <2> QED BY <2>1, LeastOf
<1>2. CASE k = 1
  <2> DEFINE f == [i \in 1 .. 1 |-> ss[1]]
  <2>1. Flattens(f, ss, 1)
    BY DEF Flattens
  <2> QED BY <1>2, <2>1
<1>3. CASE k # 1
  <2>0. k \in 1 .. n /\ k - 1 \in 1 .. n /\ ~(k <= k - 1)
    BY <1>1, <1>3
  <2>1. k - 1 \notin bad
    <3> HIDE DEF bad
    <3> QED BY <1>1, <2>0
  <2>2. PICK g : Flattens(g, ss, k - 1)
    BY <2>0, <2>1
  <2>3. PICK last : last = g[k - 1] \o ss[k]
    OBVIOUS
  <2>4. PICK f : f = [i \in 1 .. k |-> IF i = k THEN last ELSE g[i]]
    OBVIOUS
  <2>5. ASSUME NEW i \in 1 .. k PROVE f[i] = IF i = 1 THEN ss[i] ELSE f[i - 1] \o ss[i]
    <3>1. CASE i = k
      <4>1. k \in 1 .. k /\ k - 1 \in 1 .. k /\ k # k - 1 /\ k # 1
        BY <1>3, <2>0
      <4>2. f[k] = last /\ f[k - 1] = g[k - 1]
        BY <2>4, <4>1
      <4> QED BY <2>3, <3>1, <4>1, <4>2
    <3>2. CASE i # k
      <4>1. i \in 1 .. k - 1 /\ (i # 1 => i - 1 \in 1 .. k - 1 /\ i - 1 \in 1 .. k /\ i - 1 # k)
        BY <2>0, <3>2
      <4>2. g[i] = IF i = 1 THEN ss[i] ELSE g[i - 1] \o ss[i]
        BY <2>2, <4>1 DEF Flattens
      <4>3. f[i] = g[i] /\ (i # 1 => f[i - 1] = g[i - 1])
        BY <2>4, <3>2, <4>1
      <4> QED BY <4>2, <4>3
    <3> QED BY <3>1, <3>2
  <2>6. f = [i \in 1 .. k |-> f[i]]
    BY <2>4
  <2>7. Flattens(f, ss, k)
    BY <2>5, <2>6 DEF Flattens
  <2> QED BY <1>1, <2>7
<1> QED BY <1>2, <1>3


(* What the first k sequences of ss come to, the sums being of lengths.    *)
Placed(w, ss, S, sum, k) ==
  /\ w \in Seq(S) /\ Len(w) = sum[k]
  /\ \A a \in 1 .. k : sum[a - 1] \in Nat
  /\ \A a \in 1 .. k : \A b \in 1 .. Len(ss[a]) :
       sum[a - 1] + b \in 1 .. Len(w) /\ w[sum[a - 1] + b] = ss[a][b]

LEMMA PlacedMore ==
  ASSUME NEW S, NEW ss, NEW sum, NEW k \in Nat, NEW w, Placed(w, ss, S, sum, k),
         ss[k + 1] \in Seq(S), sum[k + 1] = sum[k] + Len(ss[k + 1])
  PROVE  Placed(w \o ss[k + 1], ss, S, sum, k + 1)
<1>1. PICK v : v = ss[k + 1]
  OBVIOUS
<1>2. PICK x : x = w \o v
  OBVIOUS
<1>3. w \in Seq(S) /\ v \in Seq(S)
  BY <1>1 DEF Placed
<1>4. PICK m \in Nat : m = Len(w) /\ m = sum[k]
  BY <1>3 DEF Placed
<1>5. PICK n \in Nat : n = Len(v)
  BY <1>3
<1>6. x \in Seq(S) /\ Len(x) = m + n /\ \A i \in 1 .. m + n : x[i] = IF i <= m THEN w[i] ELSE v[i - m]
  <2>1. /\ w \o v \in Seq(S) /\ Len(w \o v) = Len(w) + Len(v)
        /\ \A i \in 1 .. Len(w) + Len(v) : (w \o v)[i] = IF i <= Len(w) THEN w[i] ELSE v[i - Len(w)]
    BY <1>3, ConcatProperties
  <2> QED BY <1>2, <1>4, <1>5, <2>1
<1>7. sum[k + 1] = m + n
  BY <1>1, <1>4, <1>5
<1>8. \A a \in 1 .. k + 1 : a = k + 1 \/ a \in 1 .. k
  OBVIOUS
<1>9. ASSUME NEW a \in 1 .. k + 1
      PROVE  /\ sum[a - 1] \in Nat
             /\ \A b \in 1 .. Len(ss[a]) : sum[a - 1] + b \in 1 .. m + n /\ x[sum[a - 1] + b] = ss[a][b]
  <2>1. CASE a \in 1 .. k
    <3>1. sum[a - 1] \in Nat
      BY <2>1 DEF Placed
    <3>2. PICK z \in Nat : z = sum[a - 1]
      BY <3>1
    <3>3. ASSUME NEW b \in 1 .. Len(ss[a]) PROVE z + b \in 1 .. m + n /\ x[z + b] = ss[a][b]
      <4>1. z + b \in 1 .. m /\ w[z + b] = ss[a][b]
        BY <1>4, <2>1, <3>2 DEF Placed
      <4>2. z + b \in 1 .. m + n /\ z + b <= m
        BY <4>1
      <4> QED BY <1>6, <4>1, <4>2
    <3> QED BY <3>2, <3>3
  <2>2. CASE a = k + 1
    <3>1. a - 1 = k
      BY <2>2
    <3>2. ASSUME NEW b \in 1 .. n PROVE m + b \in 1 .. m + n /\ x[m + b] = v[b]
      <4>1. m + b \in 1 .. m + n /\ ~(m + b <= m) /\ (m + b) - m = b
        OBVIOUS
      <4> QED BY <1>6, <4>1
    <3> QED BY <1>1, <1>4, <1>5, <2>2, <3>1, <3>2
  <2> QED BY <1>8, <2>1, <2>2
<1>10. Placed(x, ss, S, sum, k + 1)
  BY <1>6, <1>7, <1>9 DEF Placed
<1> QED BY <1>1, <1>2, <1>10

(* Each sequence stands in the whole behind those before it.               *)
LEMMA FlattenPlaced ==
  ASSUME NEW S, NEW n \in Nat \ {0}, NEW ss, ss = [a \in 1 .. n |-> ss[a]],
         \A a \in 1 .. n : ss[a] \in Seq(S),
         NEW sum, sum[0] = 0, \A a \in 1 .. n : sum[a] = sum[a - 1] + Len(ss[a])
  PROVE  Placed(FlattenSeq(ss), ss, S, sum, n)
<1> DEFINE f == CHOOSE f : Flattens(f, ss, n)
<1>1. Flattens(f, ss, n)
  BY FlattenExists
<1>2. Len(ss) = n
  OBVIOUS
<1>3. FlattenSeq(ss) = f[n]
  BY <1>2 DEF FlattenSeq, Flattens
<1> HIDE DEF f
<1> DEFINE bad == { k \in 1 .. n : ~Placed(f[k], ss, S, sum, k) }
<1>4. bad = {}
  <2> SUFFICES ASSUME bad # {} PROVE FALSE
    OBVIOUS
  <2>1. PICK k \in bad : \A i \in bad : k <= i
    <3>1. bad \in SUBSET Nat
      OBVIOUS
    <3> HIDE DEF bad
    <3> QED BY <3>1, LeastOf
  <2>2. k \in 1 .. n /\ ~Placed(f[k], ss, S, sum, k)
    BY <2>1
  <2>3. f[k] = IF k = 1 THEN ss[k] ELSE f[k - 1] \o ss[k]
    BY <1>1, <2>2 DEF Flattens
  <2>4. CASE k = 1
    <3>1. f[k] = ss[1]
      BY <2>3, <2>4
    <3>2. PICK v : v = ss[1]
      OBVIOUS
    <3>3. v \in Seq(S)
      BY <2>2, <2>4, <3>2
    <3>4. PICK m \in Nat : m = Len(v)
      BY <3>3
    <3>5. sum[1] = m /\ sum[1 - 1] = 0
      <4>1. 1 - 1 = 0 /\ 1 \in 1 .. n
        OBVIOUS
      <4> QED BY <3>2, <3>4, <4>1
    <3>6. \A a \in 1 .. k : a = 1
      BY <2>4
    <3>7. \A b \in 1 .. m : 0 + b = b /\ b \in 1 .. m
      OBVIOUS
    <3>8. Placed(v, ss, S, sum, 1)
      BY <3>2, <3>3, <3>4, <3>5, <3>6, <3>7, <2>4 DEF Placed
    <3> QED BY <2>2, <2>4, <3>1, <3>2, <3>8
  <2>5. CASE k # 1
    <3>1. k - 1 \in 1 .. n /\ ~(k <= k - 1)
      BY <2>2, <2>5
    <3>2. k - 1 \notin bad
      <4> HIDE DEF bad
      <4> QED BY <2>1, <3>1
    <3>3. PICK j \in Nat : j = k - 1 /\ j + 1 = k /\ (j + 1) - 1 = j
      BY <3>1
    <3>4. Placed(f[j], ss, S, sum, j) /\ ss[j + 1] \in Seq(S) /\ sum[j + 1] = sum[j] + Len(ss[j + 1])
      BY <2>2, <3>1, <3>2, <3>3
    <3>5. Placed(f[j] \o ss[j + 1], ss, S, sum, j + 1)
      BY <3>4, PlacedMore
    <3> QED BY <2>2, <2>3, <2>5, <3>3, <3>5
  <2> QED BY <2>4, <2>5
<1>5. n \in 1 .. n
  OBVIOUS
<1> QED BY <1>3, <1>4, <1>5

-----------------------------------------------------------------------------
(* Parts of sequences, and sequences put together                          *)

Listed(s, n) == n \in Nat /\ s = [i \in 1 .. n |-> s[i]]

LEMMA SeqListed ==
  ASSUME NEW S, NEW s \in Seq(S)
  PROVE  Listed(s, Len(s)) /\ \A i \in 1 .. Len(s) : s[i] \in S
BY DEF Listed

LEMMA ListedSeq ==
  ASSUME NEW S, NEW n, NEW s, Listed(s, n), \A i \in 1 .. n : s[i] \in S
  PROVE  s \in Seq(S) /\ Len(s) = n
BY DEF Listed

LEMMA ListedSame ==
  ASSUME NEW n, NEW s, NEW t, Listed(s, n), Listed(t, n), \A i \in 1 .. n : s[i] = t[i]
  PROVE  s = t
<1>1. [i \in 1 .. n |-> s[i]] = [i \in 1 .. n |-> t[i]]
  OBVIOUS
<1> QED BY <1>1 DEF Listed

Joins(w, s, m, t, n) ==
  /\ Listed(w, m + n)
  /\ \A i \in 1 .. m : w[i] = s[i]
  /\ \A i \in 1 .. n : w[m + i] = t[i]

LEMMA ConcatJoins ==
  ASSUME NEW m, NEW n, NEW s, NEW t, Listed(s, m), Listed(t, n)
  PROVE  Joins(s \o t, s, m, t, n)
<1> DEFINE S == { s[i] : i \in 1 .. m } \cup { t[i] : i \in 1 .. n }
<1>1. (\A i \in 1 .. m : s[i] \in S) /\ (\A i \in 1 .. n : t[i] \in S)
  OBVIOUS
<1> HIDE DEF S
<1>2. s \in Seq(S) /\ Len(s) = m /\ t \in Seq(S) /\ Len(t) = n /\ m \in Nat /\ n \in Nat
  BY <1>1, ListedSeq DEF Listed
<1>3. PICK w : w = s \o t
  OBVIOUS
<1>4. /\ w \in Seq(S) /\ Len(w) = m + n
      /\ \A i \in 1 .. m + n : w[i] = IF i <= m THEN s[i] ELSE t[i - m]
  <2>1. /\ s \o t \in Seq(S) /\ Len(s \o t) = Len(s) + Len(t)
        /\ \A i \in 1 .. Len(s) + Len(t) : (s \o t)[i] = IF i <= Len(s) THEN s[i] ELSE t[i - Len(s)]
    BY <1>2, ConcatProperties
  <2> QED BY <1>2, <1>3, <2>1
<1>5. Listed(w, m + n)
  BY <1>2, <1>4, SeqListed
<1>6. \A i \in 1 .. m : i \in 1 .. m + n /\ i <= m
  BY <1>2
<1>7. \A i \in 1 .. n : m + i \in 1 .. m + n /\ ~(m + i <= m) /\ (m + i) - m = i
  BY <1>2
<1>8. (\A i \in 1 .. m : w[i] = s[i]) /\ (\A i \in 1 .. n : w[m + i] = t[i])
  BY <1>4, <1>6, <1>7
<1> QED BY <1>3, <1>5, <1>8 DEF Joins

LEMMA FirstIs ==
  ASSUME NEW S, NEW s \in Seq(S), NEW n \in 0 .. Len(s)
  PROVE  First(s, n) \in Seq(S) /\ Listed(First(s, n), n) /\ \A i \in 1 .. n : First(s, n)[i] = s[i]
<1>1. PICK t : t = SubSeq(s, 1, n)
  OBVIOUS
<1>2. n \in Int /\ 1 \in Int /\ n \in Nat /\ \A i \in 1 .. n : s[i] \in S /\ 1 + i - 1 = i
  OBVIOUS
<1>3. /\ t \in Seq(S) /\ Len(t) = (IF 1 <= n THEN n - 1 + 1 ELSE 0)
      /\ \A i \in 1 .. n - 1 + 1 : t[i] = s[1 + i - 1]
  <2>1. \A i \in 1 .. n : s[i] \in S
    BY <1>2
  <2>2. /\ SubSeq(s, 1, n) \in Seq(S) /\ Len(SubSeq(s, 1, n)) = (IF 1 <= n THEN n - 1 + 1 ELSE 0)
        /\ \A i \in 1 .. n - 1 + 1 : SubSeq(s, 1, n)[i] = s[1 + i - 1]
    BY <1>2, <2>1, SubSeqProperties
  <2> QED BY <1>1, <2>2
<1>4. Len(t) = n /\ n - 1 + 1 = n
  BY <1>2, <1>3
<1>5. \A i \in 1 .. n : t[i] = s[i]
  BY <1>2, <1>3, <1>4
<1>6. Listed(t, n)
  BY <1>3, <1>4, SeqListed
<1> QED BY <1>1, <1>3, <1>5, <1>6 DEF First

LEMMA FromIs ==
  ASSUME NEW S, NEW s \in Seq(S), NEW n \in 0 .. Len(s)
  PROVE  /\ From(s, n) \in Seq(S) /\ Listed(From(s, n), Len(s) - n) /\ Len(From(s, n)) = Len(s) - n
         /\ \A i \in 1 .. Len(s) - n : n + i \in 1 .. Len(s) /\ From(s, n)[i] = s[n + i]
<1>1. PICK t : t = SubSeq(s, n + 1, Len(s))
  OBVIOUS
<1>2. PICK m \in Nat : m = Len(s)
  OBVIOUS
<1>3. /\ n + 1 \in Int /\ m \in Int /\ n \in Nat /\ n <= m /\ m - (n + 1) + 1 = m - n
      /\ m - n = IF n + 1 <= m THEN m - (n + 1) + 1 ELSE 0
      /\ \A i \in 1 .. m - n : n + i \in 1 .. m /\ (n + 1) + i - 1 = n + i
  BY <1>2
<1>4. \A i \in n + 1 .. m : s[i] \in S
  BY <1>2
<1>5. /\ t \in Seq(S) /\ Len(t) = (IF n + 1 <= m THEN m - (n + 1) + 1 ELSE 0)
      /\ \A i \in 1 .. m - (n + 1) + 1 : t[i] = s[(n + 1) + i - 1]
  <2>1. /\ SubSeq(s, n + 1, m) \in Seq(S)
        /\ Len(SubSeq(s, n + 1, m)) = (IF n + 1 <= m THEN m - (n + 1) + 1 ELSE 0)
        /\ \A i \in 1 .. m - (n + 1) + 1 : SubSeq(s, n + 1, m)[i] = s[(n + 1) + i - 1]
    BY <1>3, <1>4, SubSeqProperties
  <2> QED BY <1>1, <1>2, <2>1
<1>6. Len(t) = m - n /\ \A i \in 1 .. m - n : t[i] = s[n + i]
  BY <1>3, <1>5
<1>7. Listed(t, m - n)
  BY <1>5, <1>6, SeqListed
<1> QED BY <1>1, <1>2, <1>3, <1>5, <1>6, <1>7 DEF From

(* The numbers that Max and Min choose.                                    *)
LEMMA MaxIs ==
  ASSUME NEW S \in SUBSET Nat, S # {}, NEW n \in Nat, \A x \in S : x <= n
  PROVE  Max(S) \in S /\ \A x \in S : x <= Max(S)
<1> DEFINE D == { n - x : x \in S }
<1>1. D \in SUBSET Nat /\ D # {}
  OBVIOUS
<1>2. PICK d \in D : \A y \in D : d <= y
  <2> HIDE DEF D
  <2> QED BY <1>1, LeastOf
<1>3. PICK x \in S : d = n - x
  BY <1>2
<1>4. ASSUME NEW y \in S PROVE x >= y
  <2>1. n - y \in D
    OBVIOUS
  <2>2. n - x <= n - y
    <3> HIDE DEF D
    <3> QED BY <1>2, <1>3, <2>1
  <2>3. x \in Nat /\ y \in Nat
    OBVIOUS
  <2> QED BY <2>2, <2>3
<1>5. \E c \in S : \A y \in S : c >= y
  BY <1>4
<1>6. PICK c : c = CHOOSE z \in S : \A y \in S : z >= y
  OBVIOUS
<1>7. c \in S /\ \A y \in S : c >= y
  BY <1>5, <1>6, Zenon
<1>8. Max(S) = c
  BY <1>6, Zenon DEF Max
<1>9. \A y \in S : y <= c
  BY <1>7
<1> QED BY <1>7, <1>8, <1>9

LEMMA MinIs ==
  ASSUME NEW a \in Nat, NEW b \in Nat
  PROVE  Min({a, b}) \in Nat /\ Min({a, b}) \in {a, b} /\ Min({a, b}) <= a /\ Min({a, b}) <= b
<1>1. \E c \in {a, b} : \A y \in {a, b} : c =< y
  OBVIOUS
<1>2. PICK c : c = CHOOSE z \in {a, b} : \A y \in {a, b} : z =< y
  OBVIOUS
<1>3. c \in {a, b} /\ \A y \in {a, b} : c =< y
  BY <1>1, <1>2, Zenon
<1>4. Min({a, b}) = c
  BY <1>2, Zenon DEF Min
<1> QED BY <1>3, <1>4

-----------------------------------------------------------------------------
(* What is encoded                                                         *)

Keeps(f, better, n) ==
  f = [p \in 0 .. n |-> IF p = 0 THEN 0 ELSE IF <<p, f[p - 1]>> \in better THEN p ELSE f[p - 1]]

LEMMA KeepsExists ==
  ASSUME NEW better, NEW n \in Nat
  PROVE  \E f : Keeps(f, better, n)
<1> DEFINE bad == { k \in 0 .. n : ~ \E f : Keeps(f, better, k) }
<1> SUFFICES ASSUME bad # {} PROVE FALSE
  <2>1. n \in 0 .. n
    OBVIOUS
  <2> QED BY <2>1
<1>1. PICK k \in bad : \A i \in bad : k <= i
  <2>1. bad \in SUBSET Nat
    OBVIOUS
  <2> HIDE DEF bad
  <2> QED BY <2>1, LeastOf
<1>2. CASE k = 0
  <2> DEFINE f == [p \in 0 .. 0 |-> 0]
  <2>1. \A p \in 0 .. 0 : p = 0
    OBVIOUS
  <2>2. Keeps(f, better, 0)
    BY <2>1 DEF Keeps
  <2> QED BY <1>2, <2>2
<1>3. CASE k # 0
  <2>1. k \in 0 .. n /\ k - 1 \in 0 .. n /\ ~(k <= k - 1)
    BY <1>1, <1>3
  <2>2. k - 1 \notin bad
    <3> HIDE DEF bad
    <3> QED BY <1>1, <2>1
  <2>3. PICK e : Keeps(e, better, k - 1)
    BY <2>1, <2>2
  <2>4. PICK last : last = IF <<k, e[k - 1]>> \in better THEN k ELSE e[k - 1]
    OBVIOUS
  <2>5. PICK f : f = [p \in 0 .. k |-> IF p = k THEN last ELSE e[p]]
    OBVIOUS
  <2>6. ASSUME NEW p \in 0 .. k
        PROVE  f[p] = IF p = 0 THEN 0 ELSE IF <<p, f[p - 1]>> \in better THEN p ELSE f[p - 1]
    <3>1. CASE p = k
      <4>1. k \in 0 .. k /\ k - 1 \in 0 .. k /\ k # k - 1 /\ k # 0
        BY <1>3, <2>1
      <4>2. f[k] = last /\ f[k - 1] = e[k - 1]
        BY <2>5, <4>1
      <4> QED BY <2>4, <3>1, <4>1, <4>2
    <3>2. CASE p # k
      <4>1. p \in 0 .. k - 1 /\ (p # 0 => p - 1 \in 0 .. k - 1 /\ p - 1 \in 0 .. k /\ p - 1 # k)
        BY <2>1, <3>2
      <4>2. e[p] = IF p = 0 THEN 0 ELSE IF <<p, e[p - 1]>> \in better THEN p ELSE e[p - 1]
        BY <2>3, <4>1 DEF Keeps
      <4>3. f[p] = e[p] /\ (p # 0 => f[p - 1] = e[p - 1])
        BY <2>5, <3>2, <4>1
      <4> QED BY <4>2, <4>3
    <3> QED BY <3>1, <3>2
  <2>7. f = [p \in 0 .. k |-> f[p]]
    BY <2>5
  <2>8. Keeps(f, better, k)
    BY <2>6, <2>7 DEF Keeps
  <2> QED BY <1>1, <2>8
<1> QED BY <1>2, <1>3

LEMMA KeptWithin ==
  ASSUME NEW better, NEW n \in Nat
  PROVE  KeptLength(better, n) \in 0 .. n
<1> DEFINE f == CHOOSE f : Keeps(f, better, n)
<1>1. Keeps(f, better, n)
  BY KeepsExists
<1>2. KeptLength(better, n) = f[n]
  BY DEF KeptLength, Keeps
<1> HIDE DEF f
<1> DEFINE bad == { k \in 0 .. n : f[k] \notin 0 .. n }
<1>3. bad = {}
  <2> SUFFICES ASSUME bad # {} PROVE FALSE
    OBVIOUS
  <2>1. PICK k \in bad : \A i \in bad : k <= i
    <3>1. bad \in SUBSET Nat
      OBVIOUS
    <3> HIDE DEF bad
    <3> QED BY <3>1, LeastOf
  <2>2. k \in 0 .. n /\ f[k] \notin 0 .. n
    BY <2>1
  <2>3. f[k] = IF k = 0 THEN 0 ELSE IF <<k, f[k - 1]>> \in better THEN k ELSE f[k - 1]
    BY <1>1, <2>2 DEF Keeps
  <2>4. k # 0 /\ f[k - 1] \notin 0 .. n
    BY <2>2, <2>3
  <2>5. k - 1 \in 0 .. n /\ ~(k <= k - 1)
    BY <2>2, <2>4
  <2> QED BY <2>1, <2>4, <2>5
<1> QED BY <1>2, <1>3

(* The lengths of prefix kept by either encoder.                           *)
LEMMA PrefixWithin ==
  ASSUME NEW orth \in Seq(Letters), orth # <<>>, NEW better
  PROVE  KeptLength(better, Max(PrefixLengths(orth))) \in 0 .. Len(orth) - 1
<1>1. PICK n \in Nat \ {0} : n = Len(orth)
  OBVIOUS
<1>2. PICK m : m = Min({n, 5})
  OBVIOUS
<1>3. m \in Nat \ {0} /\ m <= n
  BY <1>2, MinIs
<1>4. PrefixLengths(orth) = 0 .. m - 1
  BY <1>1, <1>2 DEF PrefixLengths
<1>5. PICK x : x = Max(0 .. m - 1)
  OBVIOUS
<1>6. x \in 0 .. m - 1
  <2>0. m - 1 \in Nat /\ 0 \in 0 .. m - 1
    BY <1>3
  <2>1. 0 .. m - 1 \in SUBSET Nat /\ 0 .. m - 1 # {} /\ m - 1 \in Nat /\ \A i \in 0 .. m - 1 : i <= m - 1
    BY <2>0
  <2> QED BY <1>5, <2>1, MaxIs
<1>7. KeptLength(better, x) \in 0 .. x
  BY <1>6, KeptWithin
<1> QED BY <1>1, <1>3, <1>4, <1>5, <1>6, <1>7

LEMMA RootIs ==
  ASSUME NEW from \in Seq(Letters), NEW target \in Seq(Letters), NEW lowercase
  PROVE  /\ RootLength(from, target, lowercase) \in 0 .. Len(from)
         /\ RootLength(from, target, lowercase) \in 0 .. Len(target)
         /\ \A i \in 1 .. RootLength(from, target, lowercase) : CharsMatch(from[i], target[i], lowercase)
<1>1. PICK m : m = Min({Len(from), Len(target)})
  OBVIOUS
<1>2. m \in Nat /\ m <= Len(from) /\ m <= Len(target)
  <2>1. Len(from) \in Nat /\ Len(target) \in Nat
    OBVIOUS
  <2> QED BY <1>1, <2>1, MinIs
<1>3. PICK S : S = { n \in 0 .. m : \A i \in 1 .. n : CharsMatch(from[i], target[i], lowercase) }
  OBVIOUS
<1>4. S \in SUBSET Nat /\ S # {} /\ \A x \in S : x <= m
  <2>1. 0 \in S
    BY <1>2, <1>3
  <2>2. \A x \in S : x \in 0 .. m
    BY <1>3
  <2>3. \A x \in 0 .. m : x \in Nat /\ x <= m
    BY <1>2
  <2> QED BY <2>1, <2>2, <2>3
<1>5. RootLength(from, target, lowercase) = Max(S)
  BY <1>1, <1>3 DEF RootLength
<1>6. Max(S) \in S
  BY <1>2, <1>4, MaxIs
<1>7. PICK r \in S : r = Max(S)
  BY <1>6
<1> QED BY <1>2, <1>3, <1>5, <1>7

Encodes(f, from, target, lowercase, r) ==
  /\ r \in 0 .. Len(from) /\ r \in 0 .. Len(target)
  /\ \A i \in 1 .. r : CharsMatch(from[i], target[i], lowercase)
  /\ f.cut = Len(from) - r /\ f.suffix = From(target, r)
  /\ f.pattern = CasePattern(First(target, r))

LEMMA EncodedIs ==
  ASSUME NEW from \in Seq(Letters), NEW target \in Seq(Letters), NEW lowercase
  PROVE  \E r : Encodes(EncodeFormWithoutPrefix(from, target, lowercase), from, target, lowercase, r)
<1>0. PICK f : f = EncodeFormWithoutPrefix(from, target, lowercase)
  OBVIOUS
<1>1. PICK r \in 0 .. Len(from) : r = RootLength(from, target, lowercase)
  BY RootIs
<1>2. r \in 0 .. Len(target) /\ \A i \in 1 .. r : CharsMatch(from[i], target[i], lowercase)
  BY <1>1, RootIs
<1>3. f.cut = Len(from) - r /\ f.suffix = From(target, r) /\ f.pattern = CasePattern(First(target, r))
  BY <1>0, <1>1 DEF EncodeFormWithoutPrefix
<1>4. Encodes(f, from, target, lowercase, r)
  BY <1>2, <1>3 DEF Encodes
<1> QED BY <1>0, <1>4

(* The generator makes of a lemma the form that the builder wrote down as  *)
(* its difference from that lemma: encode_generator_form and               *)
(* to_morph_interpretation, whatever the letters, whichever prefix is kept. *)
THEOREM FormsMade ==
  ASSUME NEW p, p.orth \in Seq(Letters) \ {<<>>}, p.base \in Seq(Letters)
  PROVE  Synthesised(<<>>, p.base, GeneratorInterpretation(p)).orth = p.orth
<1>1. PICK orth \in Seq(Letters) : orth = p.orth /\ orth # <<>>
  OBVIOUS
<1>2. PICK lemma \in Seq(Letters) : lemma = p.base
  OBVIOUS
<1>3. PICK n \in Nat \ {0} : n = Len(orth)
  BY <1>1
<1>4. PICK c : c = EncodeGeneratorForm(lemma, orth)
  OBVIOUS
<1>5. PICK k \in 0 .. n :
        /\ c.prefix = First(orth, k)
        /\ \E f : /\ f = EncodeFormWithoutPrefix(lemma, From(orth, k), FALSE)
                  /\ c.cut = f.cut /\ c.suffix = f.suffix
  <2> DEFINE Form(q) == EncodeFormWithoutPrefix(lemma, From(orth, q), FALSE)
             better  == { pq \in PrefixLengths(orth) \X PrefixLengths(orth) :
                            Len(Form(pq[1]).suffix) + pq[1] < Len(Form(pq[2]).suffix) + pq[2] }
             kept    == KeptLength(better, Max(PrefixLengths(orth)))
  <2>1. c = [prefix |-> First(orth, kept), cut |-> Form(kept).cut, suffix |-> Form(kept).suffix]
    BY <1>4 DEF EncodeGeneratorForm
  <2>2. kept \in 0 .. Len(orth) - 1
    <3> HIDE DEF better
    <3> QED BY <1>1, PrefixWithin
  <2> HIDE DEF better, kept
  <2>3. kept \in 0 .. n
    BY <1>3, <2>2
  <2>4. c.prefix = First(orth, kept) /\ c.cut = Form(kept).cut /\ c.suffix = Form(kept).suffix
    BY <2>1
  <2> QED BY <2>3, <2>4
<1>6. PICK t \in Seq(Letters) : t = From(orth, k)
  BY <1>3, FromIs
<1>7. Listed(t, n - k) /\ Len(t) = n - k /\ \A i \in 1 .. n - k : t[i] = orth[k + i]
  BY <1>3, <1>6, FromIs
<1>8. PICK r \in 0 .. Len(lemma) :
        /\ r \in 0 .. Len(t) /\ \A i \in 1 .. r : CharsMatch(lemma[i], t[i], FALSE)
        /\ c.cut = Len(lemma) - r /\ c.suffix = From(t, r)
  <2>1. PICK f : /\ f = EncodeFormWithoutPrefix(lemma, t, FALSE)
                 /\ c.cut = f.cut /\ c.suffix = f.suffix
    BY <1>5, <1>6
  <2>2. PICK r : Encodes(f, lemma, t, FALSE, r)
    BY <2>1, EncodedIs
  <2> QED BY <2>1, <2>2 DEF Encodes
<1>9. PICK a : a = First(orth, k)
  OBVIOUS
<1>10. PICK b : b = First(lemma, r)
  OBVIOUS
<1>11. PICK d : d = From(t, r)
  OBVIOUS
<1>12. Listed(a, k) /\ a \in Seq(Letters) /\ \A i \in 1 .. k : a[i] = orth[i]
  BY <1>3, <1>9, FirstIs
<1>13. Listed(b, r) /\ \A i \in 1 .. r : b[i] = lemma[i]
  BY <1>10, FirstIs
<1>14. Listed(d, (n - k) - r) /\ \A i \in 1 .. (n - k) - r : d[i] = t[r + i] /\ r + i \in 1 .. n - k
  <2>1. /\ Listed(From(t, r), Len(t) - r)
        /\ \A i \in 1 .. Len(t) - r : r + i \in 1 .. Len(t) /\ From(t, r)[i] = t[r + i]
    BY <1>8, FromIs
  <2> QED BY <1>7, <1>11, <2>1
<1>15. Synthesised(<<>>, p.base, GeneratorInterpretation(p)).orth = <<>> \o a \o b \o d
  <2>1. Len(lemma) - c.cut = r
    BY <1>8
  <2>2. /\ GeneratorInterpretation(p).prefix = a /\ GeneratorInterpretation(p).suffix = d
        /\ GeneratorInterpretation(p).cut = c.cut
    BY <1>1, <1>2, <1>4, <1>5, <1>8, <1>9, <1>11 DEF GeneratorInterpretation
  <2> QED BY <1>2, <1>10, <2>1, <2>2 DEF Synthesised
<1>16. <<>> \o a = a
  BY <1>12
<1>17. Joins(a \o b, a, k, b, r)
  <2>1. Listed(a, k) /\ Listed(b, r)
    BY <1>12, <1>13
  <2> QED BY <2>1, ConcatJoins, Zenon
<1>18. PICK e : e = a \o b
  OBVIOUS
<1>19. Joins(e \o d, e, k + r, d, (n - k) - r)
  <2>1. Listed(e, k + r) /\ Listed(d, (n - k) - r)
    BY <1>14, <1>17, <1>18 DEF Joins
  <2> QED BY <2>1, ConcatJoins, Zenon
<1>20. PICK w : w = e \o d
  OBVIOUS
<1>21. (k + r) + ((n - k) - r) = n /\ k \in Nat /\ r \in Nat /\ k <= n /\ r <= n - k
  BY <1>7, <1>8
<1>22. ASSUME NEW i \in 1 .. n PROVE w[i] = orth[i]
  <2>1. CASE i <= k
    <3>1. i \in 1 .. k /\ i \in 1 .. k + r
      BY <1>21, <2>1
    <3> QED BY <1>12, <1>17, <1>18, <1>19, <1>20, <3>1 DEF Joins
  <2>2. CASE ~(i <= k) /\ i <= k + r
    <3>1. PICK j \in 1 .. r : k + j = i
      <4>1. i - k \in 1 .. r /\ k + (i - k) = i
        BY <1>21, <2>2
      <4> QED BY <4>1
    <3>2. k + j \in 1 .. k + r /\ j \in 1 .. n - k
      BY <1>21
    <3>3. w[k + j] = b[j] /\ b[j] = lemma[j] /\ t[j] = orth[k + j]
      BY <1>7, <1>13, <1>17, <1>18, <1>19, <1>20, <3>2 DEF Joins
    <3>4. lemma[j] = t[j]
      BY <1>8 DEF CharsMatch
    <3> QED BY <3>1, <3>3, <3>4
  <2>3. CASE ~(i <= k + r)
    <3>1. PICK j \in 1 .. (n - k) - r : (k + r) + j = i
      <4>1. i - (k + r) \in 1 .. (n - k) - r /\ (k + r) + (i - (k + r)) = i
        BY <1>21, <2>3
      <4> QED BY <4>1
    <3>2. r + j \in 1 .. n - k /\ k + (r + j) = i
      BY <1>21, <3>1
    <3>3. w[(k + r) + j] = d[j] /\ d[j] = t[r + j] /\ t[r + j] = orth[k + (r + j)]
      BY <1>7, <1>14, <1>19, <1>20, <3>2 DEF Joins
    <3> QED BY <3>1, <3>2, <3>3
  <2> QED BY <1>21, <2>1, <2>2, <2>3
<1>23. Listed(orth, n)
  BY <1>3, SeqListed
<1>24. w = orth
  <2>1. Listed(w, n)
    BY <1>19, <1>20, <1>21 DEF Joins
  <2> QED BY <1>22, <1>23, <2>1, ListedSame
<1> QED BY <1>1, <1>15, <1>16, <1>18, <1>20, <1>24

PlainLetter(l) ==
  UnicodeLower[l] = <<TableLower[l]>> /\ (l = TableLower[l] \/ UnicodeUpper[TableLower[l]] = <<l>>)

(* A letter is made of one with the same lower case, by its own case.      *)
LEMMA LetterFromLower ==
  ASSUME NEW k \in Letters, NEW l \in Letters, PlainLetter(k), PlainLetter(l), CharsMatch(k, l, TRUE)
  PROVE  /\ TableLower[k] = TableLower[l]
         /\ IsUpper(l) => UnicodeUpper[TableLower[k]] = <<l>>
         /\ ~IsUpper(l) => TableLower[k] = l
<1>1. <<TableLower[k]>> = <<TableLower[l]>>
  BY DEF CharsMatch, PlainLetter
<1>2. TableLower[k] = TableLower[l] /\ TableLower[l] \in Letters
  BY <1>1, DictionaryFormsAssumption
<1>3. ASSUME IsUpper(l) PROVE UnicodeUpper[TableLower[k]] = <<l>>
  BY <1>2, <1>3 DEF IsUpper, PlainLetter
<1>4. ASSUME ~IsUpper(l) PROVE TableLower[k] = l
  <2>1. CASE UnicodeLower[l] = <<l>>
    <3>1. <<TableLower[l]>> = <<l>>
      BY <2>1 DEF PlainLetter
    <3> QED BY <1>2, <3>1
  <2>2. CASE UnicodeUpper[l] # <<l>>
    <3>1. UnicodeUpper[TableLower[l]] # <<l>>
      BY <1>2, <2>2, DictionaryFormsAssumption
    <3> QED BY <1>2, <3>1 DEF PlainLetter
  <2> QED BY <1>4, <2>1, <2>2 DEF IsUpper
<1> QED BY <1>2, <1>3, <1>4

LetterByLetter(ss, w, n) == \A j \in 1 .. n : ss[j] = <<w[j]>>
Spells(s, w, n)          == Listed(s, n) /\ \A j \in 1 .. n : s[j] = w[j]

LEMMA FlattenLetters ==
  ASSUME NEW n \in Nat, NEW w, NEW ss, Listed(ss, n), LetterByLetter(ss, w, n)
  PROVE  Spells(FlattenSeq(ss), w, n)
<1> USE DEF LetterByLetter, Spells
<1>0. ss = [j \in 1 .. n |-> ss[j]]
  BY DEF Listed
<1>1. CASE n = 0
  <2>1. ss = <<>> /\ Len(ss) = 0
    BY <1>0, <1>1
  <2>2. FlattenSeq(ss) = <<>>
    BY <2>1 DEF FlattenSeq
  <2>3. Listed(<<>>, 0) /\ \A j \in 1 .. 0 : FALSE
    BY DEF Listed
  <2> QED BY <1>1, <2>2, <2>3
<1>2. CASE n # 0
  <2> DEFINE S == { w[j] : j \in 1 .. n }
  <2>1. \A j \in 1 .. n : w[j] \in S
    OBVIOUS
  <2> HIDE DEF S
  <2>2. \A x \in S : <<x>> \in Seq(S) /\ Len(<<x>>) = 1 /\ <<x>>[1] = x
    OBVIOUS
  <2>3. \A j \in 1 .. n : ss[j] \in Seq(S) /\ Len(ss[j]) = 1 /\ ss[j][1] = w[j]
    BY <2>1, <2>2
  <2>4. PICK sum : sum = [j \in 0 .. n |-> j]
    OBVIOUS
  <2>5. sum[0] = 0 /\ \A j \in 1 .. n : sum[j] = j /\ sum[j - 1] = j - 1 /\ sum[j] = sum[j - 1] + Len(ss[j])
    <3>1. \A j \in 1 .. n : j \in 0 .. n /\ j - 1 \in 0 .. n /\ (j - 1) + 1 = j
      OBVIOUS
    <3>2. 0 \in 0 .. n
      OBVIOUS
    <3> QED BY <2>3, <2>4, <3>1, <3>2
  <2>6. Placed(FlattenSeq(ss), ss, S, sum, n)
    <3>1. n \in Nat \ {0}
      BY <1>2
    <3> QED BY <1>0, <2>3, <2>5, <3>1, FlattenPlaced
  <2>7. PICK f : f = FlattenSeq(ss)
    OBVIOUS
  <2>8. f \in Seq(S) /\ Len(f) = n
    <3>1. n \in 1 .. n
      BY <1>2
    <3> QED BY <2>5, <2>6, <2>7, <3>1 DEF Placed
  <2>9. ASSUME NEW j \in 1 .. n PROVE f[j] = w[j]
    <3>1. 1 \in 1 .. Len(ss[j]) /\ sum[j - 1] + 1 = j
      BY <2>3, <2>5
    <3>2. f[sum[j - 1] + 1] = ss[j][1]
      BY <2>6, <2>7, <3>1 DEF Placed
    <3> QED BY <2>3, <3>1, <3>2
  <2>10. Listed(f, n)
    BY <2>8, SeqListed
  <2> QED BY <2>7, <2>9, <2>10
<1> QED BY <1>1, <1>2

(* The analyzer finds for the form of a line what the line says: the form  *)
(* has the case its pattern asks for, and what decode_analyzer_lemma_range *)
(* makes of it is the lemma that encode_analyzer_form was given, with its  *)
(* case.  When a prefix of the form is cut, this is said of lemmas whose   *)
(* letters kept from the form are in lower case: the reader counts the     *)
(* positions of the others from the start of the form.                     *)
THEOREM LemmasRead ==
  ASSUME NEW p, p.orth \in Seq(Letters) \ {<<>>}, p.base \in Seq(Letters), Plain(p.orth), Plain(p.base),
         NEW c, c = AnalyzerInterpretation(p)
  PROVE  /\ MatchesOrth(p.orth, c.orths)
         /\ c.prefix = 0 \/ c.pattern = {} => DecodeLemma(p.orth, c) = {p.base}
<1>1. PICK orth \in Seq(Letters) : orth = p.orth /\ orth # <<>>
  OBVIOUS
<1>2. PICK lemma \in Seq(Letters) : lemma = p.base
  OBVIOUS
<1>3. PICK n \in Nat \ {0} : n = Len(orth)
  BY <1>1
<1>4. PICK m \in Nat : m = Len(lemma)
  OBVIOUS
<1>5. /\ \A i \in 1 .. n : orth[i] \in Letters /\ PlainLetter(orth[i])
      /\ \A i \in 1 .. m : lemma[i] \in Letters /\ PlainLetter(lemma[i])
  <2>1. Plain(orth) /\ Plain(lemma)
    BY <1>1, <1>2
  <2>2. DOMAIN orth = 1 .. n /\ DOMAIN lemma = 1 .. m
    BY <1>1, <1>2, <1>3, <1>4
  <2>3. \A i \in 1 .. n : orth[i] \in Letters
    BY <1>1, <1>3
  <2>4. \A i \in 1 .. m : lemma[i] \in Letters
    BY <1>4
  <2>5. \A i \in 1 .. n : PlainLetter(orth[i])
    BY <2>1, <2>2 DEF Plain, PlainLetter
  <2>6. \A i \in 1 .. m : PlainLetter(lemma[i])
    BY <2>1, <2>2 DEF Plain, PlainLetter
  <2> QED BY <2>3, <2>4, <2>5, <2>6
<1>6. PICK e : e = EncodeAnalyzerForm(orth, lemma)
  OBVIOUS
<1>7. /\ c.prefix = e.prefix /\ c.cut = e.cut /\ c.suffix = e.suffix /\ c.pattern = e.pattern
      /\ c.orths = CasePattern(First(orth, n - e.cut))
  BY <1>1, <1>2, <1>3, <1>6 DEF AnalyzerInterpretation
<1>8. PICK k \in 0 .. n :
        /\ e.prefix = k
        /\ \E f : /\ f = EncodeFormWithoutPrefix(From(orth, k), lemma, TRUE)
                  /\ e.cut = f.cut /\ e.suffix = f.suffix /\ e.pattern = f.pattern
  <2> DEFINE Form(q) == EncodeFormWithoutPrefix(From(orth, q), lemma, TRUE)
             better  == { pq \in PrefixLengths(orth) \X PrefixLengths(orth) :
                            Len(Form(pq[1]).suffix) + pq[1] < Len(Form(pq[2]).suffix) }
             kept    == KeptLength(better, Max(PrefixLengths(orth)))
  <2>1. e = [prefix |-> kept, cut |-> Form(kept).cut, suffix |-> Form(kept).suffix,
             pattern |-> Form(kept).pattern]
    BY <1>6 DEF EncodeAnalyzerForm
  <2>2. kept \in 0 .. Len(orth) - 1
    <3> HIDE DEF better
    <3> QED BY <1>1, PrefixWithin
  <2> HIDE DEF better, kept
  <2>3. kept \in 0 .. n
    BY <1>3, <2>2
  <2>4. /\ e.prefix = kept /\ e.cut = Form(kept).cut /\ e.suffix = Form(kept).suffix
        /\ e.pattern = Form(kept).pattern
    BY <2>1
  <2> QED BY <2>3, <2>4
<1>9. PICK t \in Seq(Letters) : t = From(orth, k)
  BY <1>3, FromIs
<1>10. Len(t) = n - k /\ \A i \in 1 .. n - k : t[i] = orth[k + i] /\ k + i \in 1 .. n
  BY <1>3, <1>9, FromIs
<1>11. PICK r : Encodes(e, t, lemma, TRUE, r)
  <2>1. PICK f : /\ f = EncodeFormWithoutPrefix(t, lemma, TRUE)
                 /\ e.cut = f.cut /\ e.suffix = f.suffix /\ e.pattern = f.pattern
    BY <1>8, <1>9
  <2>2. PICK r : Encodes(f, t, lemma, TRUE, r)
    BY <2>1, EncodedIs
  <2> QED BY <2>1, <2>2 DEF Encodes
<1>12. /\ r \in 0 .. n - k /\ r \in 0 .. m /\ e.cut = (n - k) - r /\ e.suffix = From(lemma, r)
       /\ e.pattern = CasePattern(First(lemma, r))
       /\ \A i \in 1 .. r : CharsMatch(t[i], lemma[i], TRUE)
  BY <1>4, <1>10, <1>11 DEF Encodes
<1>13. MatchesOrth(orth, c.orths)
  <2>1. PICK q : q = n - e.cut
    OBVIOUS
  <2>2. q \in 0 .. n
    BY <1>12, <2>1
  <2>3. PICK a : a = First(orth, q)
    OBVIOUS
  <2>4. Len(a) = q /\ \A i \in 1 .. q : a[i] = orth[i] /\ i \in 1 .. n
    <3>1. Listed(a, q) /\ a \in Seq(Letters) /\ \A i \in 1 .. q : a[i] = orth[i]
      BY <1>3, <2>2, <2>3, FirstIs
    <3> QED BY <2>2, <3>1 DEF Listed
  <2> SUFFICES ASSUME NEW i \in c.orths
               PROVE  i < Len(orth) /\ TableLower[orth[i + 1]] # orth[i + 1]
    BY DEF MatchesOrth
  <2>5. i \in 0 .. q - 1 /\ IsUpper(a[i + 1])
    BY <1>7, <2>1, <2>3, <2>4 DEF CasePattern
  <2>6. i + 1 \in 1 .. q /\ i < n
    BY <2>2, <2>5
  <2>7. PICK x \in Letters : x = orth[i + 1] /\ PlainLetter(x) /\ IsUpper(x)
    BY <1>5, <2>4, <2>5, <2>6
  <2>8. UnicodeLower[x] # <<x>> /\ UnicodeLower[x] = <<TableLower[x]>>
    BY <2>7 DEF IsUpper, PlainLetter
  <2> QED BY <1>3, <2>6, <2>7, <2>8
<1>14. ASSUME c.prefix = 0 \/ c.pattern = {} PROVE DecodeLemma(orth, c) = {lemma}
  <2>1. PICK a : a = First(lemma, r)
    OBVIOUS
  <2>2. Listed(a, r) /\ Len(a) = r /\ \A i \in 1 .. r : a[i] = lemma[i]
    <3>1. Listed(a, r) /\ a \in Seq(Letters) /\ \A i \in 1 .. r : a[i] = lemma[i]
      BY <1>4, <1>12, <2>1, FirstIs
    <3> QED BY <3>1 DEF Listed
  <2>3. \A j \in 1 .. r : (k + j) - 1 \in c.pattern <=> IsUpper(lemma[j])
    <3>1. c.pattern = { i \in 0 .. r - 1 : IsUpper(a[i + 1]) }
      BY <1>7, <1>12, <2>1, <2>2 DEF CasePattern
    <3>2. \A j \in 1 .. r : j - 1 \in 0 .. r - 1 /\ (j - 1) + 1 = j
      BY <1>12
    <3>3. \A j \in 1 .. r : j - 1 \in c.pattern <=> IsUpper(lemma[j])
      BY <2>2, <3>1, <3>2
    <3>4. CASE c.prefix = 0
      <4>1. \A j \in 1 .. r : (k + j) - 1 = j - 1
        BY <1>7, <1>8, <1>12, <3>4
      <4> QED BY <3>3, <4>1
    <3>5. CASE c.pattern = {}
      BY <3>3, <3>5
    <3> QED BY <1>14, <3>4, <3>5
  <2> DEFINE Letter(i) == IF i - 1 \in c.pattern THEN UnicodeUpper[TableLower[orth[i]]]
                          ELSE <<TableLower[orth[i]]>>
  <2>4. ASSUME NEW j \in 1 .. r PROVE Letter(k + j) = <<a[j]>>
    <3>1. j \in 1 .. n - k /\ j \in 1 .. m
      BY <1>12
    <3>2. PICK x \in Letters : x = orth[k + j] /\ x = t[j] /\ PlainLetter(x)
      BY <1>5, <1>10, <3>1
    <3>3. PICK l \in Letters : l = lemma[j] /\ PlainLetter(l)
      BY <1>5, <3>1
    <3>4. CharsMatch(x, l, TRUE)
      BY <1>12, <3>2, <3>3
    <3>5. /\ IsUpper(l) => UnicodeUpper[TableLower[x]] = <<l>>
          /\ ~IsUpper(l) => TableLower[x] = l
      BY <3>2, <3>3, <3>4, LetterFromLower
    <3> QED BY <2>2, <2>3, <3>2, <3>3, <3>5
  <2>5. PICK ss : ss = [j \in 1 .. r |-> Letter(c.prefix + j)]
    OBVIOUS
  <2>6. Listed(ss, r) /\ \A j \in 1 .. r : ss[j] = <<a[j]>>
    <3>1. \A j \in 1 .. r : ss[j] = Letter(k + j)
      BY <1>7, <1>8, <2>5
    <3>2. r \in Nat
      BY <1>12
    <3>3. ss = [j \in 1 .. r |-> ss[j]]
      BY <2>5
    <3> HIDE DEF Letter
    <3> QED BY <2>4, <3>1, <3>2, <3>3 DEF Listed
  <2>7. DecodeLemma(orth, c) = {FlattenSeq(ss) \o c.suffix}
    <3>1. Len(orth) - c.cut - c.prefix = r /\ ~(r < 0)
      <4>1. Len(orth) = n /\ c.cut = (n - k) - r /\ c.prefix = k
        BY <1>3, <1>7, <1>8, <1>12
      <4>2. n \in Nat /\ k \in Nat /\ r \in Nat
        BY <1>12
      <4>3. n - ((n - k) - r) - k = r /\ ~(r < 0)
        BY <4>2
      <4> QED BY <4>1, <4>3
    <3> QED BY <2>5, <3>1 DEF DecodeLemma
  <2>8. PICK b : b = FlattenSeq(ss)
    OBVIOUS
  <2>9. Listed(b, r) /\ \A j \in 1 .. r : b[j] = lemma[j]
    <3>1. r \in Nat
      BY <1>12
    <3>2. Listed(ss, r) /\ LetterByLetter(ss, a, r)
      BY <2>6 DEF LetterByLetter
    <3>3. Spells(FlattenSeq(ss), a, r)
      BY <3>1, <3>2, FlattenLetters, Zenon
    <3> QED BY <2>2, <2>8, <3>3 DEF Spells
  <2>10. PICK d : d = From(lemma, r)
    OBVIOUS
  <2>11. Listed(d, m - r) /\ \A i \in 1 .. m - r : d[i] = lemma[r + i]
    <3>1. /\ Listed(From(lemma, r), Len(lemma) - r)
          /\ \A i \in 1 .. Len(lemma) - r : From(lemma, r)[i] = lemma[r + i]
      BY <1>4, <1>12, FromIs
    <3> QED BY <1>4, <2>10, <3>1
  <2>12. Joins(b \o d, b, r, d, m - r)
    BY <2>9, <2>11, ConcatJoins, Zenon
  <2>13. PICK w : w = b \o d
    OBVIOUS
  <2>14. r + (m - r) = m /\ r \in Nat /\ r <= m
    BY <1>12
  <2>15. ASSUME NEW i \in 1 .. m PROVE w[i] = lemma[i]
    <3>1. CASE i <= r
      <4>1. i \in 1 .. r
        BY <2>14, <3>1
      <4> QED BY <2>9, <2>12, <2>13, <4>1 DEF Joins
    <3>2. CASE ~(i <= r)
      <4>1. PICK j \in 1 .. m - r : r + j = i
        <5>1. i - r \in 1 .. m - r /\ r + (i - r) = i
          BY <2>14, <3>2
        <5> QED BY <5>1
      <4> QED BY <2>11, <2>12, <2>13, <4>1 DEF Joins
    <3> QED BY <3>1, <3>2
  <2>16. Listed(w, m) /\ Listed(lemma, m)
    <3>1. Listed(lemma, m)
      BY <1>4, SeqListed
    <3> QED BY <2>12, <2>13, <2>14, <3>1 DEF Joins
  <2>17. w = lemma
    BY <2>15, <2>16, ListedSame
  <2> QED BY <1>7, <1>12, <2>7, <2>8, <2>10, <2>13, <2>17
<1> QED BY <1>1, <1>2, <1>13, <1>14

-----------------------------------------------------------------------------
(* Packing and unpacking                                                   *)

LEMMA RisingOrderLists ==
  ASSUME NEW p \in SUBSET Nat, IsFiniteSet(p)
  PROVE  /\ Cardinality(p) \in Nat /\ Listed(InRisingOrder(p), Cardinality(p))
         /\ { InRisingOrder(p)[k] : k \in 1 .. Cardinality(p) } = p
<1>1. PICK below : below = [i \in p |-> { j \in p : j < i }]
  OBVIOUS
<1>2. below \in [p -> SUBSET p] /\ \A i \in p : below[i] = { j \in p : j < i }
  BY <1>1
<1>3. /\ Cardinality(p) \in Nat
      /\ \A l \in p : Cardinality(below[l]) + 1 \in 1 .. Cardinality(p)
      /\ \A k, l \in p : Cardinality(below[k]) = Cardinality(below[l]) => k = l
      /\ \A i \in 1 .. Cardinality(p) : \E l \in p : Cardinality(below[l]) = i - 1
  <2>1. \A l \in p : l \notin below[l]
    BY <1>2
  <2>2. \A k, l \in p : k # l => k \in below[l] \/ l \in below[k]
    BY <1>2
  <2>3. ASSUME NEW k \in p, NEW l \in p, k \in below[l] PROVE below[k] \subseteq below[l]
    <3>1. k < l /\ k \in Nat /\ l \in Nat
      BY <1>2, <2>3
    <3>2. ASSUME NEW j \in p, j < k PROVE j < l
      <4>1. j \in Nat
        OBVIOUS
      <4> QED BY <3>1, <3>2, <4>1
    <3> QED BY <1>2, <3>2
  <2>4. \A k, l \in p : k \in below[l] => below[k] \subseteq below[l]
    BY <2>3
  <2>5. below \in [p -> SUBSET p]
    BY <1>2
  <2> QED BY <2>1, <2>2, <2>4, <2>5, RankOnto
<1>4. PICK n \in Nat : n = Cardinality(p)
  BY <1>3
<1>5. PICK a : a = InRisingOrder(p)
  OBVIOUS
<1>6. /\ a = [k \in 1 .. n |-> a[k]]
      /\ \A k \in 1 .. n : a[k] = CHOOSE i \in p : Cardinality({ j \in p : j < i }) = k - 1
  <2>1. InRisingOrder(p) = [k \in 1 .. n |-> CHOOSE i \in p : Cardinality({ j \in p : j < i }) = k - 1]
    BY <1>4 DEF InRisingOrder
  <2> QED BY <1>5, <2>1
<1>7. ASSUME NEW k \in 1 .. n PROVE a[k] \in p /\ Cardinality(below[a[k]]) = k - 1
  <2>1. \E i \in p : Cardinality({ j \in p : j < i }) = k - 1
    BY <1>2, <1>3, <1>4
  <2>2. a[k] \in p /\ Cardinality({ j \in p : j < a[k] }) = k - 1
    BY <1>6, <2>1
  <2> QED BY <1>2, <2>2
<1>8. ASSUME NEW l \in p PROVE \E k \in 1 .. n : a[k] = l
  <2>1. PICK r : r = Cardinality(below[l])
    OBVIOUS
  <2>2. r + 1 \in 1 .. n
    BY <1>3, <1>4, <2>1
  <2>3. r \in Nat
    <3>1. IsFiniteSet(below[l])
      <4>1. below[l] \in SUBSET p
        BY <1>2
      <4> QED BY <4>1, FS_Subset
    <3> QED BY <2>1, <3>1, FS_CardinalityType
  <2>4. (r + 1) - 1 = r
    BY <2>3
  <2>5. a[r + 1] \in p /\ Cardinality(below[a[r + 1]]) = r
    BY <1>7, <2>2, <2>4
  <2>6. a[r + 1] = l
    BY <1>3, <2>1, <2>5
  <2> QED BY <2>2, <2>6
<1>9. { a[k] : k \in 1 .. n } = p
  BY <1>7, <1>8
<1>10. Listed(a, n)
  BY <1>6 DEF Listed
<1> QED BY <1>3, <1>4, <1>5, <1>9, <1>10

(* A case pattern is read as it was written.                               *)
LEMMA PatternReadBack ==
  ASSUME NEW p \in SUBSET Nat, IsFiniteSet(p)
  PROVE  ReadCasePattern(EncodeCasePattern(p)) = p
<1>1. PICK n \in Nat : n = Cardinality(p)
  BY FS_CardinalityType
<1>2. CASE p = {}
  <2>1. EncodeCasePattern(p) = <<0>>
    BY <1>2 DEF EncodeCasePattern
  <2>2. <<0>>[1] = 0
    OBVIOUS
  <2> QED BY <1>2, <2>1, <2>2 DEF ReadCasePattern
<1>3. CASE p # {} /\ p = 0 .. n - 1
  <2>1. EncodeCasePattern(p) = <<1, n>>
    BY <1>1, <1>3 DEF EncodeCasePattern
  <2>2. <<1, n>>[1] = 1 /\ <<1, n>>[2] = n
    OBVIOUS
  <2> QED BY <1>3, <2>1, <2>2 DEF ReadCasePattern
<1>4. CASE p # {} /\ p # 0 .. n - 1
  <2>1. PICK a : a = InRisingOrder(p)
    OBVIOUS
  <2>2. Listed(a, n) /\ { a[k] : k \in 1 .. n } = p
    BY <1>1, <2>1, RisingOrderLists
  <2>3. PICK s : s = <<2, n>> \o a
    OBVIOUS
  <2>4. EncodeCasePattern(p) = s
    BY <1>1, <1>4, <2>1, <2>3 DEF EncodeCasePattern
  <2>5. Joins(s, <<2, n>>, 2, a, n)
    <3>1. Listed(<<2, n>>, 2)
      BY DEF Listed
    <3> QED BY <2>2, <2>3, <3>1, ConcatJoins
  <2>6. s[1] = 2
    <3>1. 1 \in 1 .. 2 /\ <<2, n>>[1] = 2
      OBVIOUS
    <3> QED BY <2>5, <3>1 DEF Joins
  <2>7. s \in Seq(Nat) /\ Len(s) = 2 + n
    <3>1. ASSUME NEW i \in 1 .. 2 + n PROVE s[i] \in Nat
      <4>1. CASE i \in 1 .. 2
        <5>1. \A j \in 1 .. 2 : <<2, n>>[j] \in Nat
          OBVIOUS
        <5> QED BY <2>5, <4>1, <5>1 DEF Joins
      <4>2. CASE i \notin 1 .. 2
        <5>1. PICK j \in 1 .. n : 2 + j = i
          <6>1. i - 2 \in 1 .. n /\ 2 + (i - 2) = i
            BY <4>2
          <6> QED BY <6>1
        <5>2. a[j] \in p
          BY <2>2
        <5> QED BY <2>5, <5>1, <5>2 DEF Joins
      <4> QED BY <4>1, <4>2
    <3>2. Listed(s, 2 + n)
      BY <2>5 DEF Joins
    <3> QED BY <3>1, <3>2, ListedSeq
  <2>8. PICK t : t = From(s, 2)
    OBVIOUS
  <2>9. Listed(t, n) /\ \A i \in 1 .. n : t[i] = s[2 + i]
    <3>1. 2 \in 0 .. Len(s) /\ Len(s) - 2 = n
      BY <2>7
    <3>2. Listed(From(s, 2), Len(s) - 2) /\ \A i \in 1 .. Len(s) - 2 : From(s, 2)[i] = s[2 + i]
      BY <2>7, <3>1, FromIs
    <3> QED BY <2>8, <3>1, <3>2
  <2>10. \A i \in 1 .. n : t[i] = a[i]
    BY <2>5, <2>9 DEF Joins
  <2>11. ToSet(t) = p
    <3>1. DOMAIN t = 1 .. n
      BY <2>9 DEF Listed
    <3>2. ToSet(t) = { a[i] : i \in 1 .. n }
      BY <2>10, <3>1 DEF ToSet
    <3> QED BY <2>2, <3>2
  <2>12. ReadCasePattern(s) = ToSet(From(s, 2))
    BY <2>6 DEF ReadCasePattern
  <2> QED BY <2>4, <2>8, <2>11, <2>12
<1> QED BY <1>2, <1>3, <1>4

LEMMA WordReadBack ==
  ASSUME NEW S, NEW w \in Seq(S)
  PROVE  Front(Word(w)) = w
<1>1. PICK T : T = S \cup {0}
  OBVIOUS
<1>2. PICK n \in Nat : n = Len(w)
  OBVIOUS
<1>3. PICK x : x = Append(w, 0)
  OBVIOUS
<1>4. w \in Seq(T) /\ 0 \in T
  BY <1>1
<1>5. x \in Seq(T) /\ Len(x) = n + 1 /\ \A i \in 1 .. n : x[i] = w[i]
  BY <1>2, <1>3, <1>4
<1>6. PICK t : t = SubSeq(x, 1, Len(x) - 1)
  OBVIOUS
<1>7. Listed(t, n) /\ \A i \in 1 .. n : t[i] = x[i]
  <2>1. Len(x) # 0 /\ Len(x) - 1 = n
    BY <1>5
  <2>2. /\ Len(t) = Len(x) - 1 /\ t = [i \in 1 .. Len(t) |-> t[i]]
        /\ \A i \in 1 .. Len(x) - 1 : t[i] = x[i]
    BY <1>5, <1>6, <2>1, FrontIs
  <2> QED BY <2>1, <2>2 DEF Listed
<1>8. Listed(w, n)
  BY <1>2, SeqListed
<1>9. t = w
  BY <1>5, <1>7, <1>8, ListedSame
<1> QED BY <1>3, <1>6, <1>9 DEF Front, Word

LEMMA NumberReadBack ==
  ASSUME NEW k \in Nat
  PROVE  256 * Number(k)[1] + Number(k)[2] = k
BY DEF Number

One(condition) == IF condition THEN 1 ELSE 0

LEMMA WhenIs ==
  ASSUME NEW a \in BOOLEAN, NEW x
  PROVE  /\ One(a) \in 0 .. 1 /\ Listed(When(a, x), One(a)) /\ (a => When(a, x)[1] = x)
BY DEF One, When, Listed

Packs(w, a, b, c, x, y, u, v, z, t1, t2, t3) ==
  w = When(a, x) \o When(b, y) \o <<u, v>> \o When(c, z) \o <<t1, t2, t3>>

PlacesAre(prefix, cut, tag, a, b, c) ==
  prefix = 1 + One(a) /\ cut = prefix + One(b) /\ tag = cut + 2 + One(c)

Reads(w, prefix, cut, tag, a, b, c, x, y, u, v, z, t1, t2, t3) ==
  /\ (a => w[1] = x) /\ (b => w[prefix] = y)
  /\ w[cut] = u /\ w[cut + 1] = v /\ (c => w[cut + 2] = z)
  /\ w[tag] = t1 /\ w[tag + 1] = t2 /\ w[tag + 2] = t3

LEMMA AnalyzerItemIs ==
  ASSUME NEW a \in BOOLEAN, NEW b \in BOOLEAN, NEW c \in BOOLEAN, NEW x, NEW y, NEW u, NEW v, NEW z,
         NEW t1, NEW t2, NEW t3, NEW w, Packs(w, a, b, c, x, y, u, v, z, t1, t2, t3),
         NEW prefix, NEW cut, NEW tag, PlacesAre(prefix, cut, tag, a, b, c)
  PROVE  Reads(w, prefix, cut, tag, a, b, c, x, y, u, v, z, t1, t2, t3)
<1> USE DEF Packs, PlacesAre, Reads
<1>1. PICK w1, w2, w3 : w1 = When(a, x) /\ w2 = When(b, y) /\ w3 = When(c, z)
  OBVIOUS
<1>2. PICK A \in 0 .. 1, B \in 0 .. 1, C \in 0 .. 1 : A = One(a) /\ B = One(b) /\ C = One(c)
  BY DEF One
<1>3. Listed(w1, A) /\ Listed(w2, B) /\ Listed(w3, C)
  <2>1. Listed(When(a, x), One(a)) /\ Listed(When(b, y), One(b)) /\ Listed(When(c, z), One(c))
    <3>1. Listed(When(a, x), One(a))
      BY WhenIs
    <3>2. Listed(When(b, y), One(b))
      BY WhenIs
    <3>3. Listed(When(c, z), One(c))
      BY WhenIs
    <3> QED BY <3>1, <3>2, <3>3
  <2> QED BY <1>1, <1>2, <2>1
<1>4. (a => A = 1 /\ w1[1] = x) /\ (b => B = 1 /\ w2[1] = y) /\ (c => C = 1 /\ w3[1] = z)
  BY <1>1, <1>2 DEF One, When
<1>5. PICK two : two = <<u, v>>
  OBVIOUS
<1>6. Listed(two, 2) /\ two[1] = u /\ two[2] = v
  BY <1>5 DEF Listed
<1>7. PICK meta : meta = <<t1, t2, t3>>
  OBVIOUS
<1>8. Listed(meta, 3) /\ meta[1] = t1 /\ meta[2] = t2 /\ meta[3] = t3
  BY <1>7 DEF Listed
<1>9. PICK j1, j2, j3 : j1 = w1 \o w2 /\ j2 = j1 \o two /\ j3 = j2 \o w3
  OBVIOUS
<1>10. w = j3 \o meta
  BY <1>1, <1>5, <1>7, <1>9
<1>11. Joins(j1, w1, A, w2, B)
  BY <1>3, <1>9, ConcatJoins
<1>12. Joins(j2, j1, A + B, two, 2)
  <2>1. Listed(j1, A + B)
    BY <1>11 DEF Joins
  <2> QED BY <1>6, <1>9, <2>1, ConcatJoins
<1>13. Joins(j3, j2, (A + B) + 2, w3, C)
  <2>1. Listed(j2, (A + B) + 2)
    BY <1>12 DEF Joins
  <2> QED BY <1>3, <1>9, <2>1, ConcatJoins
<1>14. Joins(w, j3, ((A + B) + 2) + C, meta, 3)
  <2>1. Listed(j3, ((A + B) + 2) + C)
    BY <1>13 DEF Joins
  <2> QED BY <1>8, <1>10, <2>1, ConcatJoins
<1>15. prefix = 1 + A /\ cut = (1 + A) + B /\ tag = (((1 + A) + B) + 2) + C
  BY <1>2
<1>16. ASSUME NEW i \in 1 .. (A + B) + 2 PROVE w[i] = j2[i]
  <2>1. i \in 1 .. ((A + B) + 2) + C
    OBVIOUS
  <2>2. w[i] = j3[i] /\ j3[i] = j2[i]
    BY <1>13, <1>14, <2>1 DEF Joins
  <2> QED BY <2>2
<1>17. ASSUME NEW i \in 1 .. A + B PROVE w[i] = j1[i]
  <2>1. i \in 1 .. (A + B) + 2
    OBVIOUS
  <2>2. w[i] = j2[i] /\ j2[i] = j1[i]
    BY <1>12, <1>16, <2>1 DEF Joins
  <2> QED BY <2>2
<1>18. ASSUME a PROVE w[1] = x
  <2>1. 1 \in 1 .. A /\ 1 \in 1 .. A + B
    BY <1>4, <1>18
  <2>2. w[1] = j1[1] /\ j1[1] = w1[1]
    BY <1>11, <1>17, <2>1 DEF Joins
  <2> QED BY <1>4, <1>18, <2>2
<1>19. ASSUME b PROVE w[prefix] = y
  <2>1. 1 \in 1 .. B /\ A + 1 \in 1 .. A + B /\ prefix = A + 1
    BY <1>4, <1>15, <1>19
  <2>2. w[A + 1] = j1[A + 1] /\ j1[A + 1] = w2[1]
    BY <1>11, <1>17, <2>1 DEF Joins
  <2> QED BY <1>4, <1>19, <2>1, <2>2
<1>20. w[cut] = u /\ w[cut + 1] = v
  <2>1. /\ 1 \in 1 .. 2 /\ 2 \in 1 .. 2
        /\ (A + B) + 1 \in 1 .. (A + B) + 2 /\ (A + B) + 2 \in 1 .. (A + B) + 2
        /\ cut = (A + B) + 1 /\ cut + 1 = (A + B) + 2
    BY <1>15
  <2>2. j2[(A + B) + 1] = two[1] /\ j2[(A + B) + 2] = two[2]
    BY <1>12, <2>1 DEF Joins
  <2>3. w[(A + B) + 1] = j2[(A + B) + 1] /\ w[(A + B) + 2] = j2[(A + B) + 2]
    BY <1>16, <2>1
  <2> QED BY <1>6, <2>1, <2>2, <2>3
<1>21. ASSUME c PROVE w[cut + 2] = z
  <2>1. /\ 1 \in 1 .. C /\ ((A + B) + 2) + 1 \in 1 .. ((A + B) + 2) + C
        /\ cut + 2 = ((A + B) + 2) + 1
    BY <1>4, <1>15, <1>21
  <2>2. /\ w[((A + B) + 2) + 1] = j3[((A + B) + 2) + 1]
        /\ j3[((A + B) + 2) + 1] = w3[1]
    BY <1>13, <1>14, <2>1 DEF Joins
  <2> QED BY <1>4, <1>21, <2>1, <2>2
<1>22. w[tag] = t1 /\ w[tag + 1] = t2 /\ w[tag + 2] = t3
  <2>1. PICK m : m = ((A + B) + 2) + C
    OBVIOUS
  <2>2. m \in Nat /\ tag = m + 1 /\ tag + 1 = m + 2 /\ tag + 2 = m + 3
    BY <1>15, <2>1
  <2>3. w[m + 1] = meta[1] /\ w[m + 2] = meta[2] /\ w[m + 3] = meta[3]
    <3>1. 1 \in 1 .. 3 /\ 2 \in 1 .. 3 /\ 3 \in 1 .. 3
      OBVIOUS
    <3> QED BY <1>14, <2>1, <3>1 DEF Joins
  <2> QED BY <1>8, <2>2, <2>3
<1> QED BY <1>18, <1>19, <1>20, <1>21, <1>22

(* A case that all of a group have is its pattern; in each, it is read.    *)
LEMMA CaseReadBack ==
  ASSUME NEW patterns, NEW p \in patterns, p \in SUBSET Nat, IsFiniteSet(p), NEW item, NEW place,
         CaseOf(patterns) = InEach => item[place] = EncodeCasePattern(p)
  PROVE  CaseRead(CaseOf(patterns), item, place) = p
<1>1. CASE patterns = {{}}
  <2>1. CaseOf(patterns) = Lower
    BY <1>1 DEF CaseOf
  <2>2. CaseRead(Lower, item, place) = {}
    <3>1. Lower = Lower /\ Lower # Title
      BY DEF Lower, Title
    <3> QED BY <3>1 DEF CaseRead
  <2> QED BY <1>1, <2>1, <2>2
<1>2. CASE patterns = {{0}}
  <2>1. {0} # {}
    OBVIOUS
  <2>2. patterns # {{}} /\ p = {0}
    BY <1>2, <2>1
  <2>3. CaseOf(patterns) = Title /\ Title # Lower
    BY <1>2, <2>2 DEF CaseOf, Title, Lower
  <2> QED BY <2>2, <2>3 DEF CaseRead
<1>3. CASE patterns # {{}} /\ patterns # {{0}}
  <2>1. CaseOf(patterns) = InEach /\ InEach # Lower /\ InEach # Title
    BY <1>3 DEF CaseOf, InEach, Lower, Title
  <2>2. CaseRead(InEach, item, place) = ReadCasePattern(item[place])
    BY <2>1 DEF CaseRead
  <2> QED BY <2>1, <2>2, PatternReadBack
<1> QED BY <1>1, <1>2, <1>3

LEMMA PrefixReadBack ==
  ASSUME NEW prefixes \in SUBSET Nat, IsFiniteSet(prefixes), NEW n \in prefixes, PrefixOf(prefixes) # PrefixInEach
  PROVE  PrefixOf(prefixes) = n
<1>1. Cardinality(prefixes) = 1 /\ PrefixOf(prefixes) = Max(prefixes)
  BY DEF PrefixOf
<1>2. PICK x : prefixes = {x}
  BY <1>1, FS_Singleton
<1>3. prefixes = {n} /\ n \in Nat
  BY <1>2
<1>4. Max(prefixes) \in prefixes
  <2>1. \A other \in prefixes : other <= n
    BY <1>3
  <2> QED BY <1>3, <2>1, MaxIs
<1> QED BY <1>1, <1>3, <1>4

(* What an interpretation of an analyzer says, in its group or outside.    *)
AnalyzerFields(i) ==
  [orths |-> i.orths, prefix |-> i.prefix, cut |-> i.cut, suffix |-> i.suffix, pattern |-> i.pattern,
   tag |-> i.tag, name |-> i.name, labels |-> i.labels]

AnalyzerTyped(i) ==
  /\ i.orths \in SUBSET Nat /\ IsFiniteSet(i.orths)
  /\ i.pattern \in SUBSET Nat /\ IsFiniteSet(i.pattern)
  /\ i.prefix \in Nat /\ i.suffix \in Seq(Letters)
  /\ i.tag \in Nat /\ i.labels \in Nat

AnalyzerItem(group, i) ==
  When(group.orth = InEach, EncodeCasePattern(i.orths)) \o When(group.prefix = PrefixInEach, <<i.prefix>>)
    \o <<<<i.cut>>, Word(i.suffix)>>
    \o When(group.lemma = InEach, EncodeCasePattern(i.pattern)) \o Meta(i)

LEMMA AnalyzerItemReadBack ==
  ASSUME NEW S, IsFiniteSet(S), \A i \in S : AnalyzerTyped(i), NEW group, group = AnalyzerGroup(S),
         NEW i \in S
  PROVE  ReadAnalyzerItem(group, AnalyzerItem(group, i)) = AnalyzerFields(i)
<1>1. /\ group.orth = CaseOf({ j.orths : j \in S }) /\ group.lemma = CaseOf({ j.pattern : j \in S })
      /\ group.prefix = PrefixOf({ j.prefix : j \in S })
  BY DEF AnalyzerGroup
<1>2. AnalyzerTyped(i)
  OBVIOUS
<1>3. PICK a \in BOOLEAN, b \in BOOLEAN, c \in BOOLEAN :
        /\ a <=> group.orth = InEach
        /\ b <=> group.prefix = PrefixInEach
        /\ c <=> group.lemma = InEach
  OBVIOUS
<1>4. PICK prefix, cut, tag : prefix = 1 + One(a) /\ cut = prefix + One(b) /\ tag = cut + 2 + One(c)
  OBVIOUS
<1>5. PICK w : w = AnalyzerItem(group, i)
  OBVIOUS
<1>6. PICK x, y, u, v, z, t1, t2, t3 :
        /\ x = EncodeCasePattern(i.orths) /\ y = <<i.prefix>> /\ u = <<i.cut>> /\ v = Word(i.suffix)
        /\ z = EncodeCasePattern(i.pattern) /\ t1 = Number(i.tag) /\ t2 = <<i.name>> /\ t3 = Number(i.labels)
  OBVIOUS
<1>7. w = When(a, x) \o When(b, y) \o <<u, v>> \o When(c, z) \o <<t1, t2, t3>>
  BY <1>3, <1>5, <1>6 DEF AnalyzerItem, Meta, When
<1>8. /\ (a => w[1] = x) /\ (b => w[prefix] = y)
      /\ w[cut] = u /\ w[cut + 1] = v /\ (c => w[cut + 2] = z)
      /\ w[tag] = t1 /\ w[tag + 1] = t2 /\ w[tag + 2] = t3
  <2>1. Packs(w, a, b, c, x, y, u, v, z, t1, t2, t3)
    BY <1>7 DEF Packs
  <2>2. PlacesAre(prefix, cut, tag, a, b, c)
    BY <1>4 DEF PlacesAre
  <2>3. Reads(w, prefix, cut, tag, a, b, c, x, y, u, v, z, t1, t2, t3)
    BY <2>1, <2>2, AnalyzerItemIs, Zenon
  <2> QED BY <2>3 DEF Reads
<1>9. CaseRead(group.orth, w, 1) = i.orths
  <2>1. PICK patterns : patterns = { j.orths : j \in S }
    OBVIOUS
  <2>2. i.orths \in patterns
    BY <2>1
  <2>3. CaseOf(patterns) = InEach => w[1] = EncodeCasePattern(i.orths)
    BY <1>1, <1>3, <1>6, <1>8, <2>1
  <2>4. CaseRead(CaseOf(patterns), w, 1) = i.orths
    BY <1>2, <2>2, <2>3, CaseReadBack DEF AnalyzerTyped
  <2> QED BY <1>1, <2>1, <2>4
<1>10. CaseRead(group.lemma, w, cut + 2) = i.pattern
  <2>1. PICK patterns : patterns = { j.pattern : j \in S }
    OBVIOUS
  <2>2. i.pattern \in patterns
    BY <2>1
  <2>3. CaseOf(patterns) = InEach => w[cut + 2] = EncodeCasePattern(i.pattern)
    BY <1>1, <1>3, <1>6, <1>8, <2>1
  <2>4. CaseRead(CaseOf(patterns), w, cut + 2) = i.pattern
    BY <1>2, <2>2, <2>3, CaseReadBack DEF AnalyzerTyped
  <2> QED BY <1>1, <2>1, <2>4
<1>11. (IF group.prefix = PrefixInEach THEN w[prefix][1] ELSE group.prefix) = i.prefix
  <2>1. CASE b
    <3>1. w[prefix][1] = i.prefix
      BY <1>6, <1>8, <2>1
    <3> QED BY <1>3, <2>1, <3>1
  <2>2. CASE ~b
    <3>1. PICK prefixes : prefixes = { j.prefix : j \in S }
      OBVIOUS
    <3>2. prefixes \in SUBSET Nat
      BY <3>1 DEF AnalyzerTyped
    <3>3. IsFiniteSet(prefixes)
      <4>1. PICK f : f = [j \in S |-> j.prefix]
        OBVIOUS
      <4>2. f \in [S -> prefixes] /\ \A k \in prefixes : \E j \in S : f[j] = k
        BY <3>1, <4>1
      <4>3. f \in Surjection(S, prefixes)
        BY <4>2 DEF Surjection
      <4> QED BY <4>3, FS_Surjection
    <3>4. i.prefix \in prefixes /\ PrefixOf(prefixes) # PrefixInEach
      BY <1>1, <1>3, <2>2, <3>1
    <3>5. PrefixOf(prefixes) = i.prefix
      BY <3>2, <3>3, <3>4, PrefixReadBack
    <3> QED BY <1>1, <1>3, <2>2, <3>1, <3>5
  <2> QED BY <2>1, <2>2
<1>12. w[cut][1] = i.cut /\ w[tag + 1][1] = i.name
  BY <1>6, <1>8
<1>13. Front(w[cut + 1]) = i.suffix
  BY <1>2, <1>6, <1>8, WordReadBack DEF AnalyzerTyped
<1>14. 256 * w[tag][1] + w[tag][2] = i.tag
  BY <1>2, <1>6, <1>8, NumberReadBack DEF AnalyzerTyped
<1>15. 256 * w[tag + 2][1] + w[tag + 2][2] = i.labels
  BY <1>2, <1>6, <1>8, NumberReadBack DEF AnalyzerTyped
<1>16. ReadAnalyzerItem(group, w) =
         [orths |-> CaseRead(group.orth, w, 1),
          prefix |-> IF group.prefix = PrefixInEach THEN w[prefix][1] ELSE group.prefix,
          cut |-> w[cut][1], suffix |-> Front(w[cut + 1]), pattern |-> CaseRead(group.lemma, w, cut + 2),
          tag |-> 256 * w[tag][1] + w[tag][2], name |-> w[tag + 1][1],
          labels |-> 256 * w[tag + 2][1] + w[tag + 2][2]]
  <2>1. /\ prefix = 1 + IF group.orth = InEach THEN 1 ELSE 0
        /\ cut = prefix + IF group.prefix = PrefixInEach THEN 1 ELSE 0
        /\ tag = cut + 2 + IF group.lemma = InEach THEN 1 ELSE 0
    BY <1>3, <1>4 DEF One
  <2> QED BY <2>1 DEF ReadAnalyzerItem
<1> QED BY <1>5, <1>9, <1>10, <1>11, <1>12, <1>13, <1>14, <1>15, <1>16 DEF AnalyzerFields

(* What a group packs is what the analyzer reads from it, whichever of the *)
(* cases and prefixes its first byte says that all share.                  *)
LEMMA AnalyzerGroupsRead ==
  ASSUME NEW S, IsFiniteSet(S), \A i \in S : AnalyzerTyped(i), NEW group, group = AnalyzerGroup(S)
  PROVE  { ReadAnalyzerItem(group, item) : item \in group.items } = { AnalyzerFields(i) : i \in S }
<1>1. group.items = { AnalyzerItem(group, i) : i \in S }
  BY DEF AnalyzerGroup, AnalyzerItem
<1>2. \A i \in S : ReadAnalyzerItem(group, AnalyzerItem(group, i)) = AnalyzerFields(i)
  BY AnalyzerItemReadBack
<1> QED BY <1>1, <1>2

GeneratorFields(i) ==
  [homonym |-> i.homonym, prefix |-> i.prefix, cut |-> i.cut, suffix |-> i.suffix,
   tag |-> i.tag, name |-> i.name, labels |-> i.labels]

GeneratorTyped(i) ==
  /\ i.homonym \in Seq(Letters) /\ i.prefix \in Seq(Letters) /\ i.suffix \in Seq(Letters)
  /\ i.tag \in Nat /\ i.labels \in Nat

LEMMA GeneratorItemReadBack ==
  ASSUME NEW i, GeneratorTyped(i), NEW w,
         w = <<Word(i.homonym), Word(i.prefix), <<i.cut>>, Word(i.suffix)>> \o Meta(i)
  PROVE  ReadGeneratorItem(w) = GeneratorFields(i)
<1>1. PICK s, meta : s = <<Word(i.homonym), Word(i.prefix), <<i.cut>>, Word(i.suffix)>> /\ meta = Meta(i)
  OBVIOUS
<1>2. Listed(s, 4) /\ s[1] = Word(i.homonym) /\ s[2] = Word(i.prefix) /\ s[3] = <<i.cut>> /\ s[4] = Word(i.suffix)
  BY <1>1 DEF Listed
<1>3. Listed(meta, 3) /\ meta[1] = Number(i.tag) /\ meta[2] = <<i.name>> /\ meta[3] = Number(i.labels)
  BY <1>1 DEF Listed, Meta
<1>4. Joins(w, s, 4, meta, 3)
  BY <1>1, <1>2, <1>3, ConcatJoins
<1>5. w[1] = s[1] /\ w[2] = s[2] /\ w[3] = s[3] /\ w[4] = s[4]
  <2>1. 1 \in 1 .. 4 /\ 2 \in 1 .. 4 /\ 3 \in 1 .. 4 /\ 4 \in 1 .. 4
    OBVIOUS
  <2> QED BY <1>4, <2>1 DEF Joins
<1>6. w[5] = meta[1] /\ w[6] = meta[2] /\ w[7] = meta[3]
  <2>1. /\ 1 \in 1 .. 3 /\ 2 \in 1 .. 3 /\ 3 \in 1 .. 3
        /\ 4 + 1 = 5 /\ 4 + 2 = 6 /\ 4 + 3 = 7
    OBVIOUS
  <2> QED BY <1>4, <2>1 DEF Joins
<1>7. Front(w[1]) = i.homonym /\ Front(w[2]) = i.prefix /\ Front(w[4]) = i.suffix
  BY <1>2, <1>5, WordReadBack DEF GeneratorTyped
<1>8. 256 * w[5][1] + w[5][2] = i.tag /\ 256 * w[7][1] + w[7][2] = i.labels
  <2>1. w[5] = Number(i.tag) /\ w[7] = Number(i.labels)
    BY <1>3, <1>6
  <2>2. 256 * Number(i.tag)[1] + Number(i.tag)[2] = i.tag
    BY NumberReadBack DEF GeneratorTyped
  <2>3. 256 * Number(i.labels)[1] + Number(i.labels)[2] = i.labels
    BY NumberReadBack DEF GeneratorTyped
  <2> QED BY <2>1, <2>2, <2>3
<1>9. w[3][1] = i.cut /\ w[6][1] = i.name
  <2>1. w[3] = <<i.cut>> /\ w[6] = <<i.name>>
    BY <1>2, <1>3, <1>5, <1>6
  <2>2. <<i.cut>>[1] = i.cut /\ <<i.name>>[1] = i.name
    OBVIOUS
  <2> QED BY <2>1, <2>2
<1> QED BY <1>7, <1>8, <1>9 DEF ReadGeneratorItem, GeneratorFields

(* And a generator's.                                                      *)
LEMMA GeneratorGroupsRead ==
  ASSUME NEW S, \A i \in S : GeneratorTyped(i), NEW group, group = GeneratorGroup(S)
  PROVE  { ReadGeneratorItem(item) : item \in group.items } = { GeneratorFields(i) : i \in S }
<1> DEFINE Item(i) == <<Word(i.homonym), Word(i.prefix), <<i.cut>>, Word(i.suffix)>> \o Meta(i)
<1>1. group.items = { Item(i) : i \in S }
  BY DEF GeneratorGroup
<1>2. \A i \in S : ReadGeneratorItem(Item(i)) = GeneratorFields(i)
  BY GeneratorItemReadBack
<1> HIDE DEF Item
<1> QED BY <1>1, <1>2

-----------------------------------------------------------------------------
(* The lines of one key                                                    *)

LEMMA PatternTyped ==
  ASSUME NEW w \in Seq(Letters)
  PROVE  CasePattern(w) \in SUBSET Nat /\ IsFiniteSet(CasePattern(w))
<1>1. PICK n \in Nat : n = Len(w)
  OBVIOUS
<1>2. CasePattern(w) \in SUBSET (0 .. n - 1) /\ 0 .. n - 1 \in SUBSET Nat
  BY <1>1 DEF CasePattern
<1>3. IsFiniteSet(0 .. n - 1)
  <2>1. 0 \in Int /\ n - 1 \in Int
    OBVIOUS
  <2> QED BY <2>1, FS_Interval
<1> QED BY <1>2, <1>3, FS_Subset

LineTyped(p) ==
  /\ p.orth \in Seq(Letters) \ {<<>>} /\ p.base \in Seq(Letters) /\ p.homonym \in Seq(Letters)
  /\ p.tag \in Nat /\ p.labels \in Nat

LEMMA AnalyzerInterpretationTyped ==
  ASSUME NEW p, LineTyped(p)
  PROVE  AnalyzerTyped(AnalyzerInterpretation(p))
<1>1. PICK orth \in Seq(Letters) : orth = p.orth /\ orth # <<>>
  BY DEF LineTyped
<1>2. PICK lemma \in Seq(Letters) : lemma = p.base
  BY DEF LineTyped
<1>3. PICK n \in Nat \ {0} : n = Len(orth)
  BY <1>1
<1>4. PICK e : e = EncodeAnalyzerForm(orth, lemma)
  OBVIOUS
<1>5. PICK k \in 0 .. n :
        /\ e.prefix = k
        /\ \E f : /\ f = EncodeFormWithoutPrefix(From(orth, k), lemma, TRUE)
                  /\ e.cut = f.cut /\ e.suffix = f.suffix /\ e.pattern = f.pattern
  <2> DEFINE Form(q) == EncodeFormWithoutPrefix(From(orth, q), lemma, TRUE)
             better  == { pq \in PrefixLengths(orth) \X PrefixLengths(orth) :
                            Len(Form(pq[1]).suffix) + pq[1] < Len(Form(pq[2]).suffix) }
             kept    == KeptLength(better, Max(PrefixLengths(orth)))
  <2>1. e = [prefix |-> kept, cut |-> Form(kept).cut, suffix |-> Form(kept).suffix,
             pattern |-> Form(kept).pattern]
    BY <1>4 DEF EncodeAnalyzerForm
  <2>2. kept \in 0 .. Len(orth) - 1
    <3> HIDE DEF better
    <3> QED BY <1>1, PrefixWithin
  <2> HIDE DEF better, kept
  <2>3. kept \in 0 .. n
    BY <1>3, <2>2
  <2>4. /\ e.prefix = kept /\ e.cut = Form(kept).cut /\ e.suffix = Form(kept).suffix
        /\ e.pattern = Form(kept).pattern
    BY <2>1
  <2> QED BY <2>3, <2>4
<1>6. PICK t \in Seq(Letters) : t = From(orth, k) /\ Len(t) = n - k
  BY <1>3, FromIs
<1>7. PICK r : Encodes(e, t, lemma, TRUE, r)
  <2>1. PICK f : /\ f = EncodeFormWithoutPrefix(t, lemma, TRUE)
                 /\ e.cut = f.cut /\ e.suffix = f.suffix /\ e.pattern = f.pattern
    BY <1>5, <1>6
  <2>2. PICK r : Encodes(f, t, lemma, TRUE, r)
    BY <2>1, EncodedIs
  <2> QED BY <2>1, <2>2 DEF Encodes
<1>8. e.suffix \in Seq(Letters)
  <2>1. r \in 0 .. Len(lemma) /\ e.suffix = From(lemma, r)
    BY <1>7 DEF Encodes
  <2> QED BY <2>1, FromIs
<1>9. e.pattern \in SUBSET Nat /\ IsFiniteSet(e.pattern)
  <2>1. r \in 0 .. Len(lemma) /\ e.pattern = CasePattern(First(lemma, r))
    BY <1>7 DEF Encodes
  <2>2. First(lemma, r) \in Seq(Letters)
    BY <2>1, FirstIs
  <2> QED BY <2>1, <2>2, PatternTyped
<1>10. CasePattern(First(orth, n - e.cut)) \in SUBSET Nat /\ IsFiniteSet(CasePattern(First(orth, n - e.cut)))
  <2>1. e.cut \in 0 .. n - k
    BY <1>6, <1>7 DEF Encodes
  <2>2. n - e.cut \in 0 .. Len(orth)
    BY <1>3, <2>1
  <2>3. First(orth, n - e.cut) \in Seq(Letters)
    BY <2>2, FirstIs
  <2> QED BY <2>3, PatternTyped
<1>11. k \in Nat
  OBVIOUS
<1>12. p.tag \in Nat /\ p.labels \in Nat
  BY DEF LineTyped
<1>13. PICK c : c = AnalyzerInterpretation(p)
  OBVIOUS
<1>14. /\ c.orths = CasePattern(First(orth, n - e.cut)) /\ c.prefix = k /\ c.suffix = e.suffix
       /\ c.pattern = e.pattern /\ c.tag = p.tag /\ c.labels = p.labels
  BY <1>1, <1>2, <1>3, <1>4, <1>5, <1>13 DEF AnalyzerInterpretation
<1> QED BY <1>8, <1>9, <1>10, <1>11, <1>12, <1>13, <1>14 DEF AnalyzerTyped

LEMMA GeneratorInterpretationTyped ==
  ASSUME NEW p, LineTyped(p)
  PROVE  GeneratorTyped(GeneratorInterpretation(p))
<1>1. PICK orth \in Seq(Letters) : orth = p.orth /\ orth # <<>>
  BY DEF LineTyped
<1>2. PICK lemma \in Seq(Letters) : lemma = p.base
  BY DEF LineTyped
<1>3. PICK n \in Nat \ {0} : n = Len(orth)
  BY <1>1
<1>4. PICK e : e = EncodeGeneratorForm(lemma, orth)
  OBVIOUS
<1>5. PICK k \in 0 .. n :
        /\ e.prefix = First(orth, k)
        /\ \E f : /\ f = EncodeFormWithoutPrefix(lemma, From(orth, k), FALSE)
                  /\ e.cut = f.cut /\ e.suffix = f.suffix
  <2> DEFINE Form(q) == EncodeFormWithoutPrefix(lemma, From(orth, q), FALSE)
             better  == { pq \in PrefixLengths(orth) \X PrefixLengths(orth) :
                            Len(Form(pq[1]).suffix) + pq[1] < Len(Form(pq[2]).suffix) + pq[2] }
             kept    == KeptLength(better, Max(PrefixLengths(orth)))
  <2>1. e = [prefix |-> First(orth, kept), cut |-> Form(kept).cut, suffix |-> Form(kept).suffix]
    BY <1>4 DEF EncodeGeneratorForm
  <2>2. kept \in 0 .. Len(orth) - 1
    <3> HIDE DEF better
    <3> QED BY <1>1, PrefixWithin
  <2> HIDE DEF better, kept
  <2>3. kept \in 0 .. n
    BY <1>3, <2>2
  <2>4. e.prefix = First(orth, kept) /\ e.cut = Form(kept).cut /\ e.suffix = Form(kept).suffix
    BY <2>1
  <2> QED BY <2>3, <2>4
<1>6. PICK t \in Seq(Letters) : t = From(orth, k)
  BY <1>3, FromIs
<1>7. e.prefix \in Seq(Letters)
  BY <1>3, <1>5, FirstIs
<1>8. e.suffix \in Seq(Letters)
  <2>1. PICK f : f = EncodeFormWithoutPrefix(lemma, t, FALSE) /\ e.suffix = f.suffix
    BY <1>5, <1>6
  <2>2. PICK r : Encodes(f, lemma, t, FALSE, r)
    BY <2>1, EncodedIs
  <2>3. r \in 0 .. Len(t) /\ f.suffix = From(t, r)
    BY <2>2 DEF Encodes
  <2> QED BY <2>1, <2>3, FromIs
<1>9. p.tag \in Nat /\ p.labels \in Nat /\ p.homonym \in Seq(Letters)
  BY DEF LineTyped
<1>10. PICK c : c = GeneratorInterpretation(p)
  OBVIOUS
<1>11. /\ c.prefix = e.prefix /\ c.suffix = e.suffix /\ c.homonym = p.homonym /\ c.tag = p.tag
       /\ c.labels = p.labels
  BY <1>1, <1>2, <1>4, <1>10 DEF GeneratorInterpretation
<1> QED BY <1>7, <1>8, <1>9, <1>10, <1>11 DEF GeneratorTyped

(* Each interpretation has one that is kept, of the same sort key.         *)
LEMMA DedupKeeps ==
  ASSUME NEW n \in Nat, NEW interps, Listed(interps, n), NEW target
  PROVE  /\ IsFiniteSet(Dedup(interps, target))
         /\ \A d \in Dedup(interps, target) : \E k \in 1 .. n : d = interps[k]
         /\ \A k \in 1 .. n : \E d \in Dedup(interps, target) :
              SortKey(d, target) = SortKey(interps[k], target)
<1>1. DOMAIN interps = 1 .. n
  BY DEF Listed
<1>2. PICK firsts : firsts = { i \in 1 .. n :
        \A j \in 1 .. i - 1 : SortKey(interps[j], target) # SortKey(interps[i], target) }
  OBVIOUS
<1>3. Dedup(interps, target) = { interps[i] : i \in firsts }
  BY <1>1, <1>2 DEF Dedup
<1>4. firsts \in SUBSET (1 .. n)
  BY <1>2
<1>5. IsFiniteSet(firsts)
  <2>1. IsFiniteSet(1 .. n)
    BY FS_Interval
  <2> QED BY <1>4, <2>1, FS_Subset
<1>6. PICK kept : kept = Dedup(interps, target)
  OBVIOUS
<1>7. IsFiniteSet(kept)
  <2>1. PICK f : f = [i \in firsts |-> interps[i]]
    OBVIOUS
  <2>2. f \in [firsts -> kept] /\ \A y \in kept : \E i \in firsts : f[i] = y
    BY <1>3, <1>6, <2>1
  <2>3. f \in Surjection(firsts, kept)
    BY <2>2 DEF Surjection
  <2> QED BY <1>5, <2>3, FS_Surjection
<1>8. ASSUME NEW k \in 1 .. n
      PROVE  \E d \in kept : SortKey(d, target) = SortKey(interps[k], target)
  <2>1. PICK same : same = { i \in 1 .. n : SortKey(interps[i], target) = SortKey(interps[k], target) }
    OBVIOUS
  <2>2. same \in SUBSET Nat /\ same # {}
    <3>1. k \in same
      BY <2>1
    <3> QED BY <2>1, <3>1
  <2>3. PICK i \in same : \A j \in same : i <= j
    BY <2>2, LeastOf
  <2>4. i \in 1 .. n /\ SortKey(interps[i], target) = SortKey(interps[k], target)
    BY <2>1
  <2>5. ASSUME NEW j \in 1 .. i - 1 PROVE SortKey(interps[j], target) # SortKey(interps[i], target)
    <3>1. j \in 1 .. n /\ ~(i <= j)
      BY <2>4
    <3> QED BY <2>1, <2>3, <2>4, <3>1
  <2>6. i \in firsts
    BY <1>2, <2>4, <2>5
  <2> QED BY <1>3, <1>6, <2>4, <2>6
<1> QED BY <1>3, <1>4, <1>6, <1>7, <1>8

LEMMA AnalyzerSortKeySame ==
  ASSUME NEW p, NEW q, NEW c, c = AnalyzerInterpretation(p), NEW d, d = AnalyzerInterpretation(q),
         SortKey(d, "analyzer") = SortKey(c, "analyzer")
  PROVE  /\ d.prefix = c.prefix /\ d.cut = c.cut /\ d.suffix = c.suffix /\ d.pattern = c.pattern
         /\ d.orths = c.orths /\ d.tag = c.tag /\ d.name = c.name /\ d.type = c.type
<1>1. PICK x : x = SortKey(c, "analyzer")
  OBVIOUS
<1>2. /\ x.prefix = c.prefix /\ x.cut = c.cut /\ x.suffix = c.suffix /\ x.pattern = c.pattern
      /\ x.orths = c.orths /\ x.tag = c.tag /\ x.name = c.name /\ x.type = c.type
  BY <1>1 DEF SortKey, AnalyzerInterpretation
<1>3. /\ x.prefix = d.prefix /\ x.cut = d.cut /\ x.suffix = d.suffix /\ x.pattern = d.pattern
      /\ x.orths = d.orths /\ x.tag = d.tag /\ x.name = d.name /\ x.type = d.type
  <2>1. x = SortKey(d, "analyzer")
    BY <1>1
  <2> QED BY <2>1 DEF SortKey, AnalyzerInterpretation
<1> QED BY <1>2, <1>3

LEMMA GeneratorSortKeySame ==
  ASSUME NEW p, NEW q, NEW c, c = GeneratorInterpretation(p), NEW d, d = GeneratorInterpretation(q),
         SortKey(d, "generator") = SortKey(c, "generator")
  PROVE  /\ d.homonym = c.homonym /\ d.cut = c.cut /\ d.suffix = c.suffix
         /\ d.tag = c.tag /\ d.name = c.name /\ d.type = c.type
<1>1. PICK x : x = SortKey(c, "generator")
  OBVIOUS
<1>2. /\ x.homonym = c.homonym /\ x.cut = c.cut /\ x.suffix = c.suffix
      /\ x.tag = c.tag /\ x.name = c.name /\ x.type = c.type
  BY <1>1 DEF SortKey, GeneratorInterpretation
<1>3. /\ x.homonym = d.homonym /\ x.cut = d.cut /\ x.suffix = d.suffix
      /\ x.tag = d.tag /\ x.name = d.name /\ x.type = d.type
  <2>1. x = SortKey(d, "generator")
    BY <1>1
  <2> QED BY <2>1 DEF SortKey, GeneratorInterpretation
<1> QED BY <1>2, <1>3

(* What is read says a line: its tag and name, the case of its form, and   *)
(* its lemma (with a prefix cut, a lemma of which no kept letter is upper).*)
SaysLine(f, p) ==
  /\ f.tag = p.tag /\ f.name = p.name /\ MatchesOrth(p.orth, f.orths)
  /\ f.prefix = 0 \/ f.pattern = {} => DecodeLemma(p.orth, f) = {p.base}

(* An analyzer's entry says each of its lines, even one that is left out   *)
(* as the repetition of another with other labels, and says what some line *)
(* of the type says and nothing else.                                      *)
THEOREM AnalyzerLinesRead ==
  ASSUME NEW n \in Nat, NEW lines, \A k \in 1 .. n : LineTyped(lines[k]),
         NEW payload,
         payload = Payload(Dedup([k \in 1 .. n |-> AnalyzerInterpretation(lines[k])], "analyzer"), "analyzer")
  PROVE  /\ \A k \in 1 .. n :
              Plain(lines[k].orth) /\ Plain(lines[k].base) =>
                /\ lines[k].type \in DOMAIN payload
                /\ \E item \in payload[lines[k].type].items :
                     SaysLine(ReadAnalyzerItem(payload[lines[k].type], item), lines[k])
         /\ \A type \in DOMAIN payload : \A item \in payload[type].items : \E k \in 1 .. n :
              /\ lines[k].type = type
              /\ ReadAnalyzerItem(payload[type], item) = AnalyzerFields(AnalyzerInterpretation(lines[k]))
<1>1. PICK interps : interps = [k \in 1 .. n |-> AnalyzerInterpretation(lines[k])]
  OBVIOUS
<1>2. Listed(interps, n) /\ \A k \in 1 .. n : interps[k] = AnalyzerInterpretation(lines[k])
  BY <1>1 DEF Listed
<1>3. PICK kept : kept = Dedup(interps, "analyzer")
  OBVIOUS
<1>4. /\ IsFiniteSet(kept)
      /\ \A d \in kept : \E k \in 1 .. n : d = interps[k]
      /\ \A k \in 1 .. n : \E d \in kept : SortKey(d, "analyzer") = SortKey(interps[k], "analyzer")
  BY <1>2, <1>3, DedupKeeps
<1>5. /\ DOMAIN payload = { i.type : i \in kept }
      /\ \A type \in DOMAIN payload : payload[type] = AnalyzerGroup({ i \in kept : i.type = type })
  <2>1. payload = Payload(kept, "analyzer")
    BY <1>1, <1>3
  <2>2. payload = [type \in { i.type : i \in kept } |-> AnalyzerGroup({ i \in kept : i.type = type })]
    BY <2>1 DEF Payload
  <2> QED BY <2>2
<1>6. ASSUME NEW type \in DOMAIN payload
      PROVE  { ReadAnalyzerItem(payload[type], item) : item \in payload[type].items } =
               { AnalyzerFields(i) : i \in { i \in kept : i.type = type } }
  <2>1. PICK S : S = { i \in kept : i.type = type }
    OBVIOUS
  <2>2. IsFiniteSet(S)
    <3>1. S \in SUBSET kept
      BY <2>1
    <3> QED BY <1>4, <3>1, FS_Subset
  <2>3. \A i \in S : AnalyzerTyped(i)
    <3>1. \A k \in 1 .. n : AnalyzerTyped(AnalyzerInterpretation(lines[k]))
      BY AnalyzerInterpretationTyped
    <3> QED BY <1>2, <1>4, <2>1, <3>1
  <2>4. payload[type] = AnalyzerGroup(S)
    BY <1>5, <2>1
  <2>5. { ReadAnalyzerItem(payload[type], item) : item \in payload[type].items } = { AnalyzerFields(i) : i \in S }
    BY <2>2, <2>3, <2>4, AnalyzerGroupsRead
  <2> QED BY <2>1, <2>5
<1>7. ASSUME NEW k \in 1 .. n, Plain(lines[k].orth), Plain(lines[k].base)
      PROVE  /\ lines[k].type \in DOMAIN payload
             /\ \E item \in payload[lines[k].type].items :
                  SaysLine(ReadAnalyzerItem(payload[lines[k].type], item), lines[k])
  <2>1. PICK p : p = lines[k] /\ LineTyped(p)
    OBVIOUS
  <2>2. PICK c : c = AnalyzerInterpretation(p)
    OBVIOUS
  <2>3. PICK d \in kept : SortKey(d, "analyzer") = SortKey(c, "analyzer")
    BY <1>2, <1>4, <2>1, <2>2
  <2>4. PICK q : d = AnalyzerInterpretation(q)
    BY <1>2, <1>4
  <2>5. /\ d.prefix = c.prefix /\ d.cut = c.cut /\ d.suffix = c.suffix /\ d.pattern = c.pattern
        /\ d.orths = c.orths /\ d.tag = c.tag /\ d.name = c.name /\ d.type = c.type
    BY <2>2, <2>3, <2>4, AnalyzerSortKeySame
  <2>6. c.type = p.type /\ c.tag = p.tag /\ c.name = p.name
    BY <2>2 DEF AnalyzerInterpretation
  <2>7. p.type \in DOMAIN payload
    BY <1>5, <2>5, <2>6
  <2>8. PICK item \in payload[p.type].items : ReadAnalyzerItem(payload[p.type], item) = AnalyzerFields(d)
    <3>1. d \in { i \in kept : i.type = p.type }
      BY <2>5, <2>6
    <3>2. AnalyzerFields(d) \in { AnalyzerFields(i) : i \in { i \in kept : i.type = p.type } }
      BY <3>1
    <3>3. AnalyzerFields(d) \in { ReadAnalyzerItem(payload[p.type], item) : item \in payload[p.type].items }
      BY <1>6, <2>7, <3>2
    <3> QED BY <3>3, Zenon
  <2>9. PICK f : f = ReadAnalyzerItem(payload[p.type], item)
    OBVIOUS
  <2>10. /\ f.prefix = c.prefix /\ f.cut = c.cut /\ f.suffix = c.suffix /\ f.pattern = c.pattern
         /\ f.orths = c.orths /\ f.tag = p.tag /\ f.name = p.name
    <3>1. f = AnalyzerFields(d)
      BY <2>8, <2>9
    <3>2. /\ f.prefix = d.prefix /\ f.cut = d.cut /\ f.suffix = d.suffix /\ f.pattern = d.pattern
          /\ f.orths = d.orths /\ f.tag = d.tag /\ f.name = d.name
      BY <3>1 DEF AnalyzerFields
    <3> QED BY <2>5, <2>6, <3>2
  <2>11. /\ MatchesOrth(p.orth, c.orths)
         /\ c.prefix = 0 \/ c.pattern = {} => DecodeLemma(p.orth, c) = {p.base}
    <3>1. p.orth \in Seq(Letters) \ {<<>>} /\ p.base \in Seq(Letters)
      BY <2>1 DEF LineTyped
    <3>2. Plain(p.orth) /\ Plain(p.base)
      BY <1>7, <2>1
    <3> QED BY <2>2, <3>1, <3>2, LemmasRead
  <2>12. DecodeLemma(p.orth, f) = DecodeLemma(p.orth, c)
    BY <2>10 DEF DecodeLemma
  <2>13. SaysLine(f, p)
    BY <2>10, <2>11, <2>12 DEF SaysLine
  <2> QED BY <2>1, <2>7, <2>9, <2>13
<1>8. ASSUME NEW type \in DOMAIN payload, NEW item \in payload[type].items
      PROVE  \E k \in 1 .. n :
               /\ lines[k].type = type
               /\ ReadAnalyzerItem(payload[type], item) = AnalyzerFields(AnalyzerInterpretation(lines[k]))
  <2>1. PICK i \in kept : i.type = type /\ ReadAnalyzerItem(payload[type], item) = AnalyzerFields(i)
    <3>1. PICK f : f = ReadAnalyzerItem(payload[type], item)
      OBVIOUS
    <3>2. f \in { ReadAnalyzerItem(payload[type], other) : other \in payload[type].items }
      BY <3>1, Zenon
    <3>3. f \in { AnalyzerFields(i) : i \in { i \in kept : i.type = type } }
      BY <1>6, <3>2
    <3> QED BY <3>1, <3>3
  <2>2. PICK k \in 1 .. n : i = AnalyzerInterpretation(lines[k])
    BY <1>2, <1>4
  <2>3. i.type = lines[k].type
    BY <2>2 DEF AnalyzerInterpretation
  <2> QED BY <2>1, <2>2, <2>3
<1> QED BY <1>7, <1>8

(* A generator's entry: what is made of the lemma is the form of some line *)
(* with its tag, name and labels; and each line has an item with its tag,  *)
(* name and homonym that differs from the lemma as the line's form does    *)
(* but for what stands before the stem: lines that only differ there, or   *)
(* in their labels, make one form, the first.                              *)
THEOREM GeneratorLinesMade ==
  ASSUME NEW n \in Nat, NEW base, NEW lines, \A k \in 1 .. n : LineTyped(lines[k]) /\ lines[k].base = base,
         NEW payload,
         payload = Payload(Dedup([k \in 1 .. n |-> GeneratorInterpretation(lines[k])], "generator"), "generator")
  PROVE  /\ \A k \in 1 .. n :
              /\ lines[k].type \in DOMAIN payload
              /\ \E item \in payload[lines[k].type].items : LET f == ReadGeneratorItem(item) IN
                   /\ f.homonym = lines[k].homonym /\ f.tag = lines[k].tag /\ f.name = lines[k].name
                   /\ f.cut = EncodeGeneratorForm(base, lines[k].orth).cut
                   /\ f.suffix = EncodeGeneratorForm(base, lines[k].orth).suffix
         /\ \A type \in DOMAIN payload : \A item \in payload[type].items : \E k \in 1 .. n :
              LET made == Synthesised(<<>>, base, ReadGeneratorItem(item)) IN
              /\ lines[k].type = type
              /\ made.orth = lines[k].orth /\ made.tag = lines[k].tag /\ made.name = lines[k].name
              /\ made.labels = lines[k].labels
<1>1. PICK interps : interps = [k \in 1 .. n |-> GeneratorInterpretation(lines[k])]
  OBVIOUS
<1>2. Listed(interps, n) /\ \A k \in 1 .. n : interps[k] = GeneratorInterpretation(lines[k])
  BY <1>1 DEF Listed
<1>3. PICK kept : kept = Dedup(interps, "generator")
  OBVIOUS
<1>4. /\ \A d \in kept : \E k \in 1 .. n : d = interps[k]
      /\ \A k \in 1 .. n : \E d \in kept : SortKey(d, "generator") = SortKey(interps[k], "generator")
  BY <1>2, <1>3, DedupKeeps
<1>5. /\ DOMAIN payload = { i.type : i \in kept }
      /\ \A type \in DOMAIN payload : payload[type] = GeneratorGroup({ i \in kept : i.type = type })
  <2>1. payload = Payload(kept, "generator")
    BY <1>1, <1>3
  <2>2. payload = [type \in { i.type : i \in kept } |-> GeneratorGroup({ i \in kept : i.type = type })]
    BY <2>1 DEF Payload
  <2> QED BY <2>2
<1>6. ASSUME NEW type \in DOMAIN payload
      PROVE  { ReadGeneratorItem(item) : item \in payload[type].items } =
               { GeneratorFields(i) : i \in { i \in kept : i.type = type } }
  <2>1. PICK S : S = { i \in kept : i.type = type }
    OBVIOUS
  <2>2. \A i \in S : GeneratorTyped(i)
    <3>1. \A k \in 1 .. n : GeneratorTyped(GeneratorInterpretation(lines[k]))
      BY GeneratorInterpretationTyped
    <3> QED BY <1>2, <1>4, <2>1, <3>1
  <2>3. payload[type] = GeneratorGroup(S)
    BY <1>5, <2>1
  <2>4. { ReadGeneratorItem(item) : item \in payload[type].items } = { GeneratorFields(i) : i \in S }
    BY <2>2, <2>3, GeneratorGroupsRead
  <2> QED BY <2>1, <2>4
<1>7. ASSUME NEW k \in 1 .. n
      PROVE  /\ lines[k].type \in DOMAIN payload
             /\ \E item \in payload[lines[k].type].items : LET f == ReadGeneratorItem(item) IN
                  /\ f.homonym = lines[k].homonym /\ f.tag = lines[k].tag /\ f.name = lines[k].name
                  /\ f.cut = EncodeGeneratorForm(base, lines[k].orth).cut
                  /\ f.suffix = EncodeGeneratorForm(base, lines[k].orth).suffix
  <2>1. PICK p : p = lines[k] /\ p.base = base
    OBVIOUS
  <2>2. PICK c : c = GeneratorInterpretation(p)
    OBVIOUS
  <2>3. PICK d \in kept : SortKey(d, "generator") = SortKey(c, "generator")
    BY <1>2, <1>4, <2>1, <2>2
  <2>4. PICK q : d = GeneratorInterpretation(q)
    BY <1>2, <1>4
  <2>5. /\ d.homonym = c.homonym /\ d.cut = c.cut /\ d.suffix = c.suffix
        /\ d.tag = c.tag /\ d.name = c.name /\ d.type = c.type
    BY <2>2, <2>3, <2>4, GeneratorSortKeySame
  <2>6. /\ c.type = p.type /\ c.tag = p.tag /\ c.name = p.name /\ c.homonym = p.homonym
        /\ c.cut = EncodeGeneratorForm(base, p.orth).cut /\ c.suffix = EncodeGeneratorForm(base, p.orth).suffix
    BY <2>1, <2>2 DEF GeneratorInterpretation
  <2>7. p.type \in DOMAIN payload
    BY <1>5, <2>5, <2>6
  <2>8. PICK item \in payload[p.type].items : ReadGeneratorItem(item) = GeneratorFields(d)
    <3>1. d \in { i \in kept : i.type = p.type }
      BY <2>5, <2>6
    <3> QED BY <1>6, <2>7, <3>1
  <2>9. PICK f : f = ReadGeneratorItem(item)
    OBVIOUS
  <2>10. f.homonym = d.homonym /\ f.tag = d.tag /\ f.name = d.name /\ f.cut = d.cut /\ f.suffix = d.suffix
    <3>1. f = GeneratorFields(d)
      BY <2>8, <2>9
    <3> QED BY <3>1 DEF GeneratorFields
  <2> QED BY <2>1, <2>5, <2>6, <2>7, <2>9, <2>10
<1>8. ASSUME NEW type \in DOMAIN payload, NEW item \in payload[type].items
      PROVE  \E k \in 1 .. n :
               LET made == Synthesised(<<>>, base, ReadGeneratorItem(item)) IN
               /\ lines[k].type = type
               /\ made.orth = lines[k].orth /\ made.tag = lines[k].tag /\ made.name = lines[k].name
               /\ made.labels = lines[k].labels
  <2>1. PICK i \in kept : i.type = type /\ ReadGeneratorItem(item) = GeneratorFields(i)
    <3>1. PICK f : f = ReadGeneratorItem(item)
      OBVIOUS
    <3>2. f \in { ReadGeneratorItem(other) : other \in payload[type].items }
      BY <3>1, Zenon
    <3>3. f \in { GeneratorFields(i) : i \in { i \in kept : i.type = type } }
      BY <1>6, <3>2
    <3> QED BY <3>1, <3>3
  <2>2. PICK k \in 1 .. n : i = GeneratorInterpretation(lines[k])
    BY <1>2, <1>4
  <2>3. PICK p : p = lines[k] /\ LineTyped(p) /\ p.base = base
    OBVIOUS
  <2>4. i.type = p.type /\ i.tag = p.tag /\ i.name = p.name /\ i.labels = p.labels
    BY <2>2, <2>3 DEF GeneratorInterpretation
  <2>5. PICK f : f = ReadGeneratorItem(item)
    OBVIOUS
  <2>6. /\ f.prefix = i.prefix /\ f.cut = i.cut /\ f.suffix = i.suffix
        /\ f.tag = i.tag /\ f.name = i.name /\ f.labels = i.labels
    <3>1. f = GeneratorFields(i)
      BY <2>1, <2>5
    <3> QED BY <3>1 DEF GeneratorFields
  <2>7. Synthesised(<<>>, base, i).orth = p.orth
    <3>1. p.orth \in Seq(Letters) \ {<<>>} /\ p.base \in Seq(Letters)
      BY <2>3 DEF LineTyped
    <3>2. Synthesised(<<>>, p.base, GeneratorInterpretation(p)).orth = p.orth
      BY <3>1, FormsMade
    <3> QED BY <2>2, <2>3, <3>2
  <2>8. PICK made : made = Synthesised(<<>>, base, f)
    OBVIOUS
  <2>9. made.orth = Synthesised(<<>>, base, i).orth
    BY <2>6, <2>8 DEF Synthesised
  <2>10. made.tag = f.tag /\ made.name = f.name /\ made.labels = f.labels
    BY <2>8 DEF Synthesised
  <2> QED BY <2>1, <2>3, <2>4, <2>5, <2>6, <2>7, <2>8, <2>9, <2>10
<1> QED BY <1>7, <1>8
=============================================================================
