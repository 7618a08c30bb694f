-------------------------- MODULE MorfeuszHandles --------------------------
(***************************************************************************)
(* The Morfeusz handle: options, dictionaries and token numbering.         *)
(*                                                                         *)
(* A handle keeps an engine (a lexicon and a configuration), a usage, and  *)
(* a session with an engine of its own, by which it analyses.  A handle    *)
(* may be cloned, and then shares its lexicon, and with it the word        *)
(* template cache, with the clone; or forked, and then does not.  Sharing  *)
(* handles run on threads of their own under options of their own, so what *)
(* one of them caches must not answer for another.                         *)
(*                                                                         *)
(* A text is analysed word by word.  WordTemplateCache is the detail of    *)
(* one word's use of the cache; here the cache keeps some of the answers   *)
(* it is given.                                                            *)
(***************************************************************************)
EXTENDS SegmentationOptions, SequencesExt

CONSTANTS
  Handles,         (* handles a program may open                           *)
  CacheIds,        (* word template caches                                 *)
  Files,           (* dictionary files                                     *)
  Unreadable,      (* those of them that fail to load                      *)
  FileMetadata,    (* the segmentation options of each                     *)
  Names,           (* dictionary names                                     *)
  Directories,     (* the search path: in each directory the analyzer and  *)
                   (* generator file of each name, or NoFile               *)
  Texts,           (* what is analysed: sequences of words and Space       *)
  Nodes(_, _, _),  (* the nodes that a word takes in a file's reading under*)
                   (* a variant; 0 when reading it fails                   *)
  UsageChoices, PathChoices, CaseChoices, NumberingChoices, WhitespaceChoices,
  AgglChoices, PraetChoices, StartChoices,
                   (* what callers ask for                                 *)
  NodeLimit,       (* bound: texts that would be numbered beyond it are    *)
                   (* left out                                             *)
  NoFile, NoCache, Unopened, Idle, Space

Usages      == {"analyse", "generate", "both"}
Numberings  == {"separate", "continuous"}
Whitespaces == {"skip", "append", "keep"}
FilesOrNone == Files \cup {NoFile}
Words       == UNION { ToSet(text) : text \in Texts } \ {Space}

Config == [ case : DOMAIN CaseCode, numbering : Numberings,
            whitespace : Whitespaces, segmentation : Preset ]

DefaultConfig == [ case |-> "conditional", numbering |-> "separate",
                   whitespace |-> "skip", segmentation |-> NothingSet ]

(* A lexicon without files is a dictionary in memory.                      *)
Lexicon == [ analyzer : FilesOrNone, generator : FilesOrNone,
             caches : CacheIds \cup {NoCache} ]
Engine   == [ lexicon : Lexicon, config : Config ]
Session  == [ engine : Engine, next_node : Nat ]
Morfeusz == [ engine : Engine, session : Session, usage : Usages ]

InMemory == [analyzer |-> NoFile, generator |-> NoFile, caches |-> NoCache]
FilesOf(lexicon) == {lexicon.analyzer, lexicon.generator} \ {NoFile}

(* A word of an answer: how it was read and its first and next node.       *)
Reading == [word : Words, case : DOMAIN CaseCode, variant : Nat, start : Nat, next : Nat]
(* What a cache keeps: how a word was read when it was cached under a key. *)
Template == [word : Words, key : Int, case : DOMAIN CaseCode, variant : Nat]
(* An analysis under way, of a session or from a given node.               *)
Call == [todo : Seq(Words \cup {Space}), readings : Seq(Reading), start : Nat,
         node : Nat, session : BOOLEAN]

(* A run of spaces is one Space. *)
SingleSpaces(text) == \A i \in 1 .. Len(text) - 1 : ~(text[i] = Space /\ text[i + 1] = Space)

VariantsOf(file) == IF file = NoFile THEN {0} ELSE 0 .. Len(FileMetadata[file].variants)

ASSUME MorfeuszHandlesAssumption ==
  /\ FileMetadata \in [Files -> Metadata]
  /\ NoFile \notin Files /\ NoCache \notin CacheIds
  /\ Unopened \notin Morfeusz /\ Idle \notin Call
  /\ Texts \subseteq Seq(Words \cup {Space})
  /\ \A text \in Texts : SingleSpaces(text)
  /\ Directories \in Seq([Names -> [analyzer : FilesOrNone, generator : FilesOrNone]])
  /\ \A f \in FilesOrNone, w \in Words : \A v \in VariantsOf(f) : Nodes(f, w, v) \in Nat
  /\ UsageChoices \subseteq Usages /\ PathChoices \subseteq Files
  /\ CaseChoices \subseteq DOMAIN CaseCode
  /\ NumberingChoices \subseteq Numberings
  /\ WhitespaceChoices \subseteq Whitespaces
  /\ NodeLimit \in Nat /\ StartChoices \subseteq Nat

(* Dictionaries have a variant for their own default options: the builder  *)
(* takes the options of the first variant as the defaults.                 *)
ASSUME DefaultVariantAssumption ==
  \A f \in Files : Selects(FileMetadata[f], NothingSet)

VARIABLES
  handles,  (* the open handles                                            *)
  caches,   (* the templates kept in each cache                            *)
  calls,    (* the analysis that each handle has under way                 *)
  outcome,  (* how the last call to end ended                              *)
  expected  (* history: where a caller expects the next analysis of a      *)
            (* handle to start when numbering is continuous                *)

vars == <<handles, caches, calls, outcome, expected>>

Init ==
  /\ handles = [h \in Handles |-> Unopened]
  /\ caches = [c \in CacheIds |-> {}]
  /\ calls = [h \in Handles |-> Idle]
  /\ outcome = "ok"
  /\ expected = [h \in Handles |-> 0]

-----------------------------------------------------------------------------
(* Parts of a handle                                                       *)

NewSession(engine) == [engine |-> engine, next_node |-> 0]

WithEngine(engine, usage) == [engine |-> engine, session |-> NewSession(engine), usage |-> usage]

WithLexicon(lexicon, usage) == WithEngine([lexicon |-> lexicon, config |-> DefaultConfig], usage)

(* Mutant: the session keeps the engine it was made with.                  *)
UpdateEngineOnly(m, config) == [m EXCEPT !.engine.config = config, !.session.next_node = 0]

UpdateConfig(m, config) == WithEngine([lexicon |-> m.engine.lexicon, config |-> config], m.usage)

CanAnalyse(m)  == m.usage \in {"analyse", "both"}
CanGenerate(m) == m.usage \in {"generate", "both"}

Metadatas(lexicon) == { FileMetadata[f] : f \in FilesOf(lexicon) }

(* The variant by which a file is read, 0 where it has none.               *)
VariantIn(file, preset) ==
  IF file = NoFile THEN 0 ELSE VariantFor(FileMetadata[file], preset)

(* Mutant: the dictionary's own default is not asked for.                  *)
SetOrConventional(m, option, conventional) ==
  LET preset == m.engine.config.segmentation
  IN  IF IsSet(preset, option) THEN preset[option] ELSE conventional

(* Morfeusz::aggl and praet: set, or else the dictionary's default, or     *)
(* else the conventional one.                                              *)
Reported(m, option, conventional) ==
  LET lexicon == m.engine.lexicon
      file    == IF lexicon.analyzer # NoFile THEN lexicon.analyzer ELSE lexicon.generator
      preset  == m.engine.config.segmentation
  IN  IF IsSet(preset, option) THEN preset[option]
      ELSE IF file # NoFile /\ option \in DOMAIN FileMetadata[file].default_options
           THEN FileMetadata[file].default_options[option]
           ELSE conventional

IsOpen(h) == handles[h] # Unopened /\ calls[h] = Idle

(* A cache is dropped, here emptied, with the last handle on its lexicon;  *)
(* those that no handle but h has are free for a lexicon that h loads.     *)
FreeCaches(h) ==
  { c \in CacheIds : \A o \in Handles \ {h} :
                       handles[o] # Unopened => handles[o].engine.lexicon.caches # c }

DropCaches(new) ==
  caches' = [ c \in CacheIds |->
                IF c # new /\ \E o \in Handles : /\ handles'[o] # Unopened
                                                /\ handles'[o].engine.lexicon.caches = c
                THEN caches[c] ELSE {} ]

(* h becomes m, whose numbering starts anew.                               *)
Become(h, m) ==
  /\ handles' = [handles EXCEPT ![h] = m]
  /\ expected' = [expected EXCEPT ![h] = 0]
  /\ outcome' = "ok"
  /\ UNCHANGED calls

Fail == outcome' = "error" /\ UNCHANGED <<handles, caches, calls, expected>>

-----------------------------------------------------------------------------
(* Loading                                                                 *)

FirstFile(name, part) ==
  LET dirs == SelectSeq(Directories, LAMBDA d : d[name][part] # NoFile)
  IN  IF dirs = <<>> THEN NoFile ELSE dirs[1][name][part]

Loadable(file) == file \in Files \ Unreadable

(* A lexicon of these files, with a cache when it has an analyzer.         *)
NewLexicons(h, analyzer, generator) ==
  { [analyzer |-> analyzer, generator |-> generator, caches |-> c] :
      c \in IF analyzer = NoFile THEN {NoCache} ELSE FreeCaches(h) }

(* load_named: the handles it can return, none when it fails               *)
LoadNamed(h, name, usage) ==
  LET needed(part) == \/ usage = "both"
                      \/ usage = IF part = "analyzer" THEN "analyse" ELSE "generate"
      file(part) == IF needed(part) THEN FirstFile(name, part) ELSE NoFile
  IN  IF \A part \in {"analyzer", "generator"} : needed(part) => Loadable(file(part))
      THEN { WithLexicon(l, usage) : l \in NewLexicons(h, file("analyzer"), file("generator")) }
      ELSE {}

(* binary_dictionary_usage, for a file whose name ends in -s.dict or not   *)
AsGenerator(usage, synthesis) == usage = "generate" \/ (usage = "both" /\ synthesis)

(* Mutant: a handle for both keeps its usage when it loads one file.       *)
UsageKept(usage, synthesis) == usage

EffectiveUsage(usage, synthesis) ==
  IF AsGenerator(usage, synthesis) THEN "generate" ELSE "analyse"

(* load_path                                                               *)
LoadPath(h, file, synthesis, usage) ==
  IF ~Loadable(file) THEN {}
  ELSE { WithLexicon(l, EffectiveUsage(usage, synthesis)) :
           l \in IF AsGenerator(usage, synthesis) THEN NewLexicons(h, NoFile, file)
                 ELSE NewLexicons(h, file, NoFile) }

(* Mutant: an explicit segmentation survives the switch.                   *)
WholeConfig(m) == m.engine.config

(* config_for_dictionary_switch: every option but the segmentation         *)
ConfigForDictionarySwitch(m) == [m.engine.config EXCEPT !.segmentation = NothingSet]

Replaced(m, loaded) ==
  WithEngine([lexicon |-> loaded.engine.lexicon, config |-> ConfigForDictionarySwitch(m)],
             loaded.usage)

New(h, usage) ==
  /\ handles[h] = Unopened
  /\ Become(h, WithLexicon(InMemory, usage))
  /\ UNCHANGED caches

(* Opens h as one of the loaded handles, or fails.                         *)
OpenAs(h, loaded) ==
  /\ handles[h] = Unopened
  /\ \/ loaded = {} /\ Fail
     \/ \E m \in loaded : Become(h, m) /\ DropCaches(m.engine.lexicon.caches)

SwitchTo(h, loaded) ==
  /\ IsOpen(h)
  /\ \/ loaded = {} /\ Fail
     \/ \E m \in loaded : /\ Become(h, Replaced(handles[h], m))
                          /\ DropCaches(m.engine.lexicon.caches)

CreateInstanceNamed(h, name, usage) == OpenAs(h, LoadNamed(h, name, usage))

SetDictionaryNamed(h, name) ==
  SwitchTo(h, IF IsOpen(h) THEN LoadNamed(h, name, handles[h].usage) ELSE {})

SetDictionaryPath(h, file, synthesis) ==
  SwitchTo(h, IF IsOpen(h) THEN LoadPath(h, file, synthesis, handles[h].usage) ELSE {})

(* A dictionary in memory takes over the configuration whole.              *)
SetDictionary(h) ==
  /\ IsOpen(h)
  /\ Become(h, WithEngine([lexicon |-> InMemory, config |-> handles[h].engine.config],
                          handles[h].usage))
  /\ DropCaches(NoCache)

Clone(h, o) ==
  /\ IsOpen(h) /\ handles[o] = Unopened
  /\ handles' = [handles EXCEPT ![o] = handles[h]]
  /\ expected' = [expected EXCEPT ![o] = expected[h]]
  /\ outcome' = "ok"
  /\ UNCHANGED <<caches, calls>>

(* A fork has the lexicon with caches of its own, and numbers from 0.      *)
Fork(h, o) ==
  /\ IsOpen(h) /\ handles[o] = Unopened
  /\ LET engine == handles[h].engine
     IN  \E l \in NewLexicons(o, engine.lexicon.analyzer, engine.lexicon.generator) :
           /\ Become(o, WithEngine([engine EXCEPT !.lexicon = l], handles[h].usage))
           /\ DropCaches(l.caches)

Drop(h) ==
  /\ IsOpen(h)
  /\ handles' = [handles EXCEPT ![h] = Unopened]
  /\ expected' = [expected EXCEPT ![h] = 0]
  /\ outcome' = "ok"
  /\ DropCaches(NoCache)
  /\ UNCHANGED calls

-----------------------------------------------------------------------------
(* Options                                                                 *)

SetConfig(h, config) == Become(h, UpdateConfig(handles[h], config)) /\ UNCHANGED caches

SetCaseHandling(h, case) ==
  IsOpen(h) /\ SetConfig(h, [handles[h].engine.config EXCEPT !.case = case])

SetWhitespaceHandling(h, whitespace) ==
  IsOpen(h) /\ SetConfig(h, [handles[h].engine.config EXCEPT !.whitespace = whitespace])

SetTokenNumbering(h, numbering) ==
  IsOpen(h) /\ SetConfig(h, [handles[h].engine.config EXCEPT !.numbering = numbering])

(* Mutant: only the analyzer's opinion of the options is asked.            *)
AcceptedByAnalyzer(lexicon, preset, option) ==
  lexicon.analyzer # NoFile => Valid(FileMetadata[lexicon.analyzer], preset, option)

AcceptedBy(lexicon, preset, option) ==
  \A md \in Metadatas(lexicon) : Valid(md, preset, option)

(* set_aggl and set_praet                                                  *)
SetSegmentation(h, option, value) ==
  /\ IsOpen(h)
  /\ LET engine == handles[h].engine
         preset == [engine.config.segmentation EXCEPT ![option] = value]
     IN  \/ /\ preset \in Preset /\ AcceptedBy(engine.lexicon, preset, option)
            /\ SetConfig(h, [engine.config EXCEPT !.segmentation = preset])
         \/ /\ ~(preset \in Preset /\ AcceptedBy(engine.lexicon, preset, option))
            /\ Fail

-----------------------------------------------------------------------------
(* Analysis and synthesis                                                  *)

Begin(h, text, start, session) ==
  /\ calls' = [calls EXCEPT ![h] = [ todo |-> text, readings |-> <<>>, start |-> start,
                                     node |-> start, session |-> session ]]
  /\ UNCHANGED <<handles, caches, outcome, expected>>

(* Mutant: each analysis starts anew.                                      *)
FromZero(session) == 0
StartNode(session) ==
  IF session.engine.config.numbering = "separate" THEN 0 ELSE session.next_node

Analyse(h, text) ==
  /\ IsOpen(h)
  /\ handles[h].session.next_node <= NodeLimit
  /\ \/ CanAnalyse(handles[h]) /\ Begin(h, text, StartNode(handles[h].session), TRUE)
     \/ ~CanAnalyse(handles[h]) /\ Fail

AnalyseFrom(h, text, start) ==
  /\ IsOpen(h)
  /\ \/ CanAnalyse(handles[h]) /\ Begin(h, text, start, FALSE)
     \/ ~CanAnalyse(handles[h]) /\ Fail

(* The engine of a call: analyse has the session's, analyse_from the       *)
(* handle's.                                                               *)
EngineOf(h) == IF calls[h].session THEN handles[h].session.engine ELSE handles[h].engine

Running(h) == calls[h] # Idle /\ calls[h].todo # <<>>

(* Spaces take a node when they are kept.                                  *)
SkipSpace(h) ==
  /\ Running(h) /\ Head(calls[h].todo) = Space
  /\ calls' = [calls EXCEPT ![h].todo = Tail(@),
                            ![h].node = @ + IF EngineOf(h).config.whitespace = "keep" THEN 1 ELSE 0]
  /\ UNCHANGED <<handles, caches, outcome, expected>>

KeyOf(engine) ==
  IF engine.lexicon.caches = NoCache THEN NoKey
  ELSE CacheKey(FileMetadata[engine.lexicon.analyzer], engine.config.case, engine.config.segmentation)

Hits(engine, word) ==
  IF engine.lexicon.caches = NoCache THEN {}
  ELSE { t \in caches[engine.lexicon.caches] : t.word = word /\ t.key = KeyOf(engine) }

(* The word is answered under this case handling and variant.              *)
Answered(h, case, variant) ==
  LET file == EngineOf(h).lexicon.analyzer
      word == Head(calls[h].todo)
      next == calls[h].node + Nodes(file, word, variant)
  IN  calls' = [calls EXCEPT ![h].todo = Tail(@), ![h].node = next,
                             ![h].readings = Append(@, [ word |-> word, case |-> case,
                               variant |-> variant, start |-> calls[h].node, next |-> next ])]

(* A failed analysis leaves the numbering as it was.                       *)
GiveUp(h) ==
  /\ calls' = [calls EXCEPT ![h] = Idle]
  /\ outcome' = "error"
  /\ UNCHANGED <<handles, caches, expected>>

ReadWord(h) ==
  /\ Running(h) /\ Head(calls[h].todo) # Space
  /\ LET engine  == EngineOf(h)
         word    == Head(calls[h].todo)
         lexicon == engine.lexicon
         preset  == engine.config.segmentation
         variant == VariantIn(lexicon.analyzer, preset)
         chosen  == lexicon.analyzer # NoFile => Selects(FileMetadata[lexicon.analyzer], preset)
         template == [ word |-> word, key |-> KeyOf(engine),
                       case |-> engine.config.case, variant |-> variant ]
     IN  \/ \E t \in Hits(engine, word) :
              Answered(h, t.case, t.variant) /\ UNCHANGED <<handles, caches, outcome, expected>>
         \/ /\ Hits(engine, word) = {}
            /\ chosen /\ Nodes(lexicon.analyzer, word, variant) # 0
            /\ Answered(h, engine.config.case, variant)
            /\ \/ UNCHANGED caches
               \/ /\ KeyOf(engine) # NoKey
                  /\ caches' = [caches EXCEPT ![lexicon.caches] = @ \cup {template}]
            /\ UNCHANGED <<handles, outcome, expected>>
         \/ /\ Hits(engine, word) = {}
            /\ ~(chosen /\ Nodes(lexicon.analyzer, word, variant) # 0)
            /\ GiveUp(h)

(* Only a continuous session remembers where it ended.                     *)
Return(h) ==
  /\ calls[h] # Idle /\ calls[h].todo = <<>>
  /\ LET counts == calls[h].session /\ handles[h].session.engine.config.numbering = "continuous"
     IN  IF counts
         THEN /\ handles' = [handles EXCEPT ![h].session.next_node = calls[h].node]
              /\ expected' = [expected EXCEPT ![h] = calls[h].node]
         ELSE UNCHANGED <<handles, expected>>
  /\ calls' = [calls EXCEPT ![h] = Idle]
  /\ outcome' = "ok"
  /\ UNCHANGED caches

(* Synthesis uses the generator, and no state.                             *)
Generate(h) ==
  /\ IsOpen(h)
  /\ LET engine == handles[h].engine
         chosen == engine.lexicon.generator # NoFile =>
                     Selects(FileMetadata[engine.lexicon.generator], engine.config.segmentation)
     IN  \/ outcome' = "error"
         \/ CanGenerate(handles[h]) /\ chosen /\ outcome' = "ok"
  /\ UNCHANGED <<handles, caches, calls, expected>>

-----------------------------------------------------------------------------
Opening(h) ==
  \/ \E usage \in UsageChoices : New(h, usage) \/ \E n \in Names : CreateInstanceNamed(h, n, usage)
  \/ \E o \in Handles : Clone(o, h) \/ Fork(o, h)

Switching(h) ==
  \/ \E n \in Names : SetDictionaryNamed(h, n)
  \/ \E f \in PathChoices, synthesis \in BOOLEAN : SetDictionaryPath(h, f, synthesis)
  \/ SetDictionary(h)
  \/ Drop(h)

Setting(h) ==
  \/ \E c \in CaseChoices : SetCaseHandling(h, c)
  \/ \E w \in WhitespaceChoices : SetWhitespaceHandling(h, w)
  \/ \E n \in NumberingChoices : SetTokenNumbering(h, n)
  \/ \E v \in AgglChoices : SetSegmentation(h, "aggl", v)
  \/ \E v \in PraetChoices : SetSegmentation(h, "praet", v)

Using(h) ==
  \/ \E t \in Texts : Analyse(h, t) \/ \E n \in StartChoices : AnalyseFrom(h, t, n)
  \/ SkipSpace(h)
  \/ ReadWord(h)
  \/ Return(h)
  \/ Generate(h)

Next == \E h \in Handles : Opening(h) \/ Switching(h) \/ Setting(h) \/ Using(h)

Spec == Init /\ [][Next]_vars

-----------------------------------------------------------------------------
(* Properties                                                              *)

TypeOK ==
  /\ handles \in [Handles -> Morfeusz \cup {Unopened}]
  /\ caches \in [CacheIds -> SUBSET Template]
  /\ calls \in [Handles -> Call \cup {Idle}]
  /\ outcome \in {"ok", "error"}
  /\ expected \in [Handles -> Nat]

(* Every word is answered under the options that its handle has, whichever *)
(* sharing handle cached the answer and under whichever options.           *)
AnsweredAsConfigured ==
  \A h \in Handles : calls[h] # Idle =>
    LET engine == handles[h].engine IN
    \A i \in DOMAIN calls[h].readings :
      /\ calls[h].readings[i].case = engine.config.case
      /\ calls[h].readings[i].variant =
           VariantIn(engine.lexicon.analyzer, engine.config.segmentation)

(* A template in the cache of an open handle answers every choice of       *)
(* options that has its key.                                               *)
TemplatesTrue ==
  \A h \in Handles : handles[h] # Unopened /\ handles[h].engine.lexicon.caches # NoCache =>
    LET lexicon == handles[h].engine.lexicon
        md      == FileMetadata[lexicon.analyzer] IN
    \A t \in caches[lexicon.caches] : \A p \in Preset : \A c \in DOMAIN CaseCode :
      CacheKey(md, c, p) = t.key => t.case = c /\ t.variant = VariantFor(md, p)

(* The automaton that reads a word has the options that aggl and praet     *)
(* report.                                                                 *)
ReportedOptionsUsed ==
  \A h \in Handles : calls[h] # Idle =>
    \A i \in DOMAIN calls[h].readings :
      LET v == calls[h].readings[i].variant
          options == FileMetadata[handles[h].engine.lexicon.analyzer].variants[v].options
      IN  v # 0 => /\ Has(options, "aggl", Reported(handles[h], "aggl", "permissive"))
                      \/ "aggl" \notin DOMAIN options
                   /\ Has(options, "praet", Reported(handles[h], "praet", "split"))
                      \/ "praet" \notin DOMAIN options

(* No sequence of accepted calls leaves a handle with options for which    *)
(* one of its dictionaries has no automaton: analysis and synthesis never  *)
(* fail with "Invalid segmentation options".                               *)
SegmentationSelectable ==
  \A h \in Handles : handles[h] # Unopened =>
    \A md \in Metadatas(handles[h].engine.lexicon) :
      Selects(md, handles[h].engine.config.segmentation)

(* What a handle's usage admits its lexicon can serve.                     *)
UsageServed ==
  \A h \in Handles : handles[h] # Unopened /\ FilesOf(handles[h].engine.lexicon) # {} =>
    /\ CanAnalyse(handles[h]) => handles[h].engine.lexicon.analyzer # NoFile
    /\ CanGenerate(handles[h]) => handles[h].engine.lexicon.generator # NoFile

(* The nodes that may lie between two words.                               *)
Gaps(h) == IF handles[h].engine.config.whitespace = "keep" THEN {0, 1} ELSE {0}

(* The words of a text are numbered on from each other; a text starts at 0 *)
(* or, numbered continuously, where the last one that succeeded ended.     *)
NodesFollowOn ==
  \A h \in Handles : calls[h] # Idle =>
    LET c      == calls[h]
        config == handles[h].engine.config
    IN  /\ c.session =>
             c.start = IF config.numbering = "continuous" THEN expected[h] ELSE 0
        /\ \A i \in DOMAIN c.readings :
             c.readings[i].start -
               (IF i = 1 THEN c.start ELSE c.readings[i - 1].next) \in Gaps(h)

(* What makes these inductive: a session analyses with its handle's        *)
(* engine; handles that share a cache read the same analyzer, and each     *)
(* template in it was made under some choice of options that has its key.  *)
Sound(m) ==
  /\ m.session.engine = m.engine
  /\ m.engine.lexicon.caches = NoCache <=> m.engine.lexicon.analyzer = NoFile
  /\ \A md \in Metadatas(m.engine.lexicon) : Selects(md, m.engine.config.segmentation)
  /\ FilesOf(m.engine.lexicon) # {} =>
       /\ CanAnalyse(m) => m.engine.lexicon.analyzer # NoFile
       /\ CanGenerate(m) => m.engine.lexicon.generator # NoFile

HandlesSound == \A h \in Handles : handles[h] # Unopened => Sound(handles[h])

CallsOpen == \A h \in Handles : calls[h] # Idle => handles[h] # Unopened

Uses(h, cache) == handles[h] # Unopened /\ handles[h].engine.lexicon.caches = cache

CachesShared ==
  \A c \in CacheIds : \A h, o \in Handles : Uses(h, c) /\ Uses(o, c) =>
    handles[h].engine.lexicon.analyzer = handles[o].engine.lexicon.analyzer

Stems(t, md) ==
  \E p \in Preset : /\ t.key = CacheKey(md, t.case, p)
                    /\ t.variant = VariantFor(md, p)

TemplatesStem ==
  \A c \in CacheIds : \A h \in Handles : Uses(h, c) =>
    \A t \in caches[c] : Stems(t, FileMetadata[handles[h].engine.lexicon.analyzer])

IInv == TypeOK /\ HandlesSound /\ CallsOpen /\ CachesShared /\ TemplatesStem
        /\ AnsweredAsConfigured

(* And for the numbering: where a call stands and what is left of its text.*)
Reached(c) == IF c.readings = <<>> THEN c.start ELSE c.readings[Len(c.readings)].next

Numbered(h) ==
  /\ calls[h].node - Reached(calls[h]) \in Gaps(h)
  /\ calls[h].node # Reached(calls[h]) /\ calls[h].todo # <<>> => Head(calls[h].todo) # Space
  /\ SingleSpaces(calls[h].todo)

NumberedInv ==
  /\ \A h \in Handles : handles[h] # Unopened => expected[h] = handles[h].session.next_node
  /\ \A h \in Handles : calls[h] # Idle => Numbered(h)
  /\ NodesFollowOn
=============================================================================
