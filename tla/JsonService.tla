----------------------------- MODULE JsonService -----------------------------
(***************************************************************************)
(* The JSON service: one request per line, one answer to each.             *)
(*                                                                         *)
(* Its runtime is of one of two kinds.  A service with a binary dictionary *)
(* has a Morfeusz handle; one without it, or with a text dictionary, has   *)
(* an engine and a session.  A request names options, a dictionary or a    *)
(* text, and the two kinds differ in what a request that fails halfway     *)
(* leaves behind: an engine takes all its options or none, a handle takes  *)
(* them one by one.                                                        *)
(*                                                                         *)
(* handle_request runs to its end before the next line is read, so it is   *)
(* one action.  MorfeuszHandles has the analysis of a text word by word;   *)
(* here it takes any number of nodes or fails.                             *)
(***************************************************************************)
EXTENDS SegmentationOptions, SequencesExt

CONSTANTS
  Files,         (* binary dictionary files                                *)
  Unreadable,    (* those of them that fail to load                        *)
  FileMetadata,  (* the segmentation options of each                       *)
  Pairs,         (* what dict and dict_dir may name: analyzer and generator*)
                 (* files, NoFile for one that is not in the directory     *)
  PathChoices,   (* binary files named by dictionary, each with whether its*)
                 (* name ends in -s.dict                                   *)
  OptionChoices, (* what the options of a request may be                   *)
  MaxTaken,      (* bound: nodes that a text takes                         *)
  NodeLimit,     (* bound: texts that would be numbered beyond it are left *)
                 (* out                                                    *)
  NoFile

FilesOrNone == Files \cup {NoFile}

(* The options in the order in which apply_options takes them.             *)
Order == << "aggl", "praet", "case_handling", "token_numbering", "whitespace", "debug" >>

(* What each may be set to; the values of aggl and praet that the          *)
(* dictionary has no automaton for are refused as well.                    *)
Allowed == [ aggl            |-> DOMAIN AgglCodes,
             praet           |-> DOMAIN PraetCodes,
             case_handling   |-> {"conditional", "strict", "ignore"},
             token_numbering |-> {"separate", "continuous"},
             whitespace      |-> {"skip", "append", "keep"},
             debug           |-> BOOLEAN ]

ASSUME JsonServiceAssumption ==
  /\ FileMetadata \in [Files -> Metadata]
  /\ NoFile \notin Files /\ Unreadable \subseteq Files
  /\ Pairs \subseteq [analyzer : FilesOrNone, generator : FilesOrNone]
  /\ PathChoices \subseteq [file : Files, synthesis : BOOLEAN]
  /\ \A options \in OptionChoices : DOMAIN options \subseteq ToSet(Order)
  /\ MaxTaken \in Nat /\ NodeLimit \in Nat

(* As in MorfeuszHandles: a dictionary has a variant for its defaults.     *)
ASSUME DefaultVariantAssumption == \A f \in Files : Selects(FileMetadata[f], NothingSet)

Usages == {"analyse", "generate", "both"}
Config == [ aggl : Allowed.aggl \cup {NotSet}, praet : Allowed.praet \cup {NotSet},
            case_handling : Allowed.case_handling, token_numbering : Allowed.token_numbering,
            whitespace : Allowed.whitespace, debug : BOOLEAN ]
Lexicon == [analyzer : FilesOrNone, generator : FilesOrNone]
Runtime == [ kind : {"engine", "morfeusz"}, lexicon : Lexicon, usage : Usages,
             config : Config, next_node : Nat ]

VARIABLES
  runtime,
  response, (* the last answer, with the mode of its request (for          *)
            (* set_dictionary, by what the dictionary is named) and options*)
  expected  (* history: the node at which a client expects the next answer *)
            (* when numbering is continuous, or Unsure                     *)

serviceVars == <<runtime, response, expected>>

-----------------------------------------------------------------------------
(* Runtimes                                                                *)

DefaultConfig == [ aggl |-> NotSet, praet |-> NotSet, case_handling |-> "conditional",
                   token_numbering |-> "separate", whitespace |-> "skip", debug |-> FALSE ]

(* A lexicon without files is a dictionary in memory.                      *)
InMemory == [analyzer |-> NoFile, generator |-> NoFile]

(* engine_runtime; an engine has no usage and serves both.                 *)
EngineRuntime == [ kind |-> "engine", lexicon |-> InMemory, usage |-> "both",
                   config |-> DefaultConfig, next_node |-> 0 ]

Loadable(file) == file \in Files \ Unreadable

(* Into a handle only the handle's options are taken over, and of these    *)
(* not the segmentation; an engine's are lost with the engine.             *)
ConfigForSwitch(r) ==
  IF r.kind = "engine" THEN DefaultConfig
  ELSE [r.config EXCEPT !.aggl = NotSet, !.praet = NotSet]

Switched(r, analyzer, generator, usage) ==
  [ kind |-> "morfeusz", lexicon |-> [analyzer |-> analyzer, generator |-> generator],
    usage |-> usage, config |-> ConfigForSwitch(r), next_node |-> 0 ]

(* What each kind of source makes of a runtime: one runtime, or none when  *)
(* loading fails.  A text dictionary leaves kind, usage and options.       *)
LoadText(r, readable) ==
  IF readable THEN {[r EXCEPT !.lexicon = InMemory, !.next_node = 0]} ELSE {}

LoadPath(r, path) ==
  IF ~Loadable(path.file) THEN {}
  ELSE IF r.usage = "generate" \/ (r.usage = "both" /\ path.synthesis)
       THEN {Switched(r, NoFile, path.file, "generate")}
       ELSE {Switched(r, path.file, NoFile, "analyse")}

LoadNamed(r, pair) ==
  LET analyzer  == IF r.usage = "generate" THEN NoFile ELSE pair.analyzer
      generator == IF r.usage = "analyse" THEN NoFile ELSE pair.generator
  IN  IF /\ r.usage # "generate" => Loadable(analyzer)
         /\ r.usage # "analyse" => Loadable(generator)
      THEN {Switched(r, analyzer, generator, r.usage)} ELSE {}

Metadatas(lexicon) == { FileMetadata[f] : f \in {lexicon.analyzer, lexicon.generator} \ {NoFile} }

-----------------------------------------------------------------------------
(* Options                                                                 *)

PresetOf(config) == [aggl |-> config.aggl, praet |-> config.praet]

(* The configuration with the first k options of a request.                *)
With(config, options, k) ==
  LET Now(o, value) ==
        IF o \in DOMAIN options /\ \E i \in 1 .. k : Order[i] = o THEN options[o] ELSE value
  IN  [ aggl            |-> Now("aggl", config.aggl),
        praet           |-> Now("praet", config.praet),
        case_handling   |-> Now("case_handling", config.case_handling),
        token_numbering |-> Now("token_numbering", config.token_numbering),
        whitespace      |-> Now("whitespace", config.whitespace),
        debug           |-> Now("debug", config.debug) ]

(* Mutant: an option is tried with those of the engine, not of the request.*)
AcceptedAlone(r, options, k) ==
  Order[k] \in DOMAIN options =>
    /\ options[Order[k]] \in Allowed[Order[k]]
    /\ Order[k] \in Settable =>
         \A md \in Metadatas(r.lexicon) :
           Valid(md, [PresetOf(r.config) EXCEPT ![Order[k]] = options[Order[k]]], Order[k])

(* The k-th option is valid together with those before it.                 *)
Accepted(r, options, k) ==
  Order[k] \in DOMAIN options =>
    /\ options[Order[k]] \in Allowed[Order[k]]
    /\ Order[k] \in Settable =>
         \A md \in Metadatas(r.lexicon) :
           Valid(md, PresetOf(With(r.config, options, k)), Order[k])

(* How many options are taken before one is refused.                       *)
Taken(r, options) ==
  CHOOSE k \in 0 .. Len(Order) :
    /\ \A i \in 1 .. k : Accepted(r, options, i)
    /\ k < Len(Order) => ~Accepted(r, options, k + 1)

AllTaken(r, options) == Taken(r, options) = Len(Order)

Restarted(r, config) == [r EXCEPT !.config = config, !.next_node = 0]

(* Mutant: an engine starts a new session for options it has already.      *)
AppliedAlways(r, options) ==
  IF AllTaken(r, options) THEN Restarted(r, With(r.config, options, Len(Order))) ELSE r

(* apply_options: an engine takes over the new configuration when all of   *)
(* it is valid and it is another; a handle takes each valid option as it   *)
(* comes, which starts its numbering anew.                                 *)
Applied(r, options) ==
  LET taken   == Taken(r, options)
      config  == With(r.config, options, taken)
      updates == \/ r.kind = "engine" /\ AllTaken(r, options) /\ config # r.config
                 \/ r.kind = "morfeusz" /\ \E i \in 1 .. taken : Order[i] \in DOMAIN options
  IN  IF updates THEN Restarted(r, config) ELSE r

-----------------------------------------------------------------------------
(* Requests                                                                *)

NoOptions == <<>>
Unsure    == NodeLimit + 1

(* A client that names no dictionary and no option, or none that an engine *)
(* does not have already, expects its numbering to go on.                  *)
Undisturbed(options) ==
  \/ options = NoOptions
  \/ runtime.kind = "engine" /\ \A o \in DOMAIN options : options[o] = runtime.config[o]

Respond(mode, options, ok, nodes, kept) ==
  /\ response' = [mode |-> mode, options |-> options, ok |-> ok, start |-> nodes[1], next |-> nodes[2]]
  /\ expected' = IF mode = "analyze" /\ ok /\ runtime'.config.token_numbering = "continuous"
                 THEN nodes[2]
                 ELSE IF kept THEN expected ELSE Unsure

NoNodes == <<0, 0>>

StartNode(r) == IF r.config.token_numbering = "separate" THEN 0 ELSE r.next_node

(* A text is read under the options of its own request.  Whatever fails,   *)
(* a missing text too, fails after the options have been applied.          *)
Analyze(options) ==
  LET r == Applied(runtime, options) IN
  \/ /\ AllTaken(runtime, options) /\ r.usage # "generate"
     /\ r.lexicon.analyzer # NoFile => Selects(FileMetadata[r.lexicon.analyzer], PresetOf(r.config))
     /\ \E n \in 0 .. MaxTaken :
          LET next == StartNode(r) + n IN
          /\ next <= NodeLimit
          /\ runtime' = IF r.config.token_numbering = "continuous" THEN [r EXCEPT !.next_node = next]
                        ELSE r
          /\ Respond("analyze", options, TRUE, <<StartNode(r), next>>, Undisturbed(options))
  \/ /\ runtime' = r
     /\ Respond("analyze", options, FALSE, NoNodes, Undisturbed(options))

Generate(options) ==
  LET r == Applied(runtime, options) IN
  /\ runtime' = r
  /\ \E ok \in BOOLEAN :
       /\ ok => /\ AllTaken(runtime, options) /\ r.usage # "analyse"
                /\ r.lexicon.generator # NoFile =>
                     Selects(FileMetadata[r.lexicon.generator], PresetOf(r.config))
       /\ Respond("generate", options, ok, NoNodes, Undisturbed(options))

ReportMetadata(options) ==
  /\ runtime' = Applied(runtime, options)
  /\ Respond("metadata", options, AllTaken(runtime, options), NoNodes, Undisturbed(options))

(* Mutant: the options are applied to the dictionary that is left.         *)
SetDictionaryAfterOptions(by, loaded, options) ==
  \/ loaded = {} /\ runtime' = runtime /\ Respond(by, options, FALSE, NoNodes, TRUE)
  \/ \E r \in loaded :
       /\ runtime' = [r EXCEPT !.config = ConfigForSwitch(Applied(runtime, options))]
       /\ Respond(by, options, AllTaken(runtime, options), NoNodes, FALSE)

(* Options are for the new dictionary: when they are refused the request   *)
(* has failed and yet the dictionary is another.                           *)
SetDictionary(by, loaded, options) ==
  \/ loaded = {} /\ runtime' = runtime /\ Respond(by, options, FALSE, NoNodes, TRUE)
  \/ \E r \in loaded :
       /\ runtime' = Applied(r, options)
       /\ Respond(by, options, AllTaken(r, options), NoNodes, FALSE)

(* build_runtime: what the program may start with.                         *)
ServiceInit ==
  /\ \/ runtime = EngineRuntime
     \/ \E path \in PathChoices : runtime \in LoadPath(EngineRuntime, path)
     \/ \E pair \in Pairs : runtime \in LoadNamed(EngineRuntime, pair)
  /\ response = [mode |-> "none", options |-> NoOptions, ok |-> TRUE, start |-> 0, next |-> 0]
  /\ expected = 0

ServiceNext ==
  \E options \in OptionChoices :
    \/ Analyze(options) \/ Generate(options) \/ ReportMetadata(options)
    \/ \E readable \in BOOLEAN : SetDictionary("text", LoadText(runtime, readable), options)
    \/ \E path \in PathChoices : SetDictionary("path", LoadPath(runtime, path), options)
    \/ \E pair \in Pairs : SetDictionary("named", LoadNamed(runtime, pair), options)

ServiceSpec == ServiceInit /\ [][ServiceNext]_serviceVars

-----------------------------------------------------------------------------
(* Properties                                                              *)

ServiceTypeOK ==
  /\ runtime \in Runtime
  /\ response.mode \in {"none", "analyze", "generate", "metadata", "text", "path", "named"}
  /\ response.options \in OptionChoices \cup {NoOptions} /\ response.ok \in BOOLEAN
  /\ expected \in 0 .. Unsure

(* No sequence of requests, with some that fail after a part of their      *)
(* options or after their dictionary, leaves the service with options for  *)
(* which one of its dictionaries has no automaton.                         *)
OptionsServable ==
  \A md \in Metadatas(runtime.lexicon) : Selects(md, PresetOf(runtime.config))

(* Loading a binary dictionary is what loses options no request named.     *)
LostBySwitch(option) ==
  /\ response'.mode \in {"path", "named"}
  /\ option \in Settable \/ runtime.kind = "engine"
  /\ runtime'.config[option] = DefaultConfig[option]

TakenAsAsked ==
  LET asked == response'.options
      Obeyed(o) == o \in DOMAIN asked /\ runtime'.config[o] = asked[o]
  IN  /\ response'.ok => \A o \in DOMAIN asked : Obeyed(o)
      /\ \A o \in DOMAIN DefaultConfig :
           Obeyed(o) \/ runtime'.config[o] = runtime.config[o] \/ LostBySwitch(o)

(* A request that succeeds leaves the service with all the options it      *)
(* names, also when it names a dictionary.  No request changes an option   *)
(* to anything but what it asks, unless it loses it with its dictionary.   *)
OptionsAsAsked == [][TakenAsAsked]_serviceVars

NumberedAsExpected ==
  /\ response'.mode = "analyze" /\ response'.ok
  /\ runtime'.config.token_numbering = "continuous"
  /\ expected # Unsure /\ Undisturbed(response'.options)
  => response'.start = expected

(* Continuous numbering goes on from the last text that was answered, past *)
(* requests that failed and, in an engine, past options it already has.    *)
NumbersFollowOn == [][NumberedAsExpected]_serviceVars

(* What the tests of a named dictionary pair assert: it supports analysis  *)
(* and synthesis.                                                          *)
NamedPairServesBoth ==
  response.mode = "named" /\ response.ok => runtime.usage = "both"
=============================================================================
