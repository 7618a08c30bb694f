------------------------ MODULE SegmentationOptions ------------------------
(***************************************************************************)
(* Which segmentation automaton a binary dictionary uses for a choice of   *)
(* the options aggl and praet, and the key under which the word template   *)
(* cache files answers given under that choice.                            *)
(*                                                                         *)
(* A dictionary lists automata ("variants"), each with the option values   *)
(* it is for, and the default value of each option it has.  A caller's     *)
(* preset may leave either option unset.                                   *)
(***************************************************************************)
EXTENDS Integers, Sequences, FiniteSets

CONSTANTS
  OptionNames, (* option names a dictionary may have; aggl and praet among *)
               (* them are the two a caller can set                        *)
  Values,      (* option values a dictionary may have                      *)
  Fsas,        (* segmentation automata                                    *)
  NotSet,      (* an option that a preset leaves to the dictionary         *)
  NoKey        (* the key of a choice that is not cached                   *)

Settable == {"aggl", "praet"}

(* SegmentationPreset::validate admits only these values.                  *)
AgglCodes  == [strict |-> 1, permissive |-> 2, isolated |-> 3]
PraetCodes == [split |-> 1, composite |-> 2]

Preset == [ aggl  : DOMAIN AgglCodes \cup {NotSet},
            praet : DOMAIN PraetCodes \cup {NotSet} ]

NothingSet == [aggl |-> NotSet, praet |-> NotSet]

ASSUME SegmentationOptionsAssumption ==
  /\ Settable \subseteq OptionNames
  /\ IsFiniteSet(OptionNames)
  /\ DOMAIN AgglCodes \cup DOMAIN PraetCodes \subseteq Values
  /\ NotSet \notin Values
  /\ NoKey \notin Int

Options  == UNION { [names -> Values] : names \in SUBSET OptionNames }
Variant  == [options : Options, fsa : Fsas]
Metadata == [variants : Seq(Variant), default_options : Options]

-----------------------------------------------------------------------------
(* Selection of a variant                                                  *)

IsSet(p, name)    == name \in Settable /\ p[name] # NotSet
Wanted(md, p, name) == IF IsSet(p, name) THEN p[name] ELSE md.default_options[name]

(* Explicit options the dictionary has no default for.                     *)
Extra(md, p) == { name \in Settable : IsSet(p, name) /\ name \notin DOMAIN md.default_options }

EffectiveLen(md, p) == Cardinality(DOMAIN md.default_options) + Cardinality(Extra(md, p))

Has(options, name, value) == name \in DOMAIN options /\ options[name] = value

MatchesPreset(md, v, p) ==
  /\ Cardinality(DOMAIN v.options) = EffectiveLen(md, p)
  /\ \A name \in DOMAIN md.default_options : Has(v.options, name, Wanted(md, p, name))
  /\ \A name \in Extra(md, p) : Has(v.options, name, p[name])

(* The first of the variants listed in hits, or 0.                         *)
FirstOf(hits) ==
  IF hits = {} THEN 0 ELSE CHOOSE i \in hits : \A j \in hits : i <= j

PresetVariant(md, p) ==
  FirstOf({ i \in DOMAIN md.variants : MatchesPreset(md, md.variants[i], p) })

OptionsVariant(md, options) ==
  FirstOf({ i \in DOMAIN md.variants : md.variants[i].options = options })

EffectiveOptions(md, p) ==
  [ name \in DOMAIN md.default_options \cup Extra(md, p) |-> Wanted(md, p, name) ]

(* segmentation_fsa and segmentation_fsa_for_options: the default variant  *)
(* for the empty preset, then the variant for the preset, then the variant *)
(* for the effective options.                                              *)
VariantFor(md, p) ==
  LET default == OptionsVariant(md, md.default_options)
      preset  == PresetVariant(md, p)
  IN  IF p = NothingSet /\ default # 0 THEN default
      ELSE IF preset # 0 THEN preset
      ELSE OptionsVariant(md, EffectiveOptions(md, p))

(* A choice without a variant is an error unless there are no variants.    *)
Selects(md, p) == md.variants = <<>> \/ VariantFor(md, p) # 0

(* validate_segmentation_options, for the option about to be set           *)
Valid(md, p, option) ==
  \/ md.variants = <<>>
  \/ option \in DOMAIN md.default_options /\ PresetVariant(md, p) # 0

-----------------------------------------------------------------------------
(* word_template_cache_key                                                 *)

CaseCode == [conditional |-> 0, strict |-> 1, ignore |-> 2]

(* option_code: no value has code 0, an unknown value has none.            *)
CodeOf(md, p, name, codes) ==
  IF IsSet(p, name) THEN codes[p[name]]
  ELSE IF name \notin DOMAIN md.default_options THEN 0
  ELSE IF md.default_options[name] \in DOMAIN codes THEN codes[md.default_options[name]]
  ELSE NoKey

(* Mutant: an option that is left unset has code 0 in every dictionary.    *)
KeyOfExplicit(md, case, p) ==
  LET aggl  == IF IsSet(p, "aggl") THEN AgglCodes[p.aggl] - 1 ELSE 0
      praet == IF IsSet(p, "praet") THEN PraetCodes[p.praet] ELSE 0
  IN  CaseCode[case] + 4 * aggl + 32 * praet

CacheKey(md, case, p) ==
  LET aggl  == CodeOf(md, p, "aggl", AgglCodes)
      praet == CodeOf(md, p, "praet", PraetCodes)
  IN  IF NoKey \in {aggl, praet} THEN NoKey ELSE CaseCode[case] + 4 * aggl + 32 * praet

(* Two choices that share a cache key choose the same automaton and the    *)
(* same case handling: an answer cached under one may serve the other.     *)
KeyTellsVariant(md) ==
  \A p, q \in Preset : \A c, d \in DOMAIN CaseCode :
    CacheKey(md, c, p) = CacheKey(md, d, q) /\ CacheKey(md, c, p) # NoKey
      => c = d /\ VariantFor(md, p) = VariantFor(md, q)
=============================================================================
