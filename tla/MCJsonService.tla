---------------------------- MODULE MCJsonService ----------------------------
(***************************************************************************)
(* Instances of JsonService.  Dictionary "d" has an analyzer and a         *)
(* generator whose variants differ, "e" the other default for aggl and no  *)
(* praet, and "f" only variants in which both options differ.              *)
(***************************************************************************)
EXTENDS JsonService

Opt(a, p) == [aggl |-> a, praet |-> p]
V(o, n)   == [options |-> o, fsa |-> n]

MCFiles == {"d-a", "d-s", "e-a", "f-a", "broken-s"}
MCUnreadable == {"broken-s"}
MCFileMetadata ==
  [ f \in MCFiles |->
      CASE f = "d-a" -> [ variants |-> << V(Opt("permissive", "split"), 1), V(Opt("strict", "split"), 2),
                                          V(Opt("strict", "composite"), 3) >>,
                          default_options |-> Opt("permissive", "split") ]
        [] f = "e-a" -> [ variants |-> << V([aggl |-> "strict"], 1), V([aggl |-> "permissive"], 2) >>,
                          default_options |-> [aggl |-> "strict"] ]
        [] f = "f-a" -> [ variants |-> << V(Opt("permissive", "split"), 1), V(Opt("strict", "composite"), 2) >>,
                          default_options |-> Opt("permissive", "split") ]
        [] OTHER     -> [ variants |-> << V(Opt("permissive", "split"), 1), V(Opt("strict", "split"), 2) >>,
                          default_options |-> Opt("permissive", "split") ] ]

MCPairs == {[analyzer |-> "d-a", generator |-> "d-s"], [analyzer |-> "e-a", generator |-> "broken-s"]}
MCPathChoices == { [file |-> f, synthesis |-> f \in {"d-s", "broken-s"}] : f \in MCFiles }

MCOptionNames == {"aggl", "praet"}
MCValues == {"strict", "permissive", "isolated", "split", "composite"}
MCFsas == 1 .. 3

MCOptionChoices ==
  { <<>>, [aggl |-> "strict"], [praet |-> "composite"], Opt("permissive", "composite"),
    [token_numbering |-> "continuous"],
    [token_numbering |-> "separate", whitespace |-> "keep", debug |-> TRUE],
    [aggl |-> "strict", token_numbering |-> "continuous"],
    [praet |-> "split", case_handling |-> "wrong"],
    [aggl |-> "strict", praet |-> "wrong"] }
=============================================================================
