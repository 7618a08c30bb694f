------------------------- MODULE MCMorfeuszHandles -------------------------
(***************************************************************************)
(* Instances of MorfeuszHandles.  Dictionary "d" has an analyzer and a     *)
(* generator whose variants differ; "e" has an analyzer with the other     *)
(* default for aggl and no praet, and its generator cannot be read.        *)
(***************************************************************************)
EXTENDS MorfeuszHandles

CONSTANTS h1, h2, k1, k2, w1, w2

MCHandles == {h1, h2}
MCCacheIds == {k1, k2}

Opt(a, p) == [aggl |-> a, praet |-> p]
OnlyAggl(a) == [aggl |-> a]
V(o, n) == [options |-> o, fsa |-> n]

MCFiles == {"d-a", "d-s", "e-a", "e-s"}
MCUnreadable == {"e-s"}
MCFileMetadata ==
  LET d_a == [ variants |-> << V(Opt("permissive", "split"), 1), V(Opt("strict", "split"), 2),
                               V(Opt("strict", "composite"), 3) >>,
               default_options |-> Opt("strict", "split") ]
      d_s == [ variants |-> << V(Opt("strict", "split"), 1), V(Opt("strict", "composite"), 2) >>,
               default_options |-> Opt("strict", "split") ]
      e_a == [ variants |-> << V(OnlyAggl("strict"), 1), V(OnlyAggl("permissive"), 2) >>,
               default_options |-> OnlyAggl("permissive") ]
  IN  [f \in MCFiles |-> CASE f = "d-a" -> d_a [] f = "d-s" -> d_s [] OTHER -> e_a]

MCNames == {"d", "e"}
MCDirectories ==
  << [n \in MCNames |-> [ analyzer |-> IF n = "e" THEN "e-a" ELSE NoFile, generator |-> NoFile ]],
     [n \in MCNames |-> [ analyzer |-> IF n = "e" THEN "e-a" ELSE "d-a",
                          generator |-> IF n = "e" THEN "e-s" ELSE "d-s" ]] >>

(* The second word cannot be read from "e".                                *)
MCNodes(f, w, v) == IF w = w1 THEN (IF v = 2 THEN 2 ELSE 1) ELSE IF f = "e-a" THEN 0 ELSE 1

MCOptionNames == {"aggl", "praet"}
MCValues == {"strict", "permissive", "isolated", "split", "composite"}
MCFsas == 1 .. 3

MCShortTexts == {<<w1>>}
MCLongTexts == {<<w1, Space, w2>>, <<w2>>}
MCSymmetry == Permutations(MCHandles) \cup Permutations(MCCacheIds)
=============================================================================
