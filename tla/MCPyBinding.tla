---------------------------- MODULE MCPyBinding ----------------------------
(***************************************************************************)
(* Two threads and a handle that they share.  Directories "x" and "y" hold *)
(* different dictionaries of one name, and that of "y" cannot analyse one  *)
(* of the texts.                                                           *)
(***************************************************************************)
EXTENDS PyBinding

CONSTANTS t1, t2, o1, d1, d2, x1, x2

MCSize(d, x) == IF x = x1 \/ d = d1 THEN 1 ELSE 0
MCHolds(dir, name) == IF name = "none" THEN NoDictionary ELSE IF dir = "x" THEN d1 ELSE d2
MCBatches == {<<x1, x2>>}
MCPathChoices == {<<"x">>}
MCChanges == { [what |-> "dictionary", to |-> "n"], [what |-> "numbering", to |-> "separate"],
               [what |-> "numbering", to |-> "continuous"], [what |-> "case", to |-> "bad"] }
=============================================================================
