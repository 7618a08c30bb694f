---------------------------- MODULE MCCppHandles ----------------------------
(***************************************************************************)
(* A thread that uses a handle in every way, and one that only creates and *)
(* destroys; directory "x" holds one dictionary, "y" another of the same   *)
(* name, and "m" is the name of none.  The other dictionary lacks the      *)
(* identifier and cannot answer the request.                               *)
(***************************************************************************)
EXTENDS CppHandles

CONSTANTS t1, t2, h1, h2, d1, d2

MCDoes(t, h) ==
  IF t = t1 /\ h = h1
  THEN {"get text", "ask", "set charset", "clone", "destroy", "create", "set dictionary"}
  ELSE IF t = t2 /\ h = h2 THEN {"create", "destroy"} ELSE {}
MCUsesLegacy(t) == t = t2
MCHolds(dir, name) ==
  IF name = "m" THEN NoDictionary ELSE IF dir = "x" THEN d1 ELSE d2
MCDefaultList == <<"y">>
MCLists == {<<"y">>, <<"x", "y">>}
MCTextOf(d, id) == IF d = d1 THEN "a" ELSE NoText
MCAsks == {[kind |-> "generate"]}
MCAnswer(d, ask) == IF d = d1 THEN d ELSE NoAnswer
=============================================================================
