-------------------------- MODULE MCInflexionGraph --------------------------
(***************************************************************************)
(* Words of four letters with up to three paths out of twelve: of one to   *)
(* four edges, with common beginnings and ends, the same text from two     *)
(* groups, and prefixes of one and two chunks.                             *)
(***************************************************************************)
EXTENDS InflexionGraph

C(e, g) == [end |-> e, group |-> g, shift |-> FALSE]
P(e, g) == [end |-> e, group |-> g, shift |-> TRUE]

MCGroups == {"a", "b", "c"}
MCSegmentType == [g \in MCGroups |-> IF g = "a" THEN 1 ELSE 2]

MCPaths ==
  << <<C(1, "a"), C(2, "a"), C(3, "a"), C(4, "a")>>,
     <<C(1, "a"), C(2, "a"), C(4, "b")>>,
     <<C(1, "a"), C(3, "b"), C(4, "a")>>,
     <<C(1, "a"), C(4, "b")>>,
     <<P(1, "b"), P(2, "a"), C(3, "a"), C(4, "a")>>,
     <<P(1, "b"), C(3, "b"), C(4, "c")>>,
     <<P(1, "c"), C(3, "b"), C(4, "a")>>,
     <<P(1, "c"), C(4, "b")>>,
     <<C(2, "a"), C(3, "a"), C(4, "a")>>,
     <<C(2, "b"), C(4, "c")>>,
     <<C(4, "a")>>,
     <<C(4, "c")>> >>
=============================================================================
