------------------------ MODULE MCWordTemplateCache ------------------------
(***************************************************************************)
(* Two threads, a cache of two words and a decode cache of one group.      *)
(*                                                                         *)
(*   c1   "na": two readings from two groups, one under another form       *)
(*        "ja": split into two parts that visit the same group             *)
(*        "x":  unknown, and too long to be cached                         *)
(*   c2   other key, same hashes: "na" has too many readings to be cached, *)
(*        "ja" has another answer, a group of "x" does not decode          *)
(*   c3   no key; the answers are those of c1                              *)
(*                                                                         *)
(* All hashes are equal but one, so that words and keys collide.  Asking   *)
(* for an answer at the greatest node makes every answer overflow.         *)
(***************************************************************************)
EXTENDS WordTemplateCache

MCThreads == {"t1", "t2"}
MCWords   == {"na", "ja", "x"}
MCConfigs == {"c1", "c2", "c3"}
MCGroups  == {"g1", "g2", "g3"}
MCDecode  == [g \in MCGroups |-> g]
MCOrths   == MCWords \cup {"Na"}

V(g, f) == [group |-> g, fresh |-> f]
E(a, b, o, v) == [from |-> a, to |-> b, orth |-> o, visit |-> v]

MCShape == [w \in MCWords |-> [c \in MCConfigs |->
  CASE w = "na" /\ c # "c2" ->
         [ visits |-> <<V("g1", TRUE), V("g2", FALSE), V("g1", FALSE)>>,
           edges |-> <<E(0, 1, "na", 3), E(0, 1, "Na", 2)>>, nodes |-> 1 ]
    [] w = "na" /\ c = "c2" ->
         [ visits |-> <<V("g1", TRUE)>>,
           edges |-> <<E(0, 1, "na", 1), E(0, 1, "Na", 1), E(0, 1, "ja", 1)>>,
           nodes |-> 1 ]
    [] w = "ja" /\ c # "c2" ->
         [ visits |-> <<V("g2", TRUE), V("g2", TRUE)>>,
           edges |-> <<E(0, 1, "ja", 2), E(1, 2, "x", 0)>>, nodes |-> 2 ]
    [] w = "ja" /\ c = "c2" ->
         [ visits |-> <<V("g1", TRUE)>>, edges |-> <<E(0, 1, "ja", 1)>>, nodes |-> 1 ]
    [] w = "x" /\ c # "c2" ->
         [ visits |-> <<>>, edges |-> <<E(0, 1, "x", 0)>>, nodes |-> 1 ]
    [] w = "x" /\ c = "c2" ->
         [ visits |-> <<V("g3", TRUE)>>, edges |-> <<>>, nodes |-> 0 ] ]]

Ask(w, c, s) == [word |-> w, config |-> c, start |-> s]

MCCalls == { Ask("na", "c1", 1), Ask("na", "c1", 3), Ask("ja", "c1", 0), Ask("ja", "c1", 3),
             Ask("na", "c2", 0), Ask("ja", "c2", 0), Ask("x", "c1", 0), Ask("x", "c2", 0),
             Ask("na", "c3", 3) }

MCKey  == [c \in MCConfigs |-> CASE c = "c1" -> 1 [] c = "c2" -> 2 [] c = "c3" -> NoKey]
MCHash == [w \in MCWords |-> [c \in MCConfigs |-> IF w = "na" /\ c = "c2" THEN 2 ELSE 1]]
=============================================================================
