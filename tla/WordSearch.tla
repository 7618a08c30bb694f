----------------------------- MODULE WordSearch -----------------------------
(***************************************************************************)
(* What one call of BinaryAnalyzerLexicon::analyze_native_word asks, what  *)
(* the dictionary holds for it, and the answer it deserves.                *)
(*                                                                         *)
(* A call names a word, a configuration (case handling and segmentation    *)
(* options) and the first graph node of its answer.  The dictionary is     *)
(* constant: its search for a word under a configuration is Shape, the     *)
(* interpretations of a group are Decode.                                  *)
(***************************************************************************)
EXTENDS Integers, Sequences

CONSTANTS
  Threads,    (* callers that share one lexicon                            *)
  Words,      (* the words they ask about                                  *)
  Configs,    (* case handling and segmentation presets                    *)
  Calls,      (* the calls they make: a word, a configuration, a node      *)
  MaxNode,    (* i32::MAX                                                  *)
  Groups,     (* interpretation groups of the dictionary, by id            *)
  BadGroups,  (* those whose payload does not decode                       *)
  Decode,     (* Decode[g]: the interpretations in group g                 *)
  Orths,      (* orthographic forms an interpretation may carry            *)
  Ign,        (* what an interpretation of an unknown chunk carries        *)
  Shape,      (* Shape[w][c]: the dictionary search for w under c          *)
  NoRequest   (* a thread that has not called yet                          *)

(* -MaxNode - 1 is i32::MIN. *)
Node == (-MaxNode - 1) .. MaxNode

Request == [word : Words, config : Configs, start : Node]

(***************************************************************************)
(* The search for a word: the interpretation groups it visits, in order    *)
(* (fresh marks the first visit of a new part of a chunk that is split at  *)
(* separators), then the edges it answers with, each between two nodes     *)
(* counted from the word's first one and with the visit that supplies its  *)
(* interpretations (0 for an ignotium), and the number of nodes it uses.   *)
(***************************************************************************)
Visit  == [group : Groups, fresh : BOOLEAN]
Edge   == [from : 0 .. MaxNode, to : 0 .. MaxNode, orth : Orths, visit : Nat]
Search == [visits : Seq(Visit), edges : Seq(Edge), nodes : 0 .. MaxNode]

ASSUME WordSearchAssumption ==
  /\ MaxNode \in Nat
  /\ Words \subseteq Orths
  /\ BadGroups \subseteq Groups
  /\ Calls \subseteq Request
  /\ NoRequest \notin Request
  /\ Decode = [g \in Groups |-> Decode[g]]
  /\ Shape = [w \in Words |-> [c \in Configs |-> Shape[w][c]]]
  /\ \A w \in Words, c \in Configs :
       /\ Shape[w][c] \in Search
       /\ \A k \in DOMAIN Shape[w][c].edges :
            Shape[w][c].edges[k].visit \in 0 .. Len(Shape[w][c].visits)

(* The sum of two i32 as a release build computes it. *)
WrapAdd(a, b) ==
  IF a + b > MaxNode THEN a + b - (2 * MaxNode + 2)
  ELSE IF a + b < -MaxNode - 1 THEN a + b + (2 * MaxNode + 2)
  ELSE a + b

Payload == { Decode[g] : g \in Groups } \cup {Ign}
Interp  == [start_node : Node, end_node : Node, orth : Orths, data : Payload]
Status  == {"none", "ok", "malformed", "panic", "poisoned"}
Answer  == [status : Status, interps : Seq(Interp), next : Node]

Failed(status) == [status |-> status, interps |-> <<>>, next |-> 0]
Nothing == Failed("none")

SearchOf(r)  == Shape[r.word][r.config]
Malformed(r) == \E j \in DOMAIN SearchOf(r).visits :
                  SearchOf(r).visits[j].group \in BadGroups

(* A search uses only nodes that its node count covers, so its last one    *)
(* overflows if any does.                                                  *)
Overflows(r) ==
  \/ r.start + SearchOf(r).nodes > MaxNode
  \/ \E k \in DOMAIN SearchOf(r).edges :
       \/ r.start + SearchOf(r).edges[k].from > MaxNode
       \/ r.start + SearchOf(r).edges[k].to > MaxNode

EdgeData(r, k) ==
  LET edge == SearchOf(r).edges[k] IN
  IF edge.visit = 0 THEN Ign ELSE Decode[SearchOf(r).visits[edge.visit].group]

EdgeInterp(r, k) ==
  [ start_node |-> WrapAdd(r.start, SearchOf(r).edges[k].from),
    end_node   |-> WrapAdd(r.start, SearchOf(r).edges[k].to),
    orth       |-> SearchOf(r).edges[k].orth,
    data       |-> EdgeData(r, k) ]

Analysis(r) ==
  [ status  |-> "ok",
    interps |-> [k \in 1 .. Len(SearchOf(r).edges) |-> EdgeInterp(r, k)],
    next    |-> WrapAdd(r.start, SearchOf(r).nodes) ]

(* The answer a call deserves. *)
Expected(r, checks) ==
  IF Malformed(r) THEN Failed("malformed")
  ELSE IF checks /\ Overflows(r) THEN Failed("panic")
  ELSE Analysis(r)

=============================================================================
