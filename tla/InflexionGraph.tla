--------------------------- MODULE InflexionGraph ---------------------------
(***************************************************************************)
(* paths_to_morph_interpretations: how the segmentations ("paths") of one  *)
(* word become one graph of edges between numbered nodes.                  *)
(*                                                                         *)
(* A path is a sequence of chunks.  A chunk whose rule shifts the orth is  *)
(* a prefix of the next one; a maximal run of prefixes and the chunk after *)
(* it (its main chunk) become one edge.  A single path, and paths of one   *)
(* edge each, are answered directly; anything else goes through            *)
(* InflexionGraph: one chain of nodes per path, then nodes that start at   *)
(* the same text position are merged two at a time, then nodes are         *)
(* numbered from left to right.  A weak path counts only when no strong    *)
(* one exists.                                                             *)
(***************************************************************************)
EXTENDS Integers, Sequences, FiniteSets, SequencesExt

CONSTANTS
  WordEnd,   (* the length of the word                                     *)
  Groups,    (* interpretation groups, by group_id                         *)
  SegmentType, (* SegmentType[g]: the segment type of the chunks of g      *)
  Paths,     (* the paths segmentation rules may find for it, in the order *)
             (* in which collect_segmented_analyzer_paths finds them       *)
  MaxPaths,  (* how many of them one word has                              *)
  GRAPH_END  (* usize::MAX, the target of an edge that ends the word       *)

Chunk == [end : 1 .. WordEnd, group : Groups, shift : BOOLEAN]

ChunkStart(chunks, i) == IF i = 1 THEN 0 ELSE chunks[i - 1].end

VARIABLES
  paths,           (* the paths found for the word, as indexes of Paths    *)
  weak,            (* those that the rules accept as weak                  *)
  mismatched,      (* groups that do not accept the word's letter case     *)
  mode,            (* case_handling                                        *)
  stage,           (* the stage of paths_to_morph_interpretations          *)
  added,           (* how many paths add_path has seen                     *)
  graph,           (* InflexionGraph::graph: the edges that leave a node   *)
  node2start,      (* InflexionGraph::node2start: where a node's text is   *)
  only_weak_paths, (* InflexionGraph::only_weak_paths                      *)
  result,          (* the edges whose interpretations are returned         *)
  node_count       (* the number of nodes returned                         *)

input == <<weak, mismatched, mode>>
vars  == <<paths, input, stage, added, graph, node2start, only_weak_paths, result, node_count>>

-----------------------------------------------------------------------------
(* The edges of a path                                                     *)

IsMain(chunks, i) == i = Len(chunks) \/ ~chunks[i].shift

(* What a sequence has at the places of a set, in order.                   *)
Picked(seq, S) ==
  LET picked[i \in 0 .. Len(seq)] ==
        IF i = 0 THEN <<>>
        ELSE IF i \in S THEN Append(picked[i - 1], seq[i]) ELSE picked[i - 1]
  IN  picked[Len(seq)]

Ascending(S, n) == Picked([ i \in 1 .. n |-> i ], S)

(* The chunk after the previous main chunk starts the edge of main chunk i. *)
FirstOf(chunks, i) ==
  CHOOSE f \in 1 .. i : /\ f = 1 \/ IsMain(chunks, f - 1)
                        /\ \A j \in f .. i - 1 : ~IsMain(chunks, j)

Span(chunks, i) ==
  LET first == FirstOf(chunks, i) IN
  [ text_start |-> ChunkStart(chunks, first),
    main_start |-> ChunkStart(chunks, i),
    text_end   |-> chunks[i].end,
    group      |-> chunks[i].group,
    segment_type |-> SegmentType[chunks[i].group],
    prefixes   |-> SubSeq(chunks, first, i - 1) ]

SpansOf(chunks) ==
  LET mains == Ascending({ i \in DOMAIN chunks : IsMain(chunks, i) }, Len(chunks))
  IN  [ k \in DOMAIN mains |-> Span(chunks, mains[k]) ]

PathSpans == [ p \in DOMAIN Paths |-> SpansOf(Paths[p]) ]

(* Paths cover the word, chunk by chunk, and no path of one edge is listed *)
(* twice (the search finds none twice).                                    *)
ASSUME InflexionGraphAssumption ==
  /\ WordEnd \in Nat \ {0} /\ MaxPaths \in Nat
  /\ SegmentType = [g \in Groups |-> SegmentType[g]]
  /\ Paths \in Seq(Seq(Chunk))
  /\ \A p \in DOMAIN Paths :
       /\ Paths[p] # <<>> /\ Paths[p][Len(Paths[p])].end = WordEnd
       /\ \A i \in DOMAIN Paths[p] : ChunkStart(Paths[p], i) < Paths[p][i].end
       /\ \A q \in DOMAIN Paths :
            Len(PathSpans[p]) = 1 /\ PathSpans[p] = PathSpans[q] => p = q
  /\ GRAPH_END \in Nat /\ GRAPH_END > (WordEnd + 1) * MaxPaths

To(span, next) == [span |-> span, next_node |-> next]

(* edge_in: prefixes are not compared.                                     *)
SameEdge(d, e) ==
  d.next_node = e.next_node
  /\ \A f \in {"text_start", "main_start", "text_end", "segment_type", "group"} : d.span[f] = e.span[f]

EdgeIn(edges, e) == \E i \in DOMAIN edges : SameEdge(edges[i], e)

CaseMatches(p) == \A i \in DOMAIN Paths[p] : Paths[p][i].group \notin mismatched

EffectivelyWeak(p) == p \in weak \/ (mode = "conditional" /\ ~CaseMatches(p))

SingleEdge(p) == Len(PathSpans[p]) = 1

-----------------------------------------------------------------------------
(* Any of the paths may be found, any of them weak, any group mismatched.  *)
Init ==
  /\ \E found \in SUBSET DOMAIN Paths :
       /\ Cardinality(found) <= MaxPaths
       /\ paths = Ascending(found, Len(Paths))
       /\ weak \in SUBSET found
  /\ mode \in {"conditional", "strict", "ignore"}
  /\ mismatched \in IF mode = "ignore" THEN {{}} ELSE SUBSET Groups
  /\ stage = "start"
  /\ added = 0
  /\ graph = [n \in {} |-> <<>>]
  /\ node2start = [n \in {} |-> 0]
  /\ only_weak_paths = TRUE
  /\ result = <<>>
  /\ node_count = 0

GraphSize == Cardinality(DOMAIN graph)

ReturnNone ==
  /\ stage = "start"
  /\ paths = <<>>
  /\ stage' = "none"
  /\ UNCHANGED <<paths, input, added, graph, node2start, only_weak_paths, result, node_count>>

(* Strict case handling drops every path with a mismatched chunk.          *)
Retain ==
  /\ stage = "start"
  /\ paths # <<>>
  /\ paths' = IF mode = "strict"
              THEN Picked(paths, { i \in DOMAIN paths : CaseMatches(paths[i]) })
              ELSE paths
  /\ stage' = IF paths' = <<>> THEN "none" ELSE "retained"
  /\ UNCHANGED <<input, added, graph, node2start, only_weak_paths, result, node_count>>

Return(edges, count) ==
  /\ result' = edges
  /\ node_count' = count
  /\ stage' = "done"

(* single_path_to_morph_interpretations: weakness does not matter.         *)
SinglePath ==
  /\ stage = "retained"
  /\ Len(paths) = 1
  /\ LET spans == PathSpans[paths[1]] IN
     Return([k \in DOMAIN spans |-> [from |-> k - 1, to |-> k, span |-> spans[k]]], Len(spans))
  /\ UNCHANGED <<paths, input, added, graph, node2start, only_weak_paths>>

AllSingleEdges == \A i \in DOMAIN paths : SingleEdge(paths[i])

(* single_edge_paths_to_morph_interpretations                              *)
SingleEdgePaths ==
  /\ stage = "retained"
  /\ Len(paths) > 1
  /\ AllSingleEdges
  /\ LET has_strong == \E i \in DOMAIN paths : ~EffectivelyWeak(paths[i])
         counted    == Picked(paths, { i \in DOMAIN paths :
                                         has_strong => ~EffectivelyWeak(paths[i]) })
     IN  Return([ k \in DOMAIN counted |->
                    [from |-> 0, to |-> 1, span |-> PathSpans[counted[k]][1]] ], 1)
  /\ UNCHANGED <<paths, input, added, graph, node2start, only_weak_paths>>

-----------------------------------------------------------------------------
(* InflexionGraph::add_path                                                *)

(* A graph of size nodes with the chain of one more path: its first edge   *)
(* leaves node 0, each further edge a node of its own.                     *)
FirstNew(size) == IF size = 0 THEN 1 ELSE size

Target(size, spans, k) == IF k = Len(spans) THEN GRAPH_END ELSE FirstNew(size) + k - 1

WithPath(edges, size, spans) ==
  LET Link(k) == <<To(spans[k], Target(size, spans, k))>>
  IN  [ n \in 0 .. FirstNew(size) + Len(spans) - 2 |->
          IF n = 0 THEN (IF size = 0 THEN <<>> ELSE edges[0]) \o Link(1)
          ELSE IF n < size THEN edges[n]
          ELSE Link(n - FirstNew(size) + 2) ]

(* Mutant: a strong path is added to the weak ones before it.              *)
AddPathToAny ==
  /\ stage = "retained"
  /\ Len(paths) > 1 /\ ~AllSingleEdges
  /\ added < Len(paths)
  /\ added' = added + 1
  /\ LET p     == paths[added + 1]
         spans == PathSpans[p]
     IN  IF EffectivelyWeak(p) /\ GraphSize > 0 /\ ~only_weak_paths
         THEN UNCHANGED <<graph, node2start, only_weak_paths>>
         ELSE /\ graph' = WithPath(graph, GraphSize, spans)
              /\ node2start' =
                   [ n \in DOMAIN graph' |->
                       IF n < GraphSize THEN node2start[n]
                       ELSE IF n = 0 THEN spans[1].text_start
                       ELSE spans[n - FirstNew(GraphSize) + 2].text_start ]
              /\ only_weak_paths' = (only_weak_paths /\ EffectivelyWeak(p))
  /\ UNCHANGED <<paths, input, stage, result, node_count>>

AddPath ==
  /\ stage = "retained"
  /\ Len(paths) > 1 /\ ~AllSingleEdges
  /\ added < Len(paths)
  /\ added' = added + 1
  /\ LET p       == paths[added + 1]
         spans   == PathSpans[p]
         dropped == EffectivelyWeak(p) /\ GraphSize > 0 /\ ~only_weak_paths
         cleared == only_weak_paths /\ ~EffectivelyWeak(p)
         size    == IF cleared THEN 0 ELSE GraphSize
     IN  IF dropped THEN UNCHANGED <<graph, node2start, only_weak_paths>>
         ELSE /\ graph' = WithPath(graph, size, spans)
              /\ node2start' =
                   [ n \in DOMAIN graph' |->
                       IF n < size THEN node2start[n]
                       ELSE IF n = 0 THEN spans[1].text_start
                       ELSE spans[n - FirstNew(size) + 2].text_start ]
              /\ only_weak_paths' = (only_weak_paths /\ ~cleared)
  /\ UNCHANGED <<paths, input, stage, result, node_count>>

-----------------------------------------------------------------------------
(* InflexionGraph::minimize                                                *)

Minimize ==
  /\ stage = "retained"
  /\ Len(paths) > 1 /\ ~AllSingleEdges
  /\ added = Len(paths)
  /\ stage' = IF GraphSize > 2 THEN "minimize" ELSE "renumber"
  /\ UNCHANGED <<paths, input, added, graph, node2start, only_weak_paths, result, node_count>>

(* As written: a node without continuations has no paths, so none has any. *)
PossiblePaths(node) ==
  LET possible[n \in DOMAIN graph \cup {GRAPH_END}] ==
        IF n = GRAPH_END \/ n + 1 = GraphSize THEN {}
        ELSE UNION { { path \cup {<<e.span.text_start, e.span.segment_type>>} :
                         path \in possible[e.next_node] } :
                       e \in { d \in ToSet(graph[n]) : d.next_node # GraphSize } }
  IN  possible[node]

CanMerge(n1, n2) ==
  /\ n1 < n2
  /\ node2start[n1] = node2start[n2]
  /\ PossiblePaths(n1) = PossiblePaths(n2)

(* redirect_edges for one node: an edge that came to equal another goes.   *)
Redirected(edges, from, to) ==
  LET moved == [ i \in DOMAIN edges |->
                   IF edges[i].next_node = from THEN To(edges[i].span, to) ELSE edges[i] ]
      Redundant(i) ==
        /\ edges[i].next_node = from
        /\ \E j \in DOMAIN edges :
             SameEdge(moved[i], moved[j]) /\ (j < i \/ edges[j].next_node = to)
  IN  Picked(moved, { i \in DOMAIN edges : ~Redundant(i) })

(* Only the nodes before from are searched.                                *)
RedirectEdges(edges, from, to) ==
  [ n \in DOMAIN edges |-> IF n < from THEN Redirected(edges[n], from, to) ELSE edges[n] ]

(* do_remove_node: the nodes after it move down, one by one.  A node's     *)
(* edges follow those that move when it has moved itself.                  *)
MovedDown(edges, first) ==
  LET moved[i \in 0 .. GraphSize - 1 - first] ==
        IF i = 0 THEN edges ELSE Redirected(moved[i - 1], first + i, first + i - 1)
  IN  moved[GraphSize - 1 - first]

WithoutNode(edges, node) ==
  [ n \in 0 .. GraphSize - 2 |->
      IF n < node THEN MovedDown(edges[n], node) ELSE MovedDown(edges[n + 1], n + 1) ]

(* Mutant: an edge goes when another one spans the same text.              *)
JoinedBySpan(n1, n2) ==
  graph[n1] \o Picked(graph[n2], { i \in DOMAIN graph[n2] :
    ~ \E j \in DOMAIN graph[n1] : graph[n1][j].span.text_end = graph[n2][i].span.text_end })

Joined(n1, n2) ==
  graph[n1] \o Picked(graph[n2], { i \in DOMAIN graph[n2] :
    /\ ~EdgeIn(graph[n1], graph[n2][i])
    /\ \A j \in 1 .. i - 1 : ~SameEdge(graph[n2][j], graph[n2][i]) })

(* Mutant: the merged node is left behind.                                 *)
MergeOnly(n1, n2) ==
  /\ graph' = RedirectEdges([graph EXCEPT ![n1] = Joined(n1, n2)], n2, n1)
  /\ UNCHANGED node2start

(* do_merge_nodes: the graph after each of its three steps.                *)
Merge(n1, n2) ==
  /\ \E joined \in { [graph EXCEPT ![n1] = Joined(n1, n2)] } :
       \E redirected \in { RedirectEdges(joined, n2, n1) } :
         graph' = WithoutNode(redirected, n2)
  /\ node2start' = [ n \in 0 .. GraphSize - 2 |-> node2start[IF n < n2 THEN n ELSE n + 1] ]

(* try_to_merge_two_nodes: the first node that can be merged with a later  *)
(* one, and the last one it can be merged with.                            *)
MergeTwo ==
  /\ stage = "minimize"
  /\ \E n1, n2 \in DOMAIN graph :
       /\ CanMerge(n1, n2)
       /\ \A m1, m2 \in DOMAIN graph :
            CanMerge(m1, m2) => n1 < m1 \/ (n1 = m1 /\ m2 <= n2)
       /\ Merge(n1, n2)
  /\ UNCHANGED <<paths, input, stage, added, only_weak_paths, result, node_count>>

Minimized ==
  /\ stage = "minimize"
  /\ ~ \E n1, n2 \in DOMAIN graph : CanMerge(n1, n2)
  /\ stage' = "renumber"
  /\ UNCHANGED <<paths, input, added, graph, node2start, only_weak_paths, result, node_count>>

-----------------------------------------------------------------------------
(* The rest of InflexionGraph::finish, and the loop over the edges         *)

(* sort_nodes_topologically: a stable sort by text position                *)
NewNumber(n) ==
  IF GraphSize <= 2 THEN n
  ELSE Cardinality({ m \in DOMAIN graph :
         node2start[m] < node2start[n] \/ (node2start[m] = node2start[n] /\ m < n) })

OldNumber(n) == CHOOSE m \in DOMAIN graph : NewNumber(m) = n

Renumbered(e) ==
  To(e.span, IF e.next_node = GRAPH_END THEN GraphSize
             ELSE IF e.next_node < GraphSize THEN NewNumber(e.next_node)
             ELSE e.next_node)

Outgoing(n) ==
  LET es == graph[OldNumber(n)]
  IN  [ k \in DOMAIN es |-> [ from |-> n, to |-> Renumbered(es[k]).next_node,
                              span |-> es[k].span ] ]

Renumber ==
  /\ stage = "renumber"
  /\ Return(FlattenSeq([ n \in 1 .. GraphSize |-> Outgoing(n - 1) ]), GraphSize)
  /\ UNCHANGED <<paths, input, added, graph, node2start, only_weak_paths>>

GraphStep ==
  \/ ReturnNone \/ Retain \/ SinglePath \/ SingleEdgePaths
  \/ AddPath \/ Minimize \/ MergeTwo \/ Minimized \/ Renumber

Finished == stage \in {"none", "done"} /\ UNCHANGED vars

Next == GraphStep \/ Finished

(* One thread computes the graph and waits for nothing.                    *)
Spec == Init /\ [][Next]_vars /\ WF_vars(GraphStep)

-----------------------------------------------------------------------------
(* Properties *)

(* What the answer should be: the edges of the strong paths (of all paths  *)
(* if none is strong), the nodes being the positions where edges start.    *)
Kept ==
  { p \in ToSet(paths) : EffectivelyWeak(p) => \A q \in ToSet(paths) : EffectivelyWeak(q) }

KeptSpans == UNION { ToSet(PathSpans[p]) : p \in Kept }

NodeAt(pos) == Cardinality({ s.text_start : s \in { t \in KeptSpans : t.text_start < pos } })

Unprefixed(s) == [ s EXCEPT !.prefixes = <<>> ]

(* However a word is answered - from its single path, from paths of one    *)
(* edge, or from the graph - the answer holds the edges of the paths kept  *)
(* and no other, between nodes numbered by text position, none twice.      *)
(* (The graph does not tell edges apart by their prefixes.)                *)
AnswerIsMinimalGraph ==
  stage = "done" =>
    /\ { [e EXCEPT !.span = Unprefixed(e.span)] : e \in ToSet(result) }
         = { [ from |-> NodeAt(s.text_start), to |-> NodeAt(s.text_end),
               span |-> Unprefixed(s) ] : s \in KeptSpans }
    /\ { e.span : e \in ToSet(result) } \subseteq KeptSpans
    /\ \A i, j \in DOMAIN result : result[i] = result[j] => i = j
    /\ node_count = NodeAt(WordEnd)

(* The texts one can read from the first node to the end of the word.      *)
Readings ==
  LET readings[n \in DOMAIN graph \cup {GRAPH_END}] ==
        IF n = GRAPH_END THEN {<<>>}
        ELSE UNION { { <<Unprefixed(e.span)>> \o rest : rest \in readings[e.next_node] } :
                       e \in ToSet(graph[n]) }
  IN  IF GraphSize = 0 THEN {} ELSE readings[0]

(* Merging two nodes never loses a segmentation of the word.               *)
ReadingsKept == [][stage = "minimize" => Readings \subseteq Readings']_vars

(* minimize ends: each merge leaves fewer nodes.                           *)
Answered == <>(stage \in {"none", "done"})
=============================================================================
