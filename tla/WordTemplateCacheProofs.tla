---------------------- MODULE WordTemplateCacheProofs ----------------------
(***************************************************************************)
(* Theorems about WordTemplateCache for any number of threads, words and   *)
(* configurations, any dictionary, any hash function and cache sizes.      *)
(***************************************************************************)
EXTENDS WordTemplateCache, SequenceTheorems, FiniteSetTheorems, TLAPS

-----------------------------------------------------------------------------
(* i32 arithmetic                                                          *)

(* A sum of i32 node numbers is an i32 in a release build.                 *)
LEMMA WrapAddType ==
  ASSUME NEW s \in Node, NEW n \in 0 .. MaxNode
  PROVE  WrapAdd(s, n) \in Node
BY WordSearchAssumption DEF Node, WrapAdd

(* Taking the first node off again undoes the addition, also when it wraps *)
(* around; the checked subtraction succeeds only when it does not wrap.    *)
LEMMA Rebasing ==
  ASSUME NEW s \in Node, NEW n \in 0 .. MaxNode
  PROVE  /\ WrapSub(WrapAdd(s, n), s) = n
         /\ WrapAdd(s, n) - s \in Node => WrapAdd(s, n) - s = n
BY WordSearchAssumption DEF Node, WrapAdd, WrapSub

(* Adding to a node only ever overflows upwards.                           *)
LEMMA OverflowsUpwards ==
  ASSUME NEW s \in Node, NEW n \in 0 .. MaxNode
  PROVE  s + n \notin Node <=> s + n > MaxNode
BY WordSearchAssumption DEF Node

-----------------------------------------------------------------------------
(* Answers                                                                 *)

LEMMA SearchType ==
  ASSUME NEW r \in Request
  PROVE  /\ SearchOf(r) \in Search
         /\ \A k \in DOMAIN SearchOf(r).edges :
              SearchOf(r).edges[k].visit \in 0 .. Len(SearchOf(r).visits)
BY WordSearchAssumption DEF Request, SearchOf

LEMMA EdgeType ==
  ASSUME NEW r \in Request, NEW k \in 1 .. Len(SearchOf(r).edges)
  PROVE  /\ SearchOf(r).edges[k] \in Edge
         /\ k \in DOMAIN SearchOf(r).edges
         /\ EdgeData(r, k) \in Payload
<1> DEFINE S == SearchOf(r)
<1>1. S \in Search /\ S.edges \in Seq(Edge) /\ S.visits \in Seq(Visit)
  BY SearchType DEF Search
<1>2. S.edges[k] \in Edge /\ k \in DOMAIN S.edges
  BY <1>1
<1>3. CASE S.edges[k].visit = 0
  BY <1>2, <1>3 DEF EdgeData, Payload
<1>4. CASE S.edges[k].visit # 0
  <2>1. S.edges[k].visit \in 1 .. Len(S.visits)
    BY <1>1, <1>2, <1>4, SearchType
  <2>2. ASSUME NEW j \in 1 .. Len(S.visits) PROVE S.visits[j].group \in Groups
    <3>1. S.visits[j] \in Visit
      BY <1>1, ElementOfSeq
    <3> QED  BY <3>1 DEF Visit
  <2>3. S.visits[S.edges[k].visit].group \in Groups
    BY <2>1, <2>2
  <2> QED  BY <1>2, <1>4, <2>3 DEF EdgeData, Payload
<1> QED  BY <1>2, <1>3, <1>4

LEMMA EdgeInterpType ==
  ASSUME NEW r \in Request, NEW k \in 1 .. Len(SearchOf(r).edges)
  PROVE  EdgeInterp(r, k) \in Interp
<1>1. SearchOf(r).edges[k] \in Edge /\ EdgeData(r, k) \in Payload /\ r.start \in Node
  BY EdgeType DEF Request
<1>2. /\ WrapAdd(r.start, SearchOf(r).edges[k].from) \in Node
      /\ WrapAdd(r.start, SearchOf(r).edges[k].to) \in Node
  BY <1>1, WrapAddType DEF Edge
<1> QED  BY <1>1, <1>2 DEF EdgeInterp, Interp, Edge

LEMMA AnalysisType ==
  ASSUME NEW r \in Request
  PROVE  Analysis(r) \in Answer
<1>1. SearchOf(r).nodes \in 0 .. MaxNode /\ Len(SearchOf(r).edges) \in Nat /\ r.start \in Node
  BY SearchType DEF Search, Request
<1>2. [k \in 1 .. Len(SearchOf(r).edges) |-> EdgeInterp(r, k)] \in Seq(Interp)
  BY <1>1, EdgeInterpType
<1>3. WrapAdd(r.start, SearchOf(r).nodes) \in Node
  BY <1>1, WrapAddType
<1> QED  BY <1>2, <1>3 DEF Analysis, Answer, Status

-----------------------------------------------------------------------------
(* Templates                                                               *)

(* What the template of an edge holds: the edge, counted from the word's   *)
(* first node.                                                             *)
LEMMA EdgeTemplate ==
  ASSUME NEW r \in Request, NEW k \in 1 .. Len(SearchOf(r).edges)
  PROVE  LET m == FromInterp(EdgeInterp(r, k), r)
             d == SearchOf(r).edges[k] IN
         /\ m \in InterpTemplate
         /\ m = [ rel_start_node |-> d.from, rel_end_node |-> d.to,
                  orth |-> IF d.orth = r.word THEN InputWord ELSE d.orth,
                  data |-> EdgeData(r, k) ]
<1> DEFINE d == SearchOf(r).edges[k]
           i == EdgeInterp(r, k)
<1>1. /\ d.from \in 0 .. MaxNode /\ d.to \in 0 .. MaxNode /\ d.orth \in Orths
      /\ EdgeData(r, k) \in Payload /\ r.start \in Node
  BY EdgeType DEF Request, Edge
<1>2. /\ i.start_node = WrapAdd(r.start, d.from)
      /\ i.end_node = WrapAdd(r.start, d.to)
      /\ i.orth = d.orth
      /\ i.data = EdgeData(r, k)
  BY DEF EdgeInterp
<1> HIDE DEF d, i
<1>3. WrapSub(i.start_node, r.start) = d.from /\ WrapSub(i.end_node, r.start) = d.to
  BY <1>1, <1>2, Rebasing
<1>4. FromInterp(i, r) =
        [ rel_start_node |-> d.from, rel_end_node |-> d.to,
          orth |-> IF d.orth = r.word THEN InputWord ELSE d.orth,
          data |-> EdgeData(r, k) ]
  BY <1>2, <1>3 DEF FromInterp
<1>5. FromInterp(i, r) \in InterpTemplate
  BY <1>1, <1>4 DEF InterpTemplate
<1> QED  BY <1>4, <1>5 DEF d, i

LEMMA TemplateFields ==
  ASSUME NEW r \in Request, Storable(r)
  PROVE  LET e == TemplateOf(r, Analysis(r)) IN
         /\ e \in Template
         /\ e.config_key = KeyOf(r) /\ e.word = r.word
         /\ e.next_node_delta = SearchOf(r).nodes
         /\ e.interps = [ k \in 1 .. Len(SearchOf(r).edges) |->
                            FromInterp(EdgeInterp(r, k), r) ]
<1> DEFINE n == Len(SearchOf(r).edges)
           e == TemplateOf(r, Analysis(r))
<1>1. /\ r \in Request /\ r.word \in Words /\ r.config \in Keyed /\ r.start \in Node
      /\ SearchOf(r).nodes \in 0 .. MaxNode /\ n \in Nat
  BY SearchType DEF Storable, Search, Request, Keyed, KeyOf
<1>2. /\ Analysis(r).next = WrapAdd(r.start, SearchOf(r).nodes)
      /\ Analysis(r).interps = [k \in 1 .. n |-> EdgeInterp(r, k)]
      /\ Len(Analysis(r).interps) = n
  BY <1>1 DEF Analysis
<1>3. Analysis(r).next - r.start = SearchOf(r).nodes
  BY <1>1, <1>2, Rebasing DEF Storable
<1>4. e.interps = [k \in 1 .. n |-> FromInterp(EdgeInterp(r, k), r)]
  BY <1>2 DEF TemplateOf
<1>5. [k \in 1 .. n |-> FromInterp(EdgeInterp(r, k), r)] \in Seq(InterpTemplate)
  BY <1>1, EdgeTemplate
<1>6. /\ e.config_key = KeyOf(r) /\ e.word = r.word
      /\ e.next_node_delta = SearchOf(r).nodes
  BY <1>3 DEF TemplateOf, KeyOf
<1>7. e = [ config_key |-> ConfigKey[r.config], word |-> r.word,
            next_node_delta |-> SearchOf(r).nodes,
            interps |-> [k \in 1 .. n |-> FromInterp(EdgeInterp(r, k), r)] ]
  BY <1>3, <1>4 DEF TemplateOf
<1>8. e \in Template
  BY <1>1, <1>5, <1>7 DEF Template
<1> QED  BY <1>4, <1>6, <1>8

(* An edge that was made relative to one call's first node and added to    *)
(* another's is the edge the second call's own search would have made.     *)
LEMMA EdgeRoundTrip ==
  ASSUME NEW r0 \in Request, NEW r \in Request, r0.word = r.word,
         SearchOf(r0) = SearchOf(r), NEW k \in 1 .. Len(SearchOf(r).edges)
  PROVE  ToInterp(FromInterp(EdgeInterp(r0, k), r0), r) = EdgeInterp(r, k)
<1> DEFINE d == SearchOf(r).edges[k]
           m == FromInterp(EdgeInterp(r0, k), r0)
<1>1. d.orth \in Orths /\ r.word \in Words
  BY EdgeType DEF Edge, Request
<1>2. EdgeData(r0, k) = EdgeData(r, k)
  BY DEF EdgeData
<1>3. /\ m.rel_start_node = d.from /\ m.rel_end_node = d.to
      /\ m.orth = (IF d.orth = r.word THEN InputWord ELSE d.orth)
      /\ m.data = EdgeData(r, k)
  BY <1>2, EdgeTemplate
<1> HIDE DEF m
<1>4. (IF m.orth = InputWord THEN r.word ELSE m.orth) = d.orth
  BY <1>1, <1>3, WordTemplateCacheAssumption
<1> QED  BY <1>3, <1>4 DEF ToInterp, EdgeInterp, m

(* The heart of the cache's correctness: a template made from one call     *)
(* answers every call it matches as the dictionary would.                  *)
LEMMA TemplateAnswers ==
  ASSUME NEW r0 \in Request, Storable(r0), NEW r \in Request,
          Matches(TemplateOf(r0, Analysis(r0)), r)
  PROVE  LET e == TemplateOf(r0, Analysis(r0)) IN
         /\ HashOf(r) = HashOf(r0)
         /\ Instantiate(e, r) = Analysis(r)
         /\ InstantiateOverflows(e, r) <=> Overflows(r)
         /\ ~Malformed(r)
<1> DEFINE S == SearchOf(r)
           e == TemplateOf(r0, Analysis(r0))
<1>1. /\ r0 \in Request /\ KeyOf(r0) # NoKey
      /\ e.config_key = KeyOf(r0) /\ e.word = r0.word
      /\ e.next_node_delta = SearchOf(r0).nodes
      /\ e.interps = [ k \in 1 .. Len(SearchOf(r0).edges) |->
                         FromInterp(EdgeInterp(r0, k), r0) ]
  BY TemplateFields DEF Storable
<1>2. r.word = r0.word /\ KeyOf(r) = KeyOf(r0)
  BY <1>1 DEF Matches
<1>3. /\ r.config \in Keyed /\ r0.config \in Keyed
      /\ r.word \in Words /\ r.start \in Node
  BY <1>1, <1>2 DEF Keyed, KeyOf, Request
<1>4. HashOf(r) = HashOf(r0) /\ SearchOf(r0) = S
  BY <1>2, <1>3, WordTemplateCacheAssumption DEF HashOf, SearchOf, KeyOf
<1>5. ~Malformed(r)
  BY <1>4 DEF Malformed, Storable
<1>6. S \in Search /\ Len(S.edges) \in Nat /\ S.nodes \in 0 .. MaxNode
      /\ DOMAIN S.edges = 1 .. Len(S.edges)
  BY SearchType DEF Search
<1> HIDE DEF e, S
<1>7. /\ e.interps = [k \in 1 .. Len(S.edges) |-> FromInterp(EdgeInterp(r0, k), r0)]
      /\ Len(e.interps) = Len(S.edges) /\ DOMAIN e.interps = 1 .. Len(S.edges)
      /\ e.next_node_delta = S.nodes
  BY <1>1, <1>4, <1>6
<1>8. Instantiate(e, r) = Analysis(r)
  <2>1. ASSUME NEW k \in 1 .. Len(S.edges)
        PROVE  ToInterp(e.interps[k], r) = EdgeInterp(r, k)
    BY <1>1, <1>2, <1>4, <1>7, EdgeRoundTrip DEF S
  <2>2. [k \in 1 .. Len(e.interps) |-> ToInterp(e.interps[k], r)]
          = [k \in 1 .. Len(S.edges) |-> EdgeInterp(r, k)]
    BY <1>7, <2>1
  <2> QED  BY <1>7, <2>2 DEF Instantiate, Analysis, S
<1>9. InstantiateOverflows(e, r) <=> Overflows(r)
  <2>1. r.start + e.next_node_delta \notin Node <=> r.start + S.nodes > MaxNode
    BY <1>3, <1>6, <1>7, OverflowsUpwards
  <2>2. ASSUME NEW k \in 1 .. Len(S.edges)
        PROVE  /\ r.start + e.interps[k].rel_start_node \notin Node
                    <=> r.start + S.edges[k].from > MaxNode
               /\ r.start + e.interps[k].rel_end_node \notin Node
                    <=> r.start + S.edges[k].to > MaxNode
    <3>1. S.edges[k].from \in 0 .. MaxNode /\ S.edges[k].to \in 0 .. MaxNode
      BY EdgeType DEF Edge, S
    <3>2. /\ e.interps[k].rel_start_node = S.edges[k].from
          /\ e.interps[k].rel_end_node = S.edges[k].to
      BY <1>1, <1>4, <1>7, EdgeTemplate DEF S
    <3> QED  BY <1>3, <3>1, <3>2, OverflowsUpwards
  <2> QED  BY <1>6, <1>7, <2>1, <2>2 DEF InstantiateOverflows, Overflows, S
<1> QED  BY <1>4, <1>5, <1>8, <1>9 DEF e

-----------------------------------------------------------------------------
(* The invariant                                                           *)

LEMMA InitInv == Init => IInv
<1> SUFFICES ASSUME Init PROVE IInv
  OBVIOUS
<1>1. Nothing \in Answer
  BY WordSearchAssumption DEF Nothing, Failed, Answer, Status, Node
<1>2. ThreadsTypeOK
  BY <1>1 DEF Init, ThreadsTypeOK
<1>3. CachesTypeOK
  <2>1. buckets \in [Hashes -> Seq(Template)]
    BY DEF Init
  <2>2. seen_once \in [0 .. Slots - 1 -> Hashes \cup {0}] /\ entries \in Nat
    BY DEF Init
  <2>3. DOMAIN groups \subseteq Groups
    BY DEF Init
  <2> QED  BY <2>1, <2>2, <2>3 DEF Init, CachesTypeOK
<1>4. CallsInv /\ SuppliedInv
  BY DEF Init, CallsInv, SuppliedInv
<1>5. TemplatesStem
  BY DEF Init, TemplatesStem
<1> QED  BY <1>2, <1>3, <1>4, <1>5 DEF IInv, TypeOK

(* A failed call's answer is an answer.                                    *)
LEMMA FailedType ==
  ASSUME NEW status \in Status
  PROVE  Failed(status) \in Answer
BY WordSearchAssumption DEF Failed, Answer, Node

(* A call under way asks something well-formed.                            *)
LEMMA RunningCall ==
  ASSUME IInv, NEW t \in Threads, pc[t] # "idle"
  PROVE  request[t] \in Request /\ request[t] # NoRequest /\ answer[t] = Nothing
BY WordSearchAssumption DEF IInv, CallsInv

(* When its search is over, what a call worked out is the analysis.        *)
LEMMA ResultIsAnalysis ==
  ASSUME IInv, NEW t \in Threads, Searched(t)
  PROVE  /\ ~Malformed(request[t])
         /\ ResultOf(t) = Analysis(request[t])
<1> DEFINE r == request[t]
           S == SearchOf(r)
<1>1. r \in Request /\ Len(seen[t]) = Len(S.visits) /\ Supplied(r, seen[t])
  BY RunningCall DEF Searched, IInv, SuppliedInv
<1>2. S \in Search /\ S.visits \in Seq(Visit) /\ S.edges \in Seq(Edge)
  BY <1>1, SearchType DEF Search
<1>3. \A j \in 1 .. Len(S.visits) : /\ S.visits[j].group \notin BadGroups
                                    /\ seen[t][j] = Decode[S.visits[j].group]
  BY <1>1 DEF Supplied
<1>4. ~Malformed(r)
  BY <1>2, <1>3 DEF Malformed
<1>5. ASSUME NEW k \in 1 .. Len(S.edges)
      PROVE  SuppliedData(t, S.edges[k]) = EdgeData(r, k)
  <2>1. S.edges[k] \in Edge /\ S.edges[k].visit \in 0 .. Len(S.visits)
    BY <1>1, <1>2, EdgeType, SearchType
  <2>2. CASE S.edges[k].visit = 0
    BY <2>2 DEF SuppliedData, EdgeData
  <2>3. CASE S.edges[k].visit # 0
    <3>1. S.edges[k].visit \in 1 .. Len(S.visits)
      BY <1>2, <2>1, <2>3
    <3>2. seen[t][S.edges[k].visit] = Decode[S.visits[S.edges[k].visit].group]
      BY <1>3, <3>1
    <3> QED  BY <2>3, <3>2 DEF SuppliedData, EdgeData
  <2> QED  BY <2>2, <2>3
<1>6. ResultOf(t) = Analysis(r)
  BY <1>5 DEF ResultOf, Analysis, EdgeInterp
<1> QED  BY <1>4, <1>6

(* The thread's side of every step that answers a call.                    *)
LEMMA FinishStep ==
  ASSUME IInv, NEW t \in Threads, NEW a \in Answer, a # Nothing,
         Finish(t, a), UNCHANGED <<request, groups>>
  PROVE  ThreadsTypeOK' /\ CallsInv' /\ SuppliedInv'
<1>1. ThreadsTypeOK'
  <2>1. answer' \in [Threads -> Answer] /\ request' \in [Threads -> Request \cup {NoRequest}]
    BY DEF IInv, TypeOK, ThreadsTypeOK, Finish
  <2>2. pc' \in [Threads -> {"idle", "get", "search", "decode"}]
    BY DEF IInv, TypeOK, ThreadsTypeOK, Finish, Goto
  <2>3. local' \in [Threads -> Seq(Cached)]
    BY DEF IInv, TypeOK, ThreadsTypeOK, Finish
  <2>4. seen' \in [Threads -> Seq(Payload)]
    BY DEF IInv, TypeOK, ThreadsTypeOK, Finish
  <2> QED  BY <2>1, <2>2, <2>3, <2>4 DEF ThreadsTypeOK
<1>2. /\ \A u \in Threads \ {t} : /\ pc'[u] = pc[u] /\ answer'[u] = answer[u]
                                 /\ local'[u] = local[u] /\ seen'[u] = seen[u]
      /\ pc'[t] = "idle" /\ answer'[t] = a /\ local'[t] = <<>> /\ seen'[t] = <<>>
  BY DEF IInv, TypeOK, ThreadsTypeOK, Finish, Goto
<1>3. CallsInv'
  BY <1>2 DEF IInv, CallsInv, KeyOf, SearchOf
<1>4. SuppliedInv'
  <2>1. \A u \in Threads : pc'[u] # "idle" => Supplied(request'[u], seen'[u])
    BY <1>2 DEF IInv, SuppliedInv
  <2>2. \A u \in Threads : \A i \in DOMAIN local'[u] :
          /\ local'[u][i].group \notin BadGroups
          /\ local'[u][i].data = Decode[local'[u][i].group]
    BY <1>2 DEF IInv, SuppliedInv
  <2> QED  BY <2>1, <2>2 DEF IInv, SuppliedInv
<1> QED  BY <1>1, <1>3, <1>4

(* A step that leaves the template cache alone leaves its templates true.  *)
LEMMA StemFrame ==
  ASSUME IInv, UNCHANGED buckets
  PROVE  TemplatesStem'
BY DEF IInv, TemplatesStem

LEMMA BeginStep ==
  ASSUME IInv, NEW t \in Threads, Begin(t)
  PROVE  IInv'
<1>1. PICK r \in Calls :
        /\ request' = [request EXCEPT ![t] = r]
        /\ pc' = [pc EXCEPT ![t] = IF KeyOf(r) = NoKey THEN "search" ELSE "get"]
  BY DEF Begin, Goto
<1>2. r \in Request /\ Nothing \in Answer
  BY WordSearchAssumption, FailedType DEF Nothing, Status
<1>3. ThreadsTypeOK'
  BY <1>1, <1>2 DEF Begin, IInv, TypeOK, ThreadsTypeOK
<1>4. CachesTypeOK'
  BY DEF Begin, cacheVars, IInv, TypeOK, CachesTypeOK
<1>5. /\ \A u \in Threads \ {t} : /\ pc'[u] = pc[u] /\ answer'[u] = answer[u]
                                 /\ request'[u] = request[u]
      /\ request'[t] = r /\ answer'[t] = Nothing
      /\ pc'[t] = (IF KeyOf(r) = NoKey THEN "search" ELSE "get")
      /\ seen' = seen /\ local' = local /\ groups' = groups
      /\ seen[t] = <<>> /\ local[t] = <<>>
  BY <1>1 DEF Begin, IInv, TypeOK, ThreadsTypeOK, CallsInv
<1>6. CallsInv'
  BY <1>5 DEF IInv, CallsInv, KeyOf, SearchOf
<1>7. SuppliedInv'
  <2>1. Supplied(request'[t], seen'[t])
    <3>1. SearchOf(r).visits \in Seq(Visit)
      BY <1>2, SearchType DEF Search
    <3> QED  BY <1>5, <3>1 DEF Supplied
  <2>2. ASSUME NEW u \in Threads \ {t}, pc'[u] # "idle" PROVE Supplied(request'[u], seen'[u])
    BY <1>5, <2>2 DEF IInv, SuppliedInv
  <2> QED  BY <1>5, <2>1, <2>2 DEF IInv, SuppliedInv
<1>8. TemplatesStem'
  BY StemFrame DEF Begin, cacheVars
<1> QED  BY <1>3, <1>4, <1>6, <1>7, <1>8 DEF IInv, TypeOK

(* A step that answers a call and stores nothing.                          *)
LEMMA AnswerStep ==
  ASSUME IInv, NEW t \in Threads, NEW a \in Answer, a # Nothing,
         Finish(t, a), UNCHANGED <<request, groups, cacheVars, checks>>, poisoned' \in BOOLEAN
  PROVE  IInv'
<1>1. CachesTypeOK'
  BY DEF cacheVars, IInv, TypeOK, CachesTypeOK
<1> QED  BY <1>1, FinishStep, StemFrame DEF cacheVars, IInv, TypeOK

(* The group a thread is to visit next.                                    *)
LEMMA VisitType ==
  ASSUME IInv, NEW t \in Threads, pc[t] # "idle",
         Len(seen[t]) < Len(SearchOf(request[t]).visits)
  PROVE  /\ Len(seen[t]) \in Nat
         /\ VisitOf(t) \in Visit
         /\ LocalOf(t) \in Seq(Cached)
         /\ \A i \in DOMAIN LocalOf(t) : /\ LocalOf(t)[i].group \notin BadGroups
                                        /\ LocalOf(t)[i].data = Decode[LocalOf(t)[i].group]
<1>1. SearchOf(request[t]).visits \in Seq(Visit)
  BY RunningCall, SearchType DEF Search
<1>2. seen[t] \in Seq(Payload) /\ local[t] \in Seq(Cached)
  BY DEF IInv, TypeOK, ThreadsTypeOK
<1>3. Len(seen[t]) + 1 \in 1 .. Len(SearchOf(request[t]).visits)
  BY <1>1, <1>2
<1>4. VisitOf(t) \in Visit
  BY <1>1, <1>3, ElementOfSeq DEF VisitOf
<1>5. CASE VisitOf(t).fresh
  BY <1>2, <1>4, <1>5 DEF LocalOf
<1>6. CASE ~VisitOf(t).fresh
  BY <1>2, <1>4, <1>6 DEF LocalOf, IInv, SuppliedInv
<1> QED  BY <1>2, <1>4, <1>5, <1>6

(* Every step that supplies the interpretations of the next group.         *)
LEMMA SupplyStep ==
  ASSUME IInv, NEW t \in Threads, pc[t] # "idle",
         Len(seen[t]) < Len(SearchOf(request[t]).visits),
         VisitOf(t).group \notin BadGroups,
         Supply(t, Decode[VisitOf(t).group]),
         NEW kept \in Seq(Cached), local' = [local EXCEPT ![t] = kept],
         \A i \in DOMAIN kept : /\ kept[i].group \notin BadGroups
                               /\ kept[i].data = Decode[kept[i].group],
         pc' = [pc EXCEPT ![t] = "search"],
         DOMAIN groups' \subseteq Groups,
         \A g \in DOMAIN groups' : g \notin BadGroups /\ groups'[g] = Decode[g],
         UNCHANGED <<request, answer, cacheVars, poisoned, checks>>
  PROVE  IInv'
<1> DEFINE r == request[t]
           data == Decode[VisitOf(t).group]
<1>1. /\ r \in Request /\ SearchOf(r).visits \in Seq(Visit)
      /\ VisitOf(t) \in Visit /\ data \in Payload
      /\ seen[t] \in Seq(Payload) /\ Len(seen[t]) \in Nat
  BY RunningCall, SearchType, VisitType DEF Search, Visit, Payload, IInv, TypeOK, ThreadsTypeOK
<1>2. /\ Append(seen[t], data) \in Seq(Payload)
      /\ Len(Append(seen[t], data)) = Len(seen[t]) + 1
      /\ Append(seen[t], data)[Len(seen[t]) + 1] = data
      /\ \A j \in 1 .. Len(seen[t]) : Append(seen[t], data)[j] = seen[t][j]
  BY <1>1
<1>3. /\ \A u \in Threads \ {t} : /\ pc'[u] = pc[u] /\ local'[u] = local[u]
                                 /\ seen'[u] = seen[u]
      /\ pc'[t] = "search" /\ local'[t] = kept
      /\ seen'[t] = Append(seen[t], data)
      /\ request' = request /\ answer' = answer
  BY DEF Supply, IInv, TypeOK, ThreadsTypeOK
<1>4. ThreadsTypeOK'
  <2>1. local' \in [Threads -> Seq(Cached)]
    BY DEF IInv, TypeOK, ThreadsTypeOK
  <2>2. seen' \in [Threads -> Seq(Payload)]
    BY <1>2 DEF Supply, IInv, TypeOK, ThreadsTypeOK
  <2>3. pc' \in [Threads -> {"idle", "get", "search", "decode"}]
    BY DEF IInv, TypeOK, ThreadsTypeOK
  <2> QED  BY <2>1, <2>2, <2>3 DEF IInv, TypeOK, ThreadsTypeOK
<1>5. CachesTypeOK'
  BY DEF cacheVars, IInv, TypeOK, CachesTypeOK
<1>6. CallsInv'
  BY <1>3 DEF IInv, CallsInv
<1>7. SuppliedInv'
  <2>1. Supplied(r, Append(seen[t], data))
    <3>1. Supplied(r, seen[t])
      BY DEF IInv, SuppliedInv
    <3>2. Len(Append(seen[t], data)) <= Len(SearchOf(r).visits)
      BY <1>1, <1>2
    <3>3. ASSUME NEW j \in 1 .. Len(Append(seen[t], data))
          PROVE  /\ SearchOf(r).visits[j].group \notin BadGroups
                 /\ Append(seen[t], data)[j] = Decode[SearchOf(r).visits[j].group]
      <4>1. CASE j = Len(seen[t]) + 1
        BY <1>2, <4>1 DEF VisitOf
      <4>2. CASE j # Len(seen[t]) + 1
        BY <1>1, <1>2, <3>1, <4>2 DEF Supplied
      <4> QED  BY <4>1, <4>2
    <3> QED  BY <3>2, <3>3 DEF Supplied
  <2>2. ASSUME NEW u \in Threads, pc'[u] # "idle" PROVE Supplied(request'[u], seen'[u])
    BY <1>3, <2>1, <2>2 DEF IInv, SuppliedInv
  <2>3. ASSUME NEW u \in Threads, NEW i \in DOMAIN local'[u]
        PROVE  /\ local'[u][i].group \notin BadGroups
               /\ local'[u][i].data = Decode[local'[u][i].group]
    BY <1>3, <2>3 DEF IInv, SuppliedInv
  <2> QED  BY <2>2, <2>3 DEF SuppliedInv
<1>8. TemplatesStem'
  BY StemFrame DEF cacheVars
<1> QED  BY <1>4, <1>5, <1>6, <1>7, <1>8 DEF IInv, TypeOK

(* Keeping a group a thread got in its local list leaves the list true.    *)
LEMMA KeepLocal ==
  ASSUME IInv, NEW t \in Threads, pc[t] # "idle",
         Len(seen[t]) < Len(SearchOf(request[t]).visits),
         VisitOf(t).group \notin BadGroups
  PROVE  LET kept == Append(LocalOf(t), [ group |-> VisitOf(t).group,
                                          data |-> Decode[VisitOf(t).group] ]) IN
         /\ kept \in Seq(Cached)
         /\ \A i \in DOMAIN kept : /\ kept[i].group \notin BadGroups
                                  /\ kept[i].data = Decode[kept[i].group]
<1> DEFINE c == [group |-> VisitOf(t).group, data |-> Decode[VisitOf(t).group]]
<1>1. VisitOf(t).group \in Groups /\ LocalOf(t) \in Seq(Cached)
  BY VisitType DEF Visit
<1>2. c \in Cached
  BY <1>1 DEF Cached, Payload
<1>3. c.group \notin BadGroups /\ c.data = Decode[c.group]
  OBVIOUS
<1> HIDE DEF c
<1>4. /\ Append(LocalOf(t), c) \in Seq(Cached)
      /\ DOMAIN Append(LocalOf(t), c) = 1 .. Len(LocalOf(t)) + 1
      /\ Append(LocalOf(t), c)[Len(LocalOf(t)) + 1] = c
      /\ \A i \in 1 .. Len(LocalOf(t)) : Append(LocalOf(t), c)[i] = LocalOf(t)[i]
  BY <1>1, <1>2
<1>5. ASSUME NEW i \in DOMAIN Append(LocalOf(t), c)
      PROVE  /\ Append(LocalOf(t), c)[i].group \notin BadGroups
             /\ Append(LocalOf(t), c)[i].data = Decode[Append(LocalOf(t), c)[i].group]
  <2>1. CASE i = Len(LocalOf(t)) + 1
    BY <1>3, <1>4, <2>1
  <2>2. CASE i # Len(LocalOf(t)) + 1
    <3>1. i \in 1 .. Len(LocalOf(t)) /\ DOMAIN LocalOf(t) = 1 .. Len(LocalOf(t))
      BY <1>1, <1>4, <2>2
    <3> QED  BY <1>4, <3>1, VisitType
  <2> QED  BY <2>1, <2>2
<1> QED  BY <1>4, <1>5 DEF c

LEMMA VisitLocalStep ==
  ASSUME IInv, NEW t \in Threads, VisitLocal(t)
  PROVE  IInv'
<1>1. pc[t] = "search" /\ Len(seen[t]) < Len(SearchOf(request[t]).visits)
  BY DEF VisitLocal, Searching
<1>2. PICK i \in DOMAIN LocalOf(t) :
        LocalOf(t)[i].group = VisitOf(t).group /\ Supply(t, LocalOf(t)[i].data)
  BY DEF VisitLocal, Known
<1>3. VisitOf(t).group \notin BadGroups /\ LocalOf(t)[i].data = Decode[VisitOf(t).group]
  BY <1>1, <1>2, VisitType
<1>4. pc' = [pc EXCEPT ![t] = "search"]
  BY <1>1 DEF VisitLocal, IInv, TypeOK, ThreadsTypeOK
<1>5. \A g \in DOMAIN groups' : g \notin BadGroups /\ groups'[g] = Decode[g]
  BY DEF VisitLocal, IInv, SuppliedInv
<1> QED  BY <1>1, <1>2, <1>3, <1>4, <1>5, SupplyStep, VisitType
         DEF VisitLocal, IInv, TypeOK, CachesTypeOK

LEMMA VisitSharedStep ==
  ASSUME IInv, NEW t \in Threads, VisitShared(t)
  PROVE  IInv'
<1> DEFINE g == VisitOf(t).group
<1>1. pc[t] = "search" /\ Len(seen[t]) < Len(SearchOf(request[t]).visits)
  BY DEF VisitShared, Searching
<1>2. g \notin BadGroups /\ groups[g] = Decode[g]
  BY DEF VisitShared, IInv, SuppliedInv
<1>3. /\ local' = [local EXCEPT ![t] =
                     Append(LocalOf(t), [group |-> g, data |-> Decode[g]])]
      /\ Supply(t, Decode[g])
  BY <1>2 DEF VisitShared, Keep
<1>4. pc' = [pc EXCEPT ![t] = "search"]
  BY <1>1 DEF VisitShared, IInv, TypeOK, ThreadsTypeOK
<1>5. /\ DOMAIN groups' \subseteq Groups
      /\ \A d \in DOMAIN groups' : d \notin BadGroups /\ groups'[d] = Decode[d]
  BY DEF VisitShared, IInv, SuppliedInv, TypeOK, CachesTypeOK
<1> QED  BY <1>1, <1>2, <1>3, <1>4, <1>5, SupplyStep, KeepLocal DEF VisitShared

LEMMA VisitMissStep ==
  ASSUME IInv, NEW t \in Threads, VisitMiss(t)
  PROVE  IInv'
<1>1. /\ \A u \in Threads \ {t} : pc'[u] = pc[u]
      /\ pc[t] = "search" /\ pc'[t] = "decode"
      /\ Len(seen[t]) < Len(SearchOf(request[t]).visits)
  BY DEF VisitMiss, Searching, Goto, IInv, TypeOK, ThreadsTypeOK
<1>2. ThreadsTypeOK' /\ CachesTypeOK'
  BY DEF VisitMiss, Goto, cacheVars, IInv, TypeOK, ThreadsTypeOK, CachesTypeOK
<1>3. CallsInv'
  BY <1>1 DEF VisitMiss, IInv, CallsInv
<1>4. SuppliedInv'
  BY <1>1 DEF VisitMiss, IInv, SuppliedInv
<1>5. TemplatesStem'
  BY StemFrame DEF VisitMiss, cacheVars
<1> QED  BY <1>2, <1>3, <1>4, <1>5 DEF IInv, TypeOK

LEMMA DecodeAndStoreStep ==
  ASSUME IInv, NEW t \in Threads, DecodeAndStore(t)
  PROVE  IInv'
<1> DEFINE g == VisitOf(t).group
<1>1. pc[t] = "decode" /\ Len(seen[t]) < Len(SearchOf(request[t]).visits)
  BY DEF DecodeAndStore, IInv, CallsInv
<1>2. g \in Groups /\ g \notin BadGroups
  BY <1>1, VisitType DEF DecodeAndStore, Visit
<1>3. /\ DOMAIN groups' = Room(g) \cup {g}
      /\ \A d \in DOMAIN groups' :
           groups'[d] = IF d \in Room(g) THEN groups[d] ELSE Decode[g]
  BY DEF DecodeAndStore, Stored
<1>4. Room(g) \subseteq DOMAIN groups
  BY DEF Room
<1>5. /\ DOMAIN groups' \subseteq Groups
      /\ \A d \in DOMAIN groups' : d \notin BadGroups /\ groups'[d] = Decode[d]
  BY <1>2, <1>3, <1>4 DEF IInv, SuppliedInv, TypeOK, CachesTypeOK
<1>6. groups'[g] = Decode[g]
  BY <1>3, <1>5
<1>7. /\ local' = [local EXCEPT ![t] =
                     Append(LocalOf(t), [group |-> g, data |-> Decode[g]])]
      /\ Supply(t, Decode[g])
      /\ pc' = [pc EXCEPT ![t] = "search"]
  BY <1>6 DEF DecodeAndStore, Keep, Goto
<1> QED  BY <1>1, <1>2, <1>5, <1>7, SupplyStep, KeepLocal DEF DecodeAndStore

LEMMA StemmingTemplatesTrue ==
  ASSUME IInv
  PROVE  TemplatesTrue
<1> SUFFICES ASSUME NEW h \in Hashes, NEW i \in DOMAIN buckets[h], NEW r \in Request,
                    Matches(buckets[h][i], r)
             PROVE  /\ HashOf(r) = h
                    /\ Instantiate(buckets[h][i], r) = Analysis(r)
                    /\ InstantiateOverflows(buckets[h][i], r) <=> Overflows(r)
                    /\ ~Malformed(r)
  BY DEF TemplatesTrue
<1>1. PICK r0 \in Request : /\ Storable(r0) /\ h = HashOf(r0)
                            /\ buckets[h][i] = TemplateOf(r0, Analysis(r0))
  BY DEF IInv, TemplatesStem
<1> QED  BY <1>1, TemplateAnswers

(* A hit: what the cache answers is what the dictionary would.             *)
LEMMA HitAnswer ==
  ASSUME IInv, NEW t \in Threads, pc[t] = "get", NEW e \in FirstMatches(request[t])
  PROVE  /\ Instantiate(e, request[t]) = Analysis(request[t])
         /\ InstantiateOverflows(e, request[t]) <=> Overflows(request[t])
         /\ ~Malformed(request[t])
<1> DEFINE r == request[t]
<1>1. r \in Request /\ HashOf(r) \in Hashes
  BY RunningCall DEF Request, HashOf, Hashes
<1>2. PICK i \in Matching(r) : e = BucketOf(r)[i]
  BY DEF FirstMatches
<1>3. i \in DOMAIN buckets[HashOf(r)] /\ Matches(e, r) /\ e = buckets[HashOf(r)][i]
  BY <1>2 DEF Matching, BucketOf
<1> QED  BY <1>1, <1>3, StemmingTemplatesTrue DEF TemplatesTrue

LEMMA GetHitStep ==
  ASSUME IInv, NEW t \in Threads, GetHit(t)
  PROVE  IInv'
<1> DEFINE r == request[t]
<1>1. PICK e \in FirstMatches(r) :
        /\ poisoned' = (checks /\ InstantiateOverflows(e, r))
        /\ Finish(t, IF poisoned' THEN Failed("panic") ELSE Instantiate(e, r))
  BY DEF GetHit
<1>2. pc[t] = "get" /\ r \in Request /\ Instantiate(e, r) = Analysis(r)
  BY HitAnswer, RunningCall DEF GetHit
<1> DEFINE a == IF poisoned' THEN Failed("panic") ELSE Analysis(r)
<1>3. a \in Answer /\ a # Nothing
  BY <1>2, AnalysisType, FailedType DEF Status, Failed, Nothing, Analysis
<1>4. poisoned' \in BOOLEAN
  BY <1>1 DEF IInv, TypeOK, CachesTypeOK
<1> QED  BY <1>1, <1>2, <1>3, <1>4, AnswerStep DEF GetHit

(* Refusals and failures.                                                  *)
LEMMA FailureStep ==
  ASSUME IInv, NEW t \in Threads,
         GetPoisoned(t) \/ DecodeFails(t) \/ Panic(t) \/ InsertPoisoned(t)
  PROVE  IInv'
<1>1. PICK status \in {"poisoned", "malformed", "panic"} :
        /\ Finish(t, Failed(status))
        /\ UNCHANGED <<request, cacheVars, groups, poisoned, checks>>
  BY DEF GetPoisoned, DecodeFails, Panic, InsertPoisoned
<1>2. Failed(status) \in Answer /\ Failed(status) # Nothing
  BY FailedType DEF Status, Failed, Nothing
<1>3. poisoned' \in BOOLEAN
  BY <1>1 DEF IInv, TypeOK, CachesTypeOK
<1> QED  BY <1>1, <1>2, <1>3, AnswerStep

LEMMA ResultType ==
  ASSUME IInv, NEW t \in Threads, Searched(t)
  PROVE  /\ ResultOf(t) \in Answer
         /\ ResultOf(t) # Nothing
BY ResultIsAnalysis, RunningCall, AnalysisType DEF Searched, Analysis, Nothing, Failed

LEMMA ReturnUncachedStep ==
  ASSUME IInv, NEW t \in Threads, ReturnUncached(t)
  PROVE  IInv'
BY ResultType, AnswerStep DEF ReturnUncached, IInv, TypeOK, CachesTypeOK

LEMMA InsertStep ==
  ASSUME IInv, NEW t \in Threads, Insert(t)
  PROVE  IInv'
<1> DEFINE r == request[t]
           a == ResultOf(t)
           h == HashOf(r)
           stores == Eligible(r, a) /\ SeenAgain(h) /\ Admissible(r, a)
<1>1. Searched(t) /\ KeyOf(r) # NoKey
  BY DEF Insert, Insertable
<1>2. /\ r \in Request /\ h \in Hashes
      /\ a = Analysis(r) /\ ~Malformed(r)
  BY <1>1, RunningCall, ResultIsAnalysis DEF Searched, Request, HashOf, Hashes
<1>3. /\ Finish(t, a) /\ UNCHANGED <<request, groups, poisoned, checks>>
      /\ seen_once' = IF Eligible(r, a) THEN [seen_once EXCEPT ![SlotOf(h)] = h]
                      ELSE seen_once
      /\ IF stores
         THEN buckets' = WithEntry(h, TemplateOf(r, a)) /\ entries' = entries + 1
         ELSE UNCHANGED <<buckets, entries>>
  BY DEF Insert
<1>4. ThreadsTypeOK' /\ CallsInv' /\ SuppliedInv'
  BY <1>1, <1>3, FinishStep, ResultType
<1>5. stores => Storable(r)
  BY <1>1, <1>2 DEF Storable, Admissible
<1>6. ASSUME stores
      PROVE  /\ buckets' \in [Hashes -> Seq(Template)] /\ entries' \in Nat
             /\ TemplatesStem'
  <2> DEFINE e == TemplateOf(r, a)
  <2>1. e \in Template
    BY <1>2, <1>5, <1>6, TemplateFields
  <2>2. buckets' = [buckets EXCEPT ![h] = Append(@, e)] /\ entries' = entries + 1
    BY <1>3, <1>6 DEF WithEntry
  <2> HIDE DEF e, stores
  <2>3. /\ buckets[h] \in Seq(Template) /\ Append(buckets[h], e) \in Seq(Template)
        /\ DOMAIN Append(buckets[h], e) = 1 .. Len(buckets[h]) + 1
        /\ Append(buckets[h], e)[Len(buckets[h]) + 1] = e
        /\ \A i \in 1 .. Len(buckets[h]) : Append(buckets[h], e)[i] = buckets[h][i]
        /\ DOMAIN buckets[h] = 1 .. Len(buckets[h]) /\ Len(buckets[h]) \in Nat
    BY <1>2, <2>1 DEF IInv, TypeOK, CachesTypeOK
  <2>4. buckets' \in [Hashes -> Seq(Template)] /\ entries' \in Nat
    BY <1>2, <2>2, <2>3 DEF IInv, TypeOK, CachesTypeOK
  <2>5. TemplatesStem'
    <3> SUFFICES ASSUME NEW g \in Hashes, NEW i \in DOMAIN buckets'[g]
                 PROVE  \E q \in Request : /\ Storable(q) /\ g = HashOf(q)
                                           /\ buckets'[g][i] = TemplateOf(q, Analysis(q))
      BY DEF TemplatesStem
    <3>1. CASE g # h \/ i # Len(buckets[h]) + 1
      <4>1. i \in DOMAIN buckets[g] /\ buckets'[g][i] = buckets[g][i]
        BY <1>2, <2>2, <2>3, <3>1 DEF IInv, TypeOK, CachesTypeOK
      <4> QED  BY <4>1 DEF IInv, TemplatesStem
    <3>2. CASE g = h /\ i = Len(buckets[h]) + 1
      <4>1. buckets'[g][i] = TemplateOf(r, Analysis(r))
        BY <1>2, <2>2, <2>3, <3>2 DEF e, IInv, TypeOK, CachesTypeOK
      <4> QED  BY <1>2, <1>5, <1>6, <3>2, <4>1
    <3> QED  BY <3>1, <3>2
  <2> QED  BY <2>4, <2>5
<1>7. ASSUME ~stores
      PROVE  /\ buckets' \in [Hashes -> Seq(Template)] /\ entries' \in Nat
             /\ TemplatesStem'
  <2>1. UNCHANGED <<buckets, entries>>
    BY <1>3, <1>7
  <2> QED  BY <2>1, StemFrame DEF IInv, TypeOK, CachesTypeOK
<1>8. CachesTypeOK'
  <2>1. seen_once' \in [0 .. Slots - 1 -> Hashes \cup {0}]
    BY <1>2, <1>3 DEF IInv, TypeOK, CachesTypeOK
  <2>2. buckets' \in [Hashes -> Seq(Template)] /\ entries' \in Nat
    <3> HIDE DEF stores
    <3> QED  BY <1>6, <1>7
  <2> QED  BY <1>3, <2>1, <2>2 DEF IInv, TypeOK, CachesTypeOK
<1>9. TemplatesStem'
  <2> HIDE DEF stores
  <2> QED  BY <1>6, <1>7
<1> QED  BY <1>4, <1>8, <1>9 DEF IInv, TypeOK

LEMMA NextInv == IInv /\ [Next]_vars => IInv'
<1> SUFFICES ASSUME IInv, [Next]_vars PROVE IInv'
  OBVIOUS
<1>1. ASSUME NEW t \in Threads, Begin(t) PROVE IInv'
  BY <1>1, BeginStep
<1>2. ASSUME NEW t \in Threads, Step(t) PROVE IInv'
  <2>1. CASE GetPoisoned(t) \/ DecodeFails(t) \/ Panic(t) \/ InsertPoisoned(t)
    BY <2>1, FailureStep
  <2>2. CASE GetMiss(t)
    <3>1. /\ \A u \in Threads \ {t} : pc'[u] = pc[u]
          /\ pc[t] = "get" /\ pc'[t] = "search"
      BY <2>2 DEF GetMiss, Goto, IInv, TypeOK, ThreadsTypeOK
    <3>2. ThreadsTypeOK' /\ CachesTypeOK'
      BY <2>2 DEF GetMiss, Goto, cacheVars, IInv, TypeOK, ThreadsTypeOK, CachesTypeOK
    <3>3. CallsInv' /\ SuppliedInv'
      BY <2>2, <3>1 DEF GetMiss, IInv, CallsInv, SuppliedInv
    <3> QED  BY <2>2, <3>2, <3>3, StemFrame DEF GetMiss, cacheVars, IInv, TypeOK
  <2>3. CASE GetHit(t)
    BY <2>3, GetHitStep
  <2>4. CASE VisitLocal(t)
    BY <2>4, VisitLocalStep
  <2>5. CASE VisitShared(t)
    BY <2>5, VisitSharedStep
  <2>6. CASE VisitMiss(t)
    BY <2>6, VisitMissStep
  <2>7. CASE DecodeAndStore(t)
    BY <2>7, DecodeAndStoreStep
  <2>8. CASE ReturnUncached(t)
    BY <2>8, ReturnUncachedStep
  <2>9. CASE Insert(t)
    BY <2>9, InsertStep
  <2> QED
    BY <1>2, <2>1, <2>2, <2>3, <2>4, <2>5, <2>6, <2>7, <2>8, <2>9 DEF Step
<1>3. CASE UNCHANGED vars
  <2>1. ThreadsTypeOK' /\ CachesTypeOK'
    BY <1>3 DEF vars, threadVars, cacheVars, IInv, TypeOK, ThreadsTypeOK, CachesTypeOK
  <2>2. CallsInv' /\ SuppliedInv'
    BY <1>3 DEF vars, threadVars, IInv, CallsInv, SuppliedInv
  <2> QED  BY <1>3, <2>1, <2>2, StemFrame DEF vars, cacheVars, IInv, TypeOK
<1> QED  BY <1>1, <1>2, <1>3 DEF Next

LEMMA Invariance == Spec => []IInv
BY InitInv, NextInv, PTL DEF Spec

-----------------------------------------------------------------------------
(* Results                                                                 *)

(* Every variable keeps its type: process_one_word's answers carry i32     *)
(* node numbers and templates what WordAnalysisTemplate::from_result makes.*)
THEOREM TypeCorrect == Spec => []TypeOK
<1>1. IInv => TypeOK
  BY DEF IInv
<1> QED  BY <1>1, Invariance, PTL

(* WordTemplateCache never holds a template that would answer some call    *)
(* other than the dictionary does, or panic where it would not.            *)
THEOREM CoherentTemplates == Spec => []TemplatesTrue
BY StemmingTemplatesTrue, Invariance, PTL

-----------------------------------------------------------------------------
(* The limits of the caches                                                *)

AllStores == UNION { Stores(h) : h \in Hashes }

CountInv  == IsFiniteSet(AllStores) /\ EntriesCounted
GroupsInv == IsFiniteSet(DOMAIN groups) /\ Cardinality(DOMAIN groups) <= MaxGroups

LEMMA OnlyInsertStores ==
  [Next]_vars => UNCHANGED cacheVars \/ \E t \in Threads : Insert(t)
BY DEF Next, vars, Begin, Step, GetPoisoned, GetMiss, GetHit, VisitLocal, VisitShared, VisitMiss,
   DecodeFails, DecodeAndStore, Panic, ReturnUncached, InsertPoisoned

LEMMA OnlyDecodeAndStoreStores ==
  [Next]_vars => UNCHANGED groups \/ \E t \in Threads : DecodeAndStore(t)
BY DEF Next, vars, Begin, Step, GetPoisoned, GetMiss, GetHit, VisitLocal, VisitShared, VisitMiss,
   DecodeFails, Panic, ReturnUncached, InsertPoisoned, Insert

LEMMA InitLimits == Init => CountInv /\ GroupsInv
<1> SUFFICES ASSUME Init PROVE CountInv /\ GroupsInv
  OBVIOUS
<1>1. \A h \in Hashes : DOMAIN buckets[h] = {}
  BY DEF Init
<1>2. AllStores = {}
  BY <1>1 DEF AllStores, Stores
<1>3. DOMAIN groups = {}
  BY DEF Init
<1>4. IsFiniteSet({}) /\ Cardinality({}) = 0
  BY FS_EmptySet
<1>5. EntriesCounted
  <2>1. entries = 0 /\ entries <= MaxWords
    BY WordTemplateCacheAssumption DEF Init
  <2>2. Cardinality(AllStores) = 0
    BY <1>2, <1>4
  <2> QED  BY <1>1, <2>1, <2>2 DEF EntriesCounted, AllStores
<1> QED  BY <1>2, <1>3, <1>4, <1>5, WordTemplateCacheAssumption DEF CountInv, GroupsInv

(* An entry is stored at the end of its bucket, in which nothing matches:  *)
(* the thread looks again under the lock before it stores.                 *)
LEMMA CountStep == IInv /\ CountInv /\ [Next]_vars => CountInv'
<1> SUFFICES ASSUME IInv, CountInv, [Next]_vars PROVE CountInv'
  OBVIOUS
<1>1. CASE UNCHANGED <<buckets, entries>>
  BY <1>1 DEF CountInv, EntriesCounted, AllStores, Stores
<1>2. ASSUME NEW t \in Threads, Insert(t), ~UNCHANGED <<buckets, entries>>
      PROVE  CountInv'
  <2> DEFINE r == request[t]
             h == HashOf(r)
             e == TemplateOf(r, ResultOf(t))
             n == Len(buckets[h])
  <2>1. /\ buckets' = [buckets EXCEPT ![h] = Append(@, e)] /\ entries' = entries + 1
        /\ entries < MaxWords /\ Matching(r) = {}
    BY <1>2 DEF Insert, WithEntry, Admissible
  <2>2. h \in Hashes /\ buckets[h] \in Seq(Template)
    BY <1>2, RunningCall DEF Insert, Insertable, Searched, Request, HashOf, Hashes, IInv, TypeOK, CachesTypeOK
  <2>3. e.config_key = KeyOf(r) /\ e.word = r.word
    BY DEF TemplateOf, KeyOf
  <2> HIDE DEF e, h, r
  <2>4. /\ n \in Nat /\ DOMAIN buckets[h] = 1 .. n /\ DOMAIN buckets'[h] = 1 .. n + 1
        /\ buckets'[h][n + 1] = e /\ \A i \in 1 .. n : buckets'[h][i] = buckets[h][i]
        /\ \A g \in Hashes \ {h} : buckets'[g] = buckets[g]
    BY <2>1, <2>2 DEF IInv, TypeOK, CachesTypeOK
  <2>5. \A i \in 1 .. n : ~ (buckets[h][i].config_key = e.config_key /\ buckets[h][i].word = e.word)
    BY <2>1, <2>3, <2>4 DEF Matching, Matches, BucketOf, h
  <2>6. AllStores' = AllStores \cup {<<h, n + 1>>} /\ <<h, n + 1>> \notin AllStores
    <3> PICK k \in Hashes : k = h
      BY <2>2
    <3>1. Stores(k)' = Stores(k) \cup {<<k, n + 1>>}
      <4>1. DOMAIN buckets'[k] = DOMAIN buckets[k] \cup {n + 1}
        BY <2>4
      <4> HIDE DEF n
      <4> QED  BY <4>1 DEF Stores
    <3>2. \A g \in Hashes \ {k} : Stores(g)' = Stores(g)
      BY <2>4 DEF Stores
    <3>3. <<k, n + 1>> \notin AllStores
      BY <2>4 DEF AllStores, Stores
    <3>4. AllStores' = AllStores \cup {<<k, n + 1>>}
      <4> HIDE DEF n
      <4>1. ASSUME NEW x PROVE x \in AllStores' <=> \E g \in Hashes : x \in Stores(g)'
        BY DEF AllStores
      <4>2. ASSUME NEW x PROVE x \in AllStores <=> \E g \in Hashes : x \in Stores(g)
        BY DEF AllStores
      <4>3. ASSUME NEW x
            PROVE  (\E g \in Hashes : x \in Stores(g)') <=>
                     (\E g \in Hashes : x \in Stores(g)) \/ x = <<k, n + 1>>
        BY <3>1, <3>2
      <4>4. ASSUME NEW x PROVE x \in AllStores' <=> x \in AllStores \cup {<<k, n + 1>>}
        BY <4>1, <4>2, <4>3
      <4> QED  BY <4>4
    <3> QED  BY <3>3, <3>4
  <2>7. IsFiniteSet(AllStores') /\ Cardinality(AllStores') = Cardinality(AllStores) + 1
    BY <2>6, FS_AddElement DEF CountInv
  <2>8. entries' = Cardinality(AllStores') /\ entries' <= MaxWords
    BY <2>1, <2>7, WordTemplateCacheAssumption DEF CountInv, EntriesCounted, AllStores, IInv, TypeOK,
       CachesTypeOK
  <2>9. ASSUME NEW g \in Hashes, NEW i \in DOMAIN buckets'[g], NEW j \in DOMAIN buckets'[g],
               buckets'[g][i].word = buckets'[g][j].word,
               buckets'[g][i].config_key = buckets'[g][j].config_key
        PROVE  i = j
    <3>1. CASE g # h
      BY <2>4, <2>9, <3>1 DEF CountInv, EntriesCounted
    <3>2. CASE g = h
      <4>1. ~ (i = n + 1 /\ j \in 1 .. n) /\ ~ (j = n + 1 /\ i \in 1 .. n)
        BY <2>4, <2>5, <2>9, <3>2
      <4>2. i \in 1 .. n /\ j \in 1 .. n => i = j
        BY <2>2, <2>4, <2>9, <3>2 DEF CountInv, EntriesCounted
      <4> QED  BY <2>4, <3>2, <4>1, <4>2
    <3> QED  BY <3>1, <3>2
  <2> QED  BY <2>7, <2>8, <2>9 DEF CountInv, EntriesCounted, AllStores
<1> QED  BY <1>1, <1>2, OnlyInsertStores DEF cacheVars

LEMMA GroupsStep == GroupsInv /\ [Next]_vars => GroupsInv'
<1> SUFFICES ASSUME GroupsInv, [Next]_vars PROVE GroupsInv'
  OBVIOUS
<1>1. CASE UNCHANGED groups
  BY <1>1 DEF GroupsInv
<1>2. ASSUME NEW t \in Threads, DecodeAndStore(t) PROVE GroupsInv'
  <2> DEFINE g == VisitOf(t).group
  <2>1. DOMAIN groups' = Room(g) \cup {g}
    BY <1>2 DEF DecodeAndStore, Stored
  <2>2. CASE Cardinality(DOMAIN groups) >= MaxGroups /\ g \notin DOMAIN groups
    <3>1. DOMAIN groups' = {g}
      BY <2>1, <2>2 DEF Room
    <3>2. IsFiniteSet({g}) /\ Cardinality({g}) = 1
      BY FS_Singleton
    <3> QED  BY <3>1, <3>2, WordTemplateCacheAssumption DEF GroupsInv
  <2>3. CASE g \in DOMAIN groups
    <3>1. DOMAIN groups' = DOMAIN groups
      BY <2>1, <2>3 DEF Room
    <3> QED  BY <3>1 DEF GroupsInv
  <2>4. CASE g \notin DOMAIN groups /\ ~ (Cardinality(DOMAIN groups) >= MaxGroups)
    <3>1. DOMAIN groups' = DOMAIN groups \cup {g}
      BY <2>1, <2>4 DEF Room
    <3> DEFINE known == DOMAIN groups
    <3>2. IsFiniteSet(known) /\ Cardinality(known) \in Nat
      BY FS_CardinalityType DEF GroupsInv
    <3> HIDE DEF known
    <3>3. IsFiniteSet(known \cup {g}) /\ Cardinality(known \cup {g}) <= Cardinality(known) + 1
      BY <3>2, FS_AddElement
    <3>4. Cardinality(known) + 1 <= MaxGroups
      BY <2>4, <3>2, WordTemplateCacheAssumption DEF known
    <3>5. Cardinality(known \cup {g}) \in Nat
      BY <3>3, FS_CardinalityType
    <3>6. Cardinality(known \cup {g}) <= MaxGroups
      BY <3>2, <3>3, <3>4, <3>5, WordTemplateCacheAssumption
    <3> QED  BY <3>1, <3>3, <3>6 DEF GroupsInv, known
  <2> QED  BY <2>2, <2>3, <2>4
<1> QED  BY <1>1, <1>2, OnlyDecodeAndStoreStores

(* Both caches stay within their limits, no word is stored twice by        *)
(* threads that missed it together, and what they hold is what they are    *)
(* trusted for (insert_if_admitted, get_or_decode).                        *)
THEOREM CachesWithinLimits == Spec => []CachesTrue
<1>1. Spec => [](CountInv /\ GroupsInv)
  <2>1. IInv /\ CountInv /\ GroupsInv /\ [Next]_vars => (CountInv /\ GroupsInv)'
    BY CountStep, GroupsStep
  <2> QED  BY <2>1, InitLimits, Invariance, PTL DEF Spec
<1>2. IInv /\ CountInv /\ GroupsInv => CachesTrue
  BY DEF CountInv, GroupsInv, CachesTrue, DecodedTrue, IInv, SuppliedInv
<1> QED  BY <1>1, <1>2, Invariance, PTL

-----------------------------------------------------------------------------
(* The caches implement WordAnalysis                                       *)

(* The abstract specification's names for searches and answers are ours.   *)
LEMMA SameAnswers ==
  ASSUME NEW r, NEW c
  PROVE  /\ WA!Expected(r, c) = Expected(r, c)
         /\ WA!Overflows(r) <=> Overflows(r)
<1>1. /\ WA!Analysis(r) = Analysis(r)
      /\ WA!Malformed(r) <=> Malformed(r)
      /\ WA!Overflows(r) <=> Overflows(r)
      /\ \A s : WA!Failed(s) = Failed(s)
  BY DEF WA!Analysis, Analysis, WA!EdgeInterp, EdgeInterp, WA!EdgeData, EdgeData,
         WA!SearchOf, SearchOf, WA!WrapAdd, WrapAdd, WA!Malformed, Malformed,
         WA!Overflows, Overflows, WA!Failed, Failed
<1> QED  BY <1>1 DEF WA!Expected, Expected

LEMMA SameStates ==
  ASSUME NEW t
  PROVE  /\ WA!Nothing = Nothing
         /\ WA!Failed("poisoned") = Failed("poisoned")
         /\ WA!Running(t) <=> request[t] # NoRequest /\ answer[t] = Nothing
BY DEF WA!Nothing, Nothing, WA!Failed, Failed, WA!Running

(* A call that returns what Expected says is a Reply.                      *)
LEMMA ReplyStep ==
  ASSUME IInv, NEW t \in Threads, pc[t] # "idle",
         Finish(t, Expected(request[t], checks)),
         UNCHANGED <<request, checks>>,
         poisoned' = poisoned \/ (poisoned' = TRUE /\ checks /\ Overflows(request[t]))
  PROVE  WA!Reply(t)
<1>1. WA!Running(t)
  BY RunningCall, SameStates
<1>2. answer' = [answer EXCEPT ![t] = WA!Expected(request[t], checks)]
  BY SameAnswers DEF Finish
<1>3. poisoned' \in {poisoned, poisoned \/ (checks /\ WA!Overflows(request[t]))}
  BY SameAnswers DEF IInv, TypeOK, CachesTypeOK
<1> QED  BY <1>1, <1>2, <1>3 DEF WA!Reply

LEMMA HitReplies ==
  ASSUME IInv, NEW t \in Threads, GetHit(t)
  PROVE  WA!Reply(t)
<1> DEFINE r == request[t]
<1>1. PICK e \in FirstMatches(r) :
        /\ poisoned' = (checks /\ InstantiateOverflows(e, r))
        /\ Finish(t, IF poisoned' THEN Failed("panic") ELSE Instantiate(e, r))
  BY DEF GetHit
<1>2. /\ Instantiate(e, r) = Analysis(r)
      /\ InstantiateOverflows(e, r) <=> Overflows(r)
      /\ ~Malformed(r)
  BY HitAnswer DEF GetHit
<1>3. Finish(t, Expected(r, checks))
  BY <1>1, <1>2 DEF Expected
<1>4. poisoned' = poisoned \/ (poisoned' = TRUE /\ checks /\ Overflows(r))
  BY <1>1, <1>2 DEF GetHit, IInv, TypeOK, CachesTypeOK
<1> QED  BY <1>3, <1>4, ReplyStep DEF GetHit

LEMMA SearchReplies ==
  ASSUME IInv, NEW t \in Threads,
         DecodeFails(t) \/ Panic(t) \/ ReturnUncached(t) \/ Insert(t)
  PROVE  WA!Reply(t)
<1> DEFINE r == request[t]
<1>1. CASE DecodeFails(t)
  <2>1. Malformed(r)
    <3>1. /\ Len(seen[t]) < Len(SearchOf(r).visits) /\ Len(seen[t]) \in Nat
          /\ SearchOf(r).visits \in Seq(Visit)
      BY <1>1, VisitType, RunningCall, SearchType DEF DecodeFails, IInv, CallsInv, Search
    <3>2. Len(seen[t]) + 1 \in DOMAIN SearchOf(r).visits
      BY <3>1
    <3> QED  BY <1>1, <3>2 DEF DecodeFails, VisitOf, Malformed
  <2> QED  BY <1>1, <2>1, ReplyStep DEF DecodeFails, Expected
<1>2. CASE Panic(t)
  <2>1. Expected(r, checks) = Failed("panic")
    BY <1>2, ResultIsAnalysis DEF Panic, Expected
  <2> QED  BY <1>2, <2>1, ReplyStep DEF Panic, Searched
<1>3. CASE ReturnUncached(t) \/ Insert(t)
  <2>1. Searched(t) /\ ~(checks /\ Overflows(r))
    BY <1>3 DEF ReturnUncached, Insert, Insertable
  <2>2. Expected(r, checks) = ResultOf(t)
    BY <2>1, ResultIsAnalysis DEF Expected
  <2>3. Finish(t, ResultOf(t)) /\ UNCHANGED <<request, poisoned, checks>>
    BY <1>3 DEF ReturnUncached, Insert
  <2> QED  BY <2>1, <2>2, <2>3, ReplyStep DEF Searched
<1> QED  BY <1>1, <1>2, <1>3

LEMMA PoisonedRefuses ==
  ASSUME IInv, NEW t \in Threads, GetPoisoned(t) \/ InsertPoisoned(t)
  PROVE  WA!Refuse(t)
<1>1. /\ pc[t] # "idle" /\ poisoned
      /\ Finish(t, Failed("poisoned")) /\ UNCHANGED <<request, poisoned, checks>>
  BY DEF GetPoisoned, InsertPoisoned, Insertable, Searched
<1>2. WA!Running(t)
  BY <1>1, RunningCall, SameStates
<1> QED  BY <1>1, <1>2, SameStates DEF WA!Refuse, Finish

LEMMA BeginCalls ==
  ASSUME IInv, NEW t \in Threads, Begin(t)
  PROVE  WA!Call(t)
<1>1. ~WA!Running(t)
  BY SameStates DEF Begin, IInv, CallsInv
<1> QED  BY <1>1, SameStates DEF Begin, WA!Call

LEMMA NextImplements == IInv /\ [Next]_vars => [WA!Next]_(WA!vars)
<1> SUFFICES ASSUME IInv, [Next]_vars PROVE WA!Next \/ UNCHANGED WA!vars
  OBVIOUS
<1>1. ASSUME NEW t \in Threads, Begin(t) PROVE WA!Next
  BY <1>1, BeginCalls DEF WA!Next
<1>2. ASSUME NEW t \in Threads, Step(t) PROVE WA!Next \/ UNCHANGED WA!vars
  <2>1. CASE GetPoisoned(t) \/ InsertPoisoned(t)
    BY <2>1, PoisonedRefuses DEF WA!Next
  <2>2. CASE GetHit(t)
    BY <2>2, HitReplies DEF WA!Next
  <2>3. CASE DecodeFails(t) \/ Panic(t) \/ ReturnUncached(t) \/ Insert(t)
    BY <2>3, SearchReplies DEF WA!Next
  <2>4. CASE GetMiss(t) \/ VisitLocal(t) \/ VisitShared(t) \/ VisitMiss(t) \/ DecodeAndStore(t)
    BY <2>4 DEF GetMiss, VisitLocal, VisitShared, VisitMiss, DecodeAndStore, WA!vars
  <2> QED  BY <1>2, <2>1, <2>2, <2>3, <2>4 DEF Step
<1>3. CASE UNCHANGED vars
  BY <1>3 DEF vars, threadVars, WA!vars
<1> QED  BY <1>1, <1>2, <1>3 DEF Next

(* Callers of analyze_native_word cannot tell that process_one_word caches *)
(* anything: whatever other threads do, evict and store in between, a call *)
(* gets the answer of the dictionary for its word, options and first node. *)
THEOREM CachesInvisible == Spec => AnswersAsPromised
<1>1. Init => WA!Init
  BY DEF Init, WA!Init, WA!Nothing, Nothing, WA!Failed, Failed
<1> QED  BY <1>1, Invariance, NextImplements, PTL DEF Spec, AnswersAsPromised, WA!Spec
=============================================================================
