------------------------- MODULE WordTemplateCache -------------------------
(***************************************************************************)
(* BinaryAnalyzerLexicon::process_one_word as several threads run it on    *)
(* one shared lexicon (Morfeusz handles and C API clones share it through  *)
(* an Arc).                                                                *)
(*                                                                         *)
(* Two caches stand between a call and the dictionary, each behind its own *)
(* mutex, and a call takes each mutex twice: once to look, once to store   *)
(* what it worked out in between.  Each locked section is one action, and  *)
(* so is the work a thread does alone between two of them.                 *)
(*   - the word template cache: whole answers, keyed by a hash of word and *)
(*     configuration, with node numbers made relative to the first one; a  *)
(*     word is admitted when its hash is met again in the seen_once table; *)
(*   - the decode cache: decoded interpretation groups by id, emptied when *)
(*     full; each word_paths call keeps those it got in a local list.      *)
(***************************************************************************)
EXTENDS WordSearch, FiniteSets

CONSTANTS
  NoKey,       (* the cache key of a configuration that is not cached      *)
  ConfigKey,   (* ConfigKey[c]: WordTemplateCacheKey::config_key, or NoKey *)
  Hash,        (* Hash[w][c]: word_template_hash of w and c's key          *)
  Slots,       (* WORD_TEMPLATE_SEEN_ONCE_SLOTS                            *)
  LongWords,   (* words of more than WORD_TEMPLATE_MAX_WORD_BYTES bytes    *)
  MaxInterps,  (* WORD_TEMPLATE_MAX_INTERPRETATIONS                        *)
  MaxWords,    (* WORD_TEMPLATE_CACHE_MAX_WORDS                            *)
  MaxGroups,   (* ANALYZER_DECODE_CACHE_MAX_GROUPS                         *)
  InputWord    (* OrthTemplate::InputWord                                  *)

Keyed  == { c \in Configs : ConfigKey[c] # NoKey }
Hashes == { Hash[w][c] : w \in Words, c \in Configs }

(***************************************************************************)
(* The key stands for the whole configuration: two that share it select    *)
(* the same case handling and the same segmentation automaton.             *)
(***************************************************************************)
ASSUME WordTemplateCacheAssumption ==
  /\ Hashes \subseteq Nat \ {0}
  /\ \A c, d \in Keyed : ConfigKey[c] = ConfigKey[d] =>
       \A w \in Words : Hash[w][c] = Hash[w][d] /\ Shape[w][c] = Shape[w][d]
  /\ Slots \in Nat \ {0}
  /\ LongWords \subseteq Words
  /\ MaxInterps \in Nat /\ MaxWords \in Nat
  /\ MaxGroups \in Nat \ {0}
  /\ InputWord \notin Orths

VARIABLES
  request, answer, (* the calls and their answers, as in WordAnalysis      *)
  poisoned,        (* the word template cache's mutex is poisoned          *)
  checks,          (* the build checks i32 arithmetic for overflow         *)
  pc,              (* where each thread stands in process_one_word         *)
  local,           (* AnalyzerGroupDecodeCache::groups of its word_paths   *)
  seen,            (* the interpretations its visits have supplied so far  *)
  buckets,         (* WordTemplateCache::buckets, by hash                  *)
  seen_once,       (* WordTemplateCache::seen_once                         *)
  entries,         (* WordTemplateCache::entries                           *)
  groups           (* SharedAnalyzerGroupDecodeCache::groups               *)

cacheVars  == <<buckets, seen_once, entries>>
threadVars == <<request, answer, pc, local, seen>>
vars == <<threadVars, cacheVars, groups, poisoned, checks>>

-----------------------------------------------------------------------------
(* Templates: answers with their node numbers relative to the first node.  *)

InterpTemplate ==
  [ rel_start_node : Int, rel_end_node : Int,
    orth : Orths \cup {InputWord}, data : Payload ]

Template ==
  [ config_key : { ConfigKey[c] : c \in Keyed }, word : Words,
    next_node_delta : Int, interps : Seq(InterpTemplate) ]

WrapSub(a, b) ==
  IF a - b > MaxNode THEN a - b - (2 * MaxNode + 2)
  ELSE IF a - b < -MaxNode - 1 THEN a - b + (2 * MaxNode + 2)
  ELSE a - b

(* Mutant: the node numbers of a template are not made relative.           *)
FromInterpAbsolute(i, r) ==
  [ rel_start_node |-> i.start_node, rel_end_node |-> i.end_node,
    orth |-> IF i.orth = r.word THEN InputWord ELSE i.orth, data |-> i.data ]

(* MorphInterpretationTemplate::from_interpretation and ::instantiate      *)
FromInterp(i, r) ==
  [ rel_start_node |-> WrapSub(i.start_node, r.start),
    rel_end_node   |-> WrapSub(i.end_node, r.start),
    orth |-> IF i.orth = r.word THEN InputWord ELSE i.orth,
    data |-> i.data ]

ToInterp(m, r) ==
  [ start_node |-> WrapAdd(r.start, m.rel_start_node),
    end_node   |-> WrapAdd(r.start, m.rel_end_node),
    orth |-> IF m.orth = InputWord THEN r.word ELSE m.orth,
    data |-> m.data ]

(* WordAnalysisTemplate::from_result and ::instantiate                     *)
TemplateOf(r, a) ==
  [ config_key |-> ConfigKey[r.config],
    word |-> r.word,
    next_node_delta |-> a.next - r.start,
    interps |-> [k \in 1 .. Len(a.interps) |-> FromInterp(a.interps[k], r)] ]

Instantiate(e, r) ==
  [ status |-> "ok",
    interps |-> [k \in 1 .. Len(e.interps) |-> ToInterp(e.interps[k], r)],
    next |-> WrapAdd(r.start, e.next_node_delta) ]

(* Adding the first node back leaves the i32 range.                        *)
InstantiateOverflows(e, r) ==
  \/ r.start + e.next_node_delta \notin Node
  \/ \E k \in DOMAIN e.interps :
       \/ r.start + e.interps[k].rel_start_node \notin Node
       \/ r.start + e.interps[k].rel_end_node \notin Node

KeyOf(r)    == ConfigKey[r.config]
HashOf(r)   == Hash[r.word][r.config]
BucketOf(r) == buckets[HashOf(r)]

(* Mutant: the hash is taken to identify the word.                         *)
MatchesKey(e, r) == e.config_key = KeyOf(r)

Matches(e, r) == e.config_key = KeyOf(r) /\ e.word = r.word

Matching(r) == { i \in DOMAIN BucketOf(r) : Matches(BucketOf(r)[i], r) }

(* WordTemplateCache::get answers from the first entry that matches.       *)
FirstMatches(r) ==
  { BucketOf(r)[i] : i \in { k \in Matching(r) : \A j \in Matching(r) : k <= j } }

-----------------------------------------------------------------------------
Init ==
  /\ request = [t \in Threads |-> NoRequest]
  /\ answer = [t \in Threads |-> Nothing]
  /\ poisoned = FALSE
  /\ checks \in BOOLEAN
  /\ pc = [t \in Threads |-> "idle"]
  /\ local = [t \in Threads |-> <<>>]
  /\ seen = [t \in Threads |-> <<>>]
  /\ buckets = [h \in Hashes |-> <<>>]
  /\ seen_once = [s \in 0 .. Slots - 1 |-> 0]
  /\ entries = 0
  /\ groups = [g \in {} |-> Ign]

Goto(t, place) == pc' = [pc EXCEPT ![t] = place]

(* What the call worked with is dropped when it returns.                   *)
Finish(t, a) ==
  /\ answer' = [answer EXCEPT ![t] = a]
  /\ local' = [local EXCEPT ![t] = <<>>]
  /\ seen' = [seen EXCEPT ![t] = <<>>]
  /\ Goto(t, "idle")

(* A thread calls analyze_native_word with a non-empty word.               *)
Begin(t) ==
  /\ pc[t] = "idle"
  /\ \E r \in Calls :
       /\ request' = [request EXCEPT ![t] = r]
       /\ Goto(t, IF KeyOf(r) = NoKey THEN "search" ELSE "get")
  /\ answer' = [answer EXCEPT ![t] = Nothing]
  /\ UNCHANGED <<local, seen, cacheVars, groups, poisoned, checks>>

GetPoisoned(t) ==
  /\ pc[t] = "get"
  /\ poisoned
  /\ Finish(t, Failed("poisoned"))
  /\ UNCHANGED <<request, cacheVars, groups, poisoned, checks>>

GetMiss(t) ==
  /\ pc[t] = "get"
  /\ ~poisoned
  /\ Matching(request[t]) = {}
  /\ Goto(t, "search")
  /\ UNCHANGED <<request, answer, local, seen, cacheVars, groups, poisoned, checks>>

(* The entry is instantiated under the lock: a panic there poisons it.     *)
GetHit(t) ==
  /\ pc[t] = "get"
  /\ ~poisoned
  /\ \E e \in FirstMatches(request[t]) :
       /\ poisoned' = (checks /\ InstantiateOverflows(e, request[t]))
       /\ Finish(t, IF poisoned' THEN Failed("panic") ELSE Instantiate(e, request[t]))
  /\ UNCHANGED <<request, cacheVars, groups, checks>>

-----------------------------------------------------------------------------
(* AnalyzerGroupDecodeCache::get_or_decode, once per visit of the search.  *)

Searching(t) == pc[t] = "search" /\ Len(seen[t]) < Len(SearchOf(request[t]).visits)
VisitOf(t)   == SearchOf(request[t]).visits[Len(seen[t]) + 1]
LocalOf(t)   == IF VisitOf(t).fresh THEN <<>> ELSE local[t]

Known(cached, g) == { i \in DOMAIN cached : cached[i].group = g }

Supply(t, data) == seen' = [seen EXCEPT ![t] = Append(@, data)]

Keep(t, data) ==
  /\ local' = [local EXCEPT ![t] =
                 Append(LocalOf(t), [group |-> VisitOf(t).group, data |-> data])]
  /\ Supply(t, data)

VisitLocal(t) ==
  /\ Searching(t)
  /\ \E i \in Known(LocalOf(t), VisitOf(t).group) : Supply(t, LocalOf(t)[i].data)
  /\ local' = [local EXCEPT ![t] = LocalOf(t)]
  /\ UNCHANGED <<request, answer, pc, cacheVars, groups, poisoned, checks>>

VisitShared(t) ==
  /\ Searching(t)
  /\ Known(LocalOf(t), VisitOf(t).group) = {}
  /\ VisitOf(t).group \in DOMAIN groups
  /\ Keep(t, groups[VisitOf(t).group])
  /\ UNCHANGED <<request, answer, pc, cacheVars, groups, poisoned, checks>>

VisitMiss(t) ==
  /\ Searching(t)
  /\ Known(LocalOf(t), VisitOf(t).group) = {}
  /\ VisitOf(t).group \notin DOMAIN groups
  /\ Goto(t, "decode")
  /\ UNCHANGED <<request, answer, local, seen, cacheVars, groups, poisoned, checks>>

DecodeFails(t) ==
  /\ pc[t] = "decode"
  /\ VisitOf(t).group \in BadGroups
  /\ Finish(t, Failed("malformed"))
  /\ UNCHANGED <<request, cacheVars, groups, poisoned, checks>>

(* A full cache is emptied unless another thread has stored the group.     *)
Room(g) ==
  IF Cardinality(DOMAIN groups) >= MaxGroups /\ g \notin DOMAIN groups
  THEN {} ELSE DOMAIN groups

Stored(g) ==
  [ d \in Room(g) \cup {g} |-> IF d \in Room(g) THEN groups[d] ELSE Decode[g] ]

(* Mutant: after storing a group a thread looks it up again, although      *)
(* others may empty the cache in between.                                  *)
DecodeAndRetry(t) ==
  /\ pc[t] = "decode"
  /\ VisitOf(t).group \notin BadGroups
  /\ groups' = Stored(VisitOf(t).group)
  /\ Goto(t, "search")
  /\ UNCHANGED <<request, answer, local, seen, cacheVars, poisoned, checks>>

DecodeAndStore(t) ==
  /\ pc[t] = "decode"
  /\ VisitOf(t).group \notin BadGroups
  /\ groups' = Stored(VisitOf(t).group)
  /\ Keep(t, groups'[VisitOf(t).group])
  /\ Goto(t, "search")
  /\ UNCHANGED <<request, answer, cacheVars, poisoned, checks>>

-----------------------------------------------------------------------------
(* The search is over: edges become interpretations.                       *)

SuppliedData(t, edge) == IF edge.visit = 0 THEN Ign ELSE seen[t][edge.visit]

ResultOf(t) ==
  LET r == request[t] IN
  [ status |-> "ok",
    interps |->
      [ k \in 1 .. Len(SearchOf(r).edges) |->
        LET edge == SearchOf(r).edges[k] IN
        [ start_node |-> WrapAdd(r.start, edge.from),
          end_node   |-> WrapAdd(r.start, edge.to),
          orth       |-> edge.orth,
          data       |-> SuppliedData(t, edge) ] ],
    next |-> WrapAdd(r.start, SearchOf(r).nodes) ]

Searched(t) == pc[t] = "search" /\ Len(seen[t]) = Len(SearchOf(request[t]).visits)

Panic(t) ==
  /\ Searched(t)
  /\ checks /\ Overflows(request[t])
  /\ Finish(t, Failed("panic"))
  /\ UNCHANGED <<request, cacheVars, groups, poisoned, checks>>

ReturnUncached(t) ==
  /\ Searched(t)
  /\ ~(checks /\ Overflows(request[t]))
  /\ KeyOf(request[t]) = NoKey
  /\ Finish(t, ResultOf(t))
  /\ UNCHANGED <<request, cacheVars, groups, poisoned, checks>>

Insertable(t) ==
  /\ Searched(t)
  /\ ~(checks /\ Overflows(request[t]))
  /\ KeyOf(request[t]) # NoKey

InsertPoisoned(t) ==
  /\ Insertable(t)
  /\ poisoned
  /\ Finish(t, Failed("poisoned"))
  /\ UNCHANGED <<request, cacheVars, groups, poisoned, checks>>

Eligible(r, a) ==
  /\ r.word \notin LongWords
  /\ Len(a.interps) <= MaxInterps
  /\ \E k \in DOMAIN a.interps : a.interps[k].data # Ign

SlotOf(h) == h % Slots

SeenAgain(h) == seen_once[SlotOf(h)] = h

(* Mutant: insert_if_admitted trusts the miss that get reported.           *)
AdmissibleUnlessFull(r, a) ==
  /\ entries < MaxWords
  /\ a.next - r.start \in Node

Admissible(r, a) ==
  /\ entries < MaxWords
  /\ Matching(r) = {}
  /\ a.next - r.start \in Node

WithEntry(h, e) == [buckets EXCEPT ![h] = Append(@, e)]

(* insert_if_admitted: the tests in their order, each of which may end it. *)
Insert(t) ==
  /\ Insertable(t)
  /\ ~poisoned
  /\ LET r == request[t]
         a == ResultOf(t)
         h == HashOf(r)
     IN  /\ seen_once' = IF Eligible(r, a)
                         THEN [seen_once EXCEPT ![SlotOf(h)] = h] ELSE seen_once
         /\ IF Eligible(r, a) /\ SeenAgain(h) /\ Admissible(r, a)
            THEN /\ buckets' = WithEntry(h, TemplateOf(r, a))
                 /\ entries' = entries + 1
            ELSE UNCHANGED <<buckets, entries>>
         /\ Finish(t, a)
  /\ UNCHANGED <<request, groups, poisoned, checks>>

-----------------------------------------------------------------------------
Step(t) ==
  \/ GetPoisoned(t) \/ GetMiss(t) \/ GetHit(t)
  \/ VisitLocal(t) \/ VisitShared(t) \/ VisitMiss(t)
  \/ DecodeFails(t) \/ DecodeAndStore(t)
  \/ Panic(t) \/ ReturnUncached(t) \/ InsertPoisoned(t) \/ Insert(t)

Next == \E t \in Threads : Begin(t) \/ Step(t)

(* A call that is under way goes on: its locks are held for one step only, *)
(* so no thread waits for one forever.  Nothing makes a thread call.       *)
Spec == Init /\ [][Next]_vars /\ \A t \in Threads : WF_vars(Step(t))

-----------------------------------------------------------------------------
(* Properties *)

Cached == [group : Groups, data : Payload]

ThreadsTypeOK ==
  /\ request \in [Threads -> Request \cup {NoRequest}]
  /\ answer \in [Threads -> Answer]
  /\ pc \in [Threads -> {"idle", "get", "search", "decode"}]
  /\ local \in [Threads -> Seq(Cached)]
  /\ seen \in [Threads -> Seq(Payload)]

CachesTypeOK ==
  /\ buckets \in [Hashes -> Seq(Template)]
  /\ seen_once \in [0 .. Slots - 1 -> Hashes \cup {0}]
  /\ entries \in Nat
  /\ DOMAIN groups \subseteq Groups
  /\ poisoned \in BOOLEAN /\ checks \in BOOLEAN

(* What the variables hold: answers are well-formed and their nodes i32,   *)
(* templates hold what from_result puts there, and the seen_once table     *)
(* holds hashes that calls have met.                                       *)
TypeOK == ThreadsTypeOK /\ CachesTypeOK

(* A cached template serves every call that matches it as the dictionary   *)
(* would: at any first node, whatever node it was stored from, whichever   *)
(* thread stored it, with colliding hashes and wrapped node numbers; and   *)
(* it overflows exactly where the search would (get, insert_if_admitted).  *)
TemplatesTrue ==
  \A h \in Hashes : \A i \in DOMAIN buckets[h] : \A r \in Request :
    LET e == buckets[h][i] IN
    Matches(e, r) =>
      /\ HashOf(r) = h
      /\ Instantiate(e, r) = Analysis(r)
      /\ InstantiateOverflows(e, r) <=> Overflows(r)
      /\ ~Malformed(r)

(* Two threads that miss the same word and both store it leave one entry,  *)
(* and the count that bounds the cache is the number of entries.           *)
Stores(h) == { <<h, i>> : i \in DOMAIN buckets[h] }

EntriesCounted ==
  /\ entries = Cardinality(UNION { Stores(h) : h \in Hashes })
  /\ entries <= MaxWords
  /\ \A h \in Hashes : \A i, j \in DOMAIN buckets[h] :
       /\ buckets[h][i].word = buckets[h][j].word
       /\ buckets[h][i].config_key = buckets[h][j].config_key
       => i = j

(* The decode cache is bounded although threads test it and fill it in two *)
(* locked sections, and what it or a running call holds is the decoding of *)
(* the group it is filed under, also when others emptied it meanwhile.     *)
DecodedTrue ==
  /\ Cardinality(DOMAIN groups) <= MaxGroups
  /\ \A g \in DOMAIN groups : g \notin BadGroups /\ groups[g] = Decode[g]
  /\ \A t \in Threads : \A i \in DOMAIN local[t] :
       local[t][i].data = Decode[local[t][i].group]

(* Both caches stay within their limits and hold what they are trusted     *)
(* for, whatever other threads do between the two locked sections of a     *)
(* call (insert_if_admitted, get_or_decode).                               *)
CachesTrue == EntriesCounted /\ DecodedTrue

(* What makes these inductive: a call's answer is missing exactly while it *)
(* runs; what its visits supplied are the decodings of the groups visited; *)
(* and every template stems from a call whose answer could be stored.      *)
CallsInv ==
  \A t \in Threads :
    /\ pc[t] # "idle" => request[t] \in Calls /\ answer[t] = Nothing
    /\ pc[t] = "idle" /\ request[t] # NoRequest => answer[t] # Nothing
    /\ pc[t] = "get" => KeyOf(request[t]) # NoKey
    /\ pc[t] \in {"idle", "get"} => seen[t] = <<>> /\ local[t] = <<>>
    /\ pc[t] = "decode" => Len(seen[t]) < Len(SearchOf(request[t]).visits)

Supplied(r, supply) ==
  /\ Len(supply) <= Len(SearchOf(r).visits)
  /\ \A j \in 1 .. Len(supply) :
       /\ SearchOf(r).visits[j].group \notin BadGroups
       /\ supply[j] = Decode[SearchOf(r).visits[j].group]

SuppliedInv ==
  /\ \A g \in DOMAIN groups : g \notin BadGroups /\ groups[g] = Decode[g]
  /\ \A t \in Threads : \A i \in DOMAIN local[t] :
       local[t][i].group \notin BadGroups /\ local[t][i].data = Decode[local[t][i].group]
  /\ \A t \in Threads : pc[t] # "idle" => Supplied(request[t], seen[t])

Storable(r) ==
  /\ KeyOf(r) # NoKey
  /\ ~Malformed(r)
  /\ Analysis(r).next - r.start \in Node

TemplatesStem ==
  \A h \in Hashes : \A i \in DOMAIN buckets[h] :
    \E r \in Request : Storable(r) /\ h = HashOf(r)
                       /\ buckets[h][i] = TemplateOf(r, Analysis(r))

IInv == TypeOK /\ CallsInv /\ SuppliedInv /\ TemplatesStem

(* Callers cannot tell the caches are there: every call gets the answer of *)
(* the dictionary for its word, configuration and first node.              *)
WA == INSTANCE WordAnalysis
AnswersAsPromised == WA!Spec

(* Every call returns.                                                     *)
CallsReturn == \A t \in Threads : pc[t] # "idle" ~> pc[t] = "idle"
=============================================================================
