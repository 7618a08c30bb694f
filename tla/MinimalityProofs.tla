-------------------------- MODULE MinimalityProofs --------------------------
(***************************************************************************)
(* Two structures that are minimal whatever they are made from: the        *)
(* builder's automaton, and the graph that answers a word.                 *)
(*                                                                         *)
(* The automaton.  The previous word's states form a spine: a path from    *)
(* the initial state whose states are distinct and not registered.  Every  *)
(* transition leads to a registered state or is one of the spine's, so     *)
(* that only the spine's word leads to the end of the spine, and giving    *)
(* that state its data adds that word and no other.  What is registered    *)
(* never changes, and a state is replaced by one with the same record,     *)
(* from which the same words are found.  No induction on words is needed   *)
(* for that: of a path before a replacement one after it is made, place    *)
(* by place.  Each state's bytes are written at its offset, so the offsets *)
(* that the reader comes to along a word are those of the states that the  *)
(* word leads to.                                                          *)
(*                                                                         *)
(* The graph.  Adding a path and merging two nodes keep a graph of the     *)
(* spans of the paths kept (IsGraphOf): each edge leads from where its     *)
(* text starts to a node that starts where it ends, and nothing else is    *)
(* told apart.  Nodes are merged until no two start at one place, so that  *)
(* what is left depends on the spans alone.                                *)
(***************************************************************************)
EXTENDS SimpleFsa, InflexionGraph, FiniteSetTheorems, SequenceTheorems, WellFoundedInduction,
        TLAPS

-----------------------------------------------------------------------------
(* Tables of states, and what words lead to in them                        *)

IsState(T, s) ==
  /\ s = [data |-> s.data, transitions |-> s.transitions]
  /\ DOMAIN s.transitions \subseteq Labels
  /\ s.transitions \in [DOMAIN s.transitions -> 1 .. Len(T)]

IsTable(T) ==
  /\ Len(T) \in Nat /\ T = [q \in 1 .. Len(T) |-> T[q]]
  /\ \A q \in 1 .. Len(T) : IsState(T, T[q])

Step(T, q, l, r) == l \in DOMAIN T[q].transitions /\ r = T[q].transitions[l]

(* The path p of a word from a state.                                      *)
Walk(T, q, w, p) ==
  /\ p \in [0 .. Len(w) -> 1 .. Len(T)] /\ p[0] = q
  /\ \A i \in 1 .. Len(w) : Step(T, p[i - 1], w[i], p[i])

Finds(T, q, w, v) ==
  v # NoData /\ \E p \in [0 .. Len(w) -> 1 .. Len(T)] : Walk(T, q, w, p) /\ T[p[Len(w)]].data = v

-----------------------------------------------------------------------------
(* The inductive invariant                                                 *)

Registered == { register[k] : k \in DOMAIN register }

TableInv ==
  /\ IsTable(states)
  /\ \A k \in DOMAIN register : register[k] \in 1 .. Len(states) /\ states[register[k]] = k
  /\ initial \in 1 .. Len(states)

(* The word along which the spine lies, and how far it goes.               *)
SpineWord == IF pc = "extend" THEN word ELSE previous
SpineLen  ==
  IF pc = "extend" THEN prefix_len
  ELSE IF pc = "register" THEN Passed(Len(stack))
  ELSE Len(previous)

(* A transition is the spine's, or leads to what is registered.            *)
EdgesInv(p) ==
  \A q \in 1 .. Len(states) : \A l \in DOMAIN Transitions(q) :
    \/ Transitions(q)[l] \in Registered
    \/ \E i \in 1 .. SpineLen : q = p[i - 1] /\ l = SpineWord[i]

(* Words come in order: what leaves the spine does so before it.           *)
OrderInv(p) ==
  /\ \A i \in 1 .. SpineLen : \A l \in DOMAIN Transitions(p[i - 1]) : l <= SpineWord[i]
  /\ pc # "register" =>
       \A l \in DOMAIN Transitions(p[SpineLen]) :
         SpineLen < Len(SpineWord) /\ l < SpineWord[SpineLen + 1]

Spine(p) ==
  /\ p \in [0 .. SpineLen -> 1 .. Len(states)] /\ p[0] = initial
  /\ \A i \in 1 .. SpineLen : Step(states, p[i - 1], SpineWord[i], p[i])
  /\ \A i, j \in 0 .. SpineLen : p[i] = p[j] => i = j
  /\ \A i \in 0 .. SpineLen : p[i] \notin Registered

(* Where add_entry and replace_or_register stand on the spine.             *)
PlaceInv(p) ==
  /\ pc \in {"walk", "descend", "register", "extend"} /\ at # NoState =>
       prefix_len \in 0 .. SpineLen /\ at = p[prefix_len]
  /\ pc \in {"descend", "register"} =>
       /\ Len(stack) \in Nat \ {0} /\ stack = [i \in 1 .. Len(stack) |-> stack[i]]
       /\ \A i \in 1 .. Len(stack) : Passed(i) <= SpineLen /\ stack[i] = p[Passed(i)]

AddingInv ==
  /\ previous \in Seq(Labels) /\ word \in Seq(Labels)
  /\ prefix_len \in 0 .. Len(word)
  /\ pc \in {"walk", "extend"} => at # NoState
  /\ pc \in {"walk", "descend", "register", "extend"} /\ at # NoState =>
       data # NoData /\ Valid(word)
  /\ pc \in {"walk", "descend", "register"} /\ at # NoState =>
       prefix_len <= Len(previous) /\ \A i \in 1 .. prefix_len : word[i] = previous[i]
  /\ pc \in {"descend", "register"} /\ at # NoState =>
       /\ prefix_len < Len(previous) /\ prefix_len < Len(word)
       /\ previous[prefix_len + 1] < word[prefix_len + 1]
  /\ pc = "register" => SpineLen \in 0 .. Len(previous)
  /\ pc = "extend" /\ prefix_len = Len(word) => states[at].data = NoData

BuildingPcs == {"rules", "convert", "ready", "walk", "descend", "register", "extend"}

BuildingInv ==
  AddingInv /\ \E p \in [0 .. SpineLen -> 1 .. Len(states)] :
                 Spine(p) /\ EdgesInv(p) /\ OrderInv(p) /\ PlaceInv(p)

(* The entries are found, and nothing else.                                *)
Exact ==
  \A w \in Seq(Labels) : \A v :
    Finds(states, initial, w, v) <=> w \in DOMAIN entries /\ v = entries[w]

LaterPcs == {"order", "write", "done", "failed"}

IInv ==
  /\ pc \in BuildingPcs \cup LaterPcs
  /\ TableInv /\ Exact
  /\ pc \in BuildingPcs => BuildingInv

-----------------------------------------------------------------------------
(* Words in a table                                                        *)

(* The least of the numbers of a set.                                      *)
LEMMA LeastOf ==
  ASSUME NEW S \in SUBSET Nat, S # {}
  PROVE  \E k \in S : \A i \in S : k <= i
<1>1. PICK k \in S : \A i \in S : ~ (<<i, k>> \in OpToRel(<, Nat))
  BY WFMin, NatLessThanWellFounded
<1>2. \A i \in S : i \in Nat /\ ~(i < k)
  BY <1>1, Zenon DEF OpToRel
<1> QED BY <1>2

LEMMA LabelsAreNumbers == Labels \subseteq Nat
BY SimpleFsaAssumption

LEMMA WordElements ==
  ASSUME NEW w \in Seq(Labels)
  PROVE  Len(w) \in Nat /\ \A i \in 1 .. Len(w) : w[i] \in Labels /\ w[i] \in Nat
<1>1. Len(w) \in Nat /\ \A i \in 1 .. Len(w) : w[i] \in Labels
  OBVIOUS
<1> QED BY <1>1, LabelsAreNumbers

LEMMA StepTarget ==
  ASSUME NEW T, IsTable(T), NEW q \in 1 .. Len(T), NEW l, NEW r, Step(T, q, l, r)
  PROVE  r \in 1 .. Len(T) /\ l \in Labels
<1>1. IsState(T, T[q])
  BY DEF IsTable
<1> QED BY <1>1 DEF IsState, Step

(* A word has one path from a state.                                       *)
LEMMA WalkUnique ==
  ASSUME NEW T, NEW q, NEW w \in Seq(Labels), NEW p, NEW s, Walk(T, q, w, p), Walk(T, q, w, s)
  PROVE  p = s
<1> DEFINE bad == { i \in 0 .. Len(w) : p[i] # s[i] }
<1>1. Len(w) \in Nat
  OBVIOUS
<1>2. bad = {}
  <2> SUFFICES ASSUME bad # {} PROVE FALSE
    OBVIOUS
  <2>1. PICK k \in bad : \A i \in bad : k <= i
    <3>1. bad \in SUBSET Nat
      BY <1>1
    <3> HIDE DEF bad
    <3> QED BY <3>1, LeastOf
  <2>2. k # 0
    BY DEF Walk
  <2>3. k \in 1 .. Len(w) /\ k - 1 \in 0 .. Len(w) /\ ~(k <= k - 1)
    BY <1>1, <2>2
  <2>4. p[k - 1] = s[k - 1]
    BY <2>1, <2>3
  <2>5. p[k] = s[k]
    BY <2>3, <2>4 DEF Walk, Step
  <2> QED BY <2>5
<1>3. p \in [0 .. Len(w) -> 1 .. Len(T)] /\ s \in [0 .. Len(w) -> 1 .. Len(T)]
  BY DEF Walk
<1> QED BY <1>2, <1>3

(* A transition redirected to a state that has the same record.            *)
Reattached(T, U, q, l, t, r) ==
  /\ IsTable(T) /\ IsTable(U) /\ Len(U) = Len(T)
  /\ q \in 1 .. Len(T) /\ t \in 1 .. Len(T) /\ r \in 1 .. Len(T) /\ t # q /\ r # q /\ T[t] = T[r]
  /\ Step(T, q, l, t) /\ Step(U, q, l, r)
  /\ U[q].data = T[q].data /\ DOMAIN U[q].transitions = DOMAIN T[q].transitions
  /\ \A m \in DOMAIN T[q].transitions : m # l => U[q].transitions[m] = T[q].transitions[m]
  /\ \A s \in 1 .. Len(T) : s # q => U[s] = T[s]

LEMMA RedirectedBack ==
  ASSUME NEW T, NEW U, NEW q, NEW l, NEW t, NEW r, Reattached(T, U, q, l, t, r)
  PROVE  Reattached(U, T, q, l, r, t)
BY DEF Reattached

(* The path after it is the path before it, with the one state for the     *)
(* other behind that transition.                                           *)
LEMMA RedirectedFinds ==
  ASSUME NEW T, NEW U, NEW q, NEW l, NEW t, NEW r, Reattached(T, U, q, l, t, r),
         NEW o \in 1 .. Len(T), NEW w \in Seq(Labels), NEW v, Finds(T, o, w, v)
  PROVE  Finds(U, o, w, v)
<1>1. PICK p \in [0 .. Len(w) -> 1 .. Len(T)] : Walk(T, o, w, p) /\ T[p[Len(w)]].data = v
  BY DEF Finds
<1>2. Len(w) \in Nat /\ Len(U) = Len(T)
  BY DEF Reattached
<1> DEFINE Through(i) == i # 0 /\ p[i - 1] = q /\ w[i] = l
           s == [i \in 0 .. Len(w) |-> IF Through(i) THEN r ELSE p[i]]
<1>3. \A i \in 0 .. Len(w) : Through(i) => p[i] = t /\ i \in 1 .. Len(w)
  <2> SUFFICES ASSUME NEW i \in 0 .. Len(w), Through(i) PROVE p[i] = t /\ i \in 1 .. Len(w)
    OBVIOUS
  <2>1. i \in 1 .. Len(w)
    BY <1>2
  <2> QED BY <1>1, <2>1 DEF Walk, Step, Reattached
<1>4. \A i \in 0 .. Len(w) : p[i] # q => U[s[i]] = T[p[i]]
  BY <1>1, <1>3 DEF Reattached
<1>5. \A i \in 0 .. Len(w) : p[i] = q => s[i] = q
  BY <1>3 DEF Reattached
<1>6. s \in [0 .. Len(w) -> 1 .. Len(U)] /\ s[0] = o
  <2>1. 0 \in 0 .. Len(w) /\ p[0] = o
    BY <1>1, <1>2 DEF Walk
  <2>2. \A i \in 0 .. Len(w) : p[i] \in 1 .. Len(U) /\ r \in 1 .. Len(U)
    BY <1>1, <1>2 DEF Reattached
  <2> QED BY <2>1, <2>2
<1>7. ASSUME NEW i \in 1 .. Len(w) PROVE Step(U, s[i - 1], w[i], s[i])
  <2>1. i - 1 \in 0 .. Len(w) /\ i \in 0 .. Len(w) /\ i # 0
    BY <1>2
  <2>2. Step(T, p[i - 1], w[i], p[i])
    BY <1>1 DEF Walk
  <2>3. s[i] = IF p[i - 1] = q /\ w[i] = l THEN r ELSE p[i]
    BY <2>1
  <2>4. CASE p[i - 1] = q
    <3>1. s[i - 1] = q
      BY <1>5, <2>1, <2>4
    <3> HIDE DEF s
    <3> QED BY <2>2, <2>3, <2>4, <3>1 DEF Step, Reattached
  <2>5. CASE p[i - 1] # q
    <3>1. U[s[i - 1]] = T[p[i - 1]]
      BY <1>4, <2>1, <2>5
    <3> HIDE DEF s
    <3> QED BY <2>2, <2>3, <2>5, <3>1 DEF Step
  <2> QED BY <2>4, <2>5
<1>8. U[s[Len(w)]].data = v
  <2>1. Len(w) \in 0 .. Len(w)
    BY <1>2
  <2>2. CASE p[Len(w)] = q
    BY <1>1, <1>5, <2>1, <2>2 DEF Reattached
  <2>3. CASE p[Len(w)] # q
    BY <1>1, <1>4, <2>1, <2>3
  <2> QED BY <2>2, <2>3
<1> HIDE DEF s
<1> QED BY <1>6, <1>7, <1>8 DEF Finds, Walk

(* A new state at the end of a transition that its state had not.          *)
Extended(T, U, q, l) ==
  /\ IsTable(T) /\ IsTable(U) /\ Len(U) = Len(T) + 1
  /\ q \in 1 .. Len(T) /\ l \notin DOMAIN T[q].transitions
  /\ U[Len(U)] = NewState
  /\ U[q].data = T[q].data
  /\ \A m : m \in DOMAIN U[q].transitions <=> m = l \/ m \in DOMAIN T[q].transitions
  /\ U[q].transitions[l] = Len(U)
  /\ \A m \in DOMAIN T[q].transitions : U[q].transitions[m] = T[q].transitions[m]
  /\ \A s \in 1 .. Len(T) : s # q => U[s] = T[s]

LEMMA ExtendedSteps ==
  ASSUME NEW T, NEW U, NEW q, NEW l, Extended(T, U, q, l),
         NEW s \in 1 .. Len(T), NEW m, NEW r
  PROVE  /\ Step(T, s, m, r) => Step(U, s, m, r)
         /\ Step(U, s, m, r) /\ r # Len(U) => Step(T, s, m, r)
         /\ U[s].data = T[s].data
         /\ ~ Step(U, Len(U), m, r)
<1>1. CASE s = q
  BY <1>1 DEF Extended, Step, NewState
<1>2. CASE s # q
  BY <1>2 DEF Extended, Step, NewState
<1> QED BY <1>1, <1>2

(* It has no data, and leads nowhere: no word is found through it.         *)
LEMMA ExtendedFinds ==
  ASSUME NEW T, NEW U, NEW q, NEW l, Extended(T, U, q, l),
         NEW o \in 1 .. Len(T), NEW w \in Seq(Labels), NEW v
  PROVE  Finds(T, o, w, v) <=> Finds(U, o, w, v)
<1>1. Len(w) \in Nat /\ Len(T) \in Nat /\ Len(U) = Len(T) + 1 /\ Len(w) \in 0 .. Len(w)
  BY DEF Extended, IsTable
<1>2. 1 .. Len(T) \subseteq 1 .. Len(U)
  BY <1>1
<1>3. ASSUME Finds(T, o, w, v) PROVE Finds(U, o, w, v)
  <2>1. PICK p \in [0 .. Len(w) -> 1 .. Len(T)] : Walk(T, o, w, p) /\ T[p[Len(w)]].data = v
    BY <1>3 DEF Finds
  <2>2. p \in [0 .. Len(w) -> 1 .. Len(U)]
    BY <1>2
  <2>3. \A i \in 1 .. Len(w) : Step(U, p[i - 1], w[i], p[i])
    <3> SUFFICES ASSUME NEW i \in 1 .. Len(w) PROVE Step(U, p[i - 1], w[i], p[i])
      OBVIOUS
    <3>1. i - 1 \in 0 .. Len(w)
      BY <1>1
    <3>2. p[i - 1] \in 1 .. Len(T) /\ Step(T, p[i - 1], w[i], p[i])
      BY <2>1, <3>1 DEF Walk
    <3> QED BY <3>2, ExtendedSteps
  <2>4. U[p[Len(w)]].data = v
    BY <1>1, <2>1, ExtendedSteps
  <2> QED BY <1>3, <2>1, <2>2, <2>3, <2>4 DEF Finds, Walk
<1>4. ASSUME Finds(U, o, w, v) PROVE Finds(T, o, w, v)
  <2>1. PICK p \in [0 .. Len(w) -> 1 .. Len(U)] : Walk(U, o, w, p) /\ U[p[Len(w)]].data = v
    BY <1>4 DEF Finds
  <2>2. p[Len(w)] # Len(U)
    BY <1>4, <2>1 DEF Finds, Extended, NewState
  <2>3. \A i \in 0 .. Len(w) : p[i] \in 1 .. Len(T)
    <3> SUFFICES ASSUME NEW i \in 0 .. Len(w), p[i] \notin 1 .. Len(T) PROVE FALSE
      OBVIOUS
    <3>1. p[i] = Len(U)
      BY <1>1
    <3>2. i + 1 \in 1 .. Len(w) /\ (i + 1) - 1 = i
      BY <1>1, <2>2, <3>1
    <3>3. Step(U, p[i], w[i + 1], p[i + 1])
      BY <2>1, <3>2 DEF Walk
    <3> QED BY <3>1, <3>3, ExtendedSteps
  <2>4. p \in [0 .. Len(w) -> 1 .. Len(T)]
    BY <2>3
  <2>5. \A i \in 1 .. Len(w) : Step(T, p[i - 1], w[i], p[i])
    <3> SUFFICES ASSUME NEW i \in 1 .. Len(w) PROVE Step(T, p[i - 1], w[i], p[i])
      OBVIOUS
    <3>1. i - 1 \in 0 .. Len(w) /\ i \in 0 .. Len(w)
      BY <1>1
    <3>2. p[i - 1] \in 1 .. Len(T) /\ p[i] # Len(U) /\ Step(U, p[i - 1], w[i], p[i])
      BY <1>1, <2>1, <2>3, <3>1 DEF Walk
    <3> QED BY <3>2, ExtendedSteps
  <2>6. T[p[Len(w)]].data = v
    BY <1>1, <2>1, <2>3, ExtendedSteps
  <2> QED BY <1>4, <2>1, <2>4, <2>5, <2>6 DEF Finds, Walk
<1> QED BY <1>3, <1>4

(* A state given its data: the words that lead to it are found with it.    *)
Stored(T, U, q, d) ==
  /\ IsTable(T) /\ IsTable(U) /\ Len(U) = Len(T)
  /\ q \in 1 .. Len(T) /\ T[q].data = NoData /\ U[q].data = d /\ d # NoData
  /\ U[q].transitions = T[q].transitions
  /\ \A s \in 1 .. Len(T) : s # q => U[s] = T[s]

LEMMA StoredWalks ==
  ASSUME NEW T, NEW U, NEW q, NEW d, Stored(T, U, q, d), NEW o, NEW w \in Seq(Labels), NEW p
  PROVE  Walk(T, o, w, p) <=> Walk(U, o, w, p)
<1>1. Len(w) \in Nat
  OBVIOUS
<1>2. \A s \in 1 .. Len(T) : U[s].transitions = T[s].transitions
  BY DEF Stored
<1>3. ASSUME p \in [0 .. Len(w) -> 1 .. Len(T)], NEW i \in 1 .. Len(w)
      PROVE  Step(T, p[i - 1], w[i], p[i]) <=> Step(U, p[i - 1], w[i], p[i])
  <2>1. i - 1 \in 0 .. Len(w)
    BY <1>1
  <2>2. p[i - 1] \in 1 .. Len(T)
    BY <1>3, <2>1
  <2> QED BY <1>2, <2>2 DEF Step
<1> QED BY <1>3 DEF Walk, Stored

LEMMA StoredFinds ==
  ASSUME NEW T, NEW U, NEW q, NEW d, Stored(T, U, q, d),
         NEW o \in 1 .. Len(T), NEW w \in Seq(Labels), NEW v
  PROVE  Finds(U, o, w, v) <=>
           \/ Finds(T, o, w, v)
           \/ v = d /\ \E p \in [0 .. Len(w) -> 1 .. Len(T)] : Walk(T, o, w, p) /\ p[Len(w)] = q
<1>1. Len(w) \in 0 .. Len(w) /\ Len(U) = Len(T)
  BY DEF Stored
<1>2. ASSUME Finds(U, o, w, v)
      PROVE  \/ Finds(T, o, w, v)
             \/ v = d /\ \E p \in [0 .. Len(w) -> 1 .. Len(T)] : Walk(T, o, w, p) /\ p[Len(w)] = q
  <2>1. PICK p \in [0 .. Len(w) -> 1 .. Len(T)] : Walk(U, o, w, p) /\ U[p[Len(w)]].data = v
    BY <1>1, <1>2 DEF Finds
  <2>2. Walk(T, o, w, p)
    BY <2>1, StoredWalks
  <2>3. p[Len(w)] = q => v = d
    BY <2>1 DEF Stored
  <2>4. p[Len(w)] # q => T[p[Len(w)]].data = v
    BY <1>1, <2>1 DEF Stored
  <2> QED BY <1>2, <2>2, <2>3, <2>4 DEF Finds
<1>3. ASSUME Finds(T, o, w, v) PROVE Finds(U, o, w, v)
  <2>1. PICK p \in [0 .. Len(w) -> 1 .. Len(T)] : Walk(T, o, w, p) /\ T[p[Len(w)]].data = v
    BY <1>3 DEF Finds
  <2>2. Walk(U, o, w, p)
    BY <2>1, StoredWalks
  <2>3. U[p[Len(w)]].data = v
    BY <1>1, <1>3, <2>1 DEF Stored, Finds
  <2> QED BY <1>1, <1>3, <2>2, <2>3 DEF Finds
<1>4. ASSUME v = d, NEW p \in [0 .. Len(w) -> 1 .. Len(T)], Walk(T, o, w, p), p[Len(w)] = q
      PROVE  Finds(U, o, w, v)
  <2>1. Walk(U, o, w, p)
    BY <1>4, StoredWalks
  <2>2. U[p[Len(w)]].data = v /\ v # NoData
    BY <1>4 DEF Stored
  <2> QED BY <1>1, <2>1, <2>2 DEF Finds
<1> QED BY <1>2, <1>3, <1>4

-----------------------------------------------------------------------------
(* What Values says                                                        *)

(* The recursion of Values, and what solves it: where the beginnings of    *)
(* the word lead.                                                          *)
OneOn(f, q, w, k) ==
  IF k = 0 THEN {q}
  ELSE { Transitions(p)[w[k]] : p \in { p \in f[k - 1] : w[k] \in DOMAIN Transitions(p) } }

Beginning(q, w, k, p) ==
  /\ p \in [0 .. k -> 1 .. Len(states)] /\ p[0] = q
  /\ \A i \in 1 .. k : Step(states, p[i - 1], w[i], p[i])

LedTo(q, w, k) ==
  { r \in 1 .. Len(states) : \E p \in [0 .. k -> 1 .. Len(states)] : Beginning(q, w, k, p) /\ p[k] = r }

LEMMA LedOn ==
  ASSUME IsTable(states), NEW q \in 1 .. Len(states), NEW w \in Seq(Labels),
         NEW k \in 1 .. Len(w), NEW r
  PROVE  r \in LedTo(q, w, k) <=> \E s \in LedTo(q, w, k - 1) : Step(states, s, w[k], r)
<1>1. Len(w) \in Nat /\ k - 1 \in Nat /\ k \in Nat /\ 0 .. k = (0 .. k - 1) \cup {k} /\ k \notin 0 .. k - 1
  OBVIOUS
<1>2. ASSUME r \in LedTo(q, w, k) PROVE \E s \in LedTo(q, w, k - 1) : Step(states, s, w[k], r)
  <2>1. PICK p \in [0 .. k -> 1 .. Len(states)] : Beginning(q, w, k, p) /\ p[k] = r
    BY <1>2 DEF LedTo
  <2> DEFINE c == [i \in 0 .. k - 1 |-> p[i]]
  <2>2. k - 1 \in 0 .. k - 1 /\ k - 1 \in 0 .. k /\ 0 \in 0 .. k - 1 /\ k \in 1 .. k
    BY <1>1
  <2>3. c \in [0 .. k - 1 -> 1 .. Len(states)] /\ c[0] = q /\ c[k - 1] = p[k - 1]
    BY <1>1, <2>1, <2>2 DEF Beginning
  <2>4. \A i \in 1 .. k - 1 : i \in 1 .. k /\ i - 1 \in 0 .. k - 1 /\ i \in 0 .. k - 1
    BY <1>1
  <2>5. \A i \in 1 .. k - 1 : Step(states, c[i - 1], w[i], c[i])
    BY <2>1, <2>4 DEF Beginning
  <2>6. Step(states, p[k - 1], w[k], r)
    BY <2>1, <2>2 DEF Beginning
  <2> HIDE DEF c
  <2>7. c[k - 1] \in LedTo(q, w, k - 1)
    BY <2>2, <2>3, <2>5 DEF LedTo, Beginning
  <2> QED BY <2>3, <2>6, <2>7
<1>3. ASSUME NEW s \in LedTo(q, w, k - 1), Step(states, s, w[k], r) PROVE r \in LedTo(q, w, k)
  <2>1. PICK p \in [0 .. k - 1 -> 1 .. Len(states)] : Beginning(q, w, k - 1, p) /\ p[k - 1] = s
    BY DEF LedTo
  <2>2. s \in 1 .. Len(states) /\ r \in 1 .. Len(states)
    <3>1. s \in 1 .. Len(states)
      BY DEF LedTo
    <3> QED BY <1>3, <3>1, StepTarget
  <2> DEFINE c == [i \in 0 .. k |-> IF i = k THEN r ELSE p[i]]
  <2>3. c \in [0 .. k -> 1 .. Len(states)] /\ c[0] = q /\ c[k] = r
    <3>1. \A i \in 0 .. k : i # k => i \in 0 .. k - 1
      BY <1>1
    <3>2. \A i \in 0 .. k : (IF i = k THEN r ELSE p[i]) \in 1 .. Len(states)
      BY <2>1, <2>2, <3>1
    <3>3. 0 \in 0 .. k /\ 0 # k /\ k \in 0 .. k /\ p[0] = q
      BY <1>1, <2>1 DEF Beginning
    <3> QED BY <3>2, <3>3
  <2>4. ASSUME NEW i \in 1 .. k PROVE Step(states, c[i - 1], w[i], c[i])
    <3>1. i - 1 \in 0 .. k /\ i \in 0 .. k /\ i - 1 # k
      BY <1>1
    <3>2. c[i - 1] = p[i - 1]
      BY <3>1
    <3>3. CASE i = k
      BY <1>3, <2>1, <2>3, <3>2, <3>3
    <3>4. CASE i # k
      <4>1. i \in 1 .. k - 1
        BY <1>1, <3>4
      <4>2. c[i] = p[i]
        BY <3>1, <3>4
      <4> HIDE DEF c
      <4> QED BY <2>1, <3>2, <4>1, <4>2 DEF Beginning
    <3> QED BY <3>3, <3>4
  <2> HIDE DEF c
  <2> QED BY <2>2, <2>3, <2>4 DEF LedTo, Beginning
<1> QED BY <1>2, <1>3

LEMMA LedToSolves ==
  ASSUME IsTable(states), NEW q \in 1 .. Len(states), NEW w \in Seq(Labels),
         NEW f, NEW k \in 0 .. Len(w), k # 0 => f[k - 1] = LedTo(q, w, k - 1)
  PROVE  OneOn(f, q, w, k) = LedTo(q, w, k)
<1>1. CASE k = 0
  <2> DEFINE c == [i \in 0 .. 0 |-> q]
  <2>1. \A r : r \in LedTo(q, w, 0) => r = q
    BY DEF LedTo, Beginning
  <2>2. c \in [0 .. 0 -> 1 .. Len(states)] /\ c[0] = q /\ \A i \in 1 .. 0 : FALSE
    OBVIOUS
  <2>3. q \in LedTo(q, w, 0)
    <3> HIDE DEF c
    <3> QED BY <2>2 DEF LedTo, Beginning
  <2> QED BY <1>1, <2>1, <2>3 DEF OneOn
<1>2. CASE k # 0
  <2>1. k \in 1 .. Len(w)
    BY <1>2
  <2>2. \A r : r \in OneOn(f, q, w, k) <=> \E s \in LedTo(q, w, k - 1) : Step(states, s, w[k], r)
    BY <1>2 DEF OneOn, Step, Transitions
  <2>3. \A r : r \in OneOn(f, q, w, k) <=> r \in LedTo(q, w, k)
    BY <2>1, <2>2, LedOn
  <2> QED BY <2>3, Zenon
<1> QED BY <1>1, <1>2

(* The recursion has one solution.                                         *)
LEMMA OnlyLedTo ==
  ASSUME IsTable(states), NEW q \in 1 .. Len(states), NEW w \in Seq(Labels),
         NEW f, f = [k \in 0 .. Len(w) |-> OneOn(f, q, w, k)]
  PROVE  f[Len(w)] = LedTo(q, w, Len(w))
<1> DEFINE bad == { k \in 0 .. Len(w) : f[k] # LedTo(q, w, k) }
<1>1. Len(w) \in Nat /\ Len(w) \in 0 .. Len(w)
  OBVIOUS
<1>2. bad = {}
  <2> SUFFICES ASSUME bad # {} PROVE FALSE
    OBVIOUS
  <2>1. PICK k \in bad : \A i \in bad : k <= i
    <3>1. bad \in SUBSET Nat
      BY <1>1
    <3> HIDE DEF bad
    <3> QED BY <3>1, LeastOf
  <2>2. k # 0 => k - 1 \in 0 .. Len(w) /\ ~(k <= k - 1)
    BY <1>1
  <2>3. k # 0 => f[k - 1] = LedTo(q, w, k - 1)
    BY <2>1, <2>2
  <2>4. OneOn(f, q, w, k) = LedTo(q, w, k)
    BY <2>3, LedToSolves
  <2>5. f[k] = OneOn(f, q, w, k)
    <3>1. k \in 0 .. Len(w)
      OBVIOUS
    <3> QED BY <3>1, Zenon
  <2> QED BY <2>4, <2>5
<1> QED BY <1>1, <1>2

(* What Values has for a word is what is found along its path.             *)
LEMMA ValuesFound ==
  ASSUME IsTable(states), NEW q \in 1 .. Len(states), NEW w \in Seq(Labels)
  PROVE  \A v : v \in Values(q, w) <=> Finds(states, q, w, v)
<1> DEFINE f == CHOOSE f : f = [k \in 0 .. Len(w) |-> OneOn(f, q, w, k)]
<1>1. \E g : g = [k \in 0 .. Len(w) |-> OneOn(g, q, w, k)]
  <2> DEFINE g == [k \in 0 .. Len(w) |-> LedTo(q, w, k)]
  <2>1. \A k \in 0 .. Len(w) : g[k] = OneOn(g, q, w, k)
    <3> SUFFICES ASSUME NEW k \in 0 .. Len(w) PROVE g[k] = OneOn(g, q, w, k)
      OBVIOUS
    <3>1. k # 0 => k - 1 \in 0 .. Len(w)
      OBVIOUS
    <3>2. k # 0 => g[k - 1] = LedTo(q, w, k - 1)
      BY <3>1
    <3>3. g[k] = LedTo(q, w, k)
      OBVIOUS
    <3> HIDE DEF g
    <3> QED BY <3>2, <3>3, LedToSolves
  <2>2. g = [k \in 0 .. Len(w) |-> g[k]]
    OBVIOUS
  <2> HIDE DEF g
  <2> QED BY <2>1, <2>2, Zenon
<1>2. f = [k \in 0 .. Len(w) |-> OneOn(f, q, w, k)]
  BY <1>1, Zenon
<1>3. Values(q, w) = { states[p].data : p \in f[Len(w)] } \ {NoData}
  BY Zenon DEF Values, OneOn
<1>4. f[Len(w)] = LedTo(q, w, Len(w))
  <2> HIDE DEF f
  <2> QED BY <1>2, OnlyLedTo
<1> HIDE DEF f
<1>5. \A v : v \in Values(q, w) <=> v # NoData /\ \E r \in LedTo(q, w, Len(w)) : v = states[r].data
  BY <1>3, <1>4
<1>6. \A p : Walk(states, q, w, p) <=> Beginning(q, w, Len(w), p)
  BY DEF Walk, Beginning
<1>7. Len(w) \in 0 .. Len(w)
  OBVIOUS
<1>8. \A v : (\E r \in LedTo(q, w, Len(w)) : v = states[r].data)
            <=> \E p \in [0 .. Len(w) -> 1 .. Len(states)] : Walk(states, q, w, p) /\ states[p[Len(w)]].data = v
  BY <1>6, <1>7 DEF LedTo
<1> QED BY <1>5, <1>8 DEF Finds

-----------------------------------------------------------------------------
(* The spine                                                               *)

(* Only the spine leads into the spine.                                    *)
LEMMA IntoSpine ==
  ASSUME NEW p, Spine(p), EdgesInv(p), SpineLen \in Nat,
         NEW k \in 0 .. SpineLen, NEW q \in 1 .. Len(states), NEW l, Step(states, q, l, p[k])
  PROVE  k # 0 /\ q = p[k - 1] /\ l = SpineWord[k]
<1>1. Transitions(q)[l] \notin Registered /\ l \in DOMAIN Transitions(q)
  BY DEF Spine, Step, Transitions
<1>2. PICK i \in 1 .. SpineLen : q = p[i - 1] /\ l = SpineWord[i]
  BY <1>1 DEF EdgesInv
<1>3. Step(states, p[i - 1], SpineWord[i], p[i])
  BY DEF Spine
<1>4. p[i] = p[k] /\ i \in 0 .. SpineLen
  BY <1>2, <1>3 DEF Step
<1>5. i = k
  BY <1>4 DEF Spine
<1> QED BY <1>2, <1>5

(* Only the spine's word leads to its end.                                 *)
LEMMA OnlySpine ==
  ASSUME IsTable(states), NEW p, Spine(p), EdgesInv(p), SpineLen \in Nat,
         NEW w \in Seq(Labels), NEW s, Walk(states, initial, w, s), s[Len(w)] = p[SpineLen]
  PROVE  Len(w) = SpineLen /\ \A i \in 1 .. SpineLen : w[i] = SpineWord[i]
<1> DEFINE n == SpineLen
           bad == { j \in Nat : j <= n /\ j <= Len(w) /\ s[Len(w) - j] # p[n - j] }
<1>1. Len(w) \in Nat /\ n \in Nat
  OBVIOUS
<1>2. ASSUME NEW i \in 1 .. Len(w)
      PROVE  s[i - 1] \in 1 .. Len(states) /\ Step(states, s[i - 1], w[i], s[i])
  <2>1. i - 1 \in 0 .. Len(w)
    BY <1>1
  <2> QED BY <2>1 DEF Walk
<1>3. bad = {}
  <2> SUFFICES ASSUME bad # {} PROVE FALSE
    OBVIOUS
  <2>1. PICK j \in bad : \A i \in bad : j <= i
    <3>1. bad \in SUBSET Nat
      OBVIOUS
    <3> HIDE DEF bad
    <3> QED BY <3>1, LeastOf
  <2>2. j # 0 /\ j \in Nat /\ j <= n /\ j <= Len(w)
    <3>1. Len(w) - 0 = Len(w) /\ n - 0 = n
      BY <1>1
    <3> QED BY <2>1, <3>1
  <2>3. j - 1 \in Nat /\ j - 1 <= n /\ j - 1 <= Len(w) /\ ~(j <= j - 1)
    BY <1>1, <2>2
  <2>4. s[Len(w) - (j - 1)] = p[n - (j - 1)]
    BY <2>1, <2>3
  <2>5. /\ Len(w) - (j - 1) \in 1 .. Len(w) /\ (Len(w) - (j - 1)) - 1 = Len(w) - j
        /\ n - (j - 1) \in 0 .. n /\ (n - (j - 1)) - 1 = n - j
    BY <1>1, <2>2
  <2>6. s[Len(w) - j] = p[n - j]
    <3>1. /\ s[Len(w) - j] \in 1 .. Len(states)
          /\ Step(states, s[Len(w) - j], w[Len(w) - (j - 1)], p[n - (j - 1)])
      BY <1>2, <2>4, <2>5
    <3>2. s[Len(w) - j] = p[(n - (j - 1)) - 1]
      BY <2>5, <3>1, IntoSpine
    <3> QED BY <2>5, <3>2
  <2> QED BY <2>1, <2>6
<1>4. \A j \in Nat : j <= n /\ j <= Len(w) => s[Len(w) - j] = p[n - j]
  BY <1>3
<1>5. s[0] = p[0]
  BY DEF Walk, Spine
<1> HIDE DEF bad
<1>6. ~(Len(w) < n)
  <2> SUFFICES ASSUME Len(w) < n PROVE FALSE
    OBVIOUS
  <2>1. s[Len(w) - Len(w)] = p[n - Len(w)]
    BY <1>1, <1>4
  <2>2. Len(w) - Len(w) = 0 /\ n - Len(w) \in 0 .. n /\ 0 \in 0 .. n /\ n - Len(w) # 0
    BY <1>1
  <2>3. p[0] = p[n - Len(w)]
    BY <1>5, <2>1, <2>2
  <2> QED BY <2>2, <2>3 DEF Spine
<1>7. ~(n < Len(w))
  <2> SUFFICES ASSUME n < Len(w) PROVE FALSE
    OBVIOUS
  <2>1. s[Len(w) - n] = p[n - n] /\ n - n = 0 /\ 0 \in 0 .. n /\ Len(w) - n \in 1 .. Len(w)
    BY <1>1, <1>4
  <2>2. s[(Len(w) - n) - 1] \in 1 .. Len(states)
        /\ Step(states, s[(Len(w) - n) - 1], w[Len(w) - n], p[0])
    BY <1>2, <2>1
  <2> QED BY <2>1, <2>2, IntoSpine
<1>8. Len(w) = n
  BY <1>1, <1>6, <1>7
<1>9. ASSUME NEW i \in 1 .. n PROVE w[i] = SpineWord[i]
  <2>1. n - i \in Nat /\ n - i <= n /\ n - (n - i) = i /\ i \in 0 .. n /\ i \in 1 .. Len(w)
    BY <1>1, <1>8
  <2>2. s[i] = p[i]
    BY <1>4, <1>8, <2>1
  <2>3. s[i - 1] \in 1 .. Len(states) /\ Step(states, s[i - 1], w[i], p[i])
    BY <1>2, <2>1, <2>2
  <2>4. i \in 0 .. SpineLen
    BY <2>1
  <2> QED BY ONLY Spine(p), EdgesInv(p), SpineLen \in Nat, <2>3, <2>4, IntoSpine
<1> QED BY <1>8, <1>9

(* What differs first tells the order of two words.                        *)
LEMMA LessAt ==
  ASSUME NEW u \in Seq(Labels), NEW v \in Seq(Labels), Less(u, v),
         NEW n \in Nat, n <= Len(u), n <= Len(v), \A i \in 1 .. n : u[i] = v[i]
  PROVE  /\ n < Len(v)
         /\ n < Len(u) => u[n + 1] <= v[n + 1]
<1>1. PICK k \in 1 .. Len(v) : /\ k - 1 <= Len(u) /\ \A i \in 1 .. k - 1 : u[i] = v[i]
                               /\ k <= Len(u) => u[k] < v[k]
  BY DEF Less
<1>2. Len(u) \in Nat /\ Len(v) \in Nat
  OBVIOUS
<1>3. k > n
  <2> SUFFICES ASSUME k <= n PROVE FALSE
    BY <1>2
  <2>1. k \in 1 .. n /\ k <= Len(u) /\ k \in 1 .. Len(u)
    BY <1>2
  <2>2. u[k] = v[k] /\ u[k] < v[k] /\ u[k] \in Nat
    BY <1>1, <2>1, WordElements
  <2> QED BY <2>2
<1>4. n < Len(v)
  BY <1>2, <1>3
<1>5. ASSUME n < Len(u) PROVE u[n + 1] <= v[n + 1]
  <2>1. n + 1 \in 1 .. Len(u) /\ n + 1 \in 1 .. Len(v)
    BY <1>2, <1>4, <1>5
  <2>2. u[n + 1] \in Nat /\ v[n + 1] \in Nat
    BY <2>1, WordElements
  <2>3. CASE k = n + 1
    BY <1>1, <2>1, <2>2, <2>3
  <2>4. CASE k # n + 1
    <3>1. n + 1 \in 1 .. k - 1
      BY <1>3, <2>4
    <3> QED BY <1>1, <2>2, <3>1
  <2> QED BY <2>3, <2>4
<1> QED BY <1>4, <1>5

-----------------------------------------------------------------------------
(* The steps                                                               *)

(* Steps that leave the states as they are.                                *)
LEMMA BuilderSame ==
  ASSUME IInv, UNCHANGED <<builder, entries>>
  PROVE  TableInv' /\ Exact'
<1>1. TableInv'
  BY DEF IInv, TableInv, IsTable, IsState, builder
<1>2. Exact'
  <2>1. states' = states /\ initial' = initial /\ entries' = entries
    BY DEF builder
  <2> QED BY <2>1 DEF IInv, Exact
<1> QED BY <1>1, <1>2

LEMMA SpineSame ==
  ASSUME NEW p, Spine(p), EdgesInv(p), UNCHANGED builder,
         SpineLen' = SpineLen, \A i \in 1 .. SpineLen : SpineWord'[i] = SpineWord[i]
  PROVE  Spine(p)' /\ EdgesInv(p)'
<1>1. states' = states /\ initial' = initial /\ Registered' = Registered
  BY DEF builder, Registered
<1>2. Spine(p)'
  BY <1>1 DEF Spine, Step
<1>3. EdgesInv(p)'
  BY <1>1 DEF EdgesInv, Transitions
<1> QED BY <1>2, <1>3

LEMMA BuildingStep ==
  ASSUME AddingInv', NEW p, Spine(p)', EdgesInv(p)', OrderInv(p)', PlaceInv(p)'
  PROVE  BuildingInv'
BY DEF BuildingInv, Spine

(* Steps that only choose what is done next to the whole of the spine.     *)
LEMMA PrepareKeeps == IInv /\ Prepare => IInv'
<1> SUFFICES ASSUME IInv, Prepare PROVE IInv'
  OBVIOUS
<1>1. TableInv' /\ Exact'
  BY BuilderSame DEF Prepare
<1>2. BuildingInv /\ pc' \in BuildingPcs \cup LaterPcs
  BY DEF IInv, Prepare, BuildingPcs, LaterPcs
<1>3. ASSUME pc' \in BuildingPcs PROVE BuildingInv'
  <2>1. PICK p : Spine(p) /\ EdgesInv(p) /\ OrderInv(p) /\ PlaceInv(p)
    BY <1>2 DEF BuildingInv
  <2>2. /\ SpineLen = Len(previous) /\ SpineWord = previous
        /\ SpineLen' = Len(previous) /\ SpineWord' = previous
    BY <1>3 DEF Prepare, SpineLen, SpineWord, BuildingPcs
  <2>3. Spine(p)' /\ EdgesInv(p)'
    BY <2>1, <2>2, SpineSame DEF Prepare
  <2>4. OrderInv(p)'
    BY <2>1, <2>2 DEF OrderInv, Prepare, builder, Transitions
  <2>5. PlaceInv(p)' /\ AddingInv'
    BY <1>2, <1>3 DEF PlaceInv, AddingInv, BuildingInv, Prepare, adding, BuildingPcs
  <2> QED BY <2>3, <2>4, <2>5, BuildingStep
<1> QED BY <1>1, <1>2, <1>3 DEF IInv

LEMMA AddEntryKeeps ==
  ASSUME IInv, NEW w \in Seq(Labels), NEW d, d # NoData, AddEntry(w, d)
  PROVE  IInv'
<1>1. TableInv' /\ Exact'
  BY BuilderSame DEF AddEntry
<1>2. BuildingInv /\ pc' = "walk"
  BY DEF IInv, AddEntry, BuildingPcs
<1>3. PICK p : Spine(p) /\ EdgesInv(p) /\ OrderInv(p) /\ PlaceInv(p)
  BY <1>2 DEF BuildingInv
<1>4. /\ SpineLen = Len(previous) /\ SpineWord = previous
      /\ SpineLen' = Len(previous) /\ SpineWord' = previous
  BY DEF AddEntry, SpineLen, SpineWord
<1>5. Spine(p)' /\ EdgesInv(p)'
  BY <1>3, <1>4, SpineSame DEF AddEntry
<1>6. OrderInv(p)'
  BY <1>3, <1>4 DEF OrderInv, AddEntry, builder, Transitions
<1>7. Len(previous) \in Nat /\ Len(w) \in Nat
  BY <1>2 DEF BuildingInv, AddingInv
<1>8. initial \in 1 .. Len(states) /\ initial # NoState
  BY DEF IInv, TableInv, NoState
<1>9. AddingInv'
  BY <1>2, <1>7, <1>8 DEF BuildingInv, AddingInv, AddEntry, Valid
<1>10. PlaceInv(p)'
  BY <1>3, <1>4, <1>7 DEF PlaceInv, AddEntry, Spine, builder
<1>11. BuildingInv'
  BY <1>5, <1>6, <1>9, <1>10, BuildingStep
<1> QED BY <1>1, <1>2, <1>11 DEF IInv, BuildingPcs

LEMMA RefuseKeeps ==
  ASSUME IInv, NEW w, Refuse(w)
  PROVE  IInv'
<1>1. TableInv' /\ Exact'
  BY BuilderSame DEF Refuse
<1> QED BY <1>1 DEF IInv, Refuse, BuildingPcs, LaterPcs

(* close: all of the spine is registered, from the initial state on.       *)
LEMMA CloseKeeps == IInv /\ Close => IInv'
<1> SUFFICES ASSUME IInv, Close PROVE IInv'
  OBVIOUS
<1>1. TableInv' /\ Exact'
  BY BuilderSame DEF Close
<1>2. CASE entries = <<>>
  BY <1>1, <1>2 DEF IInv, Close, BuildingPcs, LaterPcs
<1>3. CASE entries # <<>>
  <2>1. BuildingInv /\ pc' = "descend" /\ stack' = <<initial>> /\ at' = NoState /\ pc = "ready"
    BY <1>3 DEF IInv, Close, BuildingPcs
  <2>2. PICK p : Spine(p) /\ EdgesInv(p) /\ OrderInv(p) /\ PlaceInv(p)
    BY <2>1 DEF BuildingInv
  <2>3. /\ SpineLen = Len(previous) /\ SpineWord = previous
        /\ SpineLen' = Len(previous) /\ SpineWord' = previous
    BY <2>1 DEF Close, SpineLen, SpineWord
  <2>4. Spine(p)' /\ EdgesInv(p)'
    BY <2>2, <2>3, SpineSame DEF Close
  <2>5. OrderInv(p)'
    BY <2>1, <2>2, <2>3 DEF OrderInv, Close, builder, Transitions
  <2>6. AddingInv'
    BY <2>1 DEF BuildingInv, AddingInv, Close
  <2>7. Len(stack') = 1 /\ stack' = [i \in 1 .. Len(stack') |-> stack'[i]] /\ stack'[1] = p[0]
    BY <2>1, <2>2 DEF Spine
  <2>8. Passed(1)' = 0 /\ Len(previous) \in Nat
    BY <2>1 DEF Passed, BuildingInv, AddingInv
  <2>9. PlaceInv(p)'
    <3>1. \A i \in 1 .. 1 : i = 1
      OBVIOUS
    <3> QED BY <2>1, <2>3, <2>7, <2>8, <3>1 DEF PlaceInv
  <2>10. BuildingInv'
    BY <2>4, <2>5, <2>6, <2>9, BuildingStep
  <2> QED BY <1>1, <2>1, <2>10 DEF IInv, BuildingPcs
<1> QED BY <1>2, <1>3

(* What comes after the automaton is built.                                *)
LEMMA LayoutKeeps == IInv /\ (Visit \/ Leave \/ Write) => IInv'
<1> SUFFICES ASSUME IInv, Visit \/ Leave \/ Write PROVE IInv'
  OBVIOUS
<1>1. TableInv' /\ Exact'
  BY BuilderSame DEF Visit, Leave, Write
<1>2. pc' \in LaterPcs
  BY DEF Visit, Leave, Write, LaterPcs
<1> QED BY <1>1, <1>2 DEF IInv, BuildingPcs, LaterPcs

LEMMA StutterKeeps == IInv /\ UNCHANGED fsa => IInv'
<1> SUFFICES ASSUME IInv, UNCHANGED fsa PROVE IInv'
  OBVIOUS
<1>1. TableInv' /\ Exact'
  BY BuilderSame DEF fsa, builder
<1>2. ASSUME pc \in BuildingPcs PROVE BuildingInv'
  <2>1. BuildingInv
    BY <1>2 DEF IInv
  <2>2. PICK p : Spine(p) /\ EdgesInv(p) /\ OrderInv(p) /\ PlaceInv(p)
    BY <2>1 DEF BuildingInv
  <2>3. SpineLen' = SpineLen /\ SpineWord' = SpineWord
    BY DEF fsa, adding, SpineLen, SpineWord, Passed
  <2>4. Spine(p)' /\ EdgesInv(p)'
    BY <2>2, <2>3, SpineSame DEF fsa, builder
  <2>5. OrderInv(p)'
    BY <2>2, <2>3 DEF OrderInv, fsa, builder, Transitions
  <2>6. AddingInv'
    BY <2>1, <2>3 DEF BuildingInv, AddingInv, fsa, builder, adding, Valid
  <2>7. PlaceInv(p)'
    BY <2>2, <2>3 DEF PlaceInv, fsa, builder, adding, Passed
  <2> QED BY <2>4, <2>5, <2>6, <2>7, BuildingStep
<1> QED BY <1>1, <1>2 DEF IInv, fsa

(* On the way along the word, only the previous word's next label can be   *)
(* followed.                                                               *)
LEMMA WalkOrder ==
  ASSUME IInv, pc = "walk"
  PROVE  /\ prefix_len < Len(word)
         /\ prefix_len < Len(previous) => previous[prefix_len + 1] <= word[prefix_len + 1]
<1>1. AddingInv /\ at # NoState
  BY DEF IInv, BuildingInv, AddingInv, BuildingPcs
<1>2. /\ previous \in Seq(Labels) /\ word \in Seq(Labels) /\ Valid(word)
      /\ prefix_len \in 0 .. Len(word) /\ prefix_len <= Len(previous)
      /\ \A i \in 1 .. prefix_len : word[i] = previous[i]
  BY <1>1 DEF AddingInv
<1>3. Len(previous) \in Nat /\ Len(word) \in Nat /\ prefix_len \in Nat /\ prefix_len <= Len(word)
  BY <1>2
<1>4. CASE previous = <<>>
  BY <1>2, <1>3, <1>4 DEF Valid
<1>5. CASE previous # <<>>
  <2>1. Less(previous, word)
    BY <1>2, <1>5 DEF Valid
  <2>2. \A i \in 1 .. prefix_len : previous[i] = word[i]
    BY <1>2
  <2> QED BY <1>2, <1>3, <2>1, <2>2, LessAt
<1> QED BY <1>4, <1>5

LEMMA FollowKeeps == IInv /\ Follow => IInv'
<1> SUFFICES ASSUME IInv, Follow PROVE IInv'
  OBVIOUS
<1>1. TableInv' /\ Exact'
  BY BuilderSame DEF Follow
<1>2. BuildingInv /\ AddingInv /\ pc = "walk" /\ pc' = "walk"
  BY DEF IInv, Follow, BuildingPcs, BuildingInv
<1>3. PICK p : Spine(p) /\ EdgesInv(p) /\ OrderInv(p) /\ PlaceInv(p)
  BY <1>2 DEF BuildingInv
<1>4. /\ SpineLen = Len(previous) /\ SpineWord = previous
      /\ SpineLen' = Len(previous) /\ SpineWord' = previous
  BY DEF Follow, SpineLen, SpineWord
<1>5. Spine(p)' /\ EdgesInv(p)'
  BY <1>3, <1>4, SpineSame DEF Follow
<1>6. OrderInv(p)'
  BY <1>2, <1>3, <1>4 DEF OrderInv, Follow, builder, Transitions
<1>7. /\ at # NoState /\ at = p[prefix_len] /\ prefix_len \in 0 .. Len(previous)
      /\ Len(previous) \in Nat /\ Len(word) \in Nat /\ prefix_len \in Nat
  BY <1>2, <1>3, <1>4 DEF AddingInv, PlaceInv
<1> DEFINE label == word[prefix_len + 1]
<1>8. prefix_len < Len(word) /\ label \in DOMAIN Transitions(p[prefix_len]) /\ at' = Transitions(at)[label]
  BY <1>7 DEF Follow, Known
<1>9. prefix_len < Len(previous)
  <2>1. prefix_len = Len(previous) => FALSE
    BY <1>2, <1>3, <1>4, <1>8 DEF OrderInv
  <2> QED BY <1>7, <2>1
<1>10. prefix_len + 1 \in 1 .. Len(previous) /\ prefix_len + 1 \in 1 .. Len(word) /\ (prefix_len + 1) - 1 = prefix_len
  BY <1>7, <1>8, <1>9
<1>11. label = previous[prefix_len + 1]
  <2>1. label <= previous[prefix_len + 1]
    BY <1>3, <1>4, <1>8, <1>10 DEF OrderInv
  <2>2. previous[prefix_len + 1] <= label
    BY <1>2, <1>9, WalkOrder
  <2>3. previous[prefix_len + 1] \in Nat /\ label \in Nat
    BY <1>2, <1>10, WordElements DEF AddingInv
  <2> HIDE DEF label
  <2> QED BY <2>1, <2>2, <2>3
<1>12. at' = p[prefix_len + 1]
  <2>1. Step(states, p[prefix_len], previous[prefix_len + 1], p[prefix_len + 1])
    BY <1>3, <1>4, <1>10 DEF Spine
  <2> QED BY <1>7, <1>8, <1>11, <2>1 DEF Step, Transitions
<1>13. at' # NoState
  BY <1>3, <1>4, <1>10, <1>12 DEF Spine, NoState
<1>14. prefix_len' = prefix_len + 1 /\ word' = word /\ previous' = previous /\ data' = data
  BY DEF Follow
<1>15. AddingInv'
  <2>1. \A i \in 1 .. prefix_len + 1 : word[i] = previous[i]
    <3> SUFFICES ASSUME NEW i \in 1 .. prefix_len + 1 PROVE word[i] = previous[i]
      OBVIOUS
    <3>1. CASE i \in 1 .. prefix_len
      BY <1>2, <1>7, <3>1 DEF AddingInv
    <3>2. CASE i \notin 1 .. prefix_len
      <4>1. i = prefix_len + 1
        BY <1>7, <3>2
      <4> QED BY <1>11, <4>1
    <3> QED BY <3>1, <3>2
  <2> QED BY <1>2, <1>7, <1>10, <1>13, <1>14, <2>1 DEF AddingInv, Valid
<1>16. PlaceInv(p)'
  BY <1>2, <1>4, <1>7, <1>10, <1>12, <1>14 DEF PlaceInv
<1>17. BuildingInv'
  BY <1>5, <1>6, <1>15, <1>16, BuildingStep
<1> QED BY <1>1, <1>2, <1>17 DEF IInv, BuildingPcs

LEMMA DivergeKeeps == IInv /\ Diverge => IInv'
<1> SUFFICES ASSUME IInv, Diverge PROVE IInv'
  OBVIOUS
<1>1. TableInv' /\ Exact'
  BY BuilderSame DEF Diverge
<1>2. BuildingInv /\ AddingInv /\ pc = "walk"
  BY DEF IInv, Diverge, BuildingPcs, BuildingInv
<1>3. PICK p : Spine(p) /\ EdgesInv(p) /\ OrderInv(p) /\ PlaceInv(p)
  BY <1>2 DEF BuildingInv
<1>4. SpineLen = Len(previous) /\ SpineWord = previous
  BY <1>2 DEF SpineLen, SpineWord
<1>5. /\ at # NoState /\ at = p[prefix_len] /\ prefix_len \in 0 .. Len(previous)
      /\ Len(previous) \in Nat /\ Len(word) \in Nat /\ prefix_len \in Nat
      /\ \A i \in 1 .. prefix_len : word[i] = previous[i]
  BY <1>2, <1>3, <1>4 DEF AddingInv, PlaceInv
<1>6. /\ prefix_len < Len(word) /\ word[prefix_len + 1] \notin DOMAIN Transitions(at)
      /\ prefix_len < Len(previous) => previous[prefix_len + 1] <= word[prefix_len + 1]
  BY <1>2, WalkOrder DEF Diverge, Known
<1>7. /\ prefix_len' = prefix_len /\ word' = word /\ previous' = previous /\ data' = data /\ at' = at
      /\ states' = states /\ UNCHANGED builder
  BY DEF Diverge, adding, builder
<1>8. CASE prefix_len < Len(previous)
  <2>1. pc' = "descend" /\ stack' = <<Transitions(at)[previous[prefix_len + 1]]>>
        /\ previous[prefix_len + 1] \in DOMAIN Transitions(at)
    BY <1>8 DEF Diverge
  <2>2. SpineLen' = SpineLen /\ SpineWord' = SpineWord
    BY <1>4, <1>7, <2>1 DEF SpineLen, SpineWord
  <2>3. Spine(p)' /\ EdgesInv(p)'
    BY <1>3, <1>7, <2>2, SpineSame
  <2>4. OrderInv(p)'
    BY <1>2, <1>3, <1>7, <2>1, <2>2 DEF OrderInv, Transitions
  <2>5. prefix_len + 1 \in 1 .. Len(previous) /\ prefix_len + 1 \in 1 .. Len(word) /\ (prefix_len + 1) - 1 = prefix_len
    BY <1>5, <1>6, <1>8
  <2>6. previous[prefix_len + 1] < word[prefix_len + 1]
    <3>1. previous[prefix_len + 1] \in Nat /\ word[prefix_len + 1] \in Nat
      BY <1>2, <2>5, WordElements DEF AddingInv
    <3>2. previous[prefix_len + 1] # word[prefix_len + 1]
      BY <1>6, <2>1
    <3> QED BY <1>6, <1>8, <3>1, <3>2
  <2>7. AddingInv'
    BY <1>2, <1>5, <1>6, <1>7, <1>8, <2>1, <2>6 DEF AddingInv, Valid
  <2>8. PlaceInv(p)'
    <3>1. stack'[1] = p[prefix_len + 1]
      <4>1. Step(states, p[prefix_len], previous[prefix_len + 1], p[prefix_len + 1])
        BY <1>3, <1>4, <2>5 DEF Spine
      <4> QED BY <1>5, <2>1, <4>1 DEF Step, Transitions
    <3>2. Passed(1)' = prefix_len + 1
      BY <1>5, <1>7 DEF Passed
    <3>3. Len(stack') = 1 /\ stack' = [i \in 1 .. Len(stack') |-> stack'[i]] /\ \A i \in 1 .. 1 : i = 1
      BY <2>1
    <3> QED BY <1>4, <1>5, <1>7, <2>1, <2>2, <2>5, <3>1, <3>2, <3>3 DEF PlaceInv
  <2>9. BuildingInv'
    BY <2>3, <2>4, <2>7, <2>8, BuildingStep
  <2> QED BY <1>1, <2>1, <2>9 DEF IInv, BuildingPcs
<1>9. CASE ~(prefix_len < Len(previous))
  <2>1. pc' = "extend" /\ prefix_len = Len(previous)
    BY <1>5, <1>9 DEF Diverge
  <2>2. SpineLen' = SpineLen /\ SpineWord' = word
    BY <1>4, <1>7, <2>1 DEF SpineLen, SpineWord
  <2>3. \A i \in 1 .. SpineLen : SpineWord'[i] = SpineWord[i]
    BY <1>4, <1>5, <2>1, <2>2
  <2>4. Spine(p)' /\ EdgesInv(p)'
    BY <1>3, <1>7, <2>2, <2>3, SpineSame
  <2>5. OrderInv(p)'
    <3>1. \A l \in DOMAIN Transitions(p[SpineLen]) : FALSE
      BY <1>2, <1>3, <1>4 DEF OrderInv
    <3>2. \A q : Transitions(q)' = Transitions(q)
      BY <1>7 DEF Transitions
    <3> QED BY <1>3, <2>2, <2>3, <3>1, <3>2 DEF OrderInv
  <2>6. AddingInv'
    BY <1>2, <1>5, <1>6, <1>7, <2>1 DEF AddingInv, Valid
  <2>7. PlaceInv(p)'
    BY <1>4, <1>5, <1>7, <2>1, <2>2 DEF PlaceInv
  <2>8. BuildingInv'
    BY <2>4, <2>5, <2>6, <2>7, BuildingStep
  <2> QED BY <1>1, <2>1, <2>8 DEF IInv, BuildingPcs
<1> QED BY <1>8, <1>9

LEMMA DescendKeeps == IInv /\ Descend => IInv'
<1> SUFFICES ASSUME IInv, Descend PROVE IInv'
  OBVIOUS
<1>1. TableInv' /\ Exact'
  BY BuilderSame DEF Descend
<1>2. BuildingInv /\ AddingInv /\ pc = "descend"
  BY DEF IInv, Descend, BuildingPcs, BuildingInv
<1>3. PICK p : Spine(p) /\ EdgesInv(p) /\ OrderInv(p) /\ PlaceInv(p)
  BY <1>2 DEF BuildingInv
<1>4. SpineLen = Len(previous) /\ SpineWord = previous /\ Len(previous) \in Nat /\ prefix_len \in Nat
  BY <1>2 DEF SpineLen, SpineWord, AddingInv
<1>5. /\ prefix_len' = prefix_len /\ word' = word /\ previous' = previous /\ data' = data /\ at' = at
      /\ states' = states /\ UNCHANGED builder
  BY DEF Descend, adding, builder
<1>6. /\ Len(stack) \in Nat \ {0} /\ stack = [i \in 1 .. Len(stack) |-> stack[i]]
      /\ \A i \in 1 .. Len(stack) : Passed(i) <= Len(previous) /\ stack[i] = p[Passed(i)]
  BY <1>2, <1>3, <1>4 DEF PlaceInv
<1>7. \A i : Passed(i)' = Passed(i)
  BY <1>5 DEF Passed
<1>8. CASE Passed(Len(stack)) = Len(previous)
  <2>1. pc' = "register" /\ stack' = stack
    BY <1>8 DEF Descend
  <2>2. SpineLen' = SpineLen /\ SpineWord' = SpineWord
    BY <1>4, <1>5, <1>7, <1>8, <2>1 DEF SpineLen, SpineWord
  <2>3. Spine(p)' /\ EdgesInv(p)'
    BY <1>3, <1>5, <2>2, SpineSame
  <2>4. OrderInv(p)'
    BY <1>3, <1>5, <2>1, <2>2 DEF OrderInv, Transitions
  <2>5. AddingInv'
    BY <1>2, <1>4, <1>5, <2>1, <2>2 DEF AddingInv, Valid
  <2>6. PlaceInv(p)'
    BY <1>2, <1>3, <1>5, <1>7, <2>1, <2>2 DEF PlaceInv
  <2>7. BuildingInv'
    BY <2>3, <2>4, <2>5, <2>6, BuildingStep
  <2> QED BY <1>1, <2>1, <2>7 DEF IInv, BuildingPcs
<1>9. CASE Passed(Len(stack)) # Len(previous)
  <2> DEFINE n == Passed(Len(stack))
             label == previous[n + 1]
  <2>1. /\ pc' = "descend" /\ label \in DOMAIN Transitions(Top)
        /\ stack' = Append(stack, Transitions(Top)[label])
    BY <1>2, <1>9 DEF Descend
  <2>2. n \in Nat /\ n < Len(previous) /\ Top = p[n]
    <3>1. n \in Nat
      BY <1>4, <1>6 DEF Passed
    <3>2. n <= Len(previous) /\ stack[Len(stack)] = p[n]
      BY <1>6
    <3> HIDE DEF n
    <3> QED BY <1>4, <1>9, <3>1, <3>2 DEF Top, n
  <2>3. n + 1 \in 1 .. Len(previous) /\ (n + 1) - 1 = n /\ n + 1 \in 0 .. Len(previous)
    BY <1>4, <2>2
  <2>4. Transitions(Top)[label] = p[n + 1] /\ p[n + 1] \in 1 .. Len(states)
    <3>1. Step(states, p[n], previous[n + 1], p[n + 1])
      BY <1>3, <1>4, <2>3 DEF Spine
    <3>2. p[n + 1] \in 1 .. Len(states)
      BY <1>3, <1>4, <2>3 DEF Spine
    <3> QED BY <2>2, <3>1, <3>2 DEF Step, Transitions
  <2>5. Passed(Len(stack) + 1) = n + 1
    BY <1>4, <1>6 DEF Passed
  <2>6. stack \in Seq(1 .. Len(states))
    <3>1. \A i \in 1 .. Len(stack) : stack[i] \in 1 .. Len(states)
      <4> SUFFICES ASSUME NEW i \in 1 .. Len(stack) PROVE stack[i] \in 1 .. Len(states)
        OBVIOUS
      <4>1. Passed(i) \in 0 .. Len(previous)
        BY <1>4, <1>6 DEF Passed
      <4> QED BY <1>3, <1>4, <1>6, <4>1 DEF Spine
    <3> QED BY <1>6, <3>1
  <2>7. /\ Len(stack') = Len(stack) + 1 /\ stack' = [i \in 1 .. Len(stack') |-> stack'[i]]
        /\ \A i \in 1 .. Len(stack) : stack'[i] = stack[i]
        /\ stack'[Len(stack) + 1] = p[n + 1]
    <3> HIDE DEF label
    <3> QED BY <2>1, <2>4, <2>6
  <2>8. SpineLen' = SpineLen /\ SpineWord' = SpineWord
    BY <1>4, <1>5, <2>1 DEF SpineLen, SpineWord
  <2>9. Spine(p)' /\ EdgesInv(p)'
    BY <1>3, <1>5, <2>8, SpineSame
  <2>10. OrderInv(p)'
    BY <1>2, <1>3, <1>5, <2>1, <2>8 DEF OrderInv, Transitions
  <2>11. AddingInv'
    BY <1>2, <1>4, <1>5, <2>1 DEF AddingInv, Valid
  <2>12. \A i \in 1 .. Len(stack') : Passed(i)' <= SpineLen' /\ stack'[i] = p[Passed(i)']
    <3> SUFFICES ASSUME NEW i \in 1 .. Len(stack') PROVE Passed(i)' <= SpineLen' /\ stack'[i] = p[Passed(i)']
      OBVIOUS
    <3>1. CASE i \in 1 .. Len(stack)
      BY <1>4, <1>6, <1>7, <2>7, <2>8, <3>1
    <3>2. CASE i \notin 1 .. Len(stack)
      <4>1. i = Len(stack) + 1
        BY <1>6, <2>7, <3>2
      <4> HIDE DEF n
      <4> QED BY <1>4, <1>7, <2>3, <2>5, <2>7, <2>8, <4>1
    <3> QED BY <3>1, <3>2
  <2>13. Len(stack') \in Nat \ {0}
    BY <1>6, <2>7
  <2>14. PlaceInv(p)'
    BY <1>2, <1>3, <1>5, <2>1, <2>7, <2>8, <2>12, <2>13 DEF PlaceInv
  <2>15. BuildingInv'
    BY <2>9, <2>10, <2>11, <2>14, BuildingStep
  <2> QED BY <1>1, <2>1, <2>15 DEF IInv, BuildingPcs
<1> QED BY <1>8, <1>9

-----------------------------------------------------------------------------
(* Steps that change states                                                *)

LEMMA LengthIs ==
  ASSUME NEW n \in Nat, NEW U, U = [i \in 1 .. n |-> U[i]]
  PROVE  Len(U) = n
<1>1. Len([i \in 1 .. n |-> U[i]]) = n
  OBVIOUS
<1> QED BY <1>1

LEMMA SetTransitionIs ==
  ASSUME NEW T, IsTable(T), NEW q \in 1 .. Len(T), NEW l \in Labels, NEW r,
         NEW U, U = SetTransition(T, q, l, r)
  PROVE  /\ Len(U) = Len(T) /\ U = [s \in 1 .. Len(T) |-> U[s]]
         /\ U[q] = [data |-> T[q].data, transitions |-> U[q].transitions]
         /\ U[q].data = T[q].data
         /\ DOMAIN U[q].transitions = DOMAIN T[q].transitions \cup {l}
         /\ U[q].transitions = [m \in DOMAIN U[q].transitions |-> U[q].transitions[m]]
         /\ U[q].transitions[l] = r
         /\ \A m \in DOMAIN T[q].transitions : m # l => U[q].transitions[m] = T[q].transitions[m]
         /\ \A s \in 1 .. Len(T) : s # q => U[s] = T[s]
<1> DEFINE old == T[q].transitions
           new == [m \in DOMAIN old \cup {l} |-> IF m = l THEN r ELSE old[m]]
<1>1. T = [s \in 1 .. Len(T) |-> T[s]] /\ Len(T) \in Nat
      /\ T[q] = [data |-> T[q].data, transitions |-> old]
  BY DEF IsTable, IsState
<1>2. U = [T EXCEPT ![q].transitions = new]
  BY Zenon DEF SetTransition
<1>3. U[q] = [T[q] EXCEPT !.transitions = new]
  <2> HIDE DEF new
  <2> QED BY <1>1, <1>2
<1>4. U[q] = [data |-> T[q].data, transitions |-> new]
  <2> HIDE DEF new, old
  <2> QED BY <1>1, <1>3
<1>5. \A s \in 1 .. Len(T) : s # q => U[s] = T[s]
  <2> HIDE DEF new
  <2> QED BY <1>1, <1>2
<1>6. U = [s \in 1 .. Len(T) |-> U[s]]
  <2> HIDE DEF new
  <2> QED BY <1>1, <1>2
<1>7. Len(U) = Len(T)
  BY <1>1, <1>6, LengthIs
<1>8. U[q].transitions = new /\ U[q].data = T[q].data
  <2> HIDE DEF new
  <2> QED BY <1>4
<1>9. DOMAIN new = DOMAIN old \cup {l} /\ new[l] = r /\ new = [m \in DOMAIN new |-> new[m]]
      /\ \A m \in DOMAIN old : m # l => new[m] = old[m]
  OBVIOUS
<1> HIDE DEF new
<1> QED BY <1>4, <1>5, <1>6, <1>7, <1>8, <1>9

(* A state with the same record finds the same.                            *)
LEMMA SameRecordFinds ==
  ASSUME NEW T, IsTable(T), NEW q \in 1 .. Len(T), NEW r \in 1 .. Len(T), T[q] = T[r],
         NEW w \in Seq(Labels), NEW v, Finds(T, q, w, v)
  PROVE  Finds(T, r, w, v)
<1>1. PICK p \in [0 .. Len(w) -> 1 .. Len(T)] : Walk(T, q, w, p) /\ T[p[Len(w)]].data = v
  BY DEF Finds
<1> DEFINE s == [i \in 0 .. Len(w) |-> IF i = 0 THEN r ELSE p[i]]
<1>2. Len(w) \in Nat /\ p[0] = q
  BY <1>1 DEF Walk
<1>3. s \in [0 .. Len(w) -> 1 .. Len(T)] /\ s[0] = r
  BY <1>1, <1>2
<1>4. \A i \in 0 .. Len(w) : T[s[i]] = T[p[i]]
  BY <1>2
<1>5. ASSUME NEW i \in 1 .. Len(w) PROVE Step(T, s[i - 1], w[i], s[i])
  <2>1. i - 1 \in 0 .. Len(w) /\ i \in 0 .. Len(w) /\ i # 0
    BY <1>2
  <2>2. T[s[i - 1]] = T[p[i - 1]] /\ s[i] = p[i]
    BY <1>4, <2>1
  <2> HIDE DEF s
  <2> QED BY <1>1, <2>2 DEF Walk, Step
<1>6. T[s[Len(w)]].data = v
  BY <1>1, <1>2, <1>4
<1> HIDE DEF s
<1> QED BY <1>3, <1>5, <1>6 DEF Finds, Walk

(* The state to be registered is the last one of the spine, and what       *)
(* replaces it has its record.                                             *)
LEMMA RegisterFacts ==
  ASSUME IInv, pc = "register", NEW p, Spine(p), EdgesInv(p), OrderInv(p), PlaceInv(p)
  PROVE  /\ SpineLen = Passed(Len(stack)) /\ SpineWord = previous /\ SpineLen \in 0 .. Len(previous)
         /\ SpineLen \in Nat /\ Len(previous) \in Nat /\ prefix_len \in Nat /\ Len(stack) \in Nat \ {0}
         /\ Top = p[SpineLen] /\ Top \in 1 .. Len(states)
         /\ Replacement \in 1 .. Len(states) /\ states[Replacement] = states[Top]
         /\ Replacement \in Registered \cup {Top}
         /\ Len(stack) > 1 \/ at # NoState =>
              /\ SpineLen \in 1 .. Len(previous) /\ Parent = p[SpineLen - 1] /\ Parent # NoState
              /\ Parent \in 1 .. Len(states)
         /\ Len(stack) = 1 /\ at = NoState => Parent = NoState /\ SpineLen = 0
<1>1. BuildingInv /\ AddingInv /\ TableInv
  BY DEF IInv, BuildingPcs, BuildingInv
<1>2. SpineLen = Passed(Len(stack)) /\ SpineWord = previous
  BY DEF SpineLen, SpineWord
<1>3. Len(previous) \in Nat /\ prefix_len \in Nat /\ SpineLen \in 0 .. Len(previous) /\ SpineLen \in Nat
  BY <1>1 DEF AddingInv
<1>4. /\ Len(stack) \in Nat \ {0}
      /\ \A i \in 1 .. Len(stack) : Passed(i) <= SpineLen /\ stack[i] = p[Passed(i)]
  BY DEF PlaceInv
<1>5. Top = p[SpineLen]
  BY <1>2, <1>4 DEF Top
<1>6. SpineLen \in 0 .. SpineLen
  BY <1>3
<1>7. Top \in 1 .. Len(states)
  BY <1>5, <1>6 DEF Spine
<1>8. /\ Replacement \in 1 .. Len(states) /\ states[Replacement] = states[Top]
      /\ Replacement \in Registered \cup {Top}
  BY <1>1, <1>7 DEF Replacement, Key, Registered, TableInv
<1>9. ASSUME Len(stack) > 1 \/ at # NoState
      PROVE  /\ SpineLen \in 1 .. Len(previous) /\ Parent = p[SpineLen - 1] /\ Parent # NoState
             /\ Parent \in 1 .. Len(states)
  <2>1. SpineLen \in 1 .. Len(previous) /\ SpineLen - 1 \in 0 .. SpineLen
    BY <1>2, <1>3, <1>4, <1>9 DEF Passed
  <2>2. Parent = p[SpineLen - 1]
    <3>1. CASE Len(stack) > 1
      <4>1. Len(stack) - 1 \in 1 .. Len(stack) /\ Passed(Len(stack) - 1) = SpineLen - 1
        BY <1>2, <1>3, <1>4, <3>1 DEF Passed
      <4> QED BY <1>4, <3>1, <4>1 DEF Parent
    <3>2. CASE ~(Len(stack) > 1)
      <4>1. Len(stack) = 1
        BY <1>4, <3>2
      <4>2. SpineLen = prefix_len + 1 /\ SpineLen - 1 = prefix_len /\ at # NoState
        BY <1>2, <1>3, <1>9, <4>1 DEF Passed
      <4>3. at = p[prefix_len]
        BY <4>2 DEF PlaceInv
      <4> QED BY <3>2, <4>2, <4>3 DEF Parent
    <3> QED BY <3>1, <3>2
  <2>3. p[SpineLen - 1] \in 1 .. Len(states)
    BY <2>1 DEF Spine
  <2> QED BY <2>1, <2>2, <2>3 DEF NoState
<1>10. Len(stack) = 1 /\ at = NoState => Parent = NoState /\ SpineLen = 0
  BY <1>2 DEF Parent, Passed
<1> QED BY <1>2, <1>3, <1>4, <1>5, <1>7, <1>8, <1>9, <1>10

(* close: the initial state is replaced too.                               *)
LEMMA RegisterInitial == IInv /\ Register /\ Parent = NoState => IInv'
<1> SUFFICES ASSUME IInv, Register, Parent = NoState PROVE IInv'
  OBVIOUS
<1>1. BuildingInv /\ TableInv /\ Exact /\ pc = "register"
  BY DEF IInv, Register, BuildingPcs
<1>2. PICK p : Spine(p) /\ EdgesInv(p) /\ OrderInv(p) /\ PlaceInv(p)
  BY <1>1 DEF BuildingInv
<1>3. /\ Top = p[SpineLen] /\ Top \in 1 .. Len(states) /\ Replacement \in 1 .. Len(states)
      /\ states[Replacement] = states[Top] /\ Len(stack) \in Nat \ {0}
      /\ SpineLen = 0
  <2>1. /\ Top = p[SpineLen] /\ Top \in 1 .. Len(states) /\ Replacement \in 1 .. Len(states)
        /\ states[Replacement] = states[Top] /\ Len(stack) \in Nat \ {0}
    BY <1>1, <1>2, RegisterFacts
  <2>2. ~(Len(stack) > 1 \/ at # NoState)
    BY <1>1, <1>2, RegisterFacts
  <2>3. Len(stack) = 1 /\ at = NoState
    BY <2>1, <2>2
  <2> QED BY <1>1, <1>2, <2>1, <2>3, RegisterFacts
<1>4. Top = initial
  BY <1>2, <1>3 DEF Spine
<1>5. initial' = Replacement /\ states' = states /\ pc' = "order" /\ entries' = entries
      /\ register' = [k \in DOMAIN register \cup {Key(Top)} |->
                        IF k = Key(Top) THEN Replacement ELSE register[k]]
  BY DEF Register
<1>6. TableInv'
  <2>1. \A k \in DOMAIN register' : register'[k] \in 1 .. Len(states) /\ states[register'[k]] = k
    BY <1>1, <1>3, <1>5 DEF TableInv, Key
  <2>2. IsTable(states)'
    BY <1>1, <1>5 DEF TableInv
  <2> QED BY <1>3, <1>5, <2>1, <2>2 DEF TableInv
<1>7. Exact'
  <2>1. IsTable(states)
    BY <1>1 DEF TableInv
  <2>2. \A w \in Seq(Labels) : \A v : Finds(states, initial, w, v) <=> Finds(states, Replacement, w, v)
    BY <1>3, <1>4, <2>1, SameRecordFinds
  <2> QED BY <1>1, <1>5, <2>2 DEF Exact
<1> QED BY <1>5, <1>6, <1>7 DEF IInv, BuildingPcs, LaterPcs

LEMMA FrontIs ==
  ASSUME NEW S, NEW s \in Seq(S), Len(s) # 0, NEW t, t = SubSeq(s, 1, Len(s) - 1)
  PROVE  /\ Len(t) = Len(s) - 1 /\ t = [i \in 1 .. Len(t) |-> t[i]]
         /\ \A i \in 1 .. Len(s) - 1 : t[i] = s[i]
<1>1. Len(s) \in Nat \ {0} /\ 1 \in 1 .. Len(s) + 1 /\ Len(s) - 1 \in 1 - 1 .. Len(s)
  OBVIOUS
<1>2. /\ t \in Seq(S) /\ Len(t) = (Len(s) - 1) - 1 + 1
      /\ \A i \in 1 .. (Len(s) - 1) - 1 + 1 : t[i] = s[1 + i - 1]
  <2>1. 1 \in Int /\ Len(s) - 1 \in Int /\ \A i \in 1 .. Len(s) - 1 : s[i] \in S
    <3>1. \A i \in 1 .. Len(s) - 1 : i \in 1 .. Len(s)
      BY <1>1
    <3> QED BY <1>1, <3>1
  <2>2. 1 <= Len(s) - 1 \/ Len(s) - 1 = 0
    <3>1. \A n \in Nat \ {0} : 1 <= n - 1 \/ n - 1 = 0
      OBVIOUS
    <3> QED BY <1>1, <3>1
  <2>3. /\ t \in Seq(S) /\ Len(t) = IF 1 <= Len(s) - 1 THEN (Len(s) - 1) - 1 + 1 ELSE 0
        /\ \A i \in 1 .. (Len(s) - 1) - 1 + 1 : t[i] = s[1 + i - 1]
    BY <2>1, SubSeqProperties
  <2> QED BY <1>1, <2>2, <2>3
<1>3. (Len(s) - 1) - 1 + 1 = Len(s) - 1 /\ \A i \in 1 .. Len(s) - 1 : 1 + i - 1 = i
  BY <1>1
<1>4. t = [i \in 1 .. Len(t) |-> t[i]]
  BY <1>2
<1> QED BY <1>2, <1>3, <1>4

(* A state behind another is replaced: its parent's transition is          *)
(* redirected to what has the same record.                                 *)
LEMMA RegisterBehind == IInv /\ Register /\ Parent # NoState => IInv'
<1> SUFFICES ASSUME IInv, Register, Parent # NoState PROVE IInv'
  OBVIOUS
<1>1. BuildingInv /\ AddingInv /\ TableInv /\ Exact /\ pc = "register" /\ IsTable(states)
  BY DEF IInv, Register, BuildingPcs, BuildingInv, TableInv
<1>2. PICK p : Spine(p) /\ EdgesInv(p) /\ OrderInv(p) /\ PlaceInv(p)
  BY <1>1 DEF BuildingInv
<1>0. PICK n \in Nat : n = SpineLen
  BY <1>1, <1>2, RegisterFacts
<1> DEFINE label == previous[n]
<1>3. /\ n = Passed(Len(stack)) /\ SpineWord = previous /\ n \in Nat /\ Len(previous) \in Nat
      /\ prefix_len \in Nat /\ Len(stack) \in Nat \ {0}
      /\ Top = p[n] /\ Top \in 1 .. Len(states)
      /\ Replacement \in 1 .. Len(states) /\ states[Replacement] = states[Top]
      /\ Replacement \in Registered \cup {Top}
  BY <1>0, <1>1, <1>2, RegisterFacts
<1>4. /\ n \in 1 .. Len(previous) /\ Parent = p[n - 1] /\ Parent \in 1 .. Len(states)
  <2>1. ~(Len(stack) = 1 /\ at = NoState)
    BY <1>1, <1>2, RegisterFacts
  <2>2. Len(stack) > 1 \/ at # NoState
    <3>1. Len(stack) \in Nat \ {0}
      BY <1>3
    <3> QED BY <2>1, <3>1
  <2> QED BY <1>0, <1>1, <1>2, <2>2, RegisterFacts
<1>5. /\ n \in 1 .. n /\ n \in 0 .. n /\ n - 1 \in 0 .. n /\ n - 1 # n /\ n - 1 \in Nat
      /\ n - 1 \in 0 .. n - 1 /\ 0 \in 0 .. n - 1
  BY <1>3, <1>4
<1>6. Step(states, Parent, label, Top) /\ label \in Labels
  BY <1>0, <1>1, <1>2, <1>3, <1>4, <1>5, WordElements DEF Spine, AddingInv
<1>7. Top # Parent /\ Parent \notin Registered /\ Top \notin Registered /\ Replacement # Parent
  BY <1>0, <1>2, <1>3, <1>4, <1>5 DEF Spine
<1>8. states' = SetTransition(states, Parent, label, Replacement) /\ initial' = initial
      /\ register' = [k \in DOMAIN register \cup {Key(Top)} |->
                        IF k = Key(Top) THEN Replacement ELSE register[k]]
      /\ stack' = SubSeq(stack, 1, Len(stack) - 1)
      /\ pc' = (IF Len(stack) > 1 THEN "register" ELSE "extend")
      /\ UNCHANGED <<previous, entries, word, data, at, prefix_len>>
  BY <1>3 DEF Register, adding
<1> HIDE DEF label
<1>9. /\ Len(states') = Len(states) /\ states' = [q \in 1 .. Len(states) |-> states'[q]]
      /\ states'[Parent] = [data |-> states[Parent].data, transitions |-> states'[Parent].transitions]
      /\ states'[Parent].data = states[Parent].data
      /\ DOMAIN states'[Parent].transitions = DOMAIN states[Parent].transitions
      /\ states'[Parent].transitions = [m \in DOMAIN states'[Parent].transitions |-> states'[Parent].transitions[m]]
      /\ states'[Parent].transitions[label] = Replacement
      /\ \A m \in DOMAIN states[Parent].transitions :
           m # label => states'[Parent].transitions[m] = states[Parent].transitions[m]
      /\ \A q \in 1 .. Len(states) : q # Parent => states'[q] = states[q]
  <2>1. DOMAIN states[Parent].transitions \cup {label} = DOMAIN states[Parent].transitions
    BY <1>6 DEF Step
  <2>2. states' = SetTransition(states, Parent, label, Replacement)
    BY <1>8
  <2>4. Parent \in 1 .. Len(states) /\ label \in Labels
    BY <1>4, <1>6
  <2>5. /\ Len(states') = Len(states) /\ states' = [q \in 1 .. Len(states) |-> states'[q]]
        /\ states'[Parent] = [data |-> states[Parent].data, transitions |-> states'[Parent].transitions]
        /\ states'[Parent].data = states[Parent].data
        /\ DOMAIN states'[Parent].transitions = DOMAIN states[Parent].transitions \cup {label}
        /\ states'[Parent].transitions = [m \in DOMAIN states'[Parent].transitions |-> states'[Parent].transitions[m]]
        /\ states'[Parent].transitions[label] = Replacement
        /\ \A m \in DOMAIN states[Parent].transitions :
             m # label => states'[Parent].transitions[m] = states[Parent].transitions[m]
        /\ \A q \in 1 .. Len(states) : q # Parent => states'[q] = states[q]
    <3>1. IsTable(states)
      BY <1>1
    <3> QED BY ONLY <2>2, <2>4, <3>1, SetTransitionIs
  <2> QED BY ONLY <2>1, <2>5, Zenon
<1>10. IsTable(states')
  <2>1. IsState(states', states'[Parent])
    <3>1. IsState(states, states[Parent])
      BY <1>1, <1>4 DEF IsTable
    <3>2. \A m \in DOMAIN states'[Parent].transitions : states'[Parent].transitions[m] \in 1 .. Len(states')
      BY <1>3, <1>9, <3>1 DEF IsState
    <3>3. states'[Parent].transitions \in [DOMAIN states'[Parent].transitions -> 1 .. Len(states')]
      BY <1>9, <3>2
    <3>4. DOMAIN states'[Parent].transitions \subseteq Labels
      BY <1>9, <3>1 DEF IsState
    <3> QED BY <1>9, <3>3, <3>4 DEF IsState
  <2>2. \A q \in 1 .. Len(states) : q # Parent => IsState(states', states'[q])
    BY <1>1, <1>9 DEF IsTable, IsState
  <2> QED BY <1>1, <1>9, <2>1, <2>2 DEF IsTable
<1>11. Reattached(states, states', Parent, label, Top, Replacement)
  <2>1. Step(states', Parent, label, Replacement)
    BY <1>6, <1>9 DEF Step
  <2> QED BY <1>1, <1>3, <1>4, <1>6, <1>7, <1>9, <1>10, <2>1 DEF Reattached
<1>12. Registered' = Registered \cup {Replacement}
  <2>1. DOMAIN register' = DOMAIN register \cup {Key(Top)} /\ register'[Key(Top)] = Replacement
    BY <1>8
  <2>2. \A k \in DOMAIN register : register'[k] = IF k = Key(Top) THEN Replacement ELSE register[k]
    BY <1>8
  <2>3. Key(Top) \in DOMAIN register => Replacement = register[Key(Top)]
    BY DEF Replacement
  <2>4. \A k \in DOMAIN register : register'[k] = register[k]
    BY <2>2, <2>3
  <2>5. \A r : r \in Registered' <=> r \in Registered \cup {Replacement}
    BY <2>1, <2>4 DEF Registered
  <2> QED BY <2>5
<1>13. TableInv'
  <2>1. \A k \in DOMAIN register : register[k] \in Registered
    BY DEF Registered
  <2>2. \A k \in DOMAIN register : register[k] \in 1 .. Len(states) /\ states'[register[k]] = k
    BY <1>1, <1>7, <1>9, <2>1 DEF TableInv
  <2>3. states'[Replacement] = Key(Top)
    BY <1>3, <1>7, <1>9 DEF Key
  <2>4. \A k \in DOMAIN register' : register'[k] \in 1 .. Len(states') /\ states'[register'[k]] = k
    BY <1>3, <1>8, <1>9, <2>2, <2>3
  <2> QED BY <1>1, <1>8, <1>9, <1>10, <2>4 DEF TableInv
<1>14. Exact'
  <2>1. Reattached(states', states, Parent, label, Replacement, Top)
    BY <1>11, RedirectedBack
  <2>2. initial \in 1 .. Len(states) /\ initial \in 1 .. Len(states')
    BY <1>1, <1>9 DEF TableInv
  <2>3. \A w \in Seq(Labels) : \A v : Finds(states, initial, w, v) <=> Finds(states', initial, w, v)
    BY <1>11, <2>1, <2>2, RedirectedFinds
  <2> QED BY <1>1, <1>8, <2>3 DEF Exact
<1>15. \A i : Passed(i)' = Passed(i)
  BY <1>8 DEF Passed
<1>a. Len(stack) \in Nat \ {0} /\ (Len(stack) > 1 \/ Len(stack) = 1)
  <2>1. Len(stack) \in Nat \ {0}
    BY <1>3
  <2> QED BY <2>1
<1>b. stack \in Seq({stack[i] : i \in 1 .. Len(stack)})
  <2>1. stack = [i \in 1 .. Len(stack) |-> stack[i]]
    BY <1>1, <1>2 DEF PlaceInv
  <2> QED BY <1>a, <2>1
<1>c. /\ Len(stack') = Len(stack) - 1 /\ stack' = [i \in 1 .. Len(stack') |-> stack'[i]]
      /\ \A i \in 1 .. Len(stack) - 1 : stack'[i] = stack[i]
  <2>1. stack' = SubSeq(stack, 1, Len(stack) - 1)
    BY <1>8
  <2> QED BY <1>a, <1>b, <2>1, FrontIs
<1>16. /\ SpineLen' = n - 1
       /\ \A i \in 1 .. n - 1 : SpineWord'[i] = previous[i]
       /\ Len(stack) = 1 => SpineLen' = prefix_len /\ at # NoState /\ SpineWord' = word /\ n = prefix_len + 1
  <2>1. CASE Len(stack) > 1
    <3>1. Len(stack') = Len(stack) - 1
      BY <1>c
    <3>2. Passed(Len(stack) - 1) = n - 1
      BY <1>3, <2>1 DEF Passed
    <3>3. SpineLen' = n - 1 /\ SpineWord' = previous
      BY <1>8, <1>15, <2>1, <3>1, <3>2 DEF SpineLen, SpineWord
    <3>4. Len(stack) # 1
      BY ONLY <2>1
    <3>5. \A i \in 1 .. n - 1 : SpineWord'[i] = previous[i]
      BY <3>3, Zenon
    <3> QED BY <3>3, <3>4, <3>5
  <2>2. CASE ~(Len(stack) > 1)
    <3>1. Len(stack) = 1
      BY <1>a, <2>2
    <3>2. at # NoState
      BY <3>1 DEF Parent
    <3>3. n = prefix_len + 1
      BY <1>3, <3>1, <3>2 DEF Passed
    <3>4. SpineLen' = prefix_len /\ SpineWord' = word
      BY <1>8, <2>2 DEF SpineLen, SpineWord
    <3>5. \A i \in 1 .. prefix_len : word[i] = previous[i]
      BY <1>1, <3>2 DEF AddingInv
    <3> QED BY <1>3, <3>1, <3>2, <3>3, <3>4, <3>5
  <2> QED BY <2>1, <2>2
<1>d. PICK s : s = [i \in 0 .. n - 1 |-> p[i]]
  OBVIOUS
<1>17. /\ \A i \in 0 .. n - 1 : i \in 0 .. n /\ s[i] = p[i]
       /\ \A i \in 1 .. n - 1 : i \in 1 .. n /\ i - 1 \in 0 .. n - 1 /\ i - 1 # n - 1 /\ i \in 0 .. n - 1
  BY <1>3, <1>d
<1>18. Spine(s)'
  <2>1. s \in [0 .. n - 1 -> 1 .. Len(states)]
    BY <1>0, <1>2, <1>17, <1>d DEF Spine
  <2>2. s[0] = initial
    BY <1>0, <1>2, <1>5, <1>17 DEF Spine
  <2>3. \A i \in 1 .. n - 1 : Step(states', s[i - 1], previous[i], s[i])
    <3> SUFFICES ASSUME NEW i \in 1 .. n - 1 PROVE Step(states', s[i - 1], previous[i], s[i])
      OBVIOUS
    <3>1. Step(states, p[i - 1], previous[i], p[i]) /\ p[i - 1] \in 1 .. Len(states)
      BY <1>0, <1>2, <1>3, <1>17 DEF Spine
    <3>2. p[i - 1] # Parent
      BY <1>0, <1>2, <1>4, <1>5, <1>17 DEF Spine
    <3>3. s[i - 1] = p[i - 1] /\ s[i] = p[i] /\ states'[p[i - 1]] = states[p[i - 1]]
      BY <1>9, <1>17, <3>1, <3>2
    <3> QED BY <3>1, <3>3 DEF Step
  <2>4. \A i, j \in 0 .. n - 1 : s[i] = s[j] => i = j
    BY <1>0, <1>2, <1>17 DEF Spine
  <2>5. \A i \in 0 .. n - 1 : s[i] \notin Registered'
    <3> SUFFICES ASSUME NEW i \in 0 .. n - 1 PROVE s[i] \notin Registered'
      OBVIOUS
    <3>1. s[i] = p[i] /\ i \in 0 .. n /\ i # n
      BY <1>3, <1>17
    <3>2. p[i] \notin Registered /\ p[i] # Top
      BY <1>0, <1>2, <1>3, <1>5, <3>1 DEF Spine
    <3> QED BY <1>3, <1>12, <3>1, <3>2
  <2>6. SpineLen' = n - 1 /\ Len(states') = Len(states) /\ initial' = initial
    BY <1>8, <1>9, <1>16
  <2>7. \A i \in 1 .. n - 1 : Step(states', s[i - 1], SpineWord'[i], s[i])
    BY <1>16, <2>3
  <2> QED BY <2>1, <2>2, <2>4, <2>5, <2>6, <2>7 DEF Spine
<1>19. EdgesInv(s)'
  <2> SUFFICES ASSUME NEW q \in 1 .. Len(states), NEW l \in DOMAIN states'[q].transitions,
                      states'[q].transitions[l] \notin Registered'
               PROVE  \E i \in 1 .. n - 1 : q = s[i - 1] /\ l = SpineWord'[i]
    <3>1. SpineLen' = n - 1 /\ Len(states') = Len(states)
      BY <1>9, <1>16
    <3> QED BY <3>1 DEF EdgesInv, Transitions
  <2>1. ~(q = Parent /\ l = label)
    BY <1>9, <1>12
  <2>2. l \in DOMAIN Transitions(q) /\ Transitions(q)[l] \notin Registered
    BY <1>9, <1>12, <2>1 DEF Transitions
  <2>3. PICK i \in 1 .. n : q = p[i - 1] /\ l = previous[i]
    BY <1>0, <1>2, <1>3, <2>2 DEF EdgesInv
  <2>4. i # n
    BY <1>4, <2>1, <2>3 DEF label
  <2>5. i \in 1 .. n - 1
    BY <1>3, <2>4
  <2> QED BY <1>16, <1>17, <2>3, <2>5
<1>20. \A q \in 1 .. Len(states) : DOMAIN Transitions(q)' = DOMAIN Transitions(q)
  BY <1>9 DEF Transitions
<1>21. OrderInv(s)'
  <2>1. \A i \in 1 .. n - 1 : \A l \in DOMAIN Transitions(s[i - 1])' : l <= previous[i]
    <3> SUFFICES ASSUME NEW i \in 1 .. n - 1, NEW l \in DOMAIN Transitions(s[i - 1])' PROVE l <= previous[i]
      OBVIOUS
    <3>1. s[i - 1] = p[i - 1] /\ p[i - 1] \in 1 .. Len(states)
      BY <1>0, <1>2, <1>17 DEF Spine
    <3>2. l \in DOMAIN Transitions(p[i - 1])
      BY <1>20, <3>1
    <3> QED BY <1>0, <1>2, <1>3, <1>17, <3>2 DEF OrderInv
  <2>2. ASSUME pc' # "register", NEW l \in DOMAIN Transitions(s[n - 1])'
        PROVE  n - 1 < Len(word) /\ l < word[n]
    <3>1. Len(stack) = 1 /\ n - 1 = prefix_len /\ at # NoState
      BY <1>3, <1>8, <1>16, <1>a, <2>2
    <3>2. n = prefix_len + 1
      BY <1>3, <3>1
    <3>3. prefix_len < Len(word) /\ previous[n] < word[n]
      BY <1>1, <3>1, <3>2 DEF AddingInv
    <3>4. l \in DOMAIN Transitions(p[n - 1])
      BY <1>4, <1>5, <1>17, <1>20, <2>2
    <3>5. l <= previous[n]
      BY <1>0, <1>2, <1>3, <1>5, <3>4 DEF OrderInv
    <3>6. n \in 1 .. Len(word)
      BY <1>1, <1>3, <3>2, <3>3 DEF AddingInv
    <3>7. l \in Nat /\ previous[n] \in Nat /\ word[n] \in Nat
      <4>1. l \in Labels
        BY <1>1, <1>4, <3>4 DEF IsTable, IsState, Transitions
      <4> QED BY <1>1, <1>4, <3>6, <4>1, LabelsAreNumbers, WordElements DEF AddingInv
    <3> QED BY <3>1, <3>3, <3>5, <3>7
  <2>3. pc' # "register" => SpineWord' = word /\ (n - 1) + 1 = n
    BY <1>3, <1>8, <1>16, <1>a
  <2>4. SpineLen' = n - 1 /\ word' = word
    BY <1>8, <1>16
  <2>5. \A i \in 1 .. n - 1 : \A l \in DOMAIN Transitions(s[i - 1])' : l <= SpineWord'[i]
    BY <1>16, <2>1
  <2>6. pc' # "register" =>
          \A l \in DOMAIN Transitions(s[n - 1])' : n - 1 < Len(SpineWord') /\ l < SpineWord'[(n - 1) + 1]
    BY <2>2, <2>3
  <2> QED BY <2>4, <2>5, <2>6 DEF OrderInv
<1>22. AddingInv'
  <2>1. CASE Len(stack) > 1
    <3>1. pc' = "register" /\ SpineLen' \in 0 .. Len(previous)
      BY <1>4, <1>5, <1>8, <1>16, <2>1
    <3> QED BY <1>1, <1>8, <3>1 DEF AddingInv, Valid
  <2>2. CASE ~(Len(stack) > 1)
    <3>1. pc' = "extend" /\ at # NoState
      BY <1>a, <1>8, <1>16, <2>2
    <3>2. prefix_len < Len(word) /\ Len(word) \in Nat
      BY <1>1, <3>1 DEF AddingInv
    <3> QED BY <1>1, <1>3, <1>8, <3>1, <3>2 DEF AddingInv, Valid
  <2> QED BY <2>1, <2>2
<1>23. PlaceInv(s)'
  <2>1. ASSUME at # NoState PROVE prefix_len \in 0 .. n - 1 /\ at = s[prefix_len]
    <3>1. prefix_len + 1 <= n
      BY <1>3, <2>1 DEF Passed
    <3>2. prefix_len \in 0 .. n - 1 /\ at = p[prefix_len]
      BY <1>0, <1>1, <1>2, <1>3, <2>1, <3>1 DEF PlaceInv
    <3> QED BY <1>17, <3>2
  <2>2. CASE Len(stack) > 1
    <3>1. stack = [i \in 1 .. Len(stack) |-> stack[i]]
          /\ \A i \in 1 .. Len(stack) : stack[i] = p[Passed(i)]
      BY <1>1, <1>2 DEF PlaceInv
    <3>4. \A i \in 1 .. Len(stack) - 1 : Passed(i) <= n - 1 /\ stack'[i] = s[Passed(i)]
      <4> SUFFICES ASSUME NEW i \in 1 .. Len(stack) - 1 PROVE Passed(i) <= n - 1 /\ stack'[i] = s[Passed(i)]
        OBVIOUS
      <4>1. Passed(i) \in 0 .. n - 1
        BY <1>3 DEF Passed
      <4>2. i \in 1 .. Len(stack)
        BY <1>a
      <4> QED BY <1>c, <1>17, <3>1, <4>1, <4>2
    <3>5. Len(stack') \in Nat \ {0} /\ pc' = "register"
      <4>1. pc' = "register"
        BY <1>8, <2>2
      <4>2. Len(stack') = Len(stack) - 1
        BY <1>c
      <4> QED BY <1>a, <2>2, <4>1, <4>2
    <3>6. \A i \in 1 .. Len(stack') : Passed(i)' <= SpineLen' /\ stack'[i] = s[Passed(i)']
      BY <1>15, <1>16, <1>c, <3>4
    <3>7. pc' \in {"walk", "descend", "register", "extend"} /\ at' # NoState =>
            prefix_len' \in 0 .. SpineLen' /\ at' = s[prefix_len']
      BY <1>8, <1>16, <2>1
    <3> QED BY <1>c, <3>5, <3>6, <3>7 DEF PlaceInv
  <2>3. CASE ~(Len(stack) > 1)
    <3>1. pc' = "extend"
      BY <1>8, <2>3
    <3>2. at' # NoState => prefix_len' \in 0 .. SpineLen' /\ at' = s[prefix_len']
      BY <1>8, <1>16, <2>1
    <3> QED BY <3>1, <3>2 DEF PlaceInv
  <2> QED BY <2>2, <2>3
<1>24. BuildingInv'
  BY <1>18, <1>19, <1>21, <1>22, <1>23, BuildingStep
<1>25. pc' \in BuildingPcs
  BY <1>8 DEF BuildingPcs
<1> QED BY <1>13, <1>14, <1>24, <1>25 DEF IInv

LEMMA RegisterKeeps == IInv /\ Register => IInv'
BY RegisterInitial, RegisterBehind

LEMMA AppendedIs ==
  ASSUME NEW n \in Nat, NEW T, T = [i \in 1 .. n |-> T[i]], NEW e, NEW U, U = Append(T, e)
  PROVE  /\ Len(U) = n + 1 /\ U = [i \in 1 .. n + 1 |-> U[i]]
         /\ \A i \in 1 .. n : U[i] = T[i]
         /\ U[n + 1] = e
<1> DEFINE S == {T[i] : i \in 1 .. n} \cup {e}
<1>1. \A i \in 1 .. n : T[i] \in S
  OBVIOUS
<1>2. e \in S
  OBVIOUS
<1> HIDE DEF S
<1>3. T \in Seq(S) /\ Len(T) = n
  BY <1>1, LengthIs
<1> QED BY <1>2, <1>3

(* The spine grows by a new state, along the word's next label.            *)
LEMMA ExtendKeeps == IInv /\ Extend => IInv'
<1> SUFFICES ASSUME IInv, Extend PROVE IInv'
  OBVIOUS
<1>1. BuildingInv /\ AddingInv /\ TableInv /\ Exact /\ pc = "extend" /\ IsTable(states)
  BY DEF IInv, Extend, BuildingPcs, BuildingInv, TableInv
<1>2. PICK p : Spine(p) /\ EdgesInv(p) /\ OrderInv(p) /\ PlaceInv(p)
  BY <1>1 DEF BuildingInv
<1>3. SpineLen = prefix_len /\ SpineWord = word
  BY <1>1 DEF SpineLen, SpineWord
<1>4. PICK n \in Nat : n = prefix_len
  BY <1>1 DEF AddingInv
<1>5. PICK new : new = Len(states) + 1
  OBVIOUS
<1>6. PICK label : label = word[n + 1]
  OBVIOUS
<1>7. /\ prefix_len < Len(word) /\ at' = new /\ prefix_len' = n + 1 /\ pc' = "extend"
      /\ states' = Append(SetTransition(states, at, label, new), NewState)
      /\ UNCHANGED <<register, initial, previous, entries, word, data, stack>>
  BY <1>1, <1>4, <1>5, <1>6 DEF Extend
<1>8. Len(states) \in Nat /\ new \in Nat /\ new \notin 1 .. Len(states) /\ new # NoState
  BY <1>1, <1>5 DEF IsTable, NoState
<1>9. Len(word) \in Nat /\ n \in 0 .. n /\ n + 1 \in 1 .. Len(word) /\ (n + 1) - 1 = n
      /\ n + 1 \in 1 .. n + 1 /\ n + 1 \in 0 .. n + 1 /\ n + 1 \notin 0 .. n /\ 0 \in 0 .. n
  BY <1>1, <1>4, <1>7 DEF AddingInv
<1>10. at = p[n] /\ at \in 1 .. Len(states) /\ at # NoState
  <2>1. at # NoState
    BY <1>1 DEF AddingInv
  <2> QED BY <1>1, <1>2, <1>3, <1>4, <1>9, <2>1 DEF PlaceInv, Spine
<1>11. label \in Labels /\ label \in Nat
  BY <1>1, <1>6, <1>9, WordElements DEF AddingInv
<1>12. label \notin DOMAIN states[at].transitions
  <2>1. \A l \in DOMAIN Transitions(p[n]) : l < word[n + 1]
    BY <1>1, <1>2, <1>3, <1>4 DEF OrderInv
  <2> QED BY <1>6, <1>10, <1>11, <2>1 DEF Transitions
<1>13. PICK U : U = SetTransition(states, at, label, new)
  OBVIOUS
<1>14. /\ Len(U) = Len(states) /\ U = [s \in 1 .. Len(states) |-> U[s]]
       /\ U[at] = [data |-> states[at].data, transitions |-> U[at].transitions]
       /\ U[at].data = states[at].data
       /\ DOMAIN U[at].transitions = DOMAIN states[at].transitions \cup {label}
       /\ U[at].transitions = [m \in DOMAIN U[at].transitions |-> U[at].transitions[m]]
       /\ U[at].transitions[label] = new
       /\ \A m \in DOMAIN states[at].transitions : m # label => U[at].transitions[m] = states[at].transitions[m]
       /\ \A s \in 1 .. Len(states) : s # at => U[s] = states[s]
  <2>1. IsTable(states)
    BY <1>1
  <2> QED BY ONLY <2>1, <1>10, <1>11, <1>13, SetTransitionIs
<1>15. /\ Len(states') = new /\ states' = [s \in 1 .. new |-> states'[s]]
       /\ \A s \in 1 .. Len(states) : states'[s] = U[s]
       /\ states'[new] = NewState
  <2>1. states' = Append(U, NewState)
    BY <1>7, <1>13
  <2> QED BY <1>5, <1>8, <1>14, <2>1, AppendedIs
<1>16. 1 .. Len(states) \subseteq 1 .. new /\ new \in 1 .. new
       /\ \A s \in 1 .. new : s = new \/ s \in 1 .. Len(states)
  BY <1>5, <1>8
<1>17. \A s \in 1 .. Len(states) : s # at => states'[s] = states[s]
  BY <1>14, <1>15
<1>18. states'[at] = U[at]
  BY <1>10, <1>15
<1>19. /\ \A m : m \in DOMAIN states'[at].transitions <=> m = label \/ m \in DOMAIN states[at].transitions
       /\ states'[at].transitions[label] = new
       /\ \A m \in DOMAIN states[at].transitions : states'[at].transitions[m] = states[at].transitions[m]
       /\ states'[at].data = states[at].data
  BY <1>12, <1>14, <1>18
<1>20. DOMAIN states'[new].transitions = {} /\ states'[new].data = NoData
  BY <1>15 DEF NewState
<1>21. IsTable(states')
  <2>1. IsState(states', states'[new])
    BY <1>15 DEF IsState, NewState
  <2>2. ASSUME NEW s \in 1 .. Len(states), s # at PROVE IsState(states', states'[s])
    <3>1. IsState(states, states[s])
      BY <1>1 DEF IsTable
    <3> QED BY <1>15, <1>16, <1>17, <2>2, <3>1 DEF IsState
  <2>3. IsState(states', states'[at])
    <3>1. IsState(states, states[at])
      BY <1>1, <1>10 DEF IsTable
    <3>2. \A m \in DOMAIN U[at].transitions : U[at].transitions[m] \in 1 .. new
      BY <1>12, <1>14, <1>16, <3>1 DEF IsState
    <3>3. U[at].transitions \in [DOMAIN U[at].transitions -> 1 .. new]
      BY <1>14, <3>2
    <3>4. DOMAIN U[at].transitions \subseteq Labels
      BY <1>11, <1>14, <3>1 DEF IsState
    <3> QED BY <1>14, <1>15, <1>18, <3>3, <3>4 DEF IsState
  <2> QED BY <1>8, <1>15, <1>16, <2>1, <2>2, <2>3 DEF IsTable
<1>22. Extended(states, states', at, label)
  BY <1>1, <1>5, <1>10, <1>12, <1>15, <1>17, <1>19, <1>21 DEF Extended
<1>23. TableInv'
  <2>1. \A k \in DOMAIN register : register[k] \in 1 .. Len(states) /\ register[k] # at
    BY <1>1, <1>2, <1>3, <1>4, <1>9, <1>10 DEF TableInv, Spine, Registered
  <2>2. \A k \in DOMAIN register : register[k] \in 1 .. new /\ states'[register[k]] = k
    BY <1>1, <1>16, <1>17, <2>1 DEF TableInv
  <2>3. initial \in 1 .. new
    BY <1>1, <1>16 DEF TableInv
  <2> QED BY <1>7, <1>15, <1>21, <2>2, <2>3 DEF TableInv
<1>24. Exact'
  <2>1. initial \in 1 .. Len(states)
    BY <1>1 DEF TableInv
  <2>2. \A w \in Seq(Labels) : \A v : Finds(states, initial, w, v) <=> Finds(states', initial, w, v)
    BY <1>22, <2>1, ExtendedFinds
  <2> QED BY <1>1, <1>7, <2>2 DEF Exact
<1>25. PICK s : s = [i \in 0 .. n + 1 |-> IF i = n + 1 THEN new ELSE p[i]]
  OBVIOUS
<1>26. /\ \A i \in 0 .. n : i \in 0 .. n + 1 /\ s[i] = p[i] /\ p[i] \in 1 .. Len(states)
       /\ s[n + 1] = new
       /\ \A i \in 0 .. n + 1 : i = n + 1 \/ i \in 0 .. n
       /\ \A i \in 1 .. n + 1 : (i = n + 1 \/ i \in 1 .. n) /\ i - 1 \in 0 .. n
       /\ \A i \in 1 .. n : i \in 0 .. n /\ i \in 1 .. n + 1 /\ i - 1 # n /\ i - 1 \in 0 .. n
  <2>1. \A i \in 0 .. n : p[i] \in 1 .. Len(states)
    BY <1>2, <1>3, <1>4 DEF Spine
  <2>2. \A i \in 0 .. n : i \in 0 .. n + 1 /\ i # n + 1
    BY <1>4
  <2>3. \A i \in 0 .. n : s[i] = p[i]
    BY <1>25, <2>2
  <2>4. s[n + 1] = new
    BY <1>9, <1>25
  <2>5. /\ \A i \in 0 .. n + 1 : i = n + 1 \/ i \in 0 .. n
        /\ \A i \in 1 .. n + 1 : (i = n + 1 \/ i \in 1 .. n) /\ i - 1 \in 0 .. n
        /\ \A i \in 1 .. n : i \in 0 .. n /\ i \in 1 .. n + 1 /\ i - 1 # n /\ i - 1 \in 0 .. n
    BY <1>4
  <2> QED BY <2>1, <2>2, <2>3, <2>4, <2>5
<1>27. SpineLen' = n + 1 /\ SpineWord' = word /\ Registered' = Registered
  BY <1>7 DEF SpineLen, SpineWord, Registered
<1>28. \A i \in 0 .. n : p[i] = at => i = n
  BY <1>2, <1>3, <1>4, <1>9, <1>10 DEF Spine
<1>29. Spine(s)'
  <2>1. s \in [0 .. n + 1 -> 1 .. new]
    <3>1. \A i \in 0 .. n + 1 : s[i] \in 1 .. new
      BY <1>16, <1>26
    <3> QED BY <1>25, <3>1
  <2>2. s[0] = initial
    BY <1>2, <1>9, <1>26 DEF Spine
  <2>3. \A i \in 1 .. n + 1 : Step(states', s[i - 1], word[i], s[i])
    <3> SUFFICES ASSUME NEW i \in 1 .. n + 1 PROVE Step(states', s[i - 1], word[i], s[i])
      OBVIOUS
    <3>1. CASE i = n + 1
      <4>1. s[i - 1] = at /\ s[i] = new /\ word[i] = label
        BY <1>6, <1>9, <1>10, <1>26, <3>1
      <4> QED BY <1>19, <4>1 DEF Step
    <3>2. CASE i # n + 1
      <4>1. i \in 1 .. n /\ s[i - 1] = p[i - 1] /\ s[i] = p[i] /\ p[i - 1] \in 1 .. Len(states)
        BY <1>26, <3>2
      <4>2. Step(states, p[i - 1], word[i], p[i])
        BY <1>2, <1>3, <1>4, <4>1 DEF Spine
      <4>3. p[i - 1] # at
        BY <1>26, <1>28, <4>1
      <4> QED BY <1>17, <4>1, <4>2, <4>3 DEF Step
    <3> QED BY <3>1, <3>2
  <2>4. \A i, j \in 0 .. n + 1 : s[i] = s[j] => i = j
    <3>1. \A i, j \in 0 .. n : p[i] = p[j] => i = j
      BY <1>2, <1>3, <1>4 DEF Spine
    <3> QED BY <1>8, <1>26, <3>1
  <2>5. \A i \in 0 .. n + 1 : s[i] \notin Registered
    <3>1. \A i \in 0 .. n : p[i] \notin Registered
      BY <1>2, <1>3, <1>4 DEF Spine
    <3>2. new \notin Registered
      BY <1>1, <1>8 DEF TableInv, Registered
    <3> QED BY <1>26, <3>1, <3>2
  <2> QED BY <1>7, <1>15, <1>27, <2>1, <2>2, <2>3, <2>4, <2>5 DEF Spine
<1>30. EdgesInv(s)'
  <2> SUFFICES ASSUME NEW q \in 1 .. new, NEW l \in DOMAIN states'[q].transitions,
                      states'[q].transitions[l] \notin Registered
               PROVE  \E i \in 1 .. n + 1 : q = s[i - 1] /\ l = word[i]
    BY <1>15, <1>27 DEF EdgesInv, Transitions
  <2>1. q \in 1 .. Len(states)
    BY <1>16, <1>20
  <2>2. CASE q = at /\ l = label
    BY <1>6, <1>9, <1>10, <1>26, <2>2
  <2>3. CASE ~(q = at /\ l = label)
    <3>1. l \in DOMAIN Transitions(q) /\ Transitions(q)[l] \notin Registered
      <4>1. CASE q = at
        BY <1>19, <2>3, <4>1 DEF Transitions
      <4>2. CASE q # at
        BY <1>17, <2>1, <4>2 DEF Transitions
      <4> QED BY <4>1, <4>2
    <3>2. PICK i \in 1 .. n : q = p[i - 1] /\ l = word[i]
      BY <1>2, <1>3, <1>4, <2>1, <3>1 DEF EdgesInv
    <3> QED BY <1>26, <3>2
  <2> QED BY <2>2, <2>3
<1>31. OrderInv(s)'
  <2>1. \A i \in 1 .. n + 1 : \A l \in DOMAIN states'[s[i - 1]].transitions : l <= word[i]
    <3> SUFFICES ASSUME NEW i \in 1 .. n + 1, NEW l \in DOMAIN states'[s[i - 1]].transitions
                 PROVE  l <= word[i]
      OBVIOUS
    <3>1. CASE i = n + 1
      <4>1. s[i - 1] = at /\ word[i] = label
        BY <1>6, <1>9, <1>10, <1>26, <3>1
      <4>2. l = label \/ l \in DOMAIN Transitions(at)
        BY <1>19, <4>1 DEF Transitions
      <4>3. l \in DOMAIN Transitions(at) => l < label
        BY <1>1, <1>2, <1>3, <1>4, <1>6, <1>10 DEF OrderInv
      <4>4. l \in DOMAIN Transitions(at) => l \in Nat
        BY <1>1, <1>10, LabelsAreNumbers DEF IsTable, IsState, Transitions
      <4> QED BY <1>11, <4>1, <4>2, <4>3, <4>4
    <3>2. CASE i # n + 1
      <4>1. i \in 1 .. n /\ s[i - 1] = p[i - 1] /\ p[i - 1] \in 1 .. Len(states)
        BY <1>26, <3>2
      <4>2. p[i - 1] # at
        BY <1>26, <1>28, <4>1
      <4>3. l \in DOMAIN Transitions(p[i - 1])
        BY <1>17, <4>1, <4>2 DEF Transitions
      <4> QED BY <1>2, <1>3, <1>4, <4>1, <4>3 DEF OrderInv
    <3> QED BY <3>1, <3>2
  <2>2. DOMAIN states'[s[n + 1]].transitions = {}
    BY <1>20, <1>26
  <2> QED BY <1>27, <2>1, <2>2 DEF OrderInv, Transitions
<1>32. AddingInv'
  <2>1. states'[at'].data = NoData /\ at' # NoState
    BY <1>7, <1>8, <1>20
  <2>2. prefix_len' \in 0 .. Len(word)
    BY <1>7, <1>9
  <2>3. data # NoData /\ Valid(word)
    BY <1>1, <1>10 DEF AddingInv
  <2> QED BY <1>1, <1>7, <2>1, <2>2, <2>3 DEF AddingInv, Valid
<1>33. PlaceInv(s)'
  BY <1>7, <1>9, <1>26, <1>27 DEF PlaceInv
<1>34. BuildingInv'
  BY <1>29, <1>30, <1>31, <1>32, <1>33, BuildingStep
<1>35. pc' \in BuildingPcs
  BY <1>7 DEF BuildingPcs
<1> QED BY <1>23, <1>24, <1>34, <1>35 DEF IInv

(* Only the spine's word leads to its end, so that no other word is found  *)
(* with the data that is stored there.                                     *)
LEMMA StoreKeeps == IInv /\ Store => IInv'
<1> SUFFICES ASSUME IInv, Store PROVE IInv'
  OBVIOUS
<1>1. BuildingInv /\ AddingInv /\ TableInv /\ Exact /\ pc = "extend" /\ IsTable(states)
  BY DEF IInv, Store, BuildingPcs, BuildingInv, TableInv
<1>2. PICK p : Spine(p) /\ EdgesInv(p) /\ OrderInv(p) /\ PlaceInv(p)
  BY <1>1 DEF BuildingInv
<1>3. SpineLen = prefix_len /\ SpineWord = word
  BY <1>1 DEF SpineLen, SpineWord
<1>4. PICK n \in Nat : n = Len(word)
  BY <1>1 DEF AddingInv
<1>5. /\ prefix_len = n /\ states[at].data = NoData
      /\ states' = [states EXCEPT ![at].data = data]
      /\ entries' = [w \in DOMAIN entries \cup {word} |-> IF w = word THEN data ELSE entries[w]]
      /\ previous' = word /\ pc' = "ready"
      /\ UNCHANGED <<register, initial, word, data, at, prefix_len, stack>>
  BY <1>4 DEF Store, adding
<1>6. word \in Seq(Labels) /\ n \in 0 .. n /\ 0 \in 0 .. n /\ data # NoData
  BY <1>1, <1>4 DEF AddingInv
<1>7. at = p[n] /\ at \in 1 .. Len(states) /\ at \notin Registered
  BY <1>1, <1>2, <1>3, <1>5, <1>6 DEF PlaceInv, Spine, AddingInv
<1>8. /\ Len(states') = Len(states) /\ states' = [s \in 1 .. Len(states) |-> states'[s]]
      /\ states'[at] = [data |-> data, transitions |-> states[at].transitions]
      /\ \A s \in 1 .. Len(states) : s # at => states'[s] = states[s]
  <2>1. PICK m \in Nat : m = Len(states)
    BY <1>1 DEF IsTable
  <2>2. states = [s \in 1 .. m |-> states[s]]
    BY <1>1, <2>1 DEF IsTable
  <2>3. states' = [s \in 1 .. m |-> IF s = at THEN [states[at] EXCEPT !.data = data] ELSE states[s]]
    BY <1>5, <1>7, <2>1, <2>2
  <2>4. IsState(states, states[at])
    BY <1>1, <1>7 DEF IsTable
  <2>5. states'[at] = [data |-> data, transitions |-> states[at].transitions]
    BY <1>7, <2>1, <2>3, <2>4 DEF IsState
  <2>6. Len(states') = m
    <3> DEFINE S == {states'[s] : s \in 1 .. m}
    <3>1. states' = [s \in 1 .. m |-> states'[s]]
      BY <2>3
    <3>2. \A s \in 1 .. m : states'[s] \in S
      OBVIOUS
    <3> HIDE DEF S
    <3> QED BY <3>1, <3>2, LengthIs
  <2> QED BY <2>1, <2>3, <2>5, <2>6
<1>9. \A s \in 1 .. Len(states) : states'[s].transitions = states[s].transitions
  BY <1>8
<1>10. IsTable(states')
  <2>1. ASSUME NEW s \in 1 .. Len(states) PROVE IsState(states', states'[s])
    <3>1. IsState(states, states[s])
      BY <1>1 DEF IsTable
    <3> QED BY <1>8, <3>1 DEF IsState
  <2> QED BY <1>1, <1>8, <2>1 DEF IsTable
<1>11. Stored(states, states', at, data)
  BY <1>1, <1>5, <1>6, <1>7, <1>8, <1>10 DEF Stored
<1>12. TableInv'
  <2>1. \A k \in DOMAIN register : register[k] \in 1 .. Len(states) /\ register[k] # at
    BY <1>1, <1>7 DEF TableInv, Registered
  <2> QED BY <1>1, <1>5, <1>8, <1>10, <2>1 DEF TableInv
<1>13. p \in [0 .. n -> 1 .. Len(states)] /\ Walk(states, initial, word, p) /\ p[n] = at
  BY <1>2, <1>3, <1>4, <1>5, <1>7 DEF Spine, Walk
<1>14. ASSUME NEW w \in Seq(Labels),
              NEW s \in [0 .. Len(w) -> 1 .. Len(states)], Walk(states, initial, w, s), s[Len(w)] = at
       PROVE  w = word
  <2>1. s[Len(w)] = p[SpineLen] /\ SpineLen \in Nat
    BY <1>3, <1>5, <1>7, <1>14
  <2>2. Len(w) = SpineLen /\ \A i \in 1 .. SpineLen : w[i] = SpineWord[i]
    BY ONLY <1>1, <1>2, <1>14, <2>1, OnlySpine
  <2>3. Len(w) = Len(word) /\ \A i \in 1 .. Len(w) : w[i] = word[i]
    BY <1>3, <1>4, <1>5, <2>2
  <2> QED BY <1>6, <2>3
<1>15. \A v : ~ Finds(states, initial, word, v)
  <2> SUFFICES ASSUME NEW v, Finds(states, initial, word, v) PROVE FALSE
    OBVIOUS
  <2>1. PICK s : Walk(states, initial, word, s) /\ states[s[n]].data = v
    BY <1>4 DEF Finds
  <2>2. s = p
    BY <1>6, <1>13, <2>1, WalkUnique
  <2> QED BY <1>5, <1>13, <2>1, <2>2 DEF Finds
<1>16. Exact'
  <2>1. initial \in 1 .. Len(states)
    BY <1>1 DEF TableInv
  <2>2. ASSUME NEW w \in Seq(Labels), NEW v
        PROVE  Finds(states', initial, w, v) <=> w \in DOMAIN entries' /\ v = entries'[w]
    <3>1. Finds(states', initial, w, v) <=>
            \/ Finds(states, initial, w, v)
            \/ v = data /\ \E s \in [0 .. Len(w) -> 1 .. Len(states)] :
                              Walk(states, initial, w, s) /\ s[Len(w)] = at
      BY <1>11, <2>1, StoredFinds
    <3>2. (\E s \in [0 .. Len(w) -> 1 .. Len(states)] : Walk(states, initial, w, s) /\ s[Len(w)] = at)
            <=> w = word
      BY <1>4, <1>13, <1>14
    <3>3. Finds(states, initial, w, v) <=> w \in DOMAIN entries /\ v = entries[w]
      BY <1>1 DEF Exact
    <3>4. w = word => ~ Finds(states, initial, w, v)
      BY <1>15
    <3>5. w \in DOMAIN entries' <=> w \in DOMAIN entries \/ w = word
      BY <1>5
    <3>6. w \in DOMAIN entries' => entries'[w] = IF w = word THEN data ELSE entries[w]
      BY <1>5
    <3> QED BY <3>1, <3>2, <3>3, <3>4, <3>5, <3>6
  <2>3. initial' = initial
    BY <1>5
  <2> QED BY <2>2, <2>3 DEF Exact
<1>17. SpineLen' = n /\ SpineWord' = word /\ SpineLen = n /\ Registered' = Registered
  BY <1>3, <1>4, <1>5 DEF SpineLen, SpineWord, Registered
<1>18. Spine(p)'
  <2>1. ASSUME NEW i \in 1 .. n PROVE Step(states', p[i - 1], word[i], p[i])
    <3>1. i - 1 \in 0 .. n
      BY <1>4
    <3>2. p[i - 1] \in 1 .. Len(states) /\ Step(states, p[i - 1], word[i], p[i])
      BY <1>2, <1>3, <1>17, <3>1 DEF Spine
    <3> QED BY <1>9, <3>2 DEF Step
  <2> QED BY <1>2, <1>5, <1>8, <1>17, <2>1 DEF Spine
<1>19. EdgesInv(p)'
  BY <1>2, <1>3, <1>8, <1>9, <1>17 DEF EdgesInv, Transitions
<1>20. OrderInv(p)'
  <2>1. ASSUME NEW i \in 0 .. n PROVE states'[p[i]].transitions = states[p[i]].transitions
    BY <1>9, <1>13
  <2>2. \A i \in 1 .. n : i - 1 \in 0 .. n
    BY <1>4
  <2>3. \A i \in 1 .. n : \A l \in DOMAIN states'[p[i - 1]].transitions : l <= word[i]
    BY <1>2, <1>3, <1>17, <2>1, <2>2 DEF OrderInv, Transitions
  <2>4. \A l \in DOMAIN Transitions(p[n]) : n < n
    BY <1>1, <1>2, <1>3, <1>4, <1>5 DEF OrderInv
  <2>5. DOMAIN states'[p[n]].transitions = {}
    BY <1>4, <1>6, <2>1, <2>4 DEF Transitions
  <2> QED BY <1>17, <2>3, <2>5 DEF OrderInv, Transitions
<1>21. AddingInv'
  BY <1>1, <1>5 DEF AddingInv
<1>22. PlaceInv(p)'
  BY <1>5 DEF PlaceInv
<1>23. BuildingInv'
  BY <1>18, <1>19, <1>20, <1>21, <1>22, BuildingStep
<1>24. pc' \in BuildingPcs
  BY <1>5 DEF BuildingPcs
<1> QED BY <1>12, <1>16, <1>23, <1>24 DEF IInv

(* One state, no entry: the spine of no word.                              *)
LEMMA InitInv == FsaInit /\ pc \in {"rules", "ready"} => IInv
<1> SUFFICES ASSUME FsaInit, pc \in {"rules", "ready"} PROVE IInv
  OBVIOUS
<1>1. /\ Len(states) = 1 /\ states = [q \in 1 .. 1 |-> states[q]] /\ states[1] = NewState
      /\ initial = 1 /\ register = <<>> /\ previous = <<>> /\ word = <<>> /\ entries = <<>>
      /\ prefix_len = 0
  BY DEF FsaInit
<1>2. DOMAIN register = {} /\ DOMAIN entries = {} /\ Len(previous) = 0
      /\ previous \in Seq(Labels) /\ word \in Seq(Labels) /\ Len(word) = 0
  BY <1>1
<1>3. \A q \in 1 .. 1 : q = 1 /\ DOMAIN states[q].transitions = {} /\ states[q].data = NoData
  BY <1>1 DEF NewState
<1>4. IsTable(states)
  <2>1. IsState(states, NewState)
    BY <1>1 DEF IsState, NewState
  <2> QED BY <1>1, <1>3, <2>1 DEF IsTable
<1>5. TableInv
  BY <1>1, <1>2, <1>4 DEF TableInv
<1>6. Exact
  <2> SUFFICES ASSUME NEW w \in Seq(Labels), NEW v, Finds(states, initial, w, v) PROVE FALSE
    BY <1>2 DEF Exact
  <2>1. PICK s \in [0 .. Len(w) -> 1 .. Len(states)] :
               Walk(states, initial, w, s) /\ states[s[Len(w)]].data = v /\ v # NoData
    BY DEF Finds
  <2>2. Len(w) \in 0 .. Len(w)
    OBVIOUS
  <2> QED BY <1>1, <1>3, <2>1, <2>2
<1>7. PICK p : p = [i \in 0 .. 0 |-> 1]
  OBVIOUS
<1>8. p \in [0 .. 0 -> 1 .. 1] /\ p[0] = 1 /\ \A i \in 0 .. 0 : i = 0
  BY <1>7
<1>9. SpineLen = 0 /\ SpineWord = <<>> /\ pc \notin {"walk", "descend", "register", "extend"}
  BY <1>1, <1>2 DEF SpineLen, SpineWord
<1>10. Registered = {}
  BY <1>2 DEF Registered
<1>11. Spine(p)
  BY <1>1, <1>8, <1>9, <1>10 DEF Spine
<1>12. EdgesInv(p) /\ OrderInv(p) /\ PlaceInv(p)
  BY <1>1, <1>3, <1>8, <1>9 DEF EdgesInv, OrderInv, PlaceInv, Transitions
<1>13. AddingInv
  BY <1>1, <1>2, <1>9 DEF AddingInv
<1>14. BuildingInv
  BY <1>11, <1>12, <1>13 DEF BuildingInv, Spine
<1> QED BY <1>5, <1>6, <1>14 DEF IInv, BuildingPcs

-----------------------------------------------------------------------------
(* The theorems                                                            *)

LEMMA FsaStepKeeps == IInv /\ [FsaNext]_fsa => IInv'
<1> SUFFICES ASSUME IInv, [FsaNext]_fsa PROVE IInv'
  OBVIOUS
<1>1. CASE Prepare
  BY <1>1, PrepareKeeps
<1>2. ASSUME NEW w \in Seq(Labels), Refuse(w) \/ \E d : TakesBytes(d) /\ AddEntry(w, d) PROVE IInv'
  BY <1>2, RefuseKeeps, AddEntryKeeps DEF TakesBytes
<1>3. CASE Close
  BY <1>3, CloseKeeps
<1>4. CASE FsaSteps
  BY <1>4, FollowKeeps, DivergeKeeps, ExtendKeeps, StoreKeeps, DescendKeeps, RegisterKeeps,
     LayoutKeeps DEF FsaSteps
<1>5. CASE UNCHANGED fsa
  BY <1>5, StutterKeeps
<1> QED BY <1>1, <1>2, <1>3, <1>4, <1>5 DEF FsaNext

(* The spine, the register and what is found, at every moment.             *)
THEOREM Invariant == FsaSpec => []IInv
<1>1. FsaInit /\ pc \in {"rules", "ready"} => IInv
  BY InitInv
<1>2. IInv /\ [FsaNext]_fsa => IInv'
  BY FsaStepKeeps
<1> QED BY <1>1, <1>2, PTL DEF FsaSpec

LEMMA ExactRecognises == IInv => Recognises
<1> SUFFICES ASSUME IInv, NEW w \in Words PROVE Values(initial, w) = Entered(w)
  BY DEF Recognises
<1>1. w \in Seq(Labels)
  BY SimpleFsaAssumption
<1>2. \A v : v \in Values(initial, w) <=> Finds(states, initial, w, v)
  BY <1>1, ValuesFound DEF IInv, TableInv
<1>3. \A v : Finds(states, initial, w, v) <=> w \in DOMAIN entries /\ v = entries[w]
  BY <1>1 DEF IInv, Exact
<1>4. \A v : v \in Entered(w) <=> w \in DOMAIN entries /\ v = entries[w]
  BY DEF Entered
<1> QED BY <1>2, <1>3, <1>4

(* At every moment, between any two steps of add_entry and of              *)
(* replace_or_register, the automaton recognises the entries added, with   *)
(* their data, and no other word.                                          *)
THEOREM AlwaysRecognises == FsaSpec => []Recognises
<1>1. IInv => Recognises
  BY ExactRecognises
<1> QED BY <1>1, Invariant, PTL

(* What the builder looks up on the previous word's states, and the state  *)
(* it gives data to: the code has errors for each, "missing previous-word  *)
(* transition", "missing transition during state minimization" and         *)
(* "duplicate encoded word".                                               *)
NoneMissing ==
  /\ pc = "walk" /\ ~Known /\ prefix_len < Len(previous) =>
       previous[prefix_len + 1] \in DOMAIN Transitions(at)
  /\ pc = "descend" /\ Passed(Len(stack)) # Len(previous) =>
       /\ Passed(Len(stack)) < Len(previous)
       /\ previous[Passed(Len(stack)) + 1] \in DOMAIN Transitions(Top)
  /\ pc = "extend" /\ prefix_len = Len(word) => states[at].data = NoData

LEMMA NoneIsMissing == IInv => NoneMissing
<1> SUFFICES ASSUME IInv PROVE NoneMissing
  OBVIOUS
<1>1. ASSUME pc \in {"walk", "descend", "extend"} PROVE BuildingInv /\ AddingInv
  BY <1>1 DEF IInv, BuildingPcs, BuildingInv
<1>2. ASSUME pc = "walk", prefix_len < Len(previous)
      PROVE  previous[prefix_len + 1] \in DOMAIN Transitions(at)
  <2>1. PICK p : Spine(p) /\ PlaceInv(p)
    BY <1>1, <1>2 DEF BuildingInv
  <2>2. SpineLen = Len(previous) /\ SpineWord = previous
    BY <1>2 DEF SpineLen, SpineWord
  <2>3. at = p[prefix_len] /\ prefix_len \in 0 .. Len(previous)
    BY <1>1, <1>2, <2>1, <2>2 DEF AddingInv, PlaceInv
  <2>4. prefix_len + 1 \in 1 .. Len(previous) /\ (prefix_len + 1) - 1 = prefix_len
    BY <1>1, <1>2, <2>3 DEF AddingInv
  <2> QED BY <2>1, <2>2, <2>3, <2>4 DEF Spine, Step, Transitions
<1>3. ASSUME pc = "descend", Passed(Len(stack)) # Len(previous)
      PROVE  /\ Passed(Len(stack)) < Len(previous)
             /\ previous[Passed(Len(stack)) + 1] \in DOMAIN Transitions(Top)
  <2>1. PICK p : Spine(p) /\ PlaceInv(p)
    BY <1>1, <1>3 DEF BuildingInv
  <2>2. SpineLen = Len(previous) /\ SpineWord = previous /\ Len(previous) \in Nat /\ prefix_len \in Nat
    BY <1>1, <1>3 DEF SpineLen, SpineWord, AddingInv
  <2>3. /\ Len(stack) \in Nat \ {0} /\ Len(stack) \in 1 .. Len(stack)
        /\ Passed(Len(stack)) <= Len(previous) /\ Top = p[Passed(Len(stack))]
    BY <1>3, <2>1, <2>2 DEF PlaceInv, Top
  <2>4. PICK n \in Nat : n = Passed(Len(stack))
    <3>1. PICK k \in Nat \ {0} : k = Len(stack)
      BY <2>3
    <3>2. Passed(Len(stack)) \in Nat
      BY <2>2, <3>1 DEF Passed
    <3> QED BY <3>2
  <2>5. n < Len(previous) /\ n + 1 \in 1 .. Len(previous) /\ (n + 1) - 1 = n
    BY <1>3, <2>2, <2>3, <2>4
  <2> QED BY <2>1, <2>2, <2>3, <2>4, <2>5 DEF Spine, Step, Transitions
<1>4. pc = "extend" /\ prefix_len = Len(word) => states[at].data = NoData
  BY <1>1 DEF AddingInv
<1> QED BY <1>2, <1>3, <1>4 DEF NoneMissing

(* The builder's internal errors are never met: between two words nothing  *)
(* of the previous word's states is lost, and no state gets data twice.    *)
THEOREM NeverMissing == FsaSpec => []NoneMissing
<1>1. IInv => NoneMissing
  BY NoneIsMissing
<1> QED BY <1>1, Invariant, PTL

-----------------------------------------------------------------------------
(* The automaton is minimal.                                               *)
(*                                                                         *)
(* A state is registered after those that it leads to, which are           *)
(* registered; so registered states have ranks that fall along their       *)
(* transitions, and what is to be shown of them is shown of one of the     *)
(* least rank that lacks it.  Each has data or leads on, because the       *)
(* previous word is found behind it, and no two have the same record.      *)

RegisterInv ==
  \E n \in Nat : \E rank \in [Registered -> 0 .. n] : \A k \in DOMAIN register :
    /\ k.data # NoData \/ DOMAIN k.transitions # {}
    /\ \A l \in DOMAIN k.transitions :
         k.transitions[l] \in Registered /\ rank[k.transitions[l]] < rank[register[k]]

PreviousInv ==
  /\ previous = <<>> => entries = <<>>
  /\ previous # <<>> => previous \in DOMAIN entries
  /\ pc \in {"descend", "register"} => previous # <<>>
  /\ pc \in BuildingPcs => order = <<>>

(* What is laid out is registered, and some word leads there.              *)
LaidOut(q) ==
  /\ q \in Registered
  /\ \E w \in Seq(Labels) : \E p \in [0 .. Len(w) -> 1 .. Len(states)] :
       Walk(states, initial, w, p) /\ p[Len(w)] = q

Distinct(s) == \A i, j \in 1 .. Len(s) : s[i] = s[j] => i = j

LayoutInv ==
  /\ pc \in {"order", "write", "done"} =>
       order \in Seq(1 .. Len(states)) /\ Distinct(order) /\ \A i \in 1 .. Len(order) : LaidOut(order[i])
  /\ pc = "order" =>
       /\ stack \in Seq(1 .. Len(states)) /\ Len(stack) # 0 /\ Distinct(stack)
       /\ \A i \in 1 .. Len(stack) :
            LaidOut(stack[i]) /\ \A j \in 1 .. Len(order) : stack[i] # order[j]

MinimalInv == RegisterInv /\ PreviousInv /\ LayoutInv

(* Two paths, one where the other ends.                                    *)
LEMMA JoinedFinds ==
  ASSUME NEW T, NEW q, NEW u \in Seq(Labels), NEW p \in [0 .. Len(u) -> 1 .. Len(T)], Walk(T, q, u, p),
         NEW w \in Seq(Labels), NEW v, Finds(T, p[Len(u)], w, v)
  PROVE  u \o w \in Seq(Labels) /\ Finds(T, q, u \o w, v)
<1>1. PICK r \in [0 .. Len(w) -> 1 .. Len(T)] : Walk(T, p[Len(u)], w, r) /\ T[r[Len(w)]].data = v /\ v # NoData
  BY DEF Finds
<1>2. PICK m \in Nat : m = Len(u)
  OBVIOUS
<1>3. PICK n \in Nat : n = Len(w)
  OBVIOUS
<1>4. PICK x \in Seq(Labels) : x = u \o w
  <2>1. u \o w \in Seq(Labels)
    OBVIOUS
  <2> QED BY <2>1
<1>5. /\ Len(x) = m + n /\ \A i \in 1 .. m : x[i] = u[i]
      /\ \A i \in m + 1 .. m + n : x[i] = w[i - m]
  BY <1>2, <1>3, <1>4
<1>6. PICK s : s = [i \in 0 .. m + n |-> IF i <= m THEN p[i] ELSE r[i - m]]
  OBVIOUS
<1>7. \A i \in 0 .. m : i \in 0 .. m + n /\ s[i] = p[i] /\ s[i] \in 1 .. Len(T)
  <2>1. \A i \in 0 .. m : i \in 0 .. m + n /\ i <= m /\ p[i] \in 1 .. Len(T)
    BY <1>2
  <2> QED BY <1>6, <2>1
<1>8. \A i \in m + 1 .. m + n : i - m \in 1 .. n /\ i - m \in 0 .. n /\ s[i] = r[i - m] /\ s[i] \in 1 .. Len(T)
  <2>1. \A i \in m + 1 .. m + n : i \in 0 .. m + n /\ ~(i <= m) /\ i - m \in 1 .. n /\ i - m \in 0 .. n
    OBVIOUS
  <2>2. \A i \in 0 .. n : r[i] \in 1 .. Len(T)
    BY <1>1, <1>3
  <2> QED BY <1>6, <2>1, <2>2
<1>9. \A i \in 0 .. m + n : i \in 0 .. m \/ i \in m + 1 .. m + n
  BY <1>2, <1>3
<1>10. s \in [0 .. m + n -> 1 .. Len(T)]
  BY <1>6, <1>7, <1>8, <1>9
<1>11. s[0] = q
  BY <1>2, <1>7 DEF Walk
<1>12. ASSUME NEW i \in 1 .. m PROVE Step(T, s[i - 1], x[i], s[i])
  <2>1. i \in 0 .. m /\ i - 1 \in 0 .. m
    OBVIOUS
  <2> QED BY <1>2, <1>5, <1>7, <2>1 DEF Walk
<1>13. ASSUME NEW i \in m + 1 .. m + n PROVE Step(T, s[i - 1], x[i], s[i])
  <2>1. Step(T, r[(i - m) - 1], w[i - m], r[i - m])
    BY <1>1, <1>3, <1>8 DEF Walk
  <2>2. s[i - 1] = r[(i - m) - 1]
    <3>1. CASE i = m + 1
      <4>1. i - 1 = m /\ (i - m) - 1 = 0 /\ m \in 0 .. m
        BY <3>1
      <4> QED BY <1>1, <1>2, <1>7, <4>1 DEF Walk
    <3>2. CASE i # m + 1
      <4>1. i - 1 \in m + 1 .. m + n /\ (i - 1) - m = (i - m) - 1
        BY <3>2
      <4> QED BY <1>8, <4>1
    <3> QED BY <3>1, <3>2
  <2> QED BY <1>5, <1>8, <2>1, <2>2
<1>14. \A i \in 1 .. m + n : Step(T, s[i - 1], x[i], s[i])
  <2>1. \A i \in 1 .. m + n : i \in 1 .. m \/ i \in m + 1 .. m + n
    OBVIOUS
  <2> QED BY <1>12, <1>13, <2>1
<1>15. T[s[m + n]].data = v
  <2>1. s[m + n] = r[n]
    <3>1. CASE n = 0
      <4>1. m + n = m /\ m \in 0 .. m
        BY <3>1
      <4> QED BY <1>1, <1>2, <1>7, <3>1, <4>1 DEF Walk
    <3>2. CASE n # 0
      <4>1. m + n \in m + 1 .. m + n /\ (m + n) - m = n
        BY <3>2
      <4> QED BY <1>8, <4>1
    <3> QED BY <3>1, <3>2
  <2> QED BY <1>1, <1>3, <2>1
<1>16. Walk(T, q, x, s)
  BY <1>5, <1>10, <1>11, <1>14 DEF Walk
<1> QED BY <1>1, <1>4, <1>5, <1>10, <1>15, <1>16 DEF Finds

LEMMA OnePath ==
  ASSUME NEW T, NEW q \in 1 .. Len(T), NEW l, NEW t \in 1 .. Len(T), Step(T, q, l, t),
         NEW p, p = [i \in 0 .. 1 |-> IF i = 0 THEN q ELSE t]
  PROVE  p \in [0 .. 1 -> 1 .. Len(T)] /\ Walk(T, q, <<l>>, p) /\ p[1] = t
<1>1. p[0] = q /\ p[1] = t
  OBVIOUS
<1>2. p \in [0 .. 1 -> 1 .. Len(T)]
  OBVIOUS
<1>3. Len(<<l>>) = 1 /\ <<l>>[1] = l /\ \A i \in 1 .. 1 : i = 1 /\ i - 1 = 0
  OBVIOUS
<1> QED BY <1>1, <1>2, <1>3 DEF Walk

(* What is found behind a transition, and nothing else with its label.     *)
LEMMA FindsBehind ==
  ASSUME NEW T, IsTable(T), NEW q \in 1 .. Len(T), NEW l \in Labels, NEW w \in Seq(Labels), NEW v
  PROVE  /\ <<l>> \o w \in Seq(Labels)
         /\ Finds(T, q, <<l>> \o w, v) <=>
              l \in DOMAIN T[q].transitions /\ Finds(T, T[q].transitions[l], w, v)
<1>1. PICK n \in Nat : n = Len(w)
  OBVIOUS
<1>2. PICK x \in Seq(Labels) : x = <<l>> \o w
  <2>1. <<l>> \o w \in Seq(Labels)
    OBVIOUS
  <2> QED BY <2>1
<1>3. Len(x) = n + 1 /\ x[1] = l /\ \A i \in 1 .. n : x[i + 1] = w[i]
  BY <1>1, <1>2
<1>4. ASSUME l \in DOMAIN T[q].transitions, Finds(T, T[q].transitions[l], w, v)
      PROVE  Finds(T, q, x, v)
  <2>1. PICK t : t = T[q].transitions[l]
    OBVIOUS
  <2>2. Step(T, q, l, t)
    BY <1>4, <2>1 DEF Step
  <2>3. t \in 1 .. Len(T)
    BY <2>2, StepTarget
  <2>4. PICK p : p = [i \in 0 .. 1 |-> IF i = 0 THEN q ELSE t]
    OBVIOUS
  <2>5. p \in [0 .. 1 -> 1 .. Len(T)] /\ Walk(T, q, <<l>>, p) /\ p[1] = t
    BY <2>2, <2>3, <2>4, OnePath
  <2>6. <<l>> \in Seq(Labels) /\ Len(<<l>>) = 1
    OBVIOUS
  <2> QED BY <1>2, <1>4, <2>1, <2>5, <2>6, JoinedFinds
<1>5. ASSUME Finds(T, q, x, v)
      PROVE  l \in DOMAIN T[q].transitions /\ Finds(T, T[q].transitions[l], w, v)
  <2>1. PICK s \in [0 .. n + 1 -> 1 .. Len(T)] : Walk(T, q, x, s) /\ T[s[n + 1]].data = v /\ v # NoData
    BY <1>3, <1>5 DEF Finds
  <2>2. 1 \in 1 .. n + 1 /\ 1 - 1 = 0
    OBVIOUS
  <2>3. Step(T, q, l, s[1])
    BY <1>3, <2>1, <2>2 DEF Walk
  <2>4. PICK r : r = [i \in 0 .. n |-> s[i + 1]]
    OBVIOUS
  <2>5. \A i \in 0 .. n : i + 1 \in 0 .. n + 1 /\ r[i] = s[i + 1] /\ r[i] \in 1 .. Len(T)
    BY <2>4
  <2>6. r \in [0 .. n -> 1 .. Len(T)] /\ r[0] = s[1] /\ r[n] = s[n + 1]
    BY <2>4, <2>5
  <2>7. ASSUME NEW i \in 1 .. n PROVE Step(T, r[i - 1], w[i], r[i])
    <3>1. i \in 0 .. n /\ i - 1 \in 0 .. n /\ (i - 1) + 1 = i /\ i + 1 \in 1 .. n + 1 /\ (i + 1) - 1 = i
      OBVIOUS
    <3>2. Step(T, s[(i + 1) - 1], x[i + 1], s[i + 1])
      BY <1>3, <2>1, <3>1 DEF Walk
    <3> QED BY <1>3, <2>5, <3>1, <3>2
  <2>8. Walk(T, s[1], w, r)
    BY <1>1, <2>6, <2>7 DEF Walk
  <2>9. Finds(T, s[1], w, v)
    BY <1>1, <2>1, <2>6, <2>8 DEF Finds
  <2> QED BY <2>3, <2>9 DEF Step
<1> QED BY <1>2, <1>4, <1>5

LEMMA FindsAt ==
  ASSUME NEW T, NEW q \in 1 .. Len(T), NEW v
  PROVE  <<>> \in Seq(Labels) /\ (Finds(T, q, <<>>, v) <=> v # NoData /\ T[q].data = v)
<1>1. Len(<<>>) = 0 /\ <<>> \in Seq(Labels) /\ 0 \in 0 .. 0
  OBVIOUS
<1>2. PICK p : p = [i \in 0 .. 0 |-> q]
  OBVIOUS
<1>3. p \in [0 .. 0 -> 1 .. Len(T)] /\ p[0] = q
  BY <1>1, <1>2
<1>4. Walk(T, q, <<>>, p)
  BY <1>1, <1>3 DEF Walk
<1> QED BY <1>1, <1>3, <1>4 DEF Finds, Walk

(* A registered state has the record by which it was registered.           *)
LEMMA RegisteredIs ==
  ASSUME TableInv, NEW q \in Registered
  PROVE  /\ q \in 1 .. Len(states) /\ states[q] \in DOMAIN register /\ register[states[q]] = q
         /\ DOMAIN states[q].transitions \subseteq Labels
BY DEF TableInv, Registered, IsTable, IsState

(* From every registered state some word is found.                         *)
LEMMA Productive ==
  ASSUME TableInv, RegisterInv
  PROVE  \A q \in Registered : \E w \in Seq(Labels) : \E v : Finds(states, q, w, v)
<1> DEFINE Has(q) == \E w \in Seq(Labels) : \E v : Finds(states, q, w, v)
<1>1. PICK n \in Nat : \E rank \in [Registered -> 0 .. n] : \A k \in DOMAIN register :
        /\ k.data # NoData \/ DOMAIN k.transitions # {}
        /\ \A l \in DOMAIN k.transitions :
             k.transitions[l] \in Registered /\ rank[k.transitions[l]] < rank[register[k]]
  BY DEF RegisterInv
<1>2. PICK rank \in [Registered -> 0 .. n] : \A k \in DOMAIN register :
        /\ k.data # NoData \/ DOMAIN k.transitions # {}
        /\ \A l \in DOMAIN k.transitions :
             k.transitions[l] \in Registered /\ rank[k.transitions[l]] < rank[register[k]]
  BY <1>1
<1> SUFFICES ASSUME NEW o \in Registered, ~ Has(o) PROVE FALSE
  OBVIOUS
<1> DEFINE Bad(i) == \E q \in Registered : ~ Has(q) /\ rank[q] = i
           bad == { i \in Nat : Bad(i) }
<1> HIDE DEF Has
<1>3. PICK i \in bad : \A j \in bad : i <= j
  <2>1. rank[o] \in bad
    OBVIOUS
  <2>2. bad \in SUBSET Nat
    OBVIOUS
  <2> HIDE DEF bad
  <2> QED BY <2>1, <2>2, LeastOf
<1>4. PICK q \in Registered : ~ Has(q) /\ rank[q] = i
  BY <1>3
<1>5. /\ q \in 1 .. Len(states) /\ states[q] \in DOMAIN register /\ register[states[q]] = q
      /\ DOMAIN states[q].transitions \subseteq Labels
  BY RegisteredIs
<1>6. CASE states[q].data # NoData
  <2>1. Finds(states, q, <<>>, states[q].data) /\ <<>> \in Seq(Labels)
    BY <1>5, <1>6, FindsAt
  <2> QED BY <1>4, <2>1 DEF Has
<1>7. CASE states[q].data = NoData
  <2>1. PICK l \in DOMAIN states[q].transitions : TRUE
    BY <1>2, <1>5, <1>7
  <2>2. PICK t \in Registered : t = states[q].transitions[l] /\ rank[t] < rank[q]
    BY <1>2, <1>5
  <2>3. rank[t] \in Nat /\ i \in Nat /\ ~(i <= rank[t])
    BY <1>4, <2>2
  <2>4. Has(t)
    BY <1>3, <2>3
  <2>5. PICK w \in Seq(Labels) : \E v : Finds(states, t, w, v)
    BY <2>4 DEF Has
  <2>6. PICK v : Finds(states, t, w, v)
    BY <2>5
  <2>7. <<l>> \o w \in Seq(Labels) /\ Finds(states, q, <<l>> \o w, v)
    <3>1. l \in Labels /\ IsTable(states)
      BY <1>5 DEF TableInv
    <3> QED BY <1>5, <2>2, <2>6, <3>1, FindsBehind
  <2> QED BY <1>4, <2>7 DEF Has
<1> QED BY <1>6, <1>7

(* From two registered states not the same words are found.                *)
LEMMA Distinguished ==
  ASSUME TableInv, RegisterInv
  PROVE  \A q, r \in Registered : q # r =>
           \E w \in Seq(Labels) : \E v : ~(Finds(states, q, w, v) <=> Finds(states, r, w, v))
<1> DEFINE Same(q, r) == \A w \in Seq(Labels) : \A v : Finds(states, q, w, v) <=> Finds(states, r, w, v)
<1>1. PICK n \in Nat : \E rank \in [Registered -> 0 .. n] : \A k \in DOMAIN register :
        /\ k.data # NoData \/ DOMAIN k.transitions # {}
        /\ \A l \in DOMAIN k.transitions :
             k.transitions[l] \in Registered /\ rank[k.transitions[l]] < rank[register[k]]
  BY DEF RegisterInv
<1>2. PICK rank \in [Registered -> 0 .. n] : \A k \in DOMAIN register :
        /\ k.data # NoData \/ DOMAIN k.transitions # {}
        /\ \A l \in DOMAIN k.transitions :
             k.transitions[l] \in Registered /\ rank[k.transitions[l]] < rank[register[k]]
  BY <1>1
<1> SUFFICES ASSUME NEW o \in Registered, NEW x \in Registered, o # x, Same(o, x) PROVE FALSE
  BY Zenon
<1> DEFINE Bad(i) == \E q, r \in Registered : q # r /\ Same(q, r) /\ rank[q] = i
           bad == { i \in Nat : Bad(i) }
<1> HIDE DEF Same
<1>3. PICK i \in bad : \A j \in bad : i <= j
  <2>1. rank[o] \in bad
    OBVIOUS
  <2>2. bad \in SUBSET Nat
    OBVIOUS
  <2> HIDE DEF bad
  <2> QED BY <2>1, <2>2, LeastOf
<1>4. PICK q \in Registered, r \in Registered : q # r /\ Same(q, r) /\ rank[q] = i
  BY <1>3
<1>5. /\ q \in 1 .. Len(states) /\ states[q] \in DOMAIN register /\ register[states[q]] = q
      /\ DOMAIN states[q].transitions \subseteq Labels
  BY RegisteredIs
<1>6. /\ r \in 1 .. Len(states) /\ states[r] \in DOMAIN register /\ register[states[r]] = r
      /\ DOMAIN states[r].transitions \subseteq Labels
  BY RegisteredIs
<1>7. IsTable(states)
  BY DEF TableInv
<1>8. states[q].data = states[r].data
  <2>1. <<>> \in Seq(Labels)
    OBVIOUS
  <2>2. \A v : (v # NoData /\ states[q].data = v) <=> (v # NoData /\ states[r].data = v)
    <3> SUFFICES ASSUME NEW v
                 PROVE (v # NoData /\ states[q].data = v) <=> (v # NoData /\ states[r].data = v)
      OBVIOUS
    <3>1. Finds(states, q, <<>>, v) <=> Finds(states, r, <<>>, v)
      BY <1>4, <2>1 DEF Same
    <3>2. Finds(states, q, <<>>, v) <=> v # NoData /\ states[q].data = v
      BY <1>5, FindsAt
    <3>3. Finds(states, r, <<>>, v) <=> v # NoData /\ states[r].data = v
      BY <1>6, FindsAt
    <3> QED BY <3>1, <3>2, <3>3
  <2> QED BY <2>2
<1>9. ASSUME NEW a \in Registered, NEW b \in Registered, Same(a, b), NEW l \in DOMAIN states[a].transitions
      PROVE  l \in DOMAIN states[b].transitions
  <2>1. /\ a \in 1 .. Len(states) /\ b \in 1 .. Len(states) /\ l \in Labels
        /\ states[a] \in DOMAIN register
    BY <1>9, RegisteredIs
  <2>2. states[a].transitions[l] \in Registered
    BY <1>2, <2>1
  <2>3. PICK w \in Seq(Labels) : \E v : Finds(states, states[a].transitions[l], w, v)
    BY <2>2, Productive
  <2>4. PICK v : Finds(states, states[a].transitions[l], w, v)
    BY <2>3
  <2>5. <<l>> \o w \in Seq(Labels) /\ Finds(states, a, <<l>> \o w, v)
    BY <1>7, <1>9, <2>1, <2>4, FindsBehind
  <2>6. Finds(states, b, <<l>> \o w, v)
    BY <1>9, <2>5 DEF Same
  <2> QED BY <1>7, <2>1, <2>6, FindsBehind
<1>10. Same(r, q)
  BY <1>4 DEF Same
<1>11. \A l : l \in DOMAIN states[q].transitions <=> l \in DOMAIN states[r].transitions
  BY <1>4, <1>9, <1>10
<1>12. ASSUME NEW l \in DOMAIN states[q].transitions
       PROVE  states[q].transitions[l] = states[r].transitions[l]
  <2>1. PICK t \in Registered : t = states[q].transitions[l] /\ rank[t] < rank[q]
    BY <1>2, <1>5
  <2>2. l \in DOMAIN states[r].transitions /\ l \in Labels
    BY <1>5, <1>11
  <2>3. PICK y \in Registered : y = states[r].transitions[l]
    BY <1>2, <1>6, <2>2
  <2>4. Same(t, y)
    <3> SUFFICES ASSUME NEW w \in Seq(Labels), NEW v
                 PROVE  Finds(states, t, w, v) <=> Finds(states, y, w, v)
      BY DEF Same
    <3>1. <<l>> \o w \in Seq(Labels) /\ (Finds(states, q, <<l>> \o w, v) <=> Finds(states, t, w, v))
      BY <1>5, <1>7, <2>1, <2>2, FindsBehind
    <3>2. Finds(states, r, <<l>> \o w, v) <=> Finds(states, y, w, v)
      BY <1>6, <1>7, <2>2, <2>3, FindsBehind
    <3>3. Finds(states, q, <<l>> \o w, v) <=> Finds(states, r, <<l>> \o w, v)
      BY <1>4, <3>1 DEF Same
    <3> QED BY <3>1, <3>2, <3>3
  <2>5. rank[t] \in Nat /\ i \in Nat /\ ~(i <= rank[t])
    BY <1>4, <2>1
  <2>6. t = y
    BY <1>3, <2>4, <2>5
  <2> QED BY <2>1, <2>3, <2>6
<1>13. states[q].transitions = states[r].transitions
  <2>1. /\ states[q].transitions = [l \in DOMAIN states[q].transitions |-> states[q].transitions[l]]
        /\ states[r].transitions = [l \in DOMAIN states[r].transitions |-> states[r].transitions[l]]
    BY <1>5, <1>6, <1>7 DEF IsTable, IsState
  <2>2. DOMAIN states[q].transitions = DOMAIN states[r].transitions
    BY <1>11
  <2> QED BY <1>12, <2>1, <2>2
<1>14. states[q] = states[r]
  BY <1>5, <1>6, <1>7, <1>8, <1>13 DEF IsTable, IsState
<1> QED BY <1>4, <1>5, <1>6, <1>14

LEMMA TailIs ==
  ASSUME NEW u \in Seq(Labels), NEW w \in Seq(Labels)
  PROVE  SubSeq(u \o w, Len(u) + 1, Len(u \o w)) = w /\ Len(u) + 1 \in 1 .. Len(u \o w) + 1
<1>1. Len(u) \in Nat /\ Len(w) \in Nat /\ Len(u \o w) = Len(u) + Len(w)
  OBVIOUS
<1>2. PICK m \in Nat : m = Len(u)
  BY <1>1
<1>3. PICK n \in Nat : n = Len(w)
  BY <1>1
<1>4. m + 1 \in (m + 1) .. (m + n + 1) /\ m + n \in m .. (m + n) /\ (m + 1) - m = 1 /\ (m + n) - m = n
  OBVIOUS
<1>5. SubSeq(u \o w, m + 1, m + n) = SubSeq(w, (m + 1) - m, (m + n) - m)
  BY <1>1, <1>2, <1>3, <1>4, SubSeqOfConcat2
<1>6. SubSeq(w, 1, n) = w
  BY <1>3, SubSeqFull
<1>7. SubSeq(u \o w, m + 1, m + n) = w
  BY <1>4, <1>5, <1>6
<1>8. m + 1 \in 1 .. m + n + 1
  OBVIOUS
<1> QED BY <1>1, <1>2, <1>3, <1>7, <1>8

(* What is found from a state laid out is the ending of an entry.          *)
LEMMA FoundEnding ==
  ASSUME IInv, NEW q, LaidOut(q), NEW w \in Seq(Labels), NEW v, Finds(states, q, w, v)
  PROVE  w \in Endings
<1>1. PICK u \in Seq(Labels) : \E p \in [0 .. Len(u) -> 1 .. Len(states)] :
                                 Walk(states, initial, u, p) /\ p[Len(u)] = q
  BY DEF LaidOut
<1>2. PICK p \in [0 .. Len(u) -> 1 .. Len(states)] : Walk(states, initial, u, p) /\ p[Len(u)] = q
  BY <1>1
<1>3. u \o w \in Seq(Labels) /\ Finds(states, initial, u \o w, v)
  BY <1>2, JoinedFinds
<1>4. u \o w \in DOMAIN entries
  BY <1>3 DEF IInv, Exact
<1>5. PICK x : x = u \o w
  OBVIOUS
<1>6. PICK i \in 1 .. Len(x) + 1 : SubSeq(x, i, Len(x)) = w
  BY <1>5, TailIs
<1>7. w \in { SubSeq(x, k, Len(x)) : k \in 1 .. Len(x) + 1 }
  BY <1>6, Zenon
<1>8. x \in DOMAIN entries
  BY <1>4, <1>5
<1> QED BY <1>7, <1>8, Zenon DEF Endings

LEMMA LaidOutMinimal == IInv /\ MinimalInv => Minimal
<1> SUFFICES ASSUME IInv, MinimalInv, pc \in {"write", "done"}, NEW i \in DOMAIN order, NEW j \in DOMAIN order
             PROVE  /\ i # j => \E w \in Endings : Values(order[i], w) # Values(order[j], w)
                    /\ \E w \in Endings : Values(order[i], w) # {}
  BY DEF Minimal
<1>1. TableInv /\ RegisterInv /\ LayoutInv /\ IsTable(states)
  BY DEF IInv, MinimalInv, TableInv
<1>2. i \in 1 .. Len(order) /\ j \in 1 .. Len(order)
  BY <1>1 DEF LayoutInv
<1>3. PICK q : q = order[i]
  OBVIOUS
<1>4. PICK r : r = order[j]
  OBVIOUS
<1>5. LaidOut(q) /\ LaidOut(r) /\ (i # j => q # r)
  BY <1>1, <1>2, <1>3, <1>4 DEF LayoutInv, Distinct
<1>6. q \in Registered /\ r \in Registered
  BY <1>5 DEF LaidOut
<1>7. q \in 1 .. Len(states) /\ r \in 1 .. Len(states)
  BY <1>1, <1>6, RegisteredIs
<1>8. \A w \in Seq(Labels) : \A v : v \in Values(q, w) <=> Finds(states, q, w, v)
  BY <1>1, <1>7, ValuesFound
<1>9. \A w \in Seq(Labels) : \A v : v \in Values(r, w) <=> Finds(states, r, w, v)
  BY <1>1, <1>7, ValuesFound
<1>10. ASSUME i # j PROVE \E w \in Endings : Values(q, w) # Values(r, w)
  <2>1. PICK w \in Seq(Labels) : \E v : ~(Finds(states, q, w, v) <=> Finds(states, r, w, v))
    BY <1>1, <1>5, <1>6, <1>10, Distinguished
  <2>2. PICK v : ~(Finds(states, q, w, v) <=> Finds(states, r, w, v))
    BY <2>1
  <2>3. w \in Endings
    <3>1. CASE Finds(states, q, w, v)
      BY <1>5, <3>1, FoundEnding
    <3>2. CASE Finds(states, r, w, v)
      BY <1>5, <3>2, FoundEnding
    <3> QED BY <2>2, <3>1, <3>2
  <2> QED BY <1>8, <1>9, <2>2, <2>3
<1>11. \E w \in Endings : Values(q, w) # {}
  <2>1. PICK w \in Seq(Labels) : \E v : Finds(states, q, w, v)
    BY <1>1, <1>6, Productive
  <2>2. PICK v : Finds(states, q, w, v)
    BY <2>1
  <2>3. w \in Endings
    BY <1>5, <2>2, FoundEnding
  <2> QED BY <1>8, <2>2, <2>3
<1> QED BY <1>3, <1>4, <1>10, <1>11

-----------------------------------------------------------------------------
(* The steps keep what makes the automaton minimal                         *)

LEMMA RegisterSame ==
  ASSUME RegisterInv, UNCHANGED register
  PROVE  RegisterInv'
<1>1. Registered' = Registered
  BY DEF Registered
<1> QED BY <1>1 DEF RegisterInv

LEMMA MinimalInit == FsaInit /\ pc \in {"rules", "ready"} => MinimalInv
<1> SUFFICES ASSUME FsaInit, pc \in {"rules", "ready"} PROVE MinimalInv
  OBVIOUS
<1>1. DOMAIN register = {}
  BY DEF FsaInit
<1>2. PICK rank : rank = [q \in Registered |-> 0]
  OBVIOUS
<1>3. rank \in [Registered -> 0 .. 0] /\ 0 \in Nat
  BY <1>2
<1>4. RegisterInv
  BY <1>1, <1>3 DEF RegisterInv
<1>5. PreviousInv /\ LayoutInv
  BY DEF FsaInit, PreviousInv, LayoutInv
<1> QED BY <1>4, <1>5 DEF MinimalInv

(* Until the automaton is laid out.                                        *)
LEMMA BuildingMinimal ==
  ASSUME MinimalInv, UNCHANGED <<register, order, previous, entries>>,
         pc \in BuildingPcs, pc' \in BuildingPcs \cup {"failed"},
         pc' \in {"descend", "register"} => previous # <<>>
  PROVE  MinimalInv'
<1>1. RegisterInv'
  BY RegisterSame DEF MinimalInv
<1>2. PreviousInv'
  BY DEF MinimalInv, PreviousInv, BuildingPcs
<1>3. LayoutInv'
  BY DEF LayoutInv, BuildingPcs
<1> QED BY <1>1, <1>2, <1>3 DEF MinimalInv

LEMMA AddingMinimal ==
  ASSUME IInv, MinimalInv, Follow \/ Diverge \/ Extend \/ Descend
  PROVE  MinimalInv'
<1>1. UNCHANGED <<register, order, previous, entries>>
  BY DEF Follow, Diverge, Extend, Descend, builder
<1>2. pc \in BuildingPcs /\ pc' \in BuildingPcs
  BY DEF Follow, Diverge, Extend, Descend, BuildingPcs
<1>3. ASSUME pc' \in {"descend", "register"} PROVE previous # <<>>
  <2>1. CASE Descend
    BY <2>1 DEF Descend, MinimalInv, PreviousInv
  <2>2. CASE Diverge
    <3>1. prefix_len < Len(previous) /\ prefix_len \in Nat
      BY <1>2, <1>3, <2>2 DEF Diverge, IInv, BuildingInv, AddingInv
    <3>2. Len(<<>>) = 0
      OBVIOUS
    <3> QED BY <3>1, <3>2
  <2> QED BY <1>3, <2>1, <2>2 DEF Follow, Extend
<1> QED BY <1>1, <1>2, <1>3, BuildingMinimal

LEMMA CloseMinimal ==
  ASSUME MinimalInv, Close
  PROVE  MinimalInv'
<1>1. UNCHANGED <<register, order, previous, entries>>
  BY DEF Close, builder
<1>2. pc \in BuildingPcs /\ pc' \in BuildingPcs \cup {"failed"}
  BY DEF Close, BuildingPcs
<1>3. pc' \in {"descend", "register"} => previous # <<>>
  BY DEF Close, MinimalInv, PreviousInv
<1> QED BY <1>1, <1>2, <1>3, BuildingMinimal

LEMMA StoreMinimal ==
  ASSUME IInv, MinimalInv, Store
  PROVE  MinimalInv'
<1>1. RegisterInv'
  BY RegisterSame DEF MinimalInv, Store
<1>2. word # <<>>
  BY DEF IInv, BuildingInv, AddingInv, BuildingPcs, Store, Valid
<1>3. /\ pc = "extend" /\ previous' = word /\ pc' = "ready" /\ order' = order
      /\ entries' = [w \in DOMAIN entries \cup {word} |-> IF w = word THEN data ELSE entries[w]]
  BY DEF Store
<1>4. word \in DOMAIN entries'
  BY <1>3
<1>5. order = <<>>
  BY <1>3 DEF MinimalInv, PreviousInv, BuildingPcs
<1>6. PreviousInv'
  BY <1>2, <1>3, <1>4, <1>5 DEF PreviousInv
<1>7. LayoutInv'
  BY <1>3 DEF LayoutInv
<1> QED BY <1>1, <1>6, <1>7 DEF MinimalInv

(* The previous word is found, so the end of the spine has data or leads   *)
(* on; it leads to registered states.                                      *)
LEMMA TopRegistrable ==
  ASSUME IInv, MinimalInv, pc = "register"
  PROVE  /\ Top \in 1 .. Len(states) /\ Top \notin Registered
         /\ states[Top].data # NoData \/ DOMAIN states[Top].transitions # {}
         /\ \A l \in DOMAIN states[Top].transitions : states[Top].transitions[l] \in Registered
<1>1. BuildingInv /\ AddingInv /\ TableInv /\ Exact
  BY DEF IInv, BuildingPcs, BuildingInv
<1>2. PICK p : Spine(p) /\ EdgesInv(p) /\ OrderInv(p) /\ PlaceInv(p)
  BY <1>1 DEF BuildingInv
<1>3. PICK n \in Nat : n = SpineLen
  BY <1>1, <1>2, RegisterFacts
<1>4. /\ n \in 0 .. Len(previous) /\ SpineWord = previous /\ Len(previous) \in Nat
      /\ Top = p[n] /\ Top \in 1 .. Len(states) /\ previous \in Seq(Labels)
  BY <1>1, <1>2, <1>3, RegisterFacts DEF AddingInv
<1>5. n \in 0 .. n /\ \A i \in 1 .. n : i - 1 \in 0 .. n /\ i - 1 # n /\ i \in 0 .. n
  BY <1>3
<1>6. Top \notin Registered
  BY <1>2, <1>3, <1>4, <1>5 DEF Spine
<1>7. ASSUME NEW l \in DOMAIN states[Top].transitions PROVE states[Top].transitions[l] \in Registered
  <2>1. \A i \in 1 .. n : p[i - 1] # Top
    BY <1>2, <1>3, <1>4, <1>5 DEF Spine
  <2> QED BY <1>2, <1>3, <1>4, <2>1 DEF EdgesInv, Transitions
<1>8. previous \in DOMAIN entries
  BY DEF MinimalInv, PreviousInv
<1>9. Finds(states, initial, previous, entries[previous])
  BY <1>1, <1>4, <1>8 DEF Exact
<1>10. PICK s \in [0 .. Len(previous) -> 1 .. Len(states)] :
         /\ Walk(states, initial, previous, s) /\ states[s[Len(previous)]].data = entries[previous]
         /\ entries[previous] # NoData
  BY <1>9 DEF Finds
<1> DEFINE bad == { i \in 0 .. n : p[i] # s[i] }
<1>11. bad = {}
  <2> SUFFICES ASSUME bad # {} PROVE FALSE
    OBVIOUS
  <2>1. PICK k \in bad : \A i \in bad : k <= i
    <3>1. bad \in SUBSET Nat
      BY <1>3
    <3> HIDE DEF bad
    <3> QED BY <3>1, LeastOf
  <2>2. k # 0
    BY <1>2, <1>10 DEF Walk, Spine
  <2>3. k \in 1 .. n /\ k - 1 \in 0 .. n /\ ~(k <= k - 1) /\ k \in 1 .. Len(previous)
    BY <1>3, <1>4, <2>2
  <2>4. p[k - 1] = s[k - 1]
    BY <2>1, <2>3
  <2>5. Step(states, p[k - 1], previous[k], p[k])
    BY <1>2, <1>3, <1>4, <2>3 DEF Spine
  <2>6. Step(states, s[k - 1], previous[k], s[k])
    BY <1>10, <2>3 DEF Walk
  <2>7. p[k] = s[k]
    BY <2>4, <2>5, <2>6 DEF Step
  <2> QED BY <2>7
<1>12. s[n] = Top
  BY <1>4, <1>5, <1>11
<1>13. states[Top].data # NoData \/ DOMAIN states[Top].transitions # {}
  <2>1. CASE n = Len(previous)
    BY <1>10, <1>12, <2>1
  <2>2. CASE n # Len(previous)
    <3>1. n + 1 \in 1 .. Len(previous) /\ (n + 1) - 1 = n
      BY <1>4, <2>2
    <3>2. Step(states, s[n], previous[n + 1], s[n + 1])
      BY <1>10, <3>1 DEF Walk
    <3> QED BY <1>12, <3>2 DEF Step
  <2> QED BY <2>1, <2>2
<1> QED BY <1>4, <1>6, <1>7, <1>13

LEMMA RegisterRanks ==
  ASSUME IInv, MinimalInv, Register
  PROVE  RegisterInv' /\ Replacement \in Registered'
<1>1. pc = "register" /\ TableInv
  BY DEF Register, IInv
<1>2. PICK top : top = Top
  OBVIOUS
<1>3. PICK key : key = states[top]
  OBVIOUS
<1>4. /\ top \in 1 .. Len(states) /\ top \notin Registered
      /\ key.data # NoData \/ DOMAIN key.transitions # {}
      /\ \A l \in DOMAIN key.transitions : key.transitions[l] \in Registered
  BY <1>1, <1>2, <1>3, TopRegistrable
<1>5. PICK r : r = Replacement
  OBVIOUS
<1>6. register' = [k \in DOMAIN register \cup {key} |-> IF k = key THEN r ELSE register[k]]
  BY <1>2, <1>3, <1>5 DEF Register, Key
<1>7. r = IF key \in DOMAIN register THEN register[key] ELSE top
  BY <1>2, <1>3, <1>5 DEF Replacement, Key
<1>8. PICK n \in Nat : \E rank \in [Registered -> 0 .. n] : \A k \in DOMAIN register :
        /\ k.data # NoData \/ DOMAIN k.transitions # {}
        /\ \A l \in DOMAIN k.transitions :
             k.transitions[l] \in Registered /\ rank[k.transitions[l]] < rank[register[k]]
  BY DEF MinimalInv, RegisterInv
<1>9. PICK rank \in [Registered -> 0 .. n] : \A k \in DOMAIN register :
        /\ k.data # NoData \/ DOMAIN k.transitions # {}
        /\ \A l \in DOMAIN k.transitions :
             k.transitions[l] \in Registered /\ rank[k.transitions[l]] < rank[register[k]]
  BY <1>8
<1>10. r \in Registered'
  BY <1>6 DEF Registered
<1>11. CASE key \in DOMAIN register
  <2>1. DOMAIN register' = DOMAIN register /\ \A k \in DOMAIN register : register'[k] = register[k]
    BY <1>6, <1>7, <1>11
  <2>2. Registered' = Registered
    BY <2>1 DEF Registered
  <2>3. RegisterInv'
    <3>1. rank \in [Registered' -> 0 .. n]
      BY <2>2
    <3>2. \A k \in DOMAIN register' :
            /\ k.data # NoData \/ DOMAIN k.transitions # {}
            /\ \A l \in DOMAIN k.transitions :
                 k.transitions[l] \in Registered' /\ rank[k.transitions[l]] < rank[register'[k]]
      BY <1>9, <2>1, <2>2
    <3> QED BY <3>1, <3>2 DEF RegisterInv
  <2> QED BY <1>5, <1>10, <2>3
<1>12. CASE key \notin DOMAIN register
  <2>1. /\ \A k : k \in DOMAIN register' <=> k \in DOMAIN register \/ k = key
        /\ \A k \in DOMAIN register : register'[k] = register[k] /\ k # key
        /\ register'[key] = top
    BY <1>6, <1>7, <1>12
  <2>2. \A q : q \in Registered' <=> q \in Registered \/ q = top
    BY <2>1 DEF Registered
  <2>3. PICK ranks : ranks = [q \in Registered' |-> IF q = top THEN n + 1 ELSE rank[q]]
    OBVIOUS
  <2>4. ranks[top] = n + 1 /\ \A q \in Registered : ranks[q] = rank[q] /\ rank[q] \in 0 .. n
    BY <1>4, <1>9, <2>2, <2>3
  <2>5. n + 1 \in Nat /\ n + 1 \in 0 .. n + 1 /\ \A i \in 0 .. n : i \in 0 .. n + 1 /\ i < n + 1
    OBVIOUS
  <2>6. ranks \in [Registered' -> 0 .. n + 1]
    BY <2>2, <2>3, <2>4, <2>5
  <2>7. ASSUME NEW k \in DOMAIN register'
        PROVE  /\ k.data # NoData \/ DOMAIN k.transitions # {}
               /\ \A l \in DOMAIN k.transitions :
                    k.transitions[l] \in Registered' /\ ranks[k.transitions[l]] < ranks[register'[k]]
    <3>1. CASE k = key
      BY <1>4, <2>1, <2>2, <2>4, <2>5, <3>1
    <3>2. CASE k # key
      <4>1. k \in DOMAIN register /\ register'[k] = register[k] /\ register[k] \in Registered
        BY <2>1, <3>2 DEF Registered
      <4> QED BY <1>9, <2>2, <2>4, <4>1
    <3> QED BY <3>1, <3>2
  <2>8. RegisterInv'
    BY <2>5, <2>6, <2>7 DEF RegisterInv
  <2> QED BY <1>5, <1>10, <2>8
<1> QED BY <1>11, <1>12

LEMMA RegisterMinimal ==
  ASSUME IInv, MinimalInv, Register
  PROVE  MinimalInv'
<1>1. RegisterInv' /\ Replacement \in Registered'
  BY RegisterRanks
<1>2. PreviousInv'
  BY DEF MinimalInv, PreviousInv, Register, BuildingPcs
<1>3. CASE Parent # NoState
  <2>1. pc' \in BuildingPcs
    BY <1>3 DEF Register, BuildingPcs
  <2>2. LayoutInv'
    BY <2>1 DEF LayoutInv, BuildingPcs
  <2> QED BY <1>1, <1>2, <2>2 DEF MinimalInv
<1>4. CASE Parent = NoState
  <2>1. PICK r : r = Replacement
    OBVIOUS
  <2>2. pc' = "order" /\ stack' = <<r>> /\ initial' = r /\ order' = order
    BY <1>4, <2>1 DEF Register
  <2>3. order' = <<>>
    BY <2>2 DEF MinimalInv, PreviousInv, Register, BuildingPcs
  <2>4. r \in 1 .. Len(states')
    <3>1. IInv'
      BY RegisterKeeps
    <3> QED BY <2>2, <3>1 DEF IInv, TableInv
  <2>5. LaidOut(r)'
    <3>1. PICK p : p = [i \in 0 .. 0 |-> r]
      OBVIOUS
    <3>2. Len(<<>>) = 0 /\ <<>> \in Seq(Labels) /\ p[0] = r /\ p \in [0 .. 0 -> 1 .. Len(states')]
      BY <2>4, <3>1
    <3>3. Walk(states', initial', <<>>, p)
      BY <2>2, <3>2 DEF Walk
    <3> QED BY <1>1, <2>1, <3>2, <3>3 DEF LaidOut
  <2>6. Len(stack') = 1 /\ stack'[1] = r /\ stack' \in Seq(1 .. Len(states')) /\ \A i \in 1 .. 1 : i = 1
    BY <2>2, <2>4
  <2>7. Len(order') = 0 /\ order' \in Seq(1 .. Len(states')) /\ \A i \in 1 .. 0 : FALSE
    BY <2>3
  <2>8. LayoutInv'
    BY <2>5, <2>6, <2>7 DEF LayoutInv, Distinct
  <2> QED BY <1>1, <1>2, <2>8 DEF MinimalInv
<1> QED BY <1>3, <1>4

(* Where a state laid out leads is registered, and a word leads there.     *)
LEMMA LaidOutOn ==
  ASSUME TableInv, RegisterInv, NEW q, LaidOut(q), NEW l \in DOMAIN Transitions(q)
  PROVE  LaidOut(Transitions(q)[l]) /\ Transitions(q)[l] \in 1 .. Len(states)
<1>1. PICK t : t = states[q].transitions[l]
  OBVIOUS
<1>2. q \in Registered
  BY DEF LaidOut
<1>3. /\ q \in 1 .. Len(states) /\ states[q] \in DOMAIN register
      /\ l \in DOMAIN states[q].transitions /\ l \in Labels
  BY <1>2, RegisteredIs DEF Transitions
<1>4. t \in Registered
  BY <1>1, <1>3 DEF RegisterInv
<1>5. t \in 1 .. Len(states)
  BY <1>4, RegisteredIs
<1>6. PICK w \in Seq(Labels) : \E p \in [0 .. Len(w) -> 1 .. Len(states)] :
                                 Walk(states, initial, w, p) /\ p[Len(w)] = q
  BY DEF LaidOut
<1>7. PICK p \in [0 .. Len(w) -> 1 .. Len(states)] : Walk(states, initial, w, p) /\ p[Len(w)] = q
  BY <1>6
<1>8. PICK n \in Nat : n = Len(w)
  OBVIOUS
<1>9. PICK x : x = Append(w, l)
  OBVIOUS
<1>10. x \in Seq(Labels) /\ Len(x) = n + 1 /\ x[n + 1] = l /\ \A i \in 1 .. n : x[i] = w[i]
  BY <1>3, <1>8, <1>9
<1>11. PICK s : s = [i \in 0 .. n + 1 |-> IF i = n + 1 THEN t ELSE p[i]]
  OBVIOUS
<1>12. \A i \in 0 .. n : i \in 0 .. n + 1 /\ i # n + 1 /\ p[i] \in 1 .. Len(states)
  BY <1>8
<1>13. n + 1 \in 0 .. n + 1 /\ 0 \in 0 .. n /\ n \in 0 .. n /\ (n + 1) - 1 = n
  BY <1>8
<1>14. s[n + 1] = t /\ \A i \in 0 .. n : s[i] = p[i]
  BY <1>11, <1>12, <1>13
<1>15. s \in [0 .. n + 1 -> 1 .. Len(states)]
  <2>1. \A i \in 0 .. n + 1 : i = n + 1 \/ i \in 0 .. n
    BY <1>8
  <2> QED BY <1>5, <1>11, <1>12, <2>1
<1>16. ASSUME NEW i \in 1 .. n + 1 PROVE Step(states, s[i - 1], x[i], s[i])
  <2>1. CASE i = n + 1
    BY <1>1, <1>3, <1>7, <1>8, <1>10, <1>13, <1>14, <2>1 DEF Step
  <2>2. CASE i # n + 1
    <3>1. i \in 1 .. n /\ i \in 0 .. n /\ i - 1 \in 0 .. n
      BY <1>8, <2>2
    <3>2. Step(states, p[i - 1], w[i], p[i])
      BY <1>7, <1>8, <3>1 DEF Walk
    <3> QED BY <1>10, <1>14, <3>1, <3>2
  <2> QED BY <2>1, <2>2
<1>17. Walk(states, initial, x, s)
  BY <1>7, <1>10, <1>13, <1>14, <1>15, <1>16 DEF Walk
<1>18. LaidOut(t)
  BY <1>4, <1>10, <1>14, <1>15, <1>17 DEF LaidOut
<1> QED BY <1>1, <1>5, <1>18 DEF Transitions

(* Steps that leave the states as they are.                                *)
LEMMA LaidOutSame ==
  ASSUME UNCHANGED builder
  PROVE  /\ Registered' = Registered /\ states' = states
         /\ \A q : LaidOut(q) => LaidOut(q)'
<1>1. Registered' = Registered /\ states' = states /\ initial' = initial
  BY DEF builder, Registered
<1> QED BY <1>1 DEF LaidOut

LEMMA VisitMinimal ==
  ASSUME IInv, MinimalInv, Visit
  PROVE  MinimalInv'
<1>1. UNCHANGED <<register, order, previous, entries>> /\ UNCHANGED builder /\ pc' = "order" /\ pc = "order"
  BY DEF Visit, builder
<1>2. RegisterInv' /\ TableInv /\ RegisterInv /\ LayoutInv
  BY <1>1, RegisterSame DEF MinimalInv, IInv
<1>3. PreviousInv'
  BY <1>1 DEF MinimalInv, PreviousInv, BuildingPcs
<1>4. PICK l \in Unvisited : stack' = Append(stack, Transitions(Top)[l])
  BY DEF Visit
<1>5. PICK t : t = Transitions(Top)[l]
  OBVIOUS
<1>6. PICK n \in Nat \ {0} : n = Len(stack)
  BY <1>1, <1>2 DEF LayoutInv
<1>7. /\ stack \in Seq(1 .. Len(states)) /\ Distinct(stack)
      /\ \A i \in 1 .. n : LaidOut(stack[i]) /\ \A j \in 1 .. Len(order) : stack[i] # order[j]
      /\ order \in Seq(1 .. Len(states)) /\ Distinct(order) /\ \A i \in 1 .. Len(order) : LaidOut(order[i])
  BY <1>1, <1>2, <1>6 DEF LayoutInv
<1>8. LaidOut(Top) /\ l \in DOMAIN Transitions(Top)
  BY <1>6, <1>7 DEF Top, Unvisited
<1>9. LaidOut(t) /\ t \in 1 .. Len(states)
  BY <1>2, <1>5, <1>8, LaidOutOn
<1>10. (\A i \in 1 .. n : stack[i] # t) /\ (\A j \in 1 .. Len(order) : order[j] # t)
  <2>1. t \notin Range(stack) /\ t \notin Range(order)
    BY <1>5 DEF Unvisited
  <2>2. DOMAIN stack = 1 .. n /\ DOMAIN order = 1 .. Len(order)
    BY <1>6, <1>7
  <2> QED BY <2>1, <2>2 DEF Range
<1>11. /\ stack' \in Seq(1 .. Len(states)) /\ Len(stack') = n + 1 /\ stack'[n + 1] = t
       /\ \A i \in 1 .. n : stack'[i] = stack[i]
  BY <1>4, <1>5, <1>6, <1>7, <1>9
<1>12. \A i \in 1 .. n + 1 : i = n + 1 \/ i \in 1 .. n
  OBVIOUS
<1>13. \A i \in 1 .. n + 1 : LaidOut(stack'[i]) /\ \A j \in 1 .. Len(order) : stack'[i] # order[j]
  BY <1>7, <1>9, <1>10, <1>11, <1>12
<1>14. \A i, j \in 1 .. n + 1 : stack'[i] = stack'[j] => i = j
  <2>1. \A i, j \in 1 .. n : stack[i] = stack[j] => i = j
    BY <1>6, <1>7 DEF Distinct
  <2> SUFFICES ASSUME NEW i \in 1 .. n + 1, NEW j \in 1 .. n + 1, stack'[i] = stack'[j]
               PROVE  i = j
    OBVIOUS
  <2>2. (i = n + 1 \/ i \in 1 .. n) /\ (j = n + 1 \/ j \in 1 .. n)
    BY <1>12
  <2>3. CASE i \in 1 .. n /\ j \in 1 .. n
    BY <1>11, <2>1, <2>3
  <2>4. CASE i = n + 1 /\ j \in 1 .. n
    BY <1>10, <1>11, <2>4
  <2>5. CASE i \in 1 .. n /\ j = n + 1
    BY <1>10, <1>11, <2>5
  <2> QED BY <2>2, <2>3, <2>4, <2>5
<1>15. states' = states /\ order' = order /\ \A q : LaidOut(q) => LaidOut(q)'
  BY <1>1, LaidOutSame
<1>16. PICK s : s = stack'
  OBVIOUS
<1>17. \A i \in 1 .. n + 1 : LaidOut(s[i])'
  BY <1>13, <1>15, <1>16
<1>18. PICK o : o = order
  OBVIOUS
<1>19. \A i \in 1 .. Len(o) : LaidOut(o[i])'
  BY <1>7, <1>15, <1>18
<1>20. LayoutInv'
  <2>1. n + 1 # 0
    OBVIOUS
  <2> QED BY <1>1, <1>7, <1>11, <1>13, <1>14, <1>15, <1>16, <1>17, <1>18, <1>19, <2>1 DEF LayoutInv, Distinct
<1> QED BY <1>2, <1>3, <1>20 DEF MinimalInv

LEMMA LeaveMinimal ==
  ASSUME IInv, MinimalInv, Leave
  PROVE  MinimalInv'
<1>1. UNCHANGED <<register, previous, entries>> /\ UNCHANGED builder /\ pc' \in {"order", "write"} /\ pc = "order"
  BY DEF Leave, builder
<1>2. RegisterInv' /\ TableInv /\ LayoutInv
  BY <1>1, RegisterSame DEF MinimalInv, IInv
<1>3. PreviousInv'
  BY <1>1 DEF MinimalInv, PreviousInv, BuildingPcs
<1>4. PICK n \in Nat \ {0} : n = Len(stack)
  BY <1>1, <1>2 DEF LayoutInv
<1>5. PICK m \in Nat : m = Len(order)
  BY <1>1, <1>2 DEF LayoutInv
<1>6. /\ stack \in Seq(1 .. Len(states)) /\ Distinct(stack)
      /\ \A i \in 1 .. n : LaidOut(stack[i]) /\ \A j \in 1 .. m : stack[i] # order[j]
      /\ order \in Seq(1 .. Len(states)) /\ Distinct(order) /\ \A i \in 1 .. m : LaidOut(order[i])
  BY <1>1, <1>2, <1>4, <1>5 DEF LayoutInv
<1>7. /\ order' = Append(order, stack[n]) /\ stack' = SubSeq(stack, 1, n - 1)
      /\ pc' = IF n = 1 THEN "write" ELSE "order"
  BY <1>4 DEF Leave, Top
<1>8. n \in 1 .. n /\ stack[n] \in 1 .. Len(states) /\ \A i \in 1 .. n - 1 : i \in 1 .. n /\ i # n
  BY <1>4, <1>6
<1>9. /\ order' \in Seq(1 .. Len(states)) /\ Len(order') = m + 1 /\ order'[m + 1] = stack[n]
      /\ \A i \in 1 .. m : order'[i] = order[i]
  BY <1>5, <1>6, <1>7, <1>8
<1>10. /\ Len(stack') = n - 1 /\ stack' = [i \in 1 .. n - 1 |-> stack'[i]]
       /\ \A i \in 1 .. n - 1 : stack'[i] = stack[i]
  BY <1>4, <1>6, <1>7, FrontIs
<1>11. stack' \in Seq(1 .. Len(states))
  <2>1. \A i \in 1 .. n - 1 : stack'[i] \in 1 .. Len(states)
    BY <1>4, <1>6, <1>8, <1>10
  <2>2. n - 1 \in Nat
    OBVIOUS
  <2> QED BY <1>10, <2>1, <2>2
<1>12. \A i \in 1 .. m + 1 : i = m + 1 \/ i \in 1 .. m
  OBVIOUS
<1>13. \A i \in 1 .. m + 1 : LaidOut(order'[i])
  BY <1>6, <1>8, <1>9, <1>12
<1>14. \A i, j \in 1 .. m + 1 : order'[i] = order'[j] => i = j
  <2>1. \A i, j \in 1 .. m : order[i] = order[j] => i = j
    BY <1>5, <1>6 DEF Distinct
  <2>2. \A i \in 1 .. m : order[i] # stack[n]
    BY <1>6, <1>8
  <2> SUFFICES ASSUME NEW i \in 1 .. m + 1, NEW j \in 1 .. m + 1, order'[i] = order'[j]
               PROVE  i = j
    OBVIOUS
  <2>3. (i = m + 1 \/ i \in 1 .. m) /\ (j = m + 1 \/ j \in 1 .. m)
    BY <1>12
  <2>4. CASE i \in 1 .. m /\ j \in 1 .. m
    BY <1>9, <2>1, <2>4
  <2>5. CASE i = m + 1 /\ j \in 1 .. m
    BY <1>9, <2>2, <2>5
  <2>6. CASE i \in 1 .. m /\ j = m + 1
    BY <1>9, <2>2, <2>6
  <2> QED BY <2>3, <2>4, <2>5, <2>6
<1>15. \A i, j \in 1 .. n - 1 : stack'[i] = stack'[j] => i = j
  BY <1>4, <1>6, <1>8, <1>10 DEF Distinct
<1>16. \A i \in 1 .. n - 1 : LaidOut(stack'[i]) /\ \A j \in 1 .. m + 1 : stack'[i] # order'[j]
  <2>1. \A i, j \in 1 .. n : stack[i] = stack[j] => i = j
    BY <1>4, <1>6 DEF Distinct
  <2> SUFFICES ASSUME NEW i \in 1 .. n - 1
               PROVE  LaidOut(stack'[i]) /\ \A j \in 1 .. m + 1 : stack'[i] # order'[j]
    OBVIOUS
  <2>2. i \in 1 .. n /\ i # n /\ n \in 1 .. n /\ stack'[i] = stack[i]
    BY <1>8, <1>10
  <2>3. stack[i] # stack[n]
    BY <2>1, <2>2
  <2>4. LaidOut(stack[i]) /\ \A j \in 1 .. m : stack[i] # order[j]
    BY <1>6, <2>2
  <2> QED BY <1>9, <1>12, <2>2, <2>3, <2>4
<1>17. states' = states /\ \A q : LaidOut(q) => LaidOut(q)'
  BY <1>1, LaidOutSame
<1>18. PICK s : s = stack'
  OBVIOUS
<1>19. PICK o : o = order'
  OBVIOUS
<1>20. (\A i \in 1 .. n - 1 : LaidOut(s[i])') /\ (\A i \in 1 .. m + 1 : LaidOut(o[i])')
  BY <1>13, <1>16, <1>17, <1>18, <1>19
<1>21. pc' = "order" => n - 1 # 0
  BY <1>4, <1>7
<1>22. LayoutInv'
  BY <1>1, <1>9, <1>10, <1>11, <1>14, <1>15, <1>16, <1>17, <1>18, <1>19, <1>20, <1>21 DEF LayoutInv, Distinct
<1> QED BY <1>2, <1>3, <1>22 DEF MinimalInv

(* Steps that move nothing.                                                *)
LEMMA StillMinimal ==
  ASSUME MinimalInv, UNCHANGED builder, UNCHANGED <<previous, entries, order, stack>>,
         pc' = pc \/ (pc = "write" /\ pc' \in {"done", "failed"})
  PROVE  MinimalInv'
<1>1. RegisterInv' /\ LayoutInv
  BY RegisterSame DEF MinimalInv, builder
<1>2. PreviousInv'
  BY DEF MinimalInv, PreviousInv, BuildingPcs
<1>3. states' = states /\ order' = order /\ stack' = stack /\ \A q : LaidOut(q) => LaidOut(q)'
  BY LaidOutSame
<1>4. PICK s : s = stack
  OBVIOUS
<1>5. PICK o : o = order
  OBVIOUS
<1>6. pc \in {"order", "write", "done"} => \A i \in 1 .. Len(o) : LaidOut(o[i])'
  BY <1>1, <1>3, <1>5 DEF LayoutInv
<1>7. pc = "order" => \A i \in 1 .. Len(s) : LaidOut(s[i])'
  BY <1>1, <1>3, <1>4 DEF LayoutInv
<1>8. LayoutInv'
  BY <1>1, <1>3, <1>4, <1>5, <1>6, <1>7 DEF LayoutInv, Distinct
<1> QED BY <1>1, <1>2, <1>8 DEF MinimalInv

LEMMA FsaStepMinimal == IInv /\ MinimalInv /\ [FsaNext]_fsa => MinimalInv'
<1> SUFFICES ASSUME IInv, MinimalInv, [FsaNext]_fsa PROVE MinimalInv'
  OBVIOUS
<1>1. CASE Prepare
  <2>1. /\ UNCHANGED <<register, order, previous, entries>> /\ pc \in BuildingPcs
        /\ pc' \in BuildingPcs \cup {"failed"} /\ pc' \notin {"descend", "register"}
    BY <1>1 DEF Prepare, builder, BuildingPcs
  <2> QED BY <2>1, BuildingMinimal
<1>2. ASSUME NEW w \in Seq(Labels), Refuse(w) \/ \E d : TakesBytes(d) /\ AddEntry(w, d) PROVE MinimalInv'
  <2>1. /\ UNCHANGED <<register, order, previous, entries>> /\ pc \in BuildingPcs
        /\ pc' \in BuildingPcs \cup {"failed"} /\ pc' \notin {"descend", "register"}
    BY <1>2 DEF Refuse, AddEntry, builder, BuildingPcs
  <2> QED BY <2>1, BuildingMinimal
<1>3. CASE Close
  BY <1>3, CloseMinimal
<1>4. CASE FsaSteps
  <2>1. CASE Write
    <3>1. /\ UNCHANGED builder /\ UNCHANGED <<previous, entries, order, stack>>
          /\ pc = "write" /\ pc' \in {"done", "failed"}
      BY <2>1 DEF Write
    <3> QED BY <3>1, StillMinimal
  <2> QED BY <1>4, <2>1, AddingMinimal, StoreMinimal, RegisterMinimal, VisitMinimal, LeaveMinimal DEF FsaSteps
<1>5. CASE UNCHANGED fsa
  BY <1>5, StillMinimal DEF fsa
<1> QED BY <1>1, <1>2, <1>3, <1>4, <1>5 DEF FsaNext

(* The automaton that is laid out is minimal: it has no two states from    *)
(* which the same words are found, and none from which no word is; that    *)
(* is what replace_or_register is for.                                     *)
THEOREM AlwaysMinimal == FsaSpec => []Minimal
<1>1. FsaInit /\ pc \in {"rules", "ready"} => IInv /\ MinimalInv
  BY InitInv, MinimalInit
<1>2. IInv /\ MinimalInv /\ [FsaNext]_fsa => (IInv /\ MinimalInv)'
  BY FsaStepKeeps, FsaStepMinimal
<1>3. IInv /\ MinimalInv => Minimal
  BY LaidOutMinimal
<1> QED BY <1>1, <1>2, <1>3, PTL DEF FsaSpec

-----------------------------------------------------------------------------
(* Sequences one after another, and sums that run along a sequence         *)

Flattens(f, ss, k) == f = [i \in 1 .. k |-> IF i = 1 THEN ss[i] ELSE f[i - 1] \o ss[i]]

LEMMA FlattenExists ==
  ASSUME NEW ss, NEW n \in Nat \ {0}
  PROVE  \E f : Flattens(f, ss, n)
<1> DEFINE bad == { k \in 1 .. n : ~ \E f : Flattens(f, ss, k) }
<1> SUFFICES ASSUME bad # {} PROVE FALSE
  <2>1. n \in 1 .. n
    OBVIOUS
  <2> QED BY <2>1
<1>1. PICK k \in bad : \A i \in bad : k <= i
  <2>1. bad \in SUBSET Nat
    OBVIOUS
  <2> HIDE DEF bad
  <2> QED BY <2>1, LeastOf
<1>2. CASE k = 1
  <2> DEFINE f == [i \in 1 .. 1 |-> ss[1]]
  <2>1. Flattens(f, ss, 1)
    BY DEF Flattens
  <2> QED BY <1>2, <2>1
<1>3. CASE k # 1
  <2>0. k \in 1 .. n /\ k - 1 \in 1 .. n /\ ~(k <= k - 1)
    BY <1>1, <1>3
  <2>1. k - 1 \notin bad
    <3> HIDE DEF bad
    <3> QED BY <1>1, <2>0
  <2>2. PICK g : Flattens(g, ss, k - 1)
    BY <2>0, <2>1
  <2>3. PICK last : last = g[k - 1] \o ss[k]
    OBVIOUS
  <2>4. PICK f : f = [i \in 1 .. k |-> IF i = k THEN last ELSE g[i]]
    OBVIOUS
  <2>5. ASSUME NEW i \in 1 .. k PROVE f[i] = IF i = 1 THEN ss[i] ELSE f[i - 1] \o ss[i]
    <3>1. CASE i = k
      <4>1. k \in 1 .. k /\ k - 1 \in 1 .. k /\ k # k - 1 /\ k # 1
        BY <1>3, <2>0
      <4>2. f[k] = last /\ f[k - 1] = g[k - 1]
        BY <2>4, <4>1
      <4> QED BY <2>3, <3>1, <4>1, <4>2
    <3>2. CASE i # k
      <4>1. i \in 1 .. k - 1 /\ (i # 1 => i - 1 \in 1 .. k - 1 /\ i - 1 \in 1 .. k /\ i - 1 # k)
        BY <2>0, <3>2
      <4>2. g[i] = IF i = 1 THEN ss[i] ELSE g[i - 1] \o ss[i]
        BY <2>2, <4>1 DEF Flattens
      <4>3. f[i] = g[i] /\ (i # 1 => f[i - 1] = g[i - 1])
        BY <2>4, <3>2, <4>1
      <4> QED BY <4>2, <4>3
    <3> QED BY <3>1, <3>2
  <2>6. f = [i \in 1 .. k |-> f[i]]
    BY <2>4
  <2>7. Flattens(f, ss, k)
    BY <2>5, <2>6 DEF Flattens
  <2> QED BY <1>1, <2>7
<1> QED BY <1>2, <1>3

(* What the first k sequences of ss come to, the sums being of lengths.    *)
Placed(w, ss, S, sum, k) ==
  /\ w \in Seq(S) /\ Len(w) = sum[k]
  /\ \A a \in 1 .. k : sum[a - 1] \in Nat
  /\ \A a \in 1 .. k : \A b \in 1 .. Len(ss[a]) :
       sum[a - 1] + b \in 1 .. Len(w) /\ w[sum[a - 1] + b] = ss[a][b]

LEMMA PlacedMore ==
  ASSUME NEW S, NEW ss, NEW sum, NEW k \in Nat, NEW w, Placed(w, ss, S, sum, k),
         ss[k + 1] \in Seq(S), sum[k + 1] = sum[k] + Len(ss[k + 1])
  PROVE  Placed(w \o ss[k + 1], ss, S, sum, k + 1)
<1>1. PICK v : v = ss[k + 1]
  OBVIOUS
<1>2. PICK x : x = w \o v
  OBVIOUS
<1>3. w \in Seq(S) /\ v \in Seq(S)
  BY <1>1 DEF Placed
<1>4. PICK m \in Nat : m = Len(w) /\ m = sum[k]
  BY <1>3 DEF Placed
<1>5. PICK n \in Nat : n = Len(v)
  BY <1>3
<1>6. x \in Seq(S) /\ Len(x) = m + n /\ \A i \in 1 .. m + n : x[i] = IF i <= m THEN w[i] ELSE v[i - m]
  <2>1. /\ w \o v \in Seq(S) /\ Len(w \o v) = Len(w) + Len(v)
        /\ \A i \in 1 .. Len(w) + Len(v) : (w \o v)[i] = IF i <= Len(w) THEN w[i] ELSE v[i - Len(w)]
    BY <1>3, ConcatProperties
  <2> QED BY <1>2, <1>4, <1>5, <2>1
<1>7. sum[k + 1] = m + n
  BY <1>1, <1>4, <1>5
<1>8. \A a \in 1 .. k + 1 : a = k + 1 \/ a \in 1 .. k
  OBVIOUS
<1>9. ASSUME NEW a \in 1 .. k + 1
      PROVE  /\ sum[a - 1] \in Nat
             /\ \A b \in 1 .. Len(ss[a]) : sum[a - 1] + b \in 1 .. m + n /\ x[sum[a - 1] + b] = ss[a][b]
  <2>1. CASE a \in 1 .. k
    <3>1. sum[a - 1] \in Nat
      BY <2>1 DEF Placed
    <3>2. PICK z \in Nat : z = sum[a - 1]
      BY <3>1
    <3>3. ASSUME NEW b \in 1 .. Len(ss[a]) PROVE z + b \in 1 .. m + n /\ x[z + b] = ss[a][b]
      <4>1. z + b \in 1 .. m /\ w[z + b] = ss[a][b]
        BY <1>4, <2>1, <3>2 DEF Placed
      <4>2. z + b \in 1 .. m + n /\ z + b <= m
        BY <4>1
      <4> QED BY <1>6, <4>1, <4>2
    <3> QED BY <3>2, <3>3
  <2>2. CASE a = k + 1
    <3>1. a - 1 = k
      BY <2>2
    <3>2. ASSUME NEW b \in 1 .. n PROVE m + b \in 1 .. m + n /\ x[m + b] = v[b]
      <4>1. m + b \in 1 .. m + n /\ ~(m + b <= m) /\ (m + b) - m = b
        OBVIOUS
      <4> QED BY <1>6, <4>1
    <3> QED BY <1>1, <1>4, <1>5, <2>2, <3>1, <3>2
  <2> QED BY <1>8, <2>1, <2>2
<1>10. Placed(x, ss, S, sum, k + 1)
  BY <1>6, <1>7, <1>9 DEF Placed
<1> QED BY <1>1, <1>2, <1>10

(* Each sequence stands in the whole behind those before it.               *)
LEMMA FlattenPlaced ==
  ASSUME NEW S, NEW n \in Nat \ {0}, NEW ss, ss = [a \in 1 .. n |-> ss[a]],
         \A a \in 1 .. n : ss[a] \in Seq(S),
         NEW sum, sum[0] = 0, \A a \in 1 .. n : sum[a] = sum[a - 1] + Len(ss[a])
  PROVE  Placed(FlattenSeq(ss), ss, S, sum, n)
<1> DEFINE f == CHOOSE f : Flattens(f, ss, n)
<1>1. Flattens(f, ss, n)
  BY FlattenExists
<1>2. Len(ss) = n
  OBVIOUS
<1>3. FlattenSeq(ss) = f[n]
  BY <1>2 DEF FlattenSeq, Flattens
<1> HIDE DEF f
<1> DEFINE bad == { k \in 1 .. n : ~Placed(f[k], ss, S, sum, k) }
<1>4. bad = {}
  <2> SUFFICES ASSUME bad # {} PROVE FALSE
    OBVIOUS
  <2>1. PICK k \in bad : \A i \in bad : k <= i
    <3>1. bad \in SUBSET Nat
      OBVIOUS
    <3> HIDE DEF bad
    <3> QED BY <3>1, LeastOf
  <2>2. k \in 1 .. n /\ ~Placed(f[k], ss, S, sum, k)
    BY <2>1
  <2>3. f[k] = IF k = 1 THEN ss[k] ELSE f[k - 1] \o ss[k]
    BY <1>1, <2>2 DEF Flattens
  <2>4. CASE k = 1
    <3>1. f[k] = ss[1]
      BY <2>3, <2>4
    <3>2. PICK v : v = ss[1]
      OBVIOUS
    <3>3. v \in Seq(S)
      BY <2>2, <2>4, <3>2
    <3>4. PICK m \in Nat : m = Len(v)
      BY <3>3
    <3>5. sum[1] = m /\ sum[1 - 1] = 0
      <4>1. 1 - 1 = 0 /\ 1 \in 1 .. n
        OBVIOUS
      <4> QED BY <3>2, <3>4, <4>1
    <3>6. \A a \in 1 .. k : a = 1
      BY <2>4
    <3>7. \A b \in 1 .. m : 0 + b = b /\ b \in 1 .. m
      OBVIOUS
    <3>8. Placed(v, ss, S, sum, 1)
      BY <3>2, <3>3, <3>4, <3>5, <3>6, <3>7, <2>4 DEF Placed
    <3> QED BY <2>2, <2>4, <3>1, <3>2, <3>8
  <2>5. CASE k # 1
    <3>1. k - 1 \in 1 .. n /\ ~(k <= k - 1)
      BY <2>2, <2>5
    <3>2. k - 1 \notin bad
      <4> HIDE DEF bad
      <4> QED BY <2>1, <3>1
    <3>3. PICK j \in Nat : j = k - 1 /\ j + 1 = k /\ (j + 1) - 1 = j
      BY <3>1
    <3>4. Placed(f[j], ss, S, sum, j) /\ ss[j + 1] \in Seq(S) /\ sum[j + 1] = sum[j] + Len(ss[j + 1])
      BY <2>2, <3>1, <3>2, <3>3
    <3>5. Placed(f[j] \o ss[j + 1], ss, S, sum, j + 1)
      BY <3>4, PlacedMore
    <3> QED BY <2>2, <2>3, <2>5, <3>3, <3>5
  <2> QED BY <2>4, <2>5
<1>5. n \in 1 .. n
  OBVIOUS
<1> QED BY <1>3, <1>4, <1>5

Running(f, g, n) == f = [i \in 0 .. n |-> IF i = 0 THEN 0 ELSE f[i - 1] + g[i]]

LEMMA RunningExists ==
  ASSUME NEW g, NEW n \in Nat
  PROVE  \E f : Running(f, g, n)
<1> DEFINE bad == { k \in 0 .. n : ~ \E f : Running(f, g, k) }
<1> SUFFICES ASSUME bad # {} PROVE FALSE
  <2>1. n \in 0 .. n
    OBVIOUS
  <2> QED BY <2>1
<1>1. PICK k \in bad : \A i \in bad : k <= i
  <2>1. bad \in SUBSET Nat
    OBVIOUS
  <2> HIDE DEF bad
  <2> QED BY <2>1, LeastOf
<1>2. CASE k = 0
  <2> DEFINE f == [i \in 0 .. 0 |-> 0]
  <2>1. \A i \in 0 .. 0 : i = 0
    OBVIOUS
  <2>2. Running(f, g, 0)
    BY <2>1 DEF Running
  <2> QED BY <1>2, <2>2
<1>3. CASE k # 0
  <2>0. k \in 0 .. n /\ k - 1 \in 0 .. n /\ ~(k <= k - 1)
    BY <1>1, <1>3
  <2>1. k - 1 \notin bad
    <3> HIDE DEF bad
    <3> QED BY <1>1, <2>0
  <2>2. PICK e : Running(e, g, k - 1)
    BY <2>0, <2>1
  <2>3. PICK last : last = e[k - 1] + g[k]
    OBVIOUS
  <2>4. PICK f : f = [i \in 0 .. k |-> IF i = k THEN last ELSE e[i]]
    OBVIOUS
  <2>5. ASSUME NEW i \in 0 .. k PROVE f[i] = IF i = 0 THEN 0 ELSE f[i - 1] + g[i]
    <3>1. CASE i = k
      <4>1. k \in 0 .. k /\ k - 1 \in 0 .. k /\ k # k - 1 /\ k # 0
        BY <1>3, <2>0
      <4>2. f[k] = last /\ f[k - 1] = e[k - 1]
        BY <2>4, <4>1
      <4> QED BY <2>3, <3>1, <4>1, <4>2
    <3>2. CASE i # k
      <4>1. i \in 0 .. k - 1 /\ (i # 0 => i - 1 \in 0 .. k - 1 /\ i - 1 \in 0 .. k /\ i - 1 # k)
        BY <2>0, <3>2
      <4>2. e[i] = IF i = 0 THEN 0 ELSE e[i - 1] + g[i]
        BY <2>2, <4>1 DEF Running
      <4>3. f[i] = e[i] /\ (i # 0 => f[i - 1] = e[i - 1])
        BY <2>4, <3>2, <4>1
      <4> QED BY <4>2, <4>3
    <3> QED BY <3>1, <3>2
  <2>6. f = [i \in 0 .. k |-> f[i]]
    BY <2>4
  <2>7. Running(f, g, k)
    BY <2>5, <2>6 DEF Running
  <2> QED BY <1>1, <2>7
<1> QED BY <1>2, <1>3

LEMMA RunningIs ==
  ASSUME NEW n \in Nat, NEW g, \A i \in 1 .. n : g[i] \in Nat, NEW f, Running(f, g, n)
  PROVE  f \in [0 .. n -> Nat] /\ f[0] = 0 /\ \A i \in 1 .. n : f[i] = f[i - 1] + g[i]
<1>1. f[0] = 0
  <2>1. 0 \in 0 .. n
    OBVIOUS
  <2> QED BY <2>1 DEF Running
<1>2. ASSUME NEW i \in 1 .. n PROVE f[i] = f[i - 1] + g[i]
  <2>1. i \in 0 .. n /\ i # 0
    OBVIOUS
  <2> QED BY <2>1 DEF Running
<1> DEFINE bad == { k \in 0 .. n : f[k] \notin Nat }
<1>3. bad = {}
  <2> SUFFICES ASSUME bad # {} PROVE FALSE
    OBVIOUS
  <2>1. PICK k \in bad : \A i \in bad : k <= i
    <3>1. bad \in SUBSET Nat
      OBVIOUS
    <3> HIDE DEF bad
    <3> QED BY <3>1, LeastOf
  <2>2. k \in 1 .. n /\ k - 1 \in 0 .. n /\ ~(k <= k - 1)
    BY <1>1, <2>1
  <2>3. f[k - 1] \in Nat
    BY <2>1, <2>2
  <2> QED BY <1>2, <2>1, <2>2, <2>3
<1>4. f = [i \in 0 .. n |-> f[i]]
  BY DEF Running
<1> QED BY <1>1, <1>2, <1>3, <1>4

(* The elements of a set, each after those below it, take all places.      *)
LEMMA RankOnto ==
  ASSUME NEW D, IsFiniteSet(D), NEW below \in [D -> SUBSET D],
         \A l \in D : l \notin below[l],
         \A k, l \in D : k # l => k \in below[l] \/ l \in below[k],
         \A k, l \in D : k \in below[l] => below[k] \subseteq below[l]
  PROVE  /\ Cardinality(D) \in Nat
         /\ \A l \in D : Cardinality(below[l]) + 1 \in 1 .. Cardinality(D)
         /\ \A k, l \in D : Cardinality(below[k]) = Cardinality(below[l]) => k = l
         /\ \A i \in 1 .. Cardinality(D) : \E l \in D : Cardinality(below[l]) = i - 1
<1>1. PICK n \in Nat : n = Cardinality(D)
  BY FS_CardinalityType
<1>2. ASSUME NEW l \in D
      PROVE  /\ IsFiniteSet(below[l]) /\ Cardinality(below[l]) \in Nat /\ Cardinality(below[l]) < n
  <2>1. below[l] \in SUBSET D /\ below[l] # D
    OBVIOUS
  <2>2. IsFiniteSet(below[l]) /\ Cardinality(below[l]) <= n /\ Cardinality(below[l]) # n
    BY <1>1, <2>1, FS_Subset
  <2>3. Cardinality(below[l]) \in Nat
    BY <2>2, FS_CardinalityType
  <2> QED BY <2>2, <2>3
<1>3. ASSUME NEW k \in D, NEW l \in D, k \in below[l]
      PROVE  Cardinality(below[k]) # Cardinality(below[l])
  <2>1. below[k] \in SUBSET below[l] /\ below[k] # below[l]
    BY <1>3
  <2> QED BY <1>2, <2>1, FS_Subset
<1>4. \A k, l \in D : Cardinality(below[k]) = Cardinality(below[l]) => k = l
  BY <1>3
<1>5. PICK rank : rank = [l \in D |-> Cardinality(below[l]) + 1]
  OBVIOUS
<1>6. \A l \in D : Cardinality(below[l]) + 1 \in 1 .. n
  BY <1>2
<1>7. rank \in Injection(D, 1 .. n)
  <2>1. rank \in [D -> 1 .. n]
    BY <1>5, <1>6
  <2>2. ASSUME NEW k \in D, NEW l \in D, rank[k] = rank[l] PROVE k = l
    BY <1>2, <1>4, <1>5, <2>2
  <2> QED BY <2>1, <2>2 DEF Injection, IsInjective
<1>8. IsFiniteSet(1 .. n) /\ Cardinality(1 .. n) = n
  BY FS_Interval
<1>9. rank \in Surjection(D, 1 .. n)
  BY <1>1, <1>7, <1>8, FS_Injection
<1>10. ASSUME NEW i \in 1 .. n PROVE \E l \in D : Cardinality(below[l]) = i - 1
  <2>1. PICK l \in D : rank[l] = i
    BY <1>9 DEF Surjection
  <2> QED BY <1>2, <1>5, <2>1
<1> QED BY <1>1, <1>4, <1>6, <1>10

-----------------------------------------------------------------------------
(* What is written of a state                                              *)

EntriesFinite ==
  IsFiniteSet(DOMAIN entries) /\ DOMAIN entries \subseteq Seq(Labels) /\ <<>> \notin DOMAIN entries

StatesFinite ==
  \A q \in 1 .. Len(states) :
    /\ IsFiniteSet(DOMAIN Transitions(q))
    /\ Accepting(q) => DataSize(states[q].data) \in Nat \ {0}

LEMMA FrequencyIs ==
  ASSUME EntriesFinite, NEW l
  PROVE  Frequency(l) \in Nat
<1> DEFINE Places1(w) == {w} \X { i \in DOMAIN w : w[i] = l }
           F == [w \in DOMAIN entries |-> Places1(w)]
           T == { Places1(w) : w \in DOMAIN entries }
<1>1. IsFiniteSet(T)
  <2>1. F \in Surjection(DOMAIN entries, T)
    BY DEF Surjection
  <2> HIDE DEF F, T
  <2> QED BY <2>1, FS_Surjection DEF EntriesFinite
<1>2. ASSUME NEW w \in DOMAIN entries PROVE IsFiniteSet(Places1(w))
  <2>1. w \in Seq(Labels)
    BY DEF EntriesFinite
  <2>2. Len(w) \in Nat /\ DOMAIN w = 1 .. Len(w)
    BY <2>1
  <2>3. IsFiniteSet(1 .. Len(w))
    BY <2>2, FS_Interval
  <2>4. IsFiniteSet({ i \in DOMAIN w : w[i] = l })
    BY <2>2, <2>3, FS_Subset
  <2> QED BY <2>4, FS_Singleton, FS_Product
<1>3. IsFiniteSet(UNION T)
  <2>1. \A X \in T : IsFiniteSet(X)
    BY <1>2
  <2> HIDE DEF T
  <2> QED BY <1>1, <2>1, FS_UNION
<1>4. Frequency(l) = Cardinality(UNION T)
  BY DEF Frequency
<1> HIDE DEF T
<1> QED BY <1>3, <1>4, FS_CardinalityType

(* All labels of a state, each once at least, by their frequencies.        *)
LEMMA SortedIs ==
  ASSUME EntriesFinite, NEW q,
         DOMAIN Transitions(q) \subseteq Nat, IsFiniteSet(DOMAIN Transitions(q))
  PROVE  \E n \in Nat :
           /\ n = Cardinality(DOMAIN Transitions(q)) /\ Sorted(q) = [i \in 1 .. n |-> Sorted(q)[i]]
           /\ \A i \in 1 .. n : Sorted(q)[i] \in DOMAIN Transitions(q)
           /\ \A l \in DOMAIN Transitions(q) : \E i \in 1 .. n : Sorted(q)[i] = l
<1> DEFINE D == DOMAIN Transitions(q)
<1>0. /\ Sorted(q) = [i \in 1 .. Cardinality(D) |->
                        CHOOSE l \in D : Cardinality({ k \in D : ComesBefore(k, l) }) = i - 1]
      /\ D \subseteq Nat /\ IsFiniteSet(D)
  BY DEF Sorted
<1> SUFFICES \E n \in Nat :
               /\ n = Cardinality(D) /\ Sorted(q) = [i \in 1 .. n |-> Sorted(q)[i]]
               /\ \A i \in 1 .. n : Sorted(q)[i] \in D
               /\ \A l \in D : \E i \in 1 .. n : Sorted(q)[i] = l
  OBVIOUS
<1> HIDE DEF D
<1>1. PICK f : f = [l \in D |-> Frequency(l)]
  OBVIOUS
<1>2. \A l \in D : f[l] = Frequency(l) /\ f[l] \in Nat /\ l \in Nat
  BY <1>0, <1>1, FrequencyIs
<1>3. PICK below : below = [l \in D |-> { k \in D : ComesBefore(k, l) }]
  OBVIOUS
<1>4. \A k, l \in D : k \in below[l] <=> f[k] > f[l] \/ (f[k] = f[l] /\ k < l)
  BY <1>2, <1>3 DEF ComesBefore
<1>5. below \in [D -> SUBSET D]
  BY <1>3
<1>6. \A l \in D : l \notin below[l]
  BY <1>2, <1>4
<1>7. \A k, l \in D : k # l => k \in below[l] \/ l \in below[k]
  BY <1>2, <1>4
<1>8. ASSUME NEW k \in D, NEW l \in D, k \in below[l] PROVE below[k] \subseteq below[l]
  <2>1. ASSUME NEW j \in below[k] PROVE j \in below[l]
    <3>1. j \in D
      BY <1>5
    <3> QED BY <1>2, <1>4, <1>8, <2>1, <3>1
  <2> QED BY <2>1
<1>9. PICK n : n = Cardinality(D)
  OBVIOUS
<1>10. /\ n \in Nat
       /\ \A l \in D : Cardinality(below[l]) + 1 \in 1 .. n
       /\ \A k, l \in D : Cardinality(below[k]) = Cardinality(below[l]) => k = l
       /\ \A i \in 1 .. n : \E l \in D : Cardinality(below[l]) = i - 1
  <2>1. IsFiniteSet(D)
    BY <1>0
  <2>2. /\ Cardinality(D) \in Nat
        /\ \A l \in D : Cardinality(below[l]) + 1 \in 1 .. Cardinality(D)
        /\ \A k, l \in D : Cardinality(below[k]) = Cardinality(below[l]) => k = l
        /\ \A i \in 1 .. Cardinality(D) : \E l \in D : Cardinality(below[l]) = i - 1
    BY <1>5, <1>6, <1>7, <1>8, <2>1, RankOnto
  <2> QED BY <1>9, <2>2
<1>11. Sorted(q) = [i \in 1 .. n |-> CHOOSE l \in D : Cardinality({ k \in D : ComesBefore(k, l) }) = i - 1]
  BY <1>0, <1>9, Zenon
<1>12. ASSUME NEW i \in 1 .. n
       PROVE  Sorted(q)[i] \in D /\ Cardinality(below[Sorted(q)[i]]) = i - 1
  <2>1. \E l \in D : Cardinality({ k \in D : ComesBefore(k, l) }) = i - 1
    BY <1>3, <1>10, Zenon
  <2>2. PICK c : c = CHOOSE l \in D : Cardinality({ k \in D : ComesBefore(k, l) }) = i - 1
    OBVIOUS
  <2>3. c \in D /\ Cardinality({ k \in D : ComesBefore(k, c) }) = i - 1
    BY <2>1, <2>2, Zenon
  <2>4. Sorted(q)[i] = c
    BY <1>11, <2>2, Zenon
  <2> QED BY <1>3, <2>3, <2>4, Zenon
<1>13. ASSUME NEW l \in D PROVE \E i \in 1 .. n : Sorted(q)[i] = l
  <2>1. PICK i \in 1 .. n : i = Cardinality(below[l]) + 1
    BY <1>10
  <2>2. Cardinality(below[l]) = i - 1
    <3>1. Cardinality(below[l]) \in Int
      <4>1. below[l] \in SUBSET D
        BY <1>5
      <4> QED BY <1>0, <4>1, FS_Subset, FS_CardinalityType
    <3> QED BY <2>1, <3>1
  <2> QED BY <1>10, <1>12, <2>2
<1>14. Sorted(q) = [i \in 1 .. n |-> Sorted(q)[i]]
  BY <1>11, Zenon
<1> QED BY <1>9, <1>10, <1>12, <1>13, <1>14

LEMMA SizesAre ==
  ASSUME StatesFinite, NEW q \in 1 .. Len(states)
  PROVE  /\ ValueSize(q) \in Nat /\ Cardinality(DOMAIN Transitions(q)) \in Nat
         /\ Size(q) = 1 + ValueSize(q) + 4 * Cardinality(DOMAIN Transitions(q)) /\ Size(q) \in Nat
         /\ Accepting(q) => ValueSize(q) = DataSize(states[q].data) /\ ValueSize(q) # 0
         /\ ~Accepting(q) => ValueSize(q) = 0
<1>1. Cardinality(DOMAIN Transitions(q)) \in Nat
  BY FS_CardinalityType DEF StatesFinite
<1>2. /\ ValueSize(q) \in Nat
      /\ Accepting(q) => ValueSize(q) = DataSize(states[q].data) /\ ValueSize(q) # 0
      /\ ~Accepting(q) => ValueSize(q) = 0
  BY DEF ValueSize, StatesFinite
<1>3. PICK v \in Nat : v = ValueSize(q)
  BY <1>2
<1>4. PICK n \in Nat : n = Cardinality(DOMAIN Transitions(q))
  BY <1>1
<1>5. Size(q) = 1 + v + 4 * n
  BY <1>3, <1>4 DEF Size
<1>6. 1 + v + 4 * n \in Nat
  OBVIOUS
<1> QED BY <1>1, <1>2, <1>3, <1>4, <1>5, <1>6

(* A first element, a middle, and four elements for each number.           *)
Parts(S, h, V, v, n, ss) ==
  /\ h \in S /\ V \in Seq(S) /\ v \in Nat /\ Len(V) = v
  /\ n \in Nat /\ ss = [i \in 1 .. n |-> ss[i]]
  /\ \A i \in 1 .. n : ss[i] \in Seq(S) /\ Len(ss[i]) = 4

PartsIn(w, S, h, V, v, n, ss) ==
  /\ w \in Seq(S) /\ Len(w) = 1 + v + 4 * n /\ w[1] = h
  /\ \A b \in 1 .. v : w[1 + b] = V[b]
  /\ \A i \in 1 .. n : \A b \in 1 .. 4 : w[1 + v + 4 * (i - 1) + b] = ss[i][b]

LEMMA PartsPlaced ==
  ASSUME NEW S, NEW h, NEW V, NEW v, NEW n, NEW ss, Parts(S, h, V, v, n, ss),
         NEW w, w = <<h>> \o V \o FlattenSeq(ss)
  PROVE  PartsIn(w, S, h, V, v, n, ss)
<1>0. /\ h \in S /\ V \in Seq(S) /\ v \in Nat /\ Len(V) = v
      /\ n \in Nat /\ ss = [i \in 1 .. n |-> ss[i]]
      /\ \A i \in 1 .. n : ss[i] \in Seq(S) /\ Len(ss[i]) = 4
  BY DEF Parts
<1> USE <1>0
<1>1. PICK F : F = FlattenSeq(ss)
  OBVIOUS
<1>2. /\ F \in Seq(S) /\ Len(F) = 4 * n
      /\ \A i \in 1 .. n : \A b \in 1 .. 4 : 4 * (i - 1) + b \in 1 .. 4 * n /\ F[4 * (i - 1) + b] = ss[i][b]
  <2>1. CASE n = 0
    <3>1. ss = <<>> /\ Len(ss) = 0
      BY <2>1
    <3>2. F = <<>>
      BY <1>1, <3>1 DEF FlattenSeq
    <3> QED BY <2>1, <3>2
  <2>2. CASE n # 0
    <3>1. PICK sum : sum = [i \in 0 .. n |-> 4 * i]
      OBVIOUS
    <3>2. sum[0] = 0 /\ sum[n] = 4 * n
      BY <3>1
    <3>3. \A i \in 1 .. n : sum[i] = 4 * i /\ sum[i - 1] = 4 * (i - 1) /\ 4 * (i - 1) + 4 = 4 * i
      BY <3>1
    <3>4. \A i \in 1 .. n : sum[i] = sum[i - 1] + Len(ss[i])
      BY <3>3
    <3>5. Placed(F, ss, S, sum, n)
      <4>1. \A i \in 1 .. n : ss[i] \in Seq(S)
        OBVIOUS
      <4>2. n \in Nat \ {0}
        BY <2>2
      <4> QED BY <1>1, <3>2, <3>4, <4>1, <4>2, FlattenPlaced
    <3>6. F \in Seq(S) /\ Len(F) = 4 * n
      BY <3>2, <3>5 DEF Placed
    <3>7. ASSUME NEW i \in 1 .. n, NEW b \in 1 .. 4
          PROVE  4 * (i - 1) + b \in 1 .. 4 * n /\ F[4 * (i - 1) + b] = ss[i][b]
      <4>1. b \in 1 .. Len(ss[i])
        OBVIOUS
      <4> QED BY <3>3, <3>5, <3>6, <4>1 DEF Placed
    <3> QED BY <3>6, <3>7
  <2> QED BY <2>1, <2>2
<1>3. PICK u : u = <<h>> \o V
  OBVIOUS
<1>4. u \in Seq(S) /\ Len(u) = 1 + v /\ u[1] = h /\ \A b \in 1 .. v : u[1 + b] = V[b]
  <2>1. <<h>> \in Seq(S) /\ Len(<<h>>) = 1 /\ <<h>>[1] = h
    OBVIOUS
  <2>2. /\ u \in Seq(S) /\ Len(u) = 1 + v
        /\ \A i \in 1 .. 1 + v : u[i] = IF i <= 1 THEN <<h>>[i] ELSE V[i - 1]
    BY <1>3, <2>1, ConcatProperties
  <2>3. u[1] = h
    <3>1. 1 \in 1 .. 1 + v /\ 1 <= 1
      OBVIOUS
    <3> QED BY <2>1, <2>2, <3>1
  <2>4. ASSUME NEW b \in 1 .. v PROVE u[1 + b] = V[b]
    <3>1. 1 + b \in 1 .. 1 + v /\ ~(1 + b <= 1) /\ (1 + b) - 1 = b
      OBVIOUS
    <3> QED BY <2>2, <3>1
  <2> QED BY <2>2, <2>3, <2>4
<1>5. /\ w \in Seq(S) /\ Len(w) = 1 + v + 4 * n
      /\ \A i \in 1 .. 1 + v + 4 * n : w[i] = IF i <= 1 + v THEN u[i] ELSE F[i - (1 + v)]
  <2>1. w = u \o F
    BY <1>1, <1>3
  <2>2. /\ u \o F \in Seq(S) /\ Len(u \o F) = Len(u) + Len(F)
        /\ \A i \in 1 .. Len(u) + Len(F) : (u \o F)[i] = IF i <= Len(u) THEN u[i] ELSE F[i - Len(u)]
    <3>1. u \in Seq(S) /\ F \in Seq(S)
      BY <1>2, <1>4
    <3> QED BY <3>1, ConcatProperties
  <2> QED BY <1>2, <1>4, <2>1, <2>2
<1>6. \A b \in 0 .. v : 1 + b \in 1 .. 1 + v + 4 * n /\ 1 + b <= 1 + v
  OBVIOUS
<1>7. w[1] = h /\ \A b \in 1 .. v : w[1 + b] = V[b]
  <2>1. 1 \in 1 .. 1 + v + 4 * n /\ 1 <= 1 + v
    OBVIOUS
  <2>2. \A b \in 1 .. v : b \in 0 .. v
    OBVIOUS
  <2> QED BY <1>4, <1>5, <1>6, <2>1, <2>2
<1>8. ASSUME NEW i \in 1 .. n, NEW b \in 1 .. 4
      PROVE  w[1 + v + 4 * (i - 1) + b] = ss[i][b]
  <2>1. PICK z : z = 4 * (i - 1) + b
    OBVIOUS
  <2>2. z \in 1 .. 4 * n /\ F[z] = ss[i][b]
    BY <1>2, <2>1
  <2>3. 1 + v + 4 * (i - 1) + b = 1 + v + z
    BY <2>1
  <2>4. 1 + v + z \in 1 .. 1 + v + 4 * n /\ ~(1 + v + z <= 1 + v) /\ (1 + v + z) - (1 + v) = z
    BY <2>2
  <2> QED BY <1>5, <2>2, <2>3, <2>4
<1> QED BY <1>5, <1>7, <1>8 DEF PartsIn

(* The bytes w of a state that has the labels ls.                          *)
HeaderByte(q, n)  == Byte("header", [accepting |-> Accepting(q), transitions_num |-> n])
LabelByte(ls, i)  == Byte("label", ls[i])
TargetByte(q, l)  == Byte("target", Offset(Transitions(q)[l]) % OffsetLimit)

LabelsOf(q, n, ls) ==
  /\ n \in Nat /\ ls \in [1 .. n -> DOMAIN Transitions(q)]
  /\ \A l \in DOMAIN Transitions(q) : \E i \in 1 .. n : ls[i] = l

Spelled(w, q, n, ls) ==
  /\ Len(w) = Size(q) /\ w = [i \in 1 .. Len(w) |-> w[i]]
  /\ Len(w) = 1 + ValueSize(q) + 4 * n
  /\ w[1] = HeaderByte(q, n)
  /\ Accepting(q) => w[1 + 1] = Byte("value", states[q].data)
  /\ \A i \in 1 .. n : /\ w[1 + ValueSize(q) + 4 * (i - 1) + 1] = LabelByte(ls, i)
                       /\ w[1 + ValueSize(q) + 4 * (i - 1) + 2] = TargetByte(q, ls[i])

LEMMA BytesAre ==
  ASSUME EntriesFinite, StatesFinite, NEW q \in 1 .. Len(states), DOMAIN Transitions(q) \subseteq Labels
  PROVE  \E n, ls : LabelsOf(q, n, ls) /\ Spelled(Bytes(q), q, n, ls)
<1>1. DOMAIN Transitions(q) \subseteq Nat /\ IsFiniteSet(DOMAIN Transitions(q))
  BY LabelsAreNumbers DEF StatesFinite
<1>2. PICK n \in Nat :
             /\ n = Cardinality(DOMAIN Transitions(q)) /\ Sorted(q) = [i \in 1 .. n |-> Sorted(q)[i]]
             /\ \A i \in 1 .. n : Sorted(q)[i] \in DOMAIN Transitions(q)
             /\ \A l \in DOMAIN Transitions(q) : \E i \in 1 .. n : Sorted(q)[i] = l
  BY <1>1, SortedIs
<1>3. PICK ls : ls = Sorted(q)
  OBVIOUS
<1>4. LabelsOf(q, n, ls) /\ Len(ls) = n /\ DOMAIN ls = 1 .. n
  <2>1. ls = [i \in 1 .. n |-> ls[i]]
    BY <1>2, <1>3
  <2>2. Len(ls) = n
    BY <2>1, LengthIs
  <2> QED BY <1>2, <1>3, <2>1, <2>2 DEF LabelsOf
<1>5. PICK v \in Nat : v = ValueSize(q) /\ (Accepting(q) => v # 0) /\ (~Accepting(q) => v = 0)
  BY SizesAre
<1>6. Size(q) = 1 + v + 4 * n
  BY <1>2, <1>5, SizesAre
<1>7. PICK m : m = Byte("more", "")
  OBVIOUS
<1>8. PICK x : x = Byte("value", states[q].data)
  OBVIOUS
<1>9. PICK h : h = HeaderByte(q, n)
  OBVIOUS
<1>10. PICK V : V = IF Accepting(q) THEN <<x>> \o More(v - 1) ELSE <<>>
  OBVIOUS
<1>11. PICK ss : ss = [i \in 1 .. n |-> <<LabelByte(ls, i), TargetByte(q, ls[i])>> \o More(2)]
  OBVIOUS
<1>12. Bytes(q) = <<h>> \o V \o FlattenSeq(ss)
  <2>1. Bytes(q) = <<Byte("header", [accepting |-> Accepting(q), transitions_num |-> Len(ls)])>>
          \o (IF Accepting(q) THEN <<Byte("value", states[q].data)>> \o More(ValueSize(q) - 1) ELSE <<>>)
          \o FlattenSeq([i \in DOMAIN ls |->
                <<Byte("label", ls[i]), Byte("target", Offset(Transitions(q)[ls[i]]) % OffsetLimit)>> \o More(2)])
    BY <1>3, Zenon DEF Bytes
  <2>2. h = Byte("header", [accepting |-> Accepting(q), transitions_num |-> Len(ls)])
    BY <1>4, <1>9, Zenon DEF HeaderByte
  <2>3. V = (IF Accepting(q) THEN <<Byte("value", states[q].data)>> \o More(ValueSize(q) - 1) ELSE <<>>)
    BY <1>5, <1>8, <1>10, Zenon
  <2>4. ss = [i \in DOMAIN ls |->
                <<Byte("label", ls[i]), Byte("target", Offset(Transitions(q)[ls[i]]) % OffsetLimit)>> \o More(2)]
    BY <1>4, <1>11, Zenon DEF LabelByte, TargetByte
  <2> QED BY <2>1, <2>2, <2>3, <2>4, Zenon
<1> DEFINE S == {h, x, m} \cup { LabelByte(ls, i) : i \in 1 .. n } \cup { TargetByte(q, ls[i]) : i \in 1 .. n }
<1>13. /\ h \in S /\ x \in S /\ m \in S
       /\ \A i \in 1 .. n : LabelByte(ls, i) \in S /\ TargetByte(q, ls[i]) \in S
  OBVIOUS
<1> HIDE DEF S
<1>14. ASSUME NEW k \in Nat PROVE More(k) \in Seq(S) /\ Len(More(k)) = k
  <2>1. More(k) = [i \in 1 .. k |-> m]
    BY <1>7 DEF More
  <2> QED BY <1>13, <2>1
<1>15. V \in Seq(S) /\ Len(V) = v /\ (Accepting(q) => 1 \in 1 .. v /\ V[1] = x)
  <2>1. CASE Accepting(q)
    <3>1. v - 1 \in Nat /\ 1 + (v - 1) = v /\ 1 \in 1 .. v
      BY <1>5, <2>1
    <3>2. PICK M : M = More(v - 1)
      OBVIOUS
    <3>3. M \in Seq(S) /\ Len(M) = v - 1
      BY <1>14, <3>1, <3>2
    <3>4. <<x>> \in Seq(S) /\ Len(<<x>>) = 1 /\ <<x>>[1] = x
      BY <1>13
    <3>5. /\ <<x>> \o M \in Seq(S) /\ Len(<<x>> \o M) = 1 + (v - 1)
          /\ \A i \in 1 .. 1 + (v - 1) : (<<x>> \o M)[i] = IF i <= 1 THEN <<x>>[i] ELSE M[i - 1]
      BY <3>3, <3>4, ConcatProperties
    <3>6. V = <<x>> \o M
      BY <1>10, <2>1, <3>2
    <3>7. 1 <= 1
      OBVIOUS
    <3> QED BY <3>1, <3>4, <3>5, <3>6, <3>7
  <2>2. CASE ~Accepting(q)
    BY <1>5, <1>10, <2>2
  <2> QED BY <2>1, <2>2
<1>16. ASSUME NEW i \in 1 .. n
       PROVE  /\ ss[i] \in Seq(S) /\ Len(ss[i]) = 4
              /\ ss[i][1] = LabelByte(ls, i) /\ ss[i][2] = TargetByte(q, ls[i])
  <2>1. PICK a \in S : a = LabelByte(ls, i)
    BY <1>13
  <2>2. PICK b \in S : b = TargetByte(q, ls[i])
    BY <1>13
  <2>3. PICK M : M = More(2)
    OBVIOUS
  <2>4. M \in Seq(S) /\ Len(M) = 2
    BY <1>14, <2>3
  <2>5. ss[i] = <<a, b>> \o M
    BY <1>11, <2>1, <2>2, <2>3
  <2>6. <<a, b>> \in Seq(S) /\ Len(<<a, b>>) = 2 /\ <<a, b>>[1] = a /\ <<a, b>>[2] = b
    OBVIOUS
  <2>7. /\ <<a, b>> \o M \in Seq(S) /\ Len(<<a, b>> \o M) = 2 + 2
        /\ \A j \in 1 .. 2 + 2 : (<<a, b>> \o M)[j] = IF j <= 2 THEN <<a, b>>[j] ELSE M[j - 2]
    <3>1. <<a, b>> \in Seq(S) /\ M \in Seq(S)
      BY <2>4, <2>6
    <3>2. PICK t : t = <<a, b>>
      OBVIOUS
    <3>3. t \in Seq(S) /\ Len(t) = 2
      BY <2>6, <3>1, <3>2
    <3>4. /\ t \o M \in Seq(S) /\ Len(t \o M) = Len(t) + Len(M)
          /\ \A j \in 1 .. Len(t) + Len(M) : (t \o M)[j] = IF j <= Len(t) THEN t[j] ELSE M[j - Len(t)]
      BY <3>1, <3>3, ConcatProperties
    <3> QED BY <2>4, <3>2, <3>3, <3>4
  <2>8. 1 \in 1 .. 2 + 2 /\ 2 \in 1 .. 2 + 2 /\ 1 <= 2 /\ 2 <= 2
    OBVIOUS
  <2> QED BY <2>1, <2>2, <2>5, <2>6, <2>7, <2>8
<1>17. PICK w : w = Bytes(q)
  OBVIOUS
<1>18. /\ w \in Seq(S) /\ Len(w) = 1 + v + 4 * n /\ w[1] = h
       /\ \A b \in 1 .. v : w[1 + b] = V[b]
       /\ \A i \in 1 .. n : \A b \in 1 .. 4 : w[1 + v + 4 * (i - 1) + b] = ss[i][b]
  <2>1. w = <<h>> \o V \o FlattenSeq(ss)
    BY <1>12, <1>17
  <2>2. h \in S /\ V \in Seq(S) /\ Len(V) = v
    BY <1>13, <1>15
  <2>3. ss = [i \in 1 .. n |-> ss[i]]
    BY <1>11
  <2>4. \A i \in 1 .. n : ss[i] \in Seq(S) /\ Len(ss[i]) = 4
    BY <1>16
  <2>5. Parts(S, h, V, v, n, ss)
    BY <2>2, <2>3, <2>4 DEF Parts
  <2>6. PartsIn(w, S, h, V, v, n, ss)
    BY <2>1, <2>5, PartsPlaced, Zenon
  <2> QED BY <2>6 DEF PartsIn
<1>19. w = [i \in 1 .. Len(w) |-> w[i]]
  BY <1>18
<1>20. \A i \in 1 .. n : /\ w[1 + v + 4 * (i - 1) + 1] = LabelByte(ls, i)
                         /\ w[1 + v + 4 * (i - 1) + 2] = TargetByte(q, ls[i])
  <2>1. 1 \in 1 .. 4 /\ 2 \in 1 .. 4
    OBVIOUS
  <2> QED BY <1>16, <1>18, <2>1
<1>21. Accepting(q) => w[1 + 1] = x
  BY <1>15, <1>18
<1>22. Spelled(w, q, n, ls)
  BY <1>5, <1>6, <1>8, <1>9, <1>18, <1>19, <1>20, <1>21 DEF Spelled
<1> QED BY <1>4, <1>17, <1>22

-----------------------------------------------------------------------------
(* What is written of all of them                                          *)

LEMMA OffsetsAre ==
  ASSUME NEW m \in Nat, m = Len(order), DOMAIN order = 1 .. m, Distinct(order),
         \A i \in 1 .. m : Size(order[i]) \in Nat
  PROVE  \E laid \in [0 .. m -> Nat] :
           /\ laid[0] = 0
           /\ \A i \in 1 .. m : /\ laid[i] = laid[i - 1] + Size(order[i])
                                /\ Offset(order[i]) = laid[m] - laid[i]
<1> DEFINE f == CHOOSE f : f = [i \in 0 .. Len(order) |-> IF i = 0 THEN 0 ELSE f[i - 1] + Size(order[i])]
<1>1. PICK g : g = [i \in 1 .. m |-> Size(order[i])]
  OBVIOUS
<1>2. \A i \in 1 .. m : g[i] = Size(order[i]) /\ g[i] \in Nat
  BY <1>1
<1>3. PICK e : Running(e, g, m)
  BY RunningExists
<1>4. e = [i \in 0 .. Len(order) |-> IF i = 0 THEN 0 ELSE e[i - 1] + Size(order[i])]
  <2>1. \A i \in 0 .. m : i # 0 => i \in 1 .. m
    OBVIOUS
  <2>2. \A i \in 0 .. m : e[i] = IF i = 0 THEN 0 ELSE e[i - 1] + Size(order[i])
    BY <1>2, <1>3, <2>1 DEF Running
  <2>3. e = [i \in 0 .. m |-> e[i]]
    BY <1>3 DEF Running
  <2> QED BY <2>2, <2>3
<1>5. f = [i \in 0 .. Len(order) |-> IF i = 0 THEN 0 ELSE f[i - 1] + Size(order[i])]
  BY <1>4, Zenon
<1>6. ReverseOffsets = f
  BY DEF ReverseOffsets
<1> HIDE DEF f
<1>7. Running(f, g, m)
  <2>1. \A i \in 0 .. m : i # 0 => i \in 1 .. m
    OBVIOUS
  <2>2. \A i \in 0 .. m : f[i] = IF i = 0 THEN 0 ELSE f[i - 1] + g[i]
    BY <1>2, <1>5, <2>1
  <2>3. f = [i \in 0 .. m |-> f[i]]
    BY <1>5
  <2> QED BY <2>2, <2>3 DEF Running
<1>8. f \in [0 .. m -> Nat] /\ f[0] = 0 /\ \A i \in 1 .. m : f[i] = f[i - 1] + g[i]
  BY <1>2, <1>7, RunningIs
<1>9. ASSUME NEW i \in 1 .. m PROVE Offset(order[i]) = f[m] - f[i]
  <2>1. PICK c : c = CHOOSE j \in DOMAIN order : order[j] = order[i]
    OBVIOUS
  <2>2. c \in 1 .. m /\ order[c] = order[i]
    <3>1. \E j \in DOMAIN order : order[j] = order[i]
      OBVIOUS
    <3>2. c \in DOMAIN order /\ order[c] = order[i]
      BY <2>1, <3>1, Zenon
    <3> QED BY <3>2
  <2>3. c = i
    BY <2>2 DEF Distinct
  <2>4. Offset(order[i]) = ReverseOffsets[Len(order)] - ReverseOffsets[c]
    BY <2>1, Zenon DEF Offset
  <2> QED BY <1>6, <2>3, <2>4
<1> QED BY <1>2, <1>8, <1>9

(* What stands in im for a state, at the offset that off gives it: its     *)
(* transitions lead to the offsets of their targets.                       *)
TransitionAt(o, v, i) == o + (1 + v + 4 * (i - 1))

DescribedAt(im, q, off, n, ls) ==
  /\ LabelsOf(q, n, ls)
  /\ off[q] + 1 \in DOMAIN im /\ im[off[q] + 1] = HeaderByte(q, n)
  /\ Accepting(q) => off[q] + 2 \in DOMAIN im /\ im[off[q] + 2] = Byte("value", states[q].data)
  /\ \A i \in 1 .. n :
       /\ TransitionAt(off[q], ValueSize(q), i) + 1 \in DOMAIN im
       /\ TransitionAt(off[q], ValueSize(q), i) + 2 \in DOMAIN im
       /\ im[TransitionAt(off[q], ValueSize(q), i) + 1] = LabelByte(ls, i)
       /\ im[TransitionAt(off[q], ValueSize(q), i) + 2] = Byte("target", off[Transitions(q)[ls[i]]])

Described(im, off) ==
  /\ off \in [1 .. Len(states) -> Nat] /\ off[initial] = 0
  /\ \A q \in Range(order) : \E n, ls : DescribedAt(im, q, off, n, ls)

(* All of a state's transitions lead to states that are laid out, and the  *)
(* initial state is the last of them.                                      *)
WholeLayout ==
  /\ \A q \in Range(order) : \A l \in DOMAIN Transitions(q) : Transitions(q)[l] \in Range(order)
  /\ Len(order) # 0 /\ order[Len(order)] = initial

LEMMA WholeTargets ==
  ASSUME NEW x \in Nat, x < OffsetLimit
  PROVE  x % OffsetLimit = x
<1>1. OffsetLimit \in Nat \ {0}
  BY SimpleFsaAssumption
<1> QED BY <1>1

LEMMA ImageDescribed ==
  ASSUME EntriesFinite, StatesFinite, IsTable(states), initial \in 1 .. Len(states),
         order \in Seq(1 .. Len(states)), Distinct(order), WholeLayout, \A q \in Range(order) : Fits(q),
         NEW im, im = FlattenSeq([i \in DOMAIN order |-> Bytes(Reverse(order)[i])])
  PROVE  \E off : Described(im, off)
<1>1. PICK m \in Nat \ {0} : m = Len(order)
  BY DEF WholeLayout
<1>2. DOMAIN order = 1 .. m /\ \A p \in 1 .. m : order[p] \in 1 .. Len(states)
  BY <1>1
<1>3. \A q : q \in Range(order) <=> \E p \in 1 .. m : q = order[p]
  BY <1>2 DEF Range
<1>4. \A p \in 1 .. m : Size(order[p]) \in Nat
  BY <1>2, SizesAre
<1>5. PICK laid \in [0 .. m -> Nat] :
             /\ laid[0] = 0
             /\ \A p \in 1 .. m : /\ laid[p] = laid[p - 1] + Size(order[p])
                                  /\ Offset(order[p]) = laid[m] - laid[p]
  BY <1>1, <1>2, <1>4, OffsetsAre
<1>6. ASSUME NEW q \in Range(order)
      PROVE  \E n, ls : LabelsOf(q, n, ls) /\ Spelled(Bytes(q), q, n, ls)
  <2>1. q \in 1 .. Len(states)
    BY <1>2, <1>3
  <2>2. DOMAIN Transitions(q) \subseteq Labels
    BY <2>1 DEF IsTable, IsState, Transitions
  <2> QED BY <2>1, <2>2, BytesAre
<1>7. PICK ss : ss = [i \in 1 .. m |-> Bytes(order[(m - i) + 1])]
  OBVIOUS
<1>8. im = FlattenSeq(ss)
  <2>1. \A i \in 1 .. m : Reverse(order)[i] = order[(m - i) + 1]
    BY <1>1 DEF Reverse
  <2>2. ss = [i \in DOMAIN order |-> Bytes(Reverse(order)[i])]
    BY <1>2, <1>7, <2>1, Zenon
  <2> QED BY <2>2
<1>9. \A i \in 1 .. m : (m - i) + 1 \in 1 .. m /\ m - i \in 0 .. m /\ ((m - i) + 1) - 1 = m - i
  OBVIOUS
<1>10. ASSUME NEW i \in 1 .. m
       PROVE  Len(ss[i]) = Size(order[(m - i) + 1]) /\ ss[i] = [b \in 1 .. Len(ss[i]) |-> ss[i][b]]
  <2>1. PICK q \in Range(order) : q = order[(m - i) + 1]
    BY <1>3, <1>9
  <2>2. PICK n, ls : Spelled(Bytes(q), q, n, ls)
    BY <1>6
  <2>3. ss[i] = Bytes(q)
    BY <1>7, <2>1
  <2> QED BY <2>1, <2>2, <2>3 DEF Spelled
<1> DEFINE S == UNION { { ss[i][b] : b \in 1 .. Len(ss[i]) } : i \in 1 .. m }
<1>11. \A i \in 1 .. m : \A b \in 1 .. Len(ss[i]) : ss[i][b] \in S
  OBVIOUS
<1> HIDE DEF S
<1>12. ASSUME NEW i \in 1 .. m PROVE ss[i] \in Seq(S)
  <2>1. PICK w : w = ss[i]
    OBVIOUS
  <2>2. PICK k : k = Len(w)
    OBVIOUS
  <2>3. k \in Nat /\ w = [b \in 1 .. k |-> w[b]] /\ \A b \in 1 .. k : w[b] \in S
    BY <1>4, <1>9, <1>10, <1>11, <2>1, <2>2
  <2>4. w \in Seq(S)
    BY <2>3
  <2> QED BY <2>1, <2>4
<1>13. PICK sum : sum = [i \in 0 .. m |-> laid[m] - laid[m - i]]
  OBVIOUS
<1>14. sum[0] = 0
  <2>1. 0 \in 0 .. m /\ m - 0 = m /\ m \in 0 .. m
    OBVIOUS
  <2>2. sum[0] = laid[m] - laid[m]
    BY <1>13, <2>1
  <2>3. laid[m] \in Nat
    BY <2>1
  <2> QED BY <2>2, <2>3
<1>15. ASSUME NEW i \in 1 .. m
       PROVE  sum[i] = sum[i - 1] + Len(ss[i]) /\ sum[i - 1] = laid[m] - laid[(m - i) + 1]
  <2>1. PICK p \in 1 .. m : p = (m - i) + 1
    BY <1>9
  <2>2. i \in 0 .. m /\ i - 1 \in 0 .. m /\ m - i = p - 1 /\ m - (i - 1) = p /\ m \in 0 .. m /\ p - 1 \in 0 .. m /\ p \in 0 .. m
    BY <2>1
  <2>3. sum[i] = laid[m] - laid[p - 1] /\ sum[i - 1] = laid[m] - laid[p]
    BY <1>13, <2>2
  <2>4. Len(ss[i]) = Size(order[p])
    BY <1>10, <2>1
  <2>5. laid[p] = laid[p - 1] + Size(order[p]) /\ Size(order[p]) \in Nat
    BY <1>4, <1>5
  <2>6. laid[m] \in Nat /\ laid[p - 1] \in Nat /\ laid[p] \in Nat
    BY <2>2
  <2> QED BY <2>1, <2>3, <2>4, <2>5, <2>6
<1>16. Placed(im, ss, S, sum, m)
  <2>1. ss = [i \in 1 .. m |-> ss[i]]
    BY <1>7
  <2>2. \A i \in 1 .. m : sum[i] = sum[i - 1] + Len(ss[i])
    BY <1>15
  <2>3. \A i \in 1 .. m : ss[i] \in Seq(S)
    BY <1>12
  <2>4. Placed(FlattenSeq(ss), ss, S, sum, m)
    BY <1>14, <2>1, <2>2, <2>3, FlattenPlaced
  <2> QED BY <1>8, <2>4
<1>17. PICK off : off = [q \in 1 .. Len(states) |-> IF q \in Range(order) THEN Offset(q) ELSE 0]
  OBVIOUS
<1>18. ASSUME NEW p \in 1 .. m
       PROVE  /\ off[order[p]] \in Nat /\ off[order[p]] = laid[m] - laid[p]
              /\ \A b \in 1 .. Len(Bytes(order[p])) :
                   off[order[p]] + b \in DOMAIN im /\ im[off[order[p]] + b] = Bytes(order[p])[b]
  <2>1. PICK i \in 1 .. m : i = (m - p) + 1
    BY <1>9
  <2>2. (m - i) + 1 = p
    BY <2>1
  <2>3. ss[i] = Bytes(order[p])
    BY <1>7, <2>2
  <2>4. sum[i - 1] = laid[m] - laid[p]
    BY <1>15, <2>2
  <2>5. off[order[p]] = Offset(order[p])
    BY <1>2, <1>3, <1>17
  <2>6. off[order[p]] = sum[i - 1]
    BY <1>5, <2>4, <2>5
  <2>7. sum[i - 1] \in Nat
    BY <1>16 DEF Placed
  <2>8. ASSUME NEW b \in 1 .. Len(ss[i])
        PROVE  sum[i - 1] + b \in DOMAIN im /\ im[sum[i - 1] + b] = ss[i][b]
    <3>1. sum[i - 1] + b \in 1 .. Len(im) /\ im[sum[i - 1] + b] = ss[i][b] /\ im \in Seq(S)
      BY <1>16 DEF Placed
    <3> QED BY <3>1
  <2> QED BY <2>3, <2>4, <2>6, <2>7, <2>8
<1>19. off \in [1 .. Len(states) -> Nat]
  <2>1. \A q \in 1 .. Len(states) : off[q] = IF q \in Range(order) THEN Offset(q) ELSE 0
    BY <1>17
  <2>2. ASSUME NEW q \in 1 .. Len(states) PROVE off[q] \in Nat
    <3>1. CASE q \in Range(order)
      BY <1>3, <1>18, <3>1
    <3>2. CASE q \notin Range(order)
      BY <2>1, <3>2
    <3> QED BY <3>1, <3>2
  <2>3. off = [q \in 1 .. Len(states) |-> off[q]]
    BY <1>17
  <2> QED BY <2>2, <2>3
<1>20. off[initial] = 0
  <2>1. m \in 1 .. m /\ m \in 0 .. m /\ initial = order[m]
    BY <1>1 DEF WholeLayout
  <2>2. laid[m] \in Nat
    BY <2>1
  <2> QED BY <1>18, <2>1, <2>2
<1>21. ASSUME NEW q \in Range(order) PROVE \E n, ls : DescribedAt(im, q, off, n, ls)
  <2>1. PICK p \in 1 .. m : q = order[p]
    BY <1>3
  <2>2. PICK n, ls : LabelsOf(q, n, ls) /\ Spelled(Bytes(q), q, n, ls)
    BY <1>6
  <2>3. PICK w : w = Bytes(q)
    OBVIOUS
  <2>4. PICK o \in Nat : o = off[q]
    BY <1>18, <2>1
  <2>5. PICK v \in Nat : v = ValueSize(q) /\ (Accepting(q) => v # 0)
    BY <1>2, <2>1, SizesAre
  <2>6. n \in Nat /\ Len(w) = 1 + v + 4 * n
    BY <2>2, <2>3, <2>5 DEF Spelled, LabelsOf
  <2>7. \A b \in 1 .. Len(w) : o + b \in DOMAIN im /\ im[o + b] = w[b]
    BY <1>18, <2>1, <2>3, <2>4
  <2>8. o + 1 \in DOMAIN im /\ im[o + 1] = HeaderByte(q, n)
    <3>1. 1 \in 1 .. Len(w)
      BY <2>6
    <3> QED BY <2>2, <2>3, <2>7, <3>1 DEF Spelled
  <2>9. ASSUME Accepting(q) PROVE o + 2 \in DOMAIN im /\ im[o + 2] = Byte("value", states[q].data)
    <3>1. 1 + 1 \in 1 .. Len(w) /\ 1 + 1 = 2
      BY <2>5, <2>6, <2>9
    <3> QED BY <2>2, <2>3, <2>7, <2>9, <3>1 DEF Spelled
  <2>10. ASSUME NEW i \in 1 .. n
         PROVE  /\ TransitionAt(o, v, i) + 1 \in DOMAIN im
                /\ TransitionAt(o, v, i) + 2 \in DOMAIN im
                /\ im[TransitionAt(o, v, i) + 1] = LabelByte(ls, i)
                /\ im[TransitionAt(o, v, i) + 2] = Byte("target", off[Transitions(q)[ls[i]]])
    <3>1. PICK z : z = 1 + v + 4 * (i - 1)
      OBVIOUS
    <3>2. z \in Nat /\ z + 1 \in 1 .. Len(w) /\ z + 2 \in 1 .. Len(w)
      BY <2>6, <3>1
    <3>3. w[z + 1] = LabelByte(ls, i) /\ w[z + 2] = TargetByte(q, ls[i])
      BY <2>2, <2>3, <2>5, <3>1 DEF Spelled
    <3>4. TransitionAt(o, v, i) = o + z /\ (o + z) + 1 = o + (z + 1) /\ (o + z) + 2 = o + (z + 2)
      BY <3>1, <3>2 DEF TransitionAt
    <3>5. /\ o + (z + 1) \in DOMAIN im /\ im[o + (z + 1)] = LabelByte(ls, i)
          /\ o + (z + 2) \in DOMAIN im /\ im[o + (z + 2)] = TargetByte(q, ls[i])
      BY <2>7, <3>2, <3>3
    <3>6. PICK l \in DOMAIN Transitions(q) : l = ls[i]
      BY <2>2 DEF LabelsOf
    <3>7. PICK t \in Range(order) : t = Transitions(q)[l]
      BY DEF WholeLayout
    <3>8. Offset(t) < OffsetLimit /\ off[t] = Offset(t) /\ off[t] \in Nat
      <4>1. Offset(t) < OffsetLimit
        BY <3>7 DEF Fits
      <4>2. t \in 1 .. Len(states)
        BY <1>2, <1>3
      <4> QED BY <1>17, <1>19, <4>1, <4>2
    <3>9. TargetByte(q, ls[i]) = Byte("target", off[t])
      <4>1. off[t] % OffsetLimit = off[t]
        BY <3>8, WholeTargets
      <4> QED BY <3>6, <3>7, <3>8, <4>1 DEF TargetByte
    <3> QED BY <3>4, <3>5, <3>6, <3>7, <3>9
  <2>11. DescribedAt(im, q, off, n, ls)
    BY <2>2, <2>4, <2>5, <2>8, <2>9, <2>10 DEF DescribedAt
  <2> QED BY <2>11
<1> QED BY <1>19, <1>20, <1>21 DEF Described

-----------------------------------------------------------------------------
(* What is read                                                            *)

(* The reader at the offset of a state that is laid out.                   *)
LEMMA ReaderAt ==
  ASSUME StatesFinite, NEW off, Described(image, off), NEW q \in Range(order), q \in 1 .. Len(states)
  PROVE  /\ Readable(off[q]) /\ Value(off[q]).accepting = Accepting(q)
         /\ Accepting(q) => Value(off[q] + 1) = states[q].data
         /\ \A l, x : x \in Proceed(off[q], l) <=> l \in DOMAIN Transitions(q) /\ x = off[Transitions(q)[l]]
<1>1. PICK n, ls : DescribedAt(image, q, off, n, ls)
  BY DEF Described
<1>2. PICK o \in Nat : o = off[q]
  BY DEF Described
<1>3. PICK v \in Nat : v = ValueSize(q)
  BY SizesAre
<1>4. /\ n \in Nat /\ ls \in [1 .. n -> DOMAIN Transitions(q)]
      /\ \A l \in DOMAIN Transitions(q) : \E i \in 1 .. n : ls[i] = l
  BY <1>1 DEF DescribedAt, LabelsOf
<1>5. o + 1 \in DOMAIN image /\ image[o + 1] = HeaderByte(q, n)
  BY <1>1, <1>2 DEF DescribedAt
<1>6. At(o, "header") /\ Value(o).accepting = Accepting(q) /\ Value(o).transitions_num = n
  BY <1>5 DEF At, Value, HeaderByte, Byte
<1>7. ASSUME Accepting(q) PROVE At(o + 1, "value") /\ Value(o + 1) = states[q].data
  <2>1. (o + 1) + 1 = o + 2
    OBVIOUS
  <2>2. o + 2 \in DOMAIN image /\ image[o + 2] = Byte("value", states[q].data)
    BY <1>1, <1>2, <1>7 DEF DescribedAt
  <2> QED BY <2>1, <2>2 DEF At, Value, Byte
<1>8. Readable(o)
  BY <1>6, <1>7 DEF Readable
<1>9. TransitionsAt(o) = o + 1 + v
  <2>1. CASE Accepting(q)
    BY <1>3, <1>6, <1>7, <2>1 DEF TransitionsAt, ValueSize
  <2>2. CASE ~Accepting(q)
    BY <1>3, <1>6, <2>2 DEF TransitionsAt, ValueSize
  <2> QED BY <2>1, <2>2
<1>10. ASSUME NEW i \in 1 .. n, NEW place \in Nat, place = o + 1 + v + 4 * (i - 1)
       PROVE  /\ At(place, "label") /\ Value(place) = ls[i]
              /\ At(place + 1, "target") /\ Value(place + 1) = off[Transitions(q)[ls[i]]]
  <2>1. TransitionAt(o, v, i) = place
    BY <1>10 DEF TransitionAt
  <2>2. /\ place + 1 \in DOMAIN image /\ place + 2 \in DOMAIN image
        /\ image[place + 1] = LabelByte(ls, i)
        /\ image[place + 2] = Byte("target", off[Transitions(q)[ls[i]]])
    BY <1>1, <1>2, <1>3, <2>1 DEF DescribedAt
  <2>3. (place + 1) + 1 = place + 2
    OBVIOUS
  <2> QED BY <2>2, <2>3 DEF At, Value, Byte, LabelByte
<1>11. \A k \in 0 .. n - 1 : k + 1 \in 1 .. n /\ o + 1 + v + 4 * k \in Nat
                             /\ o + 1 + v + 4 * k = o + 1 + v + 4 * ((k + 1) - 1)
  BY <1>4
<1>12. ASSUME NEW k \in 0 .. n - 1
       PROVE  /\ At(TransitionsAt(o) + 4 * k, "label") /\ Value(TransitionsAt(o) + 4 * k) = ls[k + 1]
              /\ At(TransitionsAt(o) + 4 * k + 1, "target")
              /\ Value(TransitionsAt(o) + 4 * k + 1) = off[Transitions(q)[ls[k + 1]]]
  <2>1. PICK i \in 1 .. n : i = k + 1
    BY <1>11
  <2>2. PICK place \in Nat : place = o + 1 + v + 4 * k
    BY <1>11
  <2>3. place = o + 1 + v + 4 * (i - 1)
    BY <1>11, <2>1, <2>2
  <2>4. TransitionsAt(o) + 4 * k = place /\ TransitionsAt(o) + 4 * k + 1 = place + 1
    BY <1>9, <2>2
  <2> QED BY <1>10, <2>1, <2>3, <2>4
<1>13. ASSUME NEW l, NEW x, x \in Proceed(o, l)
       PROVE  l \in DOMAIN Transitions(q) /\ x = off[Transitions(q)[l]]
  <2>1. PICK k \in 0 .. n - 1 :
          Value(TransitionsAt(o) + 4 * k) = l /\ x = Value(TransitionsAt(o) + 4 * k + 1)
    BY <1>6, <1>13 DEF Proceed
  <2>2. ls[k + 1] = l /\ x = off[Transitions(q)[ls[k + 1]]]
    BY <1>12, <2>1
  <2>3. k + 1 \in 1 .. n
    BY <1>11
  <2> QED BY <1>4, <2>2, <2>3
<1>14. ASSUME NEW l \in DOMAIN Transitions(q) PROVE off[Transitions(q)[l]] \in Proceed(o, l)
  <2>1. PICK i \in 1 .. n : ls[i] = l
    BY <1>4
  <2>2. PICK k \in 0 .. n - 1 : k + 1 = i
    <3>1. i - 1 \in 0 .. n - 1 /\ (i - 1) + 1 = i
      BY <1>4
    <3> QED BY <3>1
  <2>3. /\ At(TransitionsAt(o) + 4 * k, "label") /\ Value(TransitionsAt(o) + 4 * k) = l
        /\ At(TransitionsAt(o) + 4 * k + 1, "target")
        /\ Value(TransitionsAt(o) + 4 * k + 1) = off[Transitions(q)[l]]
    BY <1>12, <2>1, <2>2
  <2> QED BY <1>6, <2>3 DEF Proceed
<1> QED BY <1>2, <1>6, <1>7, <1>8, <1>13, <1>14

(* Words lead from the initial state to what is laid out.                  *)
LEMMA LedLaidOut ==
  ASSUME IsTable(states), initial \in 1 .. Len(states), WholeLayout, order \in Seq(1 .. Len(states)),
         NEW w \in Seq(Labels), NEW n \in 0 .. Len(w)
  PROVE  LedTo(initial, w, n) \subseteq Range(order)
<1> DEFINE bad == { k \in 0 .. Len(w) : ~(LedTo(initial, w, k) \subseteq Range(order)) }
<1>1. Len(w) \in Nat
  OBVIOUS
<1>2. bad = {}
  <2> SUFFICES ASSUME bad # {} PROVE FALSE
    OBVIOUS
  <2>1. PICK k \in bad : \A i \in bad : k <= i
    <3>1. bad \in SUBSET Nat
      BY <1>1
    <3> HIDE DEF bad
    <3> QED BY <3>1, LeastOf
  <2>2. PICK r \in LedTo(initial, w, k) : r \notin Range(order)
    BY <2>1
  <2>3. CASE k = 0
    <3>1. r = initial
      BY <2>2, <2>3 DEF LedTo, Beginning
    <3>2. Len(order) \in DOMAIN order /\ order[Len(order)] = initial
      BY DEF WholeLayout
    <3> QED BY <2>2, <3>1, <3>2 DEF Range
  <2>4. CASE k # 0
    <3>1. k \in 1 .. Len(w) /\ k - 1 \in 0 .. Len(w) /\ ~(k <= k - 1)
      BY <1>1, <2>1, <2>4
    <3>2. PICK s \in LedTo(initial, w, k - 1) : Step(states, s, w[k], r)
      BY <2>2, <3>1, LedOn
    <3>3. s \in Range(order)
      <4>1. k - 1 \notin bad
        <5> HIDE DEF bad
        <5> QED BY <2>1, <3>1
      <4> QED BY <3>1, <4>1
    <3> QED BY <2>2, <3>2, <3>3 DEF WholeLayout, Step, Transitions
  <2> QED BY <2>3, <2>4
<1> QED BY <1>2

(* The recursion of Recognized, and what solves it: the offsets of where   *)
(* the beginnings of the word lead.                                        *)
ReachOn(f, w, k) ==
  IF k = 0 THEN {0}
  ELSE UNION { Proceed(o, w[k]) : o \in { o \in f[k - 1] : Readable(o) } }

ReadTo(off, w, k) == { off[r] : r \in LedTo(initial, w, k) }

IsLaid(off) ==
  /\ StatesFinite /\ IsTable(states) /\ initial \in 1 .. Len(states)
  /\ order \in Seq(1 .. Len(states)) /\ WholeLayout /\ Described(image, off)

LEMMA ReadToSolves ==
  ASSUME NEW off, IsLaid(off), NEW w \in Seq(Labels),
         NEW f, NEW k \in 0 .. Len(w), k # 0 => f[k - 1] = ReadTo(off, w, k - 1)
  PROVE  ReachOn(f, w, k) = ReadTo(off, w, k)
<1>1. CASE k = 0
  <2>1. LedTo(initial, w, 0) = {initial}
    <3>1. OneOn(f, initial, w, 0) = {initial}
      BY DEF OneOn
    <3>2. 0 \in 0 .. Len(w)
      BY <1>1
    <3> QED BY <3>1, <3>2, LedToSolves DEF IsLaid
  <2>2. off[initial] = 0
    BY DEF IsLaid, Described
  <2> QED BY <1>1, <2>1, <2>2 DEF ReachOn, ReadTo
<1>2. CASE k # 0
  <2>1. k \in 1 .. Len(w) /\ k - 1 \in 0 .. Len(w)
    BY <1>2
  <2>2. LedTo(initial, w, k - 1) \subseteq Range(order)
    BY <2>1, LedLaidOut DEF IsLaid
  <2>3. ASSUME NEW s \in LedTo(initial, w, k - 1)
        PROVE  /\ Readable(off[s])
               /\ \A x : x \in Proceed(off[s], w[k]) <=>
                    w[k] \in DOMAIN Transitions(s) /\ x = off[Transitions(s)[w[k]]]
    <3>1. s \in Range(order) /\ s \in 1 .. Len(states)
      BY <2>2 DEF LedTo
    <3>2. /\ Readable(off[s])
          /\ \A l, x : x \in Proceed(off[s], l) <=> l \in DOMAIN Transitions(s) /\ x = off[Transitions(s)[l]]
      <4>1. StatesFinite /\ Described(image, off)
        BY DEF IsLaid
      <4> QED BY <3>1, <4>1, ReaderAt, Zenon
    <3> QED BY <3>2, Zenon
  <2>4. \A x : x \in ReachOn(f, w, k) <=>
                 \E s \in LedTo(initial, w, k - 1) : x \in Proceed(off[s], w[k])
    BY <1>2, <2>3 DEF ReachOn, ReadTo
  <2>5. \A r : r \in LedTo(initial, w, k) <=> \E s \in LedTo(initial, w, k - 1) : Step(states, s, w[k], r)
    BY <2>1, LedOn DEF IsLaid
  <2>6. \A x : x \in ReadTo(off, w, k) <=>
                 \E s \in LedTo(initial, w, k - 1) : w[k] \in DOMAIN Transitions(s) /\ x = off[Transitions(s)[w[k]]]
    BY <2>5 DEF ReadTo, Step, Transitions
  <2>7. \A x : x \in ReachOn(f, w, k) <=> x \in ReadTo(off, w, k)
    <3>1. \A x : (\E s \in LedTo(initial, w, k - 1) : x \in Proceed(off[s], w[k]))
                   <=> \E s \in LedTo(initial, w, k - 1) :
                         w[k] \in DOMAIN Transitions(s) /\ x = off[Transitions(s)[w[k]]]
      BY <2>3, Zenon
    <3> QED BY <2>4, <2>6, <3>1, Zenon
  <2> QED BY <2>7
<1> QED BY <1>1, <1>2

LEMMA OnlyReadTo ==
  ASSUME NEW off, IsLaid(off), NEW w \in Seq(Labels),
         NEW f, f = [k \in 0 .. Len(w) |-> ReachOn(f, w, k)]
  PROVE  f[Len(w)] = ReadTo(off, w, Len(w))
<1> DEFINE bad == { k \in 0 .. Len(w) : f[k] # ReadTo(off, w, k) }
<1>1. Len(w) \in Nat /\ Len(w) \in 0 .. Len(w)
  OBVIOUS
<1>2. bad = {}
  <2> SUFFICES ASSUME bad # {} PROVE FALSE
    OBVIOUS
  <2>1. PICK k \in bad : \A i \in bad : k <= i
    <3>1. bad \in SUBSET Nat
      BY <1>1
    <3> HIDE DEF bad
    <3> QED BY <3>1, LeastOf
  <2>2. k # 0 => k - 1 \in 0 .. Len(w) /\ ~(k <= k - 1)
    BY <1>1
  <2>3. k # 0 => f[k - 1] = ReadTo(off, w, k - 1)
    BY <2>1, <2>2
  <2>4. ReachOn(f, w, k) = ReadTo(off, w, k)
    BY <2>3, ReadToSolves
  <2>5. f[k] = ReachOn(f, w, k)
    <3>1. k \in 0 .. Len(w)
      OBVIOUS
    <3> QED BY <3>1, Zenon
  <2> QED BY <2>4, <2>5
<1> QED BY <1>1, <1>2

(* What is written is read as the automaton is.                            *)
LEMMA ReadAsBuilt ==
  ASSUME NEW off, IsLaid(off), NEW w \in Seq(Labels), w # <<>>
  PROVE  Recognized(w) = Values(initial, w)
<1> DEFINE f == CHOOSE f : f = [k \in 0 .. Len(w) |-> ReachOn(f, w, k)]
<1>1. \E g : g = [k \in 0 .. Len(w) |-> ReachOn(g, w, k)]
  <2> DEFINE g == [k \in 0 .. Len(w) |-> ReadTo(off, w, k)]
  <2>1. \A k \in 0 .. Len(w) : g[k] = ReachOn(g, w, k)
    <3> SUFFICES ASSUME NEW k \in 0 .. Len(w) PROVE g[k] = ReachOn(g, w, k)
      OBVIOUS
    <3>1. k # 0 => k - 1 \in 0 .. Len(w)
      OBVIOUS
    <3>2. k # 0 => g[k - 1] = ReadTo(off, w, k - 1)
      BY <3>1
    <3>3. g[k] = ReadTo(off, w, k)
      OBVIOUS
    <3> HIDE DEF g
    <3> QED BY <3>2, <3>3, ReadToSolves
  <2>2. g = [k \in 0 .. Len(w) |-> g[k]]
    OBVIOUS
  <2> HIDE DEF g
  <2> QED BY <2>1, <2>2, Zenon
<1>2. f = [k \in 0 .. Len(w) |-> ReachOn(f, w, k)]
  BY <1>1, Zenon
<1>3. Recognized(w) =
        { Value(o + 1) : o \in { o \in f[Len(w)] : w # <<>> /\ Readable(o) /\ Value(o).accepting } }
  BY Zenon DEF Recognized, ReachOn
<1>4. f[Len(w)] = ReadTo(off, w, Len(w))
  <2> HIDE DEF f
  <2> QED BY <1>2, OnlyReadTo
<1> HIDE DEF f
<1>5. Len(w) \in 0 .. Len(w)
  OBVIOUS
<1>6. ASSUME NEW r \in LedTo(initial, w, Len(w))
      PROVE  /\ Readable(off[r]) /\ (Value(off[r]).accepting <=> states[r].data # NoData)
             /\ states[r].data # NoData => Value(off[r] + 1) = states[r].data
  <2>1. r \in Range(order) /\ r \in 1 .. Len(states)
    BY <1>5, LedLaidOut DEF IsLaid, LedTo
  <2>2. /\ Readable(off[r]) /\ Value(off[r]).accepting = Accepting(r)
        /\ Accepting(r) => Value(off[r] + 1) = states[r].data
    BY <2>1, ReaderAt DEF IsLaid
  <2> QED BY <2>2 DEF Accepting
<1>7. \A v : v \in Recognized(w) <=>
               \E r \in LedTo(initial, w, Len(w)) : states[r].data # NoData /\ v = states[r].data
  BY <1>3, <1>4, <1>6 DEF ReadTo
<1>8. \A v : v \in Values(initial, w) <=> Finds(states, initial, w, v)
  BY ValuesFound DEF IsLaid
<1>9. \A v : Finds(states, initial, w, v) <=>
               \E r \in LedTo(initial, w, Len(w)) : states[r].data # NoData /\ v = states[r].data
  <2>1. \A p : Walk(states, initial, w, p) <=> Beginning(initial, w, Len(w), p)
    BY DEF Walk, Beginning
  <2>2. \A v : (\E r \in LedTo(initial, w, Len(w)) : v = states[r].data)
                 <=> \E p \in [0 .. Len(w) -> 1 .. Len(states)] :
                       Walk(states, initial, w, p) /\ states[p[Len(w)]].data = v
    BY <1>5, <2>1 DEF LedTo
  <2>3. \A v : (\E r \in LedTo(initial, w, Len(w)) : states[r].data # NoData /\ v = states[r].data)
                 <=> v # NoData /\ \E r \in LedTo(initial, w, Len(w)) : v = states[r].data
    OBVIOUS
  <2> QED BY <2>2, <2>3 DEF Finds
<1>10. \A v : v \in Recognized(w) <=> v \in Values(initial, w)
  BY <1>7, <1>8, <1>9, Zenon
<1> QED BY <1>10

-----------------------------------------------------------------------------
(* Everything that is written is finite, and what is laid out is closed.   *)

PayloadInv == data # NoData => DataSize(data) \in Nat \ {0}

ClosingInv ==
  /\ pc = "order" =>
       /\ Len(stack) # 0 /\ stack[1] = initial
       /\ \A q \in Range(order) : \A l \in DOMAIN Transitions(q) :
            Transitions(q)[l] \in Range(order) \cup Range(stack)
  /\ pc \in {"write", "done"} => WholeLayout

ImageInv == pc = "done" => \E off : Described(image, off)

WrittenInv == EntriesFinite /\ StatesFinite /\ PayloadInv /\ ClosingInv /\ ImageInv

LEMMA WrittenReadsBack == IInv /\ MinimalInv /\ WrittenInv => ReadsBack
<1> SUFFICES ASSUME IInv, MinimalInv, WrittenInv, pc = "done", NEW w \in Words
             PROVE  Recognized(w) = Entered(w)
  BY DEF ReadsBack
<1>1. w \in Seq(Labels)
  BY SimpleFsaAssumption
<1>2. CASE w = <<>>
  <2>1. Entered(w) = {}
    BY <1>2 DEF Entered, WrittenInv, EntriesFinite
  <2>2. Recognized(w) = {}
    BY <1>2 DEF Recognized
  <2> QED BY <2>1, <2>2
<1>3. CASE w # <<>>
  <2>1. PICK off : Described(image, off)
    BY DEF WrittenInv, ImageInv
  <2>2. IsLaid(off)
    BY <2>1 DEF IsLaid, IInv, TableInv, MinimalInv, LayoutInv, WrittenInv, ClosingInv
  <2>3. Recognized(w) = Values(initial, w)
    BY <1>1, <1>3, <2>2, ReadAsBuilt
  <2>4. Values(initial, w) = Entered(w)
    BY ExactRecognises DEF Recognises
  <2> QED BY <2>3, <2>4
<1> QED BY <1>2, <1>3

LEMMA WrittenInit == FsaInit /\ pc \in {"rules", "ready"} => WrittenInv
<1> SUFFICES ASSUME FsaInit, pc \in {"rules", "ready"} PROVE WrittenInv
  OBVIOUS
<1>1. EntriesFinite
  <2>1. DOMAIN entries = {}
    BY DEF FsaInit
  <2> QED BY <2>1, FS_EmptySet DEF EntriesFinite
<1>2. StatesFinite
  <2>1. /\ Len(states) = 1 /\ \A q \in 1 .. 1 : q = 1
        /\ states[1].data = NoData /\ DOMAIN states[1].transitions = {}
    BY DEF FsaInit, NewState
  <2> QED BY <2>1, FS_EmptySet DEF StatesFinite, Transitions, Accepting
<1> QED BY <1>1, <1>2 DEF WrittenInv, PayloadInv, ClosingInv, ImageInv, FsaInit

(* Steps before the layout that give no data and change no state.          *)
LEMMA BuildingWritten ==
  ASSUME WrittenInv, UNCHANGED <<states, entries, data>>, pc' \notin {"order", "write", "done"}
  PROVE  WrittenInv'
<1>1. EntriesFinite' /\ PayloadInv'
  BY DEF WrittenInv, EntriesFinite, PayloadInv
<1>2. StatesFinite'
  BY DEF WrittenInv, StatesFinite, Transitions, Accepting
<1> QED BY <1>1, <1>2 DEF WrittenInv, ClosingInv, ImageInv

LEMMA AddEntryWritten ==
  ASSUME WrittenInv, NEW w, NEW d, TakesBytes(d), AddEntry(w, d)
  PROVE  WrittenInv'
<1>1. EntriesFinite'
  BY DEF WrittenInv, EntriesFinite, AddEntry
<1>2. StatesFinite'
  BY DEF WrittenInv, StatesFinite, Transitions, Accepting, AddEntry, builder
<1>3. PayloadInv' /\ pc' = "walk"
  BY DEF PayloadInv, TakesBytes, AddEntry
<1> QED BY <1>1, <1>2, <1>3 DEF WrittenInv, ClosingInv, ImageInv

(* Another transition leaves the labels finite.                            *)
LEMMA SetFinite ==
  ASSUME StatesFinite, IsTable(states), NEW a, NEW l, NEW r, NEW U, U = SetTransition(states, a, l, r)
  PROVE  /\ Len(U) = Len(states) /\ U = [q \in 1 .. Len(U) |-> U[q]]
         /\ \A q \in 1 .. Len(U) : IsFiniteSet(DOMAIN U[q].transitions) /\ U[q].data = states[q].data
<1>1. PICK n \in Nat : n = Len(states)
  BY DEF IsTable
<1>2. states = [q \in 1 .. n |-> states[q]]
  BY <1>1 DEF IsTable
<1> DEFINE old == states[a].transitions
           new == [m \in DOMAIN old \cup {l} |-> IF m = l THEN r ELSE old[m]]
<1>3. U = [q \in 1 .. n |-> IF q = a THEN [states[a] EXCEPT !.transitions = new] ELSE states[q]]
  BY <1>2 DEF SetTransition
<1>4. Len(U) = n /\ U = [q \in 1 .. n |-> U[q]]
  <2> HIDE DEF new
  <2>1. U = [q \in 1 .. n |-> U[q]]
    BY <1>3
  <2> QED BY <2>1, LengthIs
<1>5. ASSUME NEW q \in 1 .. n
      PROVE  IsFiniteSet(DOMAIN U[q].transitions) /\ U[q].data = states[q].data
  <2>1. IsFiniteSet(DOMAIN states[q].transitions)
    BY <1>1 DEF StatesFinite, Transitions
  <2>2. states[q] = [data |-> states[q].data, transitions |-> states[q].transitions]
    BY <1>1 DEF IsTable, IsState
  <2>3. CASE q = a
    <3>1. DOMAIN new = DOMAIN old \cup {l}
      OBVIOUS
    <3>2. IsFiniteSet(DOMAIN new)
      BY <2>1, <2>3, <3>1, FS_AddElement
    <3> HIDE DEF new
    <3>3. U[q] = [states[q] EXCEPT !.transitions = new]
      BY <1>3, <2>3
    <3>4. U[q] = [data |-> states[q].data, transitions |-> new]
      BY <2>2, <3>3
    <3> QED BY <3>2, <3>4
  <2>4. CASE q # a
    <3> HIDE DEF new
    <3> QED BY <1>3, <2>1, <2>4
  <2> QED BY <2>3, <2>4
<1> QED BY <1>1, <1>4, <1>5

LEMMA ExtendWritten ==
  ASSUME IInv, WrittenInv, Extend
  PROVE  WrittenInv'
<1>1. PICK U : U = SetTransition(states, at, word[prefix_len + 1], Len(states) + 1)
  OBVIOUS
<1>2. StatesFinite /\ IsTable(states)
  BY DEF WrittenInv, IInv, TableInv
<1>3. PICK n \in Nat : n = Len(states)
  BY <1>2 DEF IsTable
<1>4. /\ Len(U) = n /\ U = [q \in 1 .. n |-> U[q]]
      /\ \A q \in 1 .. n : IsFiniteSet(DOMAIN U[q].transitions) /\ U[q].data = states[q].data
  <2>1. /\ Len(U) = Len(states) /\ U = [q \in 1 .. Len(U) |-> U[q]]
        /\ \A q \in 1 .. Len(U) : IsFiniteSet(DOMAIN U[q].transitions) /\ U[q].data = states[q].data
    BY <1>1, <1>2, SetFinite
  <2> QED BY <1>3, <2>1
<1>5. states' = Append(U, NewState)
  BY <1>1 DEF Extend
<1>6. Len(states') = n + 1 /\ states'[n + 1] = NewState /\ \A q \in 1 .. n : states'[q] = U[q]
  BY <1>4, <1>5, AppendedIs
<1>7. \A q \in 1 .. n + 1 : q = n + 1 \/ q \in 1 .. n
  OBVIOUS
<1>8. ASSUME NEW q \in 1 .. n + 1
      PROVE  /\ IsFiniteSet(DOMAIN states'[q].transitions)
             /\ states'[q].data # NoData => DataSize(states'[q].data) \in Nat \ {0}
  <2>1. CASE q = n + 1
    <3>1. states'[q].data = NoData /\ DOMAIN states'[q].transitions = {}
      BY <1>6, <2>1 DEF NewState
    <3> QED BY <3>1, FS_EmptySet
  <2>2. CASE q \in 1 .. n
    BY <1>2, <1>3, <1>4, <1>6, <2>2 DEF StatesFinite, Accepting
  <2> QED BY <1>7, <2>1, <2>2
<1>9. StatesFinite'
  BY <1>6, <1>8 DEF StatesFinite, Transitions, Accepting
<1>10. EntriesFinite' /\ PayloadInv' /\ pc' = "extend"
  BY DEF WrittenInv, EntriesFinite, PayloadInv, Extend
<1> QED BY <1>9, <1>10 DEF WrittenInv, ClosingInv, ImageInv

LEMMA StoreWritten ==
  ASSUME IInv, WrittenInv, Store
  PROVE  WrittenInv'
<1>1. pc = "extend" /\ AddingInv /\ IsTable(states) /\ at # NoState
  BY DEF Store, IInv, BuildingPcs, BuildingInv, AddingInv, TableInv
<1>2. word \in Seq(Labels) /\ word # <<>> /\ data # NoData
  BY <1>1 DEF AddingInv, Valid
<1>3. EntriesFinite'
  <2>1. DOMAIN entries' = DOMAIN entries \cup {word}
    BY DEF Store
  <2>2. IsFiniteSet(DOMAIN entries \cup {word})
    BY FS_AddElement DEF WrittenInv, EntriesFinite
  <2> QED BY <1>2, <2>1, <2>2 DEF WrittenInv, EntriesFinite
<1>4. PayloadInv' /\ pc' = "ready" /\ DataSize(data) \in Nat \ {0}
  BY <1>2 DEF WrittenInv, PayloadInv, Store, adding
<1>5. PICK n \in Nat : n = Len(states)
  BY <1>1 DEF IsTable
<1>6. states = [q \in 1 .. n |-> states[q]]
  BY <1>1, <1>5 DEF IsTable
<1>7. PICK U : U = states'
  OBVIOUS
<1>8. U = [q \in 1 .. n |-> IF q = at THEN [states[at] EXCEPT !.data = data] ELSE states[q]]
  BY <1>6, <1>7 DEF Store
<1>9. Len(U) = n
  <2>1. U = [q \in 1 .. n |-> U[q]]
    BY <1>8
  <2> QED BY <2>1, LengthIs
<1>10. ASSUME NEW q \in 1 .. n
       PROVE  /\ IsFiniteSet(DOMAIN U[q].transitions)
              /\ U[q].data # NoData => DataSize(U[q].data) \in Nat \ {0}
  <2>1. states[q] = [data |-> states[q].data, transitions |-> states[q].transitions]
    BY <1>1, <1>5 DEF IsTable, IsState
  <2>2. /\ IsFiniteSet(DOMAIN states[q].transitions)
        /\ states[q].data # NoData => DataSize(states[q].data) \in Nat \ {0}
    BY <1>5 DEF WrittenInv, StatesFinite, Transitions, Accepting
  <2>3. CASE q = at
    <3>1. U[q] = [states[q] EXCEPT !.data = data]
      BY <1>8, <2>3
    <3>2. U[q] = [data |-> data, transitions |-> states[q].transitions]
      BY <2>1, <3>1
    <3> QED BY <1>4, <2>2, <3>2
  <2>4. CASE q # at
    BY <1>8, <2>2, <2>4
  <2> QED BY <2>3, <2>4
<1>11. StatesFinite'
  BY <1>7, <1>9, <1>10 DEF StatesFinite, Transitions, Accepting
<1> QED BY <1>3, <1>4, <1>11 DEF WrittenInv, ClosingInv, ImageInv

LEMMA RegisterWritten ==
  ASSUME IInv, MinimalInv, WrittenInv, Register
  PROVE  WrittenInv'
<1>1. EntriesFinite' /\ PayloadInv'
  BY DEF WrittenInv, EntriesFinite, PayloadInv, Register, adding
<1>2. CASE Parent = NoState
  <2>1. PICK r : r = Replacement
    OBVIOUS
  <2>2. states' = states /\ pc' = "order" /\ stack' = <<r>> /\ initial' = r /\ order' = order
    BY <1>2, <2>1 DEF Register
  <2>3. order' = <<>>
    BY <2>2 DEF MinimalInv, PreviousInv, Register, BuildingPcs
  <2>4. Len(stack') = 1 /\ stack'[1] = r /\ Range(order') = {}
    <3>1. DOMAIN order' = {}
      BY <2>3
    <3> QED BY <2>2, <3>1 DEF Range
  <2>5. StatesFinite'
    BY <2>2 DEF WrittenInv, StatesFinite, Transitions, Accepting
  <2> QED BY <1>1, <2>2, <2>4, <2>5 DEF WrittenInv, ClosingInv, ImageInv
<1>3. CASE Parent # NoState
  <2>1. StatesFinite /\ IsTable(states)
    BY DEF WrittenInv, IInv, TableInv
  <2>2. PICK U : U = states'
    OBVIOUS
  <2>3. U = SetTransition(states, Parent, previous[Passed(Len(stack))], Replacement)
    BY <1>3, <2>2 DEF Register
  <2>4. /\ Len(U) = Len(states)
        /\ \A q \in 1 .. Len(U) : IsFiniteSet(DOMAIN U[q].transitions) /\ U[q].data = states[q].data
    BY <2>1, <2>3, SetFinite
  <2>5. StatesFinite'
    BY <2>1, <2>2, <2>4 DEF StatesFinite, Transitions, Accepting
  <2>6. pc' \notin {"order", "write", "done"}
    BY <1>3 DEF Register
  <2> QED BY <1>1, <2>5, <2>6 DEF WrittenInv, ClosingInv, ImageInv
<1> QED BY <1>2, <1>3

(* Steps that leave what was built as it is.                               *)
LEMMA StillBuilt ==
  ASSUME WrittenInv, UNCHANGED <<states, entries, data>>
  PROVE  EntriesFinite' /\ PayloadInv' /\ StatesFinite'
<1>1. EntriesFinite' /\ PayloadInv'
  BY DEF WrittenInv, EntriesFinite, PayloadInv
<1>2. StatesFinite'
  BY DEF WrittenInv, StatesFinite, Transitions, Accepting
<1> QED BY <1>1, <1>2

LEMMA VisitWritten ==
  ASSUME MinimalInv, WrittenInv, Visit
  PROVE  WrittenInv'
<1>1. /\ states' = states /\ entries' = entries /\ data' = data /\ initial' = initial /\ order' = order
      /\ pc' = "order" /\ pc = "order"
  BY DEF Visit, builder, adding
<1>2. EntriesFinite' /\ PayloadInv' /\ StatesFinite'
  BY <1>1, StillBuilt
<1>3. PICK n \in Nat \ {0} : n = Len(stack)
  BY <1>1 DEF MinimalInv, LayoutInv
<1>4. PICK t : stack' = Append(stack, t)
  BY DEF Visit
<1>5. PICK s : s = stack'
  OBVIOUS
<1>6. stack \in Seq(1 .. Len(states)) /\ stack \in Seq((1 .. Len(states)) \cup {t})
  BY <1>1 DEF MinimalInv, LayoutInv
<1>7. /\ Len(s) = n + 1 /\ DOMAIN s = 1 .. n + 1 /\ DOMAIN stack = 1 .. n
      /\ \A i \in 1 .. n : s[i] = stack[i]
  BY <1>3, <1>4, <1>5, <1>6
<1>8. Range(stack) \subseteq Range(s)
  <2>1. \A i \in 1 .. n : i \in 1 .. n + 1
    OBVIOUS
  <2> QED BY <1>7, <2>1 DEF Range
<1>9. s[1] = initial /\ Len(s) # 0
  <2>1. 1 \in 1 .. n /\ n + 1 # 0
    OBVIOUS
  <2>2. stack[1] = initial
    BY <1>1 DEF WrittenInv, ClosingInv
  <2> QED BY <1>7, <2>1, <2>2
<1>10. \A q \in Range(order) : \A l \in DOMAIN Transitions(q) : Transitions(q)[l] \in Range(order) \cup Range(s)
  BY <1>1, <1>8 DEF WrittenInv, ClosingInv
<1>11. ClosingInv'
  BY <1>1, <1>5, <1>9, <1>10 DEF ClosingInv, Transitions
<1> QED BY <1>1, <1>2, <1>11 DEF WrittenInv, ImageInv

(* A state is left when all of its targets are laid out or on their way.   *)
LEMMA LeaveWritten ==
  ASSUME MinimalInv, WrittenInv, Leave
  PROVE  WrittenInv'
<1>1. /\ states' = states /\ entries' = entries /\ data' = data /\ initial' = initial
      /\ pc' \in {"order", "write"} /\ pc = "order"
  BY DEF Leave, builder, adding
<1>2. EntriesFinite' /\ PayloadInv' /\ StatesFinite'
  BY <1>1, StillBuilt
<1>3. PICK n \in Nat \ {0} : n = Len(stack)
  BY <1>1 DEF MinimalInv, LayoutInv
<1>4. PICK m \in Nat : m = Len(order)
  BY <1>1 DEF MinimalInv, LayoutInv
<1>5. PICK t : t = stack[n]
  OBVIOUS
<1>6. stack \in Seq(1 .. Len(states)) /\ order \in Seq(1 .. Len(states)) /\ t \in 1 .. Len(states)
  BY <1>1, <1>3, <1>5 DEF MinimalInv, LayoutInv
<1>7. PICK s : s = stack'
  OBVIOUS
<1>8. PICK o : o = order'
  OBVIOUS
<1>9. o = Append(order, t) /\ s = SubSeq(stack, 1, n - 1) /\ pc' = IF n = 1 THEN "write" ELSE "order"
  BY <1>3, <1>5, <1>7, <1>8 DEF Leave, Top
<1>10. /\ Len(o) = m + 1 /\ DOMAIN o = 1 .. m + 1 /\ DOMAIN order = 1 .. m
       /\ o[m + 1] = t /\ \A i \in 1 .. m : o[i] = order[i]
  BY <1>4, <1>6, <1>9
<1>11. /\ Len(s) = n - 1 /\ s = [i \in 1 .. n - 1 |-> s[i]] /\ DOMAIN stack = 1 .. n
       /\ \A i \in 1 .. n - 1 : s[i] = stack[i]
  BY <1>3, <1>6, <1>9, FrontIs
<1>12. DOMAIN s = 1 .. n - 1
  BY <1>11
<1>13. Range(order) \subseteq Range(o) /\ t \in Range(o)
  <2>1. m + 1 \in 1 .. m + 1 /\ \A i \in 1 .. m : i \in 1 .. m + 1
    OBVIOUS
  <2> QED BY <1>10, <2>1 DEF Range
<1>14. Range(stack) \subseteq Range(o) \cup Range(s)
  <2>1. \A i \in 1 .. n : i = n \/ i \in 1 .. n - 1
    OBVIOUS
  <2> SUFFICES ASSUME NEW i \in 1 .. n PROVE stack[i] \in Range(o) \cup Range(s)
    BY <1>11 DEF Range
  <2>2. CASE i = n
    BY <1>5, <1>13, <2>2
  <2>3. CASE i \in 1 .. n - 1
    <3>1. s[i] = stack[i] /\ i \in DOMAIN s
      BY <1>11, <1>12, <2>3
    <3> QED BY <3>1 DEF Range
  <2> QED BY <2>1, <2>2, <2>3
<1>15. \A l \in DOMAIN Transitions(t) : Transitions(t)[l] \in Range(o) \cup Range(s)
  <2>1. Unvisited = {} /\ Top = t
    BY <1>3, <1>5 DEF Leave, Top
  <2>2. \A l \in DOMAIN Transitions(t) : Transitions(t)[l] \in Range(stack) \cup Range(order)
    BY <2>1 DEF Unvisited
  <2> QED BY <1>13, <1>14, <2>2
<1>16. \A q \in Range(o) : q = t \/ q \in Range(order)
  <2>1. \A i \in 1 .. m + 1 : i = m + 1 \/ i \in 1 .. m
    OBVIOUS
  <2> QED BY <1>10, <2>1 DEF Range
<1>17. \A q \in Range(order) : \A l \in DOMAIN Transitions(q) : Transitions(q)[l] \in Range(o) \cup Range(s)
  BY <1>1, <1>13, <1>14 DEF WrittenInv, ClosingInv
<1>18. \A q \in Range(o) : \A l \in DOMAIN Transitions(q) : Transitions(q)[l] \in Range(o) \cup Range(s)
  BY <1>15, <1>16, <1>17
<1>19. stack[1] = initial
  BY <1>1 DEF WrittenInv, ClosingInv
<1>20. CASE n = 1
  <2>1. Range(s) = {}
    BY <1>12, <1>20 DEF Range
  <2>2. m + 1 # 0 /\ o[m + 1] = initial /\ pc' = "write"
    BY <1>5, <1>9, <1>10, <1>19, <1>20
  <2>3. WholeLayout'
    BY <1>1, <1>8, <1>10, <1>18, <2>1, <2>2 DEF WholeLayout, Transitions
  <2> QED BY <1>2, <2>2, <2>3 DEF WrittenInv, ClosingInv, ImageInv
<1>21. CASE n # 1
  <2>1. 1 \in 1 .. n - 1 /\ n - 1 # 0
    BY <1>21
  <2>2. s[1] = initial /\ Len(s) # 0 /\ pc' = "order"
    BY <1>9, <1>11, <1>19, <1>21, <2>1
  <2>3. ClosingInv'
    BY <1>1, <1>7, <1>8, <1>18, <2>2 DEF ClosingInv, Transitions
  <2> QED BY <1>2, <2>2, <2>3 DEF WrittenInv, ImageInv
<1> QED BY <1>20, <1>21

(* A description does not change while the automaton does not.             *)
LEMMA DescribedSame ==
  ASSUME NEW im, NEW off, UNCHANGED <<states, initial, order>>, Described(im, off)
  PROVE  Described(im, off)'
<1>1. /\ states' = states /\ initial' = initial /\ order' = order
      /\ off \in [1 .. Len(states) -> Nat] /\ off[initial] = 0
  BY DEF Described
<1>2. ASSUME NEW q \in Range(order) PROVE \E n, ls : DescribedAt(im, q, off, n, ls)'
  <2>1. PICK n, ls : DescribedAt(im, q, off, n, ls)
    BY DEF Described
  <2>2. Transitions(q)' = Transitions(q) /\ Accepting(q)' = Accepting(q) /\ ValueSize(q)' = ValueSize(q)
    BY <1>1 DEF Transitions, Accepting, ValueSize
  <2>3. LabelsOf(q, n, ls)' /\ HeaderByte(q, n)' = HeaderByte(q, n)
    BY <2>1, <2>2 DEF DescribedAt, LabelsOf, HeaderByte
  <2>4. DescribedAt(im, q, off, n, ls)'
    BY <1>1, <2>1, <2>2, <2>3 DEF DescribedAt
  <2> QED BY <2>4
<1> QED BY <1>1, <1>2 DEF Described

(* Steps that move nothing.                                                *)
LEMMA StillWritten ==
  ASSUME WrittenInv, UNCHANGED <<states, initial, entries, data, stack, order>>,
         \/ pc' = pc /\ image' = image
         \/ pc = "write" /\ pc' = "done" /\ \E off : Described(image', off)
  PROVE  WrittenInv'
<1>1. EntriesFinite' /\ PayloadInv' /\ StatesFinite'
  BY StillBuilt
<1>2. ClosingInv'
  BY DEF WrittenInv, ClosingInv, WholeLayout, Transitions
<1>3. ASSUME pc' = "done" PROVE \E off : Described(image, off)'
  <2>1. PICK im : im = image'
    OBVIOUS
  <2>2. PICK off : Described(im, off)
    BY <1>3, <2>1 DEF WrittenInv, ImageInv
  <2>3. Described(im, off)'
    BY <2>2, DescribedSame
  <2>4. off \in [1 .. Len(states') -> Nat] /\ off[initial'] = 0
    BY <2>3 DEF Described
  <2>5. ASSUME NEW q \in Range(order') PROVE \E n, ls : DescribedAt(image, q, off, n, ls)'
    <3>1. PICK n, ls : DescribedAt(im, q, off, n, ls)'
      BY <2>3 DEF Described
    <3>2. DescribedAt(image, q, off, n, ls)'
      BY <2>1, <3>1 DEF DescribedAt
    <3> QED BY <3>2
  <2>6. Described(image, off)'
    BY <2>4, <2>5 DEF Described
  <2> QED BY <2>6
<1>4. ImageInv'
  BY <1>3 DEF ImageInv
<1> QED BY <1>1, <1>2, <1>4 DEF WrittenInv

LEMMA WriteWritten ==
  ASSUME IInv, MinimalInv, WrittenInv, Write
  PROVE  WrittenInv'
<1>1. pc = "write" /\ UNCHANGED <<states, initial, entries, data, stack, order>>
  BY DEF Write, builder, adding
<1>2. CASE \A q \in Range(order) : Fits(q)
  <2>1. PICK im : im = image'
    OBVIOUS
  <2>2. im = FlattenSeq([i \in DOMAIN order |-> Bytes(Reverse(order)[i])]) /\ pc' = "done"
    BY <1>2, <2>1 DEF Write
  <2>3. /\ EntriesFinite /\ StatesFinite /\ WholeLayout /\ IsTable(states) /\ initial \in 1 .. Len(states)
        /\ order \in Seq(1 .. Len(states)) /\ Distinct(order)
    BY <1>1 DEF WrittenInv, ClosingInv, IInv, TableInv, MinimalInv, LayoutInv
  <2>4. \E off : Described(im, off)
    BY <1>2, <2>2, <2>3, ImageDescribed
  <2> QED BY <1>1, <2>1, <2>2, <2>4, StillWritten
<1>3. CASE ~ \A q \in Range(order) : Fits(q)
  <2>1. pc' = "failed"
    BY <1>3 DEF Write
  <2> QED BY <1>1, <2>1, BuildingWritten
<1> QED BY <1>2, <1>3

LEMMA FsaStepWritten == IInv /\ MinimalInv /\ WrittenInv /\ [FsaNext]_fsa => WrittenInv'
<1> SUFFICES ASSUME IInv, MinimalInv, WrittenInv, [FsaNext]_fsa PROVE WrittenInv'
  OBVIOUS
<1>1. CASE Prepare
  <2>1. UNCHANGED <<states, entries, data>> /\ pc' \notin {"order", "write", "done"}
    BY <1>1 DEF Prepare, builder, adding
  <2> QED BY <2>1, BuildingWritten
<1>2. ASSUME NEW w \in Seq(Labels), Refuse(w) \/ \E d : TakesBytes(d) /\ AddEntry(w, d) PROVE WrittenInv'
  <2>1. CASE Refuse(w)
    <3>1. UNCHANGED <<states, entries, data>> /\ pc' \notin {"order", "write", "done"}
      BY <2>1 DEF Refuse, builder, adding
    <3> QED BY <3>1, BuildingWritten
  <2> QED BY <1>2, <2>1, AddEntryWritten
<1>3. CASE Close
  <2>1. UNCHANGED <<states, entries, data>> /\ pc' \notin {"order", "write", "done"}
    BY <1>3 DEF Close, builder
  <2> QED BY <2>1, BuildingWritten
<1>4. CASE FsaSteps
  <2>1. CASE Follow \/ Diverge \/ Descend
    <3>1. UNCHANGED <<states, entries, data>> /\ pc' \notin {"order", "write", "done"}
      BY <2>1 DEF Follow, Diverge, Descend, builder, adding
    <3> QED BY <3>1, BuildingWritten
  <2> QED BY <1>4, <2>1, ExtendWritten, StoreWritten, RegisterWritten, VisitWritten, LeaveWritten, WriteWritten
          DEF FsaSteps
<1>5. CASE UNCHANGED fsa
  <2>1. UNCHANGED <<states, initial, entries, data, stack, order>> /\ pc' = pc /\ image' = image
    BY <1>5 DEF fsa, builder, adding
  <2> QED BY <2>1, StillWritten
<1> QED BY <1>1, <1>2, <1>3, <1>4, <1>5 DEF FsaNext

(* What serialize_simple_fsa_data wrote, try_recognize reads back: the     *)
(* entries with their data, and no other word.                             *)
THEOREM AlwaysReadsBack == FsaSpec => []ReadsBack
<1>1. FsaInit /\ pc \in {"rules", "ready"} => IInv /\ MinimalInv /\ WrittenInv
  BY InitInv, MinimalInit, WrittenInit
<1>2. IInv /\ MinimalInv /\ WrittenInv /\ [FsaNext]_fsa => (IInv /\ MinimalInv /\ WrittenInv)'
  BY FsaStepKeeps, FsaStepMinimal, FsaStepWritten
<1>3. IInv /\ MinimalInv /\ WrittenInv => ReadsBack
  BY WrittenReadsBack
<1> QED BY <1>1, <1>2, <1>3, PTL DEF FsaSpec

-----------------------------------------------------------------------------
(* What Picked has picked up to a place.                                   *)
Picking(f, seq, S, n) ==
  f = [i \in 0 .. n |-> IF i = 0 THEN <<>>
                        ELSE IF i \in S THEN Append(f[i - 1], seq[i]) ELSE f[i - 1]]

LEMMA PickingExists ==
  ASSUME NEW seq, NEW S, NEW n \in Nat
  PROVE  \E f : Picking(f, seq, S, n)
<1> DEFINE bad == { k \in 0 .. n : ~ \E f : Picking(f, seq, S, k) }
<1> SUFFICES ASSUME bad # {} PROVE FALSE
  <2>1. n \in 0 .. n
    OBVIOUS
  <2> QED BY <2>1
<1>1. PICK k \in bad : \A i \in bad : k <= i
  <2>1. bad \in SUBSET Nat
    OBVIOUS
  <2> HIDE DEF bad
  <2> QED BY <2>1, LeastOf
<1>2. CASE k = 0
  <2> DEFINE f == [i \in 0 .. 0 |-> <<>>]
  <2>1. Picking(f, seq, S, 0)
    <3>1. \A i \in 0 .. 0 : i = 0
      OBVIOUS
    <3> QED BY <3>1 DEF Picking
  <2> QED BY <1>2, <2>1
<1>3. CASE k # 0
  <2>0. k \in 0 .. n /\ k - 1 \in 0 .. n /\ ~(k <= k - 1)
    BY <1>1, <1>3
  <2>1. k - 1 \notin bad
    <3> HIDE DEF bad
    <3> QED BY <1>1, <2>0
  <2>2. PICK g : Picking(g, seq, S, k - 1)
    BY <2>0, <2>1
  <2>3. PICK last : last = IF k \in S THEN Append(g[k - 1], seq[k]) ELSE g[k - 1]
    OBVIOUS
  <2>4. PICK f : f = [i \in 0 .. k |-> IF i = k THEN last ELSE g[i]]
    OBVIOUS
  <2>5. ASSUME NEW i \in 0 .. k
        PROVE  f[i] = IF i = 0 THEN <<>> ELSE IF i \in S THEN Append(f[i - 1], seq[i]) ELSE f[i - 1]
    <3>1. CASE i = k
      <4>1. k \in 0 .. k /\ k - 1 \in 0 .. k /\ k # k - 1 /\ k # 0
        BY <1>3, <2>0
      <4>2. f[k] = last /\ f[k - 1] = g[k - 1]
        BY <2>4, <4>1
      <4> QED BY <2>3, <3>1, <4>1, <4>2
    <3>2. CASE i # k
      <4>1. i \in 0 .. k - 1 /\ (i # 0 => i - 1 \in 0 .. k - 1 /\ i - 1 \in 0 .. k /\ i - 1 # k)
        BY <2>0, <3>2
      <4>2. g[i] = IF i = 0 THEN <<>> ELSE IF i \in S THEN Append(g[i - 1], seq[i]) ELSE g[i - 1]
        BY <2>2, <4>1 DEF Picking
      <4>3. f[i] = g[i] /\ (i # 0 => f[i - 1] = g[i - 1])
        BY <2>4, <3>2, <4>1
      <4> QED BY <4>2, <4>3
    <3> QED BY <3>1, <3>2
  <2>6. f = [i \in 0 .. k |-> f[i]]
    BY <2>4
  <2>7. Picking(f, seq, S, k)
    BY <2>5, <2>6 DEF Picking
  <2> QED BY <1>1, <2>7
<1> QED BY <1>2, <1>3

(* The places of a set, one after another.                                 *)
Places(ps, m, n, S) ==
  /\ m \in Nat /\ ps \in [1 .. m -> 1 .. n]
  /\ \A k \in 1 .. m : ps[k] \in S
  /\ \A i, j \in 1 .. m : i < j => ps[i] < ps[j]
  /\ \A i \in 1 .. n : i \in S => \E k \in 1 .. m : ps[k] = i

(* R has what seq has at these places.                                     *)
PickedAt(R, seq, S, m, ps) ==
  Places(ps, m, Len(seq), S) /\ Len(R) = m /\ \A k \in 1 .. m : R[k] = seq[ps[k]]

LEMMA PickedIs ==
  ASSUME NEW T, NEW seq \in Seq(T), NEW S
  PROVE  Picked(seq, S) \in Seq(T) /\ \E m, ps : PickedAt(Picked(seq, S), seq, S, m, ps)
<1> DEFINE f == CHOOSE f : Picking(f, seq, S, Len(seq))
<1>1. PICK n \in Nat : n = Len(seq)
  OBVIOUS
<1>2. Picking(f, seq, S, n)
  BY <1>1, PickingExists
<1>3. Picked(seq, S) = f[n]
  BY <1>1 DEF Picked, Picking
<1> HIDE DEF f
<1> DEFINE Good(i) == \E m, ps : /\ Places(ps, m, i, S) /\ f[i] \in Seq(T) /\ Len(f[i]) = m
                                 /\ \A k \in 1 .. m : f[i][k] = seq[ps[k]]
           bad == { i \in 0 .. n : ~Good(i) }
<1>4. bad = {}
  <2> SUFFICES ASSUME bad # {} PROVE FALSE
    OBVIOUS
  <2>1. PICK i \in bad : \A j \in bad : i <= j
    <3>1. bad \in SUBSET Nat
      OBVIOUS
    <3> HIDE DEF bad
    <3> QED BY <3>1, LeastOf
  <2>2. i \in 0 .. n /\ ~Good(i)
    BY <2>1
  <2>3. f[i] = IF i = 0 THEN <<>> ELSE IF i \in S THEN Append(f[i - 1], seq[i]) ELSE f[i - 1]
    BY <1>2, <2>2 DEF Picking
  <2>4. CASE i = 0
    <3>1. PICK ps : ps = [k \in 1 .. 0 |-> 1]
      OBVIOUS
    <3>2. Places(ps, 0, i, S)
      BY <2>4, <3>1 DEF Places
    <3>3. f[i] \in Seq(T) /\ Len(f[i]) = 0 /\ \A k \in 1 .. 0 : f[i][k] = seq[ps[k]]
      BY <2>3, <2>4
    <3> QED BY <2>2, <3>2, <3>3
  <2>5. CASE i # 0
    <3>1. i \in 1 .. n /\ i - 1 \in 0 .. n /\ ~(i <= i - 1) /\ i \in Nat /\ seq[i] \in T
      BY <1>1, <2>2, <2>5
    <3>2. Good(i - 1)
      <4>1. i - 1 \notin bad
        <5> HIDE DEF bad
        <5> QED BY <2>1, <3>1
      <4> QED BY <3>1, <4>1
    <3>3. PICK m, ps : /\ Places(ps, m, i - 1, S) /\ f[i - 1] \in Seq(T) /\ Len(f[i - 1]) = m
                       /\ \A k \in 1 .. m : f[i - 1][k] = seq[ps[k]]
      BY <3>2
    <3>4. /\ m \in Nat /\ ps \in [1 .. m -> 1 .. i - 1]
          /\ \A k \in 1 .. m : ps[k] \in S
          /\ \A a, b \in 1 .. m : a < b => ps[a] < ps[b]
          /\ \A a \in 1 .. i - 1 : a \in S => \E k \in 1 .. m : ps[k] = a
      BY <3>3 DEF Places
    <3>5. \A a \in 1 .. i : a = i \/ a \in 1 .. i - 1
      BY <3>1
    <3>6. CASE i \notin S
      <4>1. \A a \in 1 .. i : a \in S => \E k \in 1 .. m : ps[k] = a
        BY <3>4, <3>5, <3>6
      <4>2. ps \in [1 .. m -> 1 .. i]
        BY <3>1, <3>4
      <4>3. Places(ps, m, i, S)
        BY <3>4, <4>1, <4>2 DEF Places
      <4>4. f[i] = f[i - 1]
        BY <2>3, <2>5, <3>6
      <4> QED BY <2>2, <3>3, <4>3, <4>4
    <3>7. CASE i \in S
      <4>1. PICK to : to = [k \in 1 .. m + 1 |-> IF k = m + 1 THEN i ELSE ps[k]]
        OBVIOUS
      <4>2. \A k \in 1 .. m + 1 : k = m + 1 \/ k \in 1 .. m
        BY <3>4
      <4>3. m + 1 \in 1 .. m + 1 /\ to[m + 1] = i /\ m + 1 \in Nat
            /\ \A k \in 1 .. m : k \in 1 .. m + 1 /\ k # m + 1 /\ to[k] = ps[k]
        BY <3>4, <4>1
      <4>4. \A k \in 1 .. m : ps[k] \in 1 .. i - 1 /\ ps[k] < i
        BY <3>1, <3>4
      <4>5. to \in [1 .. m + 1 -> 1 .. i]
        <5>1. \A k \in 1 .. m + 1 : to[k] \in 1 .. i
          BY <3>1, <4>2, <4>3, <4>4
        <5> QED BY <4>1, <5>1
      <4>6. \A k \in 1 .. m + 1 : to[k] \in S
        BY <3>4, <3>7, <4>2, <4>3
      <4>7. ASSUME NEW a \in 1 .. m + 1, NEW b \in 1 .. m + 1, a < b PROVE to[a] < to[b]
        <5>1. a \in 1 .. m
          BY <3>4, <4>7
        <5>2. CASE b = m + 1
          BY <4>3, <4>4, <5>1, <5>2
        <5>3. CASE b \in 1 .. m
          BY <3>4, <4>3, <4>7, <5>1, <5>3
        <5> QED BY <4>2, <5>2, <5>3
      <4>8. ASSUME NEW a \in 1 .. i, a \in S PROVE \E k \in 1 .. m + 1 : to[k] = a
        <5>1. CASE a = i
          BY <4>3, <5>1
        <5>2. CASE a \in 1 .. i - 1
          <6>1. PICK k \in 1 .. m : ps[k] = a
            BY <3>4, <4>8, <5>2
          <6> QED BY <4>3, <6>1
        <5> QED BY <3>5, <5>1, <5>2
      <4>9. Places(to, m + 1, i, S)
        BY <4>3, <4>5, <4>6, <4>7, <4>8 DEF Places
      <4>10. f[i] = Append(f[i - 1], seq[i])
        BY <2>3, <2>5, <3>7
      <4>11. /\ f[i] \in Seq(T) /\ Len(f[i]) = m + 1 /\ f[i][m + 1] = seq[i]
             /\ \A k \in 1 .. m : f[i][k] = f[i - 1][k]
        <5>1. PICK s \in Seq(T) : s = f[i - 1] /\ Len(s) = m
          BY <3>3
        <5> QED BY <3>1, <4>10, <5>1
      <4>12. \A k \in 1 .. m + 1 : f[i][k] = seq[to[k]]
        BY <3>3, <4>2, <4>3, <4>11
      <4> QED BY <2>2, <4>9, <4>11, <4>12
    <3> QED BY <3>6, <3>7
  <2> QED BY <2>4, <2>5
<1>5. Good(n)
  <2>1. n \in 0 .. n
    OBVIOUS
  <2> QED BY <1>4, <2>1
<1> QED BY <1>1, <1>3, <1>5 DEF PickedAt

LEMMA AscendingIs ==
  ASSUME NEW n \in Nat, NEW S
  PROVE  \E m, ps : /\ Places(ps, m, n, S)
                    /\ Ascending(S, n) \in Seq(1 .. n) /\ Len(Ascending(S, n)) = m
                    /\ \A k \in 1 .. m : Ascending(S, n)[k] = ps[k]
<1>1. PICK seq : seq = [i \in 1 .. n |-> i]
  OBVIOUS
<1>2. seq \in Seq(1 .. n) /\ Len(seq) = n
  BY <1>1
<1>3. PICK m, ps : Picked(seq, S) \in Seq(1 .. n) /\ PickedAt(Picked(seq, S), seq, S, m, ps)
  BY <1>2, PickedIs
<1>4. Ascending(S, n) = Picked(seq, S)
  BY <1>1 DEF Ascending
<1>5. \A k \in 1 .. m : ps[k] \in 1 .. n
  BY <1>2, <1>3 DEF Places, PickedAt
<1>6. \A k \in 1 .. m : seq[ps[k]] = ps[k]
  BY <1>1, <1>5
<1> QED BY <1>2, <1>3, <1>4, <1>6 DEF PickedAt

(* Nothing lies between one place and the next.                            *)
LEMMA PlacesAdjacent ==
  ASSUME NEW ps, NEW m, NEW n \in Nat, NEW S, Places(ps, m, n, S), NEW k \in 1 .. m
  PROVE  \A i \in 1 .. n : i < ps[k] /\ (k # 1 => ps[k - 1] < i) => i \notin S
<1> SUFFICES ASSUME NEW i \in 1 .. n, i < ps[k], k # 1 => ps[k - 1] < i, i \in S
             PROVE  FALSE
  OBVIOUS
<1>1. m \in Nat /\ ps \in [1 .. m -> 1 .. n]
  BY DEF Places
<1>2. PICK j \in 1 .. m : ps[j] = i
  BY DEF Places
<1>3. CASE k < j
  <2>1. ps[k] < ps[j]
    BY <1>3 DEF Places
  <2>2. ps[k] \in Nat /\ ps[j] \in Nat
    BY <1>1
  <2> QED BY <1>2, <2>1, <2>2
<1>4. CASE k = j
  BY <1>2, <1>4
<1>5. CASE j < k
  <2>1. k # 1 /\ k - 1 \in 1 .. m /\ (j = k - 1 \/ j < k - 1)
    BY <1>1, <1>5
  <2>2. ps[j] <= ps[k - 1]
    <3>1. CASE j = k - 1
      <4>1. ps[j] \in Nat
        BY <1>1
      <4> QED BY <3>1, <4>1
    <3>2. CASE j < k - 1
      <4>1. ps[j] < ps[k - 1]
        BY <2>1, <3>2 DEF Places
      <4>2. ps[k - 1] \in Nat /\ ps[j] \in Nat
        BY <1>1, <2>1
      <4> QED BY <4>1, <4>2
    <3> QED BY <2>1, <3>1, <3>2
  <2>3. ps[k - 1] \in Nat /\ ps[j] \in Nat
    BY <1>1, <2>1
  <2> QED BY <1>2, <2>1, <2>2, <2>3
<1> QED BY <1>1, <1>3, <1>4, <1>5

-----------------------------------------------------------------------------
(* The spans of a path                                                     *)

IsSpan(s) ==
  s = [text_start |-> s.text_start, main_start |-> s.main_start, text_end |-> s.text_end,
       group |-> s.group, segment_type |-> s.segment_type, prefixes |-> s.prefixes]

(* Spans that follow on each other from the beginning of the word to its end. *)
Chain(S) ==
  /\ Len(S) \in Nat \ {0} /\ Len(S) <= WordEnd /\ S = [k \in 1 .. Len(S) |-> S[k]]
  /\ \A k \in 1 .. Len(S) :
       /\ IsSpan(S[k]) /\ S[k].text_start \in Nat /\ S[k].text_end \in Nat
       /\ S[k].text_start < S[k].text_end /\ S[k].text_end <= WordEnd
       /\ S[k].text_start = IF k = 1 THEN 0 ELSE S[k - 1].text_end
       /\ k <= S[k].text_end
  /\ S[Len(S)].text_end = WordEnd

LEMMA EndsRise ==
  ASSUME NEW c \in Seq(Chunk), \A i \in 1 .. Len(c) : ChunkStart(c, i) < c[i].end
  PROVE  \A i, j \in 1 .. Len(c) : i < j => c[i].end < c[j].end
<1>1. PICK n \in Nat : n = Len(c)
  OBVIOUS
<1>2. \A i \in 1 .. n : c[i].end \in Nat
  <2>1. \A i \in 1 .. n : c[i] \in Chunk
    BY <1>1
  <2> QED BY <2>1 DEF Chunk
<1> SUFFICES ASSUME NEW i \in 1 .. n PROVE \A j \in 1 .. n : i < j => c[i].end < c[j].end
  BY <1>1
<1> DEFINE bad == { j \in 1 .. n : i < j /\ ~(c[i].end < c[j].end) }
<1> SUFFICES ASSUME bad # {} PROVE FALSE
  OBVIOUS
<1>3. PICK j \in bad : \A k \in bad : j <= k
  <2>1. bad \in SUBSET Nat
    OBVIOUS
  <2> HIDE DEF bad
  <2> QED BY <2>1, LeastOf
<1>4. j \in 1 .. n /\ i < j /\ ~(c[i].end < c[j].end) /\ j - 1 \in 1 .. n /\ j # 1 /\ ~(j <= j - 1)
  BY <1>3
<1>5. c[j - 1].end < c[j].end
  BY <1>1, <1>4 DEF ChunkStart
<1>6. j - 1 \notin bad
  <2> HIDE DEF bad
  <2> QED BY <1>3, <1>4
<1>7. i = j - 1 \/ i < j - 1
  BY <1>4
<1>8. i < j - 1 => c[i].end < c[j - 1].end
  BY <1>4, <1>6
<1> QED BY <1>2, <1>4, <1>5, <1>7, <1>8

LEMMA FirstIs ==
  ASSUME NEW c, NEW ps, NEW m, NEW n \in Nat, n = Len(c),
         Places(ps, m, n, { i \in DOMAIN c : IsMain(c, i) }), DOMAIN c = 1 .. n,
         NEW k \in 1 .. m
  PROVE  FirstOf(c, ps[k]) = IF k = 1 THEN 1 ELSE ps[k - 1] + 1
<1> DEFINE S == { i \in DOMAIN c : IsMain(c, i) }
           first == IF k = 1 THEN 1 ELSE ps[k - 1] + 1
           Good(f) == (f = 1 \/ IsMain(c, f - 1)) /\ \A j \in f .. ps[k] - 1 : ~IsMain(c, j)
<1>1. m \in Nat /\ ps \in [1 .. m -> 1 .. n] /\ \A i \in 1 .. m : ps[i] \in S
  BY DEF Places
<1>2. k # 1 => k - 1 \in 1 .. m /\ ps[k - 1] < ps[k] /\ ps[k - 1] \in 1 .. n
  <2> SUFFICES ASSUME k # 1 PROVE k - 1 \in 1 .. m /\ ps[k - 1] < ps[k] /\ ps[k - 1] \in 1 .. n
    OBVIOUS
  <2>1. k - 1 \in 1 .. m /\ k - 1 < k
    BY <1>1
  <2> QED BY <1>1, <2>1 DEF Places
<1>3. ps[k] \in 1 .. n /\ first \in 1 .. ps[k]
  BY <1>1, <1>2
<1>4. \A j \in first .. ps[k] - 1 : ~IsMain(c, j)
  <2> SUFFICES ASSUME NEW j \in first .. ps[k] - 1 PROVE ~IsMain(c, j)
    OBVIOUS
  <2>1. j \in 1 .. n /\ j < ps[k] /\ (k # 1 => ps[k - 1] < j)
    BY <1>2, <1>3
  <2>2. j \notin S
    BY <2>1, PlacesAdjacent
  <2> QED BY <2>1, <2>2
<1>5. k # 1 => IsMain(c, first - 1)
  BY <1>1, <1>2
<1>6. Good(first)
  BY <1>4, <1>5
<1>7. ASSUME NEW f \in 1 .. ps[k], Good(f) PROVE f = first
  <2>1. CASE f < first
    <3>1. k # 1 /\ ps[k - 1] \in f .. ps[k] - 1
      BY <1>2, <1>3, <2>1
    <3>2. IsMain(c, ps[k - 1])
      BY <1>1, <1>2, <3>1
    <3> QED BY <1>7, <3>1, <3>2
  <2>2. CASE first < f
    <3>1. f # 1 /\ f - 1 \in first .. ps[k] - 1
      BY <1>3, <2>2
    <3> QED BY <1>4, <1>7, <3>1
  <2> QED BY <1>3, <2>1, <2>2
<1>8. FirstOf(c, ps[k]) = CHOOSE f \in 1 .. ps[k] : Good(f)
  BY DEF FirstOf
<1> HIDE DEF Good, first
<1>9. (CHOOSE f \in 1 .. ps[k] : Good(f)) = first
  BY <1>3, <1>6, <1>7
<1> QED BY <1>8, <1>9 DEF first

LEMMA SpansAre ==
  ASSUME NEW p \in DOMAIN Paths
  PROVE  Chain(PathSpans[p])
<1>1. PICK c : c = Paths[p]
  OBVIOUS
<1>2. c \in Seq(Chunk) /\ c # <<>> /\ c[Len(c)].end = WordEnd
      /\ \A i \in DOMAIN c : ChunkStart(c, i) < c[i].end
  BY <1>1, InflexionGraphAssumption
<1>3. PICK n \in Nat : n = Len(c)
  BY <1>2
<1>4. n # 0 /\ DOMAIN c = 1 .. n /\ \A i \in 1 .. n : c[i] \in Chunk
  BY <1>2, <1>3
<1>5. PICK mains : mains = { i \in DOMAIN c : IsMain(c, i) }
  OBVIOUS
<1>6. PICK m, ps : /\ Places(ps, m, n, mains)
                   /\ Ascending(mains, n) \in Seq(1 .. n) /\ Len(Ascending(mains, n)) = m
                   /\ \A k \in 1 .. m : Ascending(mains, n)[k] = ps[k]
  BY AscendingIs
<1>7. PICK s : s = PathSpans[p]
  OBVIOUS
<1>8. m \in Nat /\ s = [k \in 1 .. m |-> Span(c, ps[k])]
  <2>1. s = [k \in DOMAIN Ascending(mains, n) |-> Span(c, Ascending(mains, n)[k])]
    BY <1>1, <1>3, <1>5, <1>7 DEF PathSpans, SpansOf
  <2>2. DOMAIN Ascending(mains, n) = 1 .. m /\ m \in Nat
    BY <1>6 DEF Places
  <2> QED BY <1>6, <2>1, <2>2
<1>9. /\ ps \in [1 .. m -> 1 .. n]
      /\ \A i, j \in 1 .. m : i < j => ps[i] < ps[j]
      /\ \A i \in 1 .. n : i \in mains => \E k \in 1 .. m : ps[k] = i
  BY <1>6 DEF Places
<1>10. n \in mains
  BY <1>3, <1>4, <1>5 DEF IsMain
<1>11. m # 0 /\ m \in 1 .. m /\ ps[m] = n
  <2>1. PICK k \in 1 .. m : ps[k] = n
    BY <1>4, <1>9, <1>10
  <2>2. m \in 1 .. m /\ (k = m \/ k < m)
    BY <1>8
  <2>3. k < m => ps[k] < ps[m]
    BY <1>9, <2>2
  <2>4. ps[m] \in 1 .. n
    BY <1>9, <2>2
  <2> QED BY <2>1, <2>2, <2>3, <2>4
<1>12. \A k \in 1 .. m : FirstOf(c, ps[k]) = IF k = 1 THEN 1 ELSE ps[k - 1] + 1
  BY <1>3, <1>4, <1>5, <1>6, FirstIs
<1>13. \A i, j \in 1 .. n : i < j => c[i].end < c[j].end
  BY <1>2, <1>3, <1>4, EndsRise
<1>14. \A i \in 1 .. n : c[i].end \in 1 .. WordEnd /\ c[i].end \in Nat /\ c[i].end > 0
  BY <1>4 DEF Chunk
<1>15. ASSUME NEW k \in 1 .. m
       PROVE  /\ IsSpan(s[k]) /\ s[k].text_end = c[ps[k]].end
              /\ s[k].text_start = IF k = 1 THEN 0 ELSE c[ps[k - 1]].end
  <2>1. s[k] = Span(c, ps[k])
    BY <1>8
  <2>2. IsSpan(s[k]) /\ s[k].text_end = c[ps[k]].end
    BY <2>1 DEF Span, IsSpan
  <2>3. s[k].text_start = ChunkStart(c, FirstOf(c, ps[k]))
    BY <2>1 DEF Span
  <2>4. CASE k = 1
    BY <1>12, <2>2, <2>3, <2>4 DEF ChunkStart
  <2>5. CASE k # 1
    <3>1. k - 1 \in 1 .. m
      BY <1>8, <2>5
    <3>2. ps[k - 1] \in 1 .. n
      BY <1>9, <3>1
    <3>3. ps[k - 1] + 1 # 1 /\ (ps[k - 1] + 1) - 1 = ps[k - 1]
      BY <3>2
    <3> QED BY <1>12, <2>2, <2>3, <2>5, <3>3 DEF ChunkStart
  <2> QED BY <2>4, <2>5, <2>2
<1>16. ASSUME NEW k \in 1 .. m
       PROVE  /\ s[k].text_start \in Nat /\ s[k].text_end \in Nat
              /\ s[k].text_start < s[k].text_end /\ s[k].text_end <= WordEnd
              /\ s[k].text_start = IF k = 1 THEN 0 ELSE s[k - 1].text_end
  <2>1. ps[k] \in 1 .. n
    BY <1>9
  <2>2. CASE k = 1
    BY <1>14, <1>15, <2>1, <2>2
  <2>3. CASE k # 1
    <3>1. k - 1 \in 1 .. m /\ k - 1 < k
      BY <1>8, <2>3
    <3>2. ps[k - 1] \in 1 .. n /\ ps[k - 1] < ps[k]
      BY <1>9, <3>1
    <3> QED BY <1>13, <1>14, <1>15, <2>1, <2>3, <3>1, <3>2
  <2> QED BY <2>2, <2>3
<1>17. \A k \in 1 .. m : k <= s[k].text_end
  <2> DEFINE bad == { k \in 1 .. m : ~(k <= s[k].text_end) }
  <2> SUFFICES ASSUME bad # {} PROVE FALSE
    OBVIOUS
  <2>1. PICK k \in bad : \A j \in bad : k <= j
    <3>1. bad \in SUBSET Nat
      OBVIOUS
    <3> HIDE DEF bad
    <3> QED BY <3>1, LeastOf
  <2>2. k \in 1 .. m /\ ~(k <= s[k].text_end)
    BY <2>1
  <2>3. CASE k = 1
    BY <1>16, <2>2, <2>3
  <2>4. CASE k # 1
    <3>1. k - 1 \in 1 .. m /\ ~(k <= k - 1)
      BY <1>8, <2>2, <2>4
    <3>2. k - 1 \notin bad
      <4> HIDE DEF bad
      <4> QED BY <2>1, <3>1
    <3>3. k - 1 <= s[k - 1].text_end
      BY <3>1, <3>2
    <3> QED BY <1>16, <2>2, <2>4, <3>1, <3>3
  <2> QED BY <2>3, <2>4
<1>18. Len(s) = m /\ s = [k \in 1 .. m |-> s[k]]
  BY <1>8
<1>19. s[m].text_end = WordEnd
  BY <1>2, <1>3, <1>11, <1>15
<1>20. m <= WordEnd
  BY <1>11, <1>17, <1>19
<1> QED BY <1>7, <1>8, <1>11, <1>15, <1>16, <1>17, <1>18, <1>19, <1>20 DEF Chain

(* A span begins no earlier than those before it end.                      *)
LEMMA ChainRises ==
  ASSUME NEW s, Chain(s)
  PROVE  \A i, j \in 1 .. Len(s) : i < j => s[i].text_end <= s[j].text_start
<1>1. PICK n \in Nat : n = Len(s)
  BY DEF Chain
<1>2. \A k \in 1 .. n :
        /\ s[k].text_start \in Nat /\ s[k].text_end \in Nat /\ s[k].text_start < s[k].text_end
        /\ s[k].text_start = IF k = 1 THEN 0 ELSE s[k - 1].text_end
  BY <1>1 DEF Chain
<1> SUFFICES ASSUME NEW i \in 1 .. n PROVE \A j \in 1 .. n : i < j => s[i].text_end <= s[j].text_start
  BY <1>1
<1> DEFINE bad == { j \in 1 .. n : i < j /\ ~(s[i].text_end <= s[j].text_start) }
<1> SUFFICES ASSUME bad # {} PROVE FALSE
  OBVIOUS
<1>3. PICK j \in bad : \A k \in bad : j <= k
  <2>1. bad \in SUBSET Nat
    OBVIOUS
  <2> HIDE DEF bad
  <2> QED BY <2>1, LeastOf
<1>4. j \in 1 .. n /\ i < j /\ ~(s[i].text_end <= s[j].text_start) /\ j - 1 \in 1 .. n /\ j # 1 /\ ~(j <= j - 1)
  BY <1>3
<1>5. j - 1 \notin bad
  <2> HIDE DEF bad
  <2> QED BY <1>3, <1>4
<1>6. i = j - 1 \/ i < j - 1
  BY <1>4
<1>7. i < j - 1 => s[i].text_end <= s[j - 1].text_start
  BY <1>4, <1>5
<1> QED BY <1>2, <1>4, <1>6, <1>7

LEMMA CardinalityOf ==
  ASSUME NEW n \in Nat, NEW f, \A i, j \in 1 .. n : f[i] = f[j] => i = j
  PROVE  IsFiniteSet({ f[i] : i \in 1 .. n }) /\ Cardinality({ f[i] : i \in 1 .. n }) = n
<1>1. PICK X : X = { f[i] : i \in 1 .. n }
  OBVIOUS
<1>2. PICK g : g = [i \in 1 .. n |-> f[i]]
  OBVIOUS
<1>3. g \in Bijection(1 .. n, X)
  BY <1>1, <1>2 DEF Bijection, Injection, Surjection, IsInjective
<1>4. ExistsBijection(1 .. n, X)
  BY <1>3 DEF ExistsBijection
<1>5. IsFiniteSet(1 .. n) /\ Cardinality(1 .. n) = n
  BY FS_Interval
<1> QED BY <1>1, <1>4, <1>5, FS_Bijection

-----------------------------------------------------------------------------
(* Node numbers count the places before a node at which edges start.       *)
Starts == { s.text_start : s \in KeptSpans }

LEMMA NodeAtIs ==
  ASSUME NEW pos
  PROVE  NodeAt(pos) = Cardinality({ x \in Starts : x < pos })
<1>1. { s.text_start : s \in { t \in KeptSpans : t.text_start < pos } } = { x \in Starts : x < pos }
  BY DEF Starts
<1> QED BY <1>1 DEF NodeAt

LEMMA NodesOfChain ==
  ASSUME NEW s, Chain(s), KeptSpans = ToSet(s), NEW k \in 1 .. Len(s)
  PROVE  NodeAt(s[k].text_start) = k - 1 /\ NodeAt(s[k].text_end) = k
<1>1. PICK n \in Nat : n = Len(s)
  BY DEF Chain
<1>2. /\ \A i \in 1 .. n : s[i].text_start \in Nat /\ s[i].text_end \in Nat /\ s[i].text_start < s[i].text_end
      /\ DOMAIN s = 1 .. n
  BY <1>1 DEF Chain
<1>3. \A i, j \in 1 .. n : i < j => s[i].text_end <= s[j].text_start
  BY <1>1, ChainRises
<1>4. PICK f : f = [i \in 1 .. n |-> s[i].text_start]
  OBVIOUS
<1>5. Starts = { f[i] : i \in 1 .. n }
  BY <1>2, <1>4 DEF Starts, ToSet
<1>6. ASSUME NEW m \in 0 .. n, NEW pos \in Nat,
             \A i \in 1 .. n : s[i].text_start < pos <=> i <= m
      PROVE  NodeAt(pos) = m
  <2>1. { x \in Starts : x < pos } = { f[i] : i \in 1 .. m }
    <3>1. \A i \in 1 .. m : i \in 1 .. n /\ i <= m
      BY <1>1
    <3>2. \A i \in 1 .. n : i <= m => i \in 1 .. m
      BY <1>1
    <3> QED BY <1>4, <1>5, <1>6, <3>1, <3>2
  <2>2. \A i, j \in 1 .. m : f[i] = f[j] => i = j
    <3> SUFFICES ASSUME NEW i \in 1 .. m, NEW j \in 1 .. m, f[i] = f[j] PROVE i = j
      OBVIOUS
    <3>1. i \in 1 .. n /\ j \in 1 .. n /\ (i < j \/ j < i \/ i = j)
      BY <1>1
    <3>2. s[i].text_start = s[j].text_start
      BY <1>4, <3>1
    <3> QED BY <1>2, <1>3, <3>1, <3>2
  <2>3. m \in Nat
    BY <1>1
  <2>4. Cardinality({ f[i] : i \in 1 .. m }) = m
    BY <2>2, <2>3, CardinalityOf
  <2> QED BY <2>1, <2>4, NodeAtIs
<1>7. k \in 1 .. n /\ k \in 0 .. n /\ k - 1 \in 0 .. n
  BY <1>1
<1>8. \A i \in 1 .. n : i < k \/ i = k \/ k < i
  BY <1>7
<1>9. \A i \in 1 .. n : s[i].text_start < s[k].text_start <=> i <= k - 1
  BY <1>2, <1>3, <1>7, <1>8
<1>10. \A i \in 1 .. n : s[i].text_start < s[k].text_end <=> i <= k
  BY <1>2, <1>3, <1>7, <1>8
<1> QED BY <1>2, <1>6, <1>7, <1>9, <1>10

-----------------------------------------------------------------------------
(* The paths found                                                         *)

PathsInv ==
  /\ paths \in Seq(1 .. Len(Paths)) /\ Len(paths) <= MaxPaths
  /\ \A i, j \in 1 .. Len(paths) : i < j => paths[i] < paths[j]

LEMMA PathsTyped == Len(Paths) \in Nat /\ DOMAIN Paths = 1 .. Len(Paths)
BY InflexionGraphAssumption

LEMMA PathsDiffer ==
  ASSUME PathsInv
  PROVE  /\ \A i \in DOMAIN paths : paths[i] \in DOMAIN Paths
         /\ \A i, j \in DOMAIN paths : paths[i] = paths[j] => i = j
<1>1. PICK n \in Nat : n = Len(paths)
  BY DEF PathsInv
<1>2. DOMAIN paths = 1 .. n /\ \A i \in 1 .. n : paths[i] \in 1 .. Len(Paths) /\ paths[i] \in Nat
  BY <1>1, PathsTyped DEF PathsInv
<1>3. \A i, j \in 1 .. n : i < j => paths[i] < paths[j]
  BY <1>1 DEF PathsInv
<1>4. \A i, j \in 1 .. n : i < j \/ j < i \/ i = j
  OBVIOUS
<1> QED BY <1>2, <1>3, <1>4, PathsTyped

(* Spans that do not differ but in their prefixes.                         *)
SameSpan(s, t) ==
  /\ s.text_start = t.text_start /\ s.main_start = t.main_start /\ s.text_end = t.text_end
  /\ s.segment_type = t.segment_type /\ s.group = t.group

LEMMA SameEdgeIs ==
  ASSUME NEW d, NEW e
  PROVE  SameEdge(d, e) <=> d.next_node = e.next_node /\ SameSpan(d.span, e.span)
BY DEF SameEdge, SameSpan

LEMMA UnprefixedIs ==
  ASSUME NEW s, NEW t, IsSpan(s), IsSpan(t)
  PROVE  Unprefixed(s) = Unprefixed(t) <=> SameSpan(s, t)
BY DEF IsSpan, Unprefixed, SameSpan

-----------------------------------------------------------------------------
(* Answers                                                                 *)

AnswerIs(R, count) ==
  /\ { [e EXCEPT !.span = Unprefixed(e.span)] : e \in ToSet(R) }
       = { [ from |-> NodeAt(s.text_start), to |-> NodeAt(s.text_end),
             span |-> Unprefixed(s) ] : s \in KeptSpans }
  /\ { e.span : e \in ToSet(R) } \subseteq KeptSpans
  /\ \A i, j \in DOMAIN R : R[i] = R[j] => i = j
  /\ count = NodeAt(WordEnd)

IsEdgeOf(e, s) == e = [from |-> NodeAt(s.text_start), to |-> NodeAt(s.text_end), span |-> s]

LEMMA KeptSpansAre ==
  ASSUME PathsInv, NEW s \in KeptSpans
  PROVE  /\ IsSpan(s) /\ s.text_start \in Nat /\ s.text_end \in Nat
         /\ s.text_start < s.text_end /\ s.text_end <= WordEnd
<1>1. PICK p \in Kept : s \in ToSet(PathSpans[p])
  BY DEF KeptSpans
<1>2. p \in ToSet(paths)
  BY <1>1 DEF Kept
<1>3. p \in DOMAIN Paths
  BY <1>2, PathsDiffer DEF ToSet
<1>4. Chain(PathSpans[p])
  BY <1>3, SpansAre
<1>5. PICK c : c = PathSpans[p]
  OBVIOUS
<1>6. PICK k \in 1 .. Len(c) : s = c[k]
  <2>1. DOMAIN c = 1 .. Len(c)
    BY <1>4, <1>5 DEF Chain
  <2> QED BY <1>1, <1>5, <2>1 DEF ToSet
<1> QED BY <1>4, <1>5, <1>6 DEF Chain

LEMMA AnswerFrom ==
  ASSUME PathsInv, NEW R, NEW count, count = NodeAt(WordEnd),
         \A i, j \in DOMAIN R : R[i] = R[j] => i = j,
         \A i \in DOMAIN R : R[i].span \in KeptSpans /\ IsEdgeOf(R[i], R[i].span),
         \A s \in KeptSpans : \E i \in DOMAIN R : SameSpan(R[i].span, s)
  PROVE  AnswerIs(R, count)
<1> DEFINE Plain(e) == [e EXCEPT !.span = Unprefixed(e.span)]
           Expected(s) == [ from |-> NodeAt(s.text_start), to |-> NodeAt(s.text_end),
                            span |-> Unprefixed(s) ]
<1>1. \A i \in DOMAIN R : Plain(R[i]) = Expected(R[i].span)
  BY DEF IsEdgeOf
<1>2. ASSUME NEW s \in KeptSpans, NEW t \in KeptSpans, SameSpan(s, t)
      PROVE  Expected(s) = Expected(t)
  <2>1. IsSpan(s) /\ IsSpan(t)
    BY KeptSpansAre
  <2>2. Unprefixed(s) = Unprefixed(t)
    BY <1>2, <2>1, UnprefixedIs
  <2>3. s.text_start = t.text_start /\ s.text_end = t.text_end
    BY <1>2 DEF SameSpan
  <2> QED BY <2>2, <2>3
<1>3. ASSUME NEW i \in DOMAIN R PROVE \E s \in KeptSpans : Plain(R[i]) = Expected(s)
  BY <1>1
<1>4. ASSUME NEW s \in KeptSpans PROVE \E i \in DOMAIN R : Plain(R[i]) = Expected(s)
  <2>1. PICK i \in DOMAIN R : SameSpan(R[i].span, s)
    OBVIOUS
  <2>2. Expected(R[i].span) = Expected(s)
    BY <1>2, <2>1
  <2> QED BY <1>1, <2>2
<1> HIDE DEF Plain, Expected
<1>5. { Plain(e) : e \in ToSet(R) } = { Expected(s) : s \in KeptSpans }
  BY <1>3, <1>4 DEF ToSet
<1>6. { e.span : e \in ToSet(R) } \subseteq KeptSpans
  BY DEF ToSet
<1> QED BY <1>5, <1>6 DEF AnswerIs, Plain, Expected

LEMMA AnswerKept ==
  ASSUME NEW R, NEW count, AnswerIs(R, count), UNCHANGED <<paths, input>>,
         result' = R, node_count' = count
  PROVE  AnswerIsMinimalGraph'
<1>1. KeptSpans' = KeptSpans
  BY DEF KeptSpans, Kept, EffectivelyWeak, CaseMatches, input
<1>2. \A pos : NodeAt(pos)' = NodeAt(pos)
  BY <1>1 DEF NodeAt
<1> QED BY <1>1, <1>2 DEF AnswerIs, AnswerIsMinimalGraph

LEMMA SinglePathAnswers == PathsInv /\ SinglePath => AnswerIsMinimalGraph'
<1> SUFFICES ASSUME PathsInv, SinglePath PROVE AnswerIsMinimalGraph'
  OBVIOUS
<1>1. Len(paths) = 1 /\ UNCHANGED <<paths, input>>
  BY DEF SinglePath
<1>2. PICK p : p = paths[1]
  OBVIOUS
<1>3. DOMAIN paths = 1 .. 1
  BY <1>1 DEF PathsInv
<1>4. p \in DOMAIN Paths /\ ToSet(paths) = {p}
  <2>1. \A i \in 1 .. 1 : i = 1
    OBVIOUS
  <2> QED BY <1>2, <1>3, <2>1, PathsDiffer DEF ToSet
<1>5. PICK s : s = PathSpans[p]
  OBVIOUS
<1>6. Chain(s)
  BY <1>4, <1>5, SpansAre
<1>7. PICK n \in Nat \ {0} : n = Len(s) /\ DOMAIN s = 1 .. n
  BY <1>6 DEF Chain
<1>8. Kept = {p}
  BY <1>4 DEF Kept
<1>9. KeptSpans = ToSet(s)
  BY <1>5, <1>8 DEF KeptSpans
<1>10. \A k \in 1 .. n : NodeAt(s[k].text_start) = k - 1 /\ NodeAt(s[k].text_end) = k
  BY <1>6, <1>7, <1>9, NodesOfChain
<1>11. PICK R : R = [k \in 1 .. n |-> [from |-> k - 1, to |-> k, span |-> s[k]]]
  OBVIOUS
<1>12. result' = R /\ node_count' = n
  BY <1>2, <1>5, <1>7, <1>11 DEF SinglePath, Return
<1>13. n = NodeAt(WordEnd)
  <2>1. s[n].text_end = WordEnd
    BY <1>6, <1>7 DEF Chain
  <2>2. n \in 1 .. n
    OBVIOUS
  <2> QED BY <1>10, <2>1, <2>2
<1>14. ASSUME NEW i \in DOMAIN R PROVE R[i].span \in KeptSpans /\ IsEdgeOf(R[i], R[i].span)
  <2>1. i \in 1 .. n /\ R[i] = [from |-> i - 1, to |-> i, span |-> s[i]]
    BY <1>11
  <2>2. s[i] \in KeptSpans
    BY <1>7, <1>9, <2>1 DEF ToSet
  <2> QED BY <1>10, <2>1, <2>2 DEF IsEdgeOf
<1>15. ASSUME NEW i \in DOMAIN R, NEW j \in DOMAIN R, R[i] = R[j] PROVE i = j
  BY <1>11, <1>15
<1>16. ASSUME NEW t \in KeptSpans PROVE \E i \in DOMAIN R : SameSpan(R[i].span, t)
  <2>1. PICK k \in 1 .. n : t = s[k]
    BY <1>7, <1>9 DEF ToSet
  <2>2. R[k].span = t /\ k \in DOMAIN R
    BY <1>11, <2>1
  <2> QED BY <2>2 DEF SameSpan
<1>17. AnswerIs(R, n)
  BY <1>13, <1>14, <1>15, <1>16, AnswerFrom
<1> QED BY <1>1, <1>12, <1>17, AnswerKept

LEMMA PlacesDiffer ==
  ASSUME NEW ps, NEW m, NEW n, NEW S, Places(ps, m, n, S), n \in Nat
  PROVE  \A i, j \in 1 .. m : ps[i] = ps[j] => i = j
<1>1. m \in Nat /\ \A i \in 1 .. m : ps[i] \in Nat
  BY DEF Places
<1>2. \A i, j \in 1 .. m : i < j => ps[i] < ps[j]
  BY DEF Places
<1>3. \A i, j \in 1 .. m : i < j \/ j < i \/ i = j
  BY <1>1
<1> QED BY <1>1, <1>2, <1>3

(* A path of one edge spans the word.                                      *)
LEMMA SingleIs ==
  ASSUME NEW p \in DOMAIN Paths, SingleEdge(p)
  PROVE  /\ PathSpans[p] = [k \in 1 .. 1 |-> PathSpans[p][1]]
         /\ PathSpans[p][1].text_start = 0 /\ PathSpans[p][1].text_end = WordEnd
         /\ ToSet(PathSpans[p]) = {PathSpans[p][1]}
         /\ \A q \in DOMAIN Paths : SingleEdge(q) /\ PathSpans[p][1] = PathSpans[q][1] => p = q
<1>1. PICK s : s = PathSpans[p]
  OBVIOUS
<1>2. Chain(s) /\ Len(s) = 1
  BY <1>1, SpansAre DEF SingleEdge
<1>3. s = [k \in 1 .. 1 |-> s[k]] /\ s[1].text_start = 0 /\ s[1].text_end = WordEnd
  BY <1>2 DEF Chain
<1>4. \A k \in 1 .. 1 : k = 1
  OBVIOUS
<1>5. s = [k \in 1 .. 1 |-> s[1]]
  BY <1>3, <1>4
<1>6. ToSet(s) = {s[1]}
  BY <1>3, <1>4 DEF ToSet
<1>7. ASSUME NEW q \in DOMAIN Paths, SingleEdge(q), s[1] = PathSpans[q][1] PROVE p = q
  <2>1. PICK t : t = PathSpans[q]
    OBVIOUS
  <2>2. Chain(t) /\ Len(t) = 1
    BY <1>7, <2>1, SpansAre DEF SingleEdge
  <2>3. t = [k \in 1 .. 1 |-> t[k]]
    BY <2>2 DEF Chain
  <2>4. t = [k \in 1 .. 1 |-> t[1]]
    BY <2>3, <1>4
  <2>5. PathSpans[p] = PathSpans[q]
    BY <1>1, <1>5, <1>7, <2>1, <2>4
  <2>6. Len(PathSpans[p]) = 1
    BY DEF SingleEdge
  <2> QED BY <1>7, <2>5, <2>6, InflexionGraphAssumption
<1> QED BY <1>1, <1>3, <1>5, <1>6, <1>7

LEMMA SingleEdgesAnswer == PathsInv /\ SingleEdgePaths => AnswerIsMinimalGraph'
<1> SUFFICES ASSUME PathsInv, SingleEdgePaths PROVE AnswerIsMinimalGraph'
  OBVIOUS
<1>1. Len(paths) > 1 /\ AllSingleEdges /\ UNCHANGED <<paths, input>>
  BY DEF SingleEdgePaths
<1>2. PICK n \in Nat : n = Len(paths) /\ DOMAIN paths = 1 .. n /\ 1 \in 1 .. n
  BY <1>1 DEF PathsInv
<1>3. PICK C : C = { i \in DOMAIN paths :
                       (\E j \in DOMAIN paths : ~EffectivelyWeak(paths[j])) => ~EffectivelyWeak(paths[i]) }
  OBVIOUS
<1>4. PICK c : c = Picked(paths, C)
  OBVIOUS
<1>5. paths \in Seq(1 .. Len(Paths))
  BY DEF PathsInv
<1>6. c \in Seq(1 .. Len(Paths)) /\ \E m, ps : PickedAt(c, paths, C, m, ps)
  BY <1>4, <1>5, PickedIs
<1>7. PICK m, ps : PickedAt(c, paths, C, m, ps)
  BY <1>6
<1>8. /\ Places(ps, m, n, C) /\ m \in Nat /\ Len(c) = m /\ DOMAIN c = 1 .. m
      /\ \A k \in 1 .. m : c[k] = paths[ps[k]] /\ ps[k] \in 1 .. n /\ ps[k] \in C
  <2>1. Places(ps, m, n, C) /\ Len(c) = m /\ \A k \in 1 .. m : c[k] = paths[ps[k]]
    BY <1>2, <1>7 DEF PickedAt
  <2>2. m \in Nat /\ \A k \in 1 .. m : ps[k] \in 1 .. n /\ ps[k] \in C
    BY <2>1 DEF Places
  <2>3. DOMAIN c = 1 .. Len(c)
    BY <1>6
  <2> QED BY <2>1, <2>2, <2>3
<1>9. \A i \in C : \E k \in 1 .. m : c[k] = paths[i]
  <2>1. \A i \in C : i \in 1 .. n
    BY <1>2, <1>3
  <2>2. \A i \in 1 .. n : i \in C => \E k \in 1 .. m : ps[k] = i
    BY <1>8 DEF Places
  <2> QED BY <1>8, <2>1, <2>2
<1>10. \A p : p \in Kept <=> \E i \in C : p = paths[i]
  BY <1>3 DEF Kept, ToSet
<1>11. \A i \in 1 .. n : paths[i] \in DOMAIN Paths /\ SingleEdge(paths[i])
  BY <1>1, <1>2, PathsDiffer DEF AllSingleEdges
<1>12. \A p \in Kept : p \in DOMAIN Paths /\ SingleEdge(p)
  BY <1>2, <1>3, <1>10, <1>11
<1>13. \A s : s \in KeptSpans <=> \E p \in Kept : s = PathSpans[p][1]
  <2>1. \A p \in Kept : ToSet(PathSpans[p]) = {PathSpans[p][1]}
    BY <1>12, SingleIs
  <2> QED BY <2>1 DEF KeptSpans
<1>14. C # {}
  BY <1>2, <1>3
<1>15. Starts = {0}
  <2>1. \A p \in Kept : PathSpans[p][1].text_start = 0
    BY <1>12, SingleIs
  <2>2. \A s \in KeptSpans : s.text_start = 0
    BY <1>13, <2>1
  <2>3. KeptSpans # {}
    BY <1>10, <1>13, <1>14
  <2> QED BY <2>2, <2>3 DEF Starts
<1>16. NodeAt(0) = 0
  <2>1. { x \in Starts : x < 0 } = {}
    BY <1>15
  <2> QED BY <2>1, NodeAtIs, FS_EmptySet
<1>17. NodeAt(WordEnd) = 1
  <2>1. { x \in Starts : x < WordEnd } = {0}
    BY <1>15, InflexionGraphAssumption
  <2> QED BY <2>1, NodeAtIs, FS_Singleton
<1>18. PICK R : R = [k \in 1 .. m |-> [from |-> 0, to |-> 1, span |-> PathSpans[c[k]][1]]]
  OBVIOUS
<1>19. result' = R /\ node_count' = 1
  BY <1>3, <1>4, <1>8, <1>18 DEF SingleEdgePaths, Return
<1>20. \A k \in 1 .. m : c[k] \in Kept
  BY <1>8, <1>10
<1>21. ASSUME NEW k \in DOMAIN R PROVE R[k].span \in KeptSpans /\ IsEdgeOf(R[k], R[k].span)
  <2>1. k \in 1 .. m /\ R[k] = [from |-> 0, to |-> 1, span |-> PathSpans[c[k]][1]]
    BY <1>18
  <2>2. PathSpans[c[k]][1] \in KeptSpans
    BY <1>13, <1>20, <2>1
  <2>3. PathSpans[c[k]][1].text_start = 0 /\ PathSpans[c[k]][1].text_end = WordEnd
    BY <1>12, <1>20, <2>1, SingleIs
  <2> QED BY <1>16, <1>17, <2>1, <2>2, <2>3 DEF IsEdgeOf
<1>22. ASSUME NEW i \in DOMAIN R, NEW j \in DOMAIN R, R[i] = R[j] PROVE i = j
  <2>1. i \in 1 .. m /\ j \in 1 .. m /\ PathSpans[c[i]][1] = PathSpans[c[j]][1]
    BY <1>18, <1>22
  <2>2. c[i] = c[j]
    BY <1>12, <1>20, <2>1, SingleIs
  <2>3. ps[i] = ps[j]
    BY <1>2, <1>8, <2>1, <2>2, PathsDiffer
  <2> QED BY <1>8, <2>1, <2>3, PlacesDiffer
<1>23. ASSUME NEW t \in KeptSpans PROVE \E i \in DOMAIN R : SameSpan(R[i].span, t)
  <2>1. PICK p \in Kept : t = PathSpans[p][1]
    BY <1>13
  <2>2. PICK k \in 1 .. m : c[k] = p
    BY <1>9, <1>10
  <2>3. k \in DOMAIN R /\ R[k].span = t
    BY <1>18, <2>1, <2>2
  <2> QED BY <2>3 DEF SameSpan
<1>24. AnswerIs(R, 1)
  BY <1>17, <1>21, <1>22, <1>23, AnswerFrom
<1> QED BY <1>1, <1>19, <1>24, AnswerKept

LEMMA RetainedPaths ==
  ASSUME PathsInv, NEW C
  PROVE  /\ Picked(paths, C) \in Seq(1 .. Len(Paths)) /\ Len(Picked(paths, C)) <= MaxPaths
         /\ \A i, j \in 1 .. Len(Picked(paths, C)) : i < j => Picked(paths, C)[i] < Picked(paths, C)[j]
<1>1. PICK n \in Nat : n = Len(paths) /\ n <= MaxPaths
  BY DEF PathsInv
<1>2. paths \in Seq(1 .. Len(Paths)) /\ \A i, j \in 1 .. n : i < j => paths[i] < paths[j]
  BY <1>1 DEF PathsInv
<1>3. PICK c : c = Picked(paths, C)
  OBVIOUS
<1>4. c \in Seq(1 .. Len(Paths)) /\ \E m, ps : PickedAt(c, paths, C, m, ps)
  BY <1>2, <1>3, PickedIs
<1>5. PICK m, ps : PickedAt(c, paths, C, m, ps)
  BY <1>4
<1>6. Places(ps, m, n, C) /\ Len(c) = m /\ \A k \in 1 .. m : c[k] = paths[ps[k]]
  BY <1>1, <1>5 DEF PickedAt
<1>7. /\ m \in Nat /\ \A k \in 1 .. m : ps[k] \in 1 .. n
      /\ \A i, j \in 1 .. m : i < j => ps[i] < ps[j]
  BY <1>6 DEF Places
<1>8. \A i, j \in 1 .. m : i < j => c[i] < c[j]
  BY <1>2, <1>6, <1>7
<1>9. m <= n
  <2>1. PICK g : g = [k \in 1 .. m |-> ps[k]]
    OBVIOUS
  <2>2. \A i, j \in 1 .. m : ps[i] = ps[j] => i = j
    BY <1>6, PlacesDiffer
  <2>3. g \in Injection(1 .. m, 1 .. n)
    BY <1>7, <2>1, <2>2 DEF Injection, IsInjective
  <2>4. IsFiniteSet(1 .. n) /\ Cardinality(1 .. n) = n /\ Cardinality(1 .. m) = m
    BY <1>7, FS_Interval
  <2> QED BY <2>3, <2>4, FS_Injection
<1>10. m <= MaxPaths
  BY <1>1, <1>7, <1>9, InflexionGraphAssumption
<1> QED BY <1>3, <1>4, <1>6, <1>8, <1>10

LEMMA InitialPaths == Init => PathsInv
<1> SUFFICES ASSUME Init PROVE PathsInv
  OBVIOUS
<1>1. PICK found \in SUBSET DOMAIN Paths : Cardinality(found) <= MaxPaths /\ paths = Ascending(found, Len(Paths))
  BY DEF Init
<1>2. PICK n \in Nat : n = Len(Paths) /\ DOMAIN Paths = 1 .. n
  BY PathsTyped
<1>3. PICK c : c = paths
  OBVIOUS
<1>4. PICK m, ps : /\ Places(ps, m, n, found)
                   /\ Ascending(found, n) \in Seq(1 .. n) /\ Len(Ascending(found, n)) = m
                   /\ \A k \in 1 .. m : Ascending(found, n)[k] = ps[k]
  BY AscendingIs
<1>5. c \in Seq(1 .. n) /\ Len(c) = m /\ \A k \in 1 .. m : c[k] = ps[k]
  BY <1>1, <1>2, <1>3, <1>4
<1>6. /\ m \in Nat /\ \A k \in 1 .. m : ps[k] \in 1 .. n /\ ps[k] \in found
      /\ \A i, j \in 1 .. m : i < j => ps[i] < ps[j]
  BY <1>4 DEF Places
<1>7. m <= MaxPaths
  <2>1. PICK g : g = [k \in 1 .. m |-> ps[k]]
    OBVIOUS
  <2>2. \A i, j \in 1 .. m : ps[i] = ps[j] => i = j
    BY <1>4, PlacesDiffer
  <2>3. g \in Injection(1 .. m, found)
    BY <1>6, <2>1, <2>2 DEF Injection, IsInjective
  <2>4. IsFiniteSet(1 .. n)
    BY FS_Interval
  <2>5. IsFiniteSet(found)
    BY <1>2, <2>4, FS_Subset
  <2>6. Cardinality(1 .. m) <= Cardinality(found)
    BY <2>3, <2>5, FS_Injection
  <2>7. Cardinality(1 .. m) = m /\ Cardinality(found) \in Nat
    BY <1>6, <2>5, FS_Interval, FS_CardinalityType
  <2> QED BY <1>1, <1>6, <2>6, <2>7, InflexionGraphAssumption
<1> QED BY <1>2, <1>3, <1>5, <1>6, <1>7 DEF PathsInv

LEMMA PathsSame == PathsInv /\ UNCHANGED paths => PathsInv'
BY DEF PathsInv

LEMMA RetainKeepsPaths == PathsInv /\ Retain => PathsInv'
<1> SUFFICES ASSUME PathsInv, Retain PROVE PathsInv'
  OBVIOUS
<1>1. PICK C : C = { i \in DOMAIN paths : CaseMatches(paths[i]) }
  OBVIOUS
<1>2. CASE mode = "strict"
  <2>1. paths' = Picked(paths, C)
    BY <1>1, <1>2 DEF Retain
  <2> QED BY <2>1, RetainedPaths DEF PathsInv
<1>3. CASE mode # "strict"
  BY <1>3, PathsSame DEF Retain
<1> QED BY <1>2, <1>3

-----------------------------------------------------------------------------
(* Graphs                                                                  *)

Edges(X) == { To(s, k) : s \in X, k \in Nat }

(* An edge that leaves node n: it leads where its text ends.               *)
EdgeFits(e, n, start, N, X) ==
  /\ e \in Edges(X) /\ e.span.text_start = start[n]
  /\ \/ e.next_node = GRAPH_END /\ e.span.text_end = WordEnd
     \/ e.next_node \in 1 .. N - 1 /\ start[e.next_node] = e.span.text_end

(* Only edges to the end may differ in their prefixes alone.               *)
EdgesDiffer(es) ==
  \A i, j \in 1 .. Len(es) :
    i # j => es[i] # es[j] /\ (es[i].next_node # GRAPH_END => ~SameEdge(es[i], es[j]))

NodeFits(es, n, start, N, X) ==
  /\ es \in Seq(Edges(X)) /\ es # <<>> /\ start[n] \in Nat /\ (n = 0 <=> start[n] = 0)
  /\ \A i \in 1 .. Len(es) : EdgeFits(es[i], n, start, N, X)
  /\ EdgesDiffer(es)

(* The graph of the spans X.                                               *)
IsGraphOf(G, start, N, X) ==
  /\ N \in Nat /\ N <= GRAPH_END /\ DOMAIN G = 0 .. N - 1
  /\ \A n \in 0 .. N - 1 : NodeFits(G[n], n, start, N, X)
  /\ \A s \in X : \E n \in 0 .. N - 1 : \E i \in 1 .. Len(G[n]) : SameSpan(G[n][i].span, s)

Forward(G, N) ==
  \A n \in 0 .. N - 1 : \A i \in 1 .. Len(G[n]) :
    G[n][i].next_node # GRAPH_END => n < G[n][i].next_node

LEMMA EdgeIs ==
  ASSUME NEW X, NEW e \in Edges(X)
  PROVE  e.span \in X /\ e.next_node \in Nat /\ e = To(e.span, e.next_node)
BY DEF Edges, To

LEMMA IsEdge ==
  ASSUME NEW X, NEW s \in X, NEW k \in Nat
  PROVE  To(s, k) \in Edges(X) /\ To(s, k).span = s /\ To(s, k).next_node = k
BY DEF Edges, To

LEMMA MoreEdges ==
  ASSUME NEW X, NEW Y, X \subseteq Y
  PROVE  Edges(X) \subseteq Edges(Y) /\ Seq(Edges(X)) \subseteq Seq(Edges(Y))
<1>1. Edges(X) \subseteq Edges(Y)
  BY DEF Edges
<1>2. ASSUME NEW es \in Seq(Edges(X)) PROVE es \in Seq(Edges(Y))
  BY <1>1
<1> QED BY <1>1, <1>2

(* The graph G1 of the spans X and of those of the path s.                 *)
Appended(G, start, N, X, s, N1, G1, start1) ==
  /\ IsGraphOf(G, start, N, X) /\ Chain(s)
  /\ N1 = FirstNew(N) + Len(s) - 1 /\ N1 <= GRAPH_END
  /\ G1 = WithPath(G, N, s)
  /\ \A n \in 0 .. N1 - 1 :
       /\ n < N => start1[n] = start[n]
       /\ ~(n < N) /\ n = 0 => start1[n] = s[1].text_start
       /\ ~(n < N) /\ n # 0 => start1[n] = s[n - FirstNew(N) + 2].text_start
  /\ N # 0 /\ Len(s) = 1 =>
       \A i \in 1 .. Len(G[0]) : G[0][i].next_node = GRAPH_END => G[0][i].span # s[1]

(* Its edges from node 0 to the end are edges of G, or the whole path.     *)
EndsAre(G, N, s, G1) ==
  \A i \in 1 .. Len(G1[0]) : G1[0][i].next_node = GRAPH_END =>
    \/ Len(s) = 1 /\ G1[0][i].span = s[1]
    \/ N # 0 /\ \E j \in 1 .. Len(G[0]) : G[0][j] = G1[0][i]

LEMMA WithPathIs ==
  ASSUME NEW G, NEW start, NEW N, NEW X, NEW s, NEW N1, NEW G1, NEW start1,
         Appended(G, start, N, X, s, N1, G1, start1)
  PROVE  /\ IsGraphOf(G1, start1, N1, X \cup ToSet(s))
         /\ Forward(G, N) => Forward(G1, N1)
         /\ EndsAre(G, N, s, G1)
<1> USE DEF Appended, EndsAre
<1>1. PICK L \in Nat \ {0} : L = Len(s)
  BY DEF Chain
<1>2. PICK F \in Nat \ {0} : F = FirstNew(N)
  BY DEF IsGraphOf, FirstNew
<1>3. PICK Y : Y = X \cup ToSet(s)
  OBVIOUS
<1>4. /\ N \in Nat /\ N1 \in Nat \ {0} /\ N1 = F + L - 1 /\ N <= F /\ N <= N1 /\ (N = 0 => F = 1) /\ (N # 0 => F = N)
      /\ GRAPH_END \in Nat
  BY <1>1, <1>2, InflexionGraphAssumption DEF IsGraphOf, FirstNew
<1>5. /\ \A k \in 1 .. L : /\ s[k] \in Y /\ s[k].text_start \in Nat /\ s[k].text_end \in Nat
                           /\ s[k].text_start < s[k].text_end
                           /\ s[k].text_start = IF k = 1 THEN 0 ELSE s[k - 1].text_end
      /\ s[L].text_end = WordEnd
  <2>1. DOMAIN s = 1 .. L
    BY <1>1 DEF Chain
  <2>2. \A k \in 1 .. L : s[k] \in Y
    BY <1>3, <2>1 DEF ToSet
  <2> QED BY <1>1, <2>2 DEF Chain
<1> DEFINE T(k) == IF k = L THEN GRAPH_END ELSE F + k - 1
<1>6. \A k \in 1 .. L : Target(N, s, k) = T(k) /\ T(k) \in Nat
  BY <1>1, <1>2, <1>4 DEF Target
<1>7. \A k \in 1 .. L : k # L => T(k) \in 1 .. N1 - 1 /\ T(k) >= F /\ T(k) # GRAPH_END /\ T(k) = F + k - 1
  BY <1>4
<1>8. DOMAIN G1 = 0 .. N1 - 1
  <2>1. F + L - 2 = N1 - 1
    BY <1>4
  <2> QED BY <1>1, <1>2, <2>1 DEF WithPath
<1>9. ASSUME NEW n \in 0 .. N1 - 1
      PROVE  /\ n = 0 => G1[n] = (IF N = 0 THEN <<>> ELSE G[0]) \o <<To(s[1], T(1))>> /\ start1[n] = 0
             /\ n # 0 /\ n < N => G1[n] = G[n] /\ start1[n] = start[n]
             /\ n # 0 /\ ~(n < N) =>
                  /\ n - F + 2 \in 2 .. L /\ G1[n] = <<To(s[n - F + 2], T(n - F + 2))>>
                  /\ start1[n] = s[n - F + 2].text_start
  <2>1. n \in 0 .. F + L - 2 /\ 1 \in 1 .. L
    BY <1>4
  <2>2. G1[n] = IF n = 0 THEN (IF N = 0 THEN <<>> ELSE G[0]) \o <<To(s[1], Target(N, s, 1))>>
                ELSE IF n < N THEN G[n]
                ELSE <<To(s[n - F + 2], Target(N, s, n - F + 2))>>
    BY <1>1, <1>2, <2>1 DEF WithPath
  <2>3. start1[n] = IF n < N THEN start[n] ELSE IF n = 0 THEN s[1].text_start ELSE s[n - F + 2].text_start
    BY <1>2
  <2>4. CASE n = 0
    <3>1. N # 0 => start[0] = 0
      <4>1. N # 0 => 0 \in 0 .. N - 1
        BY <1>4
      <4> QED BY <4>1 DEF IsGraphOf, NodeFits
    <3>2. Target(N, s, 1) = T(1)
      BY <1>6, <2>1
    <3>3. s[1].text_start = 0
      BY <1>5, <2>1
    <3>4. start1[n] = 0
      BY <1>4, <2>3, <2>4, <3>1, <3>3
    <3> HIDE DEF T
    <3> QED BY <2>2, <2>4, <3>2, <3>4
  <2>5. CASE n # 0 /\ n < N
    BY <2>2, <2>3, <2>5
  <2>6. CASE n # 0 /\ ~(n < N)
    <3>1. n - F + 2 \in 2 .. L /\ n - F + 2 \in 1 .. L
      BY <1>4, <2>6
    <3> QED BY <1>6, <2>2, <2>3, <2>6, <3>1
  <2> QED BY <2>4, <2>5, <2>6
<1>10. ASSUME NEW k \in 1 .. L, NEW n, start1[n] = s[k].text_start
       PROVE  /\ EdgeFits(To(s[k], T(k)), n, start1, N1, Y)
              /\ To(s[k], T(k)) \in Edges(Y) /\ To(s[k], T(k)).span = s[k] /\ To(s[k], T(k)).next_node = T(k)
  <2>1. To(s[k], T(k)) \in Edges(Y) /\ To(s[k], T(k)).span = s[k] /\ To(s[k], T(k)).next_node = T(k)
    <3>1. s[k] \in Y /\ T(k) \in Nat
      BY <1>5, <1>6
    <3> HIDE DEF T
    <3> QED BY <3>1, IsEdge
  <2>2. CASE k = L
    BY <1>5, <1>10, <2>1, <2>2 DEF EdgeFits
  <2>3. CASE k # L
    <3>1. T(k) \in 0 .. N1 - 1 /\ T(k) # 0 /\ ~(T(k) < N) /\ T(k) - F + 2 = k + 1 /\ k + 1 \in 1 .. L /\ k + 1 # 1 /\ (k + 1) - 1 = k
      <4>1. PICK t \in 1 .. N1 - 1 : t = T(k) /\ t = F + k - 1
        BY <1>7, <2>3
      <4>2. k \in 1 .. L /\ k # L
        BY <2>3
      <4>3. t \in 0 .. N1 - 1 /\ t # 0 /\ ~(t < N) /\ t - F + 2 = k + 1 /\ k + 1 \in 1 .. L /\ k + 1 # 1 /\ (k + 1) - 1 = k
        BY <1>4, <4>1, <4>2
      <4> HIDE DEF T
      <4> QED BY <4>1, <4>3
    <3>2. start1[T(k)] = s[k + 1].text_start
      <4>1. start1[T(k)] = s[T(k) - F + 2].text_start
        BY <1>9, <3>1
      <4> QED BY <3>1, <4>1
    <3>3. s[k + 1].text_start = s[k].text_end
      BY <1>5, <3>1
    <3> QED BY <1>7, <1>10, <2>1, <2>3, <3>2, <3>3 DEF EdgeFits
  <2> QED BY <2>1, <2>2, <2>3
<1> HIDE DEF T
<1>11. ASSUME NEW n \in 0 .. N - 1, NEW e, EdgeFits(e, n, start, N, X)
       PROVE  EdgeFits(e, n, start1, N1, Y) /\ e \in Edges(X)
  <2>1. e \in Edges(X) /\ e \in Edges(Y)
    BY <1>3, <1>11, MoreEdges DEF EdgeFits
  <2>2. \A q \in 0 .. N - 1 : q \in 0 .. N1 - 1 /\ start1[q] = start[q]
    BY <1>4
  <2>3. \A q \in 1 .. N - 1 : q \in 0 .. N - 1 /\ q \in 1 .. N1 - 1
    BY <1>4
  <2> QED BY <1>11, <2>1, <2>2, <2>3 DEF EdgeFits
<1>12. ASSUME NEW n \in 0 .. N - 1 PROVE NodeFits(G[n], n, start, N, X)
  BY DEF IsGraphOf
<1>13. 0 \in 0 .. N1 - 1 /\ 1 \in 1 .. L
  BY <1>4
<1>14. PICK old : old = IF N = 0 THEN <<>> ELSE G[0]
  OBVIOUS
<1>15. /\ old \in Seq(Edges(X)) /\ EdgesDiffer(old) /\ \A i \in 1 .. Len(old) : EdgeFits(old[i], 0, start1, N1, Y)
       /\ N = 0 => Len(old) = 0
  <2>1. CASE N = 0
    BY <1>14, <2>1 DEF EdgesDiffer
  <2>2. CASE N # 0
    <3>1. 0 \in 0 .. N - 1 /\ old = G[0]
      BY <1>4, <1>14, <2>2
    <3> QED BY <1>11, <1>12, <2>2, <3>1 DEF NodeFits
  <2> QED BY <2>1, <2>2
<1>16. PICK e : e = To(s[1], T(1))
  OBVIOUS
<1>17. EdgeFits(e, 0, start1, N1, Y) /\ e \in Edges(Y) /\ e.span = s[1] /\ e.next_node = T(1)
  <2>1. start1[0] = 0
    BY <1>9, <1>13
  <2>2. start1[0] = s[1].text_start
    BY <1>5, <1>13, <2>1
  <2> QED BY <1>10, <1>13, <1>16, <2>2
<1>18. PICK l \in Nat : l = Len(old)
  BY <1>15
<1>19. PICK es : es = G1[0]
  OBVIOUS
<1>20. /\ es \in Seq(Edges(Y)) /\ Len(es) = l + 1 /\ es[l + 1] = e
       /\ \A i \in 1 .. l : es[i] = old[i]
  <2>1. es = old \o <<e>>
    BY <1>9, <1>13, <1>14, <1>16, <1>19
  <2>2. old \in Seq(Edges(Y))
    BY <1>3, <1>15, MoreEdges
  <2> QED BY <1>17, <1>18, <2>1, <2>2
<1>21. \A i \in 1 .. l + 1 : i = l + 1 \/ i \in 1 .. l
  OBVIOUS
<1>22. \A i \in 1 .. l + 1 : EdgeFits(es[i], 0, start1, N1, Y)
  BY <1>15, <1>17, <1>18, <1>20, <1>21
<1>23. ASSUME NEW i \in 1 .. l PROVE old[i] # e /\ (~SameEdge(old[i], e) \/ (L = 1 /\ old[i].next_node = GRAPH_END))
  <2>1. EdgeFits(old[i], 0, start, N, X) /\ N # 0 /\ old = G[0]
    <3>1. N # 0 /\ 0 \in 0 .. N - 1 /\ old = G[0]
      BY <1>4, <1>14, <1>15, <1>18
    <3> QED BY <1>12, <1>18, <3>1 DEF NodeFits
  <2>2. CASE L # 1
    <3>1. T(1) >= F /\ T(1) # GRAPH_END /\ F = N /\ T(1) \in Nat
      BY <1>4, <1>6, <1>7, <1>13, <2>1, <2>2
    <3>2. old[i].next_node # T(1)
      BY <1>4, <2>1, <3>1 DEF EdgeFits
    <3> QED BY <1>17, <3>2 DEF SameEdge
  <2>3. CASE L = 1
    <3>1. T(1) = GRAPH_END
      BY <2>3 DEF T
    <3>2. CASE old[i].next_node = GRAPH_END
      <4>1. old[i].span # s[1]
        BY <1>1, <1>18, <2>1, <2>3, <3>2
      <4> QED BY <1>17, <2>3, <3>2, <4>1
    <3>3. CASE old[i].next_node # GRAPH_END
      BY <1>17, <3>1, <3>3 DEF SameEdge
    <3> QED BY <3>2, <3>3
  <2> QED BY <2>2, <2>3
<1>24. EdgesDiffer(es)
  <2>1. ASSUME NEW i \in 1 .. l + 1, NEW j \in 1 .. l + 1, i # j
        PROVE  es[i] # es[j] /\ (es[i].next_node # GRAPH_END => ~SameEdge(es[i], es[j]))
    <3>1. CASE i \in 1 .. l /\ j \in 1 .. l
      BY <1>15, <1>18, <1>20, <2>1, <3>1 DEF EdgesDiffer
    <3>2. CASE i \in 1 .. l /\ j = l + 1
      BY <1>20, <1>23, <3>2
    <3>3. CASE i = l + 1 /\ j \in 1 .. l
      <4>1. es[i] = e /\ es[j] = old[j]
        BY <1>20, <3>3
      <4>2. SameEdge(e, old[j]) => SameEdge(old[j], e)
        BY DEF SameEdge
      <4>3. SameEdge(e, old[j]) => e.next_node = old[j].next_node
        BY DEF SameEdge
      <4> QED BY <1>23, <3>3, <4>1, <4>2, <4>3
    <3> QED BY <1>21, <2>1, <3>1, <3>2, <3>3
  <2> QED BY <1>20, <2>1 DEF EdgesDiffer
<1>25. ASSUME NEW n \in 0 .. N1 - 1 PROVE NodeFits(G1[n], n, start1, N1, Y)
  <2>1. CASE n = 0
    <3>1. es # <<>>
      BY <1>20
    <3>2. start1[0] = 0
      BY <1>9, <1>13
    <3> QED BY <1>19, <1>20, <1>22, <1>24, <2>1, <3>1, <3>2 DEF NodeFits
  <2>2. CASE n # 0 /\ n < N
    <3>1. n \in 0 .. N - 1 /\ G1[n] = G[n] /\ start1[n] = start[n]
      BY <1>4, <1>9, <2>2
    <3>2. NodeFits(G[n], n, start, N, X)
      BY <1>12, <3>1
    <3>3. G[n] \in Seq(Edges(Y))
      BY <1>3, <3>2, MoreEdges DEF NodeFits
    <3>4. \A i \in 1 .. Len(G[n]) : EdgeFits(G[n][i], n, start1, N1, Y)
      BY <1>11, <3>1, <3>2 DEF NodeFits
    <3> QED BY <3>1, <3>2, <3>3, <3>4 DEF NodeFits
  <2>3. CASE n # 0 /\ ~(n < N)
    <3>1. PICK k \in 2 .. L : k = n - F + 2
      BY <1>9, <2>3
    <3>2. G1[n] = <<To(s[k], T(k))>> /\ start1[n] = s[k].text_start /\ k \in 1 .. L /\ k - 1 \in 1 .. L /\ k # 1
      BY <1>9, <2>3, <3>1
    <3>3. EdgeFits(To(s[k], T(k)), n, start1, N1, Y) /\ To(s[k], T(k)) \in Edges(Y)
      BY <1>10, <3>2
    <3>4. PICK d : d = To(s[k], T(k))
      OBVIOUS
    <3>5. Len(<<d>>) = 1 /\ <<d>> \in Seq(Edges(Y)) /\ <<d>> # <<>> /\ \A i \in 1 .. 1 : <<d>>[i] = d /\ i = 1
      BY <3>3, <3>4
    <3>6. EdgesDiffer(<<d>>)
      BY <3>5 DEF EdgesDiffer
    <3>7. start1[n] \in Nat /\ start1[n] # 0
      <4>1. s[k].text_start = s[k - 1].text_end /\ s[k - 1].text_start \in Nat /\ s[k - 1].text_end \in Nat
            /\ s[k - 1].text_start < s[k - 1].text_end
        BY <1>5, <3>2
      <4>2. s[k].text_start \in Nat /\ s[k].text_start # 0
        BY <4>1
      <4> QED BY <3>2, <4>2
    <3> QED BY <2>3, <3>2, <3>3, <3>4, <3>5, <3>6, <3>7 DEF NodeFits
  <2> QED BY <2>1, <2>2, <2>3
<1>26. ASSUME NEW t \in Y PROVE \E n \in 0 .. N1 - 1 : \E i \in 1 .. Len(G1[n]) : SameSpan(G1[n][i].span, t)
  <2>1. CASE t \in X
    <3>1. PICK n \in 0 .. N - 1 : \E i \in 1 .. Len(G[n]) : SameSpan(G[n][i].span, t)
      BY <2>1 DEF IsGraphOf
    <3>2. PICK i \in 1 .. Len(G[n]) : SameSpan(G[n][i].span, t)
      BY <3>1
    <3>3. n \in 0 .. N1 - 1 /\ N # 0
      BY <1>4
    <3>4. CASE n = 0
      <4>1. old = G[0] /\ i \in 1 .. l /\ i \in 1 .. l + 1
        BY <1>14, <1>18, <3>3, <3>4
      <4> QED BY <1>19, <1>20, <3>2, <3>3, <3>4, <4>1
    <3>5. CASE n # 0
      <4>1. G1[n] = G[n]
        BY <1>4, <1>9, <3>3, <3>5
      <4> QED BY <3>2, <3>3, <4>1
    <3> QED BY <3>4, <3>5
  <2>2. CASE t \in ToSet(s)
    <3>1. PICK k \in 1 .. L : t = s[k]
      <4>1. DOMAIN s = 1 .. L
        BY <1>1 DEF Chain
      <4> QED BY <2>2, <4>1 DEF ToSet
    <3>2. CASE k = 1
      <4>1. es[l + 1].span = t /\ l + 1 \in 1 .. Len(es)
        BY <1>17, <1>20, <3>1, <3>2
      <4> QED BY <1>13, <1>19, <4>1 DEF SameSpan
    <3>3. CASE k # 1
      <4>1. PICK n \in 0 .. N1 - 1 : n = F + k - 2 /\ n # 0 /\ ~(n < N) /\ n - F + 2 = k
        BY <1>4, <3>3
      <4>2. G1[n] = <<To(s[k], T(k))>> /\ start1[n] = s[k].text_start
        BY <1>9, <4>1
      <4>3. To(s[k], T(k)).span = s[k]
        BY <1>10, <4>2
      <4>4. PICK d : d = To(s[k], T(k))
        OBVIOUS
      <4>5. Len(<<d>>) = 1 /\ <<d>>[1] = d
        OBVIOUS
      <4>6. 1 \in 1 .. Len(G1[n]) /\ G1[n][1].span = t
        BY <3>1, <4>2, <4>3, <4>4, <4>5
      <4> QED BY <4>6 DEF SameSpan
    <3> QED BY <3>2, <3>3
  <2> QED BY <1>3, <2>1, <2>2
<1>27. IsGraphOf(G1, start1, N1, Y)
  BY <1>4, <1>8, <1>25, <1>26 DEF IsGraphOf
<1>28. ASSUME Forward(G, N) PROVE Forward(G1, N1)
  <2> SUFFICES ASSUME NEW n \in 0 .. N1 - 1, NEW i \in 1 .. Len(G1[n]), G1[n][i].next_node # GRAPH_END
               PROVE  n < G1[n][i].next_node
    BY DEF Forward
  <2>1. CASE n = 0
    <3>1. EdgeFits(es[i], 0, start1, N1, Y)
      BY <1>19, <1>20, <1>22, <2>1
    <3> QED BY <1>19, <2>1, <3>1 DEF EdgeFits
  <2>2. CASE n # 0 /\ n < N
    <3>1. n \in 0 .. N - 1 /\ G1[n] = G[n]
      BY <1>4, <1>9, <2>2
    <3> QED BY <1>28, <3>1 DEF Forward
  <2>3. CASE n # 0 /\ ~(n < N)
    <3>1. PICK k \in 2 .. L : k = n - F + 2
      BY <1>9, <2>3
    <3>2. G1[n] = <<To(s[k], T(k))>> /\ start1[n] = s[k].text_start /\ k \in 1 .. L
      BY <1>9, <2>3, <3>1
    <3>3. To(s[k], T(k)).next_node = T(k)
      BY <1>10, <3>2
    <3>4. PICK d : d = To(s[k], T(k))
      OBVIOUS
    <3>5. Len(<<d>>) = 1 /\ <<d>>[1] = d
      OBVIOUS
    <3>6. G1[n][i].next_node = T(k)
      <4>1. i = 1
        BY <3>2, <3>4, <3>5
      <4> QED BY <3>2, <3>3, <3>4, <3>5, <4>1
    <3>7. k # L
      BY <3>6 DEF T
    <3>8. T(k) = F + k - 1
      BY <3>7 DEF T
    <3> QED BY <1>4, <3>1, <3>6, <3>8
  <2> QED BY <2>1, <2>2, <2>3
<1>29. ASSUME NEW i \in 1 .. l + 1, es[i].next_node = GRAPH_END
       PROVE  \/ Len(s) = 1 /\ es[i].span = s[1]
              \/ N # 0 /\ \E j \in 1 .. Len(G[0]) : G[0][j] = es[i]
  <2>1. CASE i = l + 1
    <3>1. T(1) = GRAPH_END
      BY <1>17, <1>20, <1>29, <2>1
    <3>2. L = 1
      BY <1>7, <1>13, <3>1
    <3> QED BY <1>1, <1>17, <1>20, <2>1, <3>2
  <2>2. CASE i \in 1 .. l
    <3>1. N # 0 /\ old = G[0]
      BY <1>14, <1>15, <1>18, <2>2
    <3> QED BY <1>18, <1>20, <2>2, <3>1
  <2> QED BY <1>21, <2>1, <2>2
<1> QED BY <1>3, <1>19, <1>20, <1>27, <1>28, <1>29

-----------------------------------------------------------------------------
(* Adding the paths                                                        *)

Used(a) == { paths[i] : i \in 1 .. a }

(* The paths that count among U.                                           *)
KeptOf(U) == { p \in U : EffectivelyWeak(p) => \A q \in U : EffectivelyWeak(q) }

SpansOfAll(K) == UNION { ToSet(PathSpans[p]) : p \in K }

(* The graph of the first a paths.                                         *)
Built(G, start, N, a, only_weak) ==
  /\ a \in 0 .. Len(paths)
  /\ IsGraphOf(G, start, N, SpansOfAll(KeptOf(Used(a))))
  /\ Forward(G, N)
  /\ N <= a * (WordEnd + 1)
  /\ N = 0 <=> a = 0
  /\ only_weak \in BOOLEAN
  /\ only_weak <=> \A q \in Used(a) : EffectivelyWeak(q)
  /\ N # 0 => \A i \in 1 .. Len(G[0]) : G[0][i].next_node = GRAPH_END =>
       \E q \in Used(a) : SingleEdge(q) /\ G[0][i].span = PathSpans[q][1]

LEMMA BuiltSame ==
  ASSUME UNCHANGED <<paths, input>>,
         Built(graph', node2start', GraphSize', added', only_weak_paths')
  PROVE  Built(graph, node2start, GraphSize, added, only_weak_paths)'
<1>1. \A p : EffectivelyWeak(p) <=> EffectivelyWeak(p)'
  BY DEF EffectivelyWeak, CaseMatches, input
<1>2. Used(added)' = Used(added')
  BY DEF Used
<1>3. KeptOf(Used(added))' = KeptOf(Used(added'))
  BY <1>1, <1>2 DEF KeptOf
<1>4. SpansOfAll(KeptOf(Used(added)))' = SpansOfAll(KeptOf(Used(added')))
  BY <1>3 DEF SpansOfAll
<1>5. Len(paths)' = Len(paths)
  OBVIOUS
<1> QED BY <1>1, <1>2, <1>4, <1>5 DEF Built, SingleEdge

LEMMA TimesMore ==
  ASSUME NEW a \in Nat, NEW b \in Nat, NEW w \in Nat, a <= b
  PROVE  a * w <= b * w /\ (a + 1) * w = a * w + w /\ a * w \in Nat
OBVIOUS

LEMMA UsedMore ==
  ASSUME PathsInv, NEW a \in Nat, a + 1 <= Len(paths)
  PROVE  Used(a + 1) = Used(a) \cup {paths[a + 1]} /\ paths[a + 1] \notin Used(a)
<1>1. PICK n \in Nat : n = Len(paths) /\ a + 1 <= n /\ a + 1 \in 1 .. n
  BY DEF PathsInv
<1>2. \A i \in 1 .. a + 1 : i = a + 1 \/ i \in 1 .. a
  OBVIOUS
<1>3. \A i \in 1 .. a : i \in 1 .. a + 1 /\ i \in 1 .. n /\ i # a + 1
  BY <1>1
<1>4. DOMAIN paths = 1 .. n
  BY <1>1 DEF PathsInv
<1>5. a + 1 \in 1 .. a + 1
  OBVIOUS
<1> QED BY <1>1, <1>2, <1>3, <1>4, <1>5, PathsDiffer DEF Used

LEMMA NoGraph ==
  ASSUME NEW G, NEW start, DOMAIN G = {}
  PROVE  IsGraphOf(G, start, 0, {}) /\ Forward(G, 0)
<1>1. 0 .. 0 - 1 = {} /\ 0 \in Nat /\ 0 <= GRAPH_END
  BY InflexionGraphAssumption
<1> QED BY <1>1 DEF IsGraphOf, Forward

LEMMA AddPathBuilds ==
  ASSUME PathsInv, Built(graph, node2start, GraphSize, added, only_weak_paths), AddPath
  PROVE  Built(graph, node2start, GraphSize, added, only_weak_paths)'
<1>1. UNCHANGED <<paths, input>> /\ added < Len(paths) /\ added' = added + 1
  BY DEF AddPath
<1>2. PICK a \in Nat : a = added /\ a + 1 \in 1 .. Len(paths) /\ a + 1 <= Len(paths) /\ a + 1 \in 0 .. Len(paths)
  <2>1. Len(paths) \in Nat
    BY DEF PathsInv
  <2> QED BY <1>1, <2>1 DEF Built
<1>3. PICK p : p = paths[a + 1]
  OBVIOUS
<1>4. DOMAIN paths = 1 .. Len(paths)
  BY DEF PathsInv
<1>5. p \in DOMAIN Paths
  BY <1>2, <1>3, <1>4, PathsDiffer
<1>6. PICK s : s = PathSpans[p]
  OBVIOUS
<1>7. Chain(s)
  BY <1>5, <1>6, SpansAre
<1>8. PICK L \in Nat \ {0} : L = Len(s) /\ L <= WordEnd
  BY <1>7 DEF Chain
<1>9. PICK N : N = GraphSize
  OBVIOUS
<1>10. PICK W \in Nat : W = WordEnd + 1
  BY InflexionGraphAssumption
<1>11. PICK U : U = Used(a)
  OBVIOUS
<1>12. PICK X : X = SpansOfAll(KeptOf(U))
  OBVIOUS
<1>13. PICK U1 : U1 = Used(a + 1)
  OBVIOUS
<1>14. U1 = U \cup {p} /\ p \notin U
  BY <1>2, <1>3, <1>11, <1>13, UsedMore
<1>15. /\ IsGraphOf(graph, node2start, N, X) /\ Forward(graph, N)
       /\ N \in Nat /\ N <= a * W /\ (N = 0 <=> a = 0)
       /\ only_weak_paths \in BOOLEAN /\ (only_weak_paths <=> \A q \in U : EffectivelyWeak(q))
       /\ N # 0 => \A i \in 1 .. Len(graph[0]) : graph[0][i].next_node = GRAPH_END =>
            \E q \in U : SingleEdge(q) /\ graph[0][i].span = PathSpans[q][1]
  BY <1>2, <1>9, <1>10, <1>11, <1>12 DEF Built, IsGraphOf
<1>16. a = 0 => U = {}
  BY <1>11 DEF Used
<1>17. a # 0 => U # {}
  <2>1. a # 0 => 1 \in 1 .. a
    BY <1>2
  <2> QED BY <1>11, <2>1 DEF Used
<1>18. /\ a * W \in Nat /\ (a + 1) * W = a * W + W /\ (a + 1) * W <= MaxPaths * W /\ MaxPaths * W < GRAPH_END
  <2>1. a + 1 <= MaxPaths /\ a + 1 \in Nat /\ MaxPaths \in Nat
    <3>1. Len(paths) \in Nat /\ Len(paths) <= MaxPaths /\ MaxPaths \in Nat
      BY InflexionGraphAssumption DEF PathsInv
    <3> QED BY <1>2, <3>1
  <2>2. W * MaxPaths < GRAPH_END
    BY <1>10, InflexionGraphAssumption
  <2>3. W * MaxPaths = MaxPaths * W
    BY <2>1
  <2>4. (a + 1) * W <= MaxPaths * W
    BY <2>1, TimesMore
  <2>5. a * W \in Nat /\ (a + 1) * W = a * W + W
    BY TimesMore
  <2> QED BY <2>2, <2>3, <2>4, <2>5
<1>19. PICK weak_now \in BOOLEAN : weak_now <=> EffectivelyWeak(p)
  OBVIOUS
<1>20. PICK size \in Nat : size = (IF only_weak_paths /\ ~weak_now THEN 0 ELSE N)
  BY <1>15
<1>21. CASE weak_now /\ N > 0 /\ ~only_weak_paths
  <2>1. UNCHANGED <<graph, node2start, only_weak_paths>>
    BY <1>2, <1>3, <1>9, <1>19, <1>21 DEF AddPath
  <2>2. KeptOf(U1) = KeptOf(U)
    BY <1>14, <1>15, <1>19, <1>21 DEF KeptOf
  <2>3. N <= (a + 1) * W
    BY <1>10, <1>15, <1>18
  <2>4. Built(graph, node2start, N, a + 1, only_weak_paths)
    <3>1. IsGraphOf(graph, node2start, N, SpansOfAll(KeptOf(U1)))
      BY <1>12, <1>15, <2>2
    <3>2. only_weak_paths <=> \A q \in U1 : EffectivelyWeak(q)
      BY <1>14, <1>15, <1>21
    <3>3. N = 0 <=> a + 1 = 0
      BY <1>15, <1>21
    <3>4. N # 0 => \A i \in 1 .. Len(graph[0]) : graph[0][i].next_node = GRAPH_END =>
            \E q \in U1 : SingleEdge(q) /\ graph[0][i].span = PathSpans[q][1]
      BY <1>14, <1>15
    <3> QED BY <1>2, <1>10, <1>13, <1>15, <2>3, <3>1, <3>2, <3>3, <3>4 DEF Built
  <2>5. GraphSize' = N
    BY <1>9, <2>1 DEF GraphSize
  <2> QED BY <1>1, <1>2, <2>1, <2>4, <2>5, BuiltSame
<1>22. CASE ~(weak_now /\ N > 0 /\ ~only_weak_paths)
  <2>1. /\ graph' = WithPath(graph, size, s)
        /\ node2start' = [ n \in DOMAIN graph' |->
                             IF n < size THEN node2start[n]
                             ELSE IF n = 0 THEN s[1].text_start
                             ELSE s[n - FirstNew(size) + 2].text_start ]
        /\ only_weak_paths' = (only_weak_paths /\ ~(only_weak_paths /\ ~weak_now))
    BY <1>2, <1>3, <1>6, <1>9, <1>19, <1>20, <1>22 DEF AddPath
  <2>2. PICK M \in Nat : M = FirstNew(size) + L - 1 /\ M # 0 /\ M <= size + W /\ M - 1 = FirstNew(size) + L - 2
    <3>1. PICK F \in Nat : F = FirstNew(size) /\ F # 0 /\ F <= size + 1
      BY DEF FirstNew
    <3>2. WordEnd \in Nat
      BY InflexionGraphAssumption
    <3>3. PICK M \in Nat : M = F + L - 1
      BY <3>1
    <3>4. M # 0 /\ M <= size + W /\ M - 1 = F + L - 2
      BY <1>8, <1>10, <3>1, <3>2, <3>3
    <3> QED BY <3>1, <3>3, <3>4
  <2>3. M <= (a + 1) * W /\ M <= GRAPH_END
    <3>1. size <= a * W
      BY <1>15, <1>18, <1>20
    <3>2. PICK x \in Nat : x = a * W
      BY <1>18
    <3>3. PICK y \in Nat : y = MaxPaths * W
      BY <1>10, InflexionGraphAssumption
    <3>4. PICK z \in Nat : z = (a + 1) * W
      BY <1>10
    <3>5. z = x + W /\ z <= y /\ y < GRAPH_END /\ size <= x
      BY <1>18, <3>1, <3>2, <3>3, <3>4
    <3>6. GRAPH_END \in Nat
      BY InflexionGraphAssumption
    <3>7. M <= z /\ M <= GRAPH_END
      BY <1>10, <2>2, <3>5, <3>6
    <3> QED BY <3>4, <3>7
  <2>4. DOMAIN graph' = 0 .. M - 1
    BY <1>8, <2>1, <2>2 DEF WithPath
  <2>5. GraphSize' = M
    <3>1. Cardinality(0 .. M - 1) = M
      BY <2>2, FS_Interval
    <3> QED BY <2>4, <3>1 DEF GraphSize
  <2>6. PICK G : G = IF size = 0 THEN [n \in {} |-> <<>>] ELSE graph
    OBVIOUS
  <2>7. PICK X0 : X0 = IF size = 0 THEN {} ELSE X
    OBVIOUS
  <2>8. IsGraphOf(G, node2start, size, X0) /\ Forward(G, size)
    <3>1. CASE size = 0
      <4>1. DOMAIN G = {}
        BY <2>6, <3>1
      <4> QED BY <2>7, <3>1, <4>1, NoGraph
    <3>2. CASE size # 0
      BY <1>15, <1>20, <2>6, <2>7, <3>2
    <3> QED BY <3>1, <3>2
  <2>9. graph' = WithPath(G, size, s)
    <3>1. CASE size = 0
      <4>1. \A n \in 0 .. FirstNew(size) + Len(s) - 2 : ~(n < size)
        BY <3>1
      <4>2. graph' = WithPath(graph, size, s)
        BY <2>1
      <4> HIDE DEF FirstNew
      <4> QED BY <3>1, <4>1, <4>2 DEF WithPath
    <3>2. CASE size # 0
      BY <2>1, <2>6, <3>2
    <3> QED BY <3>1, <3>2
  <2>10. size # 0 /\ L = 1 => \A i \in 1 .. Len(G[0]) : G[0][i].next_node = GRAPH_END => G[0][i].span # s[1]
    <3> SUFFICES ASSUME size # 0, L = 1, NEW i \in 1 .. Len(G[0]), G[0][i].next_node = GRAPH_END,
                        G[0][i].span = s[1]
                 PROVE  FALSE
      OBVIOUS
    <3>1. G = graph /\ N # 0
      BY <1>20, <2>6
    <3>2. PICK q \in U : SingleEdge(q) /\ graph[0][i].span = PathSpans[q][1]
      BY <1>15, <3>1
    <3>3. q \in DOMAIN Paths
      <4>1. PICK j \in 1 .. a : q = paths[j]
        BY <1>11 DEF Used
      <4>2. j \in 1 .. Len(paths)
        BY <1>2, <4>1
      <4> QED BY <1>4, <4>1, <4>2, PathsDiffer
    <3>4. SingleEdge(p) /\ PathSpans[q][1] = PathSpans[p][1]
      BY <1>6, <1>8, <3>1, <3>2 DEF SingleEdge
    <3>5. q = p
      BY <1>5, <3>2, <3>3, <3>4, SingleIs
    <3> QED BY <1>14, <3>5
  <2>11. node2start' = [ n \in 0 .. M - 1 |->
                           IF n < size THEN node2start[n]
                           ELSE IF n = 0 THEN s[1].text_start
                           ELSE s[n - FirstNew(size) + 2].text_start ]
    BY <2>1, <2>4
  <2>12. /\ IsGraphOf(graph', node2start', M, X0 \cup ToSet(s)) /\ Forward(graph', M)
         /\ \A i \in 1 .. Len(graph'[0]) : graph'[0][i].next_node = GRAPH_END =>
              \/ Len(s) = 1 /\ graph'[0][i].span = s[1]
              \/ size # 0 /\ \E j \in 1 .. Len(G[0]) : G[0][j] = graph'[0][i]
    <3>1. PICK G1 : G1 = graph'
      OBVIOUS
    <3>2. PICK start1 : start1 = node2start'
      OBVIOUS
    <3>3. G1 = WithPath(G, size, s) /\ M = FirstNew(size) + Len(s) - 1 /\ M <= GRAPH_END
      BY <1>8, <2>2, <2>3, <2>9, <3>1
    <3>4. \A n \in 0 .. M - 1 :
            /\ n < size => start1[n] = node2start[n]
            /\ ~(n < size) /\ n = 0 => start1[n] = s[1].text_start
            /\ ~(n < size) /\ n # 0 => start1[n] = s[n - FirstNew(size) + 2].text_start
      BY <2>11, <3>2
    <3>5. size # 0 /\ Len(s) = 1 => \A i \in 1 .. Len(G[0]) : G[0][i].next_node = GRAPH_END => G[0][i].span # s[1]
      BY <1>8, <2>10
    <3>6. IsGraphOf(G1, start1, M, X0 \cup ToSet(s)) /\ Forward(G1, M) /\ EndsAre(G, size, s, G1)
      <4>1. IsGraphOf(G, node2start, size, X0)
        BY <2>8
      <4>2. Forward(G, size)
        BY <2>8
      <4>3. Appended(G, node2start, size, X0, s, M, G1, start1)
        BY <1>7, <3>3, <3>4, <3>5, <4>1 DEF Appended
      <4> QED BY <4>2, <4>3, WithPathIs
    <3> QED BY <3>1, <3>2, <3>6 DEF EndsAre
  <2>13. KeptOf(U1) = (IF size = 0 THEN {} ELSE KeptOf(U)) \cup {p}
    <3>1. CASE only_weak_paths /\ ~weak_now
      <4>1. size = 0 /\ \A q \in U : EffectivelyWeak(q)
        BY <1>15, <1>20, <3>1
      <4> QED BY <1>14, <1>19, <3>1, <4>1 DEF KeptOf
    <3>2. CASE ~(only_weak_paths /\ ~weak_now)
      <4>1. size = N
        BY <1>20, <3>2
      <4>2. CASE weak_now
        <5>1. N = 0 \/ only_weak_paths
          BY <1>15, <1>22, <4>2
        <5>2. \A q \in U : EffectivelyWeak(q)
          BY <1>15, <1>16, <5>1
        <5>3. size = 0 => U = {}
          BY <1>15, <1>16, <4>1
        <5> QED BY <1>14, <1>19, <4>2, <5>2, <5>3 DEF KeptOf
      <4>3. CASE ~weak_now
        <5>1. \E q \in U : ~EffectivelyWeak(q)
          BY <1>15, <3>2, <4>3
        <5>2. size # 0
          BY <1>15, <1>16, <4>1, <5>1
        <5> QED BY <1>14, <1>19, <4>3, <5>1, <5>2 DEF KeptOf
      <4> QED BY <4>2, <4>3
    <3> QED BY <3>1, <3>2
  <2>14. SpansOfAll(KeptOf(U1)) = X0 \cup ToSet(s)
    <3>1. \A K : SpansOfAll(K \cup {p}) = SpansOfAll(K) \cup ToSet(s)
      BY <1>6 DEF SpansOfAll
    <3>2. SpansOfAll({}) = {}
      BY DEF SpansOfAll
    <3>3. X0 = SpansOfAll(IF size = 0 THEN {} ELSE KeptOf(U))
      BY <1>12, <2>7, <3>2
    <3> QED BY <2>13, <3>1, <3>3
  <2>15. only_weak_paths' \in BOOLEAN /\ (only_weak_paths' <=> \A q \in U1 : EffectivelyWeak(q))
    <3>1. only_weak_paths' \in BOOLEAN /\ (only_weak_paths' <=> only_weak_paths /\ weak_now)
      BY <2>1
    <3> QED BY <1>14, <1>15, <1>19, <3>1
  <2>16. \A i \in 1 .. Len(graph'[0]) : graph'[0][i].next_node = GRAPH_END =>
           \E q \in U1 : SingleEdge(q) /\ graph'[0][i].span = PathSpans[q][1]
    <3> SUFFICES ASSUME NEW i \in 1 .. Len(graph'[0]), graph'[0][i].next_node = GRAPH_END
                 PROVE  \E q \in U1 : SingleEdge(q) /\ graph'[0][i].span = PathSpans[q][1]
      OBVIOUS
    <3>1. CASE Len(s) = 1 /\ graph'[0][i].span = s[1]
      BY <1>6, <1>14, <3>1 DEF SingleEdge
    <3>2. CASE size # 0 /\ \E j \in 1 .. Len(G[0]) : G[0][j] = graph'[0][i]
      <4>1. G = graph /\ N # 0
        BY <1>20, <2>6, <3>2
      <4>2. PICK j \in 1 .. Len(graph[0]) : graph[0][j] = graph'[0][i]
        BY <3>2, <4>1
      <4> QED BY <1>14, <1>15, <4>1, <4>2
    <3> QED BY <2>12, <3>1, <3>2
  <2>17. M = 0 <=> a + 1 = 0
    BY <2>2
  <2>18. Built(graph', node2start', M, a + 1, only_weak_paths')
    BY <1>2, <1>10, <1>13, <2>3, <2>12, <2>14, <2>15, <2>16, <2>17 DEF Built
  <2> QED BY <1>1, <1>2, <2>5, <2>18, BuiltSame
<1> QED BY <1>21, <1>22

-----------------------------------------------------------------------------
(* Merging nodes                                                           *)

LEMMA NodeEdges ==
  ASSUME PathsInv, NEW G, NEW start, NEW N, IsGraphOf(G, start, N, KeptSpans),
         NEW n \in 0 .. N - 1, NEW i \in 1 .. Len(G[n])
  PROVE  /\ G[n][i].span \in KeptSpans /\ G[n][i] = To(G[n][i].span, G[n][i].next_node)
         /\ G[n][i].span.text_start = start[n] /\ G[n][i].span.text_end \in Nat
         /\ start[n] < G[n][i].span.text_end /\ G[n][i].span.text_end <= WordEnd
         /\ \/ G[n][i].next_node = GRAPH_END /\ G[n][i].span.text_end = WordEnd
            \/ /\ G[n][i].next_node \in 1 .. N - 1 /\ G[n][i].next_node # GRAPH_END
               /\ start[G[n][i].next_node] = G[n][i].span.text_end
<1>1. PICK e : e = G[n][i]
  OBVIOUS
<1>2. N \in Nat /\ N <= GRAPH_END /\ GRAPH_END \in Nat
  BY InflexionGraphAssumption DEF IsGraphOf
<1>3. NodeFits(G[n], n, start, N, KeptSpans)
  BY DEF IsGraphOf
<1>4. EdgeFits(e, n, start, N, KeptSpans)
  BY <1>1, <1>3 DEF NodeFits
<1>5. e.span \in KeptSpans /\ e = To(e.span, e.next_node)
  BY <1>4, EdgeIs DEF EdgeFits
<1>6. e.span.text_end \in Nat /\ e.span.text_start < e.span.text_end /\ e.span.text_end <= WordEnd
  BY <1>5, KeptSpansAre
<1>7. e.span.text_start = start[n]
  BY <1>4 DEF EdgeFits
<1>8. \/ e.next_node = GRAPH_END /\ e.span.text_end = WordEnd
      \/ e.next_node \in 1 .. N - 1 /\ e.next_node # GRAPH_END /\ start[e.next_node] = e.span.text_end
  <2>1. \A t \in 1 .. N - 1 : t # GRAPH_END
    BY <1>2
  <2> QED BY <1>4, <2>1 DEF EdgeFits
<1> QED BY <1>1, <1>5, <1>6, <1>7, <1>8

LEMMA NodeStarts ==
  ASSUME PathsInv, NEW G, NEW start, NEW N, IsGraphOf(G, start, N, KeptSpans),
         NEW n \in 0 .. N - 1
  PROVE  /\ start[n] \in Nat /\ start[n] < WordEnd /\ (n = 0 <=> start[n] = 0)
         /\ Len(G[n]) \in Nat /\ 1 \in 1 .. Len(G[n])
<1>1. PICK es : es = G[n]
  OBVIOUS
<1>2. NodeFits(es, n, start, N, KeptSpans)
  BY <1>1 DEF IsGraphOf
<1>3. Len(es) \in Nat /\ 1 \in 1 .. Len(es)
  BY <1>2 DEF NodeFits
<1>4. start[n] \in Nat /\ (n = 0 <=> start[n] = 0)
  BY <1>2 DEF NodeFits
<1>5. start[n] < es[1].span.text_end /\ es[1].span.text_end <= WordEnd /\ es[1].span.text_end \in Nat
  BY <1>1, <1>3, NodeEdges
<1>6. WordEnd \in Nat
  BY InflexionGraphAssumption
<1> QED BY <1>1, <1>3, <1>4, <1>5, <1>6

(* What possible_paths makes of the paths f of the next nodes.             *)
Continued(f, n) ==
  IF n = GRAPH_END \/ n + 1 = GraphSize THEN {}
  ELSE UNION { { path \cup {<<e.span.text_start, e.span.segment_type>>} : path \in f[e.next_node] } :
                 e \in { d \in ToSet(graph[n]) : d.next_node # GraphSize } }

Possible(f) == f = [n \in DOMAIN graph \cup {GRAPH_END} |-> Continued(f, n)]

(* No node has a possible path, so merging depends on the start alone.     *)
LEMMA NothingPossible ==
  ASSUME PathsInv, NEW N, IsGraphOf(graph, node2start, N, KeptSpans)
  PROVE  \A n \in 0 .. N - 1 : PossiblePaths(n) = {}
<1>1. DOMAIN graph = 0 .. N - 1 /\ N \in Nat
  BY DEF IsGraphOf
<1>2. PICK D : D = DOMAIN graph \cup {GRAPH_END}
  OBVIOUS
<1>3. ASSUME NEW n \in 0 .. N - 1, NEW e \in ToSet(graph[n])
      PROVE  \/ e.next_node = GRAPH_END
             \/ e.next_node \in 0 .. N - 1 /\ node2start[n] < node2start[e.next_node]
  <2>1. graph[n] \in Seq(Edges(KeptSpans))
    BY DEF IsGraphOf, NodeFits
  <2>2. DOMAIN graph[n] = 1 .. Len(graph[n])
    BY <2>1
  <2>3. PICK i \in 1 .. Len(graph[n]) : e = graph[n][i]
    BY <2>2 DEF ToSet
  <2>4. \A t \in 1 .. N - 1 : t \in 0 .. N - 1
    BY <1>1
  <2> QED BY <2>3, <2>4, NodeEdges
<1>4. \E f : Possible(f)
  <2>1. PICK f : f = [n \in D |-> {}]
    OBVIOUS
  <2>2. ASSUME NEW n \in D
        PROVE  Continued(f, n) = {}
    <3>1. CASE n = GRAPH_END
      BY <3>1 DEF Continued
    <3>2. CASE n # GRAPH_END
      <4>1. n \in 0 .. N - 1
        BY <1>1, <1>2, <3>2
      <4>2. \A e \in ToSet(graph[n]) : f[e.next_node] = {}
        <5>1. \A e \in ToSet(graph[n]) : e.next_node \in D
          BY <1>1, <1>2, <1>3, <4>1
        <5> QED BY <2>1, <5>1
      <4> QED BY <4>2 DEF Continued
    <3> QED BY <3>1, <3>2
  <2>3. Possible(f)
    BY <1>2, <2>1, <2>2 DEF Possible
  <2> QED BY <2>3
<1>5. ASSUME NEW f, Possible(f) PROVE \A n \in 0 .. N - 1 : f[n] = {}
  <2> DEFINE bad == { n \in 0 .. N - 1 : f[n] # {} }
             dist == { WordEnd - node2start[n] : n \in bad }
  <2> SUFFICES ASSUME bad # {} PROVE FALSE
    OBVIOUS
  <2>1. \A n \in 0 .. N - 1 : node2start[n] \in Nat /\ node2start[n] < WordEnd
    BY NodeStarts
  <2>2. \A n \in bad : n \in 0 .. N - 1
    OBVIOUS
  <2>3. dist \in SUBSET Nat /\ dist # {}
    <3>1. \A n \in bad : WordEnd - node2start[n] \in Nat
      BY <2>1, <2>2, InflexionGraphAssumption
    <3> QED BY <3>1
  <2>4. PICK k \in dist : \A i \in dist : k <= i
    <3> HIDE DEF dist
    <3> QED BY <2>3, LeastOf
  <2>5. PICK n \in bad : k = WordEnd - node2start[n]
    BY <2>4
  <2>6. \A m \in bad : WordEnd - node2start[n] <= WordEnd - node2start[m]
    BY <2>4, <2>5
  <2>7. n \in 0 .. N - 1 /\ f[n] # {} /\ n \in D
    BY <1>1, <1>2, <2>5
  <2>0. PICK g : g = [m \in D |-> Continued(f, m)]
    OBVIOUS
  <2>15. f = g
    BY <1>2, <1>5, <2>0 DEF Possible
  <2>8. f[n] = Continued(f, n)
    <3>1. g[n] = Continued(f, n)
      BY <2>0, <2>7
    <3> QED BY <2>15, <3>1
  <2>9. PICK e \in ToSet(graph[n]) : f[e.next_node] # {}
    BY <2>7, <2>8 DEF Continued
  <2>10. GRAPH_END \in D /\ f[GRAPH_END] = {}
    <3>1. GRAPH_END \in D /\ Continued(f, GRAPH_END) = {}
      BY <1>2 DEF Continued
    <3>2. g[GRAPH_END] = Continued(f, GRAPH_END)
      BY <2>0, <3>1
    <3> QED BY <2>15, <3>1, <3>2
  <2>11. e.next_node \in 0 .. N - 1 /\ node2start[n] < node2start[e.next_node]
    BY <1>3, <2>7, <2>9, <2>10
  <2>12. e.next_node \in bad
    BY <2>9, <2>11
  <2>13. WordEnd - node2start[n] <= WordEnd - node2start[e.next_node]
    <3> HIDE DEF bad
    <3> QED BY <2>6, <2>12
  <2> QED BY <2>1, <2>7, <2>11, <2>13, InflexionGraphAssumption
<1> DEFINE f == CHOOSE f : Possible(f)
<1>6. Possible(f)
  BY <1>4
<1>7. \A n : PossiblePaths(n) = f[n]
  BY DEF PossiblePaths, Possible, Continued
<1> HIDE DEF f
<1> QED BY <1>5, <1>6, <1>7

-----------------------------------------------------------------------------
(* Lists of edges whose targets change                                     *)

(* The edges of new are those of old, with targets changed by f; of edges  *)
(* that become the same one may stand for all.                             *)
IsImage(new, old, f) ==
  /\ \A i \in 1 .. Len(new) : \E j \in 1 .. Len(old) :
       new[i] = To(old[j].span, f[old[j].next_node])
  /\ \A j \in 1 .. Len(old) : \E i \in 1 .. Len(new) :
       new[i].next_node = f[old[j].next_node] /\ SameSpan(new[i].span, old[j].span)

LEMMA PickedAll ==
  ASSUME NEW T, NEW seq \in Seq(T), NEW S, 1 .. Len(seq) \subseteq S
  PROVE  Picked(seq, S) = seq
<1>1. PICK n \in Nat : n = Len(seq)
  OBVIOUS
<1>2. PICK R : R = Picked(seq, S)
  OBVIOUS
<1>3. R \in Seq(T) /\ \E m, ps : PickedAt(R, seq, S, m, ps)
  BY <1>2, PickedIs
<1>4. PICK m, ps : PickedAt(R, seq, S, m, ps)
  BY <1>3
<1>5. Places(ps, m, n, S) /\ Len(R) = m /\ \A k \in 1 .. m : R[k] = seq[ps[k]]
  BY <1>1, <1>4 DEF PickedAt
<1>6. /\ m \in Nat /\ \A k \in 1 .. m : ps[k] \in 1 .. n
      /\ \A i, j \in 1 .. m : i < j => ps[i] < ps[j]
      /\ \A i \in 1 .. n : \E k \in 1 .. m : ps[k] = i
  <2>1. \A i \in 1 .. n : i \in S
    BY <1>1
  <2> QED BY <1>5, <2>1 DEF Places
<1>7. \A k \in 1 .. m : ps[k] = k
  <2> DEFINE bad == { k \in 1 .. m : ps[k] # k }
  <2> SUFFICES ASSUME bad # {} PROVE FALSE
    OBVIOUS
  <2>1. PICK k \in bad : \A j \in bad : k <= j
    <3>1. bad \in SUBSET Nat
      OBVIOUS
    <3> HIDE DEF bad
    <3> QED BY <3>1, LeastOf
  <2>2. k \in 1 .. m /\ ps[k] # k /\ ps[k] \in 1 .. n
    BY <1>6, <2>1
  <2>3. k # 1 => k - 1 \in 1 .. m /\ ps[k - 1] = k - 1 /\ ps[k - 1] < ps[k]
    <3> SUFFICES ASSUME k # 1 PROVE k - 1 \in 1 .. m /\ ps[k - 1] = k - 1 /\ ps[k - 1] < ps[k]
      OBVIOUS
    <3>1. k - 1 \in 1 .. m /\ k - 1 < k /\ ~(k <= k - 1)
      BY <1>6, <2>2
    <3>2. k - 1 \notin bad
      <4> HIDE DEF bad
      <4> QED BY <2>1, <3>1
    <3> QED BY <1>6, <2>2, <3>1, <3>2
  <2>4. k \in 1 .. n /\ k < ps[k]
    BY <1>6, <2>2, <2>3
  <2>5. k \notin S
    <3>1. k # 1 => ps[k - 1] < k
      BY <2>2, <2>3
    <3> QED BY <1>5, <2>2, <2>4, <3>1, PlacesAdjacent
  <2> QED BY <1>1, <2>4, <2>5
<1>8. m = n
  <2>1. m <= n
    <3>1. m # 0 => m \in 1 .. m
      BY <1>6
    <3>2. m # 0 => ps[m] = m /\ ps[m] \in 1 .. n
      BY <1>6, <1>7, <3>1
    <3> QED BY <1>6, <3>2
  <2>2. n <= m
    <3>1. n # 0 => n \in 1 .. n
      OBVIOUS
    <3>2. n # 0 => \E k \in 1 .. m : ps[k] = n
      BY <1>6, <3>1
    <3>3. n # 0 => \E k \in 1 .. m : k = n
      BY <1>7, <3>2
    <3> QED BY <1>6, <3>3
  <2> QED BY <1>6, <2>1, <2>2
<1>9. \A k \in 1 .. n : R[k] = seq[k]
  BY <1>5, <1>7, <1>8
<1> QED BY <1>1, <1>2, <1>3, <1>5, <1>8, <1>9

LEMMA SameEdges ==
  ASSUME NEW d, NEW e
  PROVE  /\ SameEdge(d, e) => SameEdge(e, d) /\ d.next_node = e.next_node /\ SameSpan(d.span, e.span)
         /\ d.next_node = e.next_node /\ SameSpan(d.span, e.span) => SameEdge(d, e)
         /\ SameEdge(d, d)
BY DEF SameEdge, SameSpan

(* The list of an edge list's redirected edges, before any goes.           *)
Moved(es, from, to) ==
  [ i \in DOMAIN es |-> IF es[i].next_node = from THEN To(es[i].span, to) ELSE es[i] ]

Redundant(es, from, to, i) ==
  /\ es[i].next_node = from
  /\ \E j \in DOMAIN es :
       SameEdge(Moved(es, from, to)[i], Moved(es, from, to)[j]) /\ (j < i \/ es[j].next_node = to)

LEMMA RedirectedDef ==
  ASSUME NEW es, NEW from, NEW to
  PROVE  Redirected(es, from, to) = Picked(Moved(es, from, to), { i \in DOMAIN es : ~Redundant(es, from, to, i) })
BY DEF Redirected, Moved, Redundant

Redirection(from, to) == [t \in Nat |-> IF t = from THEN to ELSE t]

LEMMA MovedIs ==
  ASSUME NEW X, NEW es \in Seq(Edges(X)), NEW from \in Nat, NEW to \in Nat
  PROVE  /\ Moved(es, from, to) \in Seq(Edges(X)) /\ Len(Moved(es, from, to)) = Len(es)
         /\ DOMAIN es = 1 .. Len(es)
         /\ \A i \in 1 .. Len(es) :
              /\ Moved(es, from, to)[i] = To(es[i].span, Redirection(from, to)[es[i].next_node])
              /\ Moved(es, from, to)[i].span = es[i].span
              /\ Moved(es, from, to)[i].next_node = IF es[i].next_node = from THEN to ELSE es[i].next_node
<1>1. PICK n \in Nat : n = Len(es) /\ DOMAIN es = 1 .. n
  OBVIOUS
<1>2. PICK M : M = [ i \in 1 .. n |-> IF es[i].next_node = from THEN To(es[i].span, to) ELSE es[i] ]
  OBVIOUS
<1>3. M = Moved(es, from, to)
  BY <1>1, <1>2 DEF Moved
<1>4. ASSUME NEW i \in 1 .. n
      PROVE  /\ M[i] = To(es[i].span, Redirection(from, to)[es[i].next_node])
             /\ M[i].span = es[i].span
             /\ M[i].next_node = IF es[i].next_node = from THEN to ELSE es[i].next_node
             /\ M[i] \in Edges(X)
  <2>1. PICK e \in Edges(X) : e = es[i]
    BY <1>1
  <2>2. e.span \in X /\ e.next_node \in Nat /\ e = To(e.span, e.next_node)
    BY EdgeIs
  <2>3. Redirection(from, to)[e.next_node] = IF e.next_node = from THEN to ELSE e.next_node
    BY <2>2 DEF Redirection
  <2>4. PICK k \in Nat : k = IF e.next_node = from THEN to ELSE e.next_node
    BY <2>2
  <2>5. M[i] = To(e.span, k)
    BY <1>2, <2>1, <2>2, <2>4
  <2>6. To(e.span, k) \in Edges(X) /\ To(e.span, k).span = e.span /\ To(e.span, k).next_node = k
    BY <2>2, IsEdge
  <2> QED BY <2>1, <2>3, <2>4, <2>5, <2>6
<1>5. M \in Seq(Edges(X)) /\ Len(M) = n
  <2>1. M = [ i \in 1 .. n |-> M[i] ]
    BY <1>2
  <2>2. \A i \in 1 .. n : M[i] \in Edges(X)
    BY <1>4
  <2> QED BY <2>1, <2>2
<1> QED BY <1>1, <1>3, <1>4, <1>5

LEMMA RedirectedIs ==
  ASSUME NEW X, NEW es \in Seq(Edges(X)), EdgesDiffer(es),
         NEW from \in Nat, NEW to \in Nat, from # to, from # GRAPH_END, to # GRAPH_END
  PROVE  /\ Redirected(es, from, to) \in Seq(Edges(X)) /\ EdgesDiffer(Redirected(es, from, to))
         /\ IsImage(Redirected(es, from, to), es, Redirection(from, to))
<1>1. PICK n \in Nat : n = Len(es) /\ DOMAIN es = 1 .. n
  OBVIOUS
<1>2. PICK M : M = Moved(es, from, to)
  OBVIOUS
<1>3. /\ M \in Seq(Edges(X)) /\ Len(M) = n
      /\ \A i \in 1 .. n :
           /\ M[i] = To(es[i].span, Redirection(from, to)[es[i].next_node])
           /\ M[i].span = es[i].span
           /\ M[i].next_node = IF es[i].next_node = from THEN to ELSE es[i].next_node
  BY <1>1, <1>2, MovedIs
<1>4. PICK S : S = { i \in DOMAIN es : ~Redundant(es, from, to, i) }
  OBVIOUS
<1>5. PICK R : R = Redirected(es, from, to)
  OBVIOUS
<1>6. R = Picked(M, S)
  BY <1>2, <1>4, <1>5, RedirectedDef
<1>7. R \in Seq(Edges(X)) /\ \E m, ps : PickedAt(R, M, S, m, ps)
  BY <1>3, <1>6, PickedIs
<1>8. PICK m, ps : PickedAt(R, M, S, m, ps)
  BY <1>7
<1>9. Places(ps, m, n, S) /\ Len(R) = m /\ \A k \in 1 .. m : R[k] = M[ps[k]]
  BY <1>3, <1>8 DEF PickedAt
<1>10. /\ m \in Nat /\ \A k \in 1 .. m : ps[k] \in 1 .. n /\ ps[k] \in S
       /\ \A i \in 1 .. n : i \in S => \E k \in 1 .. m : ps[k] = i
  BY <1>9 DEF Places
<1>11. \A i, j \in 1 .. m : ps[i] = ps[j] => i = j
  BY <1>9, PlacesDiffer
<1>12. \A i \in 1 .. n : i \in S <=> ~Redundant(es, from, to, i)
  BY <1>1, <1>4
<1>13. ASSUME NEW i \in 1 .. n, Redundant(es, from, to, i)
       PROVE  es[i].next_node = from /\ \E j \in S : j \in 1 .. n /\ es[j].next_node = to /\ SameEdge(M[i], M[j])
  <2>1. es[i].next_node = from
    BY <1>13 DEF Redundant
  <2>2. PICK j \in 1 .. n : SameEdge(M[i], M[j]) /\ (j < i \/ es[j].next_node = to)
    BY <1>1, <1>2, <1>13 DEF Redundant
  <2>3. M[i].next_node = to /\ M[j].next_node = to /\ SameSpan(es[i].span, es[j].span)
    BY <1>3, <2>1, <2>2, SameEdges
  <2>4. es[j].next_node # from
    <3> SUFFICES ASSUME es[j].next_node = from PROVE FALSE
      OBVIOUS
    <3>1. j < i /\ i # j
      BY <2>2
    <3>2. SameEdge(es[i], es[j])
      BY <2>1, <2>3, SameEdges
    <3> QED BY <1>1, <2>1, <3>1, <3>2 DEF EdgesDiffer
  <2>5. es[j].next_node = to
    BY <1>3, <2>3, <2>4
  <2>6. j \in S
    BY <1>12, <2>4 DEF Redundant
  <2> QED BY <2>1, <2>2, <2>5, <2>6
<1>14. ASSUME NEW i \in 1 .. n, NEW j \in 1 .. n, i \in S, j \in S, i # j
       PROVE  M[i] # M[j] /\ (M[i].next_node # GRAPH_END => ~SameEdge(M[i], M[j]))
  <2>1. es[i] # es[j] /\ (es[i].next_node # GRAPH_END => ~SameEdge(es[i], es[j]))
    BY <1>1, <1>14 DEF EdgesDiffer
  <2>2. M[i].next_node = GRAPH_END /\ M[j].next_node = GRAPH_END => M[i] = es[i] /\ M[j] = es[j]
    <3>1. \A k \in 1 .. n : M[k].next_node = GRAPH_END => es[k].next_node # from
      BY <1>3
    <3>2. \A k \in 1 .. n : es[k].next_node # from => M[k] = es[k]
      BY <1>1, <1>2 DEF Moved
    <3> QED BY <3>1, <3>2
  <2>3. ASSUME M[i].next_node # GRAPH_END, SameEdge(M[i], M[j]) PROVE FALSE
    <3>1. M[i].next_node = M[j].next_node /\ SameSpan(es[i].span, es[j].span)
      BY <1>3, <2>3, SameEdges
    <3>2. es[i].next_node = es[j].next_node => FALSE
      <4>1. es[i].next_node # GRAPH_END
        BY <1>3, <2>3
      <4> QED BY <2>1, <3>1, <4>1, SameEdges
    <3>3. CASE es[i].next_node = from
      <4>1. es[j].next_node = to
        BY <1>3, <3>1, <3>2, <3>3
      <4>2. Redundant(es, from, to, i)
        BY <1>1, <1>2, <2>3, <3>3, <4>1 DEF Redundant
      <4> QED BY <1>12, <1>14, <4>2
    <3>4. CASE es[j].next_node = from
      <4>1. es[i].next_node = to
        BY <1>3, <3>1, <3>2, <3>4
      <4>2. SameEdge(M[j], M[i])
        BY <2>3, SameEdges
      <4>3. Redundant(es, from, to, j)
        BY <1>1, <1>2, <3>4, <4>1, <4>2 DEF Redundant
      <4> QED BY <1>12, <1>14, <4>3
    <3> QED BY <1>3, <3>1, <3>2, <3>3, <3>4
  <2>4. M[i] # M[j]
    <3> SUFFICES ASSUME M[i] = M[j] PROVE FALSE
      OBVIOUS
    <3>1. SameEdge(M[i], M[j])
      BY SameEdges
    <3> QED BY <2>1, <2>2, <2>3, <3>1
  <2> QED BY <2>3, <2>4
<1>15. EdgesDiffer(R)
  <2>1. ASSUME NEW i \in 1 .. m, NEW j \in 1 .. m, i # j
        PROVE  R[i] # R[j] /\ (R[i].next_node # GRAPH_END => ~SameEdge(R[i], R[j]))
    <3>1. ps[i] \in 1 .. n /\ ps[j] \in 1 .. n /\ ps[i] \in S /\ ps[j] \in S /\ ps[i] # ps[j]
      BY <1>10, <1>11, <2>1
    <3>2. R[i] = M[ps[i]] /\ R[j] = M[ps[j]]
      BY <1>9
    <3> QED BY <1>14, <3>1, <3>2
  <2> QED BY <1>9, <2>1 DEF EdgesDiffer
<1>16. IsImage(R, es, Redirection(from, to))
  <2>1. ASSUME NEW i \in 1 .. Len(R)
        PROVE  \E j \in 1 .. Len(es) : R[i] = To(es[j].span, Redirection(from, to)[es[j].next_node])
    <3>1. ps[i] \in 1 .. n /\ R[i] = M[ps[i]]
      BY <1>9, <1>10, <2>1
    <3>2. M[ps[i]] = To(es[ps[i]].span, Redirection(from, to)[es[ps[i]].next_node])
      BY <1>3, <3>1
    <3> QED BY <1>1, <3>1, <3>2
  <2>2. ASSUME NEW j \in 1 .. Len(es)
        PROVE  \E i \in 1 .. Len(R) : R[i].next_node = Redirection(from, to)[es[j].next_node]
                                      /\ SameSpan(R[i].span, es[j].span)
    <3>0. j \in 1 .. n /\ es[j].next_node \in Nat
      BY <1>1, EdgeIs
    <3>1. PICK i \in 1 .. n : i \in S /\ M[i].next_node = M[j].next_node /\ SameSpan(M[i].span, es[j].span)
      <4>1. CASE j \in S
        BY <1>3, <3>0, <4>1 DEF SameSpan
      <4>2. CASE j \notin S
        <5>1. PICK i \in 1 .. n : i \in S /\ SameEdge(M[j], M[i])
          BY <1>12, <1>13, <3>0, <4>2
        <5>2. SameEdge(M[i], M[j])
          BY <5>1, SameEdges
        <5>3. M[i].next_node = M[j].next_node /\ SameSpan(M[i].span, M[j].span)
          BY <5>2, SameEdges
        <5> QED BY <1>3, <3>0, <5>1, <5>3
      <4> QED BY <4>1, <4>2
    <3>2. PICK k \in 1 .. m : ps[k] = i
      BY <1>10, <3>1
    <3>3. M[j].next_node = Redirection(from, to)[es[j].next_node]
      BY <1>3, <3>0 DEF Redirection
    <3> QED BY <1>9, <3>1, <3>2, <3>3
  <2> QED BY <2>1, <2>2 DEF IsImage
<1> QED BY <1>5, <1>7, <1>15, <1>16

(* When no edge leads to the new target, none goes.                        *)
LEMMA RedirectedAll ==
  ASSUME NEW X, NEW es \in Seq(Edges(X)), EdgesDiffer(es),
         NEW from \in Nat, NEW to \in Nat, from # to, from # GRAPH_END,
         \A i \in 1 .. Len(es) : es[i].next_node # to
  PROVE  Redirected(es, from, to) = Moved(es, from, to)
<1>1. PICK n \in Nat : n = Len(es) /\ DOMAIN es = 1 .. n
  OBVIOUS
<1>2. PICK M : M = Moved(es, from, to)
  OBVIOUS
<1>3. /\ M \in Seq(Edges(X)) /\ Len(M) = n
      /\ \A i \in 1 .. n :
           /\ M[i].span = es[i].span
           /\ M[i].next_node = IF es[i].next_node = from THEN to ELSE es[i].next_node
  BY <1>1, <1>2, MovedIs
<1>4. ASSUME NEW i \in 1 .. n, Redundant(es, from, to, i) PROVE FALSE
  <2>1. es[i].next_node = from
    BY <1>4 DEF Redundant
  <2>2. PICK j \in 1 .. n : SameEdge(M[i], M[j]) /\ j < i
    BY <1>1, <1>2, <1>4 DEF Redundant
  <2>3. M[i].next_node = to /\ M[j].next_node = to /\ SameSpan(es[i].span, es[j].span)
    BY <1>3, <2>1, <2>2, SameEdges
  <2>4. es[j].next_node = from
    BY <1>1, <1>3, <2>3
  <2>5. SameEdge(es[i], es[j]) /\ i # j
    BY <2>1, <2>2, <2>3, <2>4, SameEdges
  <2> QED BY <1>1, <2>1, <2>5 DEF EdgesDiffer
<1>5. 1 .. Len(M) \subseteq { i \in DOMAIN es : ~Redundant(es, from, to, i) }
  BY <1>1, <1>3, <1>4
<1> QED BY <1>2, <1>3, <1>5, PickedAll, RedirectedDef

(* Targets after first move down, up to the k-th after it.                 *)
Lowering(first, k) == [ t \in Nat |-> IF first < t /\ t <= first + k THEN t - 1 ELSE t ]

(* L has the edges of es with their targets moved down.                    *)
Lowered(L, es, X, first, k) ==
  /\ L \in Seq(Edges(X)) /\ Len(L) = Len(es)
  /\ \A i \in 1 .. Len(es) : L[i] = To(es[i].span, Lowering(first, k)[es[i].next_node])

LEMMA LoweringIs ==
  ASSUME NEW first \in Nat, NEW k \in Nat, NEW t \in Nat, t # first
  PROVE  Lowering(first, k)[t] \in Nat /\ Lowering(first, k)[t] # first + k
BY DEF Lowering

LEMMA LoweringBegins ==
  ASSUME NEW first \in Nat, NEW t \in Nat, t # first
  PROVE  Lowering(first, 0)[t] = t
BY DEF Lowering

LEMMA LoweringGoesOn ==
  ASSUME NEW first \in Nat, NEW k \in Nat, k # 0, NEW t \in Nat, t # first
  PROVE  Redirection(first + k, first + (k - 1))[Lowering(first, k - 1)[t]] = Lowering(first, k)[t]
<1>1. PICK u \in Nat : u = IF first < t /\ t <= first + (k - 1) THEN t - 1 ELSE t
  OBVIOUS
<1>2. Lowering(first, k - 1)[t] = u
  BY <1>1 DEF Lowering
<1>3. Redirection(first + k, first + (k - 1))[u] = IF u = first + k THEN first + (k - 1) ELSE u
  BY DEF Redirection
<1>4. Lowering(first, k)[t] = IF first < t /\ t <= first + k THEN t - 1 ELSE t
  BY DEF Lowering
<1> QED BY <1>1, <1>2, <1>3, <1>4

LEMMA LoweredIs ==
  ASSUME NEW X, NEW es \in Seq(Edges(X)), EdgesDiffer(es), NEW first \in Nat, NEW k \in Nat,
         first + k < GRAPH_END, \A i \in 1 .. Len(es) : es[i].next_node # first,
         NEW L, Lowered(L, es, X, first, k)
  PROVE  EdgesDiffer(L) /\ \A i \in 1 .. Len(L) : L[i].next_node # first + k
<1>1. PICK n \in Nat : n = Len(es) /\ Len(L) = n
  BY DEF Lowered
<1>2. \A i \in 1 .. n : es[i] \in Edges(X)
  BY <1>1
<1>3. ASSUME NEW i \in 1 .. n
      PROVE  /\ es[i].next_node \in Nat /\ es[i] = To(es[i].span, es[i].next_node) /\ es[i].next_node # first
             /\ L[i].span = es[i].span /\ L[i].next_node = Lowering(first, k)[es[i].next_node]
             /\ L[i].next_node # first + k
  <2>1. es[i].span \in X /\ es[i].next_node \in Nat /\ es[i] = To(es[i].span, es[i].next_node)
        /\ es[i].next_node # first
    BY <1>1, <1>2, EdgeIs
  <2>2. L[i] = To(es[i].span, Lowering(first, k)[es[i].next_node])
    BY <1>1 DEF Lowered
  <2>3. PICK t \in Nat : t = es[i].next_node /\ t # first
    BY <2>1
  <2>4. PICK u : u = Lowering(first, k)[t]
    OBVIOUS
  <2>5. u \in Nat /\ u # first + k
    BY <2>3, <2>4, LoweringIs
  <2>6. To(es[i].span, u).span = es[i].span /\ To(es[i].span, u).next_node = u
    BY DEF To
  <2> QED BY <2>1, <2>2, <2>3, <2>4, <2>5, <2>6
<1>4. ASSUME NEW i \in 1 .. n, NEW j \in 1 .. n, i # j
      PROVE  L[i] # L[j] /\ (L[i].next_node # GRAPH_END => ~SameEdge(L[i], L[j]))
  <2>1. es[i] # es[j] /\ (es[i].next_node # GRAPH_END => ~SameEdge(es[i], es[j]))
    BY <1>1, <1>4 DEF EdgesDiffer
  <2>0. PICK t \in Nat : t = es[i].next_node /\ t # first /\ L[i].next_node = Lowering(first, k)[t]
    BY <1>3
  <2>6. PICK u \in Nat : u = es[j].next_node /\ u # first /\ L[j].next_node = Lowering(first, k)[u]
    BY <1>3
  <2>2. L[i].next_node = L[j].next_node => es[i].next_node = es[j].next_node
    <3>1. Lowering(first, k)[t] = Lowering(first, k)[u] => t = u
      <4> SUFFICES ASSUME Lowering(first, k)[t] = Lowering(first, k)[u] PROVE t = u
        OBVIOUS
      <4>1. t # first /\ u # first
        BY <2>0, <2>6
      <4> QED BY <4>1 DEF Lowering
    <3> QED BY <2>0, <2>6, <3>1
  <2>3. L[i].next_node = GRAPH_END <=> es[i].next_node = GRAPH_END
    <3>1. PICK v \in Nat : v = GRAPH_END /\ first + k < v
      BY InflexionGraphAssumption
    <3>2. t \in Nat /\ t # first
      BY <2>0
    <3>3. Lowering(first, k)[t] = v <=> t = v
      BY <3>1, <3>2 DEF Lowering
    <3> QED BY <2>0, <3>1, <3>3
  <2>4. L[i] # L[j]
    BY <1>3, <2>1, <2>2
  <2>5. SameEdge(L[i], L[j]) => SameEdge(es[i], es[j])
    <3> SUFFICES ASSUME SameEdge(L[i], L[j]) PROVE SameEdge(es[i], es[j])
      OBVIOUS
    <3>1. L[i].next_node = L[j].next_node /\ SameSpan(L[i].span, L[j].span)
      BY SameEdges
    <3>2. L[i].span = es[i].span /\ L[j].span = es[j].span
      BY <1>3
    <3> QED BY <2>2, <3>1, <3>2, SameEdges
  <2> QED BY <2>1, <2>3, <2>4, <2>5
<1> QED BY <1>1, <1>3, <1>4 DEF EdgesDiffer

MovingDown(f, edges, first, k) ==
  f = [i \in 0 .. k |-> IF i = 0 THEN edges ELSE Redirected(f[i - 1], first + i, first + i - 1)]

LEMMA MovingDownExists ==
  ASSUME NEW edges, NEW first, NEW n \in Nat
  PROVE  \E f : MovingDown(f, edges, first, n)
<1> DEFINE bad == { k \in 0 .. n : ~ \E f : MovingDown(f, edges, first, k) }
<1> SUFFICES ASSUME bad # {} PROVE FALSE
  <2>1. n \in 0 .. n
    OBVIOUS
  <2> QED BY <2>1
<1>1. PICK k \in bad : \A i \in bad : k <= i
  <2>1. bad \in SUBSET Nat
    OBVIOUS
  <2> HIDE DEF bad
  <2> QED BY <2>1, LeastOf
<1>2. CASE k = 0
  <2> DEFINE f == [i \in 0 .. 0 |-> edges]
  <2>1. MovingDown(f, edges, first, 0)
    <3>1. \A i \in 0 .. 0 : i = 0
      OBVIOUS
    <3> QED BY <3>1 DEF MovingDown
  <2> QED BY <1>2, <2>1
<1>3. CASE k # 0
  <2>0. k \in 0 .. n /\ k - 1 \in 0 .. n /\ ~(k <= k - 1)
    BY <1>1, <1>3
  <2>1. k - 1 \notin bad
    <3> HIDE DEF bad
    <3> QED BY <1>1, <2>0
  <2>2. PICK g : MovingDown(g, edges, first, k - 1)
    BY <2>0, <2>1
  <2>3. PICK last : last = Redirected(g[k - 1], first + k, first + k - 1)
    OBVIOUS
  <2>4. PICK f : f = [i \in 0 .. k |-> IF i = k THEN last ELSE g[i]]
    OBVIOUS
  <2>5. ASSUME NEW i \in 0 .. k
        PROVE  f[i] = IF i = 0 THEN edges ELSE Redirected(f[i - 1], first + i, first + i - 1)
    <3>1. CASE i = k
      <4>1. k \in 0 .. k /\ k - 1 \in 0 .. k /\ k # k - 1 /\ k # 0
        BY <1>3, <2>0
      <4>2. f[k] = last /\ f[k - 1] = g[k - 1]
        BY <2>4, <4>1
      <4> QED BY <2>3, <3>1, <4>1, <4>2
    <3>2. CASE i # k
      <4>1. i \in 0 .. k - 1 /\ (i # 0 => i - 1 \in 0 .. k - 1 /\ i - 1 \in 0 .. k /\ i - 1 # k)
        BY <2>0, <3>2
      <4>2. g[i] = IF i = 0 THEN edges ELSE Redirected(g[i - 1], first + i, first + i - 1)
        BY <2>2, <4>1 DEF MovingDown
      <4>3. f[i] = g[i] /\ (i # 0 => f[i - 1] = g[i - 1])
        BY <2>4, <3>2, <4>1
      <4> QED BY <4>2, <4>3
    <3> QED BY <3>1, <3>2
  <2>6. f = [i \in 0 .. k |-> f[i]]
    BY <2>4
  <2>7. MovingDown(f, edges, first, k)
    BY <2>5, <2>6 DEF MovingDown
  <2> QED BY <1>1, <2>7
<1> QED BY <1>2, <1>3

LEMMA MovedDownIs ==
  ASSUME NEW X, NEW es \in Seq(Edges(X)), EdgesDiffer(es), NEW first \in Nat, NEW k \in Nat,
         k = GraphSize - 1 - first, first + k < GRAPH_END,
         \A i \in 1 .. Len(es) : es[i].next_node # first
  PROVE  Lowered(MovedDown(es, first), es, X, first, k)
<1> DEFINE f == CHOOSE f : MovingDown(f, es, first, k)
<1>1. MovingDown(f, es, first, k)
  BY MovingDownExists
<1>2. MovedDown(es, first) = f[k]
  BY DEF MovedDown, MovingDown
<1> HIDE DEF f
<1> DEFINE bad == { j \in 0 .. k : ~Lowered(f[j], es, X, first, j) }
<1>3. bad = {}
  <2> SUFFICES ASSUME bad # {} PROVE FALSE
    OBVIOUS
  <2>1. PICK j \in bad : \A i \in bad : j <= i
    <3>1. bad \in SUBSET Nat
      OBVIOUS
    <3> HIDE DEF bad
    <3> QED BY <3>1, LeastOf
  <2>2. j \in 0 .. k /\ j \in Nat /\ ~Lowered(f[j], es, X, first, j)
    BY <2>1
  <2>3. f[j] = IF j = 0 THEN es ELSE Redirected(f[j - 1], first + j, first + j - 1)
    BY <1>1, <2>2 DEF MovingDown
  <2>4. PICK n \in Nat : n = Len(es)
    OBVIOUS
  <2>5. \A i \in 1 .. n : es[i].next_node \in Nat /\ es[i].next_node # first /\ es[i] = To(es[i].span, es[i].next_node)
                          /\ es[i].span \in X
    <3>1. \A i \in 1 .. n : es[i] \in Edges(X)
      BY <2>4
    <3> QED BY <2>4, <3>1, EdgeIs
  <2>6. CASE j = 0
    <3>1. \A i \in 1 .. n : es[i] = To(es[i].span, Lowering(first, j)[es[i].next_node])
      BY <2>2, <2>5, <2>6, LoweringBegins
    <3> QED BY <2>2, <2>3, <2>4, <2>6, <3>1 DEF Lowered
  <2>7. CASE j # 0
    <3>1. j - 1 \in 0 .. k /\ j - 1 \in Nat /\ ~(j <= j - 1) /\ first + (j - 1) < GRAPH_END
          /\ first + (j - 1) \in Nat /\ first + j \in Nat /\ first + j # first + (j - 1) /\ first + j # GRAPH_END
          /\ first + j - 1 = first + (j - 1)
      BY <2>2, <2>7, InflexionGraphAssumption
    <3>2. j - 1 \notin bad
      <4> HIDE DEF bad
      <4> QED BY <2>1, <3>1
    <3>3. PICK L : L = f[j - 1]
      OBVIOUS
    <3>4. Lowered(L, es, X, first, j - 1)
      BY <3>1, <3>2, <3>3
    <3>5. L \in Seq(Edges(X)) /\ Len(L) = n
      BY <2>4, <3>4 DEF Lowered
    <3>6. EdgesDiffer(L) /\ \A i \in 1 .. Len(L) : L[i].next_node # first + (j - 1)
      BY <3>1, <3>4, LoweredIs
    <3>7. PICK M : M = Moved(L, first + j, first + (j - 1))
      OBVIOUS
    <3>8. f[j] = M
      <4>1. Redirected(L, first + j, first + (j - 1)) = Moved(L, first + j, first + (j - 1))
        BY <3>1, <3>5, <3>6, RedirectedAll
      <4> QED BY <2>3, <2>7, <3>1, <3>3, <3>7, <4>1
    <3>9. /\ M \in Seq(Edges(X)) /\ Len(M) = n
          /\ \A i \in 1 .. n : M[i] = To(L[i].span, Redirection(first + j, first + (j - 1))[L[i].next_node])
      <4>1. PICK from \in Nat, to \in Nat : from = first + j /\ to = first + (j - 1)
        BY <3>1
      <4>2. M = Moved(L, from, to)
        BY <3>7, <4>1
      <4>3. /\ M \in Seq(Edges(X)) /\ Len(M) = n
            /\ \A i \in 1 .. n : M[i] = To(L[i].span, Redirection(from, to)[L[i].next_node])
        <5>1. L \in Seq(Edges(X))
          BY <3>5
        <5>2. /\ Moved(L, from, to) \in Seq(Edges(X)) /\ Len(Moved(L, from, to)) = Len(L)
              /\ \A i \in 1 .. Len(L) : Moved(L, from, to)[i] = To(L[i].span, Redirection(from, to)[L[i].next_node])
          BY <5>1, MovedIs
        <5> QED BY <3>5, <4>2, <5>2
      <4> QED BY <4>1, <4>3
    <3>10. ASSUME NEW i \in 1 .. n PROVE M[i] = To(es[i].span, Lowering(first, j)[es[i].next_node])
      <4>1. PICK t \in Nat : t = es[i].next_node /\ t # first /\ es[i].span \in X
        BY <2>5
      <4>2. L[i] = To(es[i].span, Lowering(first, j - 1)[t])
        BY <2>4, <3>4, <4>1 DEF Lowered
      <4>4. L[i].span = es[i].span /\ L[i].next_node = Lowering(first, j - 1)[t]
        BY <4>2 DEF To
      <4>5. Redirection(first + j, first + (j - 1))[Lowering(first, j - 1)[t]] = Lowering(first, j)[t]
        BY <2>2, <2>7, <4>1, LoweringGoesOn
      <4> QED BY <3>1, <3>9, <4>1, <4>4, <4>5
    <3>11. Lowered(M, es, X, first, j)
      BY <2>4, <3>9, <3>10 DEF Lowered
    <3> QED BY <2>2, <3>8, <3>11
  <2> QED BY <2>6, <2>7
<1>4. k \in 0 .. k
  OBVIOUS
<1> QED BY <1>2, <1>3, <1>4

(* L has the edges of u and v, one for those that are the same.            *)
JoinOf(L, u, v, X) ==
  /\ L \in Seq(Edges(X)) /\ EdgesDiffer(L)
  /\ \A i \in 1 .. Len(L) : (\E j \in 1 .. Len(u) : L[i] = u[j]) \/ \E j \in 1 .. Len(v) : L[i] = v[j]
  /\ \A j \in 1 .. Len(u) : \E i \in 1 .. Len(L) : L[i] = u[j]
  /\ \A j \in 1 .. Len(v) : \E i \in 1 .. Len(L) : SameEdge(L[i], v[j])

LEMMA JoinedIs ==
  ASSUME NEW X, NEW n1, NEW n2, NEW u \in Seq(Edges(X)), NEW v \in Seq(Edges(X)),
         u = graph[n1], v = graph[n2], EdgesDiffer(u)
  PROVE  JoinOf(Joined(n1, n2), u, v, X)
<1>1. PICK a \in Nat : a = Len(u) /\ DOMAIN u = 1 .. a
  OBVIOUS
<1>2. PICK b \in Nat : b = Len(v) /\ DOMAIN v = 1 .. b
  OBVIOUS
<1>3. PICK C : C = { i \in 1 .. b : /\ ~EdgeIn(u, v[i])
                                     /\ \A j \in 1 .. i - 1 : ~SameEdge(v[j], v[i]) }
  OBVIOUS
<1>4. PICK w : w = Picked(v, C)
  OBVIOUS
<1>5. PICK L : L = Joined(n1, n2)
  OBVIOUS
<1>6. L = u \o w
  BY <1>2, <1>3, <1>4, <1>5 DEF Joined
<1>7. w \in Seq(Edges(X)) /\ \E m, ps : PickedAt(w, v, C, m, ps)
  BY <1>4, PickedIs
<1>8. PICK m, ps : PickedAt(w, v, C, m, ps)
  BY <1>7
<1>9. Places(ps, m, b, C) /\ Len(w) = m /\ \A k \in 1 .. m : w[k] = v[ps[k]]
  BY <1>2, <1>8 DEF PickedAt
<1>10. /\ m \in Nat /\ \A k \in 1 .. m : ps[k] \in 1 .. b /\ ps[k] \in C
       /\ \A i \in 1 .. b : i \in C => \E k \in 1 .. m : ps[k] = i
  BY <1>9 DEF Places
<1>11. \A i, j \in 1 .. m : ps[i] = ps[j] => i = j
  BY <1>9, PlacesDiffer
<1>12. /\ L \in Seq(Edges(X)) /\ Len(L) = a + m
       /\ \A i \in 1 .. a : L[i] = u[i]
       /\ \A i \in 1 .. m : L[a + i] = w[i]
  <2>1. Len(w) = m /\ m \in Nat
    BY <1>9, <1>10
  <2>8. w \in Seq(Edges(X))
    BY <1>7
  <2>2. L \in Seq(Edges(X)) /\ Len(L) = a + m
    BY <1>1, <1>6, <2>1, <2>8, ConcatProperties
  <2>3. \A i \in 1 .. a + m : L[i] = IF i <= a THEN u[i] ELSE w[i - a]
    BY <1>1, <1>6, <2>1, <2>8, ConcatProperties
  <2>4. \A i \in 1 .. a : i \in 1 .. a + m /\ i <= a
    BY <2>1
  <2>5. \A i \in 1 .. m : a + i \in 1 .. a + m /\ ~(a + i <= a) /\ (a + i) - a = i
    BY <2>1
  <2>6. \A i \in 1 .. a : L[i] = u[i]
    BY <2>3, <2>4
  <2>7. \A i \in 1 .. m : L[a + i] = w[i]
    BY <2>3, <2>5
  <2> QED BY <2>2, <2>6, <2>7
<1>13. ASSUME NEW i \in 1 .. a + m
       PROVE  i \in 1 .. a \/ (i - a \in 1 .. m /\ i = a + (i - a))
  BY <1>10
<1>14. ASSUME NEW i \in 1 .. a + m, ~(i \in 1 .. a)
       PROVE  /\ i - a \in 1 .. m /\ L[i] = v[ps[i - a]] /\ ps[i - a] \in 1 .. b /\ ps[i - a] \in C
  <2>1. PICK k \in 1 .. m : k = i - a /\ i = a + k
    BY <1>13, <1>14
  <2> QED BY <1>9, <1>10, <1>12, <2>1
<1>15. ASSUME NEW i \in 1 .. a, NEW c \in C PROVE ~SameEdge(u[i], v[c])
  BY <1>1, <1>3 DEF EdgeIn
<1>16. ASSUME NEW c \in C, NEW d \in C, c # d PROVE ~SameEdge(v[c], v[d])
  <2>1. c \in 1 .. b /\ d \in 1 .. b
    BY <1>3
  <2>2. CASE c < d
    <3>1. c \in 1 .. d - 1
      BY <2>1, <2>2
    <3> QED BY <1>3, <3>1
  <2>3. CASE d < c
    <3>1. d \in 1 .. c - 1
      BY <2>1, <2>3
    <3> QED BY <1>3, <3>1, SameEdges
  <2> QED BY <1>16, <2>1, <2>2, <2>3
<1>17. EdgesDiffer(L)
  <2>1. ASSUME NEW i \in 1 .. a + m, NEW j \in 1 .. a + m, i # j
        PROVE  L[i] # L[j] /\ (L[i].next_node # GRAPH_END => ~SameEdge(L[i], L[j]))
    <3>1. CASE i \in 1 .. a /\ j \in 1 .. a
      BY <1>1, <1>12, <2>1, <3>1 DEF EdgesDiffer
    <3>2. CASE i \in 1 .. a /\ ~(j \in 1 .. a)
      <4>1. ~SameEdge(L[i], L[j])
        BY <1>12, <1>14, <1>15, <3>2
      <4> QED BY <4>1, SameEdges
    <3>3. CASE ~(i \in 1 .. a) /\ j \in 1 .. a
      <4>1. ~SameEdge(L[j], L[i])
        BY <1>12, <1>14, <1>15, <3>3
      <4> QED BY <4>1, SameEdges
    <3>4. CASE ~(i \in 1 .. a) /\ ~(j \in 1 .. a)
      <4>1. i - a # j - a
        BY <2>1
      <4>2. ps[i - a] # ps[j - a]
        BY <1>11, <1>14, <3>4, <4>1
      <4>3. ~SameEdge(L[i], L[j])
        BY <1>14, <1>16, <3>4, <4>2
      <4> QED BY <4>3, SameEdges
    <3> QED BY <3>1, <3>2, <3>3, <3>4
  <2> QED BY <1>12, <2>1 DEF EdgesDiffer
<1>18. ASSUME NEW i \in 1 .. Len(L)
       PROVE  (\E j \in 1 .. Len(u) : L[i] = u[j]) \/ (\E j \in 1 .. Len(v) : L[i] = v[j])
  <2>1. i \in 1 .. a + m
    BY <1>12
  <2>2. CASE i \in 1 .. a
    BY <1>1, <1>12, <2>2
  <2>3. CASE ~(i \in 1 .. a)
    BY <1>2, <1>14, <2>1, <2>3
  <2> QED BY <2>2, <2>3
<1>19. ASSUME NEW j \in 1 .. Len(u) PROVE \E i \in 1 .. Len(L) : L[i] = u[j]
  <2>1. j \in 1 .. a /\ j \in 1 .. a + m
    BY <1>1, <1>10
  <2> QED BY <1>12, <2>1
<1>20. ASSUME NEW j \in 1 .. Len(v) PROVE \E i \in 1 .. Len(L) : SameEdge(L[i], v[j])
  <2>1. CASE EdgeIn(u, v[j])
    <3>1. PICK i \in 1 .. a : SameEdge(u[i], v[j])
      BY <1>1, <2>1 DEF EdgeIn
    <3>2. i \in 1 .. a + m
      BY <1>10
    <3> QED BY <1>12, <3>1, <3>2
  <2>2. CASE ~EdgeIn(u, v[j])
    <3> DEFINE D == { i \in 1 .. b : SameEdge(v[i], v[j]) }
    <3>1. PICK c \in D : \A i \in D : c <= i
      <4>1. j \in D
        BY <1>2, SameEdges
      <4>2. D \in SUBSET Nat
        OBVIOUS
      <4> HIDE DEF D
      <4> QED BY <4>1, <4>2, LeastOf
    <3>2. c \in 1 .. b /\ SameEdge(v[c], v[j])
      BY <3>1
    <3>3. \A d, e, f : SameEdge(d, e) /\ SameEdge(e, f) => SameEdge(d, f)
      BY DEF SameEdge
    <3>4. ~EdgeIn(u, v[c])
      BY <2>2, <3>2, <3>3 DEF EdgeIn
    <3>5. ASSUME NEW i \in 1 .. c - 1, SameEdge(v[i], v[c]) PROVE FALSE
      <4>1. i \in 1 .. b /\ ~(c <= i)
        BY <3>2
      <4>2. SameEdge(v[i], v[j])
        BY <3>2, <3>3, <3>5
      <4>3. i \in D
        BY <4>1, <4>2
      <4> HIDE DEF D
      <4> QED BY <3>1, <4>1, <4>3
    <3>6. c \in C
      BY <1>3, <3>2, <3>4, <3>5
    <3>7. PICK k \in 1 .. m : ps[k] = c
      BY <1>10, <3>2, <3>6
    <3>8. a + k \in 1 .. a + m /\ L[a + k] = v[c]
      BY <1>9, <1>10, <1>12, <3>7
    <3> QED BY <1>12, <3>2, <3>8
  <2> QED BY <2>1, <2>2
<1> QED BY <1>5, <1>12, <1>17, <1>18, <1>19, <1>20 DEF JoinOf

-----------------------------------------------------------------------------
(* One merge                                                               *)

(* An edge leads forward, or to a node at which no merge changes anything. *)
Settled(G, start, N) ==
  \A n \in 0 .. N - 1 : \A i \in 1 .. Len(G[n]) : G[n][i].next_node # GRAPH_END =>
    \/ n < G[n][i].next_node
    \/ \A m1, m2 \in 0 .. N - 1 : m1 < m2 /\ start[m1] = start[m2] => G[n][i].next_node <= m1

(* The nodes n1 and n2 of the graph can be merged, and none before n1.     *)
MergesAt(N, n1, n2) ==
  /\ IsGraphOf(graph, node2start, N, KeptSpans) /\ Settled(graph, node2start, N) /\ N = GraphSize
  /\ n1 \in 0 .. N - 1 /\ n2 \in 0 .. N - 1 /\ n1 < n2 /\ node2start[n1] = node2start[n2]
  /\ \A m1, m2 \in 0 .. N - 1 : m1 < m2 /\ node2start[m1] = node2start[m2] => n1 <= m1

JoinedAt(n1, n2, o) == IF o = n1 THEN Joined(n1, n2) ELSE graph[o]

LEMMA JoinedNodes ==
  ASSUME PathsInv, NEW N, NEW n1, NEW n2, MergesAt(N, n1, n2), NEW o \in 0 .. N - 1, o # n2,
         NEW E, E = JoinedAt(n1, n2, o)
  PROVE  /\ E \in Seq(Edges(KeptSpans)) /\ EdgesDiffer(E) /\ 1 \in 1 .. Len(E)
         /\ \A i \in 1 .. Len(E) :
              /\ EdgeFits(E[i], o, node2start, N, KeptSpans)
              /\ E[i].next_node # GRAPH_END => o < E[i].next_node \/ E[i].next_node <= n1
         /\ \A j \in 1 .. Len(graph[o]) : \E i \in 1 .. Len(E) : SameSpan(E[i].span, graph[o][j].span)
         /\ o = n1 => \A j \in 1 .. Len(graph[n2]) : \E i \in 1 .. Len(E) : SameSpan(E[i].span, graph[n2][j].span)
<1>1. \A n \in 0 .. N - 1 : NodeFits(graph[n], n, node2start, N, KeptSpans)
  BY DEF MergesAt, IsGraphOf
<1>2. n1 \in 0 .. N - 1 /\ n2 \in 0 .. N - 1 /\ n1 < n2 /\ node2start[n1] = node2start[n2] /\ N \in Nat
  BY DEF MergesAt, IsGraphOf
<1>3. ASSUME NEW n \in 0 .. N - 1, NEW i \in 1 .. Len(graph[n])
      PROVE  /\ EdgeFits(graph[n][i], n, node2start, N, KeptSpans)
             /\ graph[n][i].next_node # GRAPH_END => n < graph[n][i].next_node \/ graph[n][i].next_node <= n1
  <2>1. EdgeFits(graph[n][i], n, node2start, N, KeptSpans)
    BY <1>1 DEF NodeFits
  <2>2. graph[n][i].next_node # GRAPH_END => n < graph[n][i].next_node \/ graph[n][i].next_node <= n1
    BY <1>2 DEF MergesAt, Settled
  <2> QED BY <2>1, <2>2
<1>4. CASE o # n1
  <2>1. E = graph[o]
    BY <1>4 DEF JoinedAt
  <2>2. E \in Seq(Edges(KeptSpans)) /\ EdgesDiffer(E)
    BY <1>1, <2>1 DEF NodeFits
  <2>3. IsGraphOf(graph, node2start, N, KeptSpans)
    BY DEF MergesAt
  <2>4. 1 \in 1 .. Len(E)
    BY <2>1, <2>3, NodeStarts
  <2>5. \A s : SameSpan(s, s)
    BY DEF SameSpan
  <2> QED BY <1>3, <1>4, <2>1, <2>2, <2>4, <2>5
<1>5. CASE o = n1
  <2>1. E = Joined(n1, n2)
    BY <1>5 DEF JoinedAt
  <2>2. PICK u : u = graph[n1]
    OBVIOUS
  <2>3. PICK v : v = graph[n2]
    OBVIOUS
  <2>4. u \in Seq(Edges(KeptSpans)) /\ EdgesDiffer(u) /\ v \in Seq(Edges(KeptSpans))
    BY <1>1, <1>2, <2>2, <2>3 DEF NodeFits
  <2>5. /\ E \in Seq(Edges(KeptSpans)) /\ EdgesDiffer(E)
        /\ \A i \in 1 .. Len(E) : \/ \E j \in 1 .. Len(u) : E[i] = u[j]
                                  \/ \E j \in 1 .. Len(v) : E[i] = v[j]
        /\ \A j \in 1 .. Len(u) : \E i \in 1 .. Len(E) : E[i] = u[j]
        /\ \A j \in 1 .. Len(v) : \E i \in 1 .. Len(E) : SameEdge(E[i], v[j])
    <3>1. JoinOf(E, u, v, KeptSpans)
      BY <2>1, <2>2, <2>3, <2>4, JoinedIs
    <3> QED BY <3>1 DEF JoinOf
  <2>6. 1 \in 1 .. Len(E)
    <3>1. IsGraphOf(graph, node2start, N, KeptSpans)
      BY DEF MergesAt
    <3>2. 1 \in 1 .. Len(u)
      BY <1>2, <2>2, <3>1, NodeStarts
    <3>3. PICK i \in 1 .. Len(E) : E[i] = u[1]
      BY <2>5, <3>2
    <3>4. Len(E) \in Nat
      BY <2>5
    <3> QED BY <3>3, <3>4
  <2>7. ASSUME NEW i \in 1 .. Len(E)
        PROVE  /\ EdgeFits(E[i], o, node2start, N, KeptSpans)
               /\ E[i].next_node # GRAPH_END => o < E[i].next_node \/ E[i].next_node <= n1
    <3>1. CASE \E j \in 1 .. Len(u) : E[i] = u[j]
      BY <1>2, <1>3, <1>5, <2>2, <3>1
    <3>2. CASE \E j \in 1 .. Len(v) : E[i] = v[j]
      <4>1. PICK j \in 1 .. Len(v) : E[i] = v[j]
        BY <3>2
      <4>2. EdgeFits(v[j], n2, node2start, N, KeptSpans)
            /\ (v[j].next_node # GRAPH_END => n2 < v[j].next_node \/ v[j].next_node <= n1)
        BY <1>2, <1>3, <2>3
      <4>3. EdgeFits(E[i], o, node2start, N, KeptSpans)
        BY <1>2, <1>5, <4>1, <4>2 DEF EdgeFits
      <4>4. E[i].next_node # GRAPH_END => E[i].next_node \in Nat
        BY <1>2, <4>3 DEF EdgeFits
      <4> QED BY <1>2, <1>5, <4>1, <4>2, <4>3, <4>4
    <3> QED BY <2>5, <3>1, <3>2
  <2>8. ASSUME NEW j \in 1 .. Len(u) PROVE \E i \in 1 .. Len(E) : SameSpan(E[i].span, u[j].span)
    BY <2>5 DEF SameSpan
  <2>9. ASSUME NEW j \in 1 .. Len(v) PROVE \E i \in 1 .. Len(E) : SameSpan(E[i].span, v[j].span)
    BY <2>5, SameEdges
  <2> QED BY <1>5, <2>2, <2>3, <2>5, <2>6, <2>7, <2>8, <2>9
<1> QED BY <1>4, <1>5

(* The node a node was before n2 was removed, and where a node goes.       *)
Before(n2, n) == IF n < n2 THEN n ELSE n + 1

Merging(n1, n2, N) ==
  [ t \in Nat |-> IF t = n2 THEN n1 ELSE IF n2 < t /\ t < N THEN t - 1 ELSE t ]

LEMMA MergedNodes ==
  ASSUME PathsInv, NEW N, NEW n1, NEW n2, MergesAt(N, n1, n2), Merge(n1, n2), NEW n \in 0 .. N - 2,
         NEW E, E = JoinedAt(n1, n2, Before(n2, n))
  PROVE  /\ graph'[n] \in Seq(Edges(KeptSpans)) /\ EdgesDiffer(graph'[n])
         /\ IsImage(graph'[n], E, Merging(n1, n2, N))
<1>1. /\ N \in Nat /\ N <= GRAPH_END /\ GRAPH_END \in Nat /\ N = GraphSize /\ DOMAIN graph = 0 .. N - 1
      /\ n1 \in 0 .. N - 1 /\ n2 \in 0 .. N - 1 /\ n1 < n2 /\ n1 \in Nat /\ n2 \in Nat /\ n1 # n2
      /\ n1 # GRAPH_END /\ n2 # GRAPH_END
  BY InflexionGraphAssumption DEF MergesAt, IsGraphOf
<1>2. PICK o \in 0 .. N - 1 : o = Before(n2, n) /\ o # n2 /\ (n < n2 <=> o < n2) /\ (n < n2 => o = n) /\ (~(n < n2) => o = n + 1)
  BY <1>1 DEF Before
<1>3. E = JoinedAt(n1, n2, o)
  BY <1>2
<1>4. /\ E \in Seq(Edges(KeptSpans)) /\ EdgesDiffer(E)
      /\ \A i \in 1 .. Len(E) : E[i].next_node # GRAPH_END => o < E[i].next_node \/ E[i].next_node <= n1
  BY <1>2, <1>3, JoinedNodes
<1>5. PICK l \in Nat : l = Len(E)
  BY <1>4
<1>6. \A i \in 1 .. l : E[i].next_node \in Nat /\ E[i].span \in KeptSpans /\ E[i] = To(E[i].span, E[i].next_node)
  <2>1. \A i \in 1 .. l : E[i] \in Edges(KeptSpans)
    BY <1>4, <1>5
  <2> QED BY <2>1, EdgeIs
<1>7. PICK RR : RR = IF o < n2 THEN Redirected(E, n2, n1) ELSE E
  OBVIOUS
<1>8. PICK first \in Nat : first = (IF n < n2 THEN n2 ELSE n + 1) /\ first < N
  BY <1>1
<1>9. graph'[n] = MovedDown(RR, first)
  <2>1. PICK J : J = [graph EXCEPT ![n1] = Joined(n1, n2)] /\ graph' = WithoutNode(RedirectEdges(J, n2, n1), n2)
    BY DEF Merge
  <2>2. DOMAIN J = 0 .. N - 1 /\ J[o] = E
    BY <1>1, <1>2, <1>3, <2>1 DEF JoinedAt
  <2>3. PICK Q : Q = RedirectEdges(J, n2, n1)
    OBVIOUS
  <2>4. Q[o] = RR
    BY <1>2, <1>7, <2>2, <2>3 DEF RedirectEdges
  <2>5. graph'[n] = IF n < n2 THEN MovedDown(Q[n], n2) ELSE MovedDown(Q[n + 1], n + 1)
    BY <1>1, <2>1, <2>3 DEF WithoutNode
  <2> QED BY <1>2, <1>8, <2>4, <2>5
<1>10. /\ RR \in Seq(Edges(KeptSpans)) /\ EdgesDiffer(RR) /\ IsImage(RR, E, Redirection(n2, n1))
  <2>1. CASE o < n2
    BY <1>1, <1>4, <1>7, <2>1, RedirectedIs
  <2>2. CASE ~(o < n2)
    <3>1. RR = E
      BY <1>7, <2>2
    <3>2. \A i \in 1 .. l : Redirection(n2, n1)[E[i].next_node] = E[i].next_node
      <4> SUFFICES ASSUME NEW i \in 1 .. l PROVE Redirection(n2, n1)[E[i].next_node] = E[i].next_node
        OBVIOUS
      <4>1. PICK t \in Nat : t = E[i].next_node
        BY <1>6
      <4>2. t # n2
        BY <1>1, <1>2, <1>4, <1>5, <2>2, <4>1
      <4> QED BY <4>1, <4>2 DEF Redirection
    <3> QED BY <1>4, <1>5, <1>6, <3>1, <3>2 DEF IsImage, SameSpan
  <2> QED BY <2>1, <2>2
<1>11. ASSUME NEW i \in 1 .. l
       PROVE  /\ Redirection(n2, n1)[E[i].next_node] \in Nat
              /\ Redirection(n2, n1)[E[i].next_node] # first
              /\ Lowering(first, N - 1 - first)[Redirection(n2, n1)[E[i].next_node]] = Merging(n1, n2, N)[E[i].next_node]
  <2>1. PICK t \in Nat : t = E[i].next_node /\ (t # GRAPH_END => o < t \/ t <= n1)
    BY <1>4, <1>5, <1>6
  <2>2. PICK u \in Nat : u = (IF t = n2 THEN n1 ELSE t)
    BY <1>1
  <2>3. Redirection(n2, n1)[t] = u
    BY <2>2 DEF Redirection
  <2>4. Lowering(first, N - 1 - first)[u] = IF first < u /\ u <= first + (N - 1 - first) THEN u - 1 ELSE u
    BY DEF Lowering
  <2>5. Merging(n1, n2, N)[t] = IF t = n2 THEN n1 ELSE IF n2 < t /\ t < N THEN t - 1 ELSE t
    BY DEF Merging
  <2>6. u # first
    BY <1>1, <1>2, <1>8, <2>1, <2>2
  <2>7. (IF first < u /\ u <= first + (N - 1 - first) THEN u - 1 ELSE u)
          = IF t = n2 THEN n1 ELSE IF n2 < t /\ t < N THEN t - 1 ELSE t
    BY <1>1, <1>2, <1>8, <2>1, <2>2
  <2> QED BY <2>1, <2>2, <2>3, <2>4, <2>5, <2>6, <2>7
<1>12. PICK r \in Nat : r = Len(RR)
  BY <1>10
<1>13. ASSUME NEW i \in 1 .. r
       PROVE  \E j \in 1 .. l : /\ RR[i] = To(E[j].span, Redirection(n2, n1)[E[j].next_node])
                                /\ RR[i].next_node = Redirection(n2, n1)[E[j].next_node] /\ RR[i].span = E[j].span
  <2>1. PICK j \in 1 .. l : RR[i] = To(E[j].span, Redirection(n2, n1)[E[j].next_node])
    BY <1>5, <1>10, <1>12 DEF IsImage
  <2> QED BY <2>1 DEF To
<1>14. \A i \in 1 .. r : RR[i].next_node # first
  BY <1>11, <1>13
<1>15. PICK k \in Nat : k = N - 1 - first /\ first + k < GRAPH_END
  <2>1. N - 1 - first \in Nat /\ first + (N - 1 - first) < GRAPH_END
    BY <1>1, <1>8
  <2> QED BY <2>1
<1>16. PICK L : L = graph'[n]
  OBVIOUS
<1>17. Lowered(L, RR, KeptSpans, first, k)
  BY <1>1, <1>9, <1>10, <1>12, <1>14, <1>15, <1>16, MovedDownIs
<1>18. /\ L \in Seq(Edges(KeptSpans)) /\ Len(L) = r
       /\ \A i \in 1 .. r : L[i] = To(RR[i].span, Lowering(first, k)[RR[i].next_node])
  BY <1>12, <1>17 DEF Lowered
<1>19. EdgesDiffer(L)
  BY <1>10, <1>12, <1>14, <1>15, <1>17, LoweredIs
<1>20. ASSUME NEW i \in 1 .. r PROVE \E j \in 1 .. l : L[i] = To(E[j].span, Merging(n1, n2, N)[E[j].next_node])
  <2>1. PICK j \in 1 .. l : RR[i].next_node = Redirection(n2, n1)[E[j].next_node] /\ RR[i].span = E[j].span
    BY <1>13
  <2>2. L[i] = To(E[j].span, Lowering(first, k)[Redirection(n2, n1)[E[j].next_node]])
    BY <1>18, <2>1
  <2>3. Lowering(first, k)[Redirection(n2, n1)[E[j].next_node]] = Merging(n1, n2, N)[E[j].next_node]
    BY <1>11, <1>15
  <2> QED BY <2>2, <2>3
<1>21. ASSUME NEW j \in 1 .. l
       PROVE  \E i \in 1 .. r : L[i].next_node = Merging(n1, n2, N)[E[j].next_node] /\ SameSpan(L[i].span, E[j].span)
  <2>1. PICK i \in 1 .. r : RR[i].next_node = Redirection(n2, n1)[E[j].next_node] /\ SameSpan(RR[i].span, E[j].span)
    BY <1>5, <1>10, <1>12 DEF IsImage
  <2>2. L[i] = To(RR[i].span, Lowering(first, k)[Redirection(n2, n1)[E[j].next_node]])
    BY <1>18, <2>1
  <2>3. Lowering(first, k)[Redirection(n2, n1)[E[j].next_node]] = Merging(n1, n2, N)[E[j].next_node]
    BY <1>11, <1>15
  <2>4. L[i].next_node = Merging(n1, n2, N)[E[j].next_node] /\ L[i].span = RR[i].span
    BY <2>2, <2>3 DEF To
  <2> QED BY <2>1, <2>4
<1>22. IsImage(L, E, Merging(n1, n2, N))
  BY <1>5, <1>18, <1>20, <1>21 DEF IsImage
<1> QED BY <1>16, <1>18, <1>19, <1>22

LEMMA MergeKeeps ==
  ASSUME PathsInv, NEW N, NEW n1, NEW n2, MergesAt(N, n1, n2), Merge(n1, n2)
  PROVE  /\ IsGraphOf(graph', node2start', N - 1, KeptSpans) /\ Settled(graph', node2start', N - 1)
         /\ GraphSize' = N - 1
<1>1. /\ N \in Nat /\ N <= GRAPH_END /\ GRAPH_END \in Nat /\ N = GraphSize
      /\ n1 \in 0 .. N - 1 /\ n2 \in 0 .. N - 1 /\ n1 < n2 /\ n1 \in Nat /\ n2 \in Nat
      /\ node2start[n1] = node2start[n2] /\ IsGraphOf(graph, node2start, N, KeptSpans)
  BY InflexionGraphAssumption DEF MergesAt, IsGraphOf
<1>2. PICK M \in Nat : M = N - 1 /\ M - 1 = N - 2 /\ M <= GRAPH_END /\ M # 0 /\ n1 \in 0 .. M - 1
  <2>1. N - 1 \in Nat /\ (N - 1) - 1 = N - 2 /\ N - 1 <= GRAPH_END /\ N - 1 # 0 /\ n1 \in 0 .. (N - 1) - 1
    BY <1>1
  <2> QED BY <2>1
<1>3. PICK G : G = graph'
  OBVIOUS
<1>4. PICK start : start = node2start'
  OBVIOUS
<1>5. DOMAIN G = 0 .. M - 1 /\ \A n \in 0 .. M - 1 : start[n] = node2start[Before(n2, n)]
  BY <1>1, <1>2, <1>3, <1>4 DEF Merge, WithoutNode, Before
<1>6. ASSUME NEW n \in 0 .. M - 1
      PROVE  /\ Before(n2, n) \in 0 .. N - 1 /\ Before(n2, n) # n2 /\ (n = 0 <=> Before(n2, n) = 0)
             /\ (n < n2 => Before(n2, n) = n) /\ (~(n < n2) => Before(n2, n) = n + 1)
             /\ \A m \in 0 .. M - 1 : n < m => Before(n2, n) < Before(n2, m)
  BY <1>1, <1>2 DEF Before
<1>7. n1 # 0
  <2>1. n2 # 0 => node2start[n2] # 0
    BY <1>1, NodeStarts
  <2>2. n1 = 0 => node2start[n1] = 0
    BY <1>1, NodeStarts
  <2> QED BY <1>1, <2>1, <2>2
<1>8. ASSUME NEW t \in 1 .. N - 1
      PROVE  /\ Merging(n1, n2, N)[t] \in 1 .. M - 1
             /\ start[Merging(n1, n2, N)[t]] = node2start[t]
             /\ t = n2 => Merging(n1, n2, N)[t] = n1
             /\ t < n2 => Merging(n1, n2, N)[t] = t
             /\ n2 < t => Merging(n1, n2, N)[t] = t - 1
  <2>1. PICK u : u = Merging(n1, n2, N)[t]
    OBVIOUS
  <2>2. t \in Nat /\ t < N
    BY <1>1
  <2>3. u = IF t = n2 THEN n1 ELSE IF n2 < t THEN t - 1 ELSE t
    BY <2>1, <2>2 DEF Merging
  <2>4. u \in 1 .. M - 1 /\ u \in 0 .. M - 1
    BY <1>1, <1>2, <1>7, <2>2, <2>3
  <2>5. start[u] = node2start[t]
    <3>1. start[u] = node2start[Before(n2, u)]
      BY <1>5, <2>4
    <3>2. CASE t = n2
      <4>1. u = n1 /\ Before(n2, u) = n1
        BY <1>1, <1>2, <1>6, <2>3, <3>2
      <4> QED BY <1>1, <3>1, <3>2, <4>1
    <3>3. CASE t < n2
      <4>1. u = t /\ u < n2
        BY <1>1, <2>2, <2>3, <3>3
      <4>2. Before(n2, u) = t
        BY <1>6, <2>4, <4>1
      <4> QED BY <3>1, <4>2
    <3>4. CASE n2 < t
      <4>1. u = t - 1 /\ ~(u < n2)
        BY <1>1, <2>2, <2>3, <3>4
      <4>2. Before(n2, u) = u + 1 /\ u + 1 = t
        BY <1>6, <2>2, <2>4, <4>1
      <4> QED BY <3>1, <4>2
    <3> QED BY <1>1, <2>2, <3>2, <3>3, <3>4
  <2>6. /\ t = n2 => u = n1
        /\ t < n2 => u = t
        /\ n2 < t => u = t - 1
    BY <1>1, <2>2, <2>3
  <2> QED BY <2>1, <2>4, <2>5, <2>6
<1>9. Merging(n1, n2, N)[GRAPH_END] = GRAPH_END
  <2>1. GRAPH_END # n2 /\ ~(GRAPH_END < N)
    BY <1>1
  <2> QED BY <1>1, <2>1 DEF Merging
<1>10. ASSUME NEW n \in 0 .. M - 1
       PROVE  /\ NodeFits(G[n], n, start, M, KeptSpans)
              /\ \A i \in 1 .. Len(G[n]) : G[n][i].next_node # GRAPH_END =>
                   n < G[n][i].next_node \/ G[n][i].next_node <= n1
              /\ \A s : (\E j \in 1 .. Len(graph[Before(n2, n)]) : SameSpan(graph[Before(n2, n)][j].span, s))
                     \/ (n = n1 /\ \E j \in 1 .. Len(graph[n2]) : SameSpan(graph[n2][j].span, s))
                     => \E i \in 1 .. Len(G[n]) : SameSpan(G[n][i].span, s)
  <2>1. PICK o \in 0 .. N - 1 : o = Before(n2, n) /\ o # n2 /\ (n = 0 <=> o = 0)
                                /\ (n < n2 => o = n) /\ (~(n < n2) => o = n + 1)
    BY <1>6
  <2>2. PICK E : E = JoinedAt(n1, n2, o)
    OBVIOUS
  <2>3. /\ E \in Seq(Edges(KeptSpans)) /\ EdgesDiffer(E) /\ 1 \in 1 .. Len(E)
        /\ \A i \in 1 .. Len(E) :
              /\ EdgeFits(E[i], o, node2start, N, KeptSpans)
              /\ E[i].next_node # GRAPH_END => o < E[i].next_node \/ E[i].next_node <= n1
        /\ \A j \in 1 .. Len(graph[o]) : \E i \in 1 .. Len(E) : SameSpan(E[i].span, graph[o][j].span)
        /\ o = n1 => \A j \in 1 .. Len(graph[n2]) : \E i \in 1 .. Len(E) : SameSpan(E[i].span, graph[n2][j].span)
    BY <2>1, <2>2, JoinedNodes
  <2>4. PICK L : L = G[n]
    OBVIOUS
  <2>5. L \in Seq(Edges(KeptSpans)) /\ EdgesDiffer(L) /\ IsImage(L, E, Merging(n1, n2, N))
    <3>1. n \in 0 .. N - 2
      BY <1>2
    <3> QED BY <1>3, <2>1, <2>2, <2>4, <3>1, MergedNodes
  <2>6. start[n] = node2start[o] /\ start[n] \in Nat /\ (n = 0 <=> start[n] = 0)
    <3>1. start[n] = node2start[o]
      BY <1>5, <2>1
    <3>2. node2start[o] \in Nat /\ (o = 0 <=> node2start[o] = 0)
      BY <1>1, NodeStarts
    <3> QED BY <2>1, <3>1, <3>2
  <2>7. L # <<>>
    <3>1. \E i \in 1 .. Len(L) : L[i].next_node = Merging(n1, n2, N)[E[1].next_node]
      BY <2>3, <2>5 DEF IsImage
    <3> QED BY <3>1
  <2>8. ASSUME NEW i \in 1 .. Len(L)
        PROVE  /\ EdgeFits(L[i], n, start, M, KeptSpans)
               /\ L[i].next_node # GRAPH_END => n < L[i].next_node \/ L[i].next_node <= n1
    <3>1. PICK j \in 1 .. Len(E) : L[i] = To(E[j].span, Merging(n1, n2, N)[E[j].next_node])
      BY <2>5 DEF IsImage
    <3>2. L[i].span = E[j].span /\ L[i].next_node = Merging(n1, n2, N)[E[j].next_node]
      BY <3>1 DEF To
    <3>3. /\ EdgeFits(E[j], o, node2start, N, KeptSpans)
          /\ E[j].next_node # GRAPH_END => o < E[j].next_node \/ E[j].next_node <= n1
      BY <2>3
    <3>4. L[i] \in Edges(KeptSpans)
      BY <2>5
    <3>5. L[i].span.text_start = start[n]
      BY <2>6, <3>2, <3>3 DEF EdgeFits
    <3>6. CASE E[j].next_node = GRAPH_END
      <4>1. L[i].next_node = GRAPH_END
        BY <1>9, <3>2, <3>6
      <4>2. E[j].span.text_end = WordEnd
        <5>1. \A q \in 1 .. N - 1 : q # GRAPH_END
          BY <1>1
        <5> QED BY <3>3, <3>6, <5>1 DEF EdgeFits
      <4> QED BY <3>2, <3>4, <3>5, <4>1, <4>2 DEF EdgeFits
    <3>7. CASE E[j].next_node # GRAPH_END
      <4>1. PICK t \in 1 .. N - 1 : t = E[j].next_node /\ node2start[t] = E[j].span.text_end
        BY <3>3, <3>7 DEF EdgeFits
      <4>2. PICK u : u = Merging(n1, n2, N)[t]
        OBVIOUS
      <4>3. /\ u \in 1 .. M - 1 /\ start[u] = node2start[t]
            /\ (t = n2 => u = n1) /\ (t < n2 => u = t) /\ (n2 < t => u = t - 1)
        BY <1>8, <4>2
      <4>4. EdgeFits(L[i], n, start, M, KeptSpans)
        BY <3>2, <3>4, <3>5, <4>1, <4>2, <4>3 DEF EdgeFits
      <4>5. n < u \/ u <= n1
        <5>1. o < t \/ t <= n1
          BY <3>3, <3>7, <4>1
        <5> QED BY <1>1, <1>2, <2>1, <4>3, <5>1
      <4> QED BY <3>2, <4>1, <4>2, <4>4, <4>5
    <3> QED BY <3>6, <3>7
  <2>9. NodeFits(L, n, start, M, KeptSpans)
    BY <2>5, <2>6, <2>7, <2>8 DEF NodeFits
  <2>10. ASSUME NEW s,
                \/ \E j \in 1 .. Len(graph[o]) : SameSpan(graph[o][j].span, s)
                \/ n = n1 /\ \E j \in 1 .. Len(graph[n2]) : SameSpan(graph[n2][j].span, s)
         PROVE  \E i \in 1 .. Len(L) : SameSpan(L[i].span, s)
    <3>1. \A a, b, c : SameSpan(a, b) /\ SameSpan(b, c) => SameSpan(a, c)
      BY DEF SameSpan
    <3>2. PICK j \in 1 .. Len(E) : SameSpan(E[j].span, s)
      <4>1. n = n1 => o = n1
        BY <1>1, <2>1
      <4> QED BY <2>3, <2>10, <3>1, <4>1
    <3>3. PICK i \in 1 .. Len(L) : SameSpan(L[i].span, E[j].span)
      BY <2>5 DEF IsImage
    <3> QED BY <3>1, <3>2, <3>3
  <2> QED BY <2>1, <2>4, <2>8, <2>9, <2>10
<1>11. ASSUME NEW s \in KeptSpans PROVE \E n \in 0 .. M - 1 : \E i \in 1 .. Len(G[n]) : SameSpan(G[n][i].span, s)
  <2>1. PICK m \in 0 .. N - 1 : \E i \in 1 .. Len(graph[m]) : SameSpan(graph[m][i].span, s)
    BY <1>1 DEF IsGraphOf
  <2>2. CASE m = n2
    BY <1>2, <1>10, <2>1, <2>2
  <2>3. CASE m # n2
    <3>1. PICK n \in 0 .. M - 1 : Before(n2, n) = m
      <4>1. CASE m < n2
        <5>1. m \in 0 .. M - 1
          BY <1>1, <1>2, <4>1
        <5> QED BY <4>1, <5>1 DEF Before
      <4>2. CASE n2 < m
        <5>1. m - 1 \in 0 .. M - 1 /\ ~(m - 1 < n2) /\ (m - 1) + 1 = m
          BY <1>1, <1>2, <4>2
        <5> QED BY <5>1 DEF Before
      <4> QED BY <1>1, <2>3, <4>1, <4>2
    <3> QED BY <1>10, <2>1, <3>1
  <2> QED BY <2>2, <2>3
<1>12. IsGraphOf(G, start, M, KeptSpans)
  BY <1>2, <1>5, <1>10, <1>11 DEF IsGraphOf
<1>13. Settled(G, start, M)
  <2>1. ASSUME NEW m1 \in 0 .. M - 1, NEW m2 \in 0 .. M - 1, m1 < m2, start[m1] = start[m2]
        PROVE  n1 <= m1
    <3>1. Before(n2, m1) \in 0 .. N - 1 /\ Before(n2, m2) \in 0 .. N - 1 /\ Before(n2, m1) < Before(n2, m2)
      BY <1>6, <2>1
    <3>2. node2start[Before(n2, m1)] = node2start[Before(n2, m2)]
      BY <1>5, <2>1
    <3>3. n1 <= Before(n2, m1)
      BY <3>1, <3>2 DEF MergesAt
    <3> QED BY <1>1, <1>2, <1>6, <3>3
  <2>2. ASSUME NEW n \in 0 .. M - 1, NEW i \in 1 .. Len(G[n]), G[n][i].next_node # GRAPH_END
        PROVE  \/ n < G[n][i].next_node
               \/ \A m1, m2 \in 0 .. M - 1 : m1 < m2 /\ start[m1] = start[m2] => G[n][i].next_node <= m1
    <3>1. n < G[n][i].next_node \/ G[n][i].next_node <= n1
      BY <1>10, <2>2
    <3>2. G[n][i].next_node \in Nat
      <4>1. NodeFits(G[n], n, start, M, KeptSpans)
        BY <1>10
      <4>2. EdgeFits(G[n][i], n, start, M, KeptSpans)
        BY <4>1 DEF NodeFits
      <4> QED BY <4>2, EdgeIs DEF EdgeFits
    <3>3. ASSUME G[n][i].next_node <= n1, NEW m1 \in 0 .. M - 1, n1 <= m1 PROVE G[n][i].next_node <= m1
      BY <1>1, <3>2, <3>3
    <3> QED BY <2>1, <3>1, <3>3
  <2> QED BY <2>2 DEF Settled
<1>14. GraphSize' = M
  <2>1. DOMAIN graph' = 0 .. M - 1
    BY <1>3, <1>5
  <2>2. Cardinality(0 .. M - 1) = M
    BY <1>2, FS_Interval
  <2> QED BY <2>1, <2>2 DEF GraphSize
<1> QED BY <1>2, <1>3, <1>4, <1>12, <1>13, <1>14

-----------------------------------------------------------------------------
(* Numbering the nodes                                                     *)

(* No two nodes begin at the same place.                                   *)
StartsDiffer(start, N) == \A m, n \in 0 .. N - 1 : start[m] = start[n] => m = n

StartingBefore(start, N, n) == { m \in 0 .. N - 1 : start[m] < start[n] }

LEMMA StartsAre ==
  ASSUME PathsInv, NEW N, NEW start, NEW G, IsGraphOf(G, start, N, KeptSpans), StartsDiffer(start, N)
  PROVE  /\ Starts = { start[n] : n \in 0 .. N - 1 }
         /\ \A P \in SUBSET (0 .. N - 1) :
              IsFiniteSet(P) /\ Cardinality({ start[n] : n \in P }) = Cardinality(P)
         /\ NodeAt(WordEnd) = N
         /\ \A n \in 0 .. N - 1 : NodeAt(start[n]) = Cardinality(StartingBefore(start, N, n))
<1>1. N \in Nat
  BY DEF IsGraphOf
<1>2. \A n \in 0 .. N - 1 : start[n] \in Nat /\ start[n] < WordEnd
  BY NodeStarts
<1>3. ASSUME NEW s \in KeptSpans PROVE \E n \in 0 .. N - 1 : s.text_start = start[n]
  <2>1. PICK n \in 0 .. N - 1 : \E i \in 1 .. Len(G[n]) : SameSpan(G[n][i].span, s)
    BY DEF IsGraphOf
  <2>2. PICK i \in 1 .. Len(G[n]) : SameSpan(G[n][i].span, s)
    BY <2>1
  <2>3. G[n][i].span.text_start = start[n]
    BY NodeEdges
  <2> QED BY <2>2, <2>3 DEF SameSpan
<1>4. ASSUME NEW n \in 0 .. N - 1 PROVE \E s \in KeptSpans : s.text_start = start[n]
  <2>1. 1 \in 1 .. Len(G[n])
    BY NodeStarts
  <2>2. G[n][1].span \in KeptSpans /\ G[n][1].span.text_start = start[n]
    BY <2>1, NodeEdges
  <2> QED BY <2>2
<1>5. Starts = { start[n] : n \in 0 .. N - 1 }
  BY <1>3, <1>4 DEF Starts
<1>6. IsFiniteSet(0 .. N - 1) /\ Cardinality(0 .. N - 1) = N
  BY <1>1, FS_Interval
<1>7. ASSUME NEW P \in SUBSET (0 .. N - 1)
      PROVE  IsFiniteSet(P) /\ Cardinality({ start[n] : n \in P }) = Cardinality(P)
  <2>1. IsFiniteSet(P)
    BY <1>6, FS_Subset
  <2>2. PICK X : X = { start[n] : n \in P }
    OBVIOUS
  <2>3. PICK g : g = [n \in P |-> start[n]]
    OBVIOUS
  <2>4. g \in Bijection(P, X)
    BY <2>2, <2>3 DEF Bijection, Injection, Surjection, IsInjective, StartsDiffer
  <2>5. ExistsBijection(P, X)
    BY <2>4 DEF ExistsBijection
  <2> QED BY <2>1, <2>2, <2>5, FS_Bijection
<1>8. NodeAt(WordEnd) = N
  <2>1. { x \in Starts : x < WordEnd } = { start[n] : n \in 0 .. N - 1 }
    BY <1>2, <1>5
  <2> QED BY <1>6, <1>7, <2>1, NodeAtIs
<1>9. ASSUME NEW n \in 0 .. N - 1 PROVE NodeAt(start[n]) = Cardinality(StartingBefore(start, N, n))
  <2>1. PICK P : P = StartingBefore(start, N, n)
    OBVIOUS
  <2>2. P \in SUBSET (0 .. N - 1)
    BY <2>1 DEF StartingBefore
  <2>3. { x \in Starts : x < start[n] } = { start[m] : m \in P }
    BY <1>5, <2>1 DEF StartingBefore
  <2> QED BY <1>7, <2>1, <2>2, <2>3, NodeAtIs
<1> QED BY <1>5, <1>7, <1>8, <1>9

LEMMA NumbersAre ==
  ASSUME PathsInv, NEW N, N = GraphSize, IsGraphOf(graph, node2start, N, KeptSpans),
         StartsDiffer(node2start, N)
  PROVE  /\ \A n \in 0 .. N - 1 :
              NewNumber(n) = NodeAt(node2start[n]) /\ NewNumber(n) \in 0 .. N - 1
         /\ \A k \in 0 .. N - 1 : OldNumber(k) \in 0 .. N - 1 /\ NewNumber(OldNumber(k)) = k
         /\ \A n \in 0 .. N - 1 : OldNumber(NewNumber(n)) = n
<1>1. N \in Nat /\ DOMAIN graph = 0 .. N - 1
  BY DEF IsGraphOf
<1>2. \A n \in 0 .. N - 1 : node2start[n] \in Nat /\ (n = 0 <=> node2start[n] = 0)
  BY NodeStarts
<1>3. \A m, n \in 0 .. N - 1 : node2start[m] = node2start[n] => m = n
  BY DEF StartsDiffer
<1> DEFINE P(n) == StartingBefore(node2start, N, n)
<1>4. \A n \in 0 .. N - 1 : P(n) \in SUBSET (0 .. N - 1) /\ n \notin P(n)
  BY <1>2 DEF StartingBefore
<1>5. ASSUME NEW n \in 0 .. N - 1 PROVE NewNumber(n) = Cardinality(P(n))
  <2>1. CASE N > 2
    <3>1. { m \in DOMAIN graph :
              node2start[m] < node2start[n] \/ (node2start[m] = node2start[n] /\ m < n) } = P(n)
      <4>1. \A m \in 0 .. N - 1 : node2start[m] = node2start[n] => ~(m < n)
        BY <1>3
      <4> QED BY <1>1, <4>1 DEF StartingBefore
    <3>2. ~(GraphSize <= 2)
      BY <1>1, <2>1
    <3> QED BY <3>1, <3>2 DEF NewNumber
  <2>2. CASE ~(N > 2)
    <3>1. NewNumber(n) = n
      BY <1>1, <2>2 DEF NewNumber
    <3>2. CASE n = 0
      <4>1. P(n) = {}
        BY <1>2, <3>2 DEF StartingBefore
      <4> QED BY <3>1, <3>2, <4>1, FS_EmptySet
    <3>3. CASE n # 0
      <4>1. n = 1 /\ N = 2 /\ \A m \in 0 .. N - 1 : m = 0 \/ m = n
        BY <1>1, <2>2, <3>3
      <4>2. 0 \in 0 .. N - 1
        BY <4>1
      <4>3. 0 \in P(n)
        BY <1>2, <3>3, <4>2 DEF StartingBefore
      <4>4. P(n) = {0}
        BY <1>4, <4>1, <4>3
      <4> QED BY <3>1, <4>1, <4>4, FS_Singleton
    <3> QED BY <3>2, <3>3
  <2> QED BY <2>1, <2>2
<1>6. \A n \in 0 .. N - 1 : NewNumber(n) = NodeAt(node2start[n])
  BY <1>5, StartsAre
<1>7. IsFiniteSet(0 .. N - 1) /\ Cardinality(0 .. N - 1) = N
  BY <1>1, FS_Interval
<1>8. \A n \in 0 .. N - 1 : IsFiniteSet(P(n)) /\ Cardinality(P(n)) \in Nat
  BY <1>4, <1>7, FS_Subset, FS_CardinalityType
<1>9. ASSUME NEW n \in 0 .. N - 1 PROVE NewNumber(n) \in 0 .. N - 1
  <2>1. Cardinality(P(n)) <= N
    <3> HIDE DEF P
    <3>1. P(n) \in SUBSET (0 .. N - 1)
      BY <1>4
    <3> QED BY <1>7, <3>1, FS_Subset
  <2>2. Cardinality(P(n)) # N
    <3>1. P(n) # 0 .. N - 1
      BY <1>4
    <3> HIDE DEF P
    <3> QED BY <1>4, <1>7, <3>1, FS_Subset
  <2> QED BY <1>1, <1>5, <1>8, <2>1, <2>2
<1>10. ASSUME NEW m \in 0 .. N - 1, NEW n \in 0 .. N - 1, node2start[m] < node2start[n]
       PROVE  NewNumber(m) # NewNumber(n)
  <2>1. P(m) \in SUBSET P(n) /\ m \in P(n) /\ m \notin P(m)
    BY <1>2, <1>4, <1>10 DEF StartingBefore
  <2> HIDE DEF P
  <2>2. Cardinality(P(m)) # Cardinality(P(n))
    <3>1. P(m) # P(n)
      BY <2>1
    <3> QED BY <1>8, <2>1, <3>1, FS_Subset
  <2> QED BY <1>5, <2>2
<1>11. ASSUME NEW m \in 0 .. N - 1, NEW n \in 0 .. N - 1, NewNumber(m) = NewNumber(n)
       PROVE  m = n
  <2>1. node2start[m] < node2start[n] \/ node2start[n] < node2start[m] \/ node2start[m] = node2start[n]
    BY <1>2
  <2> QED BY <1>3, <1>10, <1>11, <2>1
<1>12. { NewNumber(n) : n \in 0 .. N - 1 } = 0 .. N - 1
  <2>1. PICK X : X = { NewNumber(n) : n \in 0 .. N - 1 }
    OBVIOUS
  <2>2. PICK g : g = [n \in 0 .. N - 1 |-> NewNumber(n)]
    OBVIOUS
  <2>3. \A n \in 0 .. N - 1 : g[n] = NewNumber(n)
    BY <2>2
  <2>4. g \in Bijection(0 .. N - 1, X)
    <3>1. g \in [0 .. N - 1 -> X]
      BY <2>1, <2>2
    <3>2. \A m, n \in 0 .. N - 1 : g[m] = g[n] => m = n
      BY <1>11, <2>3
    <3>3. \A x \in X : \E n \in 0 .. N - 1 : g[n] = x
      BY <2>1, <2>3
    <3> QED BY <3>1, <3>2, <3>3 DEF Bijection, Injection, Surjection, IsInjective
  <2>5. ExistsBijection(0 .. N - 1, X)
    BY <2>4 DEF ExistsBijection
  <2>6. Cardinality(X) = N
    BY <1>7, <2>5, FS_Bijection
  <2>7. X \in SUBSET (0 .. N - 1)
    BY <1>9, <2>1
  <2>8. X = 0 .. N - 1
    BY <1>7, <2>6, <2>7, FS_Subset
  <2> QED BY <2>1, <2>8
<1>13. ASSUME NEW k \in 0 .. N - 1 PROVE OldNumber(k) \in 0 .. N - 1 /\ NewNumber(OldNumber(k)) = k
  <2>1. \E m \in 0 .. N - 1 : NewNumber(m) = k
    BY <1>12
  <2>2. OldNumber(k) = CHOOSE m \in 0 .. N - 1 : NewNumber(m) = k
    BY <1>1 DEF OldNumber
  <2> QED BY <2>1, <2>2
<1>14. ASSUME NEW n \in 0 .. N - 1 PROVE OldNumber(NewNumber(n)) = n
  BY <1>9, <1>11, <1>13
<1> QED BY <1>6, <1>9, <1>13, <1>14

-----------------------------------------------------------------------------
(* The edges of all nodes, one node after another                          *)

(* The first k sequences of ss, one after another, none of whose elements  *)
(* occurs twice.                                                           *)
Flattened(w, ss, S, k) ==
  /\ w \in Seq(S)
  /\ \A i \in 1 .. Len(w) : \E a \in 1 .. k : \E b \in 1 .. Len(ss[a]) : w[i] = ss[a][b]
  /\ \A a \in 1 .. k : \A b \in 1 .. Len(ss[a]) : \E i \in 1 .. Len(w) : w[i] = ss[a][b]
  /\ \A i, j \in 1 .. Len(w) : w[i] = w[j] => i = j

LEMMA FlattenMore ==
  ASSUME NEW S, NEW ss, NEW k \in Nat, NEW w, Flattened(w, ss, S, k), ss[k + 1] \in Seq(S),
         \A a \in 1 .. k : \A b \in 1 .. Len(ss[a]) : \A c \in 1 .. Len(ss[k + 1]) : ss[a][b] # ss[k + 1][c],
         \A b, c \in 1 .. Len(ss[k + 1]) : ss[k + 1][b] = ss[k + 1][c] => b = c
  PROVE  Flattened(w \o ss[k + 1], ss, S, k + 1)
<1>1. PICK v : v = ss[k + 1]
  OBVIOUS
<1>2. PICK x : x = w \o v
  OBVIOUS
<1>3. w \in Seq(S) /\ v \in Seq(S)
  BY <1>1 DEF Flattened
<1>4. PICK m \in Nat : m = Len(w)
  BY <1>3
<1>5. PICK n \in Nat : n = Len(v)
  BY <1>3
<1>6. x \in Seq(S) /\ Len(x) = m + n /\ \A i \in 1 .. m + n : x[i] = IF i <= m THEN w[i] ELSE v[i - m]
  BY <1>2, <1>3, <1>4, <1>5, ConcatProperties
<1>7. ASSUME NEW i \in 1 .. m + n
      PROVE  \/ i \in 1 .. m /\ x[i] = w[i]
             \/ ~(i \in 1 .. m) /\ i - m \in 1 .. n /\ x[i] = v[i - m]
  <2>1. CASE i <= m
    BY <1>6, <2>1
  <2>2. CASE ~(i <= m)
    <3>1. i - m \in 1 .. n /\ ~(i \in 1 .. m)
      BY <2>2
    <3> QED BY <1>6, <2>2, <3>1
  <2> QED BY <2>1, <2>2
<1>8. \A a \in 1 .. k + 1 : a = k + 1 \/ a \in 1 .. k
  OBVIOUS
<1>9. k + 1 \in 1 .. k + 1 /\ \A a \in 1 .. k : a \in 1 .. k + 1
  OBVIOUS
<1>10. ASSUME NEW i \in 1 .. m + n
       PROVE  \E a \in 1 .. k + 1 : \E b \in 1 .. Len(ss[a]) : x[i] = ss[a][b]
  <2>1. CASE i \in 1 .. m /\ x[i] = w[i]
    BY <1>4, <1>9, <2>1 DEF Flattened
  <2>2. CASE i - m \in 1 .. n /\ x[i] = v[i - m]
    BY <1>1, <1>5, <1>9, <2>2
  <2> QED BY <1>7, <2>1, <2>2
<1>11. ASSUME NEW a \in 1 .. k + 1, NEW b \in 1 .. Len(ss[a])
       PROVE  \E i \in 1 .. m + n : x[i] = ss[a][b]
  <2>1. CASE a \in 1 .. k
    <3>1. PICK i \in 1 .. m : w[i] = ss[a][b]
      BY <1>4, <2>1 DEF Flattened
    <3>2. i \in 1 .. m + n /\ i <= m
      OBVIOUS
    <3> QED BY <1>6, <3>1, <3>2
  <2>2. CASE a = k + 1
    <3>1. b \in 1 .. n /\ ss[a][b] = v[b]
      BY <1>1, <1>5, <2>2
    <3>2. m + b \in 1 .. m + n /\ ~(m + b <= m) /\ (m + b) - m = b
      BY <3>1
    <3> QED BY <1>6, <3>1, <3>2
  <2> QED BY <1>8, <2>1, <2>2
<1>12. ASSUME NEW i \in 1 .. m, NEW c \in 1 .. n PROVE w[i] # v[c]
  <2>1. PICK a \in 1 .. k : \E b \in 1 .. Len(ss[a]) : w[i] = ss[a][b]
    BY <1>4 DEF Flattened
  <2> QED BY <1>1, <1>5, <2>1
<1>13. ASSUME NEW i \in 1 .. m + n, NEW j \in 1 .. m + n, x[i] = x[j] PROVE i = j
  <2>1. CASE i \in 1 .. m /\ j \in 1 .. m
    BY <1>4, <1>7, <1>13, <2>1 DEF Flattened
  <2>2. CASE i \in 1 .. m /\ ~(j \in 1 .. m)
    BY <1>7, <1>12, <1>13, <2>2
  <2>3. CASE ~(i \in 1 .. m) /\ j \in 1 .. m
    BY <1>7, <1>12, <1>13, <2>3
  <2>4. CASE ~(i \in 1 .. m) /\ ~(j \in 1 .. m)
    <3>1. i - m \in 1 .. n /\ j - m \in 1 .. n /\ v[i - m] = v[j - m]
      BY <1>7, <1>13, <2>4
    <3>2. i - m = j - m
      BY <1>1, <1>5, <3>1
    <3> QED BY <3>2
  <2> QED BY <2>1, <2>2, <2>3, <2>4
<1>14. /\ \A i \in 1 .. Len(x) : \E a \in 1 .. k + 1 : \E b \in 1 .. Len(ss[a]) : x[i] = ss[a][b]
       /\ \A a \in 1 .. k + 1 : \A b \in 1 .. Len(ss[a]) : \E i \in 1 .. Len(x) : x[i] = ss[a][b]
       /\ \A i, j \in 1 .. Len(x) : x[i] = x[j] => i = j
  BY <1>6, <1>10, <1>11, <1>13
<1>15. Flattened(x, ss, S, k + 1)
  BY <1>6, <1>14 DEF Flattened
<1> QED BY <1>1, <1>2, <1>15

LEMMA FlattenIs ==
  ASSUME NEW S, NEW n \in Nat \ {0}, NEW ss, ss = [a \in 1 .. n |-> ss[a]],
         \A a \in 1 .. n : ss[a] \in Seq(S),
         \A a, c \in 1 .. n : \A b \in 1 .. Len(ss[a]) : \A d \in 1 .. Len(ss[c]) :
           ss[a][b] = ss[c][d] => a = c /\ b = d
  PROVE  Flattened(FlattenSeq(ss), ss, S, n)
<1> DEFINE f == CHOOSE f : Flattens(f, ss, n)
<1>1. Flattens(f, ss, n)
  BY FlattenExists
<1>2. Len(ss) = n
  OBVIOUS
<1>3. FlattenSeq(ss) = f[n]
  BY <1>2 DEF FlattenSeq, Flattens
<1> HIDE DEF f
<1> DEFINE bad == { k \in 1 .. n : ~Flattened(f[k], ss, S, k) }
<1>4. bad = {}
  <2> SUFFICES ASSUME bad # {} PROVE FALSE
    OBVIOUS
  <2>1. PICK k \in bad : \A i \in bad : k <= i
    <3>1. bad \in SUBSET Nat
      OBVIOUS
    <3> HIDE DEF bad
    <3> QED BY <3>1, LeastOf
  <2>2. k \in 1 .. n /\ ~Flattened(f[k], ss, S, k)
    BY <2>1
  <2>3. f[k] = IF k = 1 THEN ss[k] ELSE f[k - 1] \o ss[k]
    BY <1>1, <2>2 DEF Flattens
  <2>4. CASE k = 1
    <3>1. f[k] = ss[1]
      BY <2>3, <2>4
    <3>2. \A a \in 1 .. k : a = 1
      BY <2>4
    <3>3. 1 \in 1 .. k /\ 1 \in 1 .. n
      BY <2>4
    <3> QED BY <2>2, <2>4, <3>1, <3>2, <3>3 DEF Flattened
  <2>5. CASE k # 1
    <3>1. k - 1 \in 1 .. n /\ k - 1 \in Nat /\ ~(k <= k - 1) /\ (k - 1) + 1 = k
      BY <2>2, <2>5
    <3>2. k - 1 \notin bad
      <4> HIDE DEF bad
      <4> QED BY <2>1, <3>1
    <3>3. Flattened(f[k - 1], ss, S, k - 1)
      BY <3>1, <3>2
    <3>4. \A a \in 1 .. k - 1 : a \in 1 .. n /\ a # k
      BY <2>2
    <3>5. PICK j \in Nat : j = k - 1 /\ j + 1 = k
      BY <3>1
    <3>6. Flattened(f[j], ss, S, j) /\ ss[j + 1] \in Seq(S) /\ \A a \in 1 .. j : a \in 1 .. n /\ a # j + 1
      BY <2>2, <3>3, <3>4, <3>5
    <3>7. \A a \in 1 .. j : \A b \in 1 .. Len(ss[a]) : \A c \in 1 .. Len(ss[j + 1]) : ss[a][b] # ss[j + 1][c]
      BY <2>2, <3>5, <3>6
    <3>8. \A b, c \in 1 .. Len(ss[j + 1]) : ss[j + 1][b] = ss[j + 1][c] => b = c
      BY <2>2, <3>5
    <3>9. Flattened(f[j] \o ss[j + 1], ss, S, j + 1)
      BY <3>6, <3>7, <3>8, FlattenMore
    <3> QED BY <2>2, <2>3, <2>5, <3>5, <3>9
  <2> QED BY <2>4, <2>5
<1>5. n \in 1 .. n
  OBVIOUS
<1> QED BY <1>3, <1>4, <1>5

-----------------------------------------------------------------------------
(* renumbering                                                             *)

(* What a node's edges become: edges of the answer.                        *)
LEMMA OutgoingIs ==
  ASSUME PathsInv, NEW N, N = GraphSize, IsGraphOf(graph, node2start, N, KeptSpans),
         StartsDiffer(node2start, N), NEW k \in 0 .. N - 1,
         NEW m, m = OldNumber(k), NEW es, es = graph[m]
  PROVE  /\ m \in 0 .. N - 1 /\ Len(es) \in Nat
         /\ Outgoing(k) = [ i \in 1 .. Len(es) |-> Outgoing(k)[i] ] /\ Len(Outgoing(k)) = Len(es)
         /\ \A i \in 1 .. Len(es) :
              /\ es[i].span \in KeptSpans
              /\ Outgoing(k)[i].span = es[i].span /\ Outgoing(k)[i].from = k
              /\ IsEdgeOf(Outgoing(k)[i], es[i].span)
<1>1. m \in 0 .. N - 1 /\ NewNumber(m) = k
  BY NumbersAre
<1>2. NewNumber(m) = NodeAt(node2start[m])
  BY <1>1, NumbersAre
<1>3. es \in Seq(Edges(KeptSpans))
  BY <1>1 DEF IsGraphOf, NodeFits
<1>4. Len(es) \in Nat /\ DOMAIN es = 1 .. Len(es)
  BY <1>3
<1>5. Outgoing(k) = [ i \in 1 .. Len(es) |-> [ from |-> k, to |-> Renumbered(es[i]).next_node, span |-> es[i].span ] ]
  BY <1>4 DEF Outgoing
<1>6. N \in Nat /\ N <= GRAPH_END
  BY DEF IsGraphOf
<1>7. ASSUME NEW i \in 1 .. Len(es) PROVE es[i].span \in KeptSpans /\ IsEdgeOf(Outgoing(k)[i], es[i].span)
  <2>1. /\ es[i].span \in KeptSpans /\ es[i].span.text_start = node2start[m]
        /\ \/ es[i].next_node = GRAPH_END /\ es[i].span.text_end = WordEnd
           \/ /\ es[i].next_node \in 1 .. N - 1 /\ es[i].next_node # GRAPH_END
              /\ node2start[es[i].next_node] = es[i].span.text_end
    BY <1>1, NodeEdges
  <2>2. Renumbered(es[i]).next_node = NodeAt(es[i].span.text_end)
    <3>1. CASE es[i].next_node = GRAPH_END /\ es[i].span.text_end = WordEnd
      <4>1. NodeAt(WordEnd) = N
        BY StartsAre
      <4> QED BY <3>1, <4>1 DEF Renumbered, To
    <3>2. CASE /\ es[i].next_node \in 1 .. N - 1 /\ es[i].next_node # GRAPH_END
               /\ node2start[es[i].next_node] = es[i].span.text_end
      <4>1. es[i].next_node \in 0 .. N - 1 /\ es[i].next_node < N
        BY <1>6, <3>2
      <4>2. NewNumber(es[i].next_node) = NodeAt(node2start[es[i].next_node])
        BY <4>1, NumbersAre
      <4> QED BY <3>2, <4>1, <4>2 DEF Renumbered, To
    <3> QED BY <2>1, <3>1, <3>2
  <2>3. k = NodeAt(es[i].span.text_start)
    BY <1>1, <1>2, <2>1
  <2> QED BY <1>5, <2>1, <2>2, <2>3 DEF IsEdgeOf
<1>8. Len(Outgoing(k)) = Len(es) /\ Outgoing(k) = [ i \in 1 .. Len(es) |-> Outgoing(k)[i] ]
  BY <1>4, <1>5
<1>9. \A i \in 1 .. Len(es) : Outgoing(k)[i].span = es[i].span /\ Outgoing(k)[i].from = k
  BY <1>5
<1>10. /\ m \in 0 .. N - 1 /\ Len(es) \in Nat
       /\ Outgoing(k) = [ i \in 1 .. Len(es) |-> Outgoing(k)[i] ] /\ Len(Outgoing(k)) = Len(es)
  BY <1>1, <1>4, <1>8
<1> QED BY <1>7, <1>9, <1>10

(* Two edges of the answer that are equal are one edge of the graph.       *)
LEMMA OutgoingDiffers ==
  ASSUME PathsInv, NEW N, N = GraphSize, IsGraphOf(graph, node2start, N, KeptSpans),
         StartsDiffer(node2start, N), NEW k \in 0 .. N - 1, NEW l \in 0 .. N - 1,
         NEW i \in 1 .. Len(Outgoing(k)), NEW j \in 1 .. Len(Outgoing(l)),
         Outgoing(k)[i] = Outgoing(l)[j]
  PROVE  k = l /\ i = j
<1>1. PICK m : m = OldNumber(k)
  OBVIOUS
<1>2. PICK es : es = graph[m]
  OBVIOUS
<1>3. i \in 1 .. Len(es) /\ Outgoing(k)[i].from = k /\ Outgoing(k)[i].span = es[i].span /\ m \in 0 .. N - 1
  BY <1>1, <1>2, OutgoingIs
<1>4. Outgoing(l)[j].from = l
  BY OutgoingIs
<1>5. k = l
  BY <1>3, <1>4
<1>6. j \in 1 .. Len(es) /\ es[j].span = es[i].span
  BY <1>1, <1>2, <1>3, <1>5, OutgoingIs
<1>7. PICK s : s = es[i].span
  OBVIOUS
<1>8. ASSUME NEW a \in 1 .. Len(es)
      PROVE  /\ es[a] = To(es[a].span, es[a].next_node)
             /\ \/ es[a].next_node = GRAPH_END /\ es[a].span.text_end = WordEnd
                \/ /\ es[a].next_node \in 1 .. N - 1
                   /\ node2start[es[a].next_node] = es[a].span.text_end
  BY <1>2, <1>3, NodeEdges
<1>9. N \in Nat
  BY DEF IsGraphOf
<1>10. \A n \in 1 .. N - 1 : n \in 0 .. N - 1 /\ node2start[n] # WordEnd
  <2> SUFFICES ASSUME NEW n \in 1 .. N - 1 PROVE n \in 0 .. N - 1 /\ node2start[n] # WordEnd
    OBVIOUS
  <2>1. n \in 0 .. N - 1
    BY <1>9
  <2>2. node2start[n] \in Nat /\ node2start[n] < WordEnd
    BY <2>1, NodeStarts
  <2> QED BY <2>1, <2>2
<1>11. es[i].next_node = es[j].next_node
  BY <1>3, <1>6, <1>8, <1>10 DEF StartsDiffer
<1>12. es[i] = es[j]
  BY <1>3, <1>6, <1>8, <1>11
<1>13. EdgesDiffer(es)
  BY <1>2, <1>3 DEF IsGraphOf, NodeFits
<1> QED BY <1>3, <1>5, <1>6, <1>12, <1>13 DEF EdgesDiffer

LEMMA RenumberAnswers ==
  ASSUME PathsInv, NEW N, N = GraphSize, N # 0, IsGraphOf(graph, node2start, N, KeptSpans),
         StartsDiffer(node2start, N), Renumber
  PROVE  AnswerIsMinimalGraph'
<1>1. N \in Nat \ {0}
  BY DEF IsGraphOf
<1>2. PICK ss : ss = [ n \in 1 .. N |-> Outgoing(n - 1) ]
  OBVIOUS
<1>3. PICK R : R = FlattenSeq(ss)
  OBVIOUS
<1>4. result' = R /\ node_count' = N /\ UNCHANGED <<paths, input>>
  BY <1>2, <1>3 DEF Renumber, Return
<1>5. \A n \in 1 .. N : n - 1 \in 0 .. N - 1 /\ ss[n] = Outgoing(n - 1)
  BY <1>1, <1>2
<1> DEFINE T == UNION { { ss[n][i] : i \in 1 .. Len(ss[n]) } : n \in 1 .. N }
<1>6. ASSUME NEW n \in 1 .. N PROVE ss[n] \in Seq(T)
  <2>1. ss[n] = [ i \in 1 .. Len(ss[n]) |-> ss[n][i] ] /\ Len(ss[n]) \in Nat
    BY <1>5, OutgoingIs
  <2>2. \A i \in 1 .. Len(ss[n]) : ss[n][i] \in T
    OBVIOUS
  <2> HIDE DEF T
  <2>3. [ i \in 1 .. Len(ss[n]) |-> ss[n][i] ] \in Seq(T)
    BY <2>1, <2>2
  <2> QED BY <2>1, <2>3
<1> HIDE DEF T
<1>7. ASSUME NEW a \in 1 .. N, NEW c \in 1 .. N, NEW b \in 1 .. Len(ss[a]), NEW d \in 1 .. Len(ss[c]),
             ss[a][b] = ss[c][d]
      PROVE  a = c /\ b = d
  <2>1. a - 1 = c - 1 /\ b = d
    BY <1>5, <1>7, OutgoingDiffers
  <2> QED BY <2>1
<1>8. ss = [ a \in 1 .. N |-> ss[a] ]
  BY <1>2
<1>9. Flattened(R, ss, T, N)
  BY <1>1, <1>3, <1>6, <1>7, <1>8, FlattenIs
<1>10. DOMAIN R = 1 .. Len(R)
  BY <1>9 DEF Flattened
<1>11. \A i, j \in DOMAIN R : R[i] = R[j] => i = j
  BY <1>9, <1>10 DEF Flattened
<1>12. ASSUME NEW i \in DOMAIN R PROVE R[i].span \in KeptSpans /\ IsEdgeOf(R[i], R[i].span)
  <2>1. PICK a \in 1 .. N : \E b \in 1 .. Len(ss[a]) : R[i] = ss[a][b]
    BY <1>9, <1>10 DEF Flattened
  <2>2. PICK b \in 1 .. Len(ss[a]) : R[i] = ss[a][b]
    BY <2>1
  <2>3. PICK k \in 0 .. N - 1 : k = a - 1 /\ ss[a] = Outgoing(k)
    BY <1>5
  <2>4. PICK m : m = OldNumber(k)
    OBVIOUS
  <2>5. PICK es : es = graph[m]
    OBVIOUS
  <2>6. b \in 1 .. Len(es)
    BY <2>3, <2>4, <2>5, OutgoingIs
  <2>7. es[b].span \in KeptSpans /\ Outgoing(k)[b].span = es[b].span /\ IsEdgeOf(Outgoing(k)[b], es[b].span)
    BY <2>4, <2>5, <2>6, OutgoingIs
  <2> QED BY <2>2, <2>3, <2>7
<1>13. ASSUME NEW s \in KeptSpans PROVE \E i \in DOMAIN R : SameSpan(R[i].span, s)
  <2>1. PICK m \in 0 .. N - 1 : \E i \in 1 .. Len(graph[m]) : SameSpan(graph[m][i].span, s)
    BY DEF IsGraphOf
  <2>2. PICK i \in 1 .. Len(graph[m]) : SameSpan(graph[m][i].span, s)
    BY <2>1
  <2>3. PICK k \in 0 .. N - 1 : OldNumber(k) = m
    BY NumbersAre
  <2>4. PICK es : es = graph[m]
    OBVIOUS
  <2>5. i \in 1 .. Len(Outgoing(k)) /\ Outgoing(k)[i].span = es[i].span
    BY <2>3, <2>4, OutgoingIs
  <2>6. PICK a \in 1 .. N : k = a - 1
    <3>1. k + 1 \in 1 .. N /\ k = (k + 1) - 1
      BY <1>1
    <3> QED BY <3>1
  <2>7. ss[a] = Outgoing(k)
    BY <1>5, <2>6
  <2>8. PICK j \in 1 .. Len(R) : R[j] = ss[a][i]
    BY <1>9, <2>5, <2>7 DEF Flattened
  <2> QED BY <1>10, <2>2, <2>4, <2>5, <2>7, <2>8
<1>14. NodeAt(WordEnd) = N
  BY StartsAre
<1>15. AnswerIs(R, N)
  BY <1>11, <1>12, <1>13, <1>14, AnswerFrom
<1> QED BY <1>4, <1>15, AnswerKept

-----------------------------------------------------------------------------
(* The invariant                                                           *)

Minimizing ==
  /\ GraphSize # 0
  /\ IsGraphOf(graph, node2start, GraphSize, KeptSpans)
  /\ Settled(graph, node2start, GraphSize)

(* What holds at each stage: the graph of the paths added so far while     *)
(* they are added; then, while nodes are merged, the graph of all paths    *)
(* kept, whose edges lead forward but for those to nodes that have been    *)
(* merged; then nodes that start at different positions.                   *)
GraphInv ==
  /\ PathsInv
  /\ stage \in {"start", "none", "retained", "minimize", "renumber", "done"}
  /\ stage = "start" => DOMAIN graph = {} /\ added = 0 /\ only_weak_paths = TRUE
  /\ stage = "retained" => Built(graph, node2start, GraphSize, added, only_weak_paths)
  /\ stage \in {"minimize", "renumber"} => Minimizing
  /\ stage = "renumber" => StartsDiffer(node2start, GraphSize)
  /\ AnswerIsMinimalGraph

LEMMA KeptSpansSame ==
  ASSUME UNCHANGED <<paths, input>>
  PROVE  KeptSpans' = KeptSpans
BY DEF KeptSpans, Kept, EffectivelyWeak, CaseMatches, input

LEMMA MinimizingSame ==
  ASSUME UNCHANGED <<paths, input>>, NEW N, N = GraphSize', N # 0,
         IsGraphOf(graph', node2start', N, KeptSpans), Settled(graph', node2start', N)
  PROVE  Minimizing'
BY KeptSpansSame DEF Minimizing

LEMMA GraphInvInitially == Init => GraphInv
<1> SUFFICES ASSUME Init PROVE GraphInv
  OBVIOUS
<1>1. PathsInv
  BY InitialPaths
<1>2. stage = "start" /\ DOMAIN graph = {} /\ added = 0 /\ only_weak_paths = TRUE
  BY DEF Init
<1> QED BY <1>1, <1>2 DEF GraphInv, AnswerIsMinimalGraph

LEMMA RetainStep == GraphInv /\ Retain => GraphInv'
<1> SUFFICES ASSUME GraphInv, Retain PROVE GraphInv'
  OBVIOUS
<1>1. PathsInv'
  BY RetainKeepsPaths DEF GraphInv
<1>2. /\ stage' \in {"none", "retained"}
      /\ UNCHANGED <<graph, node2start, added, only_weak_paths>>
      /\ DOMAIN graph = {} /\ added = 0 /\ only_weak_paths = TRUE
  BY DEF Retain, GraphInv
<1>3. GraphSize' = 0
  BY <1>2, FS_EmptySet DEF GraphSize
<1>4. Used(added)' = {}
  BY <1>2 DEF Used
<1>5. SpansOfAll(KeptOf(Used(added)))' = {}
  BY <1>4 DEF SpansOfAll, KeptOf
<1>6. PICK G : G = graph' /\ DOMAIN G = {}
  BY <1>2
<1>7. PICK start : start = node2start'
  OBVIOUS
<1>8. IsGraphOf(G, start, 0, {}) /\ Forward(G, 0)
  BY <1>6, NoGraph
<1>9. Len(paths)' \in Nat
  BY <1>1 DEF PathsInv
<1>10. 0 <= 0 * (WordEnd + 1)
  BY InflexionGraphAssumption
<1>11. Built(graph, node2start, GraphSize, added, only_weak_paths)'
  BY <1>2, <1>3, <1>4, <1>5, <1>6, <1>7, <1>8, <1>9, <1>10 DEF Built
<1> QED BY <1>1, <1>2, <1>11 DEF GraphInv, AnswerIsMinimalGraph

LEMMA AddPathStep == GraphInv /\ AddPath => GraphInv'
<1> SUFFICES ASSUME GraphInv, AddPath PROVE GraphInv'
  OBVIOUS
<1>1. stage = "retained" /\ stage' = "retained" /\ UNCHANGED paths
  BY DEF AddPath
<1>2. Built(graph, node2start, GraphSize, added, only_weak_paths)'
  BY <1>1, AddPathBuilds DEF GraphInv
<1>3. PathsInv'
  BY <1>1, PathsSame DEF GraphInv
<1> QED BY <1>1, <1>2, <1>3 DEF GraphInv, AnswerIsMinimalGraph

(* The paths are all added, so the graph is that of the paths kept; a      *)
(* graph of two nodes has nothing to merge.                                *)
LEMMA MinimizeStep == GraphInv /\ Minimize => GraphInv'
<1> SUFFICES ASSUME GraphInv, Minimize PROVE GraphInv'
  OBVIOUS
<1>1. /\ stage = "retained" /\ Len(paths) > 1 /\ added = Len(paths)
      /\ stage' = IF GraphSize > 2 THEN "minimize" ELSE "renumber"
      /\ UNCHANGED <<paths, input, added, graph, node2start, only_weak_paths>>
  BY DEF Minimize
<1>2. PathsInv /\ PathsInv'
  BY <1>1, PathsSame DEF GraphInv
<1>3. Built(graph, node2start, GraphSize, added, only_weak_paths)
  BY <1>1 DEF GraphInv
<1>4. Used(added) = ToSet(paths)
  BY <1>1, <1>2 DEF Used, ToSet, PathsInv
<1>5. SpansOfAll(KeptOf(Used(added))) = KeptSpans
  BY <1>4 DEF SpansOfAll, KeptOf, KeptSpans, Kept
<1>6. PICK N : N = GraphSize
  OBVIOUS
<1>7. Len(paths) \in Nat
  BY <1>2 DEF PathsInv
<1>8. IsGraphOf(graph, node2start, N, KeptSpans) /\ Forward(graph, N) /\ N # 0
  BY <1>1, <1>3, <1>5, <1>6, <1>7 DEF Built
<1>9. N \in Nat
  BY <1>8 DEF IsGraphOf
<1>10. Settled(graph, node2start, N)
  BY <1>8 DEF Forward, Settled
<1>11. GraphSize' = N /\ graph' = graph /\ node2start' = node2start
  BY <1>1, <1>6 DEF GraphSize
<1>12. Minimizing'
  BY <1>1, <1>8, <1>10, <1>11, MinimizingSame
<1>13. CASE N > 2
  <2>1. stage' = "minimize"
    BY <1>1, <1>6, <1>13
  <2> QED BY <1>2, <1>12, <2>1 DEF GraphInv, AnswerIsMinimalGraph
<1>14. CASE ~(N > 2)
  <2>1. stage' = "renumber"
    BY <1>1, <1>6, <1>14
  <2>2. StartsDiffer(node2start, N)
    <3> SUFFICES ASSUME NEW m \in 0 .. N - 1, NEW n \in 0 .. N - 1, node2start[m] = node2start[n]
                 PROVE  m = n
      BY DEF StartsDiffer
    <3>1. (m = 0 <=> node2start[m] = 0) /\ (n = 0 <=> node2start[n] = 0)
      BY <1>2, <1>8, NodeStarts
    <3>2. m \in {0, 1} /\ n \in {0, 1}
      BY <1>9, <1>14
    <3> QED BY <3>1, <3>2
  <2>3. StartsDiffer(node2start, GraphSize)'
    BY <1>11, <2>2 DEF StartsDiffer
  <2> QED BY <1>2, <1>12, <2>1, <2>3 DEF GraphInv, AnswerIsMinimalGraph
<1> QED BY <1>13, <1>14

(* Nodes can be merged as soon as they start at the same position, because *)
(* PossiblePaths is always empty.                                          *)
LEMMA CanMergeIs ==
  ASSUME PathsInv, Minimizing
  PROVE  \A m1, m2 \in DOMAIN graph : CanMerge(m1, m2) <=> m1 < m2 /\ node2start[m1] = node2start[m2]
<1>1. PICK N : N = GraphSize
  OBVIOUS
<1>2. IsGraphOf(graph, node2start, N, KeptSpans) /\ DOMAIN graph = 0 .. N - 1
  BY <1>1 DEF Minimizing, IsGraphOf
<1>3. \A n \in 0 .. N - 1 : PossiblePaths(n) = {}
  BY <1>2, NothingPossible
<1> QED BY <1>2, <1>3 DEF CanMerge

LEMMA MergeTwoIs ==
  ASSUME GraphInv, MergeTwo
  PROVE  /\ PathsInv /\ Minimizing /\ UNCHANGED <<paths, input>>
         /\ \E n1, n2 : MergesAt(GraphSize, n1, n2) /\ Merge(n1, n2)
<1>1. stage = "minimize" /\ UNCHANGED <<paths, input>>
  BY DEF MergeTwo
<1>2. PathsInv /\ Minimizing
  BY <1>1 DEF GraphInv
<1>3. PICK N : N = GraphSize
  OBVIOUS
<1>4. /\ IsGraphOf(graph, node2start, N, KeptSpans) /\ Settled(graph, node2start, N)
      /\ N \in Nat /\ DOMAIN graph = 0 .. N - 1
  BY <1>2, <1>3 DEF Minimizing, IsGraphOf
<1>5. PICK n1 \in DOMAIN graph, n2 \in DOMAIN graph :
        /\ CanMerge(n1, n2)
        /\ \A m1, m2 \in DOMAIN graph : CanMerge(m1, m2) => n1 < m1 \/ (n1 = m1 /\ m2 <= n2)
        /\ Merge(n1, n2)
  BY DEF MergeTwo
<1>6. n1 \in 0 .. N - 1 /\ n2 \in 0 .. N - 1 /\ n1 < n2 /\ node2start[n1] = node2start[n2]
  BY <1>2, <1>4, <1>5, CanMergeIs
<1>7. \A m1, m2 \in 0 .. N - 1 : m1 < m2 /\ node2start[m1] = node2start[m2] => n1 <= m1
  <2> SUFFICES ASSUME NEW m1 \in 0 .. N - 1, NEW m2 \in 0 .. N - 1, m1 < m2, node2start[m1] = node2start[m2]
               PROVE  n1 <= m1
    OBVIOUS
  <2>1. CanMerge(m1, m2)
    BY <1>2, <1>4, CanMergeIs
  <2>2. n1 < m1 \/ n1 = m1
    BY <1>4, <1>5, <2>1
  <2> QED BY <1>6, <2>2
<1>8. MergesAt(N, n1, n2)
  BY <1>3, <1>4, <1>6, <1>7 DEF MergesAt
<1> QED BY <1>1, <1>2, <1>3, <1>5, <1>8

LEMMA MergeTwoStep == GraphInv /\ MergeTwo => GraphInv'
<1> SUFFICES ASSUME GraphInv, MergeTwo PROVE GraphInv'
  OBVIOUS
<1>1. stage' = "minimize" /\ UNCHANGED <<paths, input>>
  BY DEF MergeTwo
<1>2. PathsInv /\ PathsInv'
  BY <1>1, PathsSame DEF GraphInv
<1>3. PICK N : N = GraphSize
  OBVIOUS
<1>4. PICK n1, n2 : MergesAt(N, n1, n2) /\ Merge(n1, n2)
  BY <1>3, MergeTwoIs
<1>5. /\ IsGraphOf(graph', node2start', N - 1, KeptSpans) /\ Settled(graph', node2start', N - 1)
      /\ GraphSize' = N - 1
  BY <1>2, <1>4, MergeKeeps
<1>6. N - 1 # 0
  BY <1>4 DEF MergesAt, IsGraphOf
<1>7. Minimizing'
  BY <1>1, <1>5, <1>6, MinimizingSame
<1> QED BY <1>1, <1>2, <1>7 DEF GraphInv, AnswerIsMinimalGraph

LEMMA MinimizedStep == GraphInv /\ Minimized => GraphInv'
<1> SUFFICES ASSUME GraphInv, Minimized PROVE GraphInv'
  OBVIOUS
<1>1. /\ stage = "minimize" /\ stage' = "renumber" /\ UNCHANGED <<paths, input, graph, node2start>>
      /\ ~ \E n1, n2 \in DOMAIN graph : CanMerge(n1, n2)
  BY DEF Minimized
<1>2. PathsInv /\ PathsInv' /\ Minimizing
  BY <1>1, PathsSame DEF GraphInv
<1>3. PICK N : N = GraphSize
  OBVIOUS
<1>4. /\ IsGraphOf(graph, node2start, N, KeptSpans) /\ Settled(graph, node2start, N) /\ N # 0
      /\ N \in Nat /\ DOMAIN graph = 0 .. N - 1
  BY <1>2, <1>3 DEF Minimizing, IsGraphOf
<1>5. GraphSize' = N /\ graph' = graph /\ node2start' = node2start
  BY <1>1, <1>3 DEF GraphSize
<1>6. Minimizing'
  BY <1>1, <1>4, <1>5, MinimizingSame
<1>7. StartsDiffer(node2start, N)
  <2> SUFFICES ASSUME NEW m \in 0 .. N - 1, NEW n \in 0 .. N - 1, node2start[m] = node2start[n], m # n
               PROVE  FALSE
    BY DEF StartsDiffer
  <2>1. m < n \/ n < m
    BY <1>4
  <2> QED BY <1>1, <1>2, <1>4, <2>1, CanMergeIs
<1>8. StartsDiffer(node2start, GraphSize)'
  BY <1>5, <1>7 DEF StartsDiffer
<1> QED BY <1>1, <1>2, <1>6, <1>8 DEF GraphInv, AnswerIsMinimalGraph

(* The three ways to answer.                                               *)
LEMMA AnswerStep == GraphInv /\ (SinglePath \/ SingleEdgePaths \/ Renumber) => GraphInv'
<1> SUFFICES ASSUME GraphInv, SinglePath \/ SingleEdgePaths \/ Renumber PROVE GraphInv'
  OBVIOUS
<1>1. stage' = "done" /\ UNCHANGED paths
  BY DEF SinglePath, SingleEdgePaths, Renumber, Return
<1>2. PathsInv /\ PathsInv'
  BY <1>1, PathsSame DEF GraphInv
<1>3. CASE Renumber
  <2>1. stage = "renumber"
    BY <1>3 DEF Renumber
  <2>2. PICK N : N = GraphSize
    OBVIOUS
  <2>3. N # 0 /\ IsGraphOf(graph, node2start, N, KeptSpans) /\ StartsDiffer(node2start, N)
    BY <2>1, <2>2 DEF GraphInv, Minimizing
  <2> QED BY <1>1, <1>2, <1>3, <2>2, <2>3, RenumberAnswers DEF GraphInv
<1>4. CASE SinglePath \/ SingleEdgePaths
  BY <1>1, <1>2, <1>4, SinglePathAnswers, SingleEdgesAnswer DEF GraphInv
<1> QED BY <1>3, <1>4

LEMMA NothingStep == GraphInv /\ UNCHANGED vars => GraphInv'
<1> SUFFICES ASSUME GraphInv, UNCHANGED vars PROVE GraphInv'
  OBVIOUS
<1>1. UNCHANGED <<paths, input, stage, added, graph, node2start, only_weak_paths, result, node_count>>
  BY DEF vars
<1>2. PathsInv'
  BY <1>1, PathsSame DEF GraphInv
<1>3. GraphSize' = GraphSize
  BY <1>1 DEF GraphSize
<1>4. stage = "retained" => Built(graph, node2start, GraphSize, added, only_weak_paths)'
  BY <1>1, <1>3, BuiltSame DEF GraphInv
<1>5. stage \in {"minimize", "renumber"} => Minimizing'
  BY <1>1, <1>3, MinimizingSame DEF GraphInv, Minimizing
<1>6. stage = "renumber" => StartsDiffer(node2start, GraphSize)'
  BY <1>1, <1>3 DEF GraphInv, StartsDiffer
<1>7. AnswerIsMinimalGraph'
  <2>1. CASE stage = "done"
    <3>1. AnswerIs(result, node_count)
      BY <2>1 DEF GraphInv, AnswerIsMinimalGraph, AnswerIs
    <3> QED BY <1>1, <3>1, AnswerKept
  <2>2. CASE stage # "done"
    BY <1>1, <2>2 DEF AnswerIsMinimalGraph
  <2> QED BY <2>1, <2>2
<1> QED BY <1>1, <1>2, <1>4, <1>5, <1>6, <1>7 DEF GraphInv

LEMMA GraphInvKept == GraphInv /\ [Next]_vars => GraphInv'
<1> SUFFICES ASSUME GraphInv, [Next]_vars PROVE GraphInv'
  OBVIOUS
<1>1. CASE ReturnNone
  <2>1. stage' = "none" /\ UNCHANGED paths
    BY <1>1 DEF ReturnNone
  <2>2. PathsInv'
    BY <2>1, PathsSame DEF GraphInv
  <2> QED BY <2>1, <2>2 DEF GraphInv, AnswerIsMinimalGraph
<1>2. CASE UNCHANGED vars
  BY <1>2, NothingStep
<1>3. CASE Finished
  BY <1>2, <1>3 DEF Finished
<1> QED BY <1>1, <1>2, <1>3, RetainStep, AddPathStep, MinimizeStep, MergeTwoStep, MinimizedStep, AnswerStep
        DEF Next, GraphStep

(* However a word with several segmentations is answered - from its single *)
(* path, from paths of one edge, or from the graph after any number of     *)
(* merges - the answer holds exactly the edges of the paths kept, each     *)
(* once, between the text positions where edges start, numbered from left  *)
(* to right.                                                               *)
THEOREM AnswerAlwaysMinimal == Spec => []AnswerIsMinimalGraph
<1>1. Init => GraphInv
  BY GraphInvInitially
<1>2. GraphInv /\ [Next]_vars => GraphInv'
  BY GraphInvKept
<1>3. GraphInv => AnswerIsMinimalGraph
  BY DEF GraphInv
<1> QED BY <1>1, <1>2, <1>3, PTL DEF Spec

-----------------------------------------------------------------------------
(* What can be read in a graph                                             *)

ReadFirst(e, rest) == <<Unprefixed(e.span)>> \o rest

ReadOn(f, G, n) ==
  IF n = GRAPH_END THEN {<<>>}
  ELSE UNION { { ReadFirst(e, rest) : rest \in f[e.next_node] } : e \in ToSet(G[n]) }

Reading(f, G) == f = [n \in DOMAIN G \cup {GRAPH_END} |-> ReadOn(f, G, n)]

LEMMA ReadOnIs ==
  ASSUME NEW f, NEW G, NEW n, n # GRAPH_END, NEW w
  PROVE  w \in ReadOn(f, G, n) <=>
           \E e \in ToSet(G[n]) : \E rest \in f[e.next_node] : w = ReadFirst(e, rest)
<1>1. ReadOn(f, G, n) =
        UNION { { ReadFirst(e, rest) : rest \in f[e.next_node] } : e \in ToSet(G[n]) }
  BY DEF ReadOn
<1>2. ASSUME NEW e \in ToSet(G[n]), NEW rest \in f[e.next_node], w = ReadFirst(e, rest)
      PROVE  w \in ReadOn(f, G, n)
  <2> DEFINE words == { ReadFirst(e, r) : r \in f[e.next_node] }
  <2>1. w \in words
    BY <1>2
  <2>2. words \in { { ReadFirst(d, r) : r \in f[d.next_node] } : d \in ToSet(G[n]) }
    OBVIOUS
  <2> HIDE DEF words
  <2> QED BY <1>1, <2>1, <2>2
<1>3. ASSUME w \in ReadOn(f, G, n)
      PROVE  \E e \in ToSet(G[n]) : \E rest \in f[e.next_node] : w = ReadFirst(e, rest)
  <2> DEFINE words(e) == { ReadFirst(e, r) : r \in f[e.next_node] }
  <2>1. PICK W \in { words(e) : e \in ToSet(G[n]) } : w \in W
    BY <1>1, <1>3
  <2>2. PICK e \in ToSet(G[n]) : W = words(e)
    OBVIOUS
  <2> QED BY <2>1, <2>2
<1> QED BY <1>2, <1>3

(* There is such a function: the least one closed under ReadOn.            *)
LEMMA ReadingExists ==
  ASSUME NEW G, NEW U,
         \A n \in DOMAIN G : \A e \in ToSet(G[n]) :
           e.next_node \in DOMAIN G \cup {GRAPH_END} /\ Unprefixed(e.span) \in U
  PROVE  \E f : Reading(f, G)
<1>1. PICK D : D = DOMAIN G \cup {GRAPH_END}
  OBVIOUS
<1>2. PICK S : S = Seq(U)
  OBVIOUS
<1>3. ASSUME NEW f \in [D -> SUBSET S], NEW n \in D PROVE ReadOn(f, G, n) \in SUBSET S
  <2>1. CASE n = GRAPH_END
    BY <1>2, <2>1 DEF ReadOn
  <2>2. CASE n # GRAPH_END
    <3>1. n \in DOMAIN G
      BY <1>1, <2>2
    <3>2. ASSUME NEW w \in ReadOn(f, G, n) PROVE w \in S
      <4>1. PICK e \in ToSet(G[n]) : \E rest \in f[e.next_node] : w = ReadFirst(e, rest)
        BY <2>2, ReadOnIs
      <4>2. PICK rest \in f[e.next_node] : w = ReadFirst(e, rest)
        BY <4>1
      <4>3. e.next_node \in D /\ Unprefixed(e.span) \in U
        BY <1>1, <3>1
      <4>4. rest \in Seq(U) /\ <<Unprefixed(e.span)>> \in Seq(U)
        BY <1>2, <4>2, <4>3
      <4> QED BY <1>2, <4>2, <4>4 DEF ReadFirst
    <3> QED BY <3>2
  <2> QED BY <2>1, <2>2
<1>4. ASSUME NEW f, NEW g, \A m \in D : f[m] \subseteq g[m], NEW n \in D
      PROVE  ReadOn(f, G, n) \subseteq ReadOn(g, G, n)
  <2>1. CASE n = GRAPH_END
    BY <2>1 DEF ReadOn
  <2>2. CASE n # GRAPH_END
    <3>1. \A e \in ToSet(G[n]) : e.next_node \in D
      BY <1>1, <2>2
    <3> QED BY <1>4, <2>2, <3>1, ReadOnIs
  <2> QED BY <2>1, <2>2
<1> DEFINE Closed(g) == \A m \in D : ReadOn(g, G, m) \subseteq g[m]
<1>5. PICK f : f = [n \in D |-> { w \in S : \A g \in [D -> SUBSET S] : Closed(g) => w \in g[n] }]
  OBVIOUS
<1>6. f \in [D -> SUBSET S]
  BY <1>5
<1>7. ASSUME NEW g \in [D -> SUBSET S], Closed(g) PROVE \A m \in D : f[m] \subseteq g[m]
  <2> HIDE DEF Closed
  <2> QED BY <1>5, <1>7
<1>8. Closed(f)
  <2> SUFFICES ASSUME NEW n \in D, NEW w \in ReadOn(f, G, n) PROVE w \in f[n]
    OBVIOUS
  <2>1. w \in S
    BY <1>3, <1>6
  <2>2. ASSUME NEW g \in [D -> SUBSET S], Closed(g) PROVE w \in g[n]
    <3>1. ReadOn(f, G, n) \subseteq ReadOn(g, G, n)
      <4>1. \A m \in D : f[m] \subseteq g[m]
        BY <1>7, <2>2
      <4> QED BY <1>4, <4>1
    <3>2. ReadOn(g, G, n) \subseteq g[n]
      BY <2>2
    <3> QED BY <3>1, <3>2
  <2> HIDE DEF Closed
  <2> QED BY <1>5, <2>1, <2>2
<1>9. PICK h : h = [n \in D |-> ReadOn(f, G, n)]
  OBVIOUS
<1>10. h \in [D -> SUBSET S]
  BY <1>3, <1>6, <1>9
<1>11. \A m \in D : h[m] \subseteq f[m]
  BY <1>8, <1>9
<1>12. Closed(h)
  <2> SUFFICES ASSUME NEW n \in D PROVE ReadOn(h, G, n) \subseteq h[n]
    OBVIOUS
  <2>1. ReadOn(h, G, n) \subseteq ReadOn(f, G, n)
    BY <1>4, <1>11
  <2> QED BY <1>9, <2>1
<1>13. \A m \in D : f[m] = h[m]
  <2>1. \A m \in D : f[m] \subseteq h[m]
    <3> HIDE DEF Closed
    <3> QED BY <1>7, <1>10, <1>12
  <2> QED BY <1>11, <2>1
<1>14. f = h
  <2>1. f = [n \in D |-> f[n]]
    BY <1>6
  <2>2. h = [n \in D |-> h[n]]
    BY <1>10
  <2> QED BY <1>13, <2>1, <2>2
<1> QED BY <1>1, <1>9, <1>14 DEF Reading

LEMMA ReadingIs ==
  ASSUME NEW G, NEW f, Reading(f, G), NEW n \in DOMAIN G \cup {GRAPH_END}
  PROVE  f[n] = ReadOn(f, G, n)
<1>1. PICK g : g = [m \in DOMAIN G \cup {GRAPH_END} |-> ReadOn(f, G, m)]
  OBVIOUS
<1>2. f = g
  BY <1>1 DEF Reading
<1>3. g[n] = ReadOn(f, G, n)
  BY <1>1
<1> QED BY <1>2, <1>3

(* The edges of a graph, as Readings has them.                             *)
LEMMA EdgesLead ==
  ASSUME PathsInv, NEW G, NEW start, NEW N, IsGraphOf(G, start, N, KeptSpans), NEW n \in DOMAIN G,
         NEW e \in ToSet(G[n])
  PROVE  /\ \E j \in 1 .. Len(G[n]) : e = G[n][j]
         /\ IsSpan(e.span) /\ Unprefixed(e.span) \in { Unprefixed(s) : s \in KeptSpans }
         /\ \/ e.next_node = GRAPH_END
            \/ e.next_node \in 0 .. N - 1 /\ e.next_node # GRAPH_END /\ start[n] < start[e.next_node]
<1>1. DOMAIN G = 0 .. N - 1 /\ N \in Nat /\ G[n] \in Seq(Edges(KeptSpans))
  BY DEF IsGraphOf, NodeFits
<1>2. DOMAIN G[n] = 1 .. Len(G[n])
  BY <1>1
<1>3. PICK j \in 1 .. Len(G[n]) : e = G[n][j]
  BY <1>2 DEF ToSet
<1>4. n \in 0 .. N - 1
  BY <1>1
<1>5. e.span \in KeptSpans /\ (\/ e.next_node = GRAPH_END
                               \/ /\ e.next_node \in 1 .. N - 1 /\ e.next_node # GRAPH_END
                                  /\ start[n] < start[e.next_node])
  BY <1>3, <1>4, NodeEdges
<1>6. \A t \in 1 .. N - 1 : t \in 0 .. N - 1
  BY <1>1
<1>7. IsSpan(e.span)
  BY <1>5, KeptSpansAre
<1> QED BY <1>3, <1>5, <1>6, <1>7

LEMMA GraphIsRead ==
  ASSUME PathsInv, NEW G, NEW start, NEW N, IsGraphOf(G, start, N, KeptSpans)
  PROVE  \E f : Reading(f, G)
<1>1. PICK U : U = { Unprefixed(s) : s \in KeptSpans }
  OBVIOUS
<1>2. DOMAIN G = 0 .. N - 1
  BY DEF IsGraphOf
<1>3. \A n \in DOMAIN G : \A e \in ToSet(G[n]) :
        e.next_node \in DOMAIN G \cup {GRAPH_END} /\ Unprefixed(e.span) \in U
  BY <1>1, <1>2, EdgesLead
<1> QED BY <1>3, ReadingExists

(* Where each edge of G has one of the same span in G1, between the nodes  *)
(* that F has for its own, what can be read in G can be read in G1.        *)
Carries(F, G, N, G1) ==
  /\ F[GRAPH_END] = GRAPH_END
  /\ \A n \in 0 .. N - 1 :
       /\ F[n] \in DOMAIN G1 /\ F[n] # GRAPH_END
       /\ \A j \in 1 .. Len(G[n]) : \E e \in ToSet(G1[F[n]]) :
            IsSpan(e.span) /\ SameSpan(e.span, G[n][j].span) /\ e.next_node = F[G[n][j].next_node]

LEMMA ReadingsCarried ==
  ASSUME PathsInv, NEW G, NEW start, NEW N, IsGraphOf(G, start, N, KeptSpans),
         NEW G1, NEW F, Carries(F, G, N, G1), NEW f, Reading(f, G), NEW g, Reading(g, G1)
  PROVE  \A n \in 0 .. N - 1 : f[n] \subseteq g[F[n]]
<1>1. DOMAIN G = 0 .. N - 1 /\ N \in Nat /\ N <= GRAPH_END
  BY DEF IsGraphOf
<1>2. \A n \in 0 .. N - 1 : start[n] \in Nat /\ start[n] < WordEnd
  BY NodeStarts
<1> DEFINE bad == { n \in 0 .. N - 1 : ~(f[n] \subseteq g[F[n]]) }
           dist == { WordEnd - start[n] : n \in bad }
<1> SUFFICES ASSUME bad # {} PROVE FALSE
  OBVIOUS
<1>3. \A n \in bad : n \in 0 .. N - 1
  OBVIOUS
<1>4. dist \in SUBSET Nat /\ dist # {}
  <2>1. \A n \in bad : WordEnd - start[n] \in Nat
    BY <1>2, <1>3, InflexionGraphAssumption
  <2> QED BY <2>1
<1>5. PICK k \in dist : \A i \in dist : k <= i
  <2> HIDE DEF dist
  <2> QED BY <1>4, LeastOf
<1>6. PICK n \in bad : k = WordEnd - start[n]
  BY <1>5
<1>7. \A m \in bad : WordEnd - start[n] <= WordEnd - start[m]
  BY <1>5, <1>6
<1>8. n \in 0 .. N - 1 /\ n \in DOMAIN G /\ n # GRAPH_END
  BY <1>1, <1>6
<1>9. PICK w \in f[n] : w \notin g[F[n]]
  BY <1>6
<1>10. f[n] = ReadOn(f, G, n)
  BY <1>8, ReadingIs
<1>11. PICK e \in ToSet(G[n]) : \E rest \in f[e.next_node] : w = ReadFirst(e, rest)
  BY <1>8, <1>9, <1>10, ReadOnIs
<1>12. PICK rest \in f[e.next_node] : w = ReadFirst(e, rest)
  BY <1>11
<1>13. PICK j \in 1 .. Len(G[n]) : e = G[n][j]
  BY <1>8, EdgesLead
<1>14. PICK d \in ToSet(G1[F[n]]) : IsSpan(d.span) /\ SameSpan(d.span, e.span) /\ d.next_node = F[e.next_node]
  BY <1>8, <1>13 DEF Carries
<1>15. Unprefixed(d.span) = Unprefixed(e.span)
  <2>1. IsSpan(e.span)
    BY <1>8, EdgesLead
  <2> QED BY <1>14, <2>1, UnprefixedIs
<1>16. rest \in g[d.next_node]
  <2>1. CASE e.next_node = GRAPH_END
    <3>1. f[GRAPH_END] = {<<>>} /\ g[GRAPH_END] = {<<>>}
      BY ReadingIs DEF ReadOn
    <3>2. d.next_node = GRAPH_END
      BY <1>14, <2>1 DEF Carries
    <3> QED BY <1>12, <2>1, <3>1, <3>2
  <2>2. CASE e.next_node # GRAPH_END
    <3>1. PICK m \in 0 .. N - 1 : m = e.next_node /\ start[n] < start[m]
      BY <1>8, <2>2, EdgesLead
    <3>2. m \notin bad
      <4>1. ~(WordEnd - start[n] <= WordEnd - start[m])
        BY <1>2, <1>8, <3>1, InflexionGraphAssumption
      <4> HIDE DEF bad
      <4> QED BY <1>7, <4>1
    <3>3. f[m] \subseteq g[F[m]]
      BY <3>2
    <3> QED BY <1>12, <1>14, <3>1, <3>3
  <2> QED BY <2>1, <2>2
<1>17. F[n] # GRAPH_END /\ g[F[n]] = ReadOn(g, G1, F[n])
  <2>1. F[n] \in DOMAIN G1 /\ F[n] # GRAPH_END
    BY <1>8 DEF Carries
  <2> QED BY <2>1, ReadingIs
<1>18. w \in g[F[n]]
  <2>1. w = ReadFirst(d, rest)
    BY <1>12, <1>15 DEF ReadFirst
  <2> QED BY <1>14, <1>16, <1>17, <2>1, ReadOnIs
<1> QED BY <1>9, <1>18

(* A merge carries each edge to one between the nodes that are left.       *)
LEMMA MergeCarries ==
  ASSUME PathsInv, NEW N, NEW n1, NEW n2, MergesAt(N, n1, n2), Merge(n1, n2)
  PROVE  Carries(Merging(n1, n2, N), graph, N, graph') /\ Merging(n1, n2, N)[0] = 0
<1>1. /\ N \in Nat /\ N <= GRAPH_END /\ GRAPH_END \in Nat /\ N = GraphSize
      /\ n1 \in 0 .. N - 1 /\ n2 \in 0 .. N - 1 /\ n1 < n2
      /\ node2start[n1] = node2start[n2] /\ IsGraphOf(graph, node2start, N, KeptSpans)
  BY InflexionGraphAssumption DEF MergesAt, IsGraphOf
<1>2. PICK F : F = Merging(n1, n2, N)
  OBVIOUS
<1>3. PICK G1 : G1 = graph'
  OBVIOUS
<1>4. \A t \in Nat : F[t] = IF t = n2 THEN n1 ELSE IF n2 < t /\ t < N THEN t - 1 ELSE t
  BY <1>2 DEF Merging
<1>5. F[GRAPH_END] = GRAPH_END /\ F[0] = 0
  BY <1>1, <1>4
<1>6. IsGraphOf(G1, node2start', N - 1, KeptSpans)
  BY <1>3, MergeKeeps
<1>7. DOMAIN G1 = 0 .. N - 2
  <2>1. (N - 1) - 1 = N - 2
    BY <1>1
  <2> QED BY <1>6, <2>1 DEF IsGraphOf
<1>8. ASSUME NEW n \in 0 .. N - 1
      PROVE  /\ F[n] \in 0 .. N - 2 /\ F[n] # GRAPH_END
             /\ (n = n2 /\ Before(n2, F[n]) = n1) \/ (n # n2 /\ Before(n2, F[n]) = n)
  <2>1. n \in Nat /\ n < N
    BY <1>1
  <2>2. PICK m : m = F[n]
    OBVIOUS
  <2>3. m = IF n = n2 THEN n1 ELSE IF n2 < n THEN n - 1 ELSE n
    BY <1>4, <2>1, <2>2
  <2>4. m \in 0 .. N - 2 /\ m # GRAPH_END
    BY <1>1, <2>1, <2>3
  <2>5. (n = n2 /\ Before(n2, m) = n1) \/ (n # n2 /\ Before(n2, m) = n)
    BY <1>1, <2>1, <2>3 DEF Before
  <2> QED BY <2>2, <2>4, <2>5
<1>9. ASSUME NEW n \in 0 .. N - 1, NEW j \in 1 .. Len(graph[n])
      PROVE  \E e \in ToSet(G1[F[n]]) :
               IsSpan(e.span) /\ SameSpan(e.span, graph[n][j].span) /\ e.next_node = F[graph[n][j].next_node]
  <2>1. PICK m \in 0 .. N - 2 : m = F[n]
    BY <1>8
  <2>2. PICK o \in 0 .. N - 1 : o = Before(n2, m) /\ ((n = n2 /\ o = n1) \/ (n # n2 /\ o = n))
    BY <1>1, <1>8, <2>1
  <2>3. PICK E : E = JoinedAt(n1, n2, o)
    OBVIOUS
  <2>4. PICK a \in 1 .. Len(E) : E[a].next_node = graph[n][j].next_node /\ SameSpan(E[a].span, graph[n][j].span)
    <3>1. CASE o # n1
      <4>1. E = graph[n]
        BY <2>2, <2>3, <3>1 DEF JoinedAt
      <4> QED BY <4>1 DEF SameSpan
    <3>2. CASE o = n1
      <4>1. PICK u : u = graph[n1]
        OBVIOUS
      <4>2. PICK v : v = graph[n2]
        OBVIOUS
      <4>3. u \in Seq(Edges(KeptSpans)) /\ v \in Seq(Edges(KeptSpans)) /\ EdgesDiffer(u)
        BY <1>1, <4>1, <4>2 DEF IsGraphOf, NodeFits
      <4>4. JoinOf(E, u, v, KeptSpans)
        BY <2>3, <3>2, <4>1, <4>2, <4>3, JoinedIs DEF JoinedAt
      <4>5. CASE n = n2
        <5>1. PICK a \in 1 .. Len(E) : SameEdge(E[a], v[j])
          BY <4>2, <4>4, <4>5 DEF JoinOf
        <5> QED BY <4>2, <4>5, <5>1, SameEdges
      <4>6. CASE n = n1
        <5>1. PICK a \in 1 .. Len(E) : E[a] = u[j]
          BY <4>1, <4>4, <4>6 DEF JoinOf
        <5> QED BY <4>1, <4>6, <5>1 DEF SameSpan
      <4> QED BY <2>2, <3>2, <4>5, <4>6
    <3> QED BY <3>1, <3>2
  <2>5. IsImage(G1[m], E, F)
    BY <1>2, <1>3, <2>2, <2>3, MergedNodes
  <2>6. PICK i \in 1 .. Len(G1[m]) : G1[m][i].next_node = F[E[a].next_node] /\ SameSpan(G1[m][i].span, E[a].span)
    BY <2>5 DEF IsImage
  <2>7. PICK e : e = G1[m][i]
    OBVIOUS
  <2>8. G1[m] \in Seq(Edges(KeptSpans))
    BY <1>3, <2>2, <2>3, MergedNodes
  <2>9. e \in ToSet(G1[m])
    BY <2>7, <2>8 DEF ToSet
  <2>10. IsSpan(e.span)
    <3>1. m \in DOMAIN G1
      BY <1>7
    <3> QED BY <1>6, <2>9, <3>1, EdgesLead
  <2>11. SameSpan(e.span, graph[n][j].span)
    BY <2>4, <2>6, <2>7 DEF SameSpan
  <2> QED BY <2>1, <2>4, <2>6, <2>7, <2>9, <2>10, <2>11
<1> QED BY <1>2, <1>3, <1>5, <1>7, <1>8, <1>9 DEF Carries

LEMMA MergeKeepsReadings ==
  ASSUME GraphInv, MergeTwo
  PROVE  Readings \subseteq Readings'
<1>1. PathsInv /\ Minimizing /\ UNCHANGED <<paths, input>>
  BY MergeTwoIs
<1>2. PICK N : N = GraphSize
  OBVIOUS
<1>3. PICK n1, n2 : MergesAt(N, n1, n2) /\ Merge(n1, n2)
  BY <1>2, MergeTwoIs
<1>4. IsGraphOf(graph, node2start, N, KeptSpans) /\ N \in Nat /\ N # 0 /\ 0 \in 0 .. N - 1
  BY <1>1, <1>2 DEF Minimizing, IsGraphOf
<1>5. IsGraphOf(graph', node2start', N - 1, KeptSpans) /\ GraphSize' = N - 1 /\ N - 1 # 0
  <2>1. N - 1 # 0
    BY <1>3, <1>4 DEF MergesAt
  <2> QED BY <1>1, <1>3, <2>1, MergeKeeps
<1> DEFINE f == CHOOSE f : Reading(f, graph)
           g == CHOOSE g : Reading(g, graph')
<1>6. Reading(f, graph)
  BY <1>1, <1>4, GraphIsRead
<1>7. Reading(g, graph')
  BY <1>1, <1>5, GraphIsRead
<1>8. Readings = f[0]
  BY <1>2, <1>4 DEF Readings, Reading, ReadOn, ReadFirst
<1>9. Readings' = g[0]
  BY <1>5 DEF Readings, Reading, ReadOn, ReadFirst
<1> HIDE DEF f, g
<1>10. PICK F : F = Merging(n1, n2, N)
  OBVIOUS
<1>11. Carries(F, graph, N, graph') /\ F[0] = 0
  BY <1>1, <1>3, <1>10, MergeCarries
<1>12. f[0] \subseteq g[F[0]]
  BY <1>1, <1>4, <1>6, <1>7, <1>11, ReadingsCarried
<1> QED BY <1>8, <1>9, <1>11, <1>12

LEMMA EndKeepsReadings ==
  ASSUME GraphInv, Minimized
  PROVE  Readings \subseteq Readings'
<1>1. graph' = graph
  BY DEF Minimized
<1> QED BY <1>1 DEF Readings, GraphSize

(* Merging two nodes never loses a segmentation of the word: whatever one  *)
(* could read from the first node to the end before do_merge_nodes, one    *)
(* can read after it.                                                      *)
THEOREM ReadingsAlwaysKept == Spec => ReadingsKept
<1>1. Init => GraphInv
  BY GraphInvInitially
<1>2. GraphInv /\ [Next]_vars => GraphInv'
  BY GraphInvKept
<1>3. GraphInv /\ [Next]_vars => [stage = "minimize" => Readings \subseteq Readings']_vars
  <2> SUFFICES ASSUME GraphInv, Next, stage = "minimize" PROVE Readings \subseteq Readings'
    OBVIOUS
  <2>1. MergeTwo \/ Minimized
    BY DEF Next, GraphStep, Finished, ReturnNone, Retain, SinglePath, SingleEdgePaths, AddPath, Minimize, Renumber
  <2> QED BY <2>1, MergeKeepsReadings, EndKeepsReadings
<1> QED BY <1>1, <1>2, <1>3, PTL DEF Spec, ReadingsKept
=============================================================================
