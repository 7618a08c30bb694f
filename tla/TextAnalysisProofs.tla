------------------------- MODULE TextAnalysisProofs -------------------------
(***************************************************************************)
(* What the loader of text dictionaries and the sessions that use them     *)
(* promise, for all files, hints and texts.  The invariant of the loader   *)
(* says of each table of identifiers that its halves agree, of each entry, *)
(* found or still to be inserted, that it reads a line of the dictionary,  *)
(* and of each line that is behind the loader that it is found.  Most of   *)
(* the work is in what the hints ask for: lists of entries, one after      *)
(* another, each of which still reads a line when it is relabelled,        *)
(* combined with another or put under another case.                        *)
(*                                                                         *)
(* The invariant of the session says that the segments are the text, cut   *)
(* where spaces begin and end, and that the answer so far spells what the  *)
(* loops went past: its nodes stand at places of that text and its edges   *)
(* say what is between them.  What each step adds is such an answer too,   *)
(* from its first node to its last, and two of them that meet at a node    *)
(* spell one text after the other.                                         *)
(***************************************************************************)
EXTENDS TextAnalysis, WellFoundedInduction, SequenceTheorems, FiniteSetTheorems, FunctionTheorems, TLAPS

-----------------------------------------------------------------------------
(* Sequences one after another                                             *)

(* The least of the numbers of a set.                                      *)
LEMMA LeastOf ==
  ASSUME NEW S \in SUBSET Nat, S # {}
  PROVE  \E k \in S : \A i \in S : k <= i
<1>1. PICK k \in S : \A i \in S : ~ (<<i, k>> \in OpToRel(<, Nat))
  BY WFMin, NatLessThanWellFounded
<1>2. \A i \in S : i \in Nat /\ ~(i < k)
  BY <1>1, Zenon DEF OpToRel
<1> QED BY <1>2

LEMMA ConcatElements ==
  ASSUME NEW S, NEW u \in Seq(S), NEW v \in Seq(S)
  PROVE  ToSet(u \o v) = ToSet(u) \cup ToSet(v)
<1> DEFINE w == u \o v
<1>1. /\ w \in Seq(S) /\ Len(w) = Len(u) + Len(v) /\ Len(u) \in Nat /\ Len(v) \in Nat
      /\ DOMAIN w = 1 .. Len(w) /\ DOMAIN u = 1 .. Len(u) /\ DOMAIN v = 1 .. Len(v)
      /\ \A i \in 1 .. Len(u) : w[i] = u[i]
      /\ \A i \in 1 .. Len(v) : w[Len(u) + i] = v[i]
  OBVIOUS
<1> HIDE DEF w
<1>2. ToSet(w) \subseteq ToSet(u) \cup ToSet(v)
  <2> SUFFICES ASSUME NEW i \in 1 .. Len(w)
               PROVE  w[i] \in ToSet(u) \cup ToSet(v)
    BY <1>1 DEF ToSet
  <2>1. CASE i <= Len(u)
    <3>1. i \in 1 .. Len(u)
      BY <1>1, <2>1
    <3> QED BY <1>1, <3>1 DEF ToSet
  <2>2. CASE ~(i <= Len(u))
    <3> DEFINE j == i - Len(u)
    <3>1. j \in 1 .. Len(v) /\ i = Len(u) + j
      BY <1>1, <2>2
    <3> HIDE DEF j
    <3>2. w[i] = v[j]
      BY <1>1, <3>1
    <3> QED BY <1>1, <3>1, <3>2 DEF ToSet
  <2> QED BY <2>1, <2>2
<1>3. ToSet(u) \subseteq ToSet(w)
  <2> SUFFICES ASSUME NEW i \in 1 .. Len(u)
               PROVE  u[i] \in ToSet(w)
    BY <1>1 DEF ToSet
  <2>1. i \in 1 .. Len(w) /\ w[i] = u[i]
    BY <1>1
  <2> QED BY <1>1, <2>1 DEF ToSet
<1>4. ToSet(v) \subseteq ToSet(w)
  <2> SUFFICES ASSUME NEW i \in 1 .. Len(v)
               PROVE  v[i] \in ToSet(w)
    BY <1>1 DEF ToSet
  <2>1. Len(u) + i \in 1 .. Len(w) /\ w[Len(u) + i] = v[i]
    BY <1>1
  <2> QED BY <1>1, <2>1 DEF ToSet
<1> QED BY <1>2, <1>3, <1>4 DEF w

(* What FlattenSeq computes at each place.                                 *)
Flattens(f, ss, k) == f = [i \in 1 .. k |-> IF i = 1 THEN ss[i] ELSE f[i - 1] \o ss[i]]

LEMMA FlattenExists ==
  ASSUME NEW S, NEW ss \in Seq(Seq(S)), ss # <<>>
  PROVE  \E f : Flattens(f, ss, Len(ss))
<1> DEFINE bad == { k \in 1 .. Len(ss) : ~ \E f : Flattens(f, ss, k) }
<1> SUFFICES ASSUME bad # {} PROVE FALSE
  <2>1. Len(ss) \in 1 .. Len(ss)
    OBVIOUS
  <2> QED BY <2>1
<1>1. PICK k \in bad : \A i \in bad : k <= i
  <2>1. bad \in SUBSET Nat
    OBVIOUS
  <2> HIDE DEF bad
  <2> QED BY <2>1, LeastOf
<1>2. CASE k = 1
  <2> DEFINE f == [i \in 1 .. 1 |-> ss[1]]
  <2>1. Flattens(f, ss, 1)
    BY DEF Flattens
  <2> QED BY <1>2, <2>1
<1>3. CASE k # 1
  <2>0. k \in 1 .. Len(ss) /\ k - 1 \in 1 .. Len(ss)
    BY <1>1, <1>3
  <2>1. k \in 1 .. Len(ss) /\ k - 1 \in 1 .. Len(ss) /\ k - 1 \notin bad
    <3> HIDE DEF bad
    <3>1. ~(k <= k - 1)
      BY <2>0
    <3> QED BY <1>1, <2>0, <3>1
  <2>2. PICK g : Flattens(g, ss, k - 1)
    BY <2>1
  <2> DEFINE f == [i \in 1 .. k |-> IF i = k THEN g[k - 1] \o ss[k] ELSE g[i]]
  <2>3. \A i \in 1 .. k : f[i] = IF i = 1 THEN ss[i] ELSE f[i - 1] \o ss[i]
    <3> SUFFICES ASSUME NEW i \in 1 .. k
                 PROVE  f[i] = IF i = 1 THEN ss[i] ELSE f[i - 1] \o ss[i]
      OBVIOUS
    <3>1. CASE i = k
      <4>1. k \in 1 .. k /\ k - 1 \in 1 .. k /\ k # k - 1 /\ k # 1
        BY <1>3, <2>0
      <4>2. f[k] = g[k - 1] \o ss[k] /\ f[k - 1] = g[k - 1]
        BY <4>1
      <4> QED BY <3>1, <4>1, <4>2
    <3>2. CASE i # k
      <4>1. i \in 1 .. k - 1 /\ (i # 1 => i - 1 \in 1 .. k - 1)
        BY <2>1, <3>2
      <4>2. g[i] = IF i = 1 THEN ss[i] ELSE g[i - 1] \o ss[i]
        BY <2>2, <4>1 DEF Flattens
      <4>3. f[i] = g[i] /\ (i # 1 => f[i - 1] = g[i - 1])
        BY <2>1, <3>2, <4>1
      <4> QED BY <4>2, <4>3
    <3> QED BY <3>1, <3>2
  <2>4. Flattens(f, ss, k)
    <3>1. f = [i \in 1 .. k |-> f[i]]
      OBVIOUS
    <3> HIDE DEF f
    <3> QED BY <2>3, <3>1 DEF Flattens
  <2> QED BY <2>1, <2>4
<1> QED BY <1>2, <1>3

LEMMA FlattenIs ==
  ASSUME NEW S, NEW ss \in Seq(Seq(S)), ss # <<>>
  PROVE  \E f : Flattens(f, ss, Len(ss)) /\ FlattenSeq(ss) = f[Len(ss)]
<1> DEFINE f == CHOOSE f : Flattens(f, ss, Len(ss))
<1>1. Flattens(f, ss, Len(ss))
  BY FlattenExists
<1>2. FlattenSeq(ss) = f[Len(ss)]
  <2>1. Len(ss) # 0
    OBVIOUS
  <2> QED BY <2>1 DEF FlattenSeq, Flattens
<1> QED BY <1>1, <1>2

(* One after another gives the elements of all, in their type; and what    *)
(* one gives when the others give nothing.                                 *)
LEMMA FlattenElements ==
  ASSUME NEW S, NEW ss \in Seq(Seq(S))
  PROVE  /\ FlattenSeq(ss) \in Seq(S)
         /\ \A x : x \in ToSet(FlattenSeq(ss)) <=> \E i \in DOMAIN ss : x \in ToSet(ss[i])
<1>1. CASE ss = <<>>
  <2>1. FlattenSeq(ss) = <<>>
    BY <1>1 DEF FlattenSeq
  <2>2. DOMAIN ss = {} /\ ToSet(<<>>) = {}
    BY <1>1 DEF ToSet
  <2>3. <<>> \in Seq(S)
    OBVIOUS
  <2> QED BY <2>1, <2>2, <2>3
<1>2. CASE ss # <<>>
  <2>1. PICK f : Flattens(f, ss, Len(ss)) /\ FlattenSeq(ss) = f[Len(ss)]
    BY <1>2, FlattenIs
  <2> DEFINE Good(k) == /\ f[k] \in Seq(S)
                        /\ \A x : x \in ToSet(f[k]) <=> \E i \in 1 .. k : x \in ToSet(ss[i])
             bad == { k \in 1 .. Len(ss) : ~ Good(k) }
  <2>2. \A k \in 1 .. Len(ss) : f[k] = IF k = 1 THEN ss[k] ELSE f[k - 1] \o ss[k]
    BY <2>1 DEF Flattens
  <2>3. bad = {}
    <3> SUFFICES ASSUME bad # {} PROVE FALSE
      OBVIOUS
    <3>1. PICK k \in bad : \A i \in bad : k <= i
      <4>1. bad \in SUBSET Nat
        OBVIOUS
      <4> HIDE DEF bad
      <4> QED BY <4>1, LeastOf
    <3>2. k \in 1 .. Len(ss) /\ ~Good(k) /\ ss[k] \in Seq(S)
      BY <3>1
    <3> HIDE DEF bad
    <3>3. CASE k = 1
      <4>1. f[k] = ss[1]
        BY <2>2, <3>2, <3>3
      <4>2. \A i \in 1 .. k : i = 1
        BY <3>3
      <4>3. 1 \in 1 .. k
        BY <3>3
      <4> QED BY <3>2, <3>3, <4>1, <4>2, <4>3
    <3>4. CASE k # 1
      <4>1. k - 1 \in 1 .. Len(ss) /\ ~(k <= k - 1)
        BY <3>2, <3>4
      <4>2. Good(k - 1)
        <5>1. k - 1 \notin bad
          BY <3>1, <4>1
        <5> QED BY <4>1, <5>1 DEF bad
      <4>3. f[k] = f[k - 1] \o ss[k]
        BY <2>2, <3>2, <3>4
      <4>4. f[k] \in Seq(S)
        BY <3>2, <4>2, <4>3
      <4>5. ToSet(f[k]) = ToSet(f[k - 1]) \cup ToSet(ss[k])
        <5> DEFINE u == f[k - 1]
                   v == ss[k]
        <5>1. u \in Seq(S) /\ v \in Seq(S)
          BY <3>2, <4>2
        <5> HIDE DEF u, v
        <5>2. ToSet(u \o v) = ToSet(u) \cup ToSet(v)
          BY <5>1, ConcatElements
        <5> QED BY <4>3, <5>2 DEF u, v
      <4>6. \A i : i \in 1 .. k <=> (i \in 1 .. k - 1 \/ i = k)
        BY <3>2, <3>4
      <4>7. \A x : x \in ToSet(f[k]) <=> \E i \in 1 .. k : x \in ToSet(ss[i])
        BY <4>2, <4>5, <4>6
      <4> QED BY <3>2, <4>4, <4>7
    <3> QED BY <3>3, <3>4
  <2>4. Len(ss) \in 1 .. Len(ss) /\ DOMAIN ss = 1 .. Len(ss)
    BY <1>2
  <2>5. Good(Len(ss))
    BY <2>3, <2>4
  <2> QED BY <2>1, <2>4, <2>5
<1> QED BY <1>1, <1>2
LEMMA FlattenOne ==
  ASSUME NEW S, NEW ss \in Seq(Seq(S)), NEW n \in DOMAIN ss,
         \A i \in DOMAIN ss : i # n => ss[i] = <<>>
  PROVE  FlattenSeq(ss) = ss[n]
<1>1. ss # <<>> /\ DOMAIN ss = 1 .. Len(ss) /\ Len(ss) \in Nat
  OBVIOUS
<1>2. PICK f : Flattens(f, ss, Len(ss)) /\ FlattenSeq(ss) = f[Len(ss)]
  BY <1>1, FlattenIs
<1>3. \A k \in 1 .. Len(ss) : f[k] = IF k = 1 THEN ss[k] ELSE f[k - 1] \o ss[k]
  BY <1>2 DEF Flattens
<1> DEFINE Good(k) == f[k] = IF k < n THEN <<>> ELSE ss[n]
           bad == { k \in 1 .. Len(ss) : ~ Good(k) }
<1>4. bad = {}
  <2> SUFFICES ASSUME bad # {} PROVE FALSE
    OBVIOUS
  <2>1. PICK k \in bad : \A i \in bad : k <= i
    <3>1. bad \in SUBSET Nat
      OBVIOUS
    <3> HIDE DEF bad
    <3> QED BY <3>1, LeastOf
  <2>2. k \in 1 .. Len(ss) /\ ~Good(k) /\ ss[k] \in Seq(S) /\ ss[n] \in Seq(S)
    BY <1>1, <2>1
  <2>3. k # 1 => k - 1 \in 1 .. Len(ss) /\ Good(k - 1)
    <3> SUFFICES ASSUME k # 1
                 PROVE  k - 1 \in 1 .. Len(ss) /\ Good(k - 1)
      OBVIOUS
    <3>1. k - 1 \in 1 .. Len(ss) /\ ~(k <= k - 1)
      BY <1>1, <2>2
    <3>2. k - 1 \notin bad
      <4> HIDE DEF bad
      <4> QED BY <2>1, <3>1
    <3> QED BY <3>1, <3>2
  <2> HIDE DEF bad
  <2>4. CASE k < n
    <3>1. ss[k] = <<>>
      BY <1>1, <2>2, <2>4
    <3>2. CASE k = 1
      BY <1>3, <2>2, <2>4, <3>1, <3>2
    <3>3. CASE k # 1
      <4>1. f[k - 1] = <<>>
        BY <1>1, <2>2, <2>3, <2>4, <3>3
      <4>2. f[k] = <<>> \o <<>>
        BY <1>3, <2>2, <3>1, <3>3, <4>1
      <4> QED BY <2>2, <2>4, <4>2
    <3> QED BY <3>2, <3>3
  <2>5. CASE k = n
    <3>1. CASE k = 1
      BY <1>3, <2>2, <2>5, <3>1
    <3>2. CASE k # 1
      <4>1. f[k - 1] = <<>>
        BY <1>1, <2>2, <2>3, <2>5, <3>2
      <4>2. f[k] = <<>> \o ss[n]
        BY <1>3, <2>2, <2>5, <3>2, <4>1
      <4> QED BY <1>1, <2>2, <2>5, <4>2
    <3> QED BY <3>1, <3>2
  <2>6. CASE n < k
    <3>1. ss[k] = <<>> /\ k # 1
      <4>1. k \in DOMAIN ss /\ k # n /\ k # 1
        BY <1>1, <2>2, <2>6
      <4> QED BY <4>1
    <3>2. f[k - 1] = ss[n]
      BY <1>1, <2>2, <2>3, <2>6, <3>1
    <3>3. f[k] = ss[n] \o <<>>
      BY <1>3, <2>2, <3>1, <3>2
    <3> QED BY <1>1, <2>2, <2>6, <3>3
  <2> QED BY <1>1, <2>2, <2>4, <2>5, <2>6
<1>5. Len(ss) \in 1 .. Len(ss) /\ ~(Len(ss) < n)
  BY <1>1
<1>6. Good(Len(ss))
  BY <1>4, <1>5
<1> QED BY <1>2, <1>5, <1>6
-----------------------------------------------------------------------------
(* Tables of identifiers                                                   *)

Table(t) ==
  /\ t = [texts |-> t.texts, ids |-> t.ids]
  /\ t.texts \in Seq(ToSet(t.texts))
  /\ t.ids \in [DOMAIN t.ids -> Nat]

(* No identifier comes to mean another text.                               *)
Grows(t, u) == \A i \in DOMAIN t.texts : i \in DOMAIN u.texts /\ u.texts[i] = t.texts[i]

LEMMA ListOfItsElements ==
  ASSUME NEW S, NEW s \in Seq(S)
  PROVE  s \in Seq(ToSet(s))
<1>1. /\ s = [i \in 1 .. Len(s) |-> s[i]] /\ Len(s) \in Nat
      /\ \A i \in 1 .. Len(s) : s[i] \in ToSet(s)
  BY DEF ToSet
<1> QED BY <1>1

LEMMA EmptyTableIs ==
  Table(EmptyTable) /\ Sound(EmptyTable) /\ DOMAIN EmptyTable.ids = {}
<1>1. EmptyTable.texts = <<>> /\ EmptyTable.ids = [t \in {} |-> 0]
  BY DEF EmptyTable
<1>2. <<>> \in Seq(ToSet(<<>>))
  OBVIOUS
<1>3. EmptyTable.ids \in [DOMAIN EmptyTable.ids -> Nat] /\ DOMAIN EmptyTable.ids = {}
  BY <1>1
<1>4. Table(EmptyTable)
  BY <1>1, <1>2, <1>3 DEF Table, EmptyTable
<1>5. Sound(EmptyTable)
  BY <1>3 DEF Sound
<1> QED BY <1>3, <1>4, <1>5

LEMMA InsertKeeps ==
  ASSUME NEW t, Table(t), Sound(t), NEW x, NEW u, u = GetOrInsert(t, x)
  PROVE  /\ Table(u) /\ Sound(u) /\ Grows(t, u)
         /\ HasId(u, x) /\ Id(u, x) \in Nat
         /\ Id(u, x) + 1 \in DOMAIN u.texts /\ Text(u, Id(u, x)) = x
<1>1. CASE HasId(t, x)
  <2>1. u = t
    BY <1>1 DEF GetOrInsert
  <2> QED BY <1>1, <2>1 DEF Grows, Sound, HasId, Id, Table
<1>2. CASE ~HasId(t, x)
  <2> DEFINE texts == t.texts
             ids == t.ids
             n == Len(texts)
  <2>1. /\ u.texts = Append(texts, x)
        /\ u.ids = [y \in DOMAIN ids \cup {x} |-> IF y = x THEN n ELSE ids[y]]
        /\ u = [texts |-> u.texts, ids |-> u.ids]
    BY <1>2 DEF GetOrInsert
  <2>2. texts \in Seq(ToSet(texts)) /\ ids \in [DOMAIN ids -> Nat] /\ n \in Nat
    BY DEF Table
  <2>3. \A y \in DOMAIN ids : ids[y] + 1 \in DOMAIN texts /\ texts[ids[y] + 1] = y
    BY DEF Sound, Text
  <2>4. x \notin DOMAIN ids
    BY <1>2 DEF HasId
  <2> HIDE DEF texts, ids
  <2>5. Append(texts, x) \in Seq(ToSet(texts) \cup {x})
    BY <2>2
  <2>6. /\ DOMAIN Append(texts, x) = 1 .. n + 1 /\ Append(texts, x)[n + 1] = x
        /\ DOMAIN texts = 1 .. n
        /\ \A i \in 1 .. n : Append(texts, x)[i] = texts[i]
    BY <2>2
  <2>7. u.ids \in [DOMAIN u.ids -> Nat] /\ DOMAIN u.ids = DOMAIN ids \cup {x}
    BY <2>1, <2>2
  <2>8. Table(u)
    BY <2>1, <2>5, <2>7, ListOfItsElements DEF Table
  <2>9. u.ids[x] = n
    BY <2>1
  <2>10. Grows(t, u)
    BY <2>1, <2>2, <2>6 DEF Grows, texts
  <2>11. Sound(u)
    <3> SUFFICES ASSUME NEW y \in DOMAIN u.ids
                 PROVE  u.ids[y] + 1 \in DOMAIN u.texts /\ u.texts[u.ids[y] + 1] = y
      BY DEF Sound, Text
    <3>1. CASE y = x
      BY <2>1, <2>2, <2>6, <2>9, <3>1
    <3>2. CASE y # x
      <4>1. y \in DOMAIN ids /\ u.ids[y] = ids[y]
        BY <2>1, <2>7, <3>2
      <4>2. ids[y] + 1 \in 1 .. n /\ texts[ids[y] + 1] = y
        BY <2>3, <2>6, <4>1
      <4> QED BY <2>1, <2>2, <2>6, <4>1, <4>2
    <3> QED BY <3>1, <3>2
  <2>12. /\ HasId(u, x) /\ Id(u, x) \in Nat
         /\ Id(u, x) + 1 \in DOMAIN u.texts /\ Text(u, Id(u, x)) = x
    BY <2>1, <2>2, <2>6, <2>7, <2>9 DEF HasId, Id, Text
  <2> QED BY <2>8, <2>10, <2>11, <2>12
<1> QED BY <1>1, <1>2

(* A text that is set takes the place of the one that had its identifier,  *)
(* as long as no identifier is that of the empty text, which fills gaps.   *)
LEMMA SetKeeps ==
  ASSUME NEW t, Table(t), Sound(t), Blank \notin DOMAIN t.ids,
         NEW id \in Nat, NEW x, x # Blank, NEW u, u = SetText(t, id, x)
  PROVE  Table(u) /\ Sound(u) /\ Blank \notin DOMAIN u.ids
<1> DEFINE texts == t.texts
           ids == t.ids
           n == Len(texts)
           room == Resized(t, id)
           wide == room.texts
           old == Forgotten(room, id)
<1>1. texts \in Seq(ToSet(texts)) /\ ids \in [DOMAIN ids -> Nat] /\ n \in Nat /\ DOMAIN texts = 1 .. n
  BY DEF Table
<1>2. \A y \in DOMAIN ids : ids[y] + 1 \in DOMAIN texts /\ texts[ids[y] + 1] = y
  BY DEF Sound, Text
<1>3. PICK m \in Nat : /\ n <= m /\ id + 1 <= m
                       /\ wide = [i \in 1 .. m |-> IF i <= n THEN texts[i] ELSE Blank]
                       /\ room.ids = ids
  <2>1. /\ wide = [i \in 1 .. (IF n > id THEN n ELSE id + 1) |-> IF i <= n THEN texts[i] ELSE Blank]
        /\ room.ids = ids
    BY DEF Resized, Table
  <2> HIDE DEF room, texts, ids
  <2>2. CASE n > id
    <3>1. (IF n > id THEN n ELSE id + 1) = n /\ id + 1 <= n
      BY <1>1, <2>2
    <3> QED BY <1>1, <2>1, <3>1
  <2>3. CASE ~(n > id)
    <3>1. (IF n > id THEN n ELSE id + 1) = id + 1 /\ n <= id + 1
      BY <1>1, <2>3
    <3> QED BY <1>1, <2>1, <3>1
  <2> QED BY <2>2, <2>3
<1> HIDE DEF room, texts, ids
<1>4. /\ DOMAIN old \subseteq DOMAIN ids
      /\ \A y \in DOMAIN old : old[y] = ids[y] /\ y # wide[id + 1]
  <2>1. old = IF wide[id + 1] = Blank THEN ids ELSE [y \in DOMAIN ids \ {wide[id + 1]} |-> ids[y]]
    BY <1>3 DEF Forgotten, Text
  <2>2. Blank \notin DOMAIN ids
    BY DEF ids
  <2> QED BY <2>1, <2>2
<1> HIDE DEF old
<1>5. /\ u.texts = [wide EXCEPT ![id + 1] = x]
      /\ u.ids = [y \in DOMAIN old \cup {x} |-> IF y = x THEN id ELSE old[y]]
      /\ u = [texts |-> u.texts, ids |-> u.ids]
  BY DEF SetText, room, old
<1>6. /\ DOMAIN u.texts = 1 .. m
      /\ \A i \in 1 .. m : u.texts[i] = IF i = id + 1 THEN x ELSE wide[i]
      /\ u.texts = [i \in 1 .. m |-> IF i = id + 1 THEN x ELSE wide[i]]
  BY <1>3, <1>5
<1>7. u.texts \in Seq(ToSet(u.texts))
  <2>1. u.texts \in Seq(ToSet(texts) \cup {Blank, x})
    <3>1. \A i \in 1 .. m : u.texts[i] \in ToSet(texts) \cup {Blank, x}
      BY <1>1, <1>3, <1>6 DEF ToSet
    <3> QED BY <1>3, <1>6, <3>1
  <2> QED BY <2>1, ListOfItsElements
<1>8. DOMAIN u.ids = DOMAIN old \cup {x} /\ u.ids[x] = id /\ \A y \in DOMAIN old : y # x => u.ids[y] = ids[y]
  BY <1>4, <1>5
<1>9. Table(u)
  <2>1. u.ids \in [DOMAIN u.ids -> Nat]
    BY <1>1, <1>4, <1>5
  <2> QED BY <1>5, <1>7, <2>1 DEF Table
<1>10. Blank \notin DOMAIN u.ids
  BY <1>4, <1>8 DEF ids
<1>11. Sound(u)
  <2> SUFFICES ASSUME NEW y \in DOMAIN u.ids
               PROVE  u.ids[y] + 1 \in DOMAIN u.texts /\ u.texts[u.ids[y] + 1] = y
    BY DEF Sound, Text
  <2>1. CASE y = x
    BY <1>3, <1>6, <1>8, <2>1
  <2>2. CASE y # x
    <3>1. y \in DOMAIN old /\ u.ids[y] = ids[y] /\ y \in DOMAIN ids /\ y # wide[id + 1]
      BY <1>4, <1>8, <2>2
    <3>2. ids[y] \in Nat /\ ids[y] + 1 \in 1 .. n /\ texts[ids[y] + 1] = y
      BY <1>1, <1>2, <3>1
    <3>3. ids[y] + 1 \in 1 .. m /\ wide[ids[y] + 1] = y
      BY <1>1, <1>3, <3>2
    <3>4. ids[y] + 1 # id + 1
      BY <3>1, <3>3
    <3> QED BY <1>6, <3>1, <3>3, <3>4
  <2> QED BY <2>1, <2>2
<1> QED BY <1>9, <1>10, <1>11
-----------------------------------------------------------------------------
(* The inductive invariant of the loader                                   *)

Characters == DOMAIN Lower
Labels == ToSet(LabelOrder) \cup {Underscore}

DictionaryEntry ==
  [orth : Seq(Characters), lemma : Seq(Characters), tagId : Nat, nameId : Nat, labelsId : Nat]

(* The identifiers of an entry are given.                                  *)
Identified(e) ==
  /\ e.tagId + 1 \in DOMAIN resolver.tags.texts
  /\ e.nameId + 1 \in DOMAIN resolver.names.texts
  /\ e.labelsId + 1 \in DOMAIN resolver.labels.texts

(* The entry, found by the text orth, says what a line of the file says.   *)
Reads(e, orth) == Identified(e) /\ \E i \in EntryLines : ReadFrom(e, orth, source.dictionary[i])

Readings == {e \in DictionaryEntry : Reads(e, e.orth)}

(* What may wait to be inserted.                                           *)
ToRelabel ==
  {d \in [how : {"relabelled"}, entry : Readings, labels : Seq(Labels)] :
     LabelSet(d.labels) = LabelsOf(d.entry)}
ToInsert == [how : {"inserted"}, entry : Readings]
ToAlias ==
  {d \in [how : {"alias"}, entry : DictionaryEntry, orth : Seq(Characters)] : Reads(d.entry, d.orth)}
Wanted == ToRelabel \cup ToInsert \cup ToAlias

(* A lookup table of lists of entries.                                     *)
Lists(table) == \A k \in DOMAIN table : table[k] \in Seq(DictionaryEntry)

(* An entry that says what line i says is found by all its keys.           *)
LineFound(i) ==
  LET l == source.dictionary[i]
  IN \E e \in DictionaryEntry :
       /\ e.orth = l.orth /\ e.lemma = l.lemma
       /\ Identified(e) /\ ReadFrom(e, l.orth, l)
       /\ e \in ToSet(Found(byOrth, l.orth))
       /\ e \in ToSet(Found(byKey, l.lemma)) /\ e \in ToSet(Found(byKey, LemmaBase(l.lemma)))

TypeOK ==
  /\ source \in Sources
  /\ phase \in {"tagset", "dictionary", "hints", "ready", "failed"}
  /\ line \in Nat \ {0} /\ inSection \in BOOLEAN
  /\ resolver = [tags |-> resolver.tags, names |-> resolver.names, labels |-> resolver.labels]
  /\ Table(resolver.tags) /\ Table(resolver.names) /\ Table(resolver.labels)
  /\ Lists(byOrth) /\ Lists(byKey)

(* What each phase has done and left undone.                               *)
PhaseInv ==
  /\ phase = "tagset" =>
       /\ source.tagset # NoFile /\ Blank \notin DOMAIN resolver.tags.ids
       /\ entries = <<>> /\ byOrth = NoEntries /\ byKey = NoEntries /\ derived = <<>>
  /\ phase = "dictionary" => (inSection <=> Hidden(line)) /\ derived = <<>>
  /\ phase = "hints" => Hinted
  /\ phase = "ready" /\ ~Hinted => line > Len(source.dictionary)

ReadingsInv ==
  /\ entries \in Seq(Readings) /\ derived \in Seq(Wanted)
  /\ \A orth \in DOMAIN byOrth : \A e \in ToSet(byOrth[orth]) : Reads(e, orth)

LinesInv ==
  phase \in {"dictionary", "ready"} /\ ~Hinted => \A i \in EntryLines : i < line => LineFound(i)

IInv == TypeOK /\ IdsSound /\ PhaseInv /\ ReadingsInv /\ LinesInv
-----------------------------------------------------------------------------
(* Ends of texts, and their case                                           *)

LEMMA AppendElements ==
  ASSUME NEW S, NEW s \in Seq(S), NEW x
  PROVE  ToSet(Append(s, x)) = ToSet(s) \cup {x}
<1> DEFINE w == Append(s, x)
<1>1. /\ Len(s) \in Nat /\ DOMAIN s = 1 .. Len(s) /\ DOMAIN w = 1 .. Len(s) + 1
      /\ w[Len(s) + 1] = x /\ \A i \in 1 .. Len(s) : w[i] = s[i]
  OBVIOUS
<1> HIDE DEF w
<1>2. \A i : i \in 1 .. Len(s) + 1 <=> (i \in 1 .. Len(s) \/ i = Len(s) + 1)
  BY <1>1
<1>3. ToSet(w) = ToSet(s) \cup {x}
  BY <1>1, <1>2 DEF ToSet
<1> QED BY <1>3 DEF w

LEMMA ReverseIs ==
  ASSUME NEW S, NEW s \in Seq(S)
  PROVE  /\ Reverse(s) \in Seq(S) /\ Len(Reverse(s)) = Len(s)
         /\ \A i \in 1 .. Len(s) : Reverse(s)[i] = s[Len(s) - i + 1]
<1>1. Reverse(s) = [i \in 1 .. Len(s) |-> s[(Len(s) - i) + 1]]
  BY DEF Reverse
<1>2. \A i \in 1 .. Len(s) : (Len(s) - i) + 1 \in 1 .. Len(s)
  OBVIOUS
<1>3. \A i \in 1 .. Len(s) : s[(Len(s) - i) + 1] \in S
  BY <1>2
<1> QED BY <1>1, <1>3

LEMMA SuffixIs ==
  ASSUME NEW S, NEW s \in Seq(S), NEW t \in Seq(S)
  PROVE  IsSuffix(s, t) <=> /\ Len(s) <= Len(t)
                            /\ \A i \in 1 .. Len(s) : s[i] = t[Len(t) - Len(s) + i]
<1> DEFINE n == Len(s)
           m == Len(t)
           rs == Reverse(s)
           rt == Reverse(t)
<1>1. /\ n \in Nat /\ m \in Nat /\ rs \in Seq(S) /\ rt \in Seq(S) /\ Len(rs) = n /\ Len(rt) = m
      /\ \A i \in 1 .. n : rs[i] = s[n - i + 1]
      /\ \A i \in 1 .. m : rt[i] = t[m - i + 1]
  BY ReverseIs
<1>2. IsSuffix(s, t) <=> n <= m /\ SubSeq(rs, 1, n) = SubSeq(rt, 1, n)
  BY <1>1 DEF IsSuffix, IsPrefix
<1> HIDE DEF n, m, rs, rt
<1>3. ASSUME n <= m
      PROVE  SubSeq(rs, 1, n) = SubSeq(rt, 1, n) <=> \A i \in 1 .. n : rs[i] = rt[i]
  <2> DEFINE ps == SubSeq(rs, 1, n)
             pt == SubSeq(rt, 1, n)
  <2>1. /\ ps = [i \in 1 .. n |-> rs[i]]
        /\ pt = [i \in 1 .. n |-> rt[i]]
    BY <1>1, <1>3
  <2> HIDE DEF ps, pt
  <2>2. ps = pt <=> \A i \in 1 .. n : rs[i] = rt[i]
    <3>1. \A i \in 1 .. n : ps[i] = rs[i] /\ pt[i] = rt[i]
      BY <2>1
    <3>2. (\A i \in 1 .. n : rs[i] = rt[i]) => ps = pt
      BY <2>1
    <3> QED BY <3>1, <3>2
  <2> QED BY <2>2 DEF ps, pt
<1>4. ASSUME n <= m
      PROVE  (\A i \in 1 .. n : rs[i] = rt[i]) <=> \A i \in 1 .. n : s[i] = t[m - n + i]
  <2>1. \A i \in 1 .. n : i \in 1 .. m /\ n - i + 1 \in 1 .. n /\ n - (n - i + 1) + 1 = i
    BY <1>1, <1>4
  <2>2. ASSUME \A i \in 1 .. n : rs[i] = rt[i], NEW i \in 1 .. n
        PROVE  s[i] = t[m - n + i]
    <3> DEFINE j == n - i + 1
    <3>1. j \in 1 .. n /\ j \in 1 .. m /\ n - j + 1 = i /\ m - j + 1 = m - n + i
      BY <1>1, <1>4
    <3> HIDE DEF j
    <3> QED BY <1>1, <2>2, <3>1
  <2>3. ASSUME \A i \in 1 .. n : s[i] = t[m - n + i], NEW i \in 1 .. n
        PROVE  rs[i] = rt[i]
    <3> DEFINE j == n - i + 1
    <3>1. j \in 1 .. n /\ i \in 1 .. m /\ m - n + j = m - i + 1
      BY <1>1, <1>4
    <3> HIDE DEF j
    <3>2. rs[i] = s[j] /\ rt[i] = t[m - i + 1]
      BY <1>1, <3>1 DEF j
    <3> QED BY <2>3, <3>1, <3>2
  <2> QED BY <2>2, <2>3
<1>5. (\A i \in 1 .. n : s[i] = t[m - n + i]) <=> \A i \in 1 .. Len(s) : s[i] = t[Len(t) - Len(s) + i]
  BY DEF n, m
<1> QED BY <1>2, <1>3, <1>4, <1>5 DEF n, m

(* The end of a text is the end of every text that ends in it.             *)
LEMMA SuffixOfCompound ==
  ASSUME NEW S, NEW s \in Seq(S), NEW p \in Seq(S), NEW t \in Seq(S), IsSuffix(s, t)
  PROVE  IsSuffix(s, p \o t)
<1> DEFINE w == p \o t
<1>1. /\ w \in Seq(S) /\ Len(w) = Len(p) + Len(t) /\ Len(p) \in Nat /\ Len(t) \in Nat /\ Len(s) \in Nat
      /\ \A i \in 1 .. Len(t) : w[Len(p) + i] = t[i]
  OBVIOUS
<1> HIDE DEF w
<1>2. Len(s) <= Len(t) /\ \A i \in 1 .. Len(s) : s[i] = t[Len(t) - Len(s) + i]
  BY SuffixIs
<1>3. ASSUME NEW i \in 1 .. Len(s)
      PROVE  s[i] = w[Len(w) - Len(s) + i]
  <2> DEFINE j == Len(t) - Len(s) + i
  <2>1. j \in 1 .. Len(t) /\ Len(w) - Len(s) + i = Len(p) + j
    BY <1>1, <1>2
  <2> HIDE DEF j
  <2>2. s[i] = t[j]
    BY <1>2 DEF j
  <2> QED BY <1>1, <2>1, <2>2
<1>4. IsSuffix(s, w)
  <2>1. Len(s) <= Len(w)
    BY <1>1, <1>2
  <2> QED BY <1>1, <1>3, <2>1, SuffixIs
<1> QED BY <1>4 DEF w

LEMMA SuffixOfItself ==
  ASSUME NEW S, NEW s \in Seq(S)
  PROVE  IsSuffix(s, s)
<1>1. \A i \in 1 .. Len(s) : Len(s) - Len(s) + i = i
  OBVIOUS
<1> QED BY <1>1, SuffixIs

LEMMA LowercaseIs ==
  ASSUME NEW t \in Seq(Characters)
  PROVE  /\ Lowercase(t) \in Seq(Characters) /\ Len(Lowercase(t)) = Len(t)
         /\ \A i \in 1 .. Len(t) : Lowercase(t)[i] = Lower[t[i]]
         /\ Lowercase(Lowercase(t)) = Lowercase(t)
<1>1. /\ Lowercase(t) = [i \in 1 .. Len(t) |-> Lower[t[i]]] /\ Len(t) \in Nat
      /\ \A i \in 1 .. Len(t) : t[i] \in Characters /\ Lower[t[i]] \in Characters
  BY CaseAssumption DEF Lowercase, Characters
<1>2. /\ Lowercase(t) \in Seq(Characters) /\ Len(Lowercase(t)) = Len(t)
      /\ \A i \in 1 .. Len(t) : Lowercase(t)[i] = Lower[t[i]]
  BY <1>1
<1>3. Lowercase(Lowercase(t)) = [i \in 1 .. Len(t) |-> Lower[Lower[t[i]]]]
  <2>1. DOMAIN Lowercase(t) = 1 .. Len(t)
    BY <1>1
  <2> QED BY <1>1, <2>1 DEF Lowercase
<1>4. \A i \in 1 .. Len(t) : Lower[Lower[t[i]]] = Lower[t[i]]
  BY <1>1, CaseAssumption DEF Characters
<1> QED BY <1>1, <1>2, <1>3, <1>4

LEMMA LowercaseOfCompound ==
  ASSUME NEW p \in Seq(Characters), NEW t \in Seq(Characters)
  PROVE  Lowercase(p \o t) = Lowercase(p) \o Lowercase(t)
<1> DEFINE w == p \o t
           lp == Lowercase(p)
           lt == Lowercase(t)
           lw == Lowercase(w)
           v == lp \o lt
<1>1. /\ w \in Seq(Characters) /\ Len(w) = Len(p) + Len(t) /\ Len(p) \in Nat /\ Len(t) \in Nat
      /\ \A i \in 1 .. Len(p) : w[i] = p[i]
      /\ \A i \in 1 .. Len(t) : w[Len(p) + i] = t[i]
  OBVIOUS
<1> HIDE DEF w
<1>2. /\ lp \in Seq(Characters) /\ Len(lp) = Len(p) /\ \A i \in 1 .. Len(p) : lp[i] = Lower[p[i]]
      /\ lt \in Seq(Characters) /\ Len(lt) = Len(t) /\ \A i \in 1 .. Len(t) : lt[i] = Lower[t[i]]
      /\ lw \in Seq(Characters) /\ Len(lw) = Len(w) /\ \A i \in 1 .. Len(w) : lw[i] = Lower[w[i]]
  BY <1>1, LowercaseIs
<1> HIDE DEF lp, lt, lw
<1>3. /\ v \in Seq(Characters) /\ Len(v) = Len(lp) + Len(lt)
      /\ \A i \in 1 .. Len(lp) : v[i] = lp[i]
      /\ \A i \in 1 .. Len(lt) : v[Len(lp) + i] = lt[i]
  BY <1>2
<1> HIDE DEF v
<1>4. ASSUME NEW i \in 1 .. Len(w)
      PROVE  lw[i] = v[i]
  <2>1. CASE i \in 1 .. Len(p)
    <3>1. lw[i] = Lower[p[i]]
      BY <1>1, <1>2, <2>1
    <3>2. v[i] = lp[i]
      BY <1>2, <1>3, <2>1
    <3> QED BY <1>2, <2>1, <3>1, <3>2
  <2>2. CASE i \notin 1 .. Len(p)
    <3> DEFINE j == i - Len(p)
    <3>1. j \in 1 .. Len(t) /\ i = Len(p) + j
      BY <1>1, <2>2
    <3> HIDE DEF j
    <3>2. w[i] = t[j] /\ v[i] = lt[j]
      BY <1>1, <1>2, <1>3, <3>1
    <3> QED BY <1>2, <3>1, <3>2
  <2> QED BY <2>1, <2>2
<1>5. Len(lw) = Len(v)
  BY <1>1, <1>2, <1>3
<1>6. lw = v
  BY <1>2, <1>3, <1>4, <1>5
<1> QED BY <1>6 DEF lw, v, w, lp, lt
-----------------------------------------------------------------------------
(* Lookup tables                                                           *)

LEMMA FoundIn ==
  ASSUME NEW table, Lists(table), NEW key
  PROVE  Found(table, key) \in Seq(DictionaryEntry)
BY DEF Found, Lists

LEMMA PushedFinds ==
  ASSUME NEW table, Lists(table), NEW key, NEW e \in DictionaryEntry,
         NEW u, u = Pushed(table, key, e)
  PROVE  /\ Lists(u)
         /\ e \in ToSet(Found(u, key))
         /\ \A k : ToSet(Found(table, k)) \subseteq ToSet(Found(u, k))
         /\ \A k \in DOMAIN u : \A x \in ToSet(u[k]) :
              (k \in DOMAIN table /\ x \in ToSet(table[k])) \/ (k = key /\ x = e)
<1> DEFINE old == Found(table, key)
<1>1. old \in Seq(DictionaryEntry)
  BY FoundIn
<1>2. Append(old, e) \in Seq(DictionaryEntry) /\ ToSet(Append(old, e)) = ToSet(old) \cup {e}
  BY <1>1, AppendElements
<1>3. u = [k \in DOMAIN table \cup {key} |-> IF k = key THEN Append(old, e) ELSE table[k]]
  BY DEF Pushed, With
<1>4. ToSet(old) = {} \/ (key \in DOMAIN table /\ old = table[key])
  <2>1. ToSet(<<>>) = {}
    BY DEF ToSet
  <2> QED BY <2>1 DEF Found
<1> HIDE DEF old
<1>5. DOMAIN u = DOMAIN table \cup {key} /\ u[key] = Append(old, e)
      /\ \A k \in DOMAIN table : k # key => u[k] = table[k]
  BY <1>3
<1>6. Lists(u)
  BY <1>2, <1>5 DEF Lists
<1>7. e \in ToSet(Found(u, key))
  BY <1>2, <1>5 DEF Found
<1>8. ASSUME NEW k
      PROVE  ToSet(Found(table, k)) \subseteq ToSet(Found(u, k))
  <2>1. CASE k = key
    BY <1>2, <1>5, <2>1 DEF Found, old
  <2>2. CASE k # key
    BY <1>5, <2>2 DEF Found
  <2> QED BY <2>1, <2>2
<1>9. ASSUME NEW k \in DOMAIN u, NEW x \in ToSet(u[k])
      PROVE  (k \in DOMAIN table /\ x \in ToSet(table[k])) \/ (k = key /\ x = e)
  <2>1. CASE k = key
    <3>1. x = e \/ x \in ToSet(old)
      BY <1>2, <1>5, <2>1
    <3> QED BY <1>4, <2>1, <3>1
  <2>2. CASE k # key
    BY <1>5, <2>2
  <2> QED BY <2>1, <2>2
<1> QED BY <1>6, <1>7, <1>8, <1>9

LEMMA FrontedFinds ==
  ASSUME NEW table, Lists(table), NEW key, NEW e \in DictionaryEntry,
         NEW u, u = Fronted(table, key, e)
  PROVE  /\ Lists(u)
         /\ \A k \in DOMAIN u : \A x \in ToSet(u[k]) :
              (k \in DOMAIN table /\ x \in ToSet(table[k])) \/ (k = key /\ x = e)
<1> DEFINE old == Found(table, key)
           new == <<e>> \o old
<1>1. old \in Seq(DictionaryEntry) /\ <<e>> \in Seq(DictionaryEntry)
  BY FoundIn
<1>2. new \in Seq(DictionaryEntry) /\ ToSet(new) = {e} \cup ToSet(old)
  <2>1. ToSet(<<e>>) = {e}
    BY DEF ToSet
  <2> HIDE DEF old
  <2>2. ToSet(<<e>> \o old) = ToSet(<<e>>) \cup ToSet(old)
    BY <1>1, ConcatElements
  <2> QED BY <1>1, <2>1, <2>2
<1>3. u = [k \in DOMAIN table \cup {key} |-> IF k = key THEN new ELSE table[k]]
  BY DEF Fronted, With
<1>4. ToSet(old) = {} \/ (key \in DOMAIN table /\ old = table[key])
  <2>1. ToSet(<<>>) = {}
    BY DEF ToSet
  <2> QED BY <2>1 DEF Found
<1> HIDE DEF old, new
<1>5. DOMAIN u = DOMAIN table \cup {key} /\ u[key] = new
      /\ \A k \in DOMAIN table : k # key => u[k] = table[k]
  BY <1>3
<1>6. Lists(u)
  BY <1>2, <1>5 DEF Lists
<1>9. ASSUME NEW k \in DOMAIN u, NEW x \in ToSet(u[k])
      PROVE  (k \in DOMAIN table /\ x \in ToSet(table[k])) \/ (k = key /\ x = e)
  <2>1. CASE k = key
    <3>1. x = e \/ x \in ToSet(old)
      BY <1>2, <1>5, <2>1
    <3> QED BY <1>4, <2>1, <3>1
  <2>2. CASE k # key
    BY <1>5, <2>2
  <2> QED BY <2>1, <2>2
<1> QED BY <1>6, <1>9

LEMMA KeyPushedFinds ==
  ASSUME NEW table, Lists(table), NEW e \in DictionaryEntry, NEW u, u = KeyPushed(table, e)
  PROVE  /\ Lists(u)
         /\ e \in ToSet(Found(u, e.lemma)) /\ e \in ToSet(Found(u, LemmaBase(e.lemma)))
         /\ \A k : ToSet(Found(table, k)) \subseteq ToSet(Found(u, k))
<1> DEFINE base == Pushed(table, LemmaBase(e.lemma), e)
<1>1. u = IF e.lemma = LemmaBase(e.lemma) THEN base ELSE Pushed(base, e.lemma, e)
  BY DEF KeyPushed
<1>2. /\ Lists(base) /\ e \in ToSet(Found(base, LemmaBase(e.lemma)))
      /\ \A k : ToSet(Found(table, k)) \subseteq ToSet(Found(base, k))
  BY PushedFinds
<1> HIDE DEF base
<1>3. CASE e.lemma = LemmaBase(e.lemma)
  BY <1>1, <1>2, <1>3
<1>4. CASE e.lemma # LemmaBase(e.lemma)
  <2>1. u = Pushed(base, e.lemma, e)
    BY <1>1, <1>4
  <2>2. /\ Lists(u) /\ e \in ToSet(Found(u, e.lemma))
        /\ \A k : ToSet(Found(base, k)) \subseteq ToSet(Found(u, k))
    BY <1>2, <2>1, PushedFinds
  <2> QED BY <1>2, <2>2
<1> QED BY <1>3, <1>4
-----------------------------------------------------------------------------
(* Labels                                                                  *)

LEMMA OrderedLabels ==
  ASSUME NEW X
  PROVE  /\ InOrder(X) \in Seq(ToSet(LabelOrder))
         /\ ToSet(InOrder(X)) = X \cap ToSet(LabelOrder)
         /\ \A l : X \cap ToSet(LabelOrder) = {l} => InOrder(X) = <<l>>
<1> DEFINE n == Len(LabelOrder)
           S == ToSet(LabelOrder)
           ss == [i \in 1 .. n |-> IF LabelOrder[i] \in X THEN <<LabelOrder[i]>> ELSE <<>>]
<1>1. LabelOrder \in Seq(S) /\ n \in Nat /\ DOMAIN LabelOrder = 1 .. n
      /\ \A i \in 1 .. n : LabelOrder[i] \in S
  BY LabelOrderAssumption DEF ToSet
<1>2. InOrder(X) = FlattenSeq(ss)
  BY <1>1 DEF InOrder, Each, If
<1>3. \A l : l \in S <=> \E i \in 1 .. n : l = LabelOrder[i]
  BY <1>1 DEF ToSet
<1> HIDE DEF S
<1>4. /\ ss \in Seq(Seq(S)) /\ DOMAIN ss = 1 .. n
      /\ \A i \in 1 .. n : ss[i] = IF LabelOrder[i] \in X THEN <<LabelOrder[i]>> ELSE <<>>
  <2>1. \A i \in 1 .. n : <<LabelOrder[i]>> \in Seq(S) /\ <<>> \in Seq(S)
    BY <1>1
  <2> QED BY <1>1, <2>1
<1> HIDE DEF ss
<1>5. /\ FlattenSeq(ss) \in Seq(S)
      /\ \A x : x \in ToSet(FlattenSeq(ss)) <=> \E i \in 1 .. n : x \in ToSet(ss[i])
  BY <1>4, FlattenElements
<1>6. \A x : ToSet(<<x>>) = {x} /\ ToSet(<<>>) = {}
  BY DEF ToSet
<1>7. \A i \in 1 .. n : \A x : x \in ToSet(ss[i]) <=> x = LabelOrder[i] /\ LabelOrder[i] \in X
  BY <1>4, <1>6
<1>8. ToSet(FlattenSeq(ss)) = X \cap S
  <2> DEFINE flat == FlattenSeq(ss)
  <2>1. \A x : x \in ToSet(flat) <=> \E i \in 1 .. n : x = LabelOrder[i] /\ LabelOrder[i] \in X
    BY <1>5, <1>7
  <2> HIDE DEF flat
  <2>2. \A x : x \in ToSet(flat) <=> x \in X /\ x \in S
    BY <1>3, <2>1
  <2>3. ToSet(flat) = X \cap S
    BY <2>2
  <2> QED BY <2>3 DEF flat
<1>9. ASSUME NEW l, X \cap S = {l}
      PROVE  FlattenSeq(ss) = <<l>>
  <2>1. PICK k \in 1 .. n : LabelOrder[k] = l
    BY <1>3, <1>9
  <2>2. \A i \in 1 .. n : i # k => LabelOrder[i] # l
    BY <1>1, <2>1, LabelOrderAssumption DEF IsInjective
  <2>3. \A i \in 1 .. n : i # k => LabelOrder[i] \notin X
    BY <1>1, <1>9, <2>2
  <2>4. ss[k] = <<l>> /\ \A i \in 1 .. n : i # k => ss[i] = <<>>
    BY <1>4, <1>9, <2>1, <2>3
  <2> QED BY <1>4, <2>1, <2>4, FlattenOne
<1> QED BY <1>2, <1>5, <1>8, <1>9 DEF S

LEMMA CanonicalLabels ==
  ASSUME NEW parts
  PROVE  /\ LabelSet(Canonical(parts)) \subseteq ToSet(LabelOrder)
         /\ LabelSet(Canonical(parts)) # {Underscore}
         /\ Canonical(parts) \in Seq(Labels)
<1> DEFINE X == ToSet(parts) \ {Blank}
           c == InOrder(X)
<1>1. Canonical(parts) = IF c = <<>> THEN <<Underscore>> ELSE c
  BY DEF Canonical
<1>2. /\ c \in Seq(ToSet(LabelOrder)) /\ ToSet(c) = X \cap ToSet(LabelOrder)
      /\ \A l : X \cap ToSet(LabelOrder) = {l} => c = <<l>>
  BY OrderedLabels
<1> HIDE DEF X, c
<1>3. c \in Seq(Labels) /\ <<Underscore>> \in Seq(Labels)
  BY <1>2 DEF Labels
<1>4. LabelSet(<<Underscore>>) = {}
  BY DEF LabelSet
<1>5. c # <<Underscore>> => LabelSet(c) = ToSet(c) /\ ToSet(c) # {Underscore}
  BY <1>2 DEF LabelSet
<1> QED BY <1>1, <1>2, <1>3, <1>4, <1>5

(* Labels in any order are those of the text they are joined to.           *)
LEMMA JoinedLabels ==
  ASSUME NEW L, L # {Underscore}, NEW s \in Seq(Labels), ToSet(s) = L
  PROVE  LabelSet(OrNone(s)) = L /\ OrNone(s) \in Seq(Labels) /\ (s # <<>> => LabelSet(s) = L)
<1>1. ToSet(<<>>) = {} /\ ToSet(<<Underscore>>) = {Underscore}
  BY DEF ToSet
<1>2. <<Underscore>> \in Seq(Labels)
  BY DEF Labels
<1>3. s # <<Underscore>>
  BY <1>1
<1> QED BY <1>1, <1>2, <1>3 DEF OrNone, LabelSet

LEMMA StandaloneLabelsSame ==
  ASSUME NEW e, NEW h, LabelsOf(e) \subseteq ToSet(LabelOrder), LabelsOf(e) # {Underscore}
  PROVE  StandaloneLabels(e, h) \in Seq(Labels) /\ LabelSet(StandaloneLabels(e, h)) = LabelsOf(e)
<1> DEFINE L == LabelsOf(e)
           first == InOrder(L \cap h.standalone)
           second == InOrder(L \ h.standalone)
<1>1. /\ first \in Seq(ToSet(LabelOrder)) /\ ToSet(first) = (L \cap h.standalone) \cap ToSet(LabelOrder)
      /\ second \in Seq(ToSet(LabelOrder)) /\ ToSet(second) = (L \ h.standalone) \cap ToSet(LabelOrder)
  BY OrderedLabels
<1>2. StandaloneLabels(e, h) = OrNone(first \o second)
  BY DEF StandaloneLabels
<1> HIDE DEF first, second
<1>3. first \o second \in Seq(ToSet(LabelOrder)) /\ ToSet(first \o second) = ToSet(first) \cup ToSet(second)
  BY <1>1, ConcatElements
<1>4. ToSet(first \o second) = L
  BY <1>1, <1>3
<1>5. first \o second \in Seq(Labels)
  BY <1>3 DEF Labels
<1> QED BY <1>2, <1>4, <1>5, JoinedLabels

LEMMA PrefixedLabelsSame ==
  ASSUME NEW e, NEW p, NEW h, LabelsOf(e) \subseteq ToSet(LabelOrder), LabelsOf(e) # {Underscore},
         p.orth \in LabelsOf(e)
  PROVE  PrefixedLabels(e, p, h) \in Seq(Labels) /\ LabelSet(PrefixedLabels(e, p, h)) = LabelsOf(e)
<1> DEFINE L == LabelsOf(e)
           S == ToSet(LabelOrder)
           none == <<>>
           first == InOrder(L \cap h.standalone)
           second == InOrder(L \ (h.standalone \cup {Euro}))
           rest == InOrder(L \ {p.orth})
           euro == <<Euro>>
           own == <<p.orth>>
<1>1. /\ first \in Seq(S) /\ ToSet(first) = (L \cap h.standalone) \cap S
      /\ second \in Seq(S) /\ ToSet(second) = (L \ (h.standalone \cup {Euro})) \cap S
      /\ rest \in Seq(S) /\ ToSet(rest) = (L \ {p.orth}) \cap S
  BY OrderedLabels
<1>2. ToSet(own) = {p.orth} /\ own \in Seq(S) /\ ToSet(euro) = {Euro} /\ ToSet(none) = {}
  BY DEF ToSet
<1>3. \A s \in Seq(S) : s \in Seq(Labels)
  BY DEF Labels
<1>4. CASE p.orth = Euro /\ Cardinality(L) > 1
  <2> DEFINE front == first \o second
  <2>1. PrefixedLabels(e, p, h) = front \o euro
    BY <1>4 DEF PrefixedLabels
  <2>2. Euro \in L /\ euro \in Seq(S)
    BY <1>4
  <2> HIDE DEF first, second, rest, euro, own, S
  <2>3. front \in Seq(S) /\ ToSet(front) = ToSet(first) \cup ToSet(second)
    BY <1>1, ConcatElements
  <2> HIDE DEF front
  <2>4. front \o euro \in Seq(S) /\ ToSet(front \o euro) = ToSet(front) \cup ToSet(euro)
    BY <2>2, <2>3, ConcatElements
  <2>5. ToSet(front \o euro) = L
    BY <1>1, <1>2, <2>2, <2>3, <2>4 DEF S
  <2>6. front \o euro # <<>>
    BY <1>2, <2>2, <2>5 DEF none
  <2> QED BY <1>3, <2>1, <2>4, <2>5, <2>6, JoinedLabels
<1>5. CASE ~(p.orth = Euro /\ Cardinality(L) > 1)
  <2>1. PrefixedLabels(e, p, h) = own \o rest
    BY <1>5 DEF PrefixedLabels
  <2> HIDE DEF first, second, rest, euro, own, S
  <2>2. own \o rest \in Seq(S) /\ ToSet(own \o rest) = ToSet(own) \cup ToSet(rest)
    BY <1>1, <1>2, ConcatElements
  <2>3. ToSet(own \o rest) = L
    BY <1>1, <1>2, <2>2 DEF S
  <2>4. own \o rest # <<>>
    BY <1>2, <2>3 DEF none
  <2> QED BY <1>3, <2>1, <2>2, <2>3, <2>4, JoinedLabels
<1> QED BY <1>4, <1>5
-----------------------------------------------------------------------------
(* What the hints ask for                                                  *)

LEMMA EachListed ==
  ASSUME NEW S, NEW s \in Seq(S), NEW T, NEW f \in [DOMAIN s -> Seq(T)]
  PROVE  FlattenSeq(f) \in Seq(T)
<1>1. f \in Seq(Seq(T))
  OBVIOUS
<1> QED BY <1>1, FlattenElements

LEMMA DistinctListed ==
  ASSUME NEW S, NEW s \in Seq(S)
  PROVE  Distinct(s) \in Seq(S)
<1> DEFINE t == [i \in DOMAIN s |-> i]
           f == [k \in DOMAIN t |-> IF \A j \in 1 .. t[k] - 1 : s[j] # s[t[k]] THEN <<s[t[k]]>> ELSE <<>>]
<1>1. Distinct(s) = FlattenSeq(f)
  BY DEF Distinct, Each, If
<1>2. t \in Seq(Nat) /\ \A k \in DOMAIN t : t[k] = k /\ k \in DOMAIN s
  OBVIOUS
<1>3. f \in [DOMAIN t -> Seq(S)]
  <2> SUFFICES ASSUME NEW k \in DOMAIN t
               PROVE  f[k] \in Seq(S)
    OBVIOUS
  <2>1. s[t[k]] \in S
    BY <1>2
  <2>2. f[k] = <<s[t[k]]>> \/ f[k] = <<>>
    OBVIOUS
  <2>3. \A x \in S : <<x>> \in Seq(S)
    OBVIOUS
  <2>4. <<>> \in Seq(S)
    OBVIOUS
  <2> HIDE DEF f, t
  <2> QED BY <2>1, <2>2, <2>3, <2>4
<1> HIDE DEF f, t
<1> QED BY <1>1, <1>2, <1>3, EachListed

LEMMA ReadingLabels ==
  ASSUME NEW e, NEW orth, Reads(e, orth)
  PROVE  LabelsOf(e) \subseteq ToSet(LabelOrder) /\ LabelsOf(e) # {Underscore}
BY CanonicalLabels DEF Reads, ReadFrom

(* An entry under other texts that end like one that is read.              *)
LEMMA ReadsAsWell ==
  ASSUME NEW e, NEW orth, Reads(e, orth), NEW c, NEW text2,
         c.tagId = e.tagId, c.nameId = e.nameId, c.labelsId = e.labelsId,
         \A i \in EntryLines :
           /\ IsSuffix(Lowercase(source.dictionary[i].orth), Lowercase(orth))
                => IsSuffix(Lowercase(source.dictionary[i].orth), Lowercase(text2))
           /\ IsSuffix(source.dictionary[i].lemma, e.lemma)
                => IsSuffix(source.dictionary[i].lemma, c.lemma)
  PROVE  Reads(c, text2) /\ LabelsOf(c) = LabelsOf(e)
BY Zenon DEF Reads, Identified, ReadFrom, Tag, LabelsOf

LEMMA LineTexts ==
  ASSUME source \in Sources, NEW i \in EntryLines
  PROVE  /\ source.dictionary[i].orth \in Seq(Characters)
         /\ source.dictionary[i].lemma \in Seq(Characters)
<1>1. i \in 1 .. Len(source.dictionary) /\ source.dictionary[i].kind = "entry"
  BY DEF EntryLines
<1>2. i \in DOMAIN source.dictionary
  BY <1>1, SourcesAssumption
<1> QED BY <1>1, <1>2, SourcesAssumption DEF Characters

LEMMA CombinedReads ==
  ASSUME source \in Sources, NEW left \in DictionaryEntry, NEW separator \in Seq(Characters),
         NEW e \in Readings
  PROVE  /\ Combined(left, separator, e) \in Readings
         /\ LabelsOf(Combined(left, separator, e)) = LabelsOf(e)
<1> DEFINE c == Combined(left, separator, e)
           front == left.orth \o separator
           frontLemma == left.lemma \o separator
<1>1. e \in DictionaryEntry /\ Reads(e, e.orth)
  BY DEF Readings
<1>2. /\ e.orth \in Seq(Characters) /\ e.lemma \in Seq(Characters)
      /\ left.orth \in Seq(Characters) /\ left.lemma \in Seq(Characters)
  BY <1>1 DEF DictionaryEntry
<1>3. front \in Seq(Characters) /\ frontLemma \in Seq(Characters)
  BY <1>2
<1>4. c = [e EXCEPT !.orth = front \o e.orth, !.lemma = frontLemma \o e.lemma]
  BY <1>2 DEF Combined
<1> HIDE DEF c, front, frontLemma
<1>5. front \o e.orth \in Seq(Characters) /\ frontLemma \o e.lemma \in Seq(Characters)
  BY <1>2, <1>3
<1>6. /\ c \in DictionaryEntry /\ c.orth = front \o e.orth /\ c.lemma = frontLemma \o e.lemma
      /\ c.tagId = e.tagId /\ c.nameId = e.nameId /\ c.labelsId = e.labelsId
  <2> DEFINE o == front \o e.orth
             m == frontLemma \o e.lemma
  <2>1. o \in Seq(Characters) /\ m \in Seq(Characters) /\ c = [e EXCEPT !.orth = o, !.lemma = m]
    BY <1>4, <1>5
  <2> HIDE DEF o, m
  <2>2. /\ c \in DictionaryEntry /\ c.orth = o /\ c.lemma = m
        /\ c.tagId = e.tagId /\ c.nameId = e.nameId /\ c.labelsId = e.labelsId
    BY <1>1, <2>1 DEF DictionaryEntry
  <2> QED BY <2>2 DEF o, m
<1>7. ASSUME NEW i \in EntryLines
      PROVE  /\ IsSuffix(Lowercase(source.dictionary[i].orth), Lowercase(e.orth))
                  => IsSuffix(Lowercase(source.dictionary[i].orth), Lowercase(c.orth))
             /\ IsSuffix(source.dictionary[i].lemma, e.lemma)
                  => IsSuffix(source.dictionary[i].lemma, c.lemma)
  <2> DEFINE orth == Lowercase(source.dictionary[i].orth)
             lemma == source.dictionary[i].lemma
             lf == Lowercase(front)
             le == Lowercase(e.orth)
  <2>1. orth \in Seq(Characters) /\ lemma \in Seq(Characters)
    BY LineTexts, LowercaseIs
  <2>2. lf \in Seq(Characters) /\ le \in Seq(Characters)
    BY <1>2, <1>3, LowercaseIs
  <2>3. Lowercase(c.orth) = lf \o le
    BY <1>2, <1>3, <1>6, LowercaseOfCompound
  <2> HIDE DEF orth, lemma, lf, le
  <2>4. IsSuffix(orth, le) => IsSuffix(orth, lf \o le)
    BY <2>1, <2>2, SuffixOfCompound
  <2>5. IsSuffix(lemma, e.lemma) => IsSuffix(lemma, frontLemma \o e.lemma)
    BY <1>2, <1>3, <2>1, SuffixOfCompound
  <2> QED BY <1>6, <2>3, <2>4, <2>5 DEF orth, lemma, lf, le
<1>8. Reads(c, c.orth) /\ LabelsOf(c) = LabelsOf(e)
  BY <1>1, <1>6, <1>7, ReadsAsWell, Zenon
<1> QED BY <1>6, <1>8 DEF Readings, c

(* The case of a text does not matter to what is read.                     *)
LEMMA RecasedReads ==
  ASSUME NEW e \in DictionaryEntry, NEW orth, Reads(e, orth),
         NEW other \in Seq(Characters), Lowercase(other) = Lowercase(orth)
  PROVE  /\ Reads(e, other)
         /\ [e EXCEPT !.orth = other] \in DictionaryEntry
         /\ Reads([e EXCEPT !.orth = other], other)
         /\ [e EXCEPT !.orth = other].orth = other
<1>1. Reads(e, other)
  BY ReadsAsWell, Zenon
<1> DEFINE c == [e EXCEPT !.orth = other]
<1>2. /\ c \in DictionaryEntry /\ c.orth = other /\ c.lemma = e.lemma
      /\ c.tagId = e.tagId /\ c.nameId = e.nameId /\ c.labelsId = e.labelsId
  BY DEF DictionaryEntry
<1> HIDE DEF c
<1>3. Reads(c, other)
  BY <1>1, <1>2, ReadsAsWell, Zenon
<1> QED BY <1>1, <1>2, <1>3 DEF c

LEMMA TaggedListed ==
  ASSUME entries \in Seq(Readings), NEW tags
  PROVE  Tagged(tags) \in Seq(Readings)
<1> DEFINE f == [i \in DOMAIN entries |-> IF Tag(entries[i]) \in tags THEN <<entries[i]>> ELSE <<>>]
<1>1. Tagged(tags) = FlattenSeq(f)
  BY DEF Tagged, Each, If
<1>2. f \in [DOMAIN entries -> Seq(Readings)]
  OBVIOUS
<1> QED BY <1>1, <1>2, EachListed

LEMMA SpelledListed ==
  ASSUME entries \in Seq(Readings), NEW orth
  PROVE  Spelled(orth) \in Seq({e \in Readings : e.orth = orth})
<1> DEFINE S == {e \in Readings : e.orth = orth}
           f == [i \in DOMAIN entries |-> IF CaseCandidate(entries[i]) /\ entries[i].orth = orth
                                          THEN <<entries[i]>> ELSE <<>>]
<1>1. Spelled(orth) = FlattenSeq(f)
  BY DEF Spelled, Each, If
<1>2. f \in [DOMAIN entries -> Seq(S)]
  <2> SUFFICES ASSUME NEW i \in DOMAIN entries
               PROVE  f[i] \in Seq(S)
    OBVIOUS
  <2>1. entries[i] \in Readings
    OBVIOUS
  <2>2. \A x \in S : <<x>> \in Seq(S)
    OBVIOUS
  <2>3. <<>> \in Seq(S)
    OBVIOUS
  <2>4. entries[i].orth = orth => entries[i] \in S
    BY <2>1
  <2>5. f[i] = IF CaseCandidate(entries[i]) /\ entries[i].orth = orth THEN <<entries[i]>> ELSE <<>>
    OBVIOUS
  <2> HIDE DEF f, S
  <2> QED BY <2>2, <2>3, <2>4, <2>5
<1> HIDE DEF f, S
<1>3. Spelled(orth) \in Seq(S)
  BY <1>1, <1>2, EachListed
<1> QED BY <1>3 DEF S

LEMMA MixedOrthsListed ==
  ASSUME entries \in Seq(Readings)
  PROVE  MixedOrths \in Seq(Seq(Characters))
<1> DEFINE T == Seq(Characters)
           f == [i \in DOMAIN entries |-> IF CaseCandidate(entries[i]) /\ ~IsLower(entries[i].orth)
                                          THEN <<entries[i].orth>> ELSE <<>>]
           s == FlattenSeq(f)
<1>1. MixedOrths = Distinct(s)
  BY DEF MixedOrths, Each, If
<1>2. f \in [DOMAIN entries -> Seq(T)]
  <2> SUFFICES ASSUME NEW i \in DOMAIN entries
               PROVE  f[i] \in Seq(T)
    OBVIOUS
  <2>1. entries[i].orth \in T
    <3>1. entries[i] \in Readings
      OBVIOUS
    <3> QED BY <3>1 DEF Readings, DictionaryEntry
  <2>2. \A x \in T : <<x>> \in Seq(T)
    OBVIOUS
  <2>3. <<>> \in Seq(T)
    OBVIOUS
  <2>4. f[i] = <<entries[i].orth>> \/ f[i] = <<>>
    OBVIOUS
  <2> HIDE DEF f, T
  <2> QED BY <2>1, <2>2, <2>3, <2>4
<1> HIDE DEF f, T
<1>3. s \in Seq(T)
  BY <1>2, EachListed
<1> HIDE DEF s
<1>4. MixedOrths \in Seq(T)
  BY <1>1, <1>3, DistinctListed
<1> QED BY <1>4 DEF T

LEMMA VariantsListed ==
  ASSUME entries \in Seq(Readings), NEW e \in Readings
  PROVE  Variants(e) \in Seq(Readings)
<1> DEFINE mixed == MixedOrths
           Recased(o) == [e EXCEPT !.orth = o]
           f == [i \in DOMAIN mixed |-> IF Lowercase(mixed[i]) = e.orth THEN <<Recased(mixed[i])>> ELSE <<>>]
           own == <<e>>
           lower == <<Recased(Lowercase(e.orth))>>
           none == <<>>
<1>1. e \in DictionaryEntry /\ Reads(e, e.orth) /\ e.orth \in Seq(Characters)
  BY DEF Readings, DictionaryEntry
<1>2. \/ Variants(e) = own \o FlattenSeq(f)
      \/ Variants(e) = own \o lower
      \/ Variants(e) = own \o none
  <2>1. CASE IsLower(e.orth)
    BY <2>1 DEF Variants, Each, If
  <2>2. CASE ~IsLower(e.orth)
    BY <2>2 DEF Variants
  <2> QED BY <2>1, <2>2
<1>3. mixed \in Seq(Seq(Characters))
  BY MixedOrthsListed
<1>4. Lowercase(e.orth) \in Seq(Characters) /\ Lowercase(Lowercase(e.orth)) = Lowercase(e.orth)
  BY <1>1, LowercaseIs
<1>5. \A o \in Seq(Characters) : Lowercase(o) = Lowercase(e.orth) => Recased(o) \in Readings
  BY <1>1, RecasedReads, Zenon DEF Readings
<1>6. \A o \in Seq(Characters) : Lowercase(o) = e.orth => Recased(o) \in Readings
  <2> SUFFICES ASSUME NEW o \in Seq(Characters), Lowercase(o) = e.orth
               PROVE  Recased(o) \in Readings
    OBVIOUS
  <2>1. Lowercase(Lowercase(o)) = Lowercase(o)
    BY LowercaseIs
  <2> QED BY <1>5, <2>1
<1> HIDE DEF Recased, mixed
<1>7. \A x \in Readings : <<x>> \in Seq(Readings)
  OBVIOUS
<1>8. none \in Seq(Readings)
  OBVIOUS
<1>9. f \in [DOMAIN mixed -> Seq(Readings)]
  <2> SUFFICES ASSUME NEW i \in DOMAIN mixed
               PROVE  f[i] \in Seq(Readings)
    OBVIOUS
  <2>1. mixed[i] \in Seq(Characters)
    BY <1>3
  <2>2. f[i] = IF Lowercase(mixed[i]) = e.orth THEN <<Recased(mixed[i])>> ELSE <<>>
    OBVIOUS
  <2> HIDE DEF f
  <2> QED BY <1>6, <1>7, <1>8, <2>1, <2>2
<1>10. FlattenSeq(f) \in Seq(Readings)
  <2> HIDE DEF f
  <2> QED BY <1>3, <1>9, EachListed
<1>11. own \in Seq(Readings) /\ lower \in Seq(Readings)
  BY <1>4, <1>5, <1>7
<1> DEFINE listed == FlattenSeq(f)
<1> HIDE DEF own, lower, none, f
<1>12. \A x, y \in Seq(Readings) : x \o y \in Seq(Readings)
  OBVIOUS
<1> QED BY <1>2, <1>8, <1>10, <1>11, <1>12

LEMMA PrefixVariantsListed ==
  ASSUME NEW p \in DictionaryEntry
  PROVE  PrefixVariants(p) \in Seq(DictionaryEntry)
<1> DEFINE a == [p EXCEPT !.lemma = p.orth]
           title == Titlecase(p.orth)
           b == [p EXCEPT !.orth = title]
<1>1. p.orth \in Seq(Characters) /\ p.lemma \in Seq(Characters)
  BY DEF DictionaryEntry
<1>2. title \in Seq(Characters)
  <2>1. \A i \in DOMAIN p.orth : p.orth[i] \in Characters /\ Upper[p.orth[i]] \in Characters
    BY <1>1, CaseAssumption DEF Characters
  <2>2. title = [i \in 1 .. Len(p.orth) |-> IF i = 1 THEN Upper[p.orth[i]] ELSE p.orth[i]]
    BY <1>1 DEF Titlecase
  <2> HIDE DEF title
  <2> QED BY <1>1, <2>1, <2>2
<1> HIDE DEF title
<1>3. a \in DictionaryEntry /\ b \in DictionaryEntry
  BY <1>1, <1>2 DEF DictionaryEntry
<1>4. PrefixVariants(p) = <<a>> \/ PrefixVariants(p) = <<p>> \/ PrefixVariants(p) = <<p, b>>
  BY DEF PrefixVariants, title
<1>5. \A x, y \in DictionaryEntry : <<x>> \in Seq(DictionaryEntry) /\ <<x, y>> \in Seq(DictionaryEntry)
  OBVIOUS
<1> HIDE DEF a, b
<1> QED BY <1>3, <1>4, <1>5

LEMMA CompoundsListed ==
  ASSUME source \in Sources, entries \in Seq(Readings),
         NEW lefts \in Seq(DictionaryEntry), NEW separator \in Seq(Characters)
  PROVE  Compounds(lefts, separator) \in Seq(Readings)
<1> DEFINE subst == Tagged(SubstTags)
           Rights(left, e) == [k \in DOMAIN Variants(e) |-> <<Combined(left, separator, Variants(e)[k])>>]
           All(left) == [j \in DOMAIN subst |-> FlattenSeq(Rights(left, subst[j]))]
           f == [i \in DOMAIN lefts |-> FlattenSeq(All(lefts[i]))]
<1>1. Compounds(lefts, separator) = FlattenSeq(f)
  BY DEF Compounds, Each
<1>2. subst \in Seq(Readings)
  BY TaggedListed
<1>3. ASSUME NEW left \in DictionaryEntry, NEW e \in Readings
      PROVE  FlattenSeq(Rights(left, e)) \in Seq(Readings)
  <2> DEFINE v == Variants(e)
             g == [k \in DOMAIN v |-> <<Combined(left, separator, v[k])>>]
  <2>1. v \in Seq(Readings)
    BY VariantsListed
  <2> HIDE DEF v
  <2>2. \A k \in DOMAIN v : Combined(left, separator, v[k]) \in Readings
    BY <2>1, CombinedReads
  <2>3. g \in [DOMAIN v -> Seq(Readings)]
    <3>1. \A x \in Readings : <<x>> \in Seq(Readings)
      OBVIOUS
    <3> QED BY <2>2, <3>1
  <2>4. FlattenSeq(g) \in Seq(Readings)
    <3> HIDE DEF g
    <3> QED BY <2>1, <2>3, EachListed
  <2> QED BY <2>4 DEF v
<1> HIDE DEF subst, Rights
<1>4. ASSUME NEW left \in DictionaryEntry
      PROVE  FlattenSeq(All(left)) \in Seq(Readings)
  <2> DEFINE g == [j \in DOMAIN subst |-> FlattenSeq(Rights(left, subst[j]))]
  <2>1. \A j \in DOMAIN subst : subst[j] \in Readings
    BY <1>2
  <2>2. g \in [DOMAIN subst -> Seq(Readings)]
    BY <1>3, <2>1
  <2>3. FlattenSeq(g) \in Seq(Readings)
    <3> HIDE DEF g
    <3> QED BY <1>2, <2>2, EachListed
  <2> QED BY <2>3
<1> HIDE DEF All
<1>5. f \in [DOMAIN lefts -> Seq(Readings)]
  <2>1. \A i \in DOMAIN lefts : lefts[i] \in DictionaryEntry
    OBVIOUS
  <2> QED BY <1>4, <2>1
<1> HIDE DEF f
<1> QED BY <1>1, <1>5, EachListed

LEMMA PrefixedListed ==
  ASSUME source \in Sources, entries \in Seq(Readings), NEW tag, NEW separator \in Seq(Characters)
  PROVE  Prefixed(tag, separator) \in Seq(Readings)
<1> DEFINE s == Tagged({tag})
           f == [i \in DOMAIN s |-> PrefixVariants(s[i])]
           lefts == FlattenSeq(f)
<1>1. Prefixed(tag, separator) = Compounds(lefts, separator)
  BY DEF Prefixed, Each
<1>2. s \in Seq(Readings)
  BY TaggedListed
<1> HIDE DEF s
<1>3. f \in [DOMAIN s -> Seq(DictionaryEntry)]
  <2>1. \A i \in DOMAIN s : s[i] \in DictionaryEntry
    BY <1>2 DEF Readings
  <2> QED BY <2>1, PrefixVariantsListed
<1> HIDE DEF f
<1>4. lefts \in Seq(DictionaryEntry)
  BY <1>2, <1>3, EachListed
<1> HIDE DEF lefts
<1> QED BY <1>1, <1>4, CompoundsListed

LEMMA LemmaBaseIs ==
  ASSUME NEW lemma \in Seq(Characters)
  PROVE  LemmaBase(lemma) \in Seq(Characters)
<1> DEFINE I == {i \in 1 .. Len(lemma) : lemma[i] = ":"}
           colon == IF I # {} THEN Min(I) ELSE 0
<1>1. LemmaBase(lemma) = IF colon = 0 THEN lemma ELSE SubSeq(lemma, 1, colon - 1)
  BY DEF LemmaBase, SelectInSeq
<1>2. colon = 0 \/ colon \in 1 .. Len(lemma)
  <2>1. ASSUME I # {}
        PROVE  Min(I) \in I
    <3>1. I \in SUBSET Nat
      OBVIOUS
    <3> HIDE DEF I
    <3>2. \E k \in I : \A i \in I : k <= i
      BY <2>1, <3>1, LeastOf
    <3>3. Min(I) = CHOOSE x \in I : \A y \in I : x <= y
      BY DEF Min
    <3> QED BY <3>2, <3>3
  <2> QED BY <2>1
<1> HIDE DEF colon
<1> QED BY <1>1, <1>2

LEMMA SubstDywizSubstListed ==
  ASSUME source \in Sources, entries \in Seq(Readings)
  PROVE  SubstDywizSubst \in Seq(Readings)
<1> DEFINE s == Tagged(SubstTags)
           f == [i \in DOMAIN s |-> Variants(s[i])]
           v == FlattenSeq(f)
           Based(l) == [l EXCEPT !.lemma = LemmaBase(l.lemma)]
           g == [i \in DOMAIN v |-> <<Based(v[i])>>]
           lefts == FlattenSeq(g)
           hyphen == <<"-">>
<1>1. SubstDywizSubst = Compounds(lefts, hyphen)
  BY DEF SubstDywizSubst, Each
<1>2. s \in Seq(Readings)
  BY TaggedListed
<1> HIDE DEF s
<1>3. f \in [DOMAIN s -> Seq(Readings)]
  BY <1>2, VariantsListed
<1> HIDE DEF f
<1>4. v \in Seq(Readings)
  BY <1>2, <1>3, EachListed
<1> HIDE DEF v
<1>5. \A l \in Readings : Based(l) \in DictionaryEntry
  BY LemmaBaseIs DEF Readings, DictionaryEntry
<1>6. g \in [DOMAIN v -> Seq(DictionaryEntry)]
  <2> HIDE DEF Based
  <2>1. \A i \in DOMAIN v : Based(v[i]) \in DictionaryEntry
    BY <1>4, <1>5
  <2>2. \A x \in DictionaryEntry : <<x>> \in Seq(DictionaryEntry)
    OBVIOUS
  <2> QED BY <2>1, <2>2
<1> HIDE DEF g
<1>7. lefts \in Seq(DictionaryEntry)
  BY <1>4, <1>6, EachListed
<1>8. hyphen \in Seq(Characters)
  BY CaseAssumption DEF Characters
<1> HIDE DEF lefts, hyphen
<1> QED BY <1>1, <1>7, <1>8, CompoundsListed

LEMMA RelabelledWanted ==
  ASSUME NEW e \in Readings, NEW labels \in Seq(Labels), LabelSet(labels) = LabelsOf(e)
  PROVE  Relabelled(e, labels) \in Wanted
<1> DEFINE d == Relabelled(e, labels)
<1>1. d \in [how : {"relabelled"}, entry : Readings, labels : Seq(Labels)] /\ d.labels = labels /\ d.entry = e
  BY DEF Relabelled
<1> HIDE DEF d
<1>2. d \in ToRelabel
  BY <1>1 DEF ToRelabel
<1> QED BY <1>2 DEF Wanted, d

LEMMA InsertedWanted ==
  ASSUME NEW e \in Readings
  PROVE  Inserted(e) \in Wanted
BY DEF Inserted, Wanted, ToInsert

LEMMA AliasWanted ==
  ASSUME NEW e \in DictionaryEntry, NEW orth \in Seq(Characters), Reads(e, orth)
  PROVE  Alias(orth, e) \in Wanted
<1> DEFINE d == Alias(orth, e)
<1>1. d \in [how : {"alias"}, entry : DictionaryEntry, orth : Seq(Characters)] /\ d.orth = orth /\ d.entry = e
  BY DEF Alias
<1> HIDE DEF d
<1>2. d \in ToAlias
  BY <1>1 DEF ToAlias
<1> QED BY <1>2 DEF Wanted, d

LEMMA StandaloneListed ==
  ASSUME entries \in Seq(Readings), NEW h
  PROVE  Standalone(h) \in Seq(Wanted)
<1> DEFINE New(e) == Relabelled(e, StandaloneLabels(e, h))
           f == [i \in DOMAIN entries |-> IF KeptAlone(entries[i], h) THEN <<New(entries[i])>> ELSE <<>>]
<1>1. Standalone(h) = FlattenSeq(f)
  BY DEF Standalone, Each, If
<1>2. \A e \in Readings : New(e) \in Wanted
  <2> SUFFICES ASSUME NEW e \in Readings
               PROVE  New(e) \in Wanted
    OBVIOUS
  <2>1. LabelsOf(e) \subseteq ToSet(LabelOrder) /\ LabelsOf(e) # {Underscore}
    BY ReadingLabels DEF Readings
  <2>2. StandaloneLabels(e, h) \in Seq(Labels) /\ LabelSet(StandaloneLabels(e, h)) = LabelsOf(e)
    BY <2>1, StandaloneLabelsSame
  <2> QED BY <2>2, RelabelledWanted
<1> HIDE DEF New
<1>3. \A x \in Wanted : <<x>> \in Seq(Wanted)
  OBVIOUS
<1>4. f \in [DOMAIN entries -> Seq(Wanted)]
  <2> SUFFICES ASSUME NEW i \in DOMAIN entries
               PROVE  f[i] \in Seq(Wanted)
    OBVIOUS
  <2>1. entries[i] \in Readings
    OBVIOUS
  <2>2. f[i] = IF KeptAlone(entries[i], h) THEN <<New(entries[i])>> ELSE <<>>
    OBVIOUS
  <2>3. <<>> \in Seq(Wanted)
    OBVIOUS
  <2> HIDE DEF f
  <2> QED BY <1>2, <1>3, <2>1, <2>2, <2>3
<1> HIDE DEF f
<1> QED BY <1>1, <1>4, EachListed

LEMMA AfterPrefixListed ==
  ASSUME source \in Sources, entries \in Seq(Readings), NEW h
  PROVE  AfterPrefix(h) \in Seq(Wanted)
<1> DEFINE s == Tagged({"prefs"})
           Left(p) == [p EXCEPT !.lemma = p.orth]
           Compound(p, e) == Combined(Left(p), <<>>, e)
           New(p, e) == Relabelled(Compound(p, e), PrefixedLabels(e, p, h))
           Following(p) ==
             [j \in DOMAIN entries |-> IF FollowsPrefix(entries[j], p) THEN <<New(p, entries[j])>> ELSE <<>>]
           f == [i \in DOMAIN s |-> IF s[i].orth \in h.prefixes THEN FlattenSeq(Following(s[i])) ELSE <<>>]
<1>1. AfterPrefix(h) = FlattenSeq(f)
  BY DEF AfterPrefix, Each, If
<1>2. s \in Seq(Readings)
  BY TaggedListed
<1>3. \A x \in Wanted : <<x>> \in Seq(Wanted)
  OBVIOUS
<1>4. <<>> \in Seq(Wanted) /\ <<>> \in Seq(Characters)
  OBVIOUS
<1>5. ASSUME NEW p \in Readings, NEW e \in Readings, FollowsPrefix(e, p)
      PROVE  New(p, e) \in Wanted
  <2>1. LabelsOf(e) \subseteq ToSet(LabelOrder) /\ LabelsOf(e) # {Underscore}
    BY ReadingLabels DEF Readings
  <2>2. PrefixedLabels(e, p, h) \in Seq(Labels) /\ LabelSet(PrefixedLabels(e, p, h)) = LabelsOf(e)
    BY <1>5, <2>1, PrefixedLabelsSame DEF FollowsPrefix
  <2>3. Left(p) \in DictionaryEntry
    BY DEF Readings, DictionaryEntry
  <2> DEFINE left == Left(p)
             none == <<>>
  <2>4. left \in DictionaryEntry /\ none \in Seq(Characters)
    BY <1>4, <2>3
  <2>5. Compound(p, e) = Combined(left, none, e)
    OBVIOUS
  <2> HIDE DEF left, none, Compound, Left
  <2>6. Compound(p, e) \in Readings /\ LabelsOf(Compound(p, e)) = LabelsOf(e)
    BY <2>4, <2>5, CombinedReads
  <2> QED BY <2>2, <2>6, RelabelledWanted
<1> HIDE DEF New, s
<1>6. ASSUME NEW p \in Readings
      PROVE  FlattenSeq(Following(p)) \in Seq(Wanted)
  <2> DEFINE g == [j \in DOMAIN entries |-> IF FollowsPrefix(entries[j], p) THEN <<New(p, entries[j])>> ELSE <<>>]
  <2>1. g \in [DOMAIN entries -> Seq(Wanted)]
    <3> SUFFICES ASSUME NEW j \in DOMAIN entries
                 PROVE  g[j] \in Seq(Wanted)
      OBVIOUS
    <3>1. entries[j] \in Readings
      OBVIOUS
    <3>2. g[j] = IF FollowsPrefix(entries[j], p) THEN <<New(p, entries[j])>> ELSE <<>>
      OBVIOUS
    <3> HIDE DEF g
    <3> QED BY <1>3, <1>4, <1>5, <3>1, <3>2
  <2>2. FlattenSeq(g) \in Seq(Wanted)
    <3> HIDE DEF g
    <3> QED BY <2>1, EachListed
  <2> QED BY <2>2
<1> HIDE DEF Following
<1>7. f \in [DOMAIN s -> Seq(Wanted)]
  <2> SUFFICES ASSUME NEW i \in DOMAIN s
               PROVE  f[i] \in Seq(Wanted)
    OBVIOUS
  <2>1. s[i] \in Readings
    BY <1>2
  <2>2. f[i] = IF s[i].orth \in h.prefixes THEN FlattenSeq(Following(s[i])) ELSE <<>>
    OBVIOUS
  <2> HIDE DEF f
  <2> QED BY <1>4, <1>6, <2>1, <2>2
<1> HIDE DEF f
<1> QED BY <1>1, <1>2, <1>7, EachListed

LEMMA ShiftedListed ==
  ASSUME source \in Sources, entries \in Seq(Readings)
  PROVE  Shifted \in Seq(Wanted)
<1> DEFINE adja == Tagged({"adja"})
           adj == Tagged(AdjTags)
           Left(a) == [a EXCEPT !.lemma = a.orth]
           New(a, e) == Inserted(Combined(Left(a), <<>>, e))
           Behind(a) == [j \in DOMAIN adj |-> <<New(a, adj[j])>>]
           f == [i \in DOMAIN adja |-> FlattenSeq(Behind(adja[i]))]
<1>1. Shifted = FlattenSeq(f)
  BY DEF Shifted, Each
<1>2. adja \in Seq(Readings) /\ adj \in Seq(Readings)
  BY TaggedListed
<1>3. \A x \in Wanted : <<x>> \in Seq(Wanted)
  OBVIOUS
<1>4. ASSUME NEW a \in Readings, NEW e \in Readings
      PROVE  New(a, e) \in Wanted
  <2> DEFINE left == Left(a)
             none == <<>>
             c == Combined(left, none, e)
  <2>1. left \in DictionaryEntry /\ none \in Seq(Characters)
    <3>1. left \in DictionaryEntry
      BY DEF Readings, DictionaryEntry
    <3>2. none \in Seq(Characters)
      OBVIOUS
    <3> QED BY <3>1, <3>2
  <2> HIDE DEF left, none
  <2>2. c \in Readings
    BY <2>1, CombinedReads
  <2>3. New(a, e) = Inserted(c)
    BY DEF left, none
  <2> HIDE DEF c, New
  <2> QED BY <2>2, <2>3, InsertedWanted
<1> HIDE DEF New, adja, adj
<1>5. ASSUME NEW a \in Readings
      PROVE  FlattenSeq(Behind(a)) \in Seq(Wanted)
  <2> DEFINE g == [j \in DOMAIN adj |-> <<New(a, adj[j])>>]
  <2>1. g \in [DOMAIN adj -> Seq(Wanted)]
    BY <1>2, <1>3, <1>4
  <2>2. FlattenSeq(g) \in Seq(Wanted)
    <3> HIDE DEF g
    <3> QED BY <1>2, <2>1, EachListed
  <2> QED BY <2>2
<1> HIDE DEF Behind
<1>6. f \in [DOMAIN adja -> Seq(Wanted)]
  BY <1>2, <1>5
<1> HIDE DEF f
<1> QED BY <1>1, <1>2, <1>6, EachListed

LEMMA AliasesListed ==
  ASSUME entries \in Seq(Readings)
  PROVE  Aliases \in Seq(Wanted)
<1> DEFINE mixed == MixedOrths
           Lowered(orth) == Reverse(Spelled(Lowercase(orth)))
           Own(orth) == Reverse(Spelled(orth))
           Above(orth) == [j \in DOMAIN Lowered(orth) |-> <<Alias(orth, Lowered(orth)[j])>>]
           Below(orth) == [j \in DOMAIN Own(orth) |-> <<Alias(Lowercase(orth), Own(orth)[j])>>]
           Under(orth) == IF Spelled(Lowercase(orth)) # <<>> THEN FlattenSeq(Above(orth))
                          ELSE FlattenSeq(Below(orth))
           f == [i \in DOMAIN mixed |-> Under(mixed[i])]
<1>1. Aliases = FlattenSeq(f)
  BY DEF Aliases, Each
<1>2. mixed \in Seq(Seq(Characters))
  BY MixedOrthsListed
<1>3. \A x \in Wanted : <<x>> \in Seq(Wanted)
  OBVIOUS
<1>4. ASSUME NEW orth \in Seq(Characters)
      PROVE  FlattenSeq(Above(orth)) \in Seq(Wanted)
  <2> DEFINE lower == Lowercase(orth)
             S == {e \in Readings : e.orth = lower}
             list == Lowered(orth)
             g == [j \in DOMAIN list |-> <<Alias(orth, list[j])>>]
  <2>1. lower \in Seq(Characters) /\ Lowercase(lower) = lower
    BY LowercaseIs
  <2>2. list \in Seq(S)
    <3>1. Spelled(lower) \in Seq(S)
      BY SpelledListed
    <3> HIDE DEF S, lower
    <3>2. Reverse(Spelled(lower)) \in Seq(S)
      BY <3>1, ReverseIs
    <3> QED BY <3>2 DEF lower
  <2> HIDE DEF list
  <2>3. ASSUME NEW e \in S
        PROVE  Alias(orth, e) \in Wanted
    <3>1. e \in DictionaryEntry /\ Reads(e, lower)
      BY DEF Readings
    <3>2. Reads(e, orth)
      BY <2>1, <3>1, RecasedReads
    <3> QED BY <3>1, <3>2, AliasWanted
  <2> HIDE DEF S
  <2>4. g \in [DOMAIN list -> Seq(Wanted)]
    <3>1. \A j \in DOMAIN list : list[j] \in S
      BY <2>2
    <3> QED BY <1>3, <2>3, <3>1
  <2>5. FlattenSeq(g) \in Seq(Wanted)
    <3> HIDE DEF g
    <3> QED BY <2>2, <2>4, EachListed
  <2> QED BY <2>5 DEF list
<1>5. ASSUME NEW orth \in Seq(Characters)
      PROVE  FlattenSeq(Below(orth)) \in Seq(Wanted)
  <2> DEFINE lower == Lowercase(orth)
             S == {e \in Readings : e.orth = orth}
             list == Own(orth)
             g == [j \in DOMAIN list |-> <<Alias(lower, list[j])>>]
  <2>1. lower \in Seq(Characters) /\ Lowercase(lower) = lower
    BY LowercaseIs
  <2>2. list \in Seq(S)
    <3>1. Spelled(orth) \in Seq(S)
      BY SpelledListed
    <3> HIDE DEF S
    <3> QED BY <3>1, ReverseIs
  <2> HIDE DEF list
  <2>3. ASSUME NEW e \in S
        PROVE  Alias(lower, e) \in Wanted
    <3>1. e \in DictionaryEntry /\ Reads(e, orth)
      BY DEF Readings
    <3>2. Reads(e, lower)
      BY <2>1, <3>1, RecasedReads
    <3> QED BY <2>1, <3>1, <3>2, AliasWanted
  <2> HIDE DEF S
  <2>4. g \in [DOMAIN list -> Seq(Wanted)]
    <3>1. \A j \in DOMAIN list : list[j] \in S
      BY <2>2
    <3> HIDE DEF lower
    <3> QED BY <1>3, <2>3, <3>1
  <2>5. FlattenSeq(g) \in Seq(Wanted)
    <3> HIDE DEF g
    <3> QED BY <2>2, <2>4, EachListed
  <2> QED BY <2>5 DEF list
<1>6. \A orth \in Seq(Characters) : Under(orth) \in Seq(Wanted)
  <2> HIDE DEF Above, Below
  <2> QED BY <1>4, <1>5
<1> HIDE DEF mixed, Under
<1>7. f \in [DOMAIN mixed -> Seq(Wanted)]
  BY <1>2, <1>6
<1> HIDE DEF f
<1> QED BY <1>1, <1>2, <1>7, EachListed

LEMMA DerivedListed ==
  ASSUME source \in Sources, entries \in Seq(Readings), NEW h
  PROVE  Derived(h) \in Seq(Wanted)
<1> DEFINE shifted == If(h.shift, Shifted)
           all == If(h.prefsSubst, Prefixed("prefs", <<>>))
                    \o If(h.prefsDywizSubst, Prefixed("prefs", <<"-">>))
                    \o If(h.nieDywizSubst, Prefixed("nie", <<"-">>))
                    \o If(h.substDywizSubst, SubstDywizSubst)
           compounds == Distinct(all)
           f == [i \in DOMAIN compounds |-> <<Inserted(compounds[i])>>]
           alone == Standalone(h)
           after == AfterPrefix(h)
           aliases == Aliases
           inserted == FlattenSeq(f)
<1>1. Derived(h) = alone \o after \o shifted \o aliases \o inserted
  BY DEF Derived, Each
<1>2. \A x, y \in Seq(Readings) : x \o y \in Seq(Readings)
  OBVIOUS
<1>3. \A x, y \in Seq(Wanted) : x \o y \in Seq(Wanted)
  OBVIOUS
<1>4. \A condition, list : list \in Seq(Readings) => If(condition, list) \in Seq(Readings)
  BY DEF If
<1>5. all \in Seq(Readings)
  <2> DEFINE none == <<>>
             hyphen == <<"-">>
             one == If(h.prefsSubst, Prefixed("prefs", none))
             two == If(h.prefsDywizSubst, Prefixed("prefs", hyphen))
             three == If(h.nieDywizSubst, Prefixed("nie", hyphen))
             four == If(h.substDywizSubst, SubstDywizSubst)
  <2>1. all = one \o two \o three \o four
    OBVIOUS
  <2>2. none \in Seq(Characters) /\ hyphen \in Seq(Characters)
    <3>1. none \in Seq(Characters)
      OBVIOUS
    <3>2. hyphen \in Seq(Characters)
      BY CaseAssumption DEF Characters
    <3> QED BY <3>1, <3>2
  <2> HIDE DEF none, hyphen, all
  <2>3. one \in Seq(Readings)
    BY <1>4, <2>2, PrefixedListed
  <2>4. two \in Seq(Readings)
    BY <1>4, <2>2, PrefixedListed
  <2>5. three \in Seq(Readings)
    BY <1>4, <2>2, PrefixedListed
  <2>6. four \in Seq(Readings)
    BY <1>4, SubstDywizSubstListed
  <2> HIDE DEF one, two, three, four
  <2> QED BY <1>2, <2>1, <2>3, <2>4, <2>5, <2>6
<1> HIDE DEF all
<1>6. compounds \in Seq(Readings)
  BY <1>5, DistinctListed
<1> HIDE DEF compounds
<1>7. f \in [DOMAIN compounds -> Seq(Wanted)]
  <2>1. \A i \in DOMAIN compounds : Inserted(compounds[i]) \in Wanted
    BY <1>6, InsertedWanted
  <2>2. \A x \in Wanted : <<x>> \in Seq(Wanted)
    OBVIOUS
  <2> QED BY <2>1, <2>2
<1> HIDE DEF f
<1>8. inserted \in Seq(Wanted)
  BY <1>6, <1>7, EachListed
<1>9. shifted \in Seq(Wanted)
  BY ShiftedListed DEF If
<1>10. alone \in Seq(Wanted) /\ after \in Seq(Wanted) /\ aliases \in Seq(Wanted)
  BY StandaloneListed, AfterPrefixListed, AliasesListed
<1> HIDE DEF inserted, shifted, alone, after, aliases
<1> QED BY <1>1, <1>3, <1>8, <1>9, <1>10
-----------------------------------------------------------------------------
(* What a step leaves as it is                                             *)

LEMMA SameLines ==
  ASSUME source' = source
  PROVE  EntryLines' = EntryLines /\ (\A i : Hidden(i)' <=> Hidden(i)) /\ (Hinted' <=> Hinted)
<1>1. \A i : Hidden(i)' <=> Hidden(i)
  BY Zenon DEF Hidden
<1>2. EntryLines' = EntryLines
  BY <1>1 DEF EntryLines
<1>3. Hinted' <=> Hinted
  BY Zenon DEF Hinted
<1> QED BY <1>1, <1>2, <1>3

(* As tables grow, an entry that is read stays read.                       *)
LEMMA GrowthKeeps ==
  ASSUME source' = source, Grows(resolver.tags, resolver'.tags),
         Grows(resolver.names, resolver'.names), Grows(resolver.labels, resolver'.labels),
         NEW e, Identified(e)
  PROVE  /\ Identified(e)' /\ LabelsOf(e)' = LabelsOf(e)
         /\ \A orth, l : ReadFrom(e, orth, l) => ReadFrom(e, orth, l)'
         /\ \A orth : Reads(e, orth) => Reads(e, orth)'
<1>1. /\ Identified(e)' /\ Tag(e)' = Tag(e) /\ LabelsOf(e)' = LabelsOf(e)
      /\ Text(resolver.names, e.nameId)' = Text(resolver.names, e.nameId)
  BY DEF Grows, Identified, Tag, LabelsOf, Text
<1>2. \A orth, l : ReadFrom(e, orth, l) => ReadFrom(e, orth, l)'
  BY <1>1, Zenon DEF ReadFrom
<1>3. \A orth : Reads(e, orth) => Reads(e, orth)'
  BY <1>1, <1>2, SameLines, Zenon DEF Reads
<1> QED BY <1>1, <1>2, <1>3

LEMMA WantedStays ==
  ASSUME source' = source, Grows(resolver.tags, resolver'.tags),
         Grows(resolver.names, resolver'.names), Grows(resolver.labels, resolver'.labels)
  PROVE  Readings \subseteq Readings' /\ Wanted \subseteq Wanted'
<1>1. \A e, orth : Reads(e, orth) => Reads(e, orth)' /\ LabelsOf(e)' = LabelsOf(e)
  BY GrowthKeeps DEF Reads
<1>2. Readings \subseteq Readings'
  BY <1>1 DEF Readings
<1>3. ToInsert \subseteq ToInsert'
  BY <1>2 DEF ToInsert
<1>4. ToAlias \subseteq ToAlias'
  BY <1>1 DEF ToAlias
<1>5. ToRelabel \subseteq ToRelabel'
  <2> SUFFICES ASSUME NEW d \in ToRelabel
               PROVE  d \in ToRelabel'
    OBVIOUS
  <2>1. /\ d \in [how : {"relabelled"}, entry : Readings, labels : Seq(Labels)]
        /\ LabelSet(d.labels) = LabelsOf(d.entry)
    BY DEF ToRelabel
  <2>2. d.entry \in Readings
    BY <2>1
  <2>3. LabelsOf(d.entry)' = LabelsOf(d.entry)
    BY <1>1, <2>2 DEF Readings
  <2>4. d \in [how : {"relabelled"}, entry : Readings', labels : Seq(Labels)]
    BY <1>2, <2>1
  <2>5. LabelSet(d.labels)' = LabelSet(d.labels) /\ Labels' = Labels
    BY DEF LabelSet, Labels
  <2>6. ToRelabel' = {c \in [how : {"relabelled"}, entry : Readings', labels : Seq(Labels)] :
                        LabelSet(c.labels) = LabelsOf(c.entry)'}
    BY DEF ToRelabel
  <2> QED BY <2>1, <2>3, <2>4, <2>6
<1> QED BY <1>2, <1>3, <1>4, <1>5 DEF Wanted

LEMMA GrowsItself == \A t : Grows(t, t)
BY DEF Grows

(* Steps that change neither the entries nor the identifiers.              *)
LEMMA SameDictionary ==
  ASSUME IInv, source' = source, resolver' = resolver, entries' = entries,
         byOrth' = byOrth, byKey' = byKey,
         \/ derived' = derived
         \/ derived # <<>> /\ derived' = Tail(derived)
  PROVE  /\ IdsSound' /\ ReadingsInv'
         /\ (Table(resolver.tags) /\ Table(resolver.names) /\ Table(resolver.labels))'
         /\ (Lists(byOrth) /\ Lists(byKey))'
         /\ \A i \in EntryLines : LineFound(i) => LineFound(i)'
<1>1. IdsSound'
  BY Zenon DEF IInv, IdsSound
<1>2. /\ Grows(resolver.tags, resolver'.tags) /\ Grows(resolver.names, resolver'.names)
      /\ Grows(resolver.labels, resolver'.labels)
  BY GrowsItself
<1>3. Readings \subseteq Readings' /\ Wanted \subseteq Wanted'
  BY <1>2, WantedStays
<1>4. ReadingsInv'
  <2>1. \A orth \in DOMAIN byOrth : \A e \in ToSet(byOrth[orth]) : Reads(e, orth) /\ Identified(e)
    BY DEF IInv, ReadingsInv, Reads
  <2>2. \A orth \in DOMAIN byOrth' : \A e \in ToSet(byOrth'[orth]) : Reads(e, orth)'
    BY <1>2, <2>1, GrowthKeeps
  <2>3. entries \in Seq(Readings) /\ derived \in Seq(Wanted)
    BY DEF IInv, ReadingsInv
  <2>4. derived' \in Seq(Wanted)
    BY <2>3
  <2>5. entries' \in Seq(Readings')
    BY <1>3, <2>3
  <2>6. derived' \in Seq(Wanted')
    BY <1>3, <2>4
  <2> QED BY <2>2, <2>5, <2>6 DEF ReadingsInv
<1>5. (Table(resolver.tags) /\ Table(resolver.names) /\ Table(resolver.labels))'
  BY Zenon DEF IInv, TypeOK
<1>6. (Lists(byOrth) /\ Lists(byKey))'
  BY DEF IInv, TypeOK, Lists
<1>7. \A i \in EntryLines : LineFound(i) => LineFound(i)'
  <2> SUFFICES ASSUME NEW i \in EntryLines, LineFound(i)
               PROVE  LineFound(i)'
    OBVIOUS
  <2> DEFINE l == source.dictionary[i]
  <2>1. PICK e \in DictionaryEntry :
          /\ e.orth = l.orth /\ e.lemma = l.lemma
          /\ Identified(e) /\ ReadFrom(e, l.orth, l)
          /\ e \in ToSet(Found(byOrth, l.orth))
          /\ e \in ToSet(Found(byKey, l.lemma)) /\ e \in ToSet(Found(byKey, LemmaBase(l.lemma)))
    BY DEF LineFound
  <2>2. Identified(e)' /\ ReadFrom(e, l.orth, l)'
    BY <1>2, <2>1, GrowthKeeps
  <2>3. l' = l /\ LemmaBase(l.lemma)' = LemmaBase(l.lemma)
    <3>1. l' = l
      OBVIOUS
    <3> HIDE DEF l
    <3>2. LemmaBase(l.lemma)' = LemmaBase(l'.lemma)
      BY DEF LemmaBase, SelectInSeq
    <3> QED BY <3>1, <3>2
  <2>4. \A k : Found(byOrth, k)' = Found(byOrth, k) /\ Found(byKey, k)' = Found(byKey, k)
    BY DEF Found
  <2> QED BY <2>1, <2>2, <2>3, <2>4, Zenon DEF LineFound
<1> QED BY <1>1, <1>4, <1>5, <1>6, <1>7

LEMMA HiddenNext ==
  ASSUME NEW i \in Nat \ {0}
  PROVE  /\ source.dictionary[i].kind = "close" => ~Hidden(i + 1)
         /\ source.dictionary[i].kind = "open" => Hidden(i + 1)
         /\ source.dictionary[i].kind \notin {"open", "close"} => (Hidden(i + 1) <=> Hidden(i))
<1> DEFINE kind(j) == source.dictionary[j].kind
           Opens(j, n) == kind(j) = "open" /\ \A k \in j + 1 .. n - 1 : kind(k) # "close"
<1>1. \A n : Hidden(n) <=> \E j \in 1 .. n - 1 : Opens(j, n)
  BY DEF Hidden
<1>2. CASE kind(i) = "close"
  <2>1. \A j \in 1 .. i : j # i => i \in j + 1 .. i
    OBVIOUS
  <2>2. \A j \in 1 .. (i + 1) - 1 : ~Opens(j, i + 1)
    BY <1>2, <2>1
  <2> QED BY <1>1, <1>2, <2>2
<1>3. CASE kind(i) = "open"
  <2>1. i \in 1 .. (i + 1) - 1 /\ \A k : k \notin i + 1 .. (i + 1) - 1
    OBVIOUS
  <2>2. Opens(i, i + 1)
    BY <1>3, <2>1
  <2> QED BY <1>1, <1>3, <2>1, <2>2
<1>4. CASE kind(i) \notin {"open", "close"}
  <2>1. \A j \in 1 .. i - 1 : \A k \in j + 1 .. (i + 1) - 1 : k \in j + 1 .. i - 1 \/ k = i
    OBVIOUS
  <2>2. \A j \in 1 .. i - 1 : \A k \in j + 1 .. i - 1 : k \in j + 1 .. (i + 1) - 1
    OBVIOUS
  <2>3. \A j \in 1 .. i - 1 : Opens(j, i + 1) <=> Opens(j, i)
    <3> SUFFICES ASSUME NEW j \in 1 .. i - 1
                 PROVE  Opens(j, i + 1) <=> Opens(j, i)
      OBVIOUS
    <3>1. ASSUME Opens(j, i), NEW k \in j + 1 .. (i + 1) - 1
          PROVE  kind(k) # "close"
      BY <1>4, <2>1, <3>1
    <3>2. ASSUME Opens(j, i + 1), NEW k \in j + 1 .. i - 1
          PROVE  kind(k) # "close"
      BY <2>2, <3>2
    <3> HIDE DEF kind
    <3> QED BY <3>1, <3>2
  <2>4. ~Opens(i, i + 1) /\ \A j : j \in 1 .. (i + 1) - 1 <=> (j \in 1 .. i - 1 \/ j = i)
    BY <1>4
  <2> HIDE DEF Opens
  <2> QED BY <1>1, <1>4, <2>3, <2>4
<1> QED BY <1>2, <1>3, <1>4
-----------------------------------------------------------------------------
(* The steps of the loader                                                 *)

LEMMA NothingYet ==
  ASSUME entries' = <<>>, byOrth' = NoEntries, byKey' = NoEntries, derived' = <<>>
  PROVE  ReadingsInv' /\ (Lists(byOrth) /\ Lists(byKey))'
<1>1. DOMAIN NoEntries = {}
  BY DEF NoEntries
<1>2. entries' \in Seq(Readings') /\ derived' \in Seq(Wanted')
  OBVIOUS
<1>3. \A orth \in DOMAIN byOrth' : FALSE
  BY <1>1
<1>4. \A k \in DOMAIN byKey' : FALSE
  BY <1>1
<1>5. ReadingsInv'
  BY <1>2, <1>3 DEF ReadingsInv
<1>6. Lists(byOrth)' /\ Lists(byKey)'
  BY <1>3, <1>4 DEF Lists
<1> QED BY <1>5, <1>6

LEMMA DefaultIs ==
  ASSUME NEW r, r = Default("ign", "sp")
  PROVE  /\ r = [tags |-> r.tags, names |-> r.names, labels |-> r.labels]
         /\ Table(r.tags) /\ Table(r.names) /\ Table(r.labels)
         /\ Sound(r.tags) /\ Sound(r.names) /\ Sound(r.labels)
         /\ Blank \notin DOMAIN r.tags.ids
<1>1. /\ r = [tags |-> r.tags, names |-> r.names, labels |-> r.labels]
      /\ r.tags = SetText(SetText(EmptyTable, 0, "ign"), 1, "sp")
      /\ r.names = GetOrInsert(EmptyTable, Underscore)
      /\ r.labels = GetOrInsert(EmptyTable, <<Underscore>>)
  BY DEF Default
<1>2. Table(EmptyTable) /\ Sound(EmptyTable) /\ Blank \notin DOMAIN EmptyTable.ids
  BY EmptyTableIs
<1>3. Table(r.names) /\ Sound(r.names)
  BY <1>1, <1>2, InsertKeeps
<1>4. Table(r.labels) /\ Sound(r.labels)
  BY <1>1, <1>2, InsertKeeps
<1> DEFINE one == SetText(EmptyTable, 0, "ign")
<1>5. "ign" # Blank /\ "sp" # Blank
  BY SourcesAssumption
<1>6. Table(one) /\ Sound(one) /\ Blank \notin DOMAIN one.ids
  BY <1>2, <1>5, SetKeeps
<1>7. r.tags = SetText(one, 1, "sp")
  BY <1>1
<1> HIDE DEF one
<1>8. Table(r.tags) /\ Sound(r.tags) /\ Blank \notin DOMAIN r.tags.ids
  BY <1>5, <1>6, <1>7, SetKeeps
<1> QED BY <1>1, <1>3, <1>4, <1>8

LEMMA InitInv == DictInit => IInv
<1> SUFFICES ASSUME DictInit PROVE IInv
  OBVIOUS
<1>1. /\ source \in Sources /\ line = 1 /\ inSection = FALSE
      /\ phase = FirstFile(source) /\ resolver = Default("ign", "sp")
      /\ entries = <<>> /\ byOrth = NoEntries /\ byKey = NoEntries /\ derived = <<>>
  BY DEF DictInit
<1>2. /\ phase \in {"tagset", "dictionary"}
      /\ phase = "tagset" => source.tagset # NoFile
  BY <1>1 DEF FirstFile
<1>3. /\ resolver = [tags |-> resolver.tags, names |-> resolver.names, labels |-> resolver.labels]
      /\ Table(resolver.tags) /\ Table(resolver.names) /\ Table(resolver.labels)
      /\ Sound(resolver.tags) /\ Sound(resolver.names) /\ Sound(resolver.labels)
      /\ Blank \notin DOMAIN resolver.tags.ids
  BY <1>1, DefaultIs
<1>4. DOMAIN NoEntries = {}
  BY DEF NoEntries
<1>5. Lists(byOrth) /\ Lists(byKey)
  BY <1>1, <1>4 DEF Lists
<1>6. ReadingsInv
  <2>1. entries \in Seq(Readings) /\ derived \in Seq(Wanted)
    BY <1>1
  <2> QED BY <1>1, <1>4, <2>1 DEF ReadingsInv
<1>7. ~Hidden(line)
  BY <1>1 DEF Hidden
<1>8. TypeOK
  <2>1. line \in Nat \ {0} /\ inSection \in BOOLEAN
    <3>1. line \in Nat \ {0}
      BY <1>1
    <3>2. inSection \in BOOLEAN
      BY <1>1, Zenon
    <3> QED BY <3>1, <3>2
  <2> QED BY <1>1, <1>2, <1>3, <1>5, <2>1 DEF TypeOK
<1>9. PhaseInv
  BY <1>1, <1>2, <1>3, <1>7 DEF PhaseInv
<1>10. LinesInv
  <2>1. \A i \in EntryLines : ~(i < line)
    BY <1>1 DEF EntryLines
  <2> QED BY <2>1 DEF LinesInv
<1>11. IdsSound
  BY <1>3 DEF IdsSound
<1> QED BY <1>6, <1>8, <1>9, <1>10, <1>11 DEF IInv

LEMMA TagsetLineKeeps == IInv /\ TagsetLine => IInv'
<1> SUFFICES ASSUME IInv, TagsetLine PROVE IInv'
  OBVIOUS
<1> DEFINE l == source.tagset[line]
<1>1. /\ phase = "tagset" /\ line <= Len(source.tagset)
      /\ inSection' = IF l.kind = "section" THEN l.text = "TAGS" ELSE inSection
      /\ resolver' = IF l.kind = "tag" /\ inSection
                     THEN [resolver EXCEPT !.tags = SetText(@, l.id, l.text)] ELSE resolver
      /\ phase' = IF l.kind = "short" /\ inSection THEN "failed" ELSE phase
      /\ line' = line + 1
      /\ source' = source /\ entries' = entries /\ byOrth' = byOrth /\ byKey' = byKey /\ derived' = derived
  BY DEF TagsetLine
<1>2. /\ source.tagset # NoFile /\ Blank \notin DOMAIN resolver.tags.ids
      /\ entries = <<>> /\ byOrth = NoEntries /\ byKey = NoEntries /\ derived = <<>>
  BY <1>1 DEF IInv, PhaseInv
<1>3. /\ source \in Sources /\ line \in Nat \ {0} /\ inSection \in BOOLEAN
      /\ resolver = [tags |-> resolver.tags, names |-> resolver.names, labels |-> resolver.labels]
      /\ Table(resolver.tags) /\ Table(resolver.names) /\ Table(resolver.labels)
      /\ Sound(resolver.tags) /\ Sound(resolver.names) /\ Sound(resolver.labels)
  BY DEF IInv, TypeOK, IdsSound
<1>4. l.kind = "tag" => l.id \in Nat /\ l.text # Blank
  <2>1. line \in DOMAIN source.tagset
    BY <1>1, <1>2, <1>3, SourcesAssumption
  <2> QED BY <1>2, <1>3, <2>1, SourcesAssumption
<1> HIDE DEF l
<1>5. /\ resolver' = [tags |-> resolver'.tags, names |-> resolver'.names, labels |-> resolver'.labels]
      /\ Table(resolver'.tags) /\ Table(resolver'.names) /\ Table(resolver'.labels)
      /\ Sound(resolver'.tags) /\ Sound(resolver'.names) /\ Sound(resolver'.labels)
      /\ Blank \notin DOMAIN resolver'.tags.ids
  <2>1. CASE l.kind = "tag" /\ inSection
    <3> DEFINE tags == SetText(resolver.tags, l.id, l.text)
    <3>1. resolver' = [resolver EXCEPT !.tags = tags]
      BY <1>1, <2>1
    <3>2. Table(tags) /\ Sound(tags) /\ Blank \notin DOMAIN tags.ids
      BY <1>2, <1>3, <1>4, <2>1, SetKeeps
    <3> HIDE DEF tags
    <3>3. /\ resolver' = [tags |-> tags, names |-> resolver.names, labels |-> resolver.labels]
      BY <1>3, <3>1
    <3> QED BY <1>3, <3>2, <3>3
  <2>2. CASE ~(l.kind = "tag" /\ inSection)
    BY <1>1, <1>2, <1>3, <2>2
  <2> QED BY <2>1, <2>2
<1>6. ReadingsInv' /\ (Lists(byOrth) /\ Lists(byKey))'
  BY <1>1, <1>2, NothingYet
<1>7. phase' \in {"tagset", "failed"} /\ line' \in Nat \ {0} /\ inSection' \in BOOLEAN
  <2>1. phase' \in {"tagset", "failed"} /\ line' \in Nat \ {0}
    BY <1>1, <1>3
  <2>2. inSection' \in BOOLEAN
    BY <1>1, <1>3, Zenon
  <2> QED BY <2>1, <2>2
<1>8. TypeOK'
  BY <1>1, <1>3, <1>5, <1>6, <1>7 DEF TypeOK
<1>9. PhaseInv'
  BY <1>1, <1>2, <1>5, <1>7 DEF PhaseInv
<1>10. LinesInv'
  BY <1>7 DEF LinesInv
<1>11. IdsSound'
  BY <1>5 DEF IdsSound
<1> QED BY <1>6, <1>8, <1>9, <1>10, <1>11 DEF IInv

(* The steps that read a line of no entry, or an end.                      *)
LEMMA ReadOnKeeps ==
  ASSUME IInv, source' = source, resolver' = resolver, entries' = entries, byOrth' = byOrth,
         byKey' = byKey, derived' = derived,
         phase' \in {"dictionary", "ready", "failed"}, line' \in Nat \ {0}, inSection' \in BOOLEAN,
         phase' = "dictionary" => (inSection' <=> Hidden(line')) /\ derived = <<>>,
         phase' = "ready" /\ ~Hinted => line' > Len(source.dictionary),
         phase' \in {"dictionary", "ready"} /\ ~Hinted =>
           \A i \in EntryLines : i < line' => LineFound(i)
  PROVE  IInv'
<1>1. /\ IdsSound' /\ ReadingsInv'
      /\ (Table(resolver.tags) /\ Table(resolver.names) /\ Table(resolver.labels))'
      /\ (Lists(byOrth) /\ Lists(byKey))'
      /\ \A i \in EntryLines : LineFound(i) => LineFound(i)'
  BY SameDictionary
<1>2. EntryLines' = EntryLines /\ (\A i : Hidden(i)' <=> Hidden(i)) /\ (Hinted' <=> Hinted)
  BY SameLines
<1>3. TypeOK'
  <2>1. /\ source \in Sources
        /\ resolver = [tags |-> resolver.tags, names |-> resolver.names, labels |-> resolver.labels]
    BY DEF IInv, TypeOK
  <2> QED BY <1>1, <2>1 DEF TypeOK
<1>4. Hidden(line)' <=> Hidden(line')
  BY DEF Hidden
<1>5. PhaseInv'
  <2>1. phase' # "tagset" /\ phase' # "hints"
    OBVIOUS
  <2> QED BY <1>2, <1>4, <2>1 DEF PhaseInv
<1>6. LinesInv'
  BY <1>1, <1>2 DEF LinesInv
<1> QED BY <1>1, <1>3, <1>5, <1>6 DEF IInv

LEMMA TagsetEndKeeps == IInv /\ TagsetEnd => IInv'
<1> SUFFICES ASSUME IInv, TagsetEnd PROVE IInv'
  OBVIOUS
<1>1. /\ phase = "tagset" /\ phase' = "dictionary" /\ line' = 1 /\ inSection' = FALSE
      /\ source' = source /\ derived' = derived /\ resolver' = resolver
      /\ entries' = entries /\ byOrth' = byOrth /\ byKey' = byKey
  BY DEF TagsetEnd, dictionary
<1>2. derived = <<>>
  BY <1>1 DEF IInv, PhaseInv
<1>3. ~Hidden(line')
  BY <1>1 DEF Hidden
<1>4. \A i \in EntryLines : ~(i < line')
  BY <1>1 DEF EntryLines
<1>5. line' \in Nat \ {0} /\ inSection' \in BOOLEAN
  <2>1. line' \in Nat \ {0}
    BY <1>1
  <2>2. inSection' \in BOOLEAN
    BY <1>1, Zenon
  <2> QED BY <2>1, <2>2
<1> QED BY <1>1, <1>2, <1>3, <1>4, <1>5, ReadOnKeeps

LEMMA CopyrightLineKeeps == IInv /\ CopyrightLine => IInv'
<1> SUFFICES ASSUME IInv, CopyrightLine PROVE IInv'
  OBVIOUS
<1> DEFINE l == source.dictionary[line]
<1>1. /\ phase = "dictionary" /\ phase' = phase /\ line' = line + 1 /\ inSection
      /\ l.kind \in {"id", "open", "close", "comment", "entry", "short"}
      /\ inSection' = ~Closes(l)
      /\ source' = source /\ derived' = derived /\ resolver' = resolver
      /\ entries' = entries /\ byOrth' = byOrth /\ byKey' = byKey
  BY DEF CopyrightLine, AtLine
<1>2. line \in Nat \ {0} /\ Hidden(line) /\ derived = <<>>
  BY <1>1 DEF IInv, TypeOK, PhaseInv
<1>3. inSection' \in BOOLEAN /\ (inSection' <=> l.kind # "close")
  BY <1>1 DEF Closes
<1>4. Hidden(line + 1) <=> l.kind # "close"
  BY <1>2, HiddenNext
<1>5. ASSUME ~Hinted, NEW i \in EntryLines, i < line'
      PROVE  LineFound(i)
  <2>1. i # line
    BY <1>2 DEF EntryLines
  <2>2. i \in Nat
    BY DEF EntryLines
  <2>3. i < line
    BY <1>1, <1>2, <1>5, <2>1, <2>2
  <2> QED BY <1>1, <1>5, <2>3 DEF IInv, LinesInv
<1>6. line' \in Nat \ {0} /\ (inSection' <=> Hidden(line')) /\ phase' = "dictionary"
  <2>1. Hidden(line') <=> Hidden(line + 1)
    BY <1>1
  <2> QED BY <1>1, <1>2, <1>3, <1>4, <2>1
<1> HIDE DEF l
<1> QED BY <1>1, <1>2, <1>3, <1>5, <1>6, ReadOnKeeps

LEMMA MetadataLineKeeps == IInv /\ MetadataLine => IInv'
<1> SUFFICES ASSUME IInv, MetadataLine PROVE IInv'
  OBVIOUS
<1> DEFINE l == source.dictionary[line]
<1>1. /\ phase = "dictionary" /\ phase' = phase /\ line' = line + 1 /\ ~inSection
      /\ l.kind \in {"id", "open", "close", "comment"}
      /\ inSection' = (l.kind = "open")
      /\ source' = source /\ derived' = derived /\ resolver' = resolver
      /\ entries' = entries /\ byOrth' = byOrth /\ byKey' = byKey
  BY DEF MetadataLine, AtLine
<1>2. line \in Nat \ {0} /\ ~Hidden(line) /\ derived = <<>>
  BY <1>1 DEF IInv, TypeOK, PhaseInv
<1>3. inSection' \in BOOLEAN /\ (inSection' <=> l.kind = "open")
  BY <1>1
<1>4. Hidden(line + 1) <=> l.kind = "open"
  BY <1>2, HiddenNext
<1>5. ASSUME ~Hinted, NEW i \in EntryLines, i < line'
      PROVE  LineFound(i)
  <2>1. i # line
    BY <1>1 DEF EntryLines
  <2>2. i \in Nat
    BY DEF EntryLines
  <2>3. i < line
    BY <1>1, <1>2, <1>5, <2>1, <2>2
  <2> QED BY <1>1, <1>5, <2>3 DEF IInv, LinesInv
<1>6. line' \in Nat \ {0} /\ (inSection' <=> Hidden(line')) /\ phase' = "dictionary"
  <2>1. Hidden(line') <=> Hidden(line + 1)
    BY <1>1
  <2> QED BY <1>1, <1>2, <1>3, <1>4, <2>1
<1> HIDE DEF l
<1> QED BY <1>1, <1>2, <1>3, <1>5, <1>6, ReadOnKeeps

LEMMA ShortLineKeeps == IInv /\ ShortLine => IInv'
<1> SUFFICES ASSUME IInv, ShortLine PROVE IInv'
  OBVIOUS
<1>1. /\ phase' = "failed" /\ line' = line /\ inSection' = inSection
      /\ source' = source /\ derived' = derived /\ resolver' = resolver
      /\ entries' = entries /\ byOrth' = byOrth /\ byKey' = byKey
  BY DEF ShortLine, dictionary
<1>2. line' \in Nat \ {0} /\ inSection' \in BOOLEAN
  BY <1>1 DEF IInv, TypeOK
<1> QED BY <1>1, <1>2, ReadOnKeeps

LEMMA DictionaryEndKeeps == IInv /\ DictionaryEnd => IInv'
<1> SUFFICES ASSUME IInv, DictionaryEnd PROVE IInv'
  OBVIOUS
<1>1. /\ phase = "dictionary" /\ line > Len(source.dictionary) /\ ~Hinted
      /\ phase' = "ready" /\ line' = line /\ inSection' = inSection
      /\ source' = source /\ derived' = derived /\ resolver' = resolver
      /\ entries' = entries /\ byOrth' = byOrth /\ byKey' = byKey
  BY DEF DictionaryEnd, dictionary
<1>2. line' \in Nat \ {0} /\ inSection' \in BOOLEAN
  BY <1>1 DEF IInv, TypeOK
<1>3. \A i \in EntryLines : i < line => LineFound(i)
  BY <1>1 DEF IInv, LinesInv
<1> QED BY <1>1, <1>2, <1>3, ReadOnKeeps

LEMMA HintsEndKeeps == IInv /\ HintsEnd => IInv'
<1> SUFFICES ASSUME IInv, HintsEnd PROVE IInv'
  OBVIOUS
<1>1. /\ phase = "hints" /\ phase' = "ready" /\ line' = line /\ inSection' = inSection
      /\ source' = source /\ derived' = derived /\ resolver' = resolver
      /\ entries' = entries /\ byOrth' = byOrth /\ byKey' = byKey
  BY DEF HintsEnd, dictionary
<1>2. line' \in Nat \ {0} /\ inSection' \in BOOLEAN /\ Hinted
  BY <1>1 DEF IInv, TypeOK, PhaseInv
<1> QED BY <1>1, <1>2, ReadOnKeeps

LEMMA InsertInv ==
  ASSUME IInv, source' = source, Grows(resolver.tags, resolver'.tags),
         Grows(resolver.names, resolver'.names), Grows(resolver.labels, resolver'.labels),
         NEW e \in DictionaryEntry, Insert(e), Reads(e, e.orth)', derived' \in Seq(Wanted)
  PROVE  /\ ReadingsInv' /\ Lists(byOrth)' /\ Lists(byKey)'
         /\ e \in ToSet(Found(byOrth', e.orth))
         /\ e \in ToSet(Found(byKey', e.lemma)) /\ e \in ToSet(Found(byKey', LemmaBase(e.lemma)))
         /\ \A i \in EntryLines : LineFound(i) => LineFound(i)'
<1>1. byKey' = KeyPushed(byKey, e) /\ byOrth' = Pushed(byOrth, e.orth, e) /\ entries' = Append(entries, e)
  BY DEF Insert
<1>2. Lists(byOrth) /\ Lists(byKey) /\ entries \in Seq(Readings)
  BY DEF IInv, TypeOK, ReadingsInv
<1>3. Readings \subseteq Readings' /\ Wanted \subseteq Wanted'
  BY WantedStays
<1>4. /\ Lists(byOrth') /\ e \in ToSet(Found(byOrth', e.orth))
      /\ \A k : ToSet(Found(byOrth, k)) \subseteq ToSet(Found(byOrth', k))
      /\ \A k \in DOMAIN byOrth' : \A x \in ToSet(byOrth'[k]) :
           (k \in DOMAIN byOrth /\ x \in ToSet(byOrth[k])) \/ (k = e.orth /\ x = e)
  BY <1>1, <1>2, PushedFinds
<1>5. /\ Lists(byKey')
      /\ e \in ToSet(Found(byKey', e.lemma)) /\ e \in ToSet(Found(byKey', LemmaBase(e.lemma)))
      /\ \A k : ToSet(Found(byKey, k)) \subseteq ToSet(Found(byKey', k))
  BY <1>1, <1>2, KeyPushedFinds
<1>6. Lists(byOrth)' /\ Lists(byKey)'
  BY <1>4, <1>5 DEF Lists
<1>7. ReadingsInv'
  <2>1. \A orth \in DOMAIN byOrth : \A x \in ToSet(byOrth[orth]) : Reads(x, orth)'
    <3>1. \A orth \in DOMAIN byOrth : \A x \in ToSet(byOrth[orth]) : Reads(x, orth) /\ Identified(x)
      BY DEF IInv, ReadingsInv, Reads
    <3> QED BY <3>1, GrowthKeeps
  <2>2. \A orth \in DOMAIN byOrth' : \A x \in ToSet(byOrth'[orth]) : Reads(x, orth)'
    BY <1>4, <2>1, Zenon
  <2>3. e \in Readings'
    BY DEF Readings
  <2>4. entries' \in Seq(Readings')
    BY <1>1, <1>2, <1>3, <2>3
  <2>5. derived' \in Seq(Wanted')
    BY <1>3
  <2> QED BY <2>2, <2>4, <2>5 DEF ReadingsInv
<1>8. ASSUME NEW i \in EntryLines, LineFound(i)
      PROVE  LineFound(i)'
  <2> DEFINE l == source.dictionary[i]
  <2>1. PICK x \in DictionaryEntry :
          /\ x.orth = l.orth /\ x.lemma = l.lemma
          /\ Identified(x) /\ ReadFrom(x, l.orth, l)
          /\ x \in ToSet(Found(byOrth, l.orth))
          /\ x \in ToSet(Found(byKey, l.lemma)) /\ x \in ToSet(Found(byKey, LemmaBase(l.lemma)))
    BY <1>8 DEF LineFound
  <2>2. Identified(x)' /\ ReadFrom(x, l.orth, l)'
    BY <2>1, GrowthKeeps
  <2>3. l' = l /\ LemmaBase(l.lemma)' = LemmaBase(l.lemma)
    <3>1. l' = l
      OBVIOUS
    <3> HIDE DEF l
    <3>2. LemmaBase(l.lemma)' = LemmaBase(l'.lemma)
      BY DEF LemmaBase, SelectInSeq
    <3> QED BY <3>1, <3>2
  <2>4. \A k : Found(byOrth, k)' = Found(byOrth', k) /\ Found(byKey, k)' = Found(byKey', k)
    BY DEF Found
  <2>5. /\ x \in ToSet(Found(byOrth', l.orth))
        /\ x \in ToSet(Found(byKey', l.lemma)) /\ x \in ToSet(Found(byKey', LemmaBase(l.lemma)))
    BY <1>4, <1>5, <2>1
  <2> QED BY <2>1, <2>2, <2>3, <2>4, <2>5, Zenon DEF LineFound
<1> QED BY <1>4, <1>5, <1>6, <1>7, <1>8

LEMMA EntryLineKeeps == IInv /\ EntryLine => IInv'
<1> SUFFICES ASSUME IInv, EntryLine PROVE IInv'
  OBVIOUS
<1>0. PICK n, l : n = line /\ l = source.dictionary[line]
  OBVIOUS
<1>a. PICK e : e = EntryOf(resolver', l)
  OBVIOUS
<1> DEFINE tags == GetOrInsert(resolver.tags, l.tag)
           names == GetOrInsert(resolver.names, Normalized(l.name))
           labels == GetOrInsert(resolver.labels, Canonical(l.labels))
<1>1. /\ phase = "dictionary" /\ line <= Len(source.dictionary) /\ l.kind = "entry" /\ ~inSection
      /\ resolver' = [tags |-> tags, names |-> names, labels |-> labels]
      /\ Insert(e)
      /\ line' = line + 1
      /\ source' = source /\ phase' = phase /\ inSection' = inSection /\ derived' = derived
  BY <1>0, <1>a DEF EntryLine, AtLine, Resolving
<1>2. /\ source \in Sources /\ line \in Nat \ {0} /\ ~Hidden(line) /\ derived = <<>>
      /\ Table(resolver.tags) /\ Table(resolver.names) /\ Table(resolver.labels)
      /\ Sound(resolver.tags) /\ Sound(resolver.names) /\ Sound(resolver.labels)
  BY <1>1 DEF IInv, TypeOK, PhaseInv, IdsSound
<1>3. n \in EntryLines
  BY <1>0, <1>1, <1>2, SourcesAssumption DEF EntryLines
<1>4. l.orth \in Seq(Characters) /\ l.lemma \in Seq(Characters)
  BY <1>0, <1>2, <1>3, LineTexts
<1>5. /\ e.orth = l.orth /\ e.lemma = l.lemma
      /\ e.tagId = Id(tags, l.tag) /\ e.nameId = Id(names, Normalized(l.name))
      /\ e.labelsId = Id(labels, Canonical(l.labels))
      /\ e = [orth |-> e.orth, lemma |-> e.lemma, tagId |-> e.tagId, nameId |-> e.nameId,
              labelsId |-> e.labelsId]
  BY <1>1, <1>a DEF EntryOf
<1>6. /\ Table(tags) /\ Sound(tags) /\ Grows(resolver.tags, tags)
      /\ Id(tags, l.tag) \in Nat /\ Id(tags, l.tag) + 1 \in DOMAIN tags.texts
      /\ Text(tags, Id(tags, l.tag)) = l.tag
  BY <1>2, InsertKeeps
<1>7. /\ Table(names) /\ Sound(names) /\ Grows(resolver.names, names)
      /\ Id(names, Normalized(l.name)) \in Nat /\ Id(names, Normalized(l.name)) + 1 \in DOMAIN names.texts
      /\ Text(names, Id(names, Normalized(l.name))) = Normalized(l.name)
  BY <1>2, InsertKeeps
<1>8. /\ Table(labels) /\ Sound(labels) /\ Grows(resolver.labels, labels)
      /\ Id(labels, Canonical(l.labels)) \in Nat /\ Id(labels, Canonical(l.labels)) + 1 \in DOMAIN labels.texts
      /\ Text(labels, Id(labels, Canonical(l.labels))) = Canonical(l.labels)
  BY <1>2, InsertKeeps
<1> HIDE DEF tags, names, labels
<1>9. e \in DictionaryEntry
  BY <1>4, <1>5, <1>6, <1>7, <1>8 DEF DictionaryEntry
<1>10. Identified(e)'
  BY <1>1, <1>5, <1>6, <1>7, <1>8 DEF Identified
<1>11. ReadFrom(e, l.orth, l)'
  <2>1. Tag(e)' = l.tag /\ Text(resolver'.names, e.nameId) = Normalized(l.name)
        /\ LabelsOf(e)' = LabelSet(Canonical(l.labels))
    BY <1>1, <1>5, <1>6, <1>7, <1>8 DEF Tag, Text, LabelsOf
  <2>2. IsSuffix(l.lemma, e.lemma)
    BY <1>4, <1>5, SuffixOfItself
  <2>3. IsSuffix(Lowercase(l.orth), Lowercase(l.orth))
    BY <1>4, LowercaseIs, SuffixOfItself
  <2> QED BY <2>1, <2>2, <2>3 DEF ReadFrom
<1>12. EntryLines' = EntryLines /\ (\A i : Hidden(i)' <=> Hidden(i)) /\ (Hinted' <=> Hinted)
  BY <1>1, SameLines
<1>13. Reads(e, e.orth)'
  <2>1. l = source'.dictionary[n]
    BY <1>0, <1>1
  <2> QED BY <1>3, <1>5, <1>10, <1>11, <1>12, <2>1 DEF Reads
<1>14. /\ ReadingsInv' /\ Lists(byOrth)' /\ Lists(byKey)'
       /\ e \in ToSet(Found(byOrth', e.orth))
       /\ e \in ToSet(Found(byKey', e.lemma)) /\ e \in ToSet(Found(byKey', LemmaBase(e.lemma)))
       /\ \A i \in EntryLines : LineFound(i) => LineFound(i)'
  <2>1. derived' \in Seq(Wanted)
    BY <1>1 DEF IInv, ReadingsInv
  <2>2. /\ Grows(resolver.tags, resolver'.tags) /\ Grows(resolver.names, resolver'.names)
        /\ Grows(resolver.labels, resolver'.labels)
    BY <1>1, <1>6, <1>7, <1>8
  <2> QED BY <1>1, <1>9, <1>13, <2>1, <2>2, InsertInv
<1>15. LineFound(n)'
  <2>1. source'.dictionary[n] = l
    BY <1>0, <1>1
  <2>2. LemmaBase(l.lemma)' = LemmaBase(l.lemma)
    BY DEF LemmaBase, SelectInSeq
  <2>3. \A k : Found(byOrth, k)' = Found(byOrth', k) /\ Found(byKey, k)' = Found(byKey', k)
    BY DEF Found
  <2> QED BY <1>5, <1>9, <1>10, <1>11, <1>14, <2>1, <2>2, <2>3 DEF LineFound
<1>16. TypeOK'
  <2>1. /\ Table(resolver'.tags) /\ Table(resolver'.names) /\ Table(resolver'.labels)
        /\ resolver' = [tags |-> resolver'.tags, names |-> resolver'.names, labels |-> resolver'.labels]
    BY <1>1, <1>6, <1>7, <1>8
  <2>2. line' \in Nat \ {0} /\ inSection' \in BOOLEAN
    BY <1>1, <1>2 DEF IInv, TypeOK
  <2> QED BY <1>1, <1>2, <1>14, <2>1, <2>2 DEF TypeOK
<1>17. IdsSound'
  BY <1>1, <1>6, <1>7, <1>8 DEF IdsSound
<1>18. PhaseInv'
  <2>1. Hidden(line)' <=> Hidden(line + 1)
    BY <1>1, <1>12 DEF Hidden
  <2>2. ~Hidden(line + 1)
    BY <1>0, <1>1, <1>2, HiddenNext
  <2>3. phase' = "dictionary" /\ derived' = <<>> /\ ~inSection'
    BY <1>1, <1>2
  <2> QED BY <2>1, <2>2, <2>3 DEF PhaseInv
<1>19. LinesInv'
  <2> SUFFICES ASSUME ~Hinted', NEW i \in EntryLines', i < line'
               PROVE  LineFound(i)'
    BY DEF LinesInv
  <2>1. CASE i = n
    BY <1>15, <2>1
  <2>2. CASE i # n
    <3>1. i \in Nat /\ i < line
      BY <1>0, <1>1, <1>2, <2>2 DEF EntryLines
    <3>2. i \in EntryLines /\ LineFound(i)
      BY <1>1, <1>12, <3>1 DEF IInv, LinesInv
    <3> QED BY <1>14, <3>2
  <2> QED BY <2>1, <2>2
<1> QED BY <1>14, <1>16, <1>17, <1>18, <1>19 DEF IInv

LEMMA ApplyHintsKeeps == IInv /\ ApplyHints => IInv'
<1> SUFFICES ASSUME IInv, ApplyHints PROVE IInv'
  OBVIOUS
<1>1. /\ phase = "dictionary" /\ Hinted /\ phase' = "hints"
      /\ derived' = Derived(HintsOf(source.rules))
      /\ entries' = <<>> /\ byOrth' = NoEntries /\ byKey' = NoEntries
      /\ source' = source /\ line' = line /\ inSection' = inSection /\ resolver' = resolver
  BY DEF ApplyHints
<1>2. source \in Sources /\ entries \in Seq(Readings)
  BY DEF IInv, TypeOK, ReadingsInv
<1>3. derived' \in Seq(Wanted)
  BY <1>1, <1>2, DerivedListed
<1>4. Wanted \subseteq Wanted'
  <2>1. /\ Grows(resolver.tags, resolver'.tags) /\ Grows(resolver.names, resolver'.names)
        /\ Grows(resolver.labels, resolver'.labels)
    BY <1>1, GrowsItself
  <2> QED BY <1>1, <2>1, WantedStays
<1>5. Hinted'
  BY <1>1, SameLines
<1>6. DOMAIN NoEntries = {}
  BY DEF NoEntries
<1>7. ReadingsInv'
  <2>1. derived' \in Seq(Wanted')
    BY <1>3, <1>4
  <2>2. entries' \in Seq(Readings')
    BY <1>1
  <2>3. \A orth \in DOMAIN byOrth' : FALSE
    BY <1>1, <1>6
  <2> QED BY <2>1, <2>2, <2>3 DEF ReadingsInv
<1>8. Lists(byOrth)' /\ Lists(byKey)'
  BY <1>1, <1>6 DEF Lists
<1>9. TypeOK'
  <2>1. /\ Table(resolver'.tags) /\ Table(resolver'.names) /\ Table(resolver'.labels)
        /\ resolver' = [tags |-> resolver'.tags, names |-> resolver'.names, labels |-> resolver'.labels]
        /\ line' \in Nat \ {0}
    BY <1>1 DEF IInv, TypeOK
  <2>2. inSection' \in BOOLEAN
    BY <1>1 DEF IInv, TypeOK
  <2> QED BY <1>1, <1>2, <1>8, <2>1, <2>2 DEF TypeOK
<1>10. IdsSound'
  BY <1>1 DEF IInv, IdsSound
<1>11. PhaseInv'
  BY <1>1, <1>5 DEF PhaseInv
<1>12. LinesInv'
  BY <1>5 DEF LinesInv
<1> QED BY <1>7, <1>9, <1>10, <1>11, <1>12 DEF IInv

(* The steps that insert what the hints ask for.                           *)
LEMMA InsertHintedKeeps ==
  ASSUME IInv, phase = "hints", source' = source, phase' = phase, line' = line, inSection' = inSection,
         ReadingsInv', Lists(byOrth)', Lists(byKey)',
         NEW labels, Table(labels), Sound(labels), resolver' = [resolver EXCEPT !.labels = labels]
  PROVE  IInv'
<1>1. Hinted'
  BY SameLines DEF IInv, PhaseInv
<1>2. resolver' = [tags |-> resolver.tags, names |-> resolver.names, labels |-> labels]
  BY DEF IInv, TypeOK
<1>3. TypeOK'
  <2>1. /\ Table(resolver'.tags) /\ Table(resolver'.names) /\ Table(resolver'.labels)
        /\ resolver' = [tags |-> resolver'.tags, names |-> resolver'.names, labels |-> resolver'.labels]
    BY <1>2 DEF IInv, TypeOK
  <2>2. line' \in Nat \ {0} /\ source' \in Sources
    BY DEF IInv, TypeOK
  <2>3. inSection' \in BOOLEAN
    BY DEF IInv, TypeOK
  <2> QED BY <2>1, <2>2, <2>3 DEF TypeOK
<1>4. IdsSound'
  BY <1>2 DEF IInv, IdsSound
<1>5. PhaseInv'
  BY <1>1 DEF PhaseInv
<1>6. LinesInv'
  BY <1>1 DEF LinesInv
<1> QED BY <1>3, <1>4, <1>5, <1>6 DEF IInv

LEMMA NextWanted ==
  ASSUME IInv, NEW how, NextIs(how)
  PROVE  /\ phase = "hints" /\ Head(derived) \in Wanted /\ Head(derived).how = how
         /\ Tail(derived) \in Seq(Wanted)
         /\ how = "relabelled" => Head(derived) \in ToRelabel
         /\ how = "inserted" => Head(derived) \in ToInsert
         /\ how = "alias" => Head(derived) \in ToAlias
<1>1. phase = "hints" /\ derived # <<>> /\ Head(derived).how = how /\ derived \in Seq(Wanted)
  BY DEF NextIs, IInv, ReadingsInv
<1>2. Head(derived) \in Wanted /\ Tail(derived) \in Seq(Wanted)
  BY <1>1
<1> DEFINE d == Head(derived)
<1> HIDE DEF d
<1>3. d \in Wanted /\ d.how = how
  BY <1>1, <1>2 DEF d
<1>4. /\ d \in ToRelabel => d.how = "relabelled"
      /\ d \in ToInsert => d.how = "inserted"
      /\ d \in ToAlias => d.how = "alias"
  BY DEF ToRelabel, ToInsert, ToAlias
<1>5. d \in ToRelabel \/ d \in ToInsert \/ d \in ToAlias
  BY <1>3 DEF Wanted
<1>6. /\ how = "relabelled" => d \in ToRelabel
      /\ how = "inserted" => d \in ToInsert
      /\ how = "alias" => d \in ToAlias
  BY <1>3, <1>4, <1>5
<1> QED BY <1>1, <1>2, <1>6 DEF d

LEMMA InsertCombinedKeeps == IInv /\ InsertCombined => IInv'
<1> SUFFICES ASSUME IInv, InsertCombined PROVE IInv'
  OBVIOUS
<1>1. PICK e : e = Head(derived).entry
  OBVIOUS
<1>2. /\ NextIs("inserted") /\ Insert(e) /\ derived' = Tail(derived)
      /\ source' = source /\ phase' = phase /\ line' = line /\ inSection' = inSection
      /\ resolver' = resolver
  BY <1>1 DEF InsertCombined
<1>3. phase = "hints" /\ Tail(derived) \in Seq(Wanted) /\ Head(derived) \in ToInsert
  BY <1>2, NextWanted
<1>4. e \in DictionaryEntry /\ Reads(e, e.orth)
  BY <1>1, <1>3 DEF ToInsert, Readings
<1>5. /\ Grows(resolver.tags, resolver'.tags) /\ Grows(resolver.names, resolver'.names)
      /\ Grows(resolver.labels, resolver'.labels)
  BY <1>2, GrowsItself
<1>6. Reads(e, e.orth)'
  <2>1. Identified(e)
    BY <1>4 DEF Reads
  <2> QED BY <1>2, <1>4, <1>5, <2>1, GrowthKeeps
<1>7. ReadingsInv' /\ Lists(byOrth)' /\ Lists(byKey)'
  BY <1>2, <1>3, <1>4, <1>5, <1>6, InsertInv
<1>8. PICK labels : labels = resolver.labels
  OBVIOUS
<1>9. Table(labels) /\ Sound(labels) /\ resolver' = [resolver EXCEPT !.labels = labels]
  BY <1>2, <1>8 DEF IInv, TypeOK, IdsSound
<1> QED BY <1>2, <1>3, <1>7, <1>9, InsertHintedKeeps

LEMMA InsertAliasKeeps == IInv /\ InsertAlias => IInv'
<1> SUFFICES ASSUME IInv, InsertAlias PROVE IInv'
  OBVIOUS
<1>1. PICK e, orth : e = Head(derived).entry /\ orth = Head(derived).orth
  OBVIOUS
<1>2. /\ NextIs("alias") /\ byOrth' = Fronted(byOrth, orth, e) /\ derived' = Tail(derived)
      /\ source' = source /\ phase' = phase /\ line' = line /\ inSection' = inSection
      /\ resolver' = resolver /\ entries' = entries /\ byKey' = byKey
  BY <1>1 DEF InsertAlias
<1>3. phase = "hints" /\ Tail(derived) \in Seq(Wanted) /\ Head(derived) \in ToAlias
  BY <1>2, NextWanted
<1>4. e \in DictionaryEntry /\ Reads(e, orth)
  BY <1>1, <1>3 DEF ToAlias
<1>5. /\ Grows(resolver.tags, resolver'.tags) /\ Grows(resolver.names, resolver'.names)
      /\ Grows(resolver.labels, resolver'.labels)
  BY <1>2, GrowsItself
<1>6. /\ Lists(byOrth')
      /\ \A k \in DOMAIN byOrth' : \A x \in ToSet(byOrth'[k]) :
           (k \in DOMAIN byOrth /\ x \in ToSet(byOrth[k])) \/ (k = orth /\ x = e)
  <2>1. Lists(byOrth)
    BY DEF IInv, TypeOK
  <2> QED BY <1>2, <1>4, <2>1, FrontedFinds
<1>7. Readings \subseteq Readings' /\ Wanted \subseteq Wanted'
  BY <1>2, <1>5, WantedStays
<1>8. ReadingsInv'
  <2>1. \A k \in DOMAIN byOrth : \A x \in ToSet(byOrth[k]) : Reads(x, k) /\ Identified(x)
    BY DEF IInv, ReadingsInv, Reads
  <2>2. \A k \in DOMAIN byOrth : \A x \in ToSet(byOrth[k]) : Reads(x, k)'
    BY <1>2, <1>5, <2>1, GrowthKeeps
  <2>3. Reads(e, orth)'
    <3>1. Identified(e)
      BY <1>4 DEF Reads
    <3> QED BY <1>2, <1>4, <1>5, <3>1, GrowthKeeps
  <2>4. \A k \in DOMAIN byOrth' : \A x \in ToSet(byOrth'[k]) : Reads(x, k)'
    BY <1>6, <2>2, <2>3, Zenon
  <2>5. entries \in Seq(Readings)
    BY DEF IInv, ReadingsInv
  <2>6. entries' \in Seq(Readings')
    BY <1>2, <1>7, <2>5
  <2>7. derived' \in Seq(Wanted')
    BY <1>2, <1>3, <1>7
  <2> QED BY <2>4, <2>6, <2>7 DEF ReadingsInv
<1>9. Lists(byOrth)' /\ Lists(byKey)'
  BY <1>2, <1>6 DEF Lists, IInv, TypeOK
<1>10. PICK labels : labels = resolver.labels
  OBVIOUS
<1>11. Table(labels) /\ Sound(labels) /\ resolver' = [resolver EXCEPT !.labels = labels]
  BY <1>2, <1>10 DEF IInv, TypeOK, IdsSound
<1> QED BY <1>2, <1>3, <1>8, <1>9, <1>11, InsertHintedKeeps

LEMMA InsertRelabelledKeeps == IInv /\ InsertRelabelled => IInv'
<1> SUFFICES ASSUME IInv, InsertRelabelled PROVE IInv'
  OBVIOUS
<1>1. PICK old, text2 : old = Head(derived).entry /\ text2 = Head(derived).labels
  OBVIOUS
<1>2. PICK labels : labels = GetOrInsert(resolver.labels, text2)
  OBVIOUS
<1>3. PICK e : e = [old EXCEPT !.labelsId = Id(labels, text2)]
  OBVIOUS
<1>4. /\ NextIs("relabelled") /\ resolver' = [resolver EXCEPT !.labels = labels]
      /\ derived' = Tail(derived)
      /\ source' = source /\ phase' = phase /\ line' = line /\ inSection' = inSection
  BY <1>1, <1>2 DEF InsertRelabelled
<1>5. resolver' = [tags |-> resolver.tags, names |-> resolver.names, labels |-> labels]
  BY <1>4 DEF IInv, TypeOK
<1>6. Insert(e)
  <2>1. resolver'.labels = labels
    BY <1>5
  <2> QED BY <1>1, <1>3, <2>1 DEF InsertRelabelled
<1>7. phase = "hints" /\ Tail(derived) \in Seq(Wanted) /\ Head(derived) \in ToRelabel
  BY <1>4, NextWanted
<1>8. old \in DictionaryEntry /\ Reads(old, old.orth) /\ LabelSet(text2) = LabelsOf(old)
  BY <1>1, <1>7 DEF ToRelabel, Readings
<1>9. /\ Table(labels) /\ Sound(labels) /\ Grows(resolver.labels, labels)
      /\ Id(labels, text2) \in Nat /\ Id(labels, text2) + 1 \in DOMAIN labels.texts
      /\ Text(labels, Id(labels, text2)) = text2
  <2>1. Table(resolver.labels) /\ Sound(resolver.labels)
    BY DEF IInv, TypeOK, IdsSound
  <2> QED BY <1>2, <2>1, InsertKeeps
<1>10. /\ e \in DictionaryEntry /\ e.orth = old.orth /\ e.lemma = old.lemma
       /\ e.tagId = old.tagId /\ e.nameId = old.nameId /\ e.labelsId = Id(labels, text2)
  BY <1>3, <1>8, <1>9 DEF DictionaryEntry
<1>11. /\ Grows(resolver.tags, resolver'.tags) /\ Grows(resolver.names, resolver'.names)
       /\ Grows(resolver.labels, resolver'.labels)
  BY <1>5, <1>9, GrowsItself
<1>12. Reads(e, e.orth)'
  <2>1. Identified(old) /\ Reads(old, old.orth)
    BY <1>8 DEF Reads
  <2>2. Identified(old)' /\ LabelsOf(old)' = LabelsOf(old) /\ Reads(old, old.orth)'
    BY <1>4, <1>11, <2>1, GrowthKeeps
  <2>3. LabelsOf(e)' = LabelsOf(old)
    BY <1>5, <1>8, <1>9, <1>10 DEF LabelsOf
  <2>4. Identified(e)'
    BY <1>5, <1>9, <1>10, <2>2 DEF Identified
  <2>5. Tag(e)' = Tag(old)' /\ Text(resolver'.names, e.nameId) = Text(resolver'.names, old.nameId)
    BY <1>10 DEF Tag
  <2>6. \A l : ReadFrom(old, old.orth, l)' => ReadFrom(e, e.orth, l)'
    BY <1>10, <2>2, <2>3, <2>5 DEF ReadFrom
  <2> QED BY <2>2, <2>4, <2>6 DEF Reads
<1>13. ReadingsInv' /\ Lists(byOrth)' /\ Lists(byKey)'
  BY <1>4, <1>6, <1>7, <1>10, <1>11, <1>12, InsertInv
<1> QED BY <1>4, <1>7, <1>9, <1>13, InsertHintedKeeps

LEMMA LoadKeeps == IInv /\ [Load]_dictVars => IInv'
<1> SUFFICES ASSUME IInv, [Load]_dictVars PROVE IInv'
  OBVIOUS
<1>1. CASE TagsetLine
  BY <1>1, TagsetLineKeeps
<1>2. CASE TagsetEnd
  BY <1>2, TagsetEndKeeps
<1>3. CASE CopyrightLine
  BY <1>3, CopyrightLineKeeps
<1>4. CASE MetadataLine
  BY <1>4, MetadataLineKeeps
<1>5. CASE ShortLine
  BY <1>5, ShortLineKeeps
<1>6. CASE EntryLine
  BY <1>6, EntryLineKeeps
<1>7. CASE DictionaryEnd
  BY <1>7, DictionaryEndKeeps
<1>8. CASE ApplyHints
  BY <1>8, ApplyHintsKeeps
<1>9. CASE InsertRelabelled
  BY <1>9, InsertRelabelledKeeps
<1>10. CASE InsertCombined
  BY <1>10, InsertCombinedKeeps
<1>11. CASE InsertAlias
  BY <1>11, InsertAliasKeeps
<1>12. CASE HintsEnd
  BY <1>12, HintsEndKeeps
<1>13. CASE UNCHANGED dictVars
  <2>1. /\ source' = source /\ phase' = phase /\ line' = line /\ inSection' = inSection
        /\ derived' = derived /\ resolver' = resolver
        /\ entries' = entries /\ byOrth' = byOrth /\ byKey' = byKey
    BY <1>13 DEF dictVars, loading, dictionary
  <2>2. /\ IdsSound' /\ ReadingsInv'
        /\ (Table(resolver.tags) /\ Table(resolver.names) /\ Table(resolver.labels))'
        /\ (Lists(byOrth) /\ Lists(byKey))'
        /\ \A i \in EntryLines : LineFound(i) => LineFound(i)'
    BY <2>1, SameDictionary
  <2>3. EntryLines' = EntryLines /\ (\A i : Hidden(i)' <=> Hidden(i)) /\ (Hinted' <=> Hinted)
    BY <2>1, SameLines
  <2>4. TypeOK'
    BY <2>1, <2>2 DEF IInv, TypeOK
  <2>5. Hidden(line)' <=> Hidden(line)
    BY <2>1 DEF Hidden
  <2>6. PhaseInv'
    BY <2>1, <2>3, <2>5 DEF IInv, PhaseInv
  <2>7. LinesInv'
    BY <2>1, <2>2, <2>3 DEF IInv, LinesInv
  <2> QED BY <2>2, <2>4, <2>6, <2>7 DEF IInv
<1> QED BY <1>1, <1>2, <1>3, <1>4, <1>5, <1>6, <1>7, <1>8, <1>9, <1>10, <1>11, <1>12, <1>13 DEF Load
-----------------------------------------------------------------------------
(* What follows                                                            *)

LEMMA SynthesizedFound ==
  ASSUME NEW key, NEW e, e \in ToSet(Found(byKey, key))
  PROVE  EntryEdge(e, 0, 0, e.orth) \in Synthesized(key)
<1>1. ToSet(<<>>) = {}
  BY DEF ToSet
<1>2. key \in DOMAIN byKey /\ e \in ToSet(byKey[key])
  BY <1>1 DEF Found
<1> QED BY <1>2 DEF Synthesized

LEMMA InvImplies == IInv => IdsSound /\ ReadingsFromLines /\ LinesFound
<1> SUFFICES ASSUME IInv PROVE IdsSound /\ ReadingsFromLines /\ LinesFound
  OBVIOUS
<1>1. IdsSound
  BY DEF IInv
<1>2. ReadingsFromLines
  BY DEF IInv, ReadingsInv, Reads, ReadingsFromLines
<1>3. ASSUME phase = "ready", ~Hinted, NEW i \in EntryLines
      PROVE  LET l == source.dictionary[i]
             IN \E e \in ToSet(Lookup(l.orth)) :
                  /\ e.lemma = l.lemma /\ ReadFrom(e, l.orth, l)
                  /\ EntryEdge(e, 0, 0, l.orth) \in Synthesized(l.lemma) \cap Synthesized(LemmaBase(l.lemma))
  <2> DEFINE l == source.dictionary[i]
  <2>1. i < line
    <3>1. line > Len(source.dictionary) /\ line \in Nat /\ i \in 1 .. Len(source.dictionary)
      BY <1>3 DEF IInv, PhaseInv, TypeOK, EntryLines
    <3>2. Len(source.dictionary) \in Nat
      BY SourcesAssumption DEF IInv, TypeOK
    <3> QED BY <3>1, <3>2
  <2>2. LineFound(i)
    BY <1>3, <2>1 DEF IInv, LinesInv
  <2>3. PICK e \in DictionaryEntry :
          /\ e.orth = l.orth /\ e.lemma = l.lemma
          /\ Identified(e) /\ ReadFrom(e, l.orth, l)
          /\ e \in ToSet(Found(byOrth, l.orth))
          /\ e \in ToSet(Found(byKey, l.lemma)) /\ e \in ToSet(Found(byKey, LemmaBase(l.lemma)))
    BY <2>2 DEF LineFound
  <2> HIDE DEF l
  <2>4. EntryEdge(e, 0, 0, l.orth) \in Synthesized(l.lemma) \cap Synthesized(LemmaBase(l.lemma))
    BY <2>3, SynthesizedFound
  <2>5. e \in ToSet(Lookup(l.orth))
    BY <2>3 DEF Lookup
  <2> QED BY <2>3, <2>4, <2>5 DEF l
<1>4. LinesFound
  BY <1>3 DEF LinesFound
<1> QED BY <1>1, <1>2, <1>4

(* The inductive invariant of the loader holds in every state in which a   *)
(* dictionary is read, its hints are applied and sessions ask it.          *)
THEOREM Invariant == Spec => []IInv
<1>1. Init => IInv
  BY InitInv DEF Init
<1>2. IInv /\ [Next]_vars => IInv'
  <2> SUFFICES ASSUME IInv, [Next]_vars PROVE IInv'
    OBVIOUS
  <2>1. [Load]_dictVars
    <3>1. CASE Load
      BY <3>1
    <3>2. CASE Ask
      BY <3>2 DEF Ask, Open, ResetNumbering, Analyze
    <3>3. CASE Step
      <4>1. CASE SkipSpaces
        BY <4>1 DEF SkipSpaces, Advance
      <4>2. CASE KeepSpaces
        BY <4>2 DEF KeepSpaces, Advance
      <4>3. CASE KnownJoin
        BY <4>3 DEF KnownJoin, AdvanceSegment, Advance
      <4>4. CASE UnknownSpan
        BY <4>4 DEF UnknownSpan, Advance
      <4>5. CASE OneSegment
        BY <4>5 DEF OneSegment, AdvanceSegment, Advance
      <4>6. CASE AppendSpaces
        BY <4>6 DEF AppendSpaces, AdvanceSegment, Advance
      <4>7. CASE AppendNothing
        BY <4>7 DEF AppendNothing, Advance
      <4>8. CASE AnalyzeNativeWord
        BY <4>8 DEF AnalyzeNativeWord, Advance
      <4>9. CASE Return
        BY <4>9 DEF Return
      <4> QED BY <3>3, <4>1, <4>2, <4>3, <4>4, <4>5, <4>6, <4>7, <4>8, <4>9 DEF Step
    <3>4. CASE UNCHANGED vars
      BY <3>4 DEF vars
    <3> QED BY <3>1, <3>2, <3>3, <3>4 DEF Next
  <2> QED BY <2>1, LoadKeeps
<1> QED BY <1>1, <1>2, PTL DEF Spec

(* Whatever the files say of identifiers, a text that resolves to an       *)
(* identifier is the text of it: set_tag and get_or_insert_* change the    *)
(* two halves of a table together.                                         *)
THEOREM IdentifiersSound == Spec => []IdsSound
<1>1. IInv => IdsSound
  BY InvImplies
<1> QED BY <1>1, Invariant, PTL

(* Whatever the rules hint, each entry that is found says what one line of *)
(* the dictionary says that no copyright block hides: its tag, its name,   *)
(* its set of labels, and the ends of its text and lemma.                  *)
THEOREM ReadingsHaveLines == Spec => []ReadingsFromLines
<1>1. IInv => ReadingsFromLines
  BY InvImplies
<1> QED BY <1>1, Invariant, PTL

(* Without hints, each line outside a copyright block is found by its text *)
(* and generated from its lemma and from the base of its lemma.            *)
THEOREM LinesAreFound == Spec => []LinesFound
<1>1. IInv => LinesFound
  BY InvImplies
<1> QED BY <1>1, Invariant, PTL

-----------------------------------------------------------------------------
(* Parts of sequences                                                      *)

(* A part of a sequence, between two places in it: what is after the first *)
(* place, up to the second.                                                *)
Part(s, i, j) == SubSeq(s, i + 1, j)

(* A part lists what is between its places.                                *)
LEMMA PartIs ==
  ASSUME NEW S, NEW s \in Seq(S), NEW i \in 0 .. Len(s), NEW j \in i .. Len(s)
  PROVE  /\ Part(s, i, j) \in Seq(S)
         /\ Len(Part(s, i, j)) = j - i
         /\ \A k \in 1 .. j - i : Part(s, i, j)[k] = s[i + k]
         /\ i = j => Part(s, i, j) = <<>>
         /\ i = 0 /\ j = Len(s) => Part(s, i, j) = s
<1>1. Len(s) \in Nat /\ DOMAIN s = 1 .. Len(s) /\ \A k \in 1 .. Len(s) : s[k] \in S
  OBVIOUS
<1>2. i + 1 \in Int /\ j \in Int /\ \A k \in i + 1 .. j : s[k] \in S
  BY <1>1
<1>3. /\ SubSeq(s, i + 1, j) \in Seq(S)
      /\ Len(SubSeq(s, i + 1, j)) = IF i + 1 <= j THEN j - (i + 1) + 1 ELSE 0
      /\ \A k \in 1 .. j - (i + 1) + 1 : SubSeq(s, i + 1, j)[k] = s[i + 1 + k - 1]
  BY ONLY <1>2, SubSeqProperties
<1>4. j - (i + 1) + 1 = j - i /\ (i + 1 <= j \/ j - i = 0) /\ \A k \in 1 .. j - i : i + 1 + k - 1 = i + k
  BY <1>1
<1>5. i = j => SubSeq(s, i + 1, j) = <<>>
  BY <1>2, SubSeqEmpty
<1>6. i = 0 /\ j = Len(s) => SubSeq(s, i + 1, j) = s
  BY SubSeqFull
<1> QED BY <1>3, <1>4, <1>5, <1>6 DEF Part

(* Parts that meet at a place join to the part around both.                *)
LEMMA PartsJoin ==
  ASSUME NEW S, NEW s \in Seq(S), NEW i \in 0 .. Len(s), NEW j \in i .. Len(s), NEW k \in j .. Len(s)
  PROVE  Part(s, i, j) \o Part(s, j, k) = Part(s, i, k)
<1>1. i + 1 \in 1 .. Len(s) + 1 /\ j \in i + 1 - 1 .. Len(s) /\ Len(s) \in Nat
  OBVIOUS
<1> QED BY <1>1, ConcatAdjacentSubSeq DEF Part

(* Up to the end of the first of two sequences, a part is a part of it.    *)
LEMMA PartOfFirst ==
  ASSUME NEW S, NEW s \in Seq(S), NEW t \in Seq(S), NEW i \in 0 .. Len(s), NEW j \in i .. Len(s)
  PROVE  Part(s \o t, i, j) = Part(s, i, j)
<1>1. Len(s) \in Nat /\ Len(t) \in Nat
  OBVIOUS
<1>2. CASE i = j
  BY <1>1, <1>2, SubSeqEmpty DEF Part
<1>3. CASE i # j
  <2>1. i + 1 \in 1 .. Len(s) /\ j \in 1 .. Len(s)
    BY <1>1, <1>3
  <2> QED BY <2>1, SubSeqOfConcat1 DEF Part
<1> QED BY <1>2, <1>3

(* From the end of the first of two sequences on, a part is a part of the  *)
(* second.                                                                 *)
LEMMA PartOfSecond ==
  ASSUME NEW S, NEW s \in Seq(S), NEW t \in Seq(S), NEW i \in 0 .. Len(t), NEW j \in i .. Len(t)
  PROVE  Part(s \o t, Len(s) + i, Len(s) + j) = Part(t, i, j)
<1>1. Len(s) \in Nat /\ Len(t) \in Nat
  OBVIOUS
<1>2. CASE i = j
  BY <1>1, <1>2, SubSeqEmpty DEF Part
<1>3. CASE i # j
  <2>1. /\ Len(s) + i + 1 \in Len(s) + 1 .. Len(s) + Len(t) /\ Len(s) + j \in Len(s) + 1 .. Len(s) + Len(t)
        /\ Len(s) + i + 1 - Len(s) = i + 1 /\ Len(s) + j - Len(s) = j
    BY <1>1, <1>3
  <2> QED BY <2>1, SubSeqOfConcat2 DEF Part
<1> QED BY <1>2, <1>3

-----------------------------------------------------------------------------
(* Edges that spell a text                                                 *)

(* Where the nodes stand in the text.                                      *)
Places(place, edges, from, to, t) ==
  /\ place \in [from .. to -> 0 .. Len(t)]
  /\ place[from] = 0 /\ place[to] = Len(t)
  /\ \A e \in edges :
       /\ e.start \in from .. to /\ e.end \in e.start + 1 .. to
       /\ place[e.start] <= place[e.end]
       /\ e.orth = Part(t, place[e.start], place[e.end])

(* The places of an answer are those of the text, between its nodes.       *)
LEMMA SpelledHasPlaces ==
  ASSUME NEW edges, NEW from, NEW to, NEW t
  PROVE  SpelledBy(edges, from, to, t) <=> \E place : Places(place, edges, from, to, t)
BY DEF SpelledBy, Places, Part

(* No edges and no nodes spell nothing.                                    *)
LEMMA NothingSpelled ==
  ASSUME NEW n \in Nat
  PROVE  SpelledBy({}, n, n, <<>>) /\ Reaching({}, n, n)
<1> DEFINE place == [i \in n .. n |-> 0]
<1>1. place \in [n .. n -> 0 .. 0] /\ place[n] = 0 /\ Len(<<>>) = 0
  OBVIOUS
<1> HIDE DEF place
<1>2. Places(place, {}, n, n, <<>>)
  BY <1>1 DEF Places
<1> QED BY <1>2, SpelledHasPlaces DEF Reaching

(* Edges up to a node and edges from there spell one text after the other. *)
LEMMA SpellingAppended ==
  ASSUME NEW C, NEW s \in Seq(C), NEW t \in Seq(C), NEW A, NEW B,
         NEW from \in Nat, NEW mid \in Nat, NEW to \in Nat, from <= mid, mid <= to,
         SpelledBy(A, from, mid, s), SpelledBy(B, mid, to, t)
  PROVE  SpelledBy(A \cup B, from, to, s \o t)
<1>1. PICK p : Places(p, A, from, mid, s)
  BY SpelledHasPlaces
<1>2. PICK q : Places(q, B, mid, to, t)
  BY SpelledHasPlaces
<1>3. /\ Len(s) \in Nat /\ Len(t) \in Nat /\ Len(s \o t) = Len(s) + Len(t) /\ s \o t \in Seq(C)
  OBVIOUS
<1> DEFINE w == s \o t
           place == [n \in from .. to |-> IF n <= mid THEN p[n] ELSE Len(s) + q[n]]
<1>4. \A n \in from .. mid : p[n] \in 0 .. Len(s) /\ n \in from .. to /\ place[n] = p[n]
  BY <1>1 DEF Places
<1>5. \A n \in mid .. to : q[n] \in 0 .. Len(t) /\ n \in from .. to
  BY <1>2 DEF Places
<1>6. p[mid] = Len(s) /\ q[mid] = 0 /\ p[from] = 0 /\ q[to] = Len(t)
  BY <1>1, <1>2 DEF Places
<1>7. \A n \in mid .. to : place[n] = Len(s) + q[n]
  BY <1>3, <1>5, <1>6
<1>8. place \in [from .. to -> 0 .. Len(w)]
  <2>1. \A n \in from .. to : n \in from .. mid \/ n \in mid .. to
    OBVIOUS
  <2>2. \A n \in from .. to : place[n] \in 0 .. Len(w)
    <3>1. Len(w) = Len(s) + Len(t)
      BY <1>3
    <3> HIDE DEF place, w
    <3> QED BY <1>3, <1>4, <1>5, <1>7, <2>1, <3>1
  <2> QED BY <2>2
<1> HIDE DEF place, w
<1>9. ASSUME NEW e \in A
      PROVE  /\ e.start \in from .. to /\ e.end \in e.start + 1 .. to
             /\ place[e.start] <= place[e.end]
             /\ e.orth = Part(w, place[e.start], place[e.end])
  <2>1. /\ e.start \in from .. mid /\ e.end \in e.start + 1 .. mid
        /\ p[e.start] <= p[e.end] /\ e.orth = Part(s, p[e.start], p[e.end])
    BY <1>1 DEF Places
  <2>2. e.end \in from .. mid
    BY <2>1
  <2>3. place[e.start] = p[e.start] /\ place[e.end] = p[e.end]
    BY <1>4, <2>1, <2>2
  <2>4. p[e.start] \in 0 .. Len(s) /\ p[e.end] \in p[e.start] .. Len(s)
    BY <1>4, <2>1, <2>2
  <2>5. Part(w, p[e.start], p[e.end]) = Part(s, p[e.start], p[e.end])
    BY <2>4, PartOfFirst DEF w
  <2> QED BY <2>1, <2>2, <2>3, <2>5
<1>10. ASSUME NEW e \in B
       PROVE  /\ e.start \in from .. to /\ e.end \in e.start + 1 .. to
              /\ place[e.start] <= place[e.end]
              /\ e.orth = Part(w, place[e.start], place[e.end])
  <2>1. /\ e.start \in mid .. to /\ e.end \in e.start + 1 .. to
        /\ q[e.start] <= q[e.end] /\ e.orth = Part(t, q[e.start], q[e.end])
    BY <1>2 DEF Places
  <2>2. e.end \in mid .. to /\ e.start \in from .. to
    BY <2>1
  <2>3. place[e.start] = Len(s) + q[e.start] /\ place[e.end] = Len(s) + q[e.end]
    BY <1>7, <2>1, <2>2
  <2>4. q[e.start] \in 0 .. Len(t) /\ q[e.end] \in q[e.start] .. Len(t)
    BY <1>5, <2>1, <2>2
  <2>5. Part(w, Len(s) + q[e.start], Len(s) + q[e.end]) = Part(t, q[e.start], q[e.end])
    BY <2>4, PartOfSecond DEF w
  <2>6. place[e.start] <= place[e.end]
    BY <1>3, <2>3, <2>4
  <2> QED BY <2>1, <2>2, <2>3, <2>5, <2>6
<1>11. place[from] = 0 /\ place[to] = Len(w)
  <2>1. from \in from .. mid /\ to \in mid .. to
    OBVIOUS
  <2> QED BY <1>3, <1>4, <1>6, <1>7, <2>1 DEF w
<1>12. Places(place, A \cup B, from, to, w)
  BY <1>8, <1>9, <1>10, <1>11 DEF Places
<1> QED BY <1>12, SpelledHasPlaces DEF w

(* An answer that reaches its last node, and one that goes on from there,  *)
(* reach the last node of both.                                            *)
LEMMA ReachingAppended ==
  ASSUME NEW A, NEW B, NEW from \in Nat, NEW mid \in Nat, NEW to \in Nat, from <= mid, mid <= to,
         Reaching(A, from, mid), Reaching(B, mid, to),
         \A e \in A : e.end \in from .. mid, \A e \in B : e.end \in mid .. to
  PROVE  Reaching(A \cup B, from, to)
<1> SUFFICES ASSUME NEW nodes \in SUBSET (from .. to), from \in nodes,
                    \A e \in A \cup B : e.start \in nodes => e.end \in nodes
             PROVE  to \in nodes
  BY DEF Reaching
<1> DEFINE first == nodes \cap (from .. mid)
           second == nodes \cap (mid .. to)
<1>1. mid \in first
  <2>1. from \in first /\ \A e \in A : e.start \in first => e.end \in first
    OBVIOUS
  <2> HIDE DEF first
  <2>2. first \in SUBSET (from .. mid)
    BY DEF first
  <2> QED BY <2>1, <2>2 DEF Reaching
<1>2. to \in second
  <2>1. mid \in second /\ \A e \in B : e.start \in second => e.end \in second
    BY <1>1
  <2> HIDE DEF second
  <2>2. second \in SUBSET (mid .. to)
    BY DEF second
  <2> QED BY <2>1, <2>2 DEF Reaching
<1> QED BY <1>2

(* Edges from a node to the next one, and at least one.                    *)
LEMMA SegmentSpelled ==
  ASSUME NEW C, NEW t \in Seq(C), NEW n \in Nat, NEW edges, edges # {},
         \A e \in edges : e.start = n /\ e.end = n + 1 /\ e.orth = t
  PROVE  SpelledBy(edges, n, n + 1, t) /\ Reaching(edges, n, n + 1)
<1> DEFINE place == [i \in n .. n + 1 |-> IF i = n THEN 0 ELSE Len(t)]
<1>1. Len(t) \in Nat /\ n \in n .. n + 1 /\ n + 1 \in n .. n + 1 /\ n # n + 1 /\ n + 1 \in n + 1 .. n + 1
  OBVIOUS
<1>2. place \in [n .. n + 1 -> 0 .. Len(t)] /\ place[n] = 0 /\ place[n + 1] = Len(t)
  BY <1>1
<1> HIDE DEF place
<1>3. Part(t, 0, Len(t)) = t
  BY <1>1, PartIs
<1>4. Places(place, edges, n, n + 1, t)
  BY <1>1, <1>2, <1>3 DEF Places
<1>5. Reaching(edges, n, n + 1)
  BY DEF Reaching
<1> QED BY <1>4, <1>5, SpelledHasPlaces

(* Edges whose nodes are numbered from another one.                        *)
Moved(edges, n) == {[e EXCEPT !.start = @ + n, !.end = @ + n] : e \in edges}
AreEdges(edges) == \A e \in edges : e = Edge(e.start, e.end, e.orth, e.lemma, e.tagId)

(* An edge that is moved is an edge, of the same text.                     *)
LEMMA MovedEdge ==
  ASSUME NEW n, NEW e, e = Edge(e.start, e.end, e.orth, e.lemma, e.tagId)
  PROVE  LET f == [e EXCEPT !.start = @ + n, !.end = @ + n]
         IN f = Edge(e.start + n, e.end + n, e.orth, e.lemma, e.tagId)
<1> DEFINE first == e.start
           end == e.end
           orth == e.orth
           lemma == e.lemma
           tagId == e.tagId
<1>1. e = [start |-> first, end |-> end, orth |-> orth, lemma |-> lemma, tagId |-> tagId]
  BY Zenon DEF Edge
<1> DEFINE g == [e EXCEPT !.start = first + n]
<1> HIDE DEF first, end, orth, lemma, tagId
<1>0. [e EXCEPT !.start = @ + n, !.end = @ + n] = [g EXCEPT !.end = end + n]
  BY <1>1
<1>2. g = [start |-> first + n, end |-> end, orth |-> orth, lemma |-> lemma, tagId |-> tagId]
  BY <1>1
<1>3. [g EXCEPT !.end = end + n]
        = [start |-> first + n, end |-> end + n, orth |-> orth, lemma |-> lemma, tagId |-> tagId]
  <2> HIDE DEF g
  <2> QED BY <1>2
<1> QED BY <1>0, <1>3, Zenon DEF Edge, first, end, orth, lemma, tagId

(* What the edges of a word spell does not change when their nodes are     *)
(* moved.                                                                  *)
LEMMA MovedSpells ==
  ASSUME NEW C, NEW t \in Seq(C), NEW n \in Nat, NEW m \in Nat, NEW edges, AreEdges(edges),
         SpelledBy(edges, 0, m, t), Reaching(edges, 0, m)
  PROVE  SpelledBy(Moved(edges, n), n, n + m, t) /\ Reaching(Moved(edges, n), n, n + m)
         /\ AreEdges(Moved(edges, n))
<1>1. PICK p : Places(p, edges, 0, m, t)
  BY SpelledHasPlaces
<1>2. ASSUME NEW f \in Moved(edges, n)
      PROVE  \E e \in edges : f = Edge(e.start + n, e.end + n, e.orth, e.lemma, e.tagId)
  <2>1. PICK e \in edges : f = [e EXCEPT !.start = @ + n, !.end = @ + n]
    BY DEF Moved
  <2>2. e = Edge(e.start, e.end, e.orth, e.lemma, e.tagId)
    BY DEF AreEdges
  <2>3. f = Edge(e.start + n, e.end + n, e.orth, e.lemma, e.tagId)
    BY <2>1, <2>2, MovedEdge
  <2> QED BY <2>3, Zenon
<1>3. ASSUME NEW e \in edges
      PROVE  Edge(e.start + n, e.end + n, e.orth, e.lemma, e.tagId) \in Moved(edges, n)
  <2> DEFINE f == [e EXCEPT !.start = @ + n, !.end = @ + n]
  <2>1. f \in Moved(edges, n)
    BY Zenon DEF Moved
  <2>2. e = Edge(e.start, e.end, e.orth, e.lemma, e.tagId)
    BY DEF AreEdges
  <2>3. f = Edge(e.start + n, e.end + n, e.orth, e.lemma, e.tagId)
    BY <2>2, MovedEdge
  <2> QED BY <2>1, <2>3, Zenon
<1>4. ASSUME NEW f \in Moved(edges, n)
      PROVE  \E e \in edges : f.start = e.start + n /\ f.end = e.end + n /\ f.orth = e.orth
  BY <1>2 DEF Edge
<1>5. ASSUME NEW e \in edges
      PROVE  \E f \in Moved(edges, n) : f.start = e.start + n /\ f.end = e.end + n
  BY <1>3 DEF Edge
<1>6. AreEdges(Moved(edges, n))
  BY <1>2 DEF AreEdges, Edge
<1> DEFINE place == [i \in n .. n + m |-> p[i - n]]
<1>7. \A i \in n .. n + m : i - n \in 0 .. m
  OBVIOUS
<1>8. p \in [0 .. m -> 0 .. Len(t)] /\ p[0] = 0 /\ p[m] = Len(t)
  BY <1>1 DEF Places
<1>9. place \in [n .. n + m -> 0 .. Len(t)] /\ place[n] = 0 /\ place[n + m] = Len(t)
  <2>1. n \in n .. n + m /\ n + m \in n .. n + m /\ n - n = 0 /\ n + m - n = m
    OBVIOUS
  <2> QED BY <1>7, <1>8, <2>1
<1>10. ASSUME NEW f \in Moved(edges, n)
       PROVE  /\ f.start \in n .. n + m /\ f.end \in f.start + 1 .. n + m
              /\ place[f.start] <= place[f.end]
              /\ f.orth = Part(t, place[f.start], place[f.end])
  <2>1. PICK e \in edges : f.start = e.start + n /\ f.end = e.end + n /\ f.orth = e.orth
    BY <1>4
  <2>2. /\ e.start \in 0 .. m /\ e.end \in e.start + 1 .. m
        /\ p[e.start] <= p[e.end] /\ e.orth = Part(t, p[e.start], p[e.end])
    BY <1>1 DEF Places
  <2>3. /\ f.start \in n .. n + m /\ f.end \in f.start + 1 .. n + m /\ f.end \in n .. n + m
        /\ f.start - n = e.start /\ f.end - n = e.end
    BY <2>1, <2>2
  <2>4. place[f.start] = p[e.start] /\ place[f.end] = p[e.end]
    BY <2>3
  <2> QED BY <2>1, <2>2, <2>3, <2>4
<1>11. Places(place, Moved(edges, n), n, n + m, t)
  <2> HIDE DEF place
  <2> QED BY <1>9, <1>10 DEF Places
<1>12. Reaching(Moved(edges, n), n, n + m)
  <2> SUFFICES ASSUME NEW nodes \in SUBSET (n .. n + m), n \in nodes,
                      \A f \in Moved(edges, n) : f.start \in nodes => f.end \in nodes
               PROVE  n + m \in nodes
    BY DEF Reaching
  <2> DEFINE before == {i \in 0 .. m : i + n \in nodes}
  <2>1. 0 \in before
    OBVIOUS
  <2>2. ASSUME NEW e \in edges, e.start \in before
        PROVE  e.end \in before
    <3>1. e.end \in 0 .. m
      BY <1>1 DEF Places
    <3>2. PICK f \in Moved(edges, n) : f.start = e.start + n /\ f.end = e.end + n
      BY <1>5
    <3> QED BY <2>2, <3>1, <3>2
  <2>3. m \in before
    <3> HIDE DEF before
    <3>1. before \in SUBSET (0 .. m)
      BY DEF before
    <3> QED BY <2>1, <2>2, <3>1 DEF Reaching
  <2> QED BY <2>3
<1> QED BY <1>6, <1>11, <1>12, SpelledHasPlaces

(* An answer that reaches its last node has an edge from its first node    *)
(* and one to its last.                                                    *)
LEMMA FirstAndLast ==
  ASSUME NEW n \in Nat, NEW m \in Nat, n < m, NEW edges, Reaching(edges, n, m),
         \A e \in edges : e.start \in n .. m /\ e.end \in e.start + 1 .. m
  PROVE  /\ \A e \in edges : (\A f \in edges : e.start <= f.start) <=> e.start = n
         /\ \A e \in edges : (\A f \in edges : e.end >= f.end) <=> e.end = m
<1>1. \E e \in edges : e.start = n
  <2> SUFFICES ASSUME \A e \in edges : e.start # n PROVE FALSE
    OBVIOUS
  <2>1. {n} \in SUBSET (n .. m) /\ n \in {n} /\ \A e \in edges : e.start \in {n} => e.end \in {n}
    OBVIOUS
  <2>2. m \in {n}
    BY <2>1 DEF Reaching
  <2> QED BY <2>2
<1>2. \E e \in edges : e.end = m
  <2> SUFFICES ASSUME \A e \in edges : e.end # m PROVE FALSE
    OBVIOUS
  <2> DEFINE inner == n .. m - 1
  <2>1. n \in inner /\ m \notin inner /\ inner \in SUBSET (n .. m)
    OBVIOUS
  <2>2. \A e \in edges : e.end \in inner
    OBVIOUS
  <2> HIDE DEF inner
  <2>3. m \in inner
    BY <2>1, <2>2 DEF Reaching
  <2> QED BY <2>1, <2>3
<1>3. \A e \in edges : n <= e.start /\ e.start \in Int /\ e.end \in Int /\ e.end <= m
  OBVIOUS
<1> QED BY <1>1, <1>2, <1>3

(* Spaces that are attached to the first and the last edges of a word are  *)
(* spelled before and after it.                                            *)
LEMMA WhitespaceSpells ==
  ASSUME NEW C, NEW leading \in Seq(C), NEW t \in Seq(C), NEW trailing \in Seq(C),
         NEW n \in Nat, NEW m \in Nat, n < m, NEW edges, AreEdges(edges),
         SpelledBy(edges, n, m, t), Reaching(edges, n, m)
  PROVE  /\ SpelledBy(AppendWhitespace(edges, leading, trailing), n, m, leading \o t \o trailing)
         /\ Reaching(AppendWhitespace(edges, leading, trailing), n, m)
<1> DEFINE before(e) == IF \A f \in edges : e.start <= f.start THEN leading ELSE <<>>
           after(e) == IF \A f \in edges : e.end >= f.end THEN trailing ELSE <<>>
           with(e) == [e EXCEPT !.orth = before(e) \o @ \o after(e)]
           W == leading \o t \o trailing
           new == AppendWhitespace(edges, leading, trailing)
           l == Len(leading)
           k == Len(t)
<1>1. PICK p : Places(p, edges, n, m, t)
  BY SpelledHasPlaces
<1>2. /\ l \in Nat /\ k \in Nat /\ Len(trailing) \in Nat /\ leading \o t \in Seq(C) /\ W \in Seq(C)
      /\ Len(leading \o t) = l + k /\ Len(W) = l + k + Len(trailing)
  OBVIOUS
<1>3. p \in [n .. m -> 0 .. k] /\ p[n] = 0 /\ p[m] = k
  BY <1>1 DEF Places
<1>4. \A e \in edges : /\ e.start \in n .. m /\ e.end \in e.start + 1 .. m /\ e.end \in n .. m
                       /\ p[e.start] <= p[e.end] /\ e.orth = Part(t, p[e.start], p[e.end])
  BY <1>1 DEF Places
<1>5. \A e \in edges : /\ before(e) = IF e.start = n THEN leading ELSE <<>>
                       /\ after(e) = IF e.end = m THEN trailing ELSE <<>>
  BY <1>4, FirstAndLast
<1>6. \A e \in edges : with(e).start = e.start /\ with(e).end = e.end
                       /\ with(e).orth = before(e) \o e.orth \o after(e)
  <2> SUFFICES ASSUME NEW e \in edges
               PROVE  with(e).start = e.start /\ with(e).end = e.end
                      /\ with(e).orth = before(e) \o e.orth \o after(e)
    OBVIOUS
  <2> DEFINE b == before(e)
             a == after(e)
  <2>1. e = Edge(e.start, e.end, e.orth, e.lemma, e.tagId)
    BY DEF AreEdges
  <2> HIDE DEF b, a
  <2>2. LET f == [e EXCEPT !.orth = b \o @ \o a]
        IN f.start = e.start /\ f.end = e.end /\ f.orth = b \o e.orth \o a
    BY <2>1 DEF Edge
  <2> QED BY <2>2 DEF b, a
<1>7. new = {with(e) : e \in edges}
  BY Zenon DEF AppendWhitespace
<1> HIDE DEF with, new, before, after
<1> DEFINE place == [i \in n .. m |-> IF i = n THEN 0 ELSE IF i = m THEN Len(W) ELSE l + p[i]]
<1>8. /\ place[n] = 0 /\ place[m] = Len(W)
      /\ \A i \in n .. m : i # n /\ i # m => place[i] = l + p[i]
  OBVIOUS
<1>9. place \in [n .. m -> 0 .. Len(W)]
  <2> HIDE DEF W
  <2> QED BY <1>2, <1>3
<1> HIDE DEF place
<1>10. ASSUME NEW i \in 0 .. k, NEW j \in i .. k
       PROVE  /\ Part(t, i, j) = Part(W, l + i, l + j)
              /\ l + i \in 0 .. Len(W) /\ l + j \in l + i .. Len(W)
  <2>1. Part(leading \o t, l + i, l + j) = Part(t, i, j)
    BY PartOfSecond
  <2>2. l + i \in 0 .. Len(leading \o t) /\ l + j \in l + i .. Len(leading \o t)
    BY <1>2
  <2>3. Part(W, l + i, l + j) = Part(leading \o t, l + i, l + j)
    BY <1>2, <2>2, PartOfFirst
  <2> QED BY <1>2, <2>1, <2>2, <2>3
<1>11. leading = Part(W, 0, l)
  <2>1. 0 \in 0 .. l /\ l \in 0 .. l /\ l \in 0 .. Len(leading \o t)
    BY <1>2
  <2>2. Part(leading, 0, l) = leading
    BY <2>1, PartIs
  <2>3. Part(leading \o t, 0, l) = Part(leading, 0, l)
    BY <2>1, PartOfFirst
  <2>4. Part(W, 0, l) = Part(leading \o t, 0, l)
    <3>1. 0 \in 0 .. Len(leading \o t) /\ l \in 0 .. Len(leading \o t)
      BY <1>2
    <3> QED BY <1>2, <3>1, PartOfFirst
  <2> QED BY <2>2, <2>3, <2>4
<1>12. trailing = Part(W, l + k, Len(W))
  <2>1. 0 \in 0 .. Len(trailing) /\ Len(trailing) \in 0 .. Len(trailing)
    BY <1>2
  <2>2. Part(trailing, 0, Len(trailing)) = trailing
    BY <2>1, PartIs
  <2>3. Part(W, l + k + 0, l + k + Len(trailing)) = Part(trailing, 0, Len(trailing))
    <3> DEFINE base == leading \o t
    <3>1. base \in Seq(C) /\ Len(base) = l + k
      BY <1>2
    <3> HIDE DEF base
    <3>2. Part(base \o trailing, Len(base) + 0, Len(base) + Len(trailing)) = Part(trailing, 0, Len(trailing))
      BY <2>1, <3>1, PartOfSecond
    <3> QED BY <3>1, <3>2 DEF base
  <2>4. l + k + 0 = l + k /\ l + k + Len(trailing) = Len(W)
    BY <1>2
  <2> HIDE DEF W, l, k
  <2> QED BY <2>2, <2>3, <2>4
<1>13. ASSUME NEW e \in edges
       PROVE  /\ place[e.start] <= place[e.end]
              /\ with(e).orth = Part(W, place[e.start], place[e.end])
  <2> DEFINE x == l + p[e.start]
             y == l + p[e.end]
  <2>1. p[e.start] \in 0 .. k /\ p[e.end] \in p[e.start] .. k
    BY <1>3, <1>4
  <2>2. e.orth = Part(W, x, y) /\ x \in 0 .. Len(W) /\ y \in x .. Len(W) /\ x \in l .. l + k /\ y \in x .. l + k
    <3>1. e.orth = Part(t, p[e.start], p[e.end])
      BY <1>4
    <3>2. Part(t, p[e.start], p[e.end]) = Part(W, x, y) /\ x \in 0 .. Len(W) /\ y \in x .. Len(W)
      BY <1>10, <2>1
    <3>3. x \in l .. l + k /\ y \in x .. l + k
      BY <1>2, <2>1
    <3> QED BY <3>1, <3>2, <3>3
  <2>3. before(e) \o e.orth = Part(W, place[e.start], y) /\ place[e.start] \in 0 .. x
    <3>1. CASE e.start = n
      <4>1. x = l /\ before(e) = leading /\ place[e.start] = 0
        BY <1>2, <1>3, <1>5, <1>8, <3>1
      <4>2. l \in 0 .. Len(W) /\ y \in l .. Len(W) /\ 0 \in 0 .. Len(W) /\ 0 \in 0 .. l
        BY <1>2, <2>2, <4>1
      <4> HIDE DEF x, y, W, l
      <4>3. Part(W, 0, l) \o Part(W, l, y) = Part(W, 0, y)
        BY <1>2, <4>2, PartsJoin
      <4> QED BY <1>11, <2>2, <4>1, <4>2, <4>3
    <3>2. CASE e.start # n
      <4>1. e.start # m
        BY <1>4
      <4>2. before(e) = <<>> /\ place[e.start] = x
        BY <1>4, <1>5, <1>8, <3>2, <4>1
      <4>3. Part(W, x, y) \in Seq(C)
        BY <1>2, <2>2, PartIs
      <4>4. <<>> \o Part(W, x, y) = Part(W, x, y)
        BY <4>3
      <4> QED BY <1>2, <2>2, <4>2, <4>4
    <3> QED BY <3>1, <3>2
  <2>4. Part(W, place[e.start], y) \o after(e) = Part(W, place[e.start], place[e.end])
        /\ place[e.end] \in y .. Len(W)
    <3>0. place[e.start] \in 0 .. Len(W) /\ y \in place[e.start] .. Len(W)
      BY <1>2, <2>2, <2>3
    <3>1. CASE e.end = m
      <4>1. y = l + k /\ after(e) = trailing /\ place[e.end] = Len(W)
        BY <1>2, <1>3, <1>5, <1>8, <3>1
      <4>2. Len(W) \in y .. Len(W)
        BY <1>2, <2>2
      <4> HIDE DEF x, y, W, l, k
      <4>3. Part(W, place[e.start], y) \o Part(W, y, Len(W)) = Part(W, place[e.start], Len(W))
        BY <1>2, <3>0, <4>2, PartsJoin
      <4> QED BY <1>12, <4>1, <4>2, <4>3
    <3>2. CASE e.end # m
      <4>1. e.end # n
        BY <1>4
      <4>2. after(e) = <<>> /\ place[e.end] = y
        BY <1>4, <1>5, <1>8, <3>2, <4>1
      <4>3. Part(W, place[e.start], y) \in Seq(C)
        BY <1>2, <3>0, PartIs
      <4>4. Part(W, place[e.start], y) \o <<>> = Part(W, place[e.start], y)
        BY <4>3
      <4> QED BY <1>2, <2>2, <4>2, <4>4
    <3> QED BY <3>1, <3>2
  <2> HIDE DEF W, x, y
  <2>5. place[e.start] <= place[e.end]
    BY <1>2, <2>2, <2>3, <2>4, SMTT(30)
  <2>6. with(e).orth = (before(e) \o e.orth) \o after(e)
    BY <1>6
  <2> QED BY <2>3, <2>4, <2>5, <2>6
<1>14. ASSUME NEW f \in new
       PROVE  /\ f.start \in n .. m /\ f.end \in f.start + 1 .. m
              /\ place[f.start] <= place[f.end] /\ f.orth = Part(W, place[f.start], place[f.end])
  <2>1. PICK e \in edges : f = with(e)
    BY <1>7
  <2> QED BY <1>4, <1>6, <1>13, <2>1
<1>15. Places(place, new, n, m, W)
  BY <1>8, <1>9, <1>14 DEF Places
<1>16. Reaching(new, n, m)
  <2> SUFFICES ASSUME NEW nodes \in SUBSET (n .. m), n \in nodes,
                      \A f \in new : f.start \in nodes => f.end \in nodes
               PROVE  m \in nodes
    BY DEF Reaching
  <2>1. \A e \in edges : e.start \in nodes => e.end \in nodes
    <3> SUFFICES ASSUME NEW e \in edges, e.start \in nodes PROVE e.end \in nodes
      OBVIOUS
    <3>1. with(e) \in new
      BY <1>7
    <3> QED BY <1>6, <3>1
  <2> QED BY <2>1 DEF Reaching
<1>17. SpelledBy(new, n, m, W)
  BY <1>15, SpelledHasPlaces
<1> QED BY <1>16, <1>17 DEF new

(* The numbers of the elements of a set of places: they are in order, from *)
(* 0 for the first one to the last.                                        *)
LEMMA Numbered ==
  ASSUME NEW B, NEW k \in Nat, B \subseteq 0 .. k, 0 \in B, k \in B
  PROVE  LET Index(b) == Cardinality({c \in B : c < b})
             m == Cardinality(B) - 1
         IN /\ m \in Nat
            /\ \A b \in B : Index(b) \in 0 .. m
            /\ \A b, c \in B : b < c => Index(b) < Index(c)
            /\ Index(0) = 0 /\ Index(k) = m
<1> DEFINE Below(b) == {c \in B : c < b}
           Index(b) == Cardinality(Below(b))
           m == Cardinality(B) - 1
<1>0. \A b \in B : b \in Int /\ 0 <= b /\ b <= k
  OBVIOUS
<1>1. IsFiniteSet(B) /\ Cardinality(B) \in Nat
  <2>1. IsFiniteSet(0 .. k)
    BY FS_Interval
  <2>2. IsFiniteSet(B)
    BY <2>1, FS_Subset
  <2> QED BY <2>2, FS_CardinalityType
<1>2. \A b \in B : IsFiniteSet(Below(b)) /\ Index(b) \in Nat
  <2>1. \A b \in B : Below(b) \in SUBSET B
    OBVIOUS
  <2> HIDE DEF Below
  <2> QED BY <1>1, <2>1, FS_Subset, FS_CardinalityType DEF Index
<1>3. ASSUME NEW b \in B, NEW c \in B, b < c PROVE Index(b) < Index(c)
  <2>1. Below(b) \cup {b} \in SUBSET Below(c) /\ b \notin Below(b)
    <3>1. b < c /\ ~(b < b) /\ \A d \in B : d < b => d < c
      BY <1>0, <1>3
    <3> QED BY <3>1, Zenon
  <2> HIDE DEF Below
  <2>2. Cardinality(Below(b) \cup {b}) = Cardinality(Below(b)) + 1
    BY <1>2, <2>1, FS_AddElement
  <2>3. Cardinality(Below(b) \cup {b}) <= Cardinality(Below(c))
    BY <1>2, <2>1, FS_Subset
  <2> QED BY <1>2, <2>2, <2>3 DEF Index
<1>4. Index(0) = 0
  <2>1. Below(0) = {}
    <3>1. \A c \in B : ~(c < 0)
      BY <1>0
    <3> QED BY <3>1, Zenon
  <2> QED BY <2>1, FS_EmptySet
<1>5. Index(k) = m
  <2>1. Below(k) = B \ {k}
    <3>1. \A c \in B : c < k <=> c # k
      BY <1>0
    <3> QED BY <3>1, Zenon
  <2>2. Cardinality(B \ {k}) = Cardinality(B) - 1
    BY <1>1, FS_RemoveElement
  <2> HIDE DEF Below
  <2> QED BY <2>1, <2>2
<1>6. m \in Nat
  BY <1>2, <1>5
<1>7. \A b \in B : Index(b) \in 0 .. m
  <2> SUFFICES ASSUME NEW b \in B PROVE Index(b) \in 0 .. m
    OBVIOUS
  <2>1. CASE b = k
    BY <1>5, <1>6, <2>1
  <2>2. CASE b < k
    <3>1. Index(b) \in Nat /\ Index(b) < Index(k)
      BY <1>2, <1>3, <2>2
    <3> HIDE DEF Index, m
    <3> QED BY <1>5, <1>6, <3>1
  <2> QED BY <1>0, <2>1, <2>2
<1> HIDE DEF Below
<1> QED BY <1>3, <1>4, <1>5, <1>6, <1>7 DEF Below

(* The graph of known slices of a token spells the token.                  *)
LEMMA GraphSpells ==
  ASSUME NEW token \in Seq(Characters), NEW n \in Nat
  PROVE  LET m == Cardinality(GraphBoundaries(token)) - 1
         IN m \in Nat /\ SpelledBy(InWordGraph(token, n), n, n + m, token)
<1> DEFINE B == GraphBoundaries(token)
           k == Len(token)
           m == Cardinality(B) - 1
           Index(b) == BoundaryIndex(token, b)
<1>1. k \in Nat /\ 0 \in B /\ k \in B
  BY DEF GraphBoundaries
<1>2. \A s \in KnownSlices(token) : s[1] \in 0 .. k /\ s[2] \in 0 .. k /\ s[1] < s[2]
  BY DEF KnownSlices
<1>3. B \subseteq 0 .. k
  BY <1>1, <1>2 DEF GraphBoundaries
<1>4. /\ m \in Nat
      /\ \A b \in B : Index(b) \in 0 .. m
      /\ \A b, c \in B : b < c => Index(b) < Index(c)
      /\ Index(0) = 0 /\ Index(k) = m
  <2> DEFINE Stands(b) == Cardinality({c \in B : c < b})
  <2>1. \A b : Index(b) = Stands(b)
    BY DEF BoundaryIndex
  <2> HIDE DEF B, k, Index
  <2>2. /\ m \in Nat
        /\ \A b \in B : Stands(b) \in 0 .. m
        /\ \A b, c \in B : b < c => Stands(b) < Stands(c)
        /\ Stands(0) = 0 /\ Stands(k) = m
    BY <1>1, <1>3, Numbered
  <2> HIDE DEF Stands, m
  <2> QED BY <2>1, <2>2
<1>5. \A s \in KnownSlices(token) : s[1] \in B /\ s[2] \in B
  BY DEF GraphBoundaries
<1> HIDE DEF B, k, Index, m
<1> DEFINE place == [i \in n .. n + m |->
                       IF \E b \in B : n + Index(b) = i THEN CHOOSE b \in B : n + Index(b) = i ELSE 0]
<1>6. ASSUME NEW b \in B, NEW c \in B, n + Index(b) = n + Index(c) PROVE b = c
  <2>1. ~(Index(b) < Index(c)) /\ ~(Index(c) < Index(b))
    BY <1>4, <1>6
  <2>2. ~(b < c) /\ ~(c < b)
    BY <1>4, <2>1
  <2> QED BY <1>1, <1>3, <2>2
<1>7. ASSUME NEW b \in B PROVE n + Index(b) \in n .. n + m /\ place[n + Index(b)] = b
  <2>1. n + Index(b) \in n .. n + m
    BY <1>4
  <2>2. (CHOOSE c \in B : n + Index(c) = n + Index(b)) = b
    BY <1>6
  <2> QED BY <2>1, <2>2
<1>8. place \in [n .. n + m -> 0 .. k]
  <2> SUFFICES ASSUME NEW i \in n .. n + m PROVE place[i] \in 0 .. k
    OBVIOUS
  <2>1. CASE \E b \in B : n + Index(b) = i
    BY <1>3, <2>1
  <2>2. CASE ~ \E b \in B : n + Index(b) = i
    BY <1>1, <2>2
  <2> QED BY <2>1, <2>2
<1> HIDE DEF place
<1>9. ASSUME NEW f \in InWordGraph(token, n)
      PROVE  /\ f.start \in n .. n + m /\ f.end \in f.start + 1 .. n + m
             /\ place[f.start] <= place[f.end]
             /\ f.orth = Part(token, place[f.start], place[f.end])
  <2>1. PICK s \in KnownSlices(token) : \E e \in ToSet(Lookup(Slice(token, s))) :
          f = EntryEdge(e, n + Index(s[1]), n + Index(s[2]), Slice(token, s))
    BY DEF InWordGraph, Index
  <2>2. f.start = n + Index(s[1]) /\ f.end = n + Index(s[2]) /\ f.orth = Slice(token, s)
    BY <2>1 DEF EntryEdge, Edge
  <2>3. s[1] \in B /\ s[2] \in B /\ s[1] < s[2]
    BY <1>2, <1>5
  <2>4. place[f.start] = s[1] /\ place[f.end] = s[2]
    BY <1>7, <2>2, <2>3
  <2>5. f.start \in n .. n + m /\ f.end \in f.start + 1 .. n + m
    BY <1>4, <1>7, <2>2, <2>3
  <2>6. f.orth = Part(token, s[1], s[2])
    BY <2>2 DEF Slice, Part
  <2>7. s[1] <= s[2]
    BY <1>2, <1>3, <2>3
  <2> QED BY <2>4, <2>5, <2>6, <2>7
<1>10. place[n] = 0 /\ place[n + m] = k
  <2>1. n + Index(0) = n /\ n + Index(k) = n + m
    BY <1>4
  <2> QED BY <1>1, <1>7, <2>1
<1>11. Places(place, InWordGraph(token, n), n, n + m, token)
  BY <1>8, <1>9, <1>10 DEF Places, k
<1> QED BY <1>4, <1>11, SpelledHasPlaces DEF m, B

-----------------------------------------------------------------------------
(* What the paths of the answer spell                                      *)

(* What is spelled from a node on, given what is spelled from later ones.  *)
Onward(f, n) ==
  IF n = node THEN {<<>>}
  ELSE UNION {{e.orth \o rest : rest \in f[e.end]} : e \in {e \in answer : e.start = n}}
SpellsOn(f, k) == f = [n \in k .. node |-> Onward(f, n)]

Forward == start \in Nat /\ node \in Nat /\ start <= node
           /\ \A e \in answer : e.start \in start .. node /\ e.end \in e.start + 1 .. node

(* An edge from the node and what follows it.                              *)
EdgeThen(f, n, s, e, rest) == e.start = n /\ rest \in f[e.end] /\ s = e.orth \o rest

(* A text that is spelled from a node begins with an edge from there.      *)
LEMMA OnwardElement ==
  ASSUME NEW f, NEW n, NEW s, n # node
  PROVE  s \in Onward(f, n) <=> \E e \in answer : \E rest : EdgeThen(f, n, s, e, rest)
<1> DEFINE S == {e \in answer : e.start = n}
           Of(e) == {e.orth \o rest : rest \in f[e.end]}
<1>1. Onward(f, n) = UNION {Of(e) : e \in S}
  BY Zenon DEF Onward
<1>2. \A e : s \in Of(e) <=> \E rest \in f[e.end] : s = e.orth \o rest
  BY Zenon
<1> HIDE DEF Of
<1>3. s \in Onward(f, n) <=> \E e \in S : s \in Of(e)
  BY <1>1, Zenon
<1> QED BY <1>2, <1>3, Zenon DEF EdgeThen

(* What is spelled from a node depends on what is spelled from the ends of *)
(* its edges.                                                              *)
LEMMA OnwardSame ==
  ASSUME NEW f, NEW g, NEW n, \A e \in answer : e.start = n => f[e.end] = g[e.end]
  PROVE  Onward(f, n) = Onward(g, n)
<1>1. CASE n = node
  BY <1>1, Zenon DEF Onward
<1>2. CASE n # node
  <2>1. ASSUME NEW s PROVE s \in Onward(f, n) <=> s \in Onward(g, n)
    <3>1. \A e \in answer : \A rest : EdgeThen(f, n, s, e, rest) <=> EdgeThen(g, n, s, e, rest)
      BY DEF EdgeThen
    <3> QED BY <1>2, <3>1, OnwardElement
  <2> QED BY <2>1, Zenon
<1> QED BY <1>1, <1>2

(* As edges lead forward, the texts spelled from each node are well        *)
(* defined.                                                                *)
LEMMA SpellingExists ==
  ASSUME Forward
  PROVE  \E f : SpellsOn(f, start)
<1> DEFINE bad == {d \in 0 .. node - start : ~ \E f : SpellsOn(f, node - d)}
<1>0. start \in Nat /\ node \in Nat /\ start <= node
  BY DEF Forward
<1> SUFFICES ASSUME bad # {} PROVE FALSE
  <2>1. node - start \in 0 .. node - start /\ node - (node - start) = start
    BY <1>0
  <2> QED BY <2>1
<1>1. PICK d \in bad : \A i \in bad : d <= i
  <2>1. bad \in SUBSET Nat
    BY <1>0
  <2> HIDE DEF bad
  <2> QED BY <2>1, LeastOf
<1> DEFINE k == node - d
<1>2. d \in 0 .. node - start /\ k \in start .. node /\ ~ \E f : SpellsOn(f, k)
  BY <1>0, <1>1
<1>3. CASE d = 0
  <2> DEFINE f == [n \in k .. node |-> {<<>>}]
  <2>1. k = node
    BY <1>0, <1>3
  <2>2. \A n \in k .. node : n = node
    BY <1>0, <2>1
  <2> HIDE DEF k
  <2>3. \A n \in k .. node : f[n] = Onward(f, n)
    BY <2>2 DEF Onward
  <2>4. f = [n \in k .. node |-> f[n]]
    OBVIOUS
  <2> HIDE DEF f
  <2>5. SpellsOn(f, k)
    BY <2>3, <2>4, Zenon DEF SpellsOn
  <2> QED BY <1>2, <2>5
<1>4. CASE d # 0
  <2>1. d - 1 \in 0 .. node - start /\ node - (d - 1) = k + 1 /\ ~(d <= d - 1)
    BY <1>0, <1>2, <1>4
  <2>2. d - 1 \notin bad
    <3> HIDE DEF bad
    <3> QED BY <1>1, <2>1
  <2>3. PICK g : SpellsOn(g, k + 1)
    BY <2>1, <2>2
  <2> DEFINE f == [n \in k .. node |-> IF n = k THEN Onward(g, k) ELSE g[n]]
  <2>4. \A n \in k .. node : n = k \/ n \in k + 1 .. node
    BY <1>0, <1>2
  <2>5. \A n \in k + 1 .. node : n \in k .. node /\ n # k
    BY <1>0, <1>2
  <2> HIDE DEF k
  <2>6. \A n \in k + 1 .. node : f[n] = g[n]
    BY <2>5
  <2>7. \A n \in k .. node : \A e \in answer : e.start = n => e.end \in k + 1 .. node
    BY <1>0, <1>2 DEF Forward
  <2>8. \A n \in k .. node : Onward(f, n) = Onward(g, n)
    <3> HIDE DEF f
    <3> QED BY <2>6, <2>7, OnwardSame
  <2>9. \A n \in k .. node : f[n] = Onward(g, n)
    <3> SUFFICES ASSUME NEW n \in k .. node PROVE f[n] = Onward(g, n)
      OBVIOUS
    <3>1. CASE n = k
      BY <3>1
    <3>2. CASE n # k
      <4>1. n \in k + 1 .. node
        BY <2>4, <3>2
      <4>2. g[n] = Onward(g, n)
        BY <2>3, <4>1, Zenon DEF SpellsOn
      <4> QED BY <2>6, <4>1, <4>2
    <3> QED BY <3>1, <3>2
  <2>10. f = [n \in k .. node |-> f[n]]
    OBVIOUS
  <2> HIDE DEF f
  <2>11. SpellsOn(f, k)
    <3>1. \A n \in k .. node : f[n] = Onward(f, n)
      BY <2>8, <2>9
    <3> QED BY <2>10, <3>1, Zenon DEF SpellsOn
  <2> QED BY <1>2, <2>11
<1> QED BY <1>3, <1>4

(* The recursive function of Spellings is one of these.                    *)
LEMMA SpellingsIs ==
  ASSUME Forward
  PROVE  \E f : SpellsOn(f, start) /\ Spellings = f[start]
<1> DEFINE f == CHOOSE f : SpellsOn(f, start)
<1>1. SpellsOn(f, start)
  BY SpellingExists
<1>2. Spellings = f[start]
  BY DEF Spellings, SpellsOn, Onward
<1> HIDE DEF f
<1> QED BY <1>1, <1>2

(* Each path spells the text between the places of its ends.               *)
LEMMA PathsSpell ==
  ASSUME NEW C, NEW t \in Seq(C), start \in Nat, node \in Nat, start <= node,
         SpelledBy(answer, start, node, t)
  PROVE  /\ Forward
         /\ Spellings \subseteq {t}
         /\ Reaching(answer, start, node) => Spellings # {}
<1>1. PICK p : Places(p, answer, start, node, t)
  BY SpelledHasPlaces
<1>2. Forward
  BY <1>1 DEF Forward, Places
<1>3. PICK f : SpellsOn(f, start) /\ Spellings = f[start]
  BY <1>2, SpellingsIs
<1>4. \A n \in start .. node : f[n] = Onward(f, n)
  BY <1>3, Zenon DEF SpellsOn
<1>5. p \in [start .. node -> 0 .. Len(t)] /\ p[start] = 0 /\ p[node] = Len(t)
  BY <1>1 DEF Places
<1>6. start \in start .. node /\ node \in start .. node /\ Len(t) \in Nat
  OBVIOUS
<1> DEFINE Rest(n) == Part(t, p[n], Len(t))
           bad == {d \in 0 .. node - start : ~(f[node - d] \subseteq {Rest(node - d)})}
<1>7. bad = {}
  <2> SUFFICES ASSUME bad # {} PROVE FALSE
    OBVIOUS
  <2>1. PICK d \in bad : \A i \in bad : d <= i
    <3>1. bad \in SUBSET Nat
      OBVIOUS
    <3> HIDE DEF bad
    <3> QED BY <3>1, LeastOf
  <2> DEFINE n == node - d
  <2>2. d \in 0 .. node - start /\ n \in start .. node /\ ~(f[n] \subseteq {Rest(n)})
    BY <2>1
  <2>3. CASE n = node
    <3>1. f[n] = {<<>>}
      BY <1>4, <2>2, <2>3 DEF Onward
    <3>2. Rest(n) = <<>>
      BY <1>5, <1>6, <2>3, PartIs
    <3> QED BY <2>2, <3>1, <3>2
  <2>4. CASE n # node
    <3>1. PICK s \in f[n] : s # Rest(n)
      BY <2>2
    <3>2. f[n] = Onward(f, n)
      BY <1>4, <2>2
    <3>3. PICK e \in answer : \E rest : EdgeThen(f, n, s, e, rest)
      <4> HIDE DEF n
      <4> QED BY <2>4, <3>1, <3>2, OnwardElement
    <3>4. PICK rest : EdgeThen(f, n, s, e, rest)
      BY <3>3
    <3>5. e.start = n /\ rest \in f[e.end] /\ s = e.orth \o rest
      BY <3>4 DEF EdgeThen
    <3>6. /\ e.end \in n + 1 .. node /\ p[n] <= p[e.end]
          /\ e.orth = Part(t, p[n], p[e.end])
      <4> HIDE DEF n
      <4> QED BY <1>1, <3>5 DEF Places
    <3> DEFINE i == node - e.end
    <3>7. i \in 0 .. node - start /\ node - i = e.end /\ ~(d <= i) /\ e.end \in start .. node
      BY <2>2, <3>6
    <3>8. i \notin bad
      <4> HIDE DEF bad, i, n
      <4> QED BY <2>1, <3>7
    <3>9. f[e.end] \subseteq {Rest(e.end)}
      <4> HIDE DEF i, n
      <4>1. f[node - i] \subseteq {Rest(node - i)}
        BY <3>7, <3>8
      <4> QED BY <3>7, <4>1
    <3>10. p[n] \in 0 .. Len(t) /\ p[e.end] \in p[n] .. Len(t) /\ Len(t) \in p[e.end] .. Len(t)
      BY <1>5, <1>6, <2>2, <3>6, <3>7
    <3>11. Part(t, p[n], p[e.end]) \o Part(t, p[e.end], Len(t)) = Part(t, p[n], Len(t))
      BY <3>10, PartsJoin
    <3> QED BY <3>1, <3>5, <3>6, <3>9, <3>11
  <2> QED BY <2>3, <2>4
<1>8. Spellings \subseteq {t}
  <2>1. node - start \in 0 .. node - start /\ node - (node - start) = start
    OBVIOUS
  <2>2. f[start] \subseteq {Rest(start)}
    BY <1>7, <2>1
  <2>3. Rest(start) = t
    BY <1>5, <1>6, PartIs
  <2> QED BY <1>3, <2>2, <2>3
<1>9. ASSUME Reaching(answer, start, node), Spellings = {} PROVE FALSE
  <2> DEFINE dead == {n \in start .. node : f[n] = {}}
  <2>1. start \in dead
    BY <1>3, <1>6, <1>9
  <2>2. ASSUME NEW e \in answer, e.start \in dead PROVE e.end \in dead
    <3>1. e.start # node /\ e.end \in start .. node
      BY <1>2 DEF Forward
    <3>2. f[e.start] = {}
      BY <2>2
    <3>3. f[e.start] = Onward(f, e.start)
      BY <1>4, <2>2
    <3>4. ASSUME NEW rest \in f[e.end] PROVE e.orth \o rest \in f[e.start]
      <4> DEFINE s == e.orth \o rest
      <4>1. EdgeThen(f, e.start, s, e, rest)
        BY DEF EdgeThen
      <4> HIDE DEF s
      <4> QED BY <3>1, <3>3, <4>1, OnwardElement DEF s
    <3> QED BY <3>1, <3>2, <3>4
  <2>3. dead \in SUBSET (start .. node)
    OBVIOUS
  <2> HIDE DEF dead
  <2>4. node \in dead
    BY <1>9, <2>1, <2>2, <2>3 DEF Reaching
  <2>5. f[node] = {<<>>}
    BY <1>4, <1>6 DEF Onward
  <2> QED BY <2>4, <2>5 DEF dead
<1> QED BY <1>2, <1>8, <1>9

-----------------------------------------------------------------------------
(* The pieces of a text                                                    *)

(* The ranks of the elements of a set of numbers.                          *)
LEMMA Ranked ==
  ASSUME NEW k \in Nat, NEW S, S \subseteq 1 .. k
  PROVE  LET RankOf(i) == Cardinality({j \in S : j <= i})
             m == Cardinality(S)
         IN /\ m \in Nat
            /\ \A i \in S : RankOf(i) \in 1 .. m
            /\ \A i, j \in S : i < j => RankOf(i) < RankOf(j)
            /\ \A r \in 1 .. m : \E i \in S : RankOf(i) = r
<1> DEFINE UpTo(i) == {j \in S : j <= i}
           RankOf(i) == Cardinality(UpTo(i))
           m == Cardinality(S)
<1>0. \A i \in S : i \in Int /\ 1 <= i /\ i <= k
  OBVIOUS
<1>1. IsFiniteSet(S) /\ m \in Nat
  <2>1. IsFiniteSet(1 .. k)
    BY FS_Interval
  <2>2. IsFiniteSet(S)
    BY <2>1, FS_Subset
  <2> QED BY <2>2, FS_CardinalityType
<1>2. \A i \in S : IsFiniteSet(UpTo(i)) /\ RankOf(i) \in Nat /\ RankOf(i) <= m
  <2>1. \A i \in S : UpTo(i) \in SUBSET S
    OBVIOUS
  <2> HIDE DEF UpTo
  <2> QED BY <1>1, <2>1, FS_Subset, FS_CardinalityType DEF RankOf
<1>3. \A i \in S : RankOf(i) # 0
  <2> SUFFICES ASSUME NEW i \in S, RankOf(i) = 0 PROVE FALSE
    OBVIOUS
  <2>1. UpTo(i) = {}
    BY <1>2, FS_EmptySet
  <2>2. i <= i
    BY <1>0
  <2> QED BY <2>1, <2>2
<1>4. ASSUME NEW i \in S, NEW j \in S, i < j PROVE RankOf(i) < RankOf(j)
  <2>1. UpTo(i) \cup {j} \in SUBSET UpTo(j) /\ j \notin UpTo(i)
    <3>1. j <= j /\ ~(j <= i) /\ \A d \in S : d <= i => d <= j
      BY <1>0, <1>4
    <3> QED BY <3>1, Zenon
  <2> HIDE DEF UpTo
  <2>2. Cardinality(UpTo(i) \cup {j}) = Cardinality(UpTo(i)) + 1
    BY <1>2, <2>1, FS_AddElement
  <2>3. Cardinality(UpTo(i) \cup {j}) <= Cardinality(UpTo(j))
    BY <1>2, <2>1, FS_Subset
  <2> QED BY <1>2, <2>2, <2>3 DEF RankOf
<1> HIDE DEF UpTo, RankOf
<1>5. \A i \in S : RankOf(i) \in 1 .. m
  <2> HIDE DEF m
  <2> QED BY <1>1, <1>2, <1>3
<1>6. \A r \in 1 .. m : \E i \in S : RankOf(i) = r
  <2> DEFINE f == [i \in S |-> RankOf(i)]
  <2>1. f \in [S -> 1 .. m]
    <3> HIDE DEF m
    <3> QED BY <1>5
  <2>2. \A i, j \in S : f[i] = f[j] => i = j
    <3> SUFFICES ASSUME NEW i \in S, NEW j \in S, RankOf(i) = RankOf(j) PROVE i = j
      OBVIOUS
    <3>1. ~(RankOf(i) < RankOf(j)) /\ ~(RankOf(j) < RankOf(i))
      BY <1>2
    <3>2. ~(i < j) /\ ~(j < i)
      BY <1>4, <3>1
    <3> QED BY <1>0, <3>2
  <2>3. f \in Injection(S, 1 .. m)
    <3> HIDE DEF f, m
    <3> QED BY <2>1, <2>2 DEF Injection, IsInjective
  <2>4. IsFiniteSet(1 .. m) /\ Cardinality(1 .. m) = m
    <3> HIDE DEF m
    <3> QED BY <1>1, FS_Interval
  <2>5. f \in Surjection(S, 1 .. m)
    <3> HIDE DEF f
    <3> QED BY <2>3, <2>4, FS_Injection
  <2>6. \A r \in 1 .. m : \E i \in S : f[i] = r
    <3> HIDE DEF f, m
    <3> QED BY <2>5 DEF Surjection
  <2> QED BY <2>6
<1> HIDE DEF m
<1> QED BY <1>1, <1>4, <1>5, <1>6 DEF UpTo, RankOf, m

(* Where the pieces begin, and where the text ends.                        *)
Cuts(first, t, cuts, pieces) ==
  LET n == Len(pieces) IN
  /\ n \in Nat /\ pieces = [k \in 1 .. n |-> pieces[k]]
  /\ first \in [1 .. n + 1 -> 1 .. Len(t) + 1]
  /\ first[1] = 1 /\ first[n + 1] = Len(t) + 1
  /\ \A k \in 1 .. n : first[k] < first[k + 1] /\ pieces[k] = SubSeq(t, first[k], first[k + 1] - 1)
  /\ \A k \in 2 .. n : first[k] \in cuts
  /\ \A i \in cuts \cap DOMAIN t : \E k \in 1 .. n : first[k] = i

(* The least of the numbers of a set.                                      *)
LEMMA LeastIs ==
  ASSUME NEW S, NEW x \in S, x \in Int, \A y \in S : y \in Int /\ x <= y
  PROVE  Min(S) = x
<1>1. \A y \in S : (\A z \in S : y <= z) => y = x
  BY SMT
<1> QED BY <1>1 DEF Min

(* The least of one number.                                                *)
LEMMA OnlyIsLeast ==
  ASSUME NEW x \in Int
  PROVE  Min({x}) = x
<1>1. x \in {x} /\ \A y \in {x} : y \in Int /\ x <= y
  OBVIOUS
<1> DEFINE S == {x}
<1> HIDE DEF S
<1>2. Min(S) = x
  BY <1>1, LeastIs DEF S
<1> QED BY <1>2 DEF S

(* Pieces are a text between its cuts, each piece from one cut to the      *)
(* next.                                                                   *)
LEMMA PiecesCut ==
  ASSUME NEW C, NEW t \in Seq(C), NEW cuts
  PROVE  \E first : Cuts(first, t, cuts, Pieces(t, cuts))
<1> DEFINE starts == (cuts \cup {1}) \cap DOMAIN t
           len == Len(t)
           RankOf(i) == Cardinality({j \in starts : j <= i})
           m == Cardinality(starts)
           Start(k) == CHOOSE i \in starts : RankOf(i) = k
           Later(i) == {j \in starts : j > i} \cup {len + 1}
           End(i) == Min(Later(i)) - 1
<1>1. len \in Nat /\ DOMAIN t = 1 .. len /\ starts \subseteq 1 .. len
  OBVIOUS
<1>2. Pieces(t, cuts) = [k \in 1 .. m |-> SubSeq(t, Start(k), End(Start(k)))]
  BY DEF Pieces
<1>3. /\ m \in Nat
      /\ \A i \in starts : RankOf(i) \in 1 .. m
      /\ \A i, j \in starts : i < j => RankOf(i) < RankOf(j)
      /\ \A r \in 1 .. m : \E i \in starts : RankOf(i) = r
  <2> HIDE DEF starts, len
  <2> QED BY <1>1, Ranked
<1>4. \A i \in starts : i \in Int /\ 1 <= i /\ i <= len
  BY <1>1
<1>5. (starts = {} => len = 0 /\ m = 0) /\ (len # 0 => 1 \in starts)
  <2>1. len # 0 => 1 \in starts
    BY <1>1
  <2>2. starts = {} => m = 0
    BY FS_EmptySet
  <2> QED BY <2>1, <2>2
<1>7. \A i \in cuts \cap DOMAIN t : i \in starts
  OBVIOUS
<1>8. \A i \in starts : i # 1 => i \in cuts
  OBVIOUS
<1>. len \in Nat
  BY <1>1
<1> HIDE DEF starts, len, RankOf, m
<1>6. m = 0 => starts = {}
  <2> SUFFICES ASSUME m = 0, NEW i \in starts PROVE FALSE
    OBVIOUS
  <2>1. RankOf(i) \in 1 .. m
    BY <1>3
  <2> QED BY <2>1
<1>9. \A k \in 1 .. m : Start(k) \in starts /\ RankOf(Start(k)) = k
  <2> SUFFICES ASSUME NEW k \in 1 .. m PROVE Start(k) \in starts /\ RankOf(Start(k)) = k
    OBVIOUS
  <2>1. \E i \in starts : RankOf(i) = k
    BY <1>3
  <2> QED BY <2>1
<1> HIDE DEF Start
<1>10. ASSUME NEW i \in starts, NEW j \in starts PROVE RankOf(i) < RankOf(j) => i < j
  <2>1. CASE j < i
    <3>1. RankOf(j) < RankOf(i)
      BY <1>3, <2>1
    <3> QED BY <1>3, <3>1
  <2>2. CASE i = j
    BY <1>3, <2>2
  <2> QED BY <1>4, <2>1, <2>2
<1>11. \A i \in starts : i = Start(RankOf(i))
  <2> SUFFICES ASSUME NEW i \in starts PROVE i = Start(RankOf(i))
    OBVIOUS
  <2>1. RankOf(i) \in 1 .. m
    BY <1>3
  <2>2. Start(RankOf(i)) \in starts /\ RankOf(Start(RankOf(i))) = RankOf(i)
    BY <1>9, <2>1
  <2>3. ~(RankOf(i) < RankOf(Start(RankOf(i)))) /\ ~(RankOf(Start(RankOf(i))) < RankOf(i))
    BY <2>1, <2>2
  <2> DEFINE j == Start(RankOf(i))
  <2>4. j \in starts /\ ~(RankOf(i) < RankOf(j)) /\ ~(RankOf(j) < RankOf(i))
    BY <2>2, <2>3
  <2> HIDE DEF j
  <2>5. ~(i < j) /\ ~(j < i)
    BY <1>3, <2>4
  <2>6. i = j
    BY <1>4, <2>4, <2>5
  <2> QED BY <2>6 DEF j
<1> DEFINE first == [k \in 1 .. m + 1 |-> IF k <= m THEN Start(k) ELSE len + 1]
<1>12. /\ \A k \in 1 .. m : k \in 1 .. m + 1 /\ first[k] = Start(k)
       /\ first[m + 1] = len + 1
  BY <1>3
<1>13. \A k \in 1 .. m + 1 : k \in 1 .. m \/ k = m + 1
  BY <1>3
<1>14. first \in [1 .. m + 1 -> 1 .. len + 1]
  <2> SUFFICES ASSUME NEW k \in 1 .. m + 1 PROVE (IF k <= m THEN Start(k) ELSE len + 1) \in 1 .. len + 1
    OBVIOUS
  <2>1. CASE k <= m
    <3>1. k \in 1 .. m
      BY <1>3, <2>1
    <3>2. Start(k) \in starts
      BY <1>9, <3>1
    <3> DEFINE s == Start(k)
    <3> HIDE DEF s
    <3>3. s \in Int /\ 1 <= s /\ s <= len
      BY <1>4, <3>2 DEF s
    <3>4. s \in 1 .. len + 1
      BY <3>3
    <3> QED BY <2>1, <3>4 DEF s
  <2>2. CASE ~(k <= m)
    BY <2>2
  <2> QED BY <2>1, <2>2
<1> HIDE DEF first
<1>15. first[1] = 1
  <2>1. CASE m = 0
    BY <1>5, <1>6, <1>12, <2>1
  <2>2. CASE m # 0
    <3>1. 1 \in 1 .. m /\ starts # {}
      BY <1>3, <1>5, <2>2
    <3>2. len # 0
      <4>1. PICK i \in starts : TRUE
        BY <3>1
      <4> QED BY <1>4, <4>1
    <3>3. 1 \in starts
      BY <1>5, <3>2
    <3>4. Start(1) \in starts /\ RankOf(Start(1)) = 1
      BY <1>9, <3>1
    <3>5. ~(RankOf(1) < RankOf(Start(1)))
      BY <1>3, <3>3, <3>4
    <3>6. ~(1 < Start(1))
      BY <1>3, <3>3, <3>4, <3>5
    <3>7. Start(1) = 1
      BY <1>4, <3>4, <3>6
    <3> QED BY <1>12, <3>1, <3>7
  <2> QED BY <2>1, <2>2
<1>16. ASSUME NEW k \in 1 .. m
       PROVE  first[k] < first[k + 1] /\ End(Start(k)) = first[k + 1] - 1
  <2>1. Start(k) \in starts /\ RankOf(Start(k)) = k /\ first[k] = Start(k)
    BY <1>9, <1>12
  <2>2. \A j \in Later(Start(k)) : j \in Int
    BY <1>1, <1>4
  <2>3. CASE k = m
    <3>1. \A j \in starts : ~(j > Start(k))
      <4> SUFFICES ASSUME NEW j \in starts, Start(k) < j PROVE FALSE
        BY <1>4, <2>1
      <4>1. RankOf(Start(k)) < RankOf(j)
        BY <1>3, <2>1
      <4> QED BY <1>3, <2>1, <2>3, <4>1
    <3>2. Later(Start(k)) = {len + 1}
      BY <3>1, Zenon
    <3> DEFINE x == len + 1
    <3>3. x \in Int /\ x \in {x} /\ \A j \in {x} : j \in Int /\ x <= j
      OBVIOUS
    <3> HIDE DEF x
    <3>4. Min({x}) = x
      BY <3>3, OnlyIsLeast
    <3>5. first[k + 1] = len + 1
      BY <1>12, <2>3
    <3>6. End(Start(k)) = x - 1
      <4>1. Later(Start(k)) = {x}
        BY <3>2 DEF x
      <4> HIDE DEF Later
      <4> QED BY <3>4, <4>1
    <3>7. Start(k) < x
      <4> DEFINE s == Start(k)
      <4> HIDE DEF s
      <4>1. s \in Int /\ s <= len
        BY <1>4, <2>1 DEF s
      <4>2. s < x
        BY <4>1 DEF x
      <4> QED BY <4>2 DEF s
    <3> HIDE DEF End
    <3> QED BY <2>1, <3>5, <3>6, <3>7 DEF x
  <2>4. CASE k # m
    <3>0. k + 1 \in 1 .. m /\ k \in Nat
      BY <1>3, <2>4
    <3> DEFINE x == Start(k + 1)
    <3>1. x \in starts /\ RankOf(x) = k + 1 /\ first[k + 1] = x
      BY <1>9, <1>12, <3>0
    <3> HIDE DEF x
    <3>2. Start(k) < x
      <4>1. RankOf(Start(k)) < RankOf(x)
        BY <2>1, <3>0, <3>1
      <4> QED BY <1>10, <2>1, <3>1, <4>1
    <3>3. x \in Later(Start(k)) /\ x \in Int
      BY <1>4, <2>1, <3>1, <3>2
    <3>4. \A j \in Later(Start(k)) : x <= j
      <4> SUFFICES ASSUME NEW j \in Later(Start(k)) PROVE x <= j
        OBVIOUS
      <4>1. CASE j = len + 1
        BY <1>1, <1>4, <3>1, <4>1
      <4>2. CASE j \in starts /\ Start(k) < j
        <5>1. RankOf(Start(k)) < RankOf(j) /\ RankOf(j) \in 1 .. m
          BY <1>3, <2>1, <4>2
        <5>2. ~(RankOf(j) < RankOf(x))
          BY <2>1, <3>0, <3>1, <5>1
        <5>3. ~(j < x)
          BY <1>3, <3>1, <4>2, <5>2
        <5> QED BY <1>4, <3>1, <4>2, <5>3
      <4>3. j = len + 1 \/ (j \in starts /\ j > Start(k))
        BY Zenon
      <4>4. j \in starts /\ j > Start(k) => Start(k) < j
        BY <1>4, <2>1
      <4> QED BY <4>1, <4>2, <4>3, <4>4
    <3> HIDE DEF Later
    <3>5. Min(Later(Start(k))) = x
      BY <2>2, <3>3, <3>4, LeastIs
    <3> QED BY <2>1, <3>1, <3>2, <3>5
  <2> QED BY <2>3, <2>4
<1>17. \A k \in 2 .. m : first[k] \in cuts
  <2> SUFFICES ASSUME NEW k \in 2 .. m PROVE first[k] \in cuts
    OBVIOUS
  <2>1. k \in 1 .. m /\ 1 \in 1 .. m /\ 1 < k
    BY <1>3
  <2>2. Start(k) \in starts /\ Start(1) \in starts /\ RankOf(Start(k)) = k /\ RankOf(Start(1)) = 1
    BY <1>9, <2>1
  <2>3. Start(1) < Start(k)
    BY <1>10, <2>1, <2>2
  <2>4. Start(1) = 1 /\ first[k] = Start(k)
    BY <1>12, <1>15, <2>1
  <2>5. Start(k) # 1
    BY <1>4, <2>2, <2>3, <2>4
  <2> QED BY <1>8, <2>2, <2>4, <2>5
<1>18. \A i \in cuts \cap DOMAIN t : \E k \in 1 .. m : first[k] = i
  <2> SUFFICES ASSUME NEW i \in cuts \cap DOMAIN t PROVE \E k \in 1 .. m : first[k] = i
    OBVIOUS
  <2>1. i \in starts
    BY <1>7
  <2>2. RankOf(i) \in 1 .. m
    BY <1>3, <2>1
  <2>3. first[RankOf(i)] = i
    BY <1>11, <1>12, <2>1, <2>2
  <2> QED BY <2>2, <2>3
<1> DEFINE P == Pieces(t, cuts)
<1>19. DOMAIN P = 1 .. m /\ \A k \in 1 .. m : P[k] = SubSeq(t, first[k], first[k + 1] - 1)
  <2> SUFFICES ASSUME NEW k \in 1 .. m PROVE SubSeq(t, Start(k), End(Start(k))) = SubSeq(t, first[k], first[k + 1] - 1)
    BY <1>2
  <2>1. first[k] = Start(k) /\ End(Start(k)) = first[k + 1] - 1
    BY <1>12, <1>16
  <2> HIDE DEF End
  <2> QED BY <2>1
<1>20. Len(P) = m /\ P = [k \in 1 .. m |-> P[k]]
  <2> HIDE DEF End
  <2>1. Len(P) = m
    BY <1>2, <1>3
  <2> DEFINE Q(k) == SubSeq(t, Start(k), End(Start(k)))
  <2>2. P = [k \in 1 .. m |-> Q(k)]
    BY <1>2
  <2> HIDE DEF P, Q
  <2>3. P = [k \in 1 .. m |-> P[k]]
    BY <2>2
  <2> QED BY <2>1, <2>3
<1> HIDE DEF P, End
<1>21. Cuts(first, t, cuts, P)
  BY <1>3, <1>12, <1>14, <1>15, <1>16, <1>17, <1>18, <1>19, <1>20 DEF Cuts, len
<1> QED BY <1>21 DEF P

-----------------------------------------------------------------------------
(* Segments joined                                                         *)

(* Two lists of sequences one after another.                               *)
LEMMA FlattenConcat ==
  ASSUME NEW S, NEW a \in Seq(Seq(S)), NEW b \in Seq(Seq(S))
  PROVE  FlattenSeq(a \o b) = FlattenSeq(a) \o FlattenSeq(b)
<1> DEFINE c == a \o b
           k == Len(a)
<1>1. FlattenSeq(a) \in Seq(S) /\ FlattenSeq(b) \in Seq(S)
  BY FlattenElements
<1>2. CASE b = <<>>
  <2>1. a \o b = a /\ FlattenSeq(b) = <<>>
    <3>1. a \o <<>> = a
      BY ConcatEmptySeq
    <3>2. FlattenSeq(<<>>) = <<>>
      BY DEF FlattenSeq
    <3> QED BY <1>2, <3>1, <3>2
  <2>2. FlattenSeq(a) \o <<>> = FlattenSeq(a)
    BY <1>1, ConcatEmptySeq
  <2>3. FlattenSeq(b) = <<>>
    BY <2>1
  <2> QED BY <2>1, <2>2, <2>3
<1>3. CASE a = <<>>
  <2>1. <<>> \o b = b /\ FlattenSeq(<<>>) = <<>>
    <3>1. <<>> \o b = b
      BY ConcatEmptySeq
    <3>2. FlattenSeq(<<>>) = <<>>
      BY DEF FlattenSeq
    <3> QED BY <3>1, <3>2
  <2>2. <<>> \o FlattenSeq(b) = FlattenSeq(b)
    BY <1>1, ConcatEmptySeq
  <2> QED BY <1>3, <2>1, <2>2
<1>4. CASE a # <<>> /\ b # <<>>
  <2>1. /\ c \in Seq(Seq(S)) /\ k \in Nat /\ k # 0 /\ Len(b) \in Nat /\ Len(b) # 0 /\ Len(c) = k + Len(b)
        /\ \A i \in 1 .. k : c[i] = a[i]
        /\ \A i \in 1 .. Len(b) : c[k + i] = b[i]
        /\ c # <<>>
    BY <1>4
  <2> HIDE DEF c
  <2>2. PICK f : Flattens(f, a, Len(a)) /\ FlattenSeq(a) = f[Len(a)]
    BY <1>4, FlattenIs
  <2>3. PICK g : Flattens(g, b, Len(b)) /\ FlattenSeq(b) = g[Len(b)]
    BY <1>4, FlattenIs
  <2>4. PICK h : Flattens(h, c, Len(c)) /\ FlattenSeq(c) = h[Len(c)]
    BY <2>1, FlattenIs
  <2>5. \A i \in 1 .. k : f[i] = IF i = 1 THEN a[i] ELSE f[i - 1] \o a[i]
    BY <2>2 DEF Flattens
  <2>6. \A i \in 1 .. Len(b) : g[i] = IF i = 1 THEN b[i] ELSE g[i - 1] \o b[i]
    BY <2>3 DEF Flattens
  <2>7. \A i \in 1 .. k + Len(b) : h[i] = IF i = 1 THEN c[i] ELSE h[i - 1] \o c[i]
    BY <2>1, <2>4 DEF Flattens
  <2> HIDE DEF k
  <2>8. \A i \in 1 .. k : h[i] = f[i]
    <3> DEFINE bad == {i \in 1 .. k : h[i] # f[i]}
    <3> SUFFICES ASSUME bad # {} PROVE FALSE
      OBVIOUS
    <3>1. PICK i \in bad : \A j \in bad : i <= j
      <4>1. bad \in SUBSET Nat
        BY <2>1
      <4> HIDE DEF bad
      <4> QED BY <4>1, LeastOf
    <3>2. i \in 1 .. k /\ h[i] # f[i] /\ i \in 1 .. k + Len(b)
      BY <2>1, <3>1
    <3>3. i # 1 => i - 1 \in 1 .. k /\ h[i - 1] = f[i - 1]
      <4> SUFFICES ASSUME i # 1 PROVE i - 1 \in 1 .. k /\ h[i - 1] = f[i - 1]
        OBVIOUS
      <4>1. i - 1 \in 1 .. k /\ ~(i <= i - 1)
        BY <2>1, <3>2
      <4>2. i - 1 \notin bad
        <5> HIDE DEF bad
        <5> QED BY <3>1, <4>1
      <4> QED BY <4>1, <4>2
    <3> QED BY <2>1, <2>5, <2>7, <3>2, <3>3
  <2>9. \A i \in 1 .. Len(b) : g[i] \in Seq(S) /\ h[k + i] = f[k] \o g[i]
    <3> DEFINE Good(i) == g[i] \in Seq(S) /\ h[k + i] = f[k] \o g[i]
               bad == {i \in 1 .. Len(b) : ~Good(i)}
    <3> SUFFICES ASSUME bad # {} PROVE FALSE
      OBVIOUS
    <3>1. PICK i \in bad : \A j \in bad : i <= j
      <4>0. 1 .. Len(b) \subseteq Nat
        BY <2>1
      <4>1. bad \in SUBSET Nat
        BY <4>0, Zenon
      <4> HIDE DEF bad
      <4> QED BY <4>1, LeastOf
    <3>2. i \in 1 .. Len(b) /\ ~Good(i)
      BY <3>1
    <3>3. k + i \in 1 .. k + Len(b) /\ k + i # 1 /\ k \in 1 .. k /\ c[k + i] = b[i] /\ b[i] \in Seq(S)
      BY <2>1, <3>2
    <3>4. f[k] \in Seq(S) /\ h[k] = f[k]
      BY <1>1, <2>2, <2>8, <3>3 DEF k
    <3>5. h[k + i] = h[k + i - 1] \o b[i]
      <4> DEFINE d == k + i
      <4>1. d \in 1 .. k + Len(b) /\ d # 1 /\ c[d] = b[i]
        BY <3>3
      <4> HIDE DEF d
      <4>2. h[d] = h[d - 1] \o c[d]
        BY <2>7, <4>1
      <4>3. h[d] = h[d - 1] \o b[i]
        BY <4>1, <4>2
      <4>4. d - 1 = k + i - 1
        BY <2>1, <3>2 DEF d
      <4>5. h[d] = h[k + i - 1] \o b[i]
        BY <4>3, <4>4
      <4> QED BY <4>5, Zenon DEF d
    <3>6. CASE i = 1
      <4>1. k + i - 1 = k
        BY <2>1, <3>6
      <4>2. g[i] = b[i]
        BY <2>6, <3>2, <3>6
      <4> QED BY <3>2, <3>3, <3>4, <3>5, <4>1, <4>2
    <3>7. CASE i # 1
      <4>1. i - 1 \in 1 .. Len(b) /\ ~(i <= i - 1) /\ k + i - 1 = k + (i - 1)
        BY <2>1, <3>2, <3>7
      <4>2. i - 1 \notin bad
        <5> HIDE DEF bad
        <5> QED BY <3>1, <4>1
      <4>3. Good(i - 1)
        BY <4>1, <4>2
      <4>4. g[i] = g[i - 1] \o b[i]
        BY <2>6, <3>2, <3>7
      <4> DEFINE u == f[k]
                 v == g[i - 1]
                 w == b[i]
      <4>5. u \in Seq(S) /\ v \in Seq(S) /\ w \in Seq(S)
        BY <3>3, <3>4, <4>3
      <4>6. h[k + i] = (u \o v) \o w /\ g[i] = v \o w
        BY <3>5, <4>1, <4>3, <4>4
      <4> HIDE DEF u, v, w
      <4>7. (u \o v) \o w = u \o (v \o w) /\ v \o w \in Seq(S)
        BY <4>5
      <4>8. h[k + i] = u \o g[i] /\ g[i] \in Seq(S)
        BY <4>6, <4>7
      <4> QED BY <3>2, <4>8 DEF u
    <3> QED BY <3>6, <3>7
  <2>10. Len(b) \in 1 .. Len(b)
    BY <2>1
  <2>11. h[k + Len(b)] = f[k] \o g[Len(b)]
    BY <2>9, <2>10
  <2> QED BY <2>1, <2>2, <2>3, <2>4, <2>11 DEF c, k
<1> QED BY <1>2, <1>3, <1>4

(* One sequence joined is that sequence.                                   *)
LEMMA FlattenSingle ==
  ASSUME NEW S, NEW s \in Seq(S)
  PROVE  FlattenSeq(<<s>>) = s
<1> DEFINE ss == <<s>>
<1>1. ss \in Seq(Seq(S)) /\ 1 \in DOMAIN ss /\ ss[1] = s /\ \A i \in DOMAIN ss : i = 1
  OBVIOUS
<1> HIDE DEF ss
<1>2. FlattenSeq(ss) = ss[1]
  BY <1>1, FlattenOne
<1> QED BY <1>1, <1>2 DEF ss

(* No sequences join to nothing.                                           *)
LEMMA FlattenNone == FlattenSeq(<<>>) = <<>>
BY DEF FlattenSeq

(* The segments up to another and this one.                                *)
LEMMA JoinStep ==
  ASSUME NEW C, segments \in Seq(Seq(C)), NEW i \in 1 .. Len(segments) + 1
  PROVE  /\ Join(i, i) = <<>>
         /\ \A j \in i .. Len(segments) :
              Join(i, j) \in Seq(C) /\ Join(i, j + 1) = Join(i, j) \o segments[j]
<1>1. Join(i, i) = <<>>
  <2>1. SubSeq(segments, i, i - 1) = <<>>
    BY SubSeqEmpty
  <2> QED BY <2>1, FlattenNone DEF Join
<1>2. ASSUME NEW j \in i .. Len(segments)
      PROVE  Join(i, j) \in Seq(C) /\ Join(i, j + 1) = Join(i, j) \o segments[j]
  <2> DEFINE ss == SubSeq(segments, i, j - 1)
             s == segments[j]
  <2>1. s \in Seq(C) /\ j - 1 \in Int /\ j + 1 - 1 = j /\ j \in 1 .. Len(segments) /\ i - 1 <= j - 1
    BY <1>2
  <2>2. SubSeq(segments, i, j) = ss \o <<s>> /\ ss \in Seq(Seq(C))
    <3>1. i - 1 \in 0 .. Len(segments) /\ j - 1 \in i - 1 .. Len(segments) /\ j \in j - 1 .. Len(segments)
      BY <1>2
    <3>2. Part(segments, i - 1, j - 1) \o Part(segments, j - 1, j) = Part(segments, i - 1, j)
      BY <3>1, PartsJoin
    <3>3. i - 1 + 1 = i /\ j - 1 + 1 = j
      BY <1>2
    <3>4. SubSeq(segments, j, j) = <<s>>
      <4> DEFINE P == Part(segments, j - 1, j)
      <4>1. P \in Seq(Seq(C)) /\ Len(P) = 1 /\ P[1] = s
        <5>1. P \in Seq(Seq(C)) /\ Len(P) = j - (j - 1) /\ \A d \in 1 .. j - (j - 1) : P[d] = segments[j - 1 + d]
          <6> DEFINE T == Seq(C)
                     p == j - 1
          <6>1. segments \in Seq(T) /\ p \in 0 .. Len(segments) /\ j \in p .. Len(segments)
            BY <3>1
          <6> HIDE DEF T, p
          <6>2. /\ Part(segments, p, j) \in Seq(T) /\ Len(Part(segments, p, j)) = j - p
                /\ \A d \in 1 .. j - p : Part(segments, p, j)[d] = segments[p + d]
            BY <6>1, PartIs
          <6> QED BY <6>2 DEF T, p
        <5>2. j - (j - 1) = 1 /\ 1 \in 1 .. 1 /\ j - 1 + 1 = j
          BY <1>2
        <5> HIDE DEF P
        <5> QED BY <5>1, <5>2
      <4>2. P = SubSeq(segments, j, j)
        BY <3>3 DEF Part
      <4> HIDE DEF P
      <4>3. P = <<P[1]>>
        BY <4>1
      <4> QED BY <4>1, <4>2, <4>3
    <3>5. Part(segments, i - 1, j - 1) \in Seq(Seq(C))
      BY <3>1, PartIs
    <3> QED BY <3>2, <3>3, <3>4, <3>5 DEF Part
  <2>3. Join(i, j) = FlattenSeq(ss) /\ Join(i, j + 1) = FlattenSeq(SubSeq(segments, i, j))
    BY <2>1 DEF Join
  <2> HIDE DEF ss, s
  <2>4. <<s>> \in Seq(Seq(C)) /\ FlattenSeq(<<s>>) = s
    BY <2>1, FlattenSingle
  <2>5. FlattenSeq(ss \o <<s>>) = FlattenSeq(ss) \o s
    BY <2>2, <2>4, FlattenConcat
  <2>6. FlattenSeq(ss) \in Seq(C)
    BY <2>2, FlattenElements
  <2> QED BY <2>2, <2>3, <2>5, <2>6 DEF s
<1> QED BY <1>1, <1>2

(* Pieces begin one after another.                                         *)
LEMMA CutsRise ==
  ASSUME NEW first, NEW C, NEW t \in Seq(C), NEW cuts, NEW pieces, Cuts(first, t, cuts, pieces)
  PROVE  \A i, j \in 1 .. Len(pieces) + 1 : i < j => first[i] < first[j]
<1> DEFINE n == Len(pieces)
           k == Len(t)
<1>1. /\ n \in Nat /\ first \in [1 .. n + 1 -> 1 .. k + 1]
      /\ \A i \in 1 .. n : first[i] < first[i + 1]
  BY DEF Cuts
<1>0. k \in Nat
  OBVIOUS
<1> HIDE DEF n, k
<1>2. \A i \in 1 .. n + 1 : first[i] \in Int
  BY <1>0, <1>1
<1>3. ASSUME NEW i \in 1 .. n + 1
      PROVE  \A j \in i + 1 .. n + 1 : first[i] < first[j]
  <2> DEFINE bad == {j \in i + 1 .. n + 1 : ~(first[i] < first[j])}
  <2> SUFFICES ASSUME bad # {} PROVE FALSE
    OBVIOUS
  <2>1. PICK j \in bad : \A d \in bad : j <= d
    <3>1. i + 1 .. n + 1 \subseteq Nat
      BY <1>1
    <3>2. bad \in SUBSET Nat
      BY <3>1, Zenon
    <3> HIDE DEF bad
    <3> QED BY <3>2, LeastOf
  <2>2. j \in i + 1 .. n + 1 /\ ~(first[i] < first[j])
    BY <2>1
  <2>3. j - 1 \in 1 .. n /\ j - 1 + 1 = j /\ j \in 1 .. n + 1 /\ j - 1 \in 1 .. n + 1 /\ ~(j <= j - 1)
    BY <1>1, <2>2
  <2>4. first[j - 1] < first[j]
    <3>1. first[j - 1] < first[j - 1 + 1]
      BY <1>1, <2>3
    <3> QED BY <2>3, <3>1
  <2>5. CASE j = i + 1
    <3>1. j - 1 = i
      BY <1>1, <2>5
    <3> QED BY <2>2, <2>4, <3>1
  <2>6. CASE j # i + 1
    <3>1. j - 1 \in i + 1 .. n + 1
      BY <1>1, <2>2, <2>6
    <3>2. j - 1 \notin bad
      <4> HIDE DEF bad
      <4> QED BY <2>1, <2>3
    <3>3. first[i] < first[j - 1]
      BY <3>1, <3>2
    <3>4. first[i] \in Int /\ first[j] \in Int /\ first[j - 1] \in Int
      BY <1>2, <2>3
    <3> QED BY <2>2, <2>4, <3>3, <3>4
  <2> QED BY <2>5, <2>6
<1>4. \A i, j \in 1 .. n + 1 : i < j => j \in i + 1 .. n + 1
  BY <1>1
<1> QED BY <1>3, <1>4 DEF n

(* What the pieces of a text are, each a part of it that is not empty.     *)
LEMMA CutPieces ==
  ASSUME NEW first, NEW C, NEW t \in Seq(C), NEW cuts, NEW pieces, Cuts(first, t, cuts, pieces)
  PROVE  /\ \A i \in 1 .. Len(pieces) :
              /\ first[i] - 1 \in 0 .. Len(t) /\ first[i + 1] - 1 \in first[i] .. Len(t)
              /\ pieces[i] = Part(t, first[i] - 1, first[i + 1] - 1)
              /\ pieces[i] \in Seq(C) /\ Len(pieces[i]) = first[i + 1] - first[i] /\ pieces[i] # <<>>
              /\ \A d \in 1 .. first[i + 1] - first[i] : pieces[i][d] = t[first[i] - 1 + d]
         /\ Len(pieces) \in Nat /\ DOMAIN pieces = 1 .. Len(pieces)
         /\ pieces \in Seq(Seq(C))
<1> DEFINE n == Len(pieces)
           k == Len(t)
<1>1. /\ n \in Nat /\ pieces = [i \in 1 .. n |-> pieces[i]] /\ DOMAIN pieces = 1 .. n
      /\ first \in [1 .. n + 1 -> 1 .. k + 1]
      /\ \A i \in 1 .. n : first[i] < first[i + 1] /\ pieces[i] = SubSeq(t, first[i], first[i + 1] - 1)
  BY DEF Cuts
<1>0. k \in Nat
  OBVIOUS
<1>2. ASSUME NEW i \in 1 .. n
      PROVE  /\ first[i] - 1 \in 0 .. k /\ first[i + 1] - 1 \in first[i] .. k
             /\ pieces[i] = Part(t, first[i] - 1, first[i + 1] - 1)
             /\ pieces[i] \in Seq(C) /\ Len(pieces[i]) = first[i + 1] - first[i] /\ pieces[i] # <<>>
             /\ \A d \in 1 .. first[i + 1] - first[i] : pieces[i][d] = t[first[i] - 1 + d]
  <2> DEFINE a == first[i] - 1
             b == first[i + 1] - 1
             p == pieces[i]
  <2>1. /\ first[i] \in 1 .. k + 1 /\ first[i + 1] \in 1 .. k + 1 /\ first[i] < first[i + 1]
        /\ p = SubSeq(t, first[i], first[i + 1] - 1)
    <3>1. i \in 1 .. n + 1 /\ i + 1 \in 1 .. n + 1
      BY <1>1
    <3> HIDE DEF n, k
    <3> QED BY <1>1, <3>1
  <2>2. /\ a \in 0 .. k /\ b \in a .. k /\ b \in first[i] .. k /\ a # b /\ a + 1 = first[i]
        /\ b - a = first[i + 1] - first[i] /\ a < b
    <3> DEFINE x == first[i]
               y == first[i + 1]
    <3>1. x \in 1 .. k + 1 /\ y \in 1 .. k + 1 /\ x < y
      BY <2>1
    <3> HIDE DEF k, x, y
    <3>2. /\ x - 1 \in 0 .. k /\ y - 1 \in x - 1 .. k /\ y - 1 \in x .. k /\ x - 1 # y - 1 /\ x - 1 + 1 = x
          /\ (y - 1) - (x - 1) = y - x /\ x - 1 < y - 1
      BY <1>0, <3>1
    <3> QED BY <3>2 DEF x, y
  <2>3. p = Part(t, a, b)
    BY <2>1, <2>2 DEF Part
  <2> HIDE DEF a, b, p
  <2>4. p \in Seq(C) /\ Len(p) = b - a /\ \A d \in 1 .. b - a : p[d] = t[a + d]
    BY <2>2, <2>3, PartIs
  <2>5. p # <<>>
    BY <2>2, <2>4
  <2> QED BY <2>2, <2>3, <2>4, <2>5 DEF a, b, p
<1>3. pieces \in Seq(Seq(C))
  <2> DEFINE T == Seq(C)
  <2>1. n \in Nat /\ DOMAIN pieces = 1 .. n /\ \A i \in 1 .. n : pieces[i] \in T
    BY <1>1, <1>2
  <2>2. pieces = [i \in 1 .. n |-> pieces[i]]
    BY <1>1
  <2> HIDE DEF T, n
  <2>3. pieces \in Seq(T)
    BY <2>1, <2>2
  <2> QED BY <2>3 DEF T
<1> QED BY <1>1, <1>2, <1>3

(* Segments from one to another are the text between their places.         *)
LEMMA JoinIs ==
  ASSUME NEW first, NEW C, NEW t \in Seq(C), NEW cuts, Cuts(first, t, cuts, segments)
  PROVE  \A i \in 1 .. Len(segments) + 1 : \A j \in i .. Len(segments) + 1 :
           /\ first[i] - 1 \in 0 .. Len(t) /\ first[j] - 1 \in first[i] - 1 .. Len(t)
           /\ Join(i, j) = Part(t, first[i] - 1, first[j] - 1)
           /\ Join(i, j) \in Seq(C)
<1> DEFINE n == Len(segments)
           k == Len(t)
           Stands(i) == first[i] - 1
<1>1. segments \in Seq(Seq(C)) /\ \A i \in 1 .. n : segments[i] = Part(t, Stands(i), Stands(i + 1))
  BY CutPieces
<1>2. n \in Nat /\ k \in Nat /\ first \in [1 .. n + 1 -> 1 .. k + 1]
  BY DEF Cuts
<1>3. \A i, j \in 1 .. n + 1 : i < j => first[i] < first[j]
  BY CutsRise
<1>5. \A i \in 1 .. n + 1 : Join(i, i) = <<>>
      /\ \A j \in i .. n : Join(i, j) \in Seq(C) /\ Join(i, j + 1) = Join(i, j) \o segments[j]
  BY <1>1, JoinStep
<1>4. \A i \in 1 .. n + 1 : \A j \in i .. n + 1 : Stands(i) \in 0 .. k /\ Stands(j) \in Stands(i) .. k
  <2> SUFFICES ASSUME NEW i \in 1 .. n + 1, NEW j \in i .. n + 1
               PROVE  Stands(i) \in 0 .. k /\ Stands(j) \in Stands(i) .. k
    OBVIOUS
  <2> HIDE DEF n, k
  <2>1. j \in 1 .. n + 1
    BY <1>2
  <2>2. first[i] \in 1 .. k + 1 /\ first[j] \in 1 .. k + 1
    BY <1>2, <2>1
  <2>3. CASE i = j
    BY <1>2, <2>2, <2>3
  <2>4. CASE i # j
    <3>1. i < j
      BY <1>2, <2>4
    <3>2. first[i] < first[j]
      BY <1>3, <2>1, <3>1
    <3> QED BY <1>2, <2>2, <3>2
  <2> QED BY <2>3, <2>4
<1> HIDE DEF Stands
<1>6. ASSUME NEW i \in 1 .. n + 1
      PROVE  \A j \in i .. n + 1 : Join(i, j) = Part(t, Stands(i), Stands(j))
  <2> DEFINE bad == {j \in i .. n + 1 : Join(i, j) # Part(t, Stands(i), Stands(j))}
  <2> SUFFICES ASSUME bad # {} PROVE FALSE
    OBVIOUS
  <2>1. PICK j \in bad : \A d \in bad : j <= d
    <3>1. i .. n + 1 \subseteq Nat
      BY <1>2
    <3>2. bad \in SUBSET Nat
      BY <3>1, Zenon
    <3> HIDE DEF bad
    <3> QED BY <3>2, LeastOf
  <2>2. j \in i .. n + 1 /\ Join(i, j) # Part(t, Stands(i), Stands(j))
    BY <2>1, Zenon
  <2>3. CASE j = i
    <3>1. Stands(i) \in 0 .. k /\ Stands(i) \in Stands(i) .. k
      BY <1>4, <2>2, <2>3
    <3>2. Part(t, Stands(i), Stands(i)) = <<>>
      BY <3>1, PartIs
    <3> QED BY <1>5, <2>2, <2>3, <3>2
  <2>4. CASE j # i
    <3> DEFINE d == j - 1
    <3>1. d \in i .. n /\ d + 1 = j /\ ~(j <= d) /\ d \in i .. n + 1 /\ d \in 1 .. n + 1 /\ d \in 1 .. n
          /\ j \in d .. n + 1 /\ i \in 1 .. n + 1
      BY <1>2, <2>2, <2>4
    <3> HIDE DEF d
    <3>2. Join(i, d) = Part(t, Stands(i), Stands(d))
      <4>1. d \notin bad
        <5> HIDE DEF bad
        <5> QED BY <2>1, <3>1
      <4> QED BY <3>1, <4>1, Zenon
    <3>3. Join(i, j) = Join(i, d) \o segments[d]
      BY <1>5, <3>1
    <3>4. segments[d] = Part(t, Stands(d), Stands(j))
      BY <1>1, <3>1
    <3>5. Stands(i) \in 0 .. k /\ Stands(d) \in Stands(i) .. k /\ Stands(j) \in Stands(d) .. k
      BY <1>4, <3>1
    <3>6. Part(t, Stands(i), Stands(d)) \o Part(t, Stands(d), Stands(j)) = Part(t, Stands(i), Stands(j))
      BY <3>5, PartsJoin
    <3> QED BY <2>2, <3>2, <3>3, <3>4, <3>6
  <2> QED BY <2>3, <2>4
<1>7. ASSUME NEW i \in 1 .. n + 1, NEW j \in i .. n + 1
      PROVE  Join(i, j) \in Seq(C)
  BY <1>4, <1>6, PartIs
<1> QED BY <1>4, <1>6, <1>7 DEF Stands

(* Joined segments that meet join to the segments of both.                 *)
LEMMA JoinsJoin ==
  ASSUME NEW first, NEW C, NEW t \in Seq(C), NEW cuts, Cuts(first, t, cuts, segments),
         NEW i \in 1 .. Len(segments) + 1, NEW j \in i .. Len(segments) + 1,
         NEW k \in j .. Len(segments) + 1
  PROVE  Join(i, j) \o Join(j, k) = Join(i, k)
<1>0. Len(segments) \in Nat
  BY DEF Cuts
<1>1. j \in 1 .. Len(segments) + 1 /\ k \in i .. Len(segments) + 1
  BY <1>0
<1>2. /\ first[i] - 1 \in 0 .. Len(t) /\ first[j] - 1 \in first[i] - 1 .. Len(t)
      /\ first[k] - 1 \in first[j] - 1 .. Len(t)
      /\ Join(i, j) = Part(t, first[i] - 1, first[j] - 1)
      /\ Join(j, k) = Part(t, first[j] - 1, first[k] - 1)
      /\ Join(i, k) = Part(t, first[i] - 1, first[k] - 1)
  BY <1>1, JoinIs
<1> QED BY <1>2, PartsJoin

(* All segments joined are the text.                                       *)
LEMMA JoinAll ==
  ASSUME NEW first, NEW C, NEW t \in Seq(C), NEW cuts, Cuts(first, t, cuts, segments)
  PROVE  Join(1, Len(segments) + 1) = t
<1>0. Len(segments) \in Nat /\ first[1] = 1 /\ first[Len(segments) + 1] = Len(t) + 1
  BY DEF Cuts
<1>1. 1 \in 1 .. Len(segments) + 1 /\ Len(segments) + 1 \in 1 .. Len(segments) + 1
  BY <1>0
<1>2. Join(1, Len(segments) + 1) = Part(t, first[1] - 1, first[Len(segments) + 1] - 1)
  BY <1>1, JoinIs
<1>3. first[1] - 1 = 0 /\ first[Len(segments) + 1] - 1 = Len(t)
  BY <1>0
<1>4. Part(t, 0, Len(t)) = t
  BY PartIs
<1> QED BY <1>2, <1>3, <1>4

(* One segment joined is that segment.                                     *)
LEMMA JoinOne ==
  ASSUME NEW C, segments \in Seq(Seq(C)), NEW i \in 1 .. Len(segments)
  PROVE  Join(i, i + 1) = segments[i]
<1>1. i \in 1 .. Len(segments) + 1 /\ i \in i .. Len(segments)
  OBVIOUS
<1>2. Join(i, i + 1) = Join(i, i) \o segments[i] /\ Join(i, i) = <<>>
  BY <1>1, JoinStep
<1>3. segments[i] \in Seq(C)
  OBVIOUS
<1>4. <<>> \o segments[i] = segments[i]
  BY <1>3, ConcatEmptySeq
<1> QED BY <1>2, <1>4

-----------------------------------------------------------------------------
(* Texts without their spaces                                              *)

White(t) == \A i \in DOMAIN t : t[i] \in Whitespace
NoWhite(t) == \A i \in DOMAIN t : t[i] \notin Whitespace

(* What each character leaves.                                             *)
Left(t) == [i \in DOMAIN t |-> IF t[i] \notin Whitespace THEN <<t[i]>> ELSE <<>>]

(* What is left of each character of a text without its spaces.            *)
LEMMA LeftIs ==
  ASSUME NEW C, NEW t \in Seq(C)
  PROVE  /\ Unspaced(t) = FlattenSeq(Left(t)) /\ Left(t) \in Seq(Seq(C)) /\ Len(Left(t)) = Len(t)
         /\ \A i \in 1 .. Len(t) :
              Left(t)[i] = IF t[i] \notin Whitespace THEN <<t[i]>> ELSE <<>>
<1>1. Unspaced(t) = FlattenSeq(Left(t))
  BY DEF Unspaced, Each, If, Left
<1>2. \A i \in 1 .. Len(t) : t[i] \in C
  OBVIOUS
<1>3. \A x \in C : <<x>> \in Seq(C)
  OBVIOUS
<1>4. <<>> \in Seq(C)
  OBVIOUS
<1> DEFINE T == Seq(C)
           g(i) == IF t[i] \notin Whitespace THEN <<t[i]>> ELSE <<>>
<1>5. \A i \in 1 .. Len(t) : g(i) \in T
  <2> SUFFICES ASSUME NEW i \in 1 .. Len(t) PROVE g(i) \in T
    OBVIOUS
  <2>1. <<t[i]>> \in T /\ <<>> \in T
    BY <1>2, <1>3, <1>4
  <2> QED BY <2>1, Zenon
<1>6. Left(t) = [i \in 1 .. Len(t) |-> g(i)] /\ Len(t) \in Nat
  <2>1. DOMAIN t = 1 .. Len(t) /\ Len(t) \in Nat
    OBVIOUS
  <2> QED BY <2>1, Zenon DEF Left
<1>7. \A i \in 1 .. Len(t) : Left(t)[i] = g(i)
  BY <1>6
<1>8. Left(t) \in Seq(T) /\ Len(Left(t)) = Len(t)
  <2> HIDE DEF T, g
  <2> QED BY <1>5, <1>6
<1> QED BY <1>1, <1>7, <1>8

(* Spaces are taken from two texts as from each of them.                   *)
LEMMA UnspacedConcat ==
  ASSUME NEW C, NEW u \in Seq(C), NEW v \in Seq(C)
  PROVE  /\ Unspaced(u \o v) = Unspaced(u) \o Unspaced(v)
         /\ Unspaced(u) \in Seq(C)
<1> DEFINE w == u \o v
           a == Left(u)
           b == Left(v)
           c == Left(w)
           T == Seq(C)
           g(x) == IF x \notin Whitespace THEN <<x>> ELSE <<>>
<1>1. /\ w \in Seq(C) /\ Len(w) = Len(u) + Len(v)
      /\ \A i \in 1 .. Len(u) : w[i] = u[i]
      /\ \A i \in 1 .. Len(v) : w[Len(u) + i] = v[i]
      /\ Len(u) \in Nat /\ Len(v) \in Nat
  OBVIOUS
<1> HIDE DEF w
<1>2. /\ a \in Seq(T) /\ Len(a) = Len(u) /\ \A i \in 1 .. Len(u) : a[i] = g(u[i])
      /\ Unspaced(u) = FlattenSeq(a)
  BY LeftIs
<1>3. /\ b \in Seq(T) /\ Len(b) = Len(v) /\ \A i \in 1 .. Len(v) : b[i] = g(v[i])
      /\ Unspaced(v) = FlattenSeq(b)
  BY LeftIs
<1>4. /\ c \in Seq(T) /\ Len(c) = Len(w) /\ \A i \in 1 .. Len(w) : c[i] = g(w[i])
      /\ Unspaced(w) = FlattenSeq(c)
  BY <1>1, LeftIs
<1> HIDE DEF a, b, c, T, g
<1>5. c = a \o b
  <2>1. a \o b \in Seq(T) /\ Len(a \o b) = Len(c)
    BY <1>1, <1>2, <1>3, <1>4
  <2>2. \A i \in 1 .. Len(c) : (a \o b)[i] = c[i]
    <3> SUFFICES ASSUME NEW i \in 1 .. Len(c) PROVE (a \o b)[i] = c[i]
      OBVIOUS
    <3>1. CASE i <= Len(a)
      <4>1. i \in 1 .. Len(u) /\ i \in 1 .. Len(w) /\ i \in 1 .. Len(a)
        BY <1>1, <1>2, <1>4, <3>1
      <4>2. (a \o b)[i] = a[i]
        BY <1>2, <1>3, <4>1
      <4> QED BY <1>1, <1>2, <1>4, <4>1, <4>2
    <3>2. CASE ~(i <= Len(a))
      <4> DEFINE j == i - Len(u)
      <4>1. j \in 1 .. Len(v) /\ j \in 1 .. Len(b) /\ i = Len(u) + j /\ i \in 1 .. Len(w)
        BY <1>1, <1>2, <1>3, <1>4, <3>2
      <4> HIDE DEF j
      <4>2. (a \o b)[i] = b[j]
        BY <1>2, <1>3, <4>1
      <4>3. w[i] = v[j]
        BY <1>1, <4>1
      <4> QED BY <1>3, <1>4, <4>1, <4>2, <4>3
    <3> QED BY <3>1, <3>2
  <2> DEFINE ab == a \o b
  <2>3. ab \in Seq(T) /\ Len(ab) = Len(c) /\ \A i \in 1 .. Len(c) : ab[i] = c[i]
    BY <2>1, <2>2
  <2> HIDE DEF ab
  <2>4. ab = c
    BY <1>4, <2>3
  <2> QED BY <2>4 DEF ab
<1>6. FlattenSeq(a \o b) = FlattenSeq(a) \o FlattenSeq(b)
  <2>1. a \in Seq(Seq(C)) /\ b \in Seq(Seq(C))
    BY <1>2, <1>3 DEF T
  <2> QED BY <2>1, FlattenConcat
<1>7. FlattenSeq(a) \in Seq(C)
  <2>1. a \in Seq(Seq(C))
    BY <1>2 DEF T
  <2> QED BY <2>1, FlattenElements
<1> QED BY <1>2, <1>3, <1>4, <1>5, <1>6, <1>7 DEF w

(* Nothing is left of spaces, all of what has none.                        *)
LEMMA UnspacedWhite ==
  ASSUME NEW C, NEW t \in Seq(C), White(t)
  PROVE  Unspaced(t) = <<>>
<1>1. /\ Left(t) \in Seq(Seq(C)) /\ Unspaced(t) = FlattenSeq(Left(t)) /\ Len(Left(t)) = Len(t)
      /\ \A i \in 1 .. Len(t) : Left(t)[i] = IF t[i] \notin Whitespace THEN <<t[i]>> ELSE <<>>
  BY LeftIs
<1>2. DOMAIN Left(t) = 1 .. Len(t)
  BY <1>1
<1>3. \A i \in DOMAIN Left(t) : Left(t)[i] = <<>>
  <2>1. \A i \in 1 .. Len(t) : t[i] \in Whitespace
    BY DEF White
  <2> QED BY <1>1, <1>2, <2>1
<1>4. FlattenSeq(Left(t)) \in Seq(C) /\ \A x : x \notin ToSet(FlattenSeq(Left(t)))
  <2>1. \A x : x \notin ToSet(<<>>)
    BY DEF ToSet
  <2> QED BY <1>1, <1>3, <2>1, FlattenElements
<1>5. ASSUME NEW s \in Seq(C), s # <<>> PROVE s[1] \in ToSet(s)
  <2>1. 1 \in DOMAIN s
    BY <1>5
  <2> QED BY <2>1 DEF ToSet
<1> QED BY <1>1, <1>4, <1>5

(* The part between a place and the next is one element.                   *)
LEMMA PartOne ==
  ASSUME NEW S, NEW s \in Seq(S), NEW i \in 1 .. Len(s)
  PROVE  Part(s, i - 1, i) = <<s[i]>>
<1> DEFINE P == Part(s, i - 1, i)
<1>1. i - 1 \in 0 .. Len(s) /\ i \in i - 1 .. Len(s) /\ i - (i - 1) = 1 /\ 1 \in 1 .. 1 /\ i - 1 + 1 = i
  OBVIOUS
<1>2. P \in Seq(S) /\ Len(P) = i - (i - 1) /\ \A d \in 1 .. i - (i - 1) : P[d] = s[i - 1 + d]
  BY <1>1, PartIs
<1> HIDE DEF P
<1>3. P \in Seq(S) /\ Len(P) = 1 /\ P[1] = s[i]
  BY <1>1, <1>2
<1>4. P = <<P[1]>>
  BY <1>3
<1> QED BY <1>3, <1>4 DEF P

(* A text without spaces is left as it is.                                 *)
LEMMA UnspacedNoWhite ==
  ASSUME NEW C, NEW t \in Seq(C), NoWhite(t)
  PROVE  Unspaced(t) = t
<1> DEFINE k == Len(t)
<1>1. /\ Left(t) \in Seq(Seq(C)) /\ Unspaced(t) = FlattenSeq(Left(t)) /\ Len(Left(t)) = k
      /\ \A i \in 1 .. k : Left(t)[i] = <<t[i]>>
  <2>1. \A i \in 1 .. Len(t) : t[i] \notin Whitespace
    BY DEF NoWhite
  <2> QED BY <2>1, LeftIs
<1>2. CASE t = <<>>
  <2>1. Left(t) = <<>>
    BY <1>1, <1>2
  <2> QED BY <1>1, <1>2, <2>1, FlattenNone
<1>3. CASE t # <<>>
  <2>1. k \in Nat /\ k \in 1 .. k /\ Left(t) # <<>>
    BY <1>1, <1>3
  <2>2. PICK f : Flattens(f, Left(t), k) /\ FlattenSeq(Left(t)) = f[k]
    BY <1>1, <2>1, FlattenIs
  <2>3. \A i \in 1 .. k : f[i] = IF i = 1 THEN Left(t)[i] ELSE f[i - 1] \o Left(t)[i]
    BY <2>2 DEF Flattens
  <2> DEFINE bad == {i \in 1 .. k : f[i] # Part(t, 0, i)}
  <2>4. bad = {}
    <3> SUFFICES ASSUME bad # {} PROVE FALSE
      OBVIOUS
    <3>1. PICK i \in bad : \A j \in bad : i <= j
      <4>0. 1 .. k \subseteq Nat
        BY <2>1
      <4>1. bad \in SUBSET Nat
        BY <4>0, Zenon
      <4> HIDE DEF bad
      <4> QED BY <4>1, LeastOf
    <3>2. i \in 1 .. k /\ f[i] # Part(t, 0, i)
      BY <3>1, Zenon
    <3>3. Part(t, i - 1, i) = <<t[i]>> /\ Left(t)[i] = <<t[i]>>
      BY <1>1, <3>2, PartOne
    <3>4. CASE i = 1
      <4>1. i - 1 = 0
        BY <3>4
      <4> QED BY <2>3, <3>2, <3>3, <3>4, <4>1
    <3>5. CASE i # 1
      <4> DEFINE j == i - 1
      <4>1. j \in 1 .. k /\ ~(i <= j) /\ j \in 0 .. k /\ i \in j .. k /\ 0 \in 0 .. k
        BY <2>1, <3>2, <3>5
      <4>2. f[i] = f[j] \o Left(t)[i]
        BY <2>3, <3>2, <3>5
      <4>3. Part(t, j, i) = <<t[i]>>
        BY <3>3
      <4> HIDE DEF j
      <4>4. j \notin bad
        <5> HIDE DEF bad
        <5> QED BY <3>1, <4>1
      <4>5. f[j] = Part(t, 0, j)
        BY <4>1, <4>4, Zenon
      <4>6. j \in 0 .. Len(t) /\ i \in j .. Len(t) /\ 0 \in 0 .. Len(t)
        BY <4>1
      <4>7. Part(t, 0, j) \o Part(t, j, i) = Part(t, 0, i)
        BY <4>6, PartsJoin
      <4> QED BY <3>2, <3>3, <4>2, <4>3, <4>5, <4>7
    <3> QED BY <3>4, <3>5
  <2>5. f[k] = Part(t, 0, k)
    BY <2>1, <2>4
  <2>6. Part(t, 0, k) = t
    BY <2>1, PartIs
  <2> QED BY <1>1, <2>2, <2>5, <2>6
<1> QED BY <1>2, <1>3

-----------------------------------------------------------------------------
(* Spaces and words                                                        *)

TokenCuts(t) ==
  { i \in 2 .. Len(t) : \A kind \in {Whitespace, WordChars} : ~ {t[i - 1], t[i]} \subseteq kind }
RunCuts(t) == { i \in 2 .. Len(t) : (t[i - 1] \in Whitespace) # (t[i] \in Whitespace) }

(* Cuts are wherever spaces begin or end and nowhere between two spaces.   *)
Divides(cuts, t) ==
  \A i \in 2 .. Len(t) :
    /\ i \notin cuts => (t[i - 1] \in Whitespace <=> t[i] \in Whitespace)
    /\ i \in cuts => ~(t[i - 1] \in Whitespace /\ t[i] \in Whitespace)

(* Both ways to cut a text cut where spaces begin and end and nowhere      *)
(* between two spaces; tokens are cut wherever runs are.                   *)
LEMMA TextsCut ==
  ASSUME NEW C, NEW t \in Seq(C)
  PROVE  /\ \E first : Cuts(first, t, TokenCuts(t), Tokenize(t))
         /\ \E first : Cuts(first, t, RunCuts(t), WhitespaceRuns(t))
         /\ Divides(TokenCuts(t), t) /\ Divides(RunCuts(t), t)
         /\ RunCuts(t) \subseteq TokenCuts(t)
<1>1. Tokenize(t) = Pieces(t, TokenCuts(t)) /\ WhitespaceRuns(t) = Pieces(t, RunCuts(t))
  BY DEF Tokenize, WhitespaceRuns, TokenCuts, RunCuts
<1>2. /\ \E first : Cuts(first, t, TokenCuts(t), Pieces(t, TokenCuts(t)))
      /\ \E first : Cuts(first, t, RunCuts(t), Pieces(t, RunCuts(t)))
  BY PiecesCut
<1>3. \A i \in 2 .. Len(t) :
        i \in TokenCuts(t) <=> /\ ~(t[i - 1] \in Whitespace /\ t[i] \in Whitespace)
                               /\ ~(t[i - 1] \in WordChars /\ t[i] \in WordChars)
  BY Zenon DEF TokenCuts
<1>4. \A i \in 2 .. Len(t) :
        i \in RunCuts(t) <=> ~(t[i - 1] \in Whitespace <=> t[i] \in Whitespace)
  BY DEF RunCuts
<1>5. \A c : ~(c \in Whitespace /\ c \in WordChars)
  BY TextsAssumption
<1>6. Divides(TokenCuts(t), t)
  BY <1>3, <1>5, Zenon DEF Divides
<1>7. Divides(RunCuts(t), t)
  BY <1>4, Zenon DEF Divides
<1>8. RunCuts(t) \subseteq 2 .. Len(t)
  BY Zenon DEF RunCuts
<1>9. RunCuts(t) \subseteq TokenCuts(t)
  BY <1>3, <1>4, <1>5, <1>8, Zenon
<1> QED BY <1>1, <1>2, <1>6, <1>7, <1>9

(* Such pieces are all space or none, and no two pieces of spaces meet.    *)
LEMMA PiecesOfSpaces ==
  ASSUME NEW first, NEW C, NEW t \in Seq(C), NEW cuts, NEW pieces, Cuts(first, t, cuts, pieces),
         Divides(cuts, t)
  PROVE  /\ \A i \in 1 .. Len(pieces) :
              /\ IsSpace(pieces[i]) <=> t[first[i]] \in Whitespace
              /\ \A k \in first[i] .. first[i + 1] - 1 : t[k] \in Whitespace <=> IsSpace(pieces[i])
              /\ IsSpace(pieces[i]) => White(pieces[i])
              /\ ~IsSpace(pieces[i]) => NoWhite(pieces[i])
         /\ \A i \in 1 .. Len(pieces) :
              IsSpace(pieces[i]) /\ i + 1 \in 1 .. Len(pieces) => ~IsSpace(pieces[i + 1])
<1> DEFINE n == Len(pieces)
           len == Len(t)
<1>1. /\ \A i \in 1 .. n :
           /\ first[i] - 1 \in 0 .. len /\ first[i + 1] - 1 \in first[i] .. len
           /\ pieces[i] \in Seq(C) /\ Len(pieces[i]) = first[i + 1] - first[i]
           /\ \A d \in 1 .. first[i + 1] - first[i] : pieces[i][d] = t[first[i] - 1 + d]
      /\ n \in Nat
  BY CutPieces
<1>2. \A i, j \in 1 .. n + 1 : i < j => first[i] < first[j]
  BY CutsRise
<1>3. /\ first \in [1 .. n + 1 -> 1 .. len + 1] /\ first[1] = 1
      /\ \A k \in 2 .. n : first[k] \in cuts
      /\ \A i \in cuts \cap DOMAIN t : \E k \in 1 .. n : first[k] = i
  BY DEF Cuts
<1>4. len \in Nat /\ DOMAIN t = 1 .. len
  OBVIOUS
<1>5. \A i \in 1 .. n + 1 : first[i] \in Int
  <2> HIDE DEF n, len
  <2> QED BY <1>3, <1>4
<1> HIDE DEF n, len
<1>6. ASSUME NEW i \in 1 .. n
      PROVE  \A k \in first[i] .. first[i + 1] - 1 : t[k] \in Whitespace <=> t[first[i]] \in Whitespace
  <2> DEFINE a == first[i]
             b == first[i + 1] - 1
             bad == {k \in a .. b : ~(t[k] \in Whitespace <=> t[a] \in Whitespace)}
  <2>0. i \in 1 .. n + 1 /\ i + 1 \in 1 .. n + 1
    BY <1>1
  <2>1. a \in Nat /\ a \in 1 .. len + 1 /\ b \in a .. len /\ first[i + 1] = b + 1
    <3>1. first[i] \in 1 .. len + 1 /\ first[i + 1] - 1 \in first[i] .. len /\ first[i + 1] \in Int
      BY <1>1, <1>3, <1>5, <2>0
    <3> QED BY <1>4, <3>1
  <2> SUFFICES ASSUME bad # {} PROVE FALSE
    OBVIOUS
  <2>2. PICK k \in bad : \A j \in bad : k <= j
    <3>1. a .. b \subseteq Nat
      BY <2>1
    <3>2. bad \in SUBSET Nat
      BY <3>1, Zenon
    <3> HIDE DEF bad
    <3> QED BY <3>2, LeastOf
  <2>3. k \in a .. b /\ ~(t[k] \in Whitespace <=> t[a] \in Whitespace)
    BY <2>2, Zenon
  <2> HIDE DEF a, b
  <2>4. k # a
    BY <2>3
  <2>5. k - 1 \in a .. b /\ ~(k <= k - 1) /\ k \in 2 .. len /\ a < k /\ k < b + 1
    BY <1>4, <2>1, <2>3, <2>4
  <2>6. t[k - 1] \in Whitespace <=> t[a] \in Whitespace
    <3>1. k - 1 \notin bad
      <4> HIDE DEF bad
      <4> QED BY <2>2, <2>5
    <3> QED BY <2>5, <3>1, Zenon
  <2>7. k \notin cuts
    <3> SUFFICES ASSUME k \in cuts PROVE FALSE
      OBVIOUS
    <3>1. PICK j \in 1 .. n : first[j] = k
      BY <1>3, <1>4, <2>5
    <3>2. j \in 1 .. n + 1 /\ j \in Int /\ i \in Int
      BY <1>1
    <3>3. ~(j < i) /\ j # i
      <4>1. j < i => first[j] < first[i]
        BY <1>2, <2>0, <3>2
      <4>2. first[i] = a
        BY DEF a
      <4> QED BY <2>1, <2>5, <3>1, <4>1, <4>2
    <3>4. ~(i + 1 < j) /\ i + 1 # j
      <4>1. i + 1 < j => first[i + 1] < first[j]
        BY <1>2, <2>0, <3>2
      <4> QED BY <2>1, <2>5, <3>1, <4>1
    <3> QED BY <3>2, <3>3, <3>4
  <2> QED BY <2>3, <2>5, <2>6, <2>7 DEF Divides, len
<1>7. ASSUME NEW i \in 1 .. n
      PROVE  /\ IsSpace(pieces[i]) <=> t[first[i]] \in Whitespace
             /\ \A k \in first[i] .. first[i + 1] - 1 : t[k] \in Whitespace <=> IsSpace(pieces[i])
             /\ IsSpace(pieces[i]) => White(pieces[i])
             /\ ~IsSpace(pieces[i]) => NoWhite(pieces[i])
  <2> DEFINE a == first[i]
             c == first[i + 1]
             p == pieces[i]
  <2>0. i \in 1 .. n + 1 /\ i + 1 \in 1 .. n + 1
    BY <1>1
  <2>1. /\ a \in Int /\ c \in Int /\ a < c /\ p \in Seq(C) /\ Len(p) = c - a
        /\ \A d \in 1 .. c - a : p[d] = t[a - 1 + d]
    <3>1. first[i] < first[i + 1]
      BY <1>1, <1>2, <2>0
    <3> QED BY <1>1, <1>5, <2>0, <3>1
  <2>2. \A k \in a .. c - 1 : t[k] \in Whitespace <=> t[a] \in Whitespace
    BY <1>6
  <2> HIDE DEF a, c, p
  <2>3. p[1] = t[a]
    <3>1. 1 \in 1 .. c - a /\ a - 1 + 1 = a
      BY <2>1
    <3> QED BY <2>1, <3>1
  <2>4. IsSpace(p) <=> t[a] \in Whitespace
    BY <2>3 DEF IsSpace
  <2>6. a \in Int /\ c \in Int
    BY <2>1, Zenon
  <2>5. \A d \in DOMAIN p : p[d] \in Whitespace <=> t[a] \in Whitespace
    <3> SUFFICES ASSUME NEW d \in 1 .. c - a PROVE p[d] \in Whitespace <=> t[a] \in Whitespace
      <4>1. p \in Seq(C)
        BY <2>1
      <4>2. DOMAIN p = 1 .. Len(p)
        BY <4>1
      <4>3. DOMAIN p = 1 .. c - a
        BY <2>1, <4>2, Zenon
      <4> QED BY <4>3
    <3>1. a - 1 + d \in a .. c - 1
      BY <2>6
    <3> QED BY <2>1, <2>2, <3>1
  <2> QED BY <2>2, <2>4, <2>5 DEF White, NoWhite, a, c, p
<1>8. ASSUME NEW i \in 1 .. n, IsSpace(pieces[i]), i + 1 \in 1 .. n
      PROVE  ~IsSpace(pieces[i + 1])
  <2> DEFINE c == first[i + 1]
  <2>0. i + 1 \in 2 .. n /\ i \in 1 .. n + 1 /\ i + 1 \in 1 .. n + 1
    BY <1>1, <1>8
  <2>1. c \in cuts /\ c \in 1 .. len + 1 /\ first[i] \in 1 .. len + 1 /\ first[i] < c /\ c - 1 \in first[i] .. len
    <3>1. i < i + 1
      BY <1>1
    <3>2. first[i] < first[i + 1]
      BY <1>2, <2>0, <3>1
    <3>3. c \in cuts /\ c \in 1 .. len + 1 /\ first[i] \in 1 .. len + 1 /\ c - 1 \in first[i] .. len
      BY <1>1, <1>3, <2>0
    <3> QED BY <3>2, <3>3
  <2>2. c \in 1 .. len
    <3>1. c - 1 \in 0 .. len /\ first[i + 1 + 1] - 1 \in c .. len
      BY <1>1, <1>8
    <3> HIDE DEF c
    <3> QED BY <1>4, <2>1, <3>1
  <2>3. t[c - 1] \in Whitespace
    <3>1. c - 1 \in first[i] .. c - 1
      <4> HIDE DEF c
      <4> QED BY <2>1
    <3>2. t[c - 1] \in Whitespace <=> IsSpace(pieces[i])
      BY <1>7, <3>1
    <3> QED BY <1>8, <3>2
  <2>4. IsSpace(pieces[i + 1]) <=> t[c] \in Whitespace
    BY <1>7, <1>8
  <2>5. c \in 2 .. len
    <3> HIDE DEF c
    <3> QED BY <1>4, <2>1, <2>2
  <2> HIDE DEF c
  <2>6. ~(t[c - 1] \in Whitespace /\ t[c] \in Whitespace)
    BY <2>1, <2>5 DEF Divides, len
  <2> QED BY <2>3, <2>4, <2>6
<1> QED BY <1>7, <1>8 DEF n

-----------------------------------------------------------------------------
(* No text is found without entries                                        *)

Filled == \A orth \in DOMAIN byOrth : ToSet(byOrth[orth]) # {}

(* An entry that is pushed or put in front leaves no text without          *)
(* readings.                                                               *)
LEMMA LongerFilled ==
  ASSUME NEW table, Lists(table), \A k \in DOMAIN table : ToSet(table[k]) # {}, NEW key, NEW e
  PROVE  /\ \A k \in DOMAIN Pushed(table, key, e) : ToSet(Pushed(table, key, e)[k]) # {}
         /\ \A k \in DOMAIN Fronted(table, key, e) : ToSet(Fronted(table, key, e)[k]) # {}
<1> DEFINE S == DictionaryEntry \cup {e}
           list == Found(table, key)
           one == <<e>>
<1>1. list \in Seq(S)
  <2>1. \A k \in DOMAIN table : table[k] \in Seq(S)
    <3>1. \A s \in Seq(DictionaryEntry) : s \in Seq(S)
      OBVIOUS
    <3> QED BY <3>1 DEF Lists
  <2>2. <<>> \in Seq(S)
    OBVIOUS
  <2> HIDE DEF S
  <2> QED BY <2>1, <2>2 DEF Found
<1>2. one \in Seq(S) /\ 1 \in DOMAIN one
  OBVIOUS
<1> HIDE DEF S, list, one
<1>3. ToSet(Append(list, e)) # {} /\ ToSet(one \o list) # {}
  <2>1. ToSet(Append(list, e)) = ToSet(list) \cup {e}
    BY <1>1, AppendElements
  <2>2. ToSet(one \o list) = ToSet(one) \cup ToSet(list)
    BY <1>1, <1>2, ConcatElements
  <2>3. ToSet(one) # {}
    BY <1>2 DEF ToSet
  <2> QED BY <2>1, <2>2, <2>3
<1>4. ASSUME NEW l, ToSet(l) # {}
      PROVE  \A k \in DOMAIN With(table, key, l) : ToSet(With(table, key, l)[k]) # {}
  BY <1>4 DEF With
<1> QED BY <1>3, <1>4 DEF Pushed, Fronted, list, one

(* The loader leaves no text without readings.                             *)
LEMMA FilledKeeps == IInv /\ Filled /\ [Load]_dictVars => Filled'
<1> SUFFICES ASSUME IInv, Filled, [Load]_dictVars PROVE Filled'
  OBVIOUS
<1>1. Lists(byOrth)
  BY DEF IInv, TypeOK
<1>2. ASSUME NEW e, byOrth' = Pushed(byOrth, e.orth, e) PROVE Filled'
  <2>1. \A k \in DOMAIN Pushed(byOrth, e.orth, e) : ToSet(Pushed(byOrth, e.orth, e)[k]) # {}
    BY <1>1, LongerFilled DEF Filled
  <2> QED BY <1>2, <2>1 DEF Filled
<1>3. CASE EntryLine
  BY <1>2, <1>3, Zenon DEF EntryLine, Insert
<1>4. CASE InsertRelabelled
  BY <1>2, <1>4, Zenon DEF InsertRelabelled, Insert
<1>5. CASE InsertCombined
  BY <1>2, <1>5, Zenon DEF InsertCombined, Insert
<1>6. CASE InsertAlias
  <2> DEFINE key == Head(derived).orth
             e == Head(derived).entry
  <2>1. byOrth' = Fronted(byOrth, key, e)
    BY <1>6 DEF InsertAlias
  <2> HIDE DEF key, e
  <2>2. \A k \in DOMAIN Fronted(byOrth, key, e) : ToSet(Fronted(byOrth, key, e)[k]) # {}
    BY <1>1, LongerFilled DEF Filled
  <2> QED BY <2>1, <2>2 DEF Filled
<1>7. CASE ApplyHints
  <2>1. byOrth' = NoEntries
    BY <1>7 DEF ApplyHints
  <2> QED BY <2>1 DEF Filled, NoEntries
<1>8. CASE byOrth' = byOrth
  BY <1>8 DEF Filled
<1>9. CASE TagsetLine \/ TagsetEnd \/ CopyrightLine \/ MetadataLine \/ ShortLine \/ DictionaryEnd \/ HintsEnd
  BY <1>8, <1>9 DEF TagsetLine, TagsetEnd, CopyrightLine, MetadataLine, ShortLine, DictionaryEnd, HintsEnd, dictionary
<1>10. CASE UNCHANGED dictVars
  BY <1>8, <1>10 DEF dictVars, dictionary
<1> QED BY <1>3, <1>4, <1>5, <1>6, <1>7, <1>9, <1>10 DEF Load
-----------------------------------------------------------------------------
(* The segments of the session's text                                      *)

Cut == IF engine.native THEN WhitespaceRuns(text) ELSE Tokenize(text)

(* What is known of them, however the text is cut: they are not empty, all *)
(* space or none, no two spaces meet, and joined they are the text.        *)
Segmented ==
  LET n == Len(segments) IN
  /\ text \in Seq(Characters) /\ segments \in Seq(Seq(Characters)) /\ n \in Nat
  /\ DOMAIN segments = 1 .. n
  /\ \A i \in 1 .. n :
       /\ segments[i] \in Seq(Characters) /\ segments[i] # <<>>
       /\ IsSpace(segments[i]) => White(segments[i])
       /\ ~IsSpace(segments[i]) => NoWhite(segments[i])
       /\ IsSpace(segments[i]) /\ i + 1 \in 1 .. n => ~IsSpace(segments[i + 1])
       /\ Join(i, i + 1) = segments[i]
  /\ \A i \in 1 .. n + 1 :
       /\ Join(i, i) = <<>>
       /\ \A j \in i .. n + 1 :
            /\ Join(i, j) \in Seq(Characters)
            /\ \E a \in 0 .. Len(text) : \E b \in a .. Len(text) : Join(i, j) = Part(text, a, b)
            /\ \A k \in j .. n + 1 : Join(i, j) \o Join(j, k) = Join(i, k)
  /\ Join(1, n + 1) = text

(* What is known of segments follows from where the text is cut.           *)
LEMMA CutIsSegmented ==
  ASSUME text \in Seq(Characters), segments = Cut
  PROVE  Segmented
<1> DEFINE n == Len(segments)
<1>1. PICK first, cuts : Cuts(first, text, cuts, segments) /\ Divides(cuts, text)
  <2>1. /\ \E first : Cuts(first, text, TokenCuts(text), Tokenize(text))
        /\ \E first : Cuts(first, text, RunCuts(text), WhitespaceRuns(text))
        /\ Divides(TokenCuts(text), text) /\ Divides(RunCuts(text), text)
    BY TextsCut
  <2>2. segments = WhitespaceRuns(text) \/ segments = Tokenize(text)
    BY DEF Cut
  <2> QED BY <2>1, <2>2, Zenon
<1>2. /\ \A i \in 1 .. n : segments[i] \in Seq(Characters) /\ segments[i] # <<>>
      /\ n \in Nat /\ DOMAIN segments = 1 .. n /\ segments \in Seq(Seq(Characters))
  <2>1. /\ \A i \in 1 .. Len(segments) : segments[i] \in Seq(Characters) /\ segments[i] # <<>>
        /\ Len(segments) \in Nat /\ DOMAIN segments = 1 .. Len(segments)
        /\ segments \in Seq(Seq(Characters))
    <3> DEFINE s == segments
               C == Characters
    <3>1. Cuts(first, text, cuts, s) /\ text \in Seq(C)
      BY <1>1
    <3> HIDE DEF s, C
    <3>2. \A i \in 1 .. Len(s) : s[i] \in Seq(C) /\ s[i] # <<>>
      BY <3>1, CutPieces
    <3>3. Len(s) \in Nat
      BY <3>1, CutPieces
    <3>4. DOMAIN s = 1 .. Len(s)
      BY <3>1, CutPieces
    <3>5. s \in Seq(Seq(C))
      BY <3>1, CutPieces, Zenon
    <3> QED BY <3>2, <3>3, <3>4, <3>5 DEF s, C
  <2> QED BY <2>1, Zenon
<1>3. /\ \A i \in 1 .. n :
           /\ IsSpace(segments[i]) => White(segments[i])
           /\ ~IsSpace(segments[i]) => NoWhite(segments[i])
      /\ \A i \in 1 .. n : IsSpace(segments[i]) /\ i + 1 \in 1 .. n => ~IsSpace(segments[i + 1])
  BY <1>1, PiecesOfSpaces
<1>4. \A i \in 1 .. n + 1 : \A j \in i .. n + 1 :
        /\ first[i] - 1 \in 0 .. Len(text) /\ first[j] - 1 \in first[i] - 1 .. Len(text)
        /\ Join(i, j) = Part(text, first[i] - 1, first[j] - 1)
        /\ Join(i, j) \in Seq(Characters)
  BY <1>1, JoinIs
<1>5. \A i \in 1 .. n : Join(i, i + 1) = segments[i]
  BY <1>2, JoinOne
<1>6. \A i \in 1 .. n + 1 : Join(i, i) = <<>>
  BY <1>2, JoinStep
<1>7. \A i \in 1 .. n + 1 : \A j \in i .. n + 1 : \A k \in j .. n + 1 : Join(i, j) \o Join(j, k) = Join(i, k)
  BY <1>1, JoinsJoin
<1>8. Join(1, n + 1) = text
  BY <1>1, JoinAll
<1>9. \A i \in 1 .. n + 1 : \A j \in i .. n + 1 :
        /\ Join(i, j) \in Seq(Characters)
        /\ \E a \in 0 .. Len(text) : \E b \in a .. Len(text) : Join(i, j) = Part(text, a, b)
  BY <1>4, Zenon
<1> HIDE DEF n
<1> QED BY <1>2, <1>3, <1>5, <1>6, <1>7, <1>8, <1>9, Zenon DEF Segmented, n

(* A run ends before the next space or at the end of the text, and goes on *)
(* until there.                                                            *)
LEMMA RunEndIs ==
  ASSUME Segmented, NEW i \in 1 .. Len(segments) + 1
  PROVE  /\ RunEnd(i) \in i .. Len(segments) + 1
         /\ \A k \in i .. RunEnd(i) - 1 : k \in 1 .. Len(segments) /\ ~IsSpace(segments[k])
         /\ RunEnd(i) \in 1 .. Len(segments) => IsSpace(segments[RunEnd(i)])
         /\ i \in 1 .. Len(segments) /\ ~IsSpace(segments[i]) => RunEnd(i) \in i + 1 .. Len(segments) + 1
<1> DEFINE n == Len(segments)
           spaces == {j \in i .. n : IsSpace(segments[j])}
           r == RunEnd(i)
<1>1. n \in Nat
  BY DEF Segmented
<1> HIDE DEF n
<1>2. \A j : j \in spaces <=> j \in i .. n /\ IsSpace(segments[j])
  BY Zenon
<1>3. r = IF spaces = {} THEN n + 1 ELSE Min(spaces)
  BY Zenon DEF RunEnd, n
<1> HIDE DEF spaces, r
<1>4. CASE spaces = {}
  <2>1. r = n + 1
    BY <1>3, <1>4
  <2>2. \A k \in i .. n : ~IsSpace(segments[k])
    BY <1>2, <1>4, Zenon
  <2>3. i \in Nat /\ 1 <= i /\ i <= n + 1
    BY <1>1 DEF n
  <2>4. /\ r \in i .. n + 1 /\ r \notin 1 .. n
        /\ \A k \in i .. r - 1 : k \in 1 .. n /\ k \in i .. n
        /\ i \in 1 .. n => r \in i + 1 .. n + 1
    BY <1>1, <2>1, <2>3
  <2> QED BY <2>2, <2>4 DEF n, r
<1>5. CASE spaces # {}
  <2>1. PICK j \in spaces : \A k \in spaces : j <= k
    <3>1. i .. n \subseteq Nat
      BY <1>1 DEF n
    <3>2. spaces \in SUBSET Nat
      BY <1>2, <3>1, Zenon
    <3> QED BY <1>5, <3>2, LeastOf
  <2>2. \A k \in spaces : k \in Int /\ j <= k
    <3>1. \A k \in i .. n : k \in Int
      BY <1>1 DEF n
    <3> QED BY <1>2, <2>1, <3>1, Zenon
  <2>3. r = j
    BY <1>3, <1>5, <2>1, <2>2, LeastIs
  <2>4. j \in i .. n /\ IsSpace(segments[j])
    BY <1>2, <2>1, Zenon
  <2>5. i \in Nat /\ 1 <= i /\ j \in Nat /\ i <= j /\ j <= n
    BY <1>1, <2>4 DEF n
  <2>6. \A k \in i .. j - 1 : k \in 1 .. n /\ k \in i .. n /\ ~(j <= k)
    BY <1>1, <2>5
  <2>7. \A k \in i .. j - 1 : ~IsSpace(segments[k])
    BY <1>2, <2>1, <2>6, Zenon
  <2>8. j \in i .. n + 1 /\ (j # i => j \in i + 1 .. n + 1)
    BY <1>1, <2>5
  <2> QED BY <2>3, <2>4, <2>6, <2>7, <2>8 DEF n, r
<1> QED BY <1>4, <1>5

(* Words up to the next space are left by the removal of spaces.           *)
LEMMA WordsLeft ==
  ASSUME Segmented, NEW i \in 1 .. Len(segments) + 1
  PROVE  \A j \in i .. RunEnd(i) : Unspaced(Join(i, j)) = Join(i, j)
<1> DEFINE n == Len(segments)
           bad == {j \in i .. RunEnd(i) : Unspaced(Join(i, j)) # Join(i, j)}
<1> SUFFICES ASSUME bad # {} PROVE FALSE
  OBVIOUS
<1>1. n \in Nat /\ RunEnd(i) \in i .. n + 1
  BY RunEndIs DEF Segmented
<1>2. PICK j \in bad : \A k \in bad : j <= k
  <2>1. i .. RunEnd(i) \subseteq Nat
    BY <1>1
  <2>2. bad \in SUBSET Nat
    BY <2>1, Zenon
  <2> HIDE DEF bad
  <2> QED BY <2>2, LeastOf
<1>3. j \in i .. RunEnd(i) /\ Unspaced(Join(i, j)) # Join(i, j)
  BY <1>2, Zenon
<1>4. CASE j = i
  <2>1. Join(i, i) = <<>>
    BY DEF Segmented
  <2>2. <<>> \in Seq(Characters) /\ NoWhite(<<>>)
    BY DEF NoWhite
  <2>3. Unspaced(<<>>) = <<>>
    BY <2>2, UnspacedNoWhite
  <2> QED BY <1>3, <1>4, <2>1, <2>3
<1>5. CASE j # i
  <2> DEFINE k == j - 1
  <2>1. /\ k \in i .. RunEnd(i) /\ ~(j <= k) /\ k + 1 = j /\ k \in i .. n + 1 /\ j \in k .. n + 1
        /\ k \in i .. RunEnd(i) - 1
    BY <1>1, <1>3, <1>5
  <2> HIDE DEF k, n
  <2>2. Unspaced(Join(i, k)) = Join(i, k)
    <3>1. k \notin bad
      <4> HIDE DEF bad
      <4> QED BY <1>2, <2>1
    <3> QED BY <2>1, <3>1, Zenon
  <2>3. k \in 1 .. n /\ ~IsSpace(segments[k])
    BY <2>1, RunEndIs DEF n
  <2>4. Join(k, j) = segments[k] /\ segments[k] \in Seq(Characters) /\ NoWhite(segments[k])
    BY <2>1, <2>3 DEF Segmented, n
  <2>5. Join(i, k) \in Seq(Characters) /\ Join(i, k) \o Join(k, j) = Join(i, j)
    BY <2>1 DEF Segmented, n
  <2>6. Unspaced(Join(k, j)) = Join(k, j)
    BY <2>4, UnspacedNoWhite
  <2>7. Unspaced(Join(i, k) \o Join(k, j)) = Unspaced(Join(i, k)) \o Unspaced(Join(k, j))
    <3> DEFINE u == Join(i, k)
               v == Join(k, j)
    <3>1. u \in Seq(Characters) /\ v \in Seq(Characters)
      BY <2>4, <2>5, Zenon
    <3> HIDE DEF u, v
    <3>2. Unspaced(u \o v) = Unspaced(u) \o Unspaced(v)
      BY <3>1, UnspacedConcat
    <3> QED BY <3>2 DEF u, v
  <2> QED BY <1>3, <2>2, <2>5, <2>6, <2>7
<1> QED BY <1>4, <1>5

-----------------------------------------------------------------------------
(* The inductive invariant of the session                                  *)

Engines == [native : BOOLEAN, whitespace : Modes, numbering : {"separate", "continuous"}]

SessionOK ==
  /\ engine # NoEngine => phase = "ready" /\ engine \in Engines
  /\ asked \in Nat /\ next \in Nat /\ running \in BOOLEAN
  /\ start \in Nat /\ node \in Nat /\ start <= node
  /\ running => asked > 0
  /\ asked > 0 =>
       /\ engine # NoEngine /\ asked <= MaxTexts
       /\ text \in Texts(asked - 1) /\ segments = Cut
       /\ index \in 1 .. Len(segments) + 1
       /\ ~running => index = Len(segments) + 1

(* The text to be spelled by the answer so far, before the segment i.  The *)
(* spaces that are attached go with the word before them, those before the *)
(* first word with it.                                                     *)
WordBefore(i) == \E j \in 1 .. i - 1 : ~IsSpace(segments[j])
Covered(i) ==
  IF engine.whitespace = "skip" THEN Unspaced(Join(1, i))
  ELSE IF engine.whitespace = "keep" THEN Join(1, i)
  ELSE IF WordBefore(i) THEN Join(1, After(i)) ELSE <<>>

(* The loop that attaches spaces comes to words only, after the first.     *)
AtWords(i) ==
  ~engine.native /\ engine.whitespace = "append" /\ i \in DOMAIN segments =>
    i = 1 \/ (~IsSpace(segments[i]) /\ WordBefore(i))

Spelling == SpelledBy(answer, start, node, Covered(index))
Reached == Reaching(answer, start, node) \/ Agglutinated

(* A text up to the next space, and that it is found as a whole.           *)
StartsRun(i) == ~IsSpace(segments[i]) /\ (i = 1 \/ IsSpace(segments[i - 1]))
KnownWhole(run) == Known(run) /\ ~IsDigits(run) /\ ~IsRoman(run)
WholeIn(run, edges) ==
  KnownWhole(run) => \A e \in ToSet(Lookup(run)) : \E f \in edges : f = EntryEdge(e, f.start, f.end, run)

(* A segment, and that it is found, with whatever spaces are around it.    *)
SegmentIn(run, edges) ==
  KnownWhole(run) => \A e \in ToSet(Lookup(run)) : \E f \in edges :
    f = EntryEdge(e, f.start, f.end, f.orth) /\ Unspaced(f.orth) = run

RunsFound(from, to, edges) ==
  /\ ~engine.native /\ engine.whitespace # "append" =>
       \A i \in from .. to : StartsRun(i) => WholeIn(Join(i, RunEnd(i)), edges)
  /\ ~engine.native /\ engine.whitespace = "append" =>
       \A i \in from .. to : ~IsSpace(segments[i]) => SegmentIn(segments[i], edges)

AnswerOK == asked > 0 => AtWords(index) /\ Spelling /\ Reached /\ RunsFound(1, index - 1, answer)
SInv == Filled /\ SessionOK /\ AnswerOK

(* The segments of a session that was given a text are those of the text.  *)
LEMMA SessionSegmented ==
  ASSUME SessionOK, asked > 0
  PROVE  Segmented
<1>1. asked - 1 \in 0 .. MaxTexts - 1
  BY TextsAssumption DEF SessionOK
<1>2. text \in Seq(Characters)
  BY <1>1, TextsAssumption DEF SessionOK, Characters
<1>3. segments = Cut
  BY DEF SessionOK
<1> QED BY <1>2, <1>3, CutIsSegmented

(* What a token adds.                                                      *)
LEMMA TokenSpells ==
  ASSUME Filled, NEW lookup, NEW orth \in Seq(Characters), NEW n \in Nat
  PROVE  LET edges == TokenEdges(lookup, orth, n)
         IN SpelledBy(edges, n, n + 1, orth) /\ Reaching(edges, n, n + 1)
<1> DEFINE edges == TokenEdges(lookup, orth, n)
<1>1. \A e \in edges : e.start = n /\ e.end = n + 1 /\ e.orth = orth
  BY DEF TokenEdges, Number, EntryEdge, Edge
<1>2. edges # {}
  <2>1. CASE Known(lookup)
    <3>1. ToSet(Lookup(lookup)) # {}
      BY <2>1 DEF Filled, Known, Lookup, Found
    <3>2. \E e \in ToSet(Lookup(lookup)) : TRUE
      BY <3>1
    <3> QED BY <3>2, Zenon DEF TokenEdges
  <2>2. CASE ~Known(lookup)
    BY <2>2 DEF TokenEdges
  <2> QED BY <2>1, <2>2
<1> HIDE DEF edges
<1>3. SpelledBy(edges, n, n + 1, orth) /\ Reaching(edges, n, n + 1)
  BY <1>1, <1>2, SegmentSpelled
<1> QED BY <1>3 DEF edges

(* What a segment adds: a token, or the graph of its known slices.         *)
SegmentEdges(orth, n) ==
  IF HasAgltSuffix(orth) THEN InWordGraph(orth, n) ELSE TokenEdges(orth, orth, n)
SegmentNodes(orth) == IF HasAgltSuffix(orth) THEN Cardinality(GraphBoundaries(orth)) - 1 ELSE 1

(* AdvanceSegment adds the edges of the segment and their nodes.           *)
LEMMA SegmentAdvances ==
  ASSUME NEW end, NEW orth, AdvanceSegment(end, orth)
  PROVE  Advance(end, SegmentEdges(orth, node), SegmentNodes(orth))
BY DEF AdvanceSegment, SegmentEdges, SegmentNodes

(* A part of the text with an agglutinate among its slices is one in which *)
(* the text has an agglutinate.                                            *)
LEMMA AgglutinatedPart ==
  ASSUME text \in Seq(Characters), ~engine.native, NEW a \in 0 .. Len(text), NEW b \in a .. Len(text),
         HasAgltSuffix(Part(text, a, b))
  PROVE  Agglutinated
<1> DEFINE w == Part(text, a, b)
<1>1. w \in Seq(Characters) /\ Len(w) = b - a
  BY PartIs
<1>2. PICK s \in KnownSlices(w) : AnyTagged(Slice(w, s), AgltTags)
  BY DEF HasAgltSuffix
<1>3. s[1] \in 0 .. Len(w) /\ s[2] \in 0 .. Len(w) /\ s[1] < s[2]
  BY <1>2 DEF KnownSlices
<1> DEFINE x == s[1]
           y == s[2]
<1> HIDE DEF w, x, y
<1>4. x \in Nat /\ y \in Nat /\ x < y /\ y <= b - a /\ a \in Nat /\ b \in Nat /\ b <= Len(text) /\ Len(text) \in Nat
  BY <1>1, <1>3 DEF x, y
<1>5. SubSeq(w, x + 1, y) = SubSeq(text, a + x + 1, a + y)
  <2> DEFINE P == SubSeq(w, x + 1, y)
             Q == SubSeq(text, a + x + 1, a + y)
  <2>1. P \in Seq(Characters) /\ Len(P) = y - x /\ \A d \in 1 .. y - x : P[d] = w[x + d]
    <3>1. x \in 0 .. Len(w) /\ y \in x .. Len(w)
      BY <1>1, <1>4
    <3>2. /\ Part(w, x, y) \in Seq(Characters) /\ Len(Part(w, x, y)) = y - x
          /\ \A d \in 1 .. y - x : Part(w, x, y)[d] = w[x + d]
      BY <1>1, <3>1, PartIs
    <3> QED BY <3>2 DEF Part
  <2>2. Q \in Seq(Characters) /\ Len(Q) = y - x /\ \A d \in 1 .. y - x : Q[d] = text[a + x + d]
    <3> DEFINE g == a + x
               h == a + y
    <3>1. g \in 0 .. Len(text) /\ h \in g .. Len(text) /\ h - g = y - x
      BY <1>4
    <3>2. Q = Part(text, g, h)
      BY DEF Part
    <3> HIDE DEF g, h, Q
    <3>3. Q \in Seq(Characters) /\ Len(Q) = h - g /\ \A d \in 1 .. h - g : Q[d] = text[g + d]
      BY <3>1, <3>2, PartIs
    <3> QED BY <3>1, <3>3 DEF g
  <2>3. \A d \in 1 .. b - a : w[d] = text[a + d]
    BY PartIs DEF w
  <2> HIDE DEF P, Q
  <2>4. \A d \in 1 .. y - x : P[d] = Q[d]
    <3> SUFFICES ASSUME NEW d \in 1 .. y - x PROVE P[d] = Q[d]
      OBVIOUS
    <3>1. x + d \in 1 .. b - a /\ a + (x + d) = a + x + d
      BY <1>4
    <3> QED BY <2>1, <2>2, <2>3, <3>1
  <2>5. P = Q
    BY <2>1, <2>2, <2>4
  <2> QED BY <2>5 DEF P, Q
<1>6. a + x + 1 \in 1 .. Len(text) /\ a + y \in 1 .. Len(text)
  BY <1>4
<1>7. Slice(w, s) = SubSeq(w, x + 1, y)
  BY DEF Slice, x, y
<1>8. AnyTagged(SubSeq(text, a + x + 1, a + y), AgltTags)
  BY <1>2, <1>5, <1>7 DEF w
<1>9. DOMAIN text = 1 .. Len(text)
  OBVIOUS
<1> QED BY <1>6, <1>8, <1>9 DEF Agglutinated

(* What a segment, or several that are joined, add spells them; it has no  *)
(* gap but for agglutinates.                                               *)
LEMMA SegmentSpells ==
  ASSUME Filled, Segmented, ~engine.native, NEW i \in 1 .. Len(segments) + 1,
         NEW j \in i .. Len(segments) + 1, NEW n \in Nat
  PROVE  LET orth == Join(i, j)
             edges == SegmentEdges(orth, n)
             m == SegmentNodes(orth)
         IN /\ m \in Nat /\ SpelledBy(edges, n, n + m, orth)
            /\ Reaching(edges, n, n + m) \/ Agglutinated
<1> DEFINE orth == Join(i, j)
           edges == SegmentEdges(orth, n)
           m == SegmentNodes(orth)
<1>1. orth \in Seq(Characters) /\ \E a \in 0 .. Len(text) : \E b \in a .. Len(text) : orth = Part(text, a, b)
  BY DEF Segmented
<1> HIDE DEF orth
<1>2. CASE HasAgltSuffix(orth)
  <2>1. Agglutinated
    <3>1. text \in Seq(Characters)
      BY DEF Segmented
    <3> QED BY <1>1, <1>2, <3>1, AgglutinatedPart
  <2>2. edges = InWordGraph(orth, n) /\ m = Cardinality(GraphBoundaries(orth)) - 1
    BY <1>2 DEF SegmentEdges, SegmentNodes
  <2>3. m \in Nat /\ SpelledBy(InWordGraph(orth, n), n, n + m, orth)
    <3>1. LET k == Cardinality(GraphBoundaries(orth)) - 1
          IN k \in Nat /\ SpelledBy(InWordGraph(orth, n), n, n + k, orth)
      BY <1>1, GraphSpells
    <3> QED BY <2>2, <3>1
  <2> QED BY <2>1, <2>2, <2>3 DEF orth
<1>3. CASE ~HasAgltSuffix(orth)
  <2>1. edges = TokenEdges(orth, orth, n) /\ m = 1
    BY <1>3 DEF SegmentEdges, SegmentNodes
  <2>2. SpelledBy(TokenEdges(orth, orth, n), n, n + 1, orth) /\ Reaching(TokenEdges(orth, orth, n), n, n + 1)
    BY <1>1, TokenSpells
  <2> QED BY <2>1, <2>2 DEF orth
<1> QED BY <1>2, <1>3

(* After spaces there is a word or the end.                                *)
LEMMA AfterIs ==
  ASSUME Segmented, NEW i \in 1 .. Len(segments) + 1
  PROVE  /\ After(i) \in i .. Len(segments) + 1
         /\ Join(i, After(i)) = SpacesAt(i) /\ SpacesAt(i) \in Seq(Characters)
         /\ After(i) \in 1 .. Len(segments) => ~IsSpace(segments[After(i)])
         /\ SpacesAt(i) = <<>> => After(i) = i
         /\ i \in 1 .. Len(segments) /\ IsSpace(segments[i]) => After(i) = i + 1
<1> DEFINE n == Len(segments)
<1>1. /\ n \in Nat /\ DOMAIN segments = 1 .. n
      /\ \A k \in 1 .. n : segments[k] \in Seq(Characters) /\ segments[k] # <<>> /\ Join(k, k + 1) = segments[k]
      /\ \A k \in 1 .. n : IsSpace(segments[k]) /\ k + 1 \in 1 .. n => ~IsSpace(segments[k + 1])
      /\ Join(i, i) = <<>>
  BY DEF Segmented
<1> HIDE DEF n
<1>2. CASE i \in 1 .. n /\ IsSpace(segments[i])
  <2>1. SpacesAt(i) = segments[i]
    BY <1>1, <1>2 DEF SpacesAt
  <2>2. After(i) = i + 1
    BY <1>1, <1>2, <2>1 DEF After
  <2>3. i + 1 \in i .. n + 1
    BY <1>1, <1>2
  <2> QED BY <1>1, <1>2, <2>1, <2>2, <2>3 DEF n
<1>3. CASE ~(i \in 1 .. n /\ IsSpace(segments[i]))
  <2>1. SpacesAt(i) = <<>>
    BY <1>1, <1>3 DEF SpacesAt
  <2>2. After(i) = i
    BY <2>1 DEF After
  <2>3. i \in i .. n + 1
    BY <1>1 DEF n
  <2>4. <<>> \in Seq(Characters)
    OBVIOUS
  <2> QED BY <1>1, <1>3, <2>1, <2>2, <2>3, <2>4 DEF n
<1> QED BY <1>2, <1>3

(* The text that is covered is a sequence of characters.                   *)
LEMMA CoveredListed ==
  ASSUME Segmented, NEW i \in 1 .. Len(segments) + 1
  PROVE  Covered(i) \in Seq(Characters)
<1>1. After(i) \in i .. Len(segments) + 1 /\ Len(segments) \in Nat
  BY AfterIs DEF Segmented
<1>2. 1 \in 1 .. Len(segments) + 1 /\ i \in 1 .. Len(segments) + 1 /\ After(i) \in 1 .. Len(segments) + 1
  BY <1>1
<1>3. Join(1, i) \in Seq(Characters) /\ Join(1, After(i)) \in Seq(Characters)
  BY <1>2 DEF Segmented
<1>4. Unspaced(Join(1, i)) \in Seq(Characters)
  BY <1>3, UnspacedConcat
<1>5. <<>> \in Seq(Characters)
  OBVIOUS
<1> QED BY <1>3, <1>4, <1>5 DEF Covered

(* A step of the loops adds what spells the segments it goes past.         *)
LEMMA AdvanceKeeps ==
  ASSUME SInv, running, NEW end \in index .. Len(segments) + 1, NEW edges, NEW m \in Nat,
         NEW t \in Seq(Characters), Advance(end, edges, m),
         SpelledBy(edges, node, node + m, t), Reaching(edges, node, node + m) \/ Agglutinated,
         Covered(index) \o t = Covered(end), AtWords(end), RunsFound(index, end - 1, edges)
  PROVE  SInv'
<1>0. asked > 0 /\ SessionOK /\ Filled
  BY DEF SInv, SessionOK
<1>1. /\ answer' = answer \cup edges /\ node' = node + m /\ index' = end
      /\ engine' = engine /\ asked' = asked /\ next' = next /\ running' = running
      /\ text' = text /\ segments' = segments /\ start' = start
      /\ byOrth' = byOrth /\ resolver' = resolver /\ phase' = phase
  BY DEF Advance, session, dictVars, loading, dictionary
<1>2. Segmented
  BY <1>0, SessionSegmented
<1>3. /\ engine # NoEngine /\ asked <= MaxTexts /\ asked \in Nat /\ next \in Nat
      /\ text \in Texts(asked - 1) /\ segments = Cut
      /\ index \in 1 .. Len(segments) + 1 /\ start \in Nat /\ node \in Nat /\ start <= node
      /\ phase = "ready" /\ engine \in Engines
  BY <1>0 DEF SessionOK
<1>4. Len(segments) \in Nat
  BY <1>2 DEF Segmented
<1>5. end \in 1 .. Len(segments) + 1
  BY <1>3, <1>4
<1>6. Filled'
  BY <1>0, <1>1 DEF Filled
<1>7. SessionOK'
  <2>1. node' \in Nat /\ start' <= node'
    <3>1. node + m \in Nat /\ start <= node + m
      BY <1>3
    <3> QED BY <1>1, <3>1
  <2>2. Cut' = Cut
    BY <1>1 DEF Cut
  <2>3. end = end
    OBVIOUS
  <2> QED BY <1>0, <1>1, <1>3, <1>5, <2>1, <2>2 DEF SessionOK
<1>8. AnswerOK
  BY DEF SInv
<1>9. AtWords(index) /\ Spelling /\ Reached /\ RunsFound(1, index - 1, answer)
  BY <1>0, <1>8 DEF AnswerOK
<1>10. AtWords(index)'
  BY <1>1 DEF AtWords, WordBefore
<1>11. Covered(index)' = Covered(end)
  BY <1>1 DEF Covered, WordBefore, Join, After, SpacesAt
<1>12. Spelling'
  <2>1. node \in Nat /\ node + m \in Nat /\ start \in Nat /\ start <= node /\ node <= node + m
    BY <1>3
  <2>2. Covered(index) \in Seq(Characters)
    BY <1>2, <1>3, CoveredListed
  <2>3. SpelledBy(answer, start, node, Covered(index))
    BY <1>9 DEF Spelling
  <2> DEFINE c == Covered(index)
             mid == node + m
  <2> HIDE DEF c, mid
  <2>4. SpelledBy(answer \cup edges, start, mid, c \o t)
    BY <2>1, <2>2, <2>3, SpellingAppended DEF c, mid
  <2>5. c \o t = Covered(index)'
    BY <1>11 DEF c
  <2> QED BY <1>1, <2>4, <2>5 DEF Spelling, mid
<1>13. Reached'
  <2>1. CASE Agglutinated
    <3>1. Agglutinated' <=> Agglutinated
      BY <1>1 DEF Agglutinated, AnyTagged, Lookup, Found, Tag
    <3> QED BY <2>1, <3>1 DEF Reached
  <2>2. CASE Reaching(answer, start, node) /\ Reaching(edges, node, node + m)
    <3> DEFINE mid == node + m
    <3>1. mid \in Nat /\ start <= node /\ node <= mid
      BY <1>3
    <3> HIDE DEF mid
    <3>2. \A e \in answer : e.end \in start .. node
      <4>1. \A e \in answer : e.start \in start .. node /\ e.end \in e.start + 1 .. node
        BY <1>9 DEF Spelling, SpelledBy
      <4>2. start \in Nat /\ node \in Nat
        BY <1>3
      <4> QED BY ONLY <4>1, <4>2
    <3>3. \A e \in edges : e.end \in node .. mid
      <4>1. \A e \in edges : e.start \in node .. mid /\ e.end \in e.start + 1 .. mid
        BY DEF SpelledBy, mid
      <4>2. node \in Nat /\ mid \in Nat
        BY <1>3, <3>1
      <4> QED BY ONLY <4>1, <4>2
    <3>4. Reaching(edges, node, mid)
      BY <2>2 DEF mid
    <3>5. Reaching(answer \cup edges, start, mid)
      BY <1>3, <2>2, <3>1, <3>2, <3>3, <3>4, ReachingAppended
    <3> QED BY <1>1, <3>5 DEF Reached, mid
  <2> QED BY <1>9, <2>1, <2>2 DEF Reached
<1>14. RunsFound(1, index - 1, answer)'
  <2>0. \A i \in 1 .. end - 1 : i \in 1 .. index - 1 \/ i \in index .. end - 1
    BY <1>3, <1>5
  <2>1. ASSUME ~engine.native, engine.whitespace # "append", NEW i \in 1 .. end - 1, StartsRun(i)'
        PROVE  WholeIn(Join(i, RunEnd(i)), answer)'
    <3>1. StartsRun(i)
      BY <1>1, <2>1 DEF StartsRun
    <3> DEFINE run == Join(i, RunEnd(i))
    <3>2. run' = run
      BY <1>1 DEF Join, RunEnd
    <3>3. WholeIn(run, answer) \/ WholeIn(run, edges)
      BY <1>9, <2>0, <2>1, <3>1 DEF RunsFound
    <3> HIDE DEF run
    <3>4. KnownWhole(run)' <=> KnownWhole(run)
      BY <1>1, <3>2 DEF KnownWhole, Known, IsDigits, IsRoman
    <3>5. Lookup(run)' = Lookup(run)
      BY <1>1, <3>2 DEF Lookup, Found
    <3>6. WholeIn(run, answer)'
      BY <1>1, <3>2, <3>3, <3>4, <3>5 DEF WholeIn
    <3> QED BY <3>6 DEF run
  <2>2. ASSUME ~engine.native, engine.whitespace = "append", NEW i \in 1 .. end - 1, ~IsSpace(segments[i])
        PROVE  SegmentIn(segments[i], answer)'
    <3> DEFINE run == segments[i]
    <3>1. run' = run
      BY <1>1
    <3>2. SegmentIn(run, answer) \/ SegmentIn(run, edges)
      BY <1>9, <2>0, <2>2 DEF RunsFound
    <3> HIDE DEF run
    <3>3. KnownWhole(run)' <=> KnownWhole(run)
      BY <1>1, <3>1 DEF KnownWhole, Known, IsDigits, IsRoman
    <3>4. Lookup(run)' = Lookup(run)
      BY <1>1, <3>1 DEF Lookup, Found
    <3>5. SegmentIn(run, answer)'
      BY <1>1, <3>1, <3>2, <3>3, <3>4 DEF SegmentIn
    <3> QED BY <3>5 DEF run
  <2> QED BY <1>1, <2>1, <2>2 DEF RunsFound
<1>15. AnswerOK'
  BY <1>10, <1>12, <1>13, <1>14 DEF AnswerOK
<1> QED BY <1>6, <1>7, <1>15 DEF SInv

-----------------------------------------------------------------------------
(* The steps past spaces                                                   *)

(* What an invariant says of a session that runs.                          *)
LEMMA Runs ==
  ASSUME SInv, running
  PROVE  /\ Segmented /\ Filled /\ SessionOK /\ asked > 0
         /\ index \in 1 .. Len(segments) + 1 /\ Len(segments) \in Nat /\ DOMAIN segments = 1 .. Len(segments)
         /\ node \in Nat /\ engine \in Engines /\ AtWords(index)
         /\ engine.whitespace \in {"skip", "keep", "append"} /\ engine.native \in BOOLEAN
<1>1. SessionOK /\ asked > 0 /\ Filled /\ AnswerOK
  BY DEF SInv, SessionOK
<1>2. Segmented
  BY <1>1, SessionSegmented
<1>3. index \in 1 .. Len(segments) + 1 /\ node \in Nat /\ engine \in Engines
  BY <1>1 DEF SessionOK
<1>4. AtWords(index)
  BY <1>1 DEF AnswerOK
<1>5. engine.whitespace \in {"skip", "keep", "append"} /\ engine.native \in BOOLEAN
  BY <1>3 DEF Engines, Modes
<1> QED BY <1>1, <1>2, <1>3, <1>4, <1>5 DEF Segmented

(* A segment more in the texts that are covered.                           *)
LEMMA OneMore ==
  ASSUME Segmented, NEW i \in 1 .. Len(segments)
  PROVE  /\ Join(1, i) \in Seq(Characters) /\ segments[i] \in Seq(Characters)
         /\ Join(1, i + 1) = Join(1, i) \o segments[i]
         /\ Unspaced(Join(1, i + 1)) = Unspaced(Join(1, i)) \o Unspaced(segments[i])
         /\ Unspaced(Join(1, i)) \in Seq(Characters)
<1> DEFINE n == Len(segments)
<1>1. n \in Nat /\ 1 \in 1 .. n + 1 /\ i \in 1 .. n + 1 /\ i + 1 \in i .. n + 1
  BY DEF Segmented
<1>2. Join(1, i) \in Seq(Characters) /\ Join(1, i) \o Join(i, i + 1) = Join(1, i + 1)
  BY <1>1 DEF Segmented
<1>3. Join(i, i + 1) = segments[i] /\ segments[i] \in Seq(Characters)
  BY DEF Segmented
<1> DEFINE u == Join(1, i)
           v == segments[i]
<1> HIDE DEF u, v, n
<1>4. u \in Seq(Characters) /\ v \in Seq(Characters)
  BY <1>2, <1>3 DEF u, v
<1>5. Unspaced(u \o v) = Unspaced(u) \o Unspaced(v) /\ Unspaced(u) \in Seq(Characters)
  BY <1>4, UnspacedConcat
<1>6. Join(1, i + 1) = u \o v
  BY <1>2, <1>3 DEF u, v
<1> QED BY <1>4, <1>5, <1>6 DEF u, v

(* A word is before the next segment when one is before this one or this   *)
(* one is a word.                                                          *)
LEMMA WordBeforeNext ==
  ASSUME NEW i \in Nat \ {0}
  PROVE  WordBefore(i + 1) <=> WordBefore(i) \/ ~IsSpace(segments[i])
<1>1. \A j : j \in 1 .. i + 1 - 1 <=> j \in 1 .. i - 1 \/ j = i
  OBVIOUS
<1> QED BY <1>1 DEF WordBefore

(* Skipped spaces are none of the text to be spelled, or go with the word  *)
(* before them.                                                            *)
LEMMA SkipSpacesKeeps == SInv /\ SkipSpaces => SInv'
<1> SUFFICES ASSUME SInv, SkipSpaces PROVE SInv'
  OBVIOUS
<1>1. PICK i \in DOMAIN segments :
        /\ At(i) /\ IsSpace(segments[i])
        /\ engine.whitespace = "skip" \/ (engine.whitespace = "append" /\ engine.native)
        /\ Advance(i + 1, {}, 0)
  BY DEF SkipSpaces
<1>2. running /\ index = i
  BY <1>1 DEF At
<1>3. Segmented /\ Len(segments) \in Nat /\ DOMAIN segments = 1 .. Len(segments) /\ node \in Nat
  BY <1>2, Runs
<1>4. i \in 1 .. Len(segments) /\ i + 1 \in index .. Len(segments) + 1 /\ i \in 1 .. Len(segments) + 1
      /\ i + 1 \in 1 .. Len(segments) + 1 /\ i \in Nat \ {0}
  BY <1>2, <1>3
<1>5. SpelledBy({}, node, node + 0, <<>>) /\ Reaching({}, node, node + 0)
  <2>1. node + 0 = node
    BY <1>3
  <2> QED BY <1>3, <2>1, NothingSpelled
<1>6. Covered(i) \o <<>> = Covered(i + 1)
  <2>1. Covered(i) \in Seq(Characters) /\ Covered(i) \o <<>> = Covered(i)
    BY <1>3, <1>4, CoveredListed, ConcatEmptySeq
  <2>2. CASE engine.whitespace = "skip"
    <3>1. Unspaced(segments[i]) = <<>>
      <4>1. White(segments[i]) /\ segments[i] \in Seq(Characters)
        BY <1>1, <1>3, <1>4 DEF Segmented
      <4> QED BY <4>1, UnspacedWhite
    <3>2. Unspaced(Join(1, i + 1)) = Unspaced(Join(1, i)) \o <<>>
      BY <1>3, <1>4, <3>1, OneMore
    <3> QED BY <2>2, <3>2 DEF Covered
  <2>3. CASE engine.whitespace = "append"
    <3>1. WordBefore(i + 1) <=> WordBefore(i)
      BY <1>1, <1>4, WordBeforeNext
    <3>2. After(i) = i + 1
      BY <1>1, <1>3, <1>4, AfterIs
    <3>3. After(i + 1) = i + 1
      <4>1. i + 1 \in 1 .. Len(segments) => ~IsSpace(segments[i + 1])
        BY <1>1, <1>3, <1>4 DEF Segmented
      <4>2. SpacesAt(i + 1) = <<>>
        BY <1>3, <4>1 DEF SpacesAt
      <4> QED BY <4>2 DEF After
    <3> QED BY <2>1, <2>3, <3>1, <3>2, <3>3 DEF Covered
  <2> QED BY <1>1, <2>2, <2>3
<1>7. AtWords(i + 1)
  BY <1>1 DEF AtWords
<1>8. RunsFound(index, i + 1 - 1, {})
  <2>1. \A k \in i .. i + 1 - 1 : k = i
    BY <1>4
  <2>2. ~StartsRun(i) /\ IsSpace(segments[i])
    BY <1>1 DEF StartsRun
  <2> QED BY <1>2, <2>1, <2>2 DEF RunsFound
<1>9. <<>> \in Seq(Characters) /\ 0 \in Nat
  OBVIOUS
<1> DEFINE end == i + 1
           none == {}
           m == 0
<1>10. /\ end \in index .. Len(segments) + 1 /\ m \in Nat /\ Advance(end, none, m)
       /\ SpelledBy(none, node, node + m, <<>>) /\ Reaching(none, node, node + m)
       /\ Covered(index) \o <<>> = Covered(end) /\ AtWords(end) /\ RunsFound(index, end - 1, none)
  BY <1>1, <1>2, <1>4, <1>5, <1>6, <1>7, <1>8
<1> HIDE DEF end, none, m
<1> QED BY <1>2, <1>9, <1>10, AdvanceKeeps

(* Spaces that are kept are an edge that spells them.                      *)
LEMMA KeepSpacesKeeps == SInv /\ KeepSpaces => SInv'
<1> SUFFICES ASSUME SInv, KeepSpaces PROVE SInv'
  OBVIOUS
<1>1. PICK i \in DOMAIN segments :
        /\ At(i) /\ IsSpace(segments[i]) /\ engine.whitespace = "keep"
        /\ Advance(i + 1, {Space(node, segments[i])}, 1)
  BY DEF KeepSpaces
<1>2. running /\ index = i
  BY <1>1 DEF At
<1>3. Segmented /\ Len(segments) \in Nat /\ DOMAIN segments = 1 .. Len(segments) /\ node \in Nat
  BY <1>2, Runs
<1>4. i \in 1 .. Len(segments) /\ i + 1 \in index .. Len(segments) + 1
  BY <1>2, <1>3
<1> DEFINE t == segments[i]
           edges == {Space(node, t)}
           end == i + 1
           m == 1
<1>5. t \in Seq(Characters) /\ Join(1, i + 1) = Join(1, i) \o t
  BY <1>3, <1>4, OneMore
<1>6. edges # {} /\ \A e \in edges : e.start = node /\ e.end = node + 1 /\ e.orth = t
  BY DEF Space, Edge
<1>7. Covered(i) \o t = Covered(i + 1)
  BY <1>1, <1>5 DEF Covered
<1>8. AtWords(i + 1)
  BY <1>1 DEF AtWords
<1>9. RunsFound(index, i + 1 - 1, edges)
  <2>1. \A k \in i .. i + 1 - 1 : k = i
    BY <1>4
  <2>2. ~StartsRun(i) /\ IsSpace(segments[i])
    BY <1>1 DEF StartsRun
  <2> QED BY <1>2, <2>1, <2>2 DEF RunsFound
<1>10. Advance(end, edges, m)
  BY <1>1
<1> HIDE DEF t, edges
<1>11. SpelledBy(edges, node, node + 1, t) /\ Reaching(edges, node, node + 1)
  BY <1>3, <1>5, <1>6, SegmentSpelled
<1>12. /\ end \in index .. Len(segments) + 1 /\ m \in Nat
       /\ SpelledBy(edges, node, node + m, t) /\ Reaching(edges, node, node + m)
       /\ Covered(index) \o t = Covered(end) /\ AtWords(end) /\ RunsFound(index, end - 1, edges)
  BY <1>2, <1>4, <1>7, <1>8, <1>9, <1>11
<1> HIDE DEF end, m
<1> QED BY <1>2, <1>5, <1>10, <1>12, AdvanceKeeps

-----------------------------------------------------------------------------
(* The steps past words                                                    *)

(* The greatest of the numbers of a set.                                   *)
LEMMA GreatestIs ==
  ASSUME NEW a \in Nat, NEW b \in Nat, NEW S, S \subseteq a .. b, S # {}
  PROVE  Max(S) \in S /\ \A y \in S : y <= Max(S)
<1> DEFINE below == {b - y : y \in S}
<1>1. \A y \in S : y \in Int /\ a <= y /\ y <= b /\ b - y \in Nat
  OBVIOUS
<1>2. below \in SUBSET Nat /\ below # {}
  <2>1. \A d \in below : d \in Nat
    BY <1>1
  <2>2. \E y \in S : b - y \in below
    OBVIOUS
  <2> HIDE DEF below
  <2> QED BY <2>1, <2>2, Zenon
<1>3. \A y \in S : b - y \in below
  OBVIOUS
<1>4. \A d \in below : \E y \in S : d = b - y
  OBVIOUS
<1> HIDE DEF below
<1>5. PICK d \in below : \A k \in below : d <= k
  BY <1>2, LeastOf
<1>6. PICK x \in S : d = b - x
  BY <1>4
<1>7. \A y \in S : x >= y
  <2> SUFFICES ASSUME NEW y \in S PROVE x >= y
    OBVIOUS
  <2>1. b - x <= b - y
    BY <1>3, <1>5, <1>6
  <2> QED BY <1>1, <2>1
<1>8. Max(S) \in S /\ \A y \in S : Max(S) >= y
  BY <1>7, Zenon DEF Max
<1>9. \A x1, y1 \in S : x1 >= y1 => y1 <= x1
  BY <1>1
<1> QED BY <1>8, <1>9

(* Words up to the next space, as the modes that join them have it.        *)
LEMMA WordsCovered ==
  ASSUME Segmented, engine.whitespace \in {"skip", "keep"}, NEW i \in 1 .. Len(segments) + 1,
         NEW end \in i .. RunEnd(i)
  PROVE  Covered(i) \o Join(i, end) = Covered(end)
<1>1. /\ Len(segments) \in Nat /\ end \in i .. Len(segments) + 1 /\ 1 \in 1 .. Len(segments) + 1
      /\ i \in 1 .. Len(segments) + 1
  <2>1. Len(segments) \in Nat
    BY DEF Segmented
  <2>2. RunEnd(i) \in i .. Len(segments) + 1
    BY RunEndIs
  <2> QED BY <2>1, <2>2
<1> DEFINE u == Join(1, i)
           v == Join(i, end)
<1>2. u \in Seq(Characters) /\ v \in Seq(Characters) /\ u \o v = Join(1, end)
  BY <1>1 DEF Segmented
<1>3. Unspaced(v) = v
  BY WordsLeft
<1> HIDE DEF u, v
<1>4. Unspaced(u \o v) = Unspaced(u) \o Unspaced(v)
  BY <1>2, UnspacedConcat
<1>5. CASE engine.whitespace = "skip"
  <2>1. Covered(i) = Unspaced(u) /\ Covered(end) = Unspaced(u \o v)
    BY <1>2, <1>5 DEF Covered, u
  <2> QED BY <1>3, <1>4, <2>1 DEF v
<1>6. CASE engine.whitespace = "keep"
  <2>1. Covered(i) = u /\ Covered(end) = u \o v
    BY <1>2, <1>6 DEF Covered, u
  <2> QED BY <2>1 DEF v
<1> QED BY <1>5, <1>6

(* A text that is known as a whole is found in what its segment adds.      *)
LEMMA WholeSegment ==
  ASSUME NEW run \in Seq(Characters), run # <<>>, NEW n
  PROVE  WholeIn(run, SegmentEdges(run, n))
<1> SUFFICES ASSUME KnownWhole(run), NEW e \in ToSet(Lookup(run))
             PROVE  \E f \in SegmentEdges(run, n) : f = EntryEdge(e, f.start, f.end, run)
  BY DEF WholeIn
<1>1. ASSUME NEW a, NEW b, EntryEdge(e, a, b, run) \in SegmentEdges(run, n)
      PROVE  \E f \in SegmentEdges(run, n) : f = EntryEdge(e, f.start, f.end, run)
  <2> DEFINE f == EntryEdge(e, a, b, run)
  <2>1. f = EntryEdge(e, f.start, f.end, run)
    BY DEF EntryEdge, Edge
  <2> QED BY <1>1, <2>1, Zenon
<1>2. CASE HasAgltSuffix(run)
  <2> DEFINE s == <<0, Len(run)>>
             a == n + BoundaryIndex(run, s[1])
             b == n + BoundaryIndex(run, s[2])
  <2>1. Slice(run, s) = run
    <3>1. s[1] + 1 = 1 /\ s[2] = Len(run)
      OBVIOUS
    <3>2. SubSeq(run, 1, Len(run)) = run
      BY SubSeqFull
    <3> QED BY <3>1, <3>2 DEF Slice
  <2>2. s \in KnownSlices(run)
    <3>1. Len(run) \in Nat /\ 0 < Len(run)
      OBVIOUS
    <3>2. s \in (0 .. Len(run)) \X (0 .. Len(run)) /\ s[1] < s[2]
      BY <3>1
    <3>3. Known(Slice(run, s))
      BY <2>1 DEF KnownWhole
    <3> HIDE DEF s
    <3> QED BY <3>2, <3>3, Zenon DEF KnownSlices
  <2> HIDE DEF s
  <2> DEFINE Of(x) == {EntryEdge(y, n + BoundaryIndex(run, x[1]), n + BoundaryIndex(run, x[2]),
                                 Slice(run, x)) : y \in ToSet(Lookup(Slice(run, x)))}
  <2>3. EntryEdge(e, a, b, run) \in Of(s)
    <3>1. e \in ToSet(Lookup(Slice(run, s)))
      BY <2>1
    <3>2. EntryEdge(e, a, b, Slice(run, s)) \in Of(s)
      BY <3>1, Zenon
    <3> QED BY <2>1, <3>2
  <2>4. InWordGraph(run, n) = UNION {Of(x) : x \in KnownSlices(run)}
    BY DEF InWordGraph
  <2> HIDE DEF Of, a, b
  <2>5. EntryEdge(e, a, b, run) \in InWordGraph(run, n)
    BY <2>2, <2>3, <2>4, Zenon
  <2>6. EntryEdge(e, a, b, run) \in SegmentEdges(run, n)
    BY <1>2, <2>5 DEF SegmentEdges
  <2> QED BY <1>1, <2>6
<1>3. CASE ~HasAgltSuffix(run)
  <2>1. SegmentEdges(run, n) = {EntryEdge(y, n, n + 1, run) : y \in ToSet(Lookup(run))}
    BY <1>3 DEF SegmentEdges, TokenEdges, KnownWhole
  <2>2. EntryEdge(e, n, n + 1, run) \in SegmentEdges(run, n)
    BY <2>1, Zenon
  <2> DEFINE b == n + 1
  <2>3. EntryEdge(e, n, b, run) \in SegmentEdges(run, n)
    BY <2>2
  <2> HIDE DEF b
  <2> QED BY <1>1, <2>3
<1> QED BY <1>2, <1>3

(* The only run that begins among words is the first's.                    *)
LEMMA OnlyFirstRun ==
  ASSUME Segmented, NEW i \in 1 .. Len(segments), ~IsSpace(segments[i]), NEW end \in i + 1 .. RunEnd(i),
         NEW edges, engine.whitespace # "append", ~engine.native => WholeIn(Join(i, RunEnd(i)), edges)
  PROVE  RunsFound(i, end - 1, edges)
<1>1. Len(segments) \in Nat /\ i \in 1 .. Len(segments) + 1
  BY DEF Segmented
<1>2. RunEnd(i) \in i .. Len(segments) + 1 /\ \A k \in i .. RunEnd(i) - 1 : ~IsSpace(segments[k])
  BY <1>1, RunEndIs
<1>3. ASSUME NEW k \in i .. end - 1, StartsRun(k) PROVE k = i
  <2> SUFFICES ASSUME k # i PROVE FALSE
    OBVIOUS
  <2>1. k - 1 \in i .. RunEnd(i) - 1 /\ k # 1
    BY <1>1, <1>2
  <2> QED BY <1>2, <1>3, <2>1 DEF StartsRun
<1> QED BY <1>3 DEF RunsFound

(* Where words are joined, a step to a place up to the next space.         *)
LEMMA WordsKeep ==
  ASSUME SInv, NEW i, InMemoryWord(i), NEW end \in i + 1 .. RunEnd(i), NEW edges, NEW m \in Nat,
         Advance(end, edges, m), SpelledBy(edges, node, node + m, Join(i, end)),
         Reaching(edges, node, node + m) \/ Agglutinated,
         WholeIn(Join(i, RunEnd(i)), edges)
  PROVE  SInv'
<1>1. running /\ index = i /\ i <= Len(segments) /\ ~IsSpace(segments[i]) /\ ~engine.native
      /\ engine.whitespace # "append"
  BY DEF InMemoryWord, AtWord, At
<1>2. /\ Segmented /\ Len(segments) \in Nat /\ node \in Nat /\ index \in 1 .. Len(segments) + 1
      /\ engine.whitespace \in {"skip", "keep"}
  BY <1>1, Runs
<1>3. i \in 1 .. Len(segments) /\ i \in 1 .. Len(segments) + 1
  BY <1>1, <1>2
<1>4. RunEnd(i) \in i .. Len(segments) + 1
  BY <1>2, <1>3, RunEndIs
<1>5. end \in i .. RunEnd(i) /\ end \in index .. Len(segments) + 1 /\ end \in i .. Len(segments) + 1
  BY <1>1, <1>2, <1>3, <1>4
<1> DEFINE t == Join(i, end)
<1>6. t \in Seq(Characters)
  BY <1>2, <1>3, <1>5 DEF Segmented
<1>7. Covered(index) \o t = Covered(end)
  BY <1>1, <1>2, <1>3, <1>5, WordsCovered
<1>8. AtWords(end)
  BY <1>1 DEF AtWords
<1>9. RunsFound(index, end - 1, edges)
  BY <1>1, <1>2, <1>3, OnlyFirstRun
<1>10. SpelledBy(edges, node, node + m, t)
  OBVIOUS
<1> HIDE DEF t
<1> QED BY <1>1, <1>5, <1>6, <1>7, <1>8, <1>9, <1>10, AdvanceKeeps

(* A join that is known spells its segments; of a run that is known as a   *)
(* whole it is the whole, the longest.                                     *)
LEMMA KnownJoinKeeps == SInv /\ KnownJoin => SInv'
<1> SUFFICES ASSUME SInv, KnownJoin PROVE SInv'
  OBVIOUS
<1>1. PICK i \in DOMAIN segments :
        /\ InMemoryWord(i) /\ KnownJoins(i) # {}
        /\ AdvanceSegment(LongestKnownJoin(i), Join(i, LongestKnownJoin(i)))
  BY DEF KnownJoin
<1>2. running /\ index = i /\ ~engine.native
  BY <1>1 DEF InMemoryWord, AtWord, At
<1>3. /\ Segmented /\ Filled /\ Len(segments) \in Nat /\ DOMAIN segments = 1 .. Len(segments) /\ node \in Nat
  BY <1>2, Runs
<1>4. i \in 1 .. Len(segments) /\ i \in 1 .. Len(segments) + 1 /\ i \in Nat /\ i + 2 \in Nat
  BY <1>3
<1> DEFINE r == RunEnd(i)
           end == LongestKnownJoin(i)
           orth == Join(i, end)
<1>5. r \in i .. Len(segments) + 1 /\ r \in Nat
  <2>1. r \in i .. Len(segments) + 1
    BY <1>3, <1>4, RunEndIs
  <2> QED BY <1>3, <1>4, <2>1
<1>6. KnownJoins(i) \subseteq i + 2 .. r /\ \A k \in i + 2 .. r : k \in KnownJoins(i) <=> Known(Join(i, k))
  BY Zenon DEF KnownJoins
<1>7. end \in KnownJoins(i) /\ \A k \in KnownJoins(i) : k <= end
  <2> HIDE DEF r
  <2> DEFINE S == KnownJoins(i)
             a == i + 2
  <2>1. S \subseteq a .. r /\ S # {} /\ a \in Nat /\ r \in Nat
    BY <1>1, <1>4, <1>5, <1>6
  <2> HIDE DEF S, a
  <2>2. Max(S) \in S /\ \A y \in S : y <= Max(S)
    BY <2>1, GreatestIs
  <2> QED BY <2>2 DEF LongestKnownJoin, S
<1>8. end \in i + 2 .. r
  BY <1>6, <1>7
<1> HIDE DEF end, r
<1>9. end \in i + 1 .. r /\ end \in i .. Len(segments) + 1 /\ r \in i + 2 .. r
  BY <1>4, <1>5, <1>8
<1> DEFINE edges == SegmentEdges(orth, node)
           m == SegmentNodes(orth)
<1>10. m \in Nat /\ SpelledBy(edges, node, node + m, orth) /\ (Reaching(edges, node, node + m) \/ Agglutinated)
  BY <1>2, <1>3, <1>4, <1>9, SegmentSpells
<1>11. Advance(end, edges, m)
  BY <1>1, SegmentAdvances DEF end
<1>12. WholeIn(Join(i, r), edges)
  <2> SUFFICES ASSUME KnownWhole(Join(i, r)) PROVE WholeIn(Join(i, r), edges)
    BY DEF WholeIn
  <2>1. r \in KnownJoins(i)
    BY <1>6, <1>9 DEF KnownWhole
  <2>2. end = r
    <3>1. r <= end
      BY <1>7, <2>1
    <3> QED BY <1>4, <1>5, <1>8, <3>1
  <2>3. orth \in Seq(Characters)
    BY <1>3, <1>4, <1>9 DEF Segmented
  <2>4. orth # <<>>
    <3>1. i + 1 \in i .. Len(segments) + 1 /\ end \in i + 1 .. Len(segments) + 1
          /\ i + 1 \in 1 .. Len(segments) + 1
      BY <1>3, <1>4, <1>5, <1>9
    <3>2. /\ Join(i, i + 1) \o Join(i + 1, end) = orth /\ Join(i, i + 1) = segments[i]
          /\ segments[i] # <<>> /\ segments[i] \in Seq(Characters) /\ Join(i + 1, end) \in Seq(Characters)
      BY <1>3, <1>4, <3>1 DEF Segmented
    <3> DEFINE u == segments[i]
               v == Join(i + 1, end)
    <3>3. u \in Seq(Characters) /\ v \in Seq(Characters) /\ u # <<>> /\ orth = u \o v
      BY <3>2
    <3> HIDE DEF u, v, orth
    <3>4. u \o v # <<>>
      BY <3>3, ConcatEqualIffEmpty
    <3> QED BY <3>3, <3>4
  <2> HIDE DEF orth
  <2>5. WholeIn(orth, SegmentEdges(orth, node))
    BY <2>3, <2>4, WholeSegment
  <2> QED BY <2>2, <2>5 DEF orth
<1> HIDE DEF edges, m
<1> QED BY <1>1, <1>9, <1>10, <1>11, <1>12, WordsKeep DEF r

(* A hyphenated span that is not known spells its segments, and no run it  *)
(* starts is known.                                                        *)
LEMMA UnknownSpanKeeps == SInv /\ UnknownSpan => SInv'
<1> SUFFICES ASSUME SInv, UnknownSpan PROVE SInv'
  OBVIOUS
<1>0. PICK i \in DOMAIN segments :
        /\ InMemoryWord(i) /\ KnownJoins(i) = {}
        /\ \E end \in UnknownSpans(i) : Advance(end, TokenEdges(Join(i, end), Join(i, end), node), 1)
  BY DEF UnknownSpan
<1>1. PICK end \in UnknownSpans(i) :
        /\ InMemoryWord(i) /\ KnownJoins(i) = {}
        /\ Advance(end, TokenEdges(Join(i, end), Join(i, end), node), 1)
  BY <1>0
<1>2. running /\ index = i /\ ~engine.native
  BY <1>1 DEF InMemoryWord, AtWord, At
<1>3. /\ Segmented /\ Filled /\ Len(segments) \in Nat /\ DOMAIN segments = 1 .. Len(segments) /\ node \in Nat
  BY <1>2, Runs
<1>4. i \in 1 .. Len(segments) /\ i \in 1 .. Len(segments) + 1
  BY <1>3
<1>5. end \in i + 3 .. RunEnd(i)
  BY DEF UnknownSpans, HyphenatedSpans
<1>6. RunEnd(i) \in i .. Len(segments) + 1
  BY <1>3, <1>4, RunEndIs
<1>7. end \in i + 1 .. RunEnd(i) /\ end \in i .. Len(segments) + 1 /\ RunEnd(i) \in i + 2 .. RunEnd(i)
  BY <1>3, <1>4, <1>5, <1>6
<1> DEFINE orth == Join(i, end)
           edges == TokenEdges(orth, orth, node)
           m == 1
<1>8. orth \in Seq(Characters)
  BY <1>3, <1>4, <1>7 DEF Segmented
<1>9. Advance(end, edges, m)
  BY <1>1
<1>10. m \in Nat /\ SpelledBy(edges, node, node + m, orth) /\ Reaching(edges, node, node + m)
  <2> HIDE DEF orth
  <2> QED BY <1>3, <1>8, TokenSpells
<1>11. WholeIn(Join(i, RunEnd(i)), edges)
  <2>1. RunEnd(i) \notin KnownJoins(i)
    BY <1>1
  <2>2. ~Known(Join(i, RunEnd(i)))
    BY <1>7, <2>1, Zenon DEF KnownJoins
  <2> QED BY <2>2 DEF WholeIn, KnownWhole
<1> HIDE DEF edges, m
<1> QED BY <1>1, <1>7, <1>9, <1>10, <1>11, WordsKeep

(* A segment on its own spells itself; no run that starts there and is     *)
(* longer is known.                                                        *)
LEMMA OneSegmentKeeps == SInv /\ OneSegment => SInv'
<1> SUFFICES ASSUME SInv, OneSegment PROVE SInv'
  OBVIOUS
<1>1. PICK i \in DOMAIN segments :
        /\ InMemoryWord(i) /\ KnownJoins(i) = {}
        /\ AdvanceSegment(i + 1, segments[i])
  BY DEF OneSegment
<1>2. running /\ index = i /\ ~engine.native /\ ~IsSpace(segments[i])
  BY <1>1 DEF InMemoryWord, AtWord, At
<1>3. /\ Segmented /\ Filled /\ Len(segments) \in Nat /\ DOMAIN segments = 1 .. Len(segments) /\ node \in Nat
  BY <1>2, Runs
<1>4. i \in 1 .. Len(segments) /\ i \in 1 .. Len(segments) + 1
  BY <1>3
<1>5. RunEnd(i) \in i + 1 .. Len(segments) + 1
  BY <1>2, <1>3, <1>4, RunEndIs
<1> DEFINE end == i + 1
           orth == Join(i, end)
           edges == SegmentEdges(orth, node)
           m == SegmentNodes(orth)
<1>6. end \in i + 1 .. RunEnd(i) /\ end \in i .. Len(segments) + 1
  BY <1>3, <1>4, <1>5
<1>7. orth = segments[i] /\ orth \in Seq(Characters) /\ orth # <<>>
  BY <1>3, <1>4 DEF Segmented
<1>8. Advance(end, edges, m)
  <2>1. AdvanceSegment(end, orth)
    BY <1>1, <1>7
  <2> HIDE DEF end, orth
  <2> QED BY <2>1, SegmentAdvances
<1>9. m \in Nat /\ SpelledBy(edges, node, node + m, orth) /\ (Reaching(edges, node, node + m) \/ Agglutinated)
  <2> HIDE DEF end
  <2> QED BY <1>2, <1>3, <1>4, <1>6, SegmentSpells
<1>10. WholeIn(Join(i, RunEnd(i)), edges)
  <2> SUFFICES ASSUME KnownWhole(Join(i, RunEnd(i))) PROVE WholeIn(Join(i, RunEnd(i)), edges)
    BY DEF WholeIn
  <2>1. RunEnd(i) \notin i + 2 .. RunEnd(i)
    <3>1. RunEnd(i) \notin KnownJoins(i)
      BY <1>1
    <3> QED BY <3>1, Zenon DEF KnownJoins, KnownWhole
  <2>2. RunEnd(i) = end
    BY <1>3, <1>4, <1>5, <2>1
  <2> HIDE DEF orth
  <2>3. WholeIn(orth, SegmentEdges(orth, node))
    BY <1>7, WholeSegment
  <2> QED BY <2>2, <2>3 DEF orth
<1> HIDE DEF end, edges, m
<1> QED BY <1>1, <1>6, <1>8, <1>9, <1>10, WordsKeep

-----------------------------------------------------------------------------
(* The steps that attach spaces                                            *)

(* A text with others around it is the same only if they are empty.        *)
LEMMA NothingAround ==
  ASSUME NEW S, NEW a \in Seq(S), NEW b \in Seq(S), NEW c \in Seq(S), a \o b \o c = b
  PROVE  a = <<>> /\ c = <<>>
<1>1. a \o b \in Seq(S) /\ Len(a \o b) = Len(a) + Len(b)
  BY ConcatProperties
<1> DEFINE ab == a \o b
<1>2. ab \in Seq(S)
  BY <1>1
<1> HIDE DEF ab
<1>3. Len(ab \o c) = Len(ab) + Len(c)
  BY <1>2, ConcatProperties
<1>4. Len(b) = Len(a) + Len(b) + Len(c) /\ Len(a) \in Nat /\ Len(b) \in Nat /\ Len(c) \in Nat
  BY <1>1, <1>3 DEF ab
<1>5. Len(a) = 0 /\ Len(c) = 0
  BY <1>4
<1> QED BY <1>5

(* A word with the spaces after it, after what is before it.               *)
LEMMA WordAndSpaces ==
  ASSUME Segmented, NEW p \in 1 .. Len(segments), NEW i \in p .. Len(segments), ~IsSpace(segments[i]),
         engine.whitespace = "append"
  PROVE  LET to == After(i + 1)
             t == Join(p, i) \o segments[i] \o SpacesAt(i + 1)
         IN /\ to \in i + 1 .. Len(segments) + 1
            /\ t = Join(p, to) /\ t \in Seq(Characters)
            /\ Join(1, p) \o t = Covered(to) /\ Covered(i + 1) = Covered(to)
            /\ AtWords(to)
<1> DEFINE n == Len(segments)
           to == After(i + 1)
           t == Join(p, i) \o segments[i] \o SpacesAt(i + 1)
<1>1. n \in Nat /\ DOMAIN segments = 1 .. n
  BY DEF Segmented
<1> HIDE DEF n
<1>2. /\ p \in 1 .. n + 1 /\ i \in p .. n + 1 /\ i \in 1 .. n + 1 /\ i \in 1 .. n /\ i + 1 \in i .. n + 1
      /\ i + 1 \in p .. n + 1 /\ i + 1 \in 1 .. n + 1 /\ 1 \in 1 .. n + 1 /\ p \in 1 .. n + 1 /\ i \in Nat \ {0}
      /\ i \in 1 .. i + 1 - 1
  BY <1>1 DEF n
<1>3. /\ to \in i + 1 .. n + 1 /\ Join(i + 1, to) = SpacesAt(i + 1)
      /\ to \in 1 .. n => ~IsSpace(segments[to])
  BY <1>2, AfterIs DEF n
<1>4. to \in p .. n + 1 /\ to \in 1 .. n + 1 /\ i \in 1 .. to - 1 /\ to \in Nat
  BY <1>1, <1>2, <1>3
<1>5. Join(p, i) \o segments[i] = Join(p, i + 1)
  <2>1. Join(p, i) \o Join(i, i + 1) = Join(p, i + 1) /\ Join(i, i + 1) = segments[i]
    BY <1>2 DEF Segmented, n
  <2> QED BY <2>1
<1>6. t = Join(p, to)
  <2>1. Join(p, i + 1) \o Join(i + 1, to) = Join(p, to)
    BY <1>2, <1>3 DEF Segmented, n
  <2> QED BY <1>3, <1>5, <2>1
<1>7. Join(p, to) \in Seq(Characters) /\ Join(1, p) \o Join(p, to) = Join(1, to)
  BY <1>2, <1>4 DEF Segmented, n
<1>8. WordBefore(to) /\ WordBefore(i + 1)
  BY <1>2, <1>4 DEF WordBefore
<1>9. After(to) = to
  <2>1. SpacesAt(to) = <<>>
    BY <1>1, <1>3 DEF SpacesAt
  <2> QED BY <2>1 DEF After
<1>10. Covered(to) = Join(1, to) /\ Covered(i + 1) = Join(1, to)
  <2> HIDE DEF to
  <2>1. Covered(to) = Join(1, to)
    BY <1>8, <1>9 DEF Covered
  <2>2. Covered(i + 1) = Join(1, After(i + 1))
    BY <1>8 DEF Covered
  <2> QED BY <2>1, <2>2 DEF to
<1>11. AtWords(to)
  BY <1>1, <1>3, <1>8 DEF AtWords
<1> HIDE DEF to, t
<1> QED BY <1>3, <1>6, <1>7, <1>10, <1>11 DEF to, t, n

(* Spaces around a segment leave the segment.                              *)
LEMMA UnspacedSegment ==
  ASSUME Segmented, NEW i \in 1 .. Len(segments), ~IsSpace(segments[i]), NEW p \in 1 .. Len(segments)
  PROVE  /\ Unspaced(segments[i]) = segments[i]
         /\ Unspaced(SpacesAt(p) \o segments[i] \o SpacesAt(i + 1)) = segments[i]
<1> DEFINE w == segments[i]
<1>1. w \in Seq(Characters) /\ NoWhite(w) /\ DOMAIN segments = 1 .. Len(segments) /\ Len(segments) \in Nat
  BY DEF Segmented
<1>2. Unspaced(w) = w
  BY <1>1, UnspacedNoWhite
<1>3. ASSUME NEW k PROVE SpacesAt(k) \in Seq(Characters) /\ Unspaced(SpacesAt(k)) = <<>>
  <2>1. <<>> \in Seq(Characters) /\ White(<<>>)
    BY DEF White
  <2>2. SpacesAt(k) \in Seq(Characters) /\ White(SpacesAt(k))
    BY <1>1, <2>1 DEF SpacesAt, Segmented
  <2> QED BY <2>2, UnspacedWhite
<1> DEFINE a == SpacesAt(p)
           b == SpacesAt(i + 1)
<1>4. a \in Seq(Characters) /\ Unspaced(a) = <<>> /\ b \in Seq(Characters) /\ Unspaced(b) = <<>>
  BY <1>3
<1> HIDE DEF a, b, w
<1>5. w \in Seq(Characters) /\ Unspaced(w) = w
  BY <1>1, <1>2 DEF w
<1>6. <<>> \o w = w /\ w \o <<>> = w
  BY <1>5, ConcatEmptySeq
<1> DEFINE aw == a \o w
<1>7. aw \in Seq(Characters)
  BY <1>4, <1>5
<1>8. Unspaced(aw) = <<>> \o w
  <2>1. Unspaced(aw) = Unspaced(a) \o Unspaced(w)
    BY <1>4, <1>5, UnspacedConcat
  <2> QED BY <1>4, <1>5, <2>1
<1> HIDE DEF aw
<1>9. Unspaced(aw \o b) = w \o <<>>
  <2>1. Unspaced(aw \o b) = Unspaced(aw) \o Unspaced(b)
    BY <1>4, <1>7, UnspacedConcat
  <2> QED BY <1>4, <1>6, <1>8, <2>1
<1> QED BY <1>5, <1>6, <1>9 DEF a, b, w, aw

(* A segment that is known is found when it is taken on its own ...        *)
LEMMA SegmentFound ==
  ASSUME Segmented, NEW i \in 1 .. Len(segments), ~IsSpace(segments[i]), NEW n
  PROVE  SegmentIn(segments[i], SegmentEdges(segments[i], n))
<1> DEFINE w == segments[i]
           edges == SegmentEdges(w, n)
<1>1. w \in Seq(Characters) /\ w # <<>>
  BY DEF Segmented
<1>2. Unspaced(w) = w
  <2>1. 1 \in 1 .. Len(segments)
    BY DEF Segmented
  <2> QED BY <2>1, UnspacedSegment
<1>3. WholeIn(w, edges)
  BY <1>1, WholeSegment
<1> HIDE DEF w, edges
<1>4. ASSUME KnownWhole(w), NEW e \in ToSet(Lookup(w))
      PROVE  \E f \in edges : f = EntryEdge(e, f.start, f.end, f.orth) /\ Unspaced(f.orth) = w
  <2>1. PICK f \in edges : f = EntryEdge(e, f.start, f.end, w)
    BY <1>3, <1>4 DEF WholeIn
  <2>2. f.orth = w
    BY <2>1 DEF EntryEdge, Edge
  <2>3. f = EntryEdge(e, f.start, f.end, f.orth) /\ Unspaced(f.orth) = w
    BY <1>2, <2>1, <2>2
  <2> QED BY <2>3
<1> QED BY <1>4 DEF SegmentIn, w, edges

(* ... and when it is taken with the spaces around it.                     *)
LEMMA SpacedSegmentFound ==
  ASSUME Segmented, NEW i \in 1 .. Len(segments), ~IsSpace(segments[i]), NEW p \in 1 .. Len(segments), NEW n
  PROVE  SegmentIn(segments[i], TokenEdges(segments[i], SpacesAt(p) \o segments[i] \o SpacesAt(i + 1), n))
<1> DEFINE w == segments[i]
           orth == SpacesAt(p) \o w \o SpacesAt(i + 1)
           edges == TokenEdges(w, orth, n)
<1>1. Unspaced(orth) = w
  BY UnspacedSegment
<1> HIDE DEF w, orth, edges
<1>2. ASSUME KnownWhole(w), NEW e \in ToSet(Lookup(w))
      PROVE  \E f \in edges : f = EntryEdge(e, f.start, f.end, f.orth) /\ Unspaced(f.orth) = w
  <2> DEFINE b == n + 1
             f == EntryEdge(e, n, b, orth)
  <2>1. edges = {EntryEdge(y, n, b, orth) : y \in ToSet(Lookup(w))}
    BY <1>2 DEF edges, TokenEdges, KnownWhole
  <2> HIDE DEF b
  <2>2. f \in edges
    BY <2>1, Zenon
  <2>3. f.start = n /\ f.end = b /\ f.orth = orth
    BY DEF EntryEdge, Edge
  <2>4. f = EntryEdge(e, f.start, f.end, f.orth) /\ Unspaced(f.orth) = w
    BY <1>1, <2>3
  <2> HIDE DEF f
  <2> QED BY <2>2, <2>4
<1> QED BY <1>2 DEF SegmentIn, w, orth, edges

(* From the spaces before a word to those after it there is no other word. *)
LEMMA OnlyWord ==
  ASSUME Segmented, NEW p \in 1 .. Len(segments), NEW k \in p .. After(After(p) + 1) - 1, ~IsSpace(segments[k])
  PROVE  k = After(p)
<1> DEFINE n == Len(segments)
           i == After(p)
<1>1. n \in Nat /\ DOMAIN segments = 1 .. n /\ p \in 1 .. n
  BY DEF Segmented
<1> HIDE DEF n
<1>2. i = p \/ (i = p + 1 /\ IsSpace(segments[p]))
  BY DEF After, SpacesAt
<1> HIDE DEF i
<1>3. After(i + 1) = i + 1 \/ (After(i + 1) = i + 1 + 1 /\ IsSpace(segments[i + 1]))
  BY DEF After, SpacesAt
<1>4. k \in p .. After(i + 1) - 1
  BY DEF i
<1>5. k = i \/ (k = p /\ i = p + 1) \/ (k = i + 1 /\ After(i + 1) = i + 1 + 1)
  BY <1>1, <1>2, <1>3, <1>4
<1> QED BY <1>1, <1>2, <1>3, <1>5 DEF i

(* A word with the spaces around it, or on its own where there are none,   *)
(* spells them.                                                            *)
LEMMA AppendSpacesKeeps == SInv /\ AppendSpaces => SInv'
<1> SUFFICES ASSUME SInv, AppendSpaces PROVE SInv'
  OBVIOUS
<1> DEFINE p == index
           i == After(p)
           to == After(i + 1)
           orth == SpacesAt(p) \o segments[i] \o SpacesAt(i + 1)
<1>1. /\ running /\ p <= Len(segments) /\ ~engine.native /\ engine.whitespace = "append" /\ i <= Len(segments)
      /\ IF orth = segments[i] THEN AdvanceSegment(i + 1, orth)
         ELSE Advance(to, TokenEdges(segments[i], orth, node), 1)
  BY DEF AppendSpaces, At
<1>2. /\ Segmented /\ Filled /\ Len(segments) \in Nat /\ DOMAIN segments = 1 .. Len(segments) /\ node \in Nat
      /\ p \in 1 .. Len(segments) + 1 /\ AtWords(p)
  BY <1>1, Runs
<1>3. p \in 1 .. Len(segments)
  BY <1>1, <1>2
<1>4. /\ i \in p .. Len(segments) + 1 /\ Join(p, i) = SpacesAt(p) /\ SpacesAt(p) \in Seq(Characters)
      /\ i \in 1 .. Len(segments) => ~IsSpace(segments[i])
      /\ SpacesAt(p) = <<>> => i = p
  BY <1>2, AfterIs
<1> HIDE DEF i
<1>5. /\ i \in p .. Len(segments) /\ i \in 1 .. Len(segments) /\ i + 1 \in 1 .. Len(segments) + 1
      /\ ~IsSpace(segments[i])
  BY <1>1, <1>2, <1>3, <1>4
<1>6. /\ to \in i + 1 .. Len(segments) + 1 /\ orth = Join(p, to) /\ orth \in Seq(Characters)
      /\ Join(1, p) \o orth = Covered(to) /\ AtWords(to)
  BY <1>1, <1>2, <1>3, <1>4, <1>5, WordAndSpaces
<1>7. SpacesAt(i + 1) = <<>> => to = i + 1
  BY <1>2, <1>5, AfterIs
<1>8. SpacesAt(i + 1) \in Seq(Characters) /\ segments[i] \in Seq(Characters)
  BY <1>2, <1>5, AfterIs DEF Segmented
<1>9. to \in index .. Len(segments) + 1
  BY <1>2, <1>5, <1>6
<1> HIDE DEF to, orth
<1>10. Covered(p) = Join(1, p)
  <2>1. CASE p = 1
    <3>1. ~WordBefore(1)
      BY DEF WordBefore
    <3>2. Join(1, 1) = <<>>
      BY <1>2, <1>3, <2>1 DEF Segmented
    <3> QED BY <1>1, <2>1, <3>1, <3>2 DEF Covered
  <2>2. CASE p # 1
    <3>1. ~IsSpace(segments[p]) /\ WordBefore(p)
      BY <1>1, <1>2, <1>3, <2>2 DEF AtWords
    <3>2. SpacesAt(p) = <<>>
      BY <3>1 DEF SpacesAt
    <3>3. After(p) = p
      BY <3>2 DEF After
    <3> QED BY <1>1, <3>1, <3>3 DEF Covered
  <2> QED BY <2>1, <2>2
<1>11. ASSUME NEW edges, SegmentIn(segments[i], edges) PROVE RunsFound(index, to - 1, edges)
  <2>1. \A k \in index .. to - 1 : ~IsSpace(segments[k]) => k = i
    BY <1>2, <1>3, OnlyWord DEF to, i
  <2> QED BY <1>1, <1>11, <2>1 DEF RunsFound
<1>12. CASE orth = segments[i]
  <2>1. SpacesAt(p) = <<>> /\ SpacesAt(i + 1) = <<>>
    BY <1>4, <1>8, <1>12, NothingAround DEF orth
  <2>2. AdvanceSegment(to, orth)
    BY <1>1, <1>7, <1>12, <2>1
  <2> DEFINE edges == SegmentEdges(orth, node)
             m == SegmentNodes(orth)
  <2>3. Advance(to, edges, m)
    BY <2>2, SegmentAdvances
  <2>4. m \in Nat /\ SpelledBy(edges, node, node + m, orth) /\ (Reaching(edges, node, node + m) \/ Agglutinated)
    <3>1. to \in p .. Len(segments) + 1 /\ p \in 1 .. Len(segments) + 1
      BY <1>2, <1>9
    <3>2. LET o == Join(p, to)
          IN /\ SegmentNodes(o) \in Nat /\ SpelledBy(SegmentEdges(o, node), node, node + SegmentNodes(o), o)
             /\ Reaching(SegmentEdges(o, node), node, node + SegmentNodes(o)) \/ Agglutinated
      BY <1>1, <1>2, <3>1, SegmentSpells
    <3>3. Join(p, to) = orth
      BY <1>6
    <3> QED BY <3>2, <3>3
  <2>5. SegmentIn(segments[i], edges)
    BY <1>2, <1>5, <1>12, SegmentFound
  <2> HIDE DEF edges, m
  <2>6. RunsFound(index, to - 1, edges)
    BY <1>11, <2>5
  <2> QED BY <1>1, <1>6, <1>9, <1>10, <2>3, <2>4, <2>6, AdvanceKeeps
<1>13. CASE orth # segments[i]
  <2> DEFINE edges == TokenEdges(segments[i], orth, node)
             m == 1
  <2>1. Advance(to, edges, m)
    BY <1>1, <1>13
  <2>2. m \in Nat /\ SpelledBy(edges, node, node + m, orth) /\ Reaching(edges, node, node + m)
    BY <1>2, <1>6, TokenSpells
  <2>3. SegmentIn(segments[i], edges)
    BY <1>2, <1>3, <1>5, SpacedSegmentFound DEF orth
  <2> HIDE DEF edges, m
  <2>4. RunsFound(index, to - 1, edges)
    BY <1>11, <2>3
  <2> QED BY <1>1, <1>6, <1>9, <1>10, <2>1, <2>2, <2>4, AdvanceKeeps
<1> QED BY <1>12, <1>13

(* Spaces without a word are not spelled.                                  *)
LEMMA AppendNothingKeeps == SInv /\ AppendNothing => SInv'
<1> SUFFICES ASSUME SInv, AppendNothing PROVE SInv'
  OBVIOUS
<1> DEFINE p == index
           end == After(p)
           none == {}
           m == 0
<1>1. /\ running /\ p <= Len(segments) /\ ~engine.native /\ engine.whitespace = "append"
      /\ end > Len(segments) /\ Advance(end, none, m)
  BY DEF AppendNothing, At
<1>2. /\ Segmented /\ Len(segments) \in Nat /\ DOMAIN segments = 1 .. Len(segments) /\ node \in Nat
      /\ p \in 1 .. Len(segments) + 1 /\ AtWords(p)
  BY <1>1, Runs
<1>3. p \in 1 .. Len(segments)
  BY <1>1, <1>2
<1>4. /\ end \in p .. Len(segments) + 1
      /\ SpacesAt(p) = <<>> => end = p
      /\ p \in 1 .. Len(segments) /\ IsSpace(segments[p]) => end = p + 1
  BY <1>2, AfterIs
<1>5. end # p /\ end \in index .. Len(segments) + 1 /\ end = Len(segments) + 1
  <2> DEFINE n == Len(segments)
  <2>1. end \in p .. n + 1 /\ end > n
    BY <1>1, <1>4
  <2>2. n \in Nat /\ p \in 1 .. n
    BY <1>2, <1>3
  <2> HIDE DEF end, p, n
  <2>3. end # p /\ end \in p .. n + 1 /\ end = n + 1
    BY <2>1, <2>2
  <2> QED BY <2>3 DEF p, n
<1>6. IsSpace(segments[p])
  BY <1>4, <1>5 DEF SpacesAt
<1>7. p = 1 /\ end = 1 + 1
  BY <1>1, <1>2, <1>3, <1>4, <1>6 DEF AtWords
<1>8. Covered(index) \o <<>> = Covered(end)
  <2>1. ~WordBefore(1)
    BY DEF WordBefore
  <2>2. ~WordBefore(1 + 1)
    BY <1>6, <1>7, <2>1, WordBeforeNext
  <2>3. Covered(index) = <<>> /\ Covered(end) = <<>>
    <3> HIDE DEF end
    <3> QED BY <1>1, <1>7, <2>1, <2>2 DEF Covered
  <2>4. <<>> \o <<>> = <<>>
    OBVIOUS
  <2> QED BY <2>3, <2>4
<1>9. AtWords(end) /\ RunsFound(index, end - 1, none)
  <2>1. end \notin DOMAIN segments
    <3> HIDE DEF end
    <3> QED BY <1>2, <1>5
  <2>2. AtWords(end)
    BY <2>1 DEF AtWords
  <2>3. \A k \in index .. end - 1 : IsSpace(segments[k])
    <3>1. \A k \in 1 .. 1 + 1 - 1 : k = 1
      OBVIOUS
    <3> QED BY <1>6, <1>7, <3>1
  <2> QED BY <1>1, <2>2, <2>3 DEF RunsFound
<1>10. SpelledBy(none, node, node + m, <<>>) /\ Reaching(none, node, node + m) /\ m \in Nat
  <2>1. node + 0 = node
    BY <1>2
  <2> QED BY <1>2, <2>1, NothingSpelled
<1>11. <<>> \in Seq(Characters)
  OBVIOUS
<1> HIDE DEF end, none, m
<1> QED BY <1>1, <1>5, <1>8, <1>9, <1>10, <1>11, AdvanceKeeps

(* The spaces before a word of a binary dictionary.                        *)
LEMMA SpacesBefore ==
  ASSUME Segmented, engine.whitespace = "append", NEW i \in 1 .. Len(segments), ~IsSpace(segments[i])
  PROVE  LET leading == IF i = 2 THEN SpacesAt(1) ELSE <<>>
         IN Covered(i) \o leading = Join(1, i) /\ leading \in Seq(Characters) /\ Covered(i) \in Seq(Characters)
<1> DEFINE leading == IF i = 2 THEN SpacesAt(1) ELSE <<>>
<1>1. Len(segments) \in Nat /\ DOMAIN segments = 1 .. Len(segments)
  BY DEF Segmented
<1>2. 1 \in 1 .. Len(segments) + 1 /\ i \in 1 .. Len(segments) + 1 /\ 1 \in 1 .. Len(segments)
  BY <1>1
<1>3. Join(1, i) \in Seq(Characters) /\ Join(1, 1) = <<>> /\ <<>> \in Seq(Characters)
  BY <1>2 DEF Segmented
<1>4. leading \in Seq(Characters)
  BY <1>2, <1>3, AfterIs
<1>5. CASE WordBefore(i)
  <2>1. Covered(i) = Join(1, i)
    <3>1. SpacesAt(i) = <<>>
      BY DEF SpacesAt
    <3>2. After(i) = i
      BY <3>1 DEF After
    <3> QED BY <1>5, <3>2 DEF Covered
  <2>2. leading = <<>>
    <3> SUFFICES ASSUME i = 2 PROVE SpacesAt(1) = <<>>
      OBVIOUS
    <3>1. ~IsSpace(segments[1])
      <4>1. PICK j \in 1 .. i - 1 : ~IsSpace(segments[j])
        BY <1>5 DEF WordBefore
      <4>2. j = 1
        OBVIOUS
      <4> QED BY <4>1, <4>2
    <3> QED BY <3>1 DEF SpacesAt
  <2>3. Join(1, i) \o <<>> = Join(1, i)
    BY <1>3, ConcatEmptySeq
  <2> QED BY <1>3, <2>1, <2>2, <2>3
<1>6. CASE ~WordBefore(i)
  <2>1. Covered(i) = <<>>
    BY <1>6 DEF Covered
  <2>2. \A j \in 1 .. i - 1 : IsSpace(segments[j])
    BY <1>6 DEF WordBefore
  <2>3. i = 1 \/ i = 2
    <3> SUFFICES ASSUME i # 1, i # 2 PROVE FALSE
      OBVIOUS
    <3>1. 1 \in 1 .. i - 1 /\ 1 + 1 \in 1 .. i - 1 /\ 1 + 1 \in 1 .. Len(segments)
      BY <1>1
    <3>2. IsSpace(segments[1]) /\ IsSpace(segments[1 + 1])
      BY <2>2, <3>1
    <3> QED BY <1>2, <3>1, <3>2 DEF Segmented
  <2>4. leading = Join(1, i)
    <3>1. CASE i = 1
      BY <1>3, <3>1
    <3>2. CASE i = 2
      <4>1. IsSpace(segments[1])
        BY <2>2, <3>2
      <4>2. SpacesAt(1) = segments[1]
        BY <1>1, <1>2, <4>1 DEF SpacesAt
      <4>3. Join(1, 1 + 1) = segments[1]
        BY <1>2 DEF Segmented
      <4> QED BY <3>2, <4>2, <4>3
    <3> QED BY <2>3, <3>1, <3>2
  <2>5. <<>> \o leading = leading
    BY <1>4, ConcatEmptySeq
  <2> QED BY <1>3, <1>4, <2>1, <2>4, <2>5
<1> QED BY <1>4, <1>5, <1>6

(* Four sequences joined in two ways.                                      *)
LEMMA FourJoined ==
  ASSUME NEW S
  PROVE  \A r, s, u, v \in Seq(S) :
           r \o ((s \o u) \o v) = (r \o s) \o (u \o v) /\ (s \o u) \o v \in Seq(S)
<1> SUFFICES ASSUME NEW r \in Seq(S), NEW s \in Seq(S), NEW u \in Seq(S), NEW v \in Seq(S)
             PROVE  r \o ((s \o u) \o v) = (r \o s) \o (u \o v) /\ (s \o u) \o v \in Seq(S)
  OBVIOUS
<1>1. s \o u \in Seq(S) /\ u \o v \in Seq(S) /\ (s \o u) \o v \in Seq(S)
  BY ConcatProperties
<1>2. (s \o u) \o v = s \o (u \o v)
  BY ConcatAssociative
<1> DEFINE e == u \o v
<1>3. e \in Seq(S)
  BY <1>1
<1> HIDE DEF e
<1>4. (r \o s) \o e = r \o (s \o e)
  BY <1>3, ConcatAssociative, SMTT(30)
<1> QED BY <1>1, <1>2, <1>4 DEF e

(* The moved answer for a word spells the word, with the spaces that are   *)
(* attached to it.                                                         *)
LEMMA AnalyzeNativeWordKeeps == SInv /\ AnalyzeNativeWord => SInv'
<1> SUFFICES ASSUME SInv, AnalyzeNativeWord PROVE SInv'
  OBVIOUS
<1> DEFINE word(i) == NativeWord(segments[i])
           plain(i) == Moved(word(i).edges, node)
           leading(i) == IF i = 2 THEN SpacesAt(1) ELSE <<>>
           trailing(i) == SpacesAt(i + 1)
           attached(i) == AppendWhitespace(plain(i), leading(i), trailing(i))
<1>1. PICK i \in DOMAIN segments :
        /\ AtWord(i) /\ engine.native
        /\ Advance(i + 1, IF engine.whitespace = "append" THEN attached(i) ELSE plain(i), word(i).nodes)
  BY DEF AnalyzeNativeWord, Moved
<1>2. running /\ index = i /\ ~IsSpace(segments[i])
  BY <1>1 DEF AtWord, At
<1>3. /\ Segmented /\ SessionOK /\ asked > 0 /\ Len(segments) \in Nat /\ DOMAIN segments = 1 .. Len(segments)
      /\ node \in Nat /\ engine.whitespace \in {"skip", "keep", "append"}
  BY <1>2, Runs
<1> DEFINE w == segments[i]
           t == leading(i) \o w \o trailing(i)
           m == word(i).nodes
           end == i + 1
<1>4. /\ i \in 1 .. Len(segments) /\ i \in 1 .. Len(segments) + 1 /\ end \in index .. Len(segments) + 1
      /\ end \in 1 .. Len(segments) + 1 /\ i \in Nat \ {0}
  BY <1>2, <1>3
<1>5. w \in Seq(Characters) /\ w # <<>>
  BY <1>3, <1>4 DEF Segmented
<1>6. /\ m \in Nat /\ AreEdges(word(i).edges)
      /\ SpelledBy(word(i).edges, 0, m, w) /\ Reaching(word(i).edges, 0, m)
  <2>1. asked - 1 \in 0 .. MaxTexts - 1 /\ text \in Texts(asked - 1)
    BY <1>3, TextsAssumption DEF SessionOK
  <2>2. w \in ToSet(WhitespaceRuns(text))
    <3>1. segments = WhitespaceRuns(text)
      BY <1>1, <1>3 DEF SessionOK, Cut
    <3> QED BY <3>1 DEF ToSet
  <2> QED BY <1>2, <2>1, <2>2, NativeWordAssumption DEF AreEdges
<1>7. 0 < m
  <2>1. PICK place \in [0 .. m -> 0 .. Len(w)] : place[0] = 0 /\ place[m] = Len(w)
    BY <1>6 DEF SpelledBy
  <2>2. Len(w) # 0
    BY <1>5
  <2>3. m # 0
    BY <2>1, <2>2
  <2> QED BY <1>6, <2>3
<1> DEFINE mid == node + m
           moved == plain(i)
<1>8. SpelledBy(moved, node, mid, w) /\ Reaching(moved, node, mid) /\ AreEdges(moved)
  <2> DEFINE edges == word(i).edges
  <2>1. m \in Nat /\ AreEdges(edges) /\ SpelledBy(edges, 0, m, w) /\ Reaching(edges, 0, m)
    BY <1>6
  <2> HIDE DEF edges, m, w
  <2>2. /\ SpelledBy(Moved(edges, node), node, node + m, w) /\ Reaching(Moved(edges, node), node, node + m)
        /\ AreEdges(Moved(edges, node))
    BY <1>3, <1>5, <2>1, MovedSpells
  <2> QED BY <2>2 DEF edges
<1>9. mid \in Nat /\ node < mid
  <2> HIDE DEF m
  <2> QED BY <1>3, <1>6, <1>7
<1>10. AtWords(end) /\ \A edges : RunsFound(index, end - 1, edges)
  BY <1>1 DEF AtWords, RunsFound
<1>11. CASE engine.whitespace = "append"
  <2> DEFINE a == leading(i)
             b == trailing(i)
  <2>1. Advance(end, attached(i), m)
    BY <1>1, <1>11
  <2>2. Covered(i) \o a = Join(1, i) /\ a \in Seq(Characters) /\ Covered(i) \in Seq(Characters)
    BY <1>2, <1>3, <1>4, <1>11, SpacesBefore
  <2>3. b \in Seq(Characters)
    BY <1>3, <1>4, AfterIs
  <2>4. SpelledBy(attached(i), node, mid, t) /\ Reaching(attached(i), node, mid)
    <3> HIDE DEF a, b, mid, moved, w
    <3>1. /\ SpelledBy(AppendWhitespace(moved, a, b), node, mid, a \o w \o b)
          /\ Reaching(AppendWhitespace(moved, a, b), node, mid)
      BY <1>3, <1>5, <1>8, <1>9, <2>2, <2>3, WhitespaceSpells
    <3> QED BY <3>1 DEF a, b, moved, w
  <2>5. Covered(i) \o t = Covered(end) /\ t \in Seq(Characters)
    <3>1. /\ Join(1, i) \o (Join(i, i) \o w \o b) = Covered(After(end))
          /\ Covered(end) = Covered(After(end))
      <4>1. i \in 1 .. Len(segments) /\ ~IsSpace(segments[i])
        BY <1>2, <1>4
      <4>2. i \in i .. Len(segments)
        BY <1>3, <4>1
      <4> QED BY <1>2, <1>3, <1>11, <4>1, <4>2, WordAndSpaces
    <3>2. Join(i, i) = <<>> /\ <<>> \o w = w
      BY <1>3, <1>4, <1>5, ConcatEmptySeq DEF Segmented
    <3>3. /\ Covered(i) \in Seq(Characters) /\ a \in Seq(Characters) /\ b \in Seq(Characters) /\ w \in Seq(Characters)
          /\ Covered(i) \o a = Join(1, i)
      BY <1>5, <2>2, <2>3
    <3>5. Join(1, i) \o (w \o b) = Covered(end)
      BY <3>1, <3>2
    <3> HIDE DEF a, b, w
    <3>4. Covered(i) \o ((a \o w) \o b) = (Covered(i) \o a) \o (w \o b) /\ (a \o w) \o b \in Seq(Characters)
      <4>1. Covered(i) \in Seq(Characters) /\ a \in Seq(Characters) /\ w \in Seq(Characters) /\ b \in Seq(Characters)
        BY <3>3
      <4>2. \A r, s, u, v \in Seq(Characters) :
              r \o ((s \o u) \o v) = (r \o s) \o (u \o v) /\ (s \o u) \o v \in Seq(Characters)
        BY FourJoined
      <4>3. \A r \in Seq(Characters) :
              r \o ((a \o w) \o b) = (r \o a) \o (w \o b) /\ (a \o w) \o b \in Seq(Characters)
        BY ONLY <4>1, <4>2
      <4> QED BY ONLY <4>1, <4>3
    <3> QED BY <3>3, <3>4, <3>5 DEF a, b, w
  <2> DEFINE edges == attached(i)
  <2>6. Advance(end, edges, m) /\ SpelledBy(edges, node, node + m, t) /\ Reaching(edges, node, node + m)
        /\ Covered(index) \o t = Covered(end)
    BY <1>2, <2>1, <2>4, <2>5
  <2>7. m \in Nat /\ t \in Seq(Characters) /\ end \in index .. Len(segments) + 1 /\ AtWords(end)
        /\ RunsFound(index, end - 1, edges)
    BY <1>4, <1>6, <1>10, <2>5
  <2> HIDE DEF edges, m, t, end
  <2> QED BY <1>2, <2>6, <2>7, AdvanceKeeps
<1>12. CASE engine.whitespace # "append"
  <2>1. Advance(end, moved, m)
    BY <1>1, <1>12
  <2>2. Covered(i) \o w = Covered(end)
    <3>1. RunEnd(i) \in i + 1 .. Len(segments) + 1
      BY <1>2, <1>3, <1>4, RunEndIs
    <3>2. end \in i .. RunEnd(i)
      BY <1>3, <1>4, <3>1
    <3>3. Join(i, end) = w
      BY <1>3, <1>4 DEF Segmented
    <3>4. engine.whitespace \in {"skip", "keep"}
      BY <1>3, <1>12
    <3> HIDE DEF end
    <3> QED BY <1>3, <1>4, <3>2, <3>3, <3>4, WordsCovered
  <2>3. m \in Nat /\ end \in index .. Len(segments) + 1 /\ AtWords(end) /\ RunsFound(index, end - 1, moved)
        /\ SpelledBy(moved, node, node + m, w) /\ Reaching(moved, node, node + m)
        /\ Covered(index) \o w = Covered(end)
    BY <1>2, <1>4, <1>6, <1>8, <1>10, <2>2
  <2> HIDE DEF moved, m, w, end
  <2> QED BY <1>2, <1>5, <2>1, <2>3, AdvanceKeeps
<1> QED BY <1>11, <1>12
-----------------------------------------------------------------------------
(* The steps around the loops                                              *)

(* What is not changed when neither the answer nor the dictionary is.      *)
LEMMA SameAnswer ==
  ASSUME AnswerOK, engine' = engine, text' = text, segments' = segments, index' = index,
         start' = start, node' = node, answer' = answer, byOrth' = byOrth, resolver' = resolver,
         asked' = asked
  PROVE  AnswerOK'
<1>1. AtWords(index)' <=> AtWords(index)
  BY DEF AtWords, WordBefore
<1>2. Covered(index)' = Covered(index)
  BY DEF Covered, WordBefore, Join, After, SpacesAt
<1>3. Spelling' <=> Spelling
  BY <1>2 DEF Spelling
<1>4. Reached' <=> Reached
  BY DEF Reached, Agglutinated, AnyTagged, Lookup, Found, Tag
<1>5. RunsFound(1, index - 1, answer)' <=> RunsFound(1, index - 1, answer)
  BY DEF RunsFound, StartsRun, Join, RunEnd, WholeIn, SegmentIn, KnownWhole, Known, IsDigits, IsRoman, Lookup, Found
<1> QED BY <1>1, <1>3, <1>4, <1>5 DEF AnswerOK

(* The end of the loops changes nothing of the answer.                     *)
LEMMA ReturnKeeps == SInv /\ Return => SInv'
<1> SUFFICES ASSUME SInv, Return PROVE SInv'
  OBVIOUS
<1>1. /\ engine' = engine /\ text' = text /\ segments' = segments /\ index' = index
      /\ start' = start /\ node' = node /\ answer' = answer /\ byOrth' = byOrth /\ resolver' = resolver
      /\ asked' = asked /\ phase' = phase /\ running' = FALSE /\ running /\ index > Len(segments)
      /\ next' = IF engine.numbering = "continuous" THEN node ELSE next
  BY DEF Return, dictVars, loading, dictionary, cutting, answering
<1>2. Filled'
  BY <1>1 DEF SInv, Filled
<1>3. AnswerOK'
  BY <1>1, SameAnswer DEF SInv
<1>4. SessionOK'
  <2>1. SessionOK /\ asked > 0 /\ index \in 1 .. Len(segments) + 1 /\ Len(segments) \in Nat
    BY <1>1, Runs
  <2>2. index = Len(segments) + 1
    BY <1>1, <2>1
  <2>3. Cut' = Cut
    BY <1>1 DEF Cut
  <2>4. next' \in Nat
    BY <1>1, <2>1 DEF SessionOK
  <2> QED BY <1>1, <2>1, <2>2, <2>3, <2>4 DEF SessionOK
<1> QED BY <1>2, <1>3, <1>4 DEF SInv

(* Between texts the numbering may be reset.                               *)
LEMMA ResetNumberingKeeps == SInv /\ ResetNumbering => SInv'
<1> SUFFICES ASSUME SInv, ResetNumbering PROVE SInv'
  OBVIOUS
<1>1. /\ engine' = engine /\ text' = text /\ segments' = segments /\ index' = index
      /\ start' = start /\ node' = node /\ answer' = answer /\ byOrth' = byOrth /\ resolver' = resolver
      /\ asked' = asked /\ phase' = phase /\ running' = running /\ next' = 0
  BY DEF ResetNumbering, dictVars, loading, dictionary, cutting, answering
<1>2. Filled'
  BY <1>1 DEF SInv, Filled
<1>3. AnswerOK'
  BY <1>1, SameAnswer DEF SInv
<1>4. SessionOK'
  <2>1. SessionOK
    BY DEF SInv
  <2>2. Cut' = Cut
    BY <1>1 DEF Cut
  <2> QED BY <1>1, <2>1, <2>2 DEF SessionOK
<1> QED BY <1>2, <1>3, <1>4 DEF SInv

(* A session is opened with no text yet.                                   *)
LEMMA OpenKeeps == SInv /\ Open => SInv'
<1> SUFFICES ASSUME SInv, Open PROVE SInv'
  OBVIOUS
<1>1. /\ phase = "ready" /\ engine = NoEngine /\ engine' \in Engines
      /\ start' = start /\ node' = node /\ asked' = asked /\ next' = next /\ running' = running
      /\ phase' = phase /\ byOrth' = byOrth
  BY DEF Open, Engines, dictVars, loading, dictionary, answering
<1>2. SessionOK /\ ~(asked > 0)
  BY <1>1 DEF SInv, SessionOK
<1>3. SessionOK'
  BY <1>1, <1>2 DEF SessionOK
<1>4. Filled' /\ AnswerOK'
  BY <1>1, <1>2 DEF SInv, Filled, AnswerOK
<1> QED BY <1>3, <1>4 DEF SInv

(* A text that was just given has no answer yet, which spells nothing of   *)
(* it.                                                                     *)
LEMMA AnalyzeKeeps ==
  ASSUME SInv, NEW t \in Texts(asked), Analyze(t)
  PROVE  SInv'
<1>1. /\ engine # NoEngine /\ ~running /\ asked < MaxTexts
      /\ asked' = asked + 1 /\ running' = TRUE
      /\ start' = (IF engine.numbering = "separate" THEN 0 ELSE next)
      /\ node' = start' /\ answer' = {}
      /\ text' = t /\ index' = 1
      /\ segments' = (IF engine.native THEN WhitespaceRuns(t) ELSE Tokenize(t))
      /\ engine' = engine /\ next' = next /\ phase' = phase /\ byOrth' = byOrth
  BY DEF Analyze, dictVars, loading, dictionary
<1>2. SessionOK /\ asked \in Nat /\ next \in Nat
  BY DEF SInv, SessionOK
<1>3. t \in Seq(Characters)
  <2>1. asked \in 0 .. MaxTexts - 1
    BY <1>1, <1>2, TextsAssumption
  <2> QED BY <2>1, TextsAssumption DEF Characters
<1>4. Len(segments') \in Nat
  <2>1. /\ \E first : Cuts(first, t, TokenCuts(t), Tokenize(t))
        /\ \E first : Cuts(first, t, RunCuts(t), WhitespaceRuns(t))
    BY <1>3, TextsCut
  <2>2. Len(Tokenize(t)) \in Nat /\ Len(WhitespaceRuns(t)) \in Nat
    BY <2>1 DEF Cuts
  <2> QED BY <1>1, <2>2
<1>5. start' \in Nat
  BY <1>1, <1>2
<1>6. SessionOK'
  <2>1. segments' = Cut'
    BY <1>1 DEF Cut
  <2>2. asked + 1 \in Nat /\ asked + 1 > 0 /\ asked + 1 <= MaxTexts /\ asked + 1 - 1 = asked
    BY <1>1, <1>2, TextsAssumption
  <2>3. 1 \in 1 .. Len(segments') + 1 /\ start' <= start'
    BY <1>4, <1>5
  <2> QED BY <1>1, <1>2, <1>5, <2>1, <2>2, <2>3 DEF SessionOK
<1>7. AnswerOK'
  <2>1. Covered(index)' = <<>>
    <3>1. ~WordBefore(index)'
      BY <1>1 DEF WordBefore
    <3>2. Join(1, index)' = <<>>
      <4>1. SubSeq(segments', 1, 1 - 1) = <<>>
        BY SubSeqEmpty
      <4> QED BY <1>1, <4>1, FlattenNone DEF Join
    <3>3. Unspaced(<<>>) = <<>>
      <4>1. <<>> \in Seq(Characters) /\ White(<<>>)
        BY DEF White
      <4> QED BY <4>1, UnspacedWhite
    <3>4. Unspaced(Join(1, index)') = <<>>
      BY <3>2, <3>3
    <3> QED BY <3>1, <3>2, <3>4 DEF Covered
  <2>2. Spelling' /\ Reached'
    <3>1. SpelledBy({}, start', start', <<>>) /\ Reaching({}, start', start')
      BY <1>5, NothingSpelled
    <3> QED BY <1>1, <2>1, <3>1 DEF Spelling, Reached
  <2>3. AtWords(index)' /\ RunsFound(1, index - 1, answer)'
    BY <1>1 DEF AtWords, RunsFound
  <2> QED BY <2>2, <2>3 DEF AnswerOK
<1>8. Filled'
  BY <1>1 DEF SInv, Filled
<1> QED BY <1>6, <1>7, <1>8 DEF SInv

(* Sessions ask a dictionary that is loaded.                               *)
LEMMA LoadKeepsSession ==
  ASSUME IInv, SInv, Load, UNCHANGED <<session, cutting, answering>>
  PROVE  SInv'
<1>1. phase # "ready"
  BY DEF Load, TagsetLine, TagsetEnd, CopyrightLine, MetadataLine, ShortLine, EntryLine, DictionaryEnd,
         AtLine, ApplyHints, InsertRelabelled, InsertCombined, InsertAlias, NextIs, HintsEnd
<1>2. SessionOK /\ ~(asked > 0) /\ engine = NoEngine
  BY <1>1 DEF SInv, SessionOK
<1>3. /\ engine' = engine /\ asked' = asked /\ next' = next /\ running' = running
      /\ start' = start /\ node' = node
  BY DEF session, answering
<1>4. SessionOK' /\ AnswerOK'
  BY <1>2, <1>3 DEF SessionOK, AnswerOK
<1>5. Filled'
  BY FilledKeeps DEF SInv
<1> QED BY <1>4, <1>5 DEF SInv

(* Nothing changes.                                                        *)
LEMMA UnchangedKeeps ==
  ASSUME SInv, UNCHANGED vars
  PROVE  SInv'
<1>1. /\ engine' = engine /\ text' = text /\ segments' = segments /\ index' = index
      /\ start' = start /\ node' = node /\ answer' = answer /\ byOrth' = byOrth /\ resolver' = resolver
      /\ asked' = asked /\ phase' = phase /\ running' = running /\ next' = next
  BY DEF vars, dictVars, loading, dictionary, session, cutting, answering
<1>2. Cut' = Cut
  BY <1>1 DEF Cut
<1>3. SessionOK' /\ Filled'
  BY <1>1, <1>2 DEF SInv, SessionOK, Filled
<1>4. AnswerOK'
  BY <1>1, SameAnswer DEF SInv
<1> QED BY <1>3, <1>4 DEF SInv

(* At first there is no session.                                           *)
LEMMA InitSession == Init => SInv
<1> SUFFICES ASSUME Init PROVE SInv
  OBVIOUS
<1>1. Filled
  <2>1. byOrth = NoEntries /\ DOMAIN NoEntries = {}
    BY DEF Init, DictInit, NoEntries
  <2> QED BY <2>1 DEF Filled
<1>2. SessionOK
  <2>1. engine = NoEngine /\ asked = 0 /\ next = 0 /\ running = FALSE /\ start = 0 /\ node = 0
    BY DEF Init
  <2>2. 0 \in Nat /\ 0 <= 0 /\ ~(0 > 0) /\ FALSE \in BOOLEAN
    OBVIOUS
  <2> QED BY <2>1, <2>2, Zenon DEF SessionOK
<1>3. AnswerOK
  BY DEF Init, AnswerOK
<1> QED BY <1>1, <1>2, <1>3 DEF SInv

(* Every step keeps the invariant of the session.                          *)
LEMMA SessionKeeps == IInv /\ SInv /\ [Next]_vars => SInv'
<1> SUFFICES ASSUME IInv, SInv, [Next]_vars PROVE SInv'
  OBVIOUS
<1>1. CASE Load /\ UNCHANGED <<session, cutting, answering>>
  BY <1>1, LoadKeepsSession
<1>2. CASE Open
  BY <1>2, OpenKeeps
<1>3. CASE ResetNumbering
  BY <1>3, ResetNumberingKeeps
<1>4. CASE \E t \in Texts(asked) : Analyze(t)
  BY <1>4, AnalyzeKeeps
<1>5. CASE Step
  BY <1>5, SkipSpacesKeeps, KeepSpacesKeeps, KnownJoinKeeps, UnknownSpanKeeps, OneSegmentKeeps,
     AppendSpacesKeeps, AppendNothingKeeps, AnalyzeNativeWordKeeps, ReturnKeeps DEF Step
<1>6. CASE UNCHANGED vars
  BY <1>6, UnchangedKeeps
<1> QED BY <1>1, <1>2, <1>3, <1>4, <1>5, <1>6 DEF Next, Ask

-----------------------------------------------------------------------------
(* What the invariant says of an answer                                    *)

(* A text with a word is not empty without its spaces.                     *)
LEMMA WordsStay ==
  ASSUME Segmented, NEW j \in 1 .. Len(segments), ~IsSpace(segments[j])
  PROVE  Unspaced(text) # <<>>
<1>1. Len(segments) \in Nat
  BY DEF Segmented
<1> DEFINE end == Len(segments) + 1
           u == Unspaced(Join(1, j))
           w == segments[j]
           v == Unspaced(Join(j + 1, end))
<1>2. 1 \in 1 .. end /\ j + 1 \in 1 .. end /\ end \in j + 1 .. end
  BY <1>1
<1>3. Unspaced(Join(1, j + 1)) = u \o Unspaced(w) /\ u \in Seq(Characters)
  BY OneMore
<1>4. w \in Seq(Characters) /\ w # <<>> /\ NoWhite(w)
  BY DEF Segmented
<1>5. Unspaced(w) = w
  BY <1>4, UnspacedNoWhite
<1>6. Join(1, j + 1) \in Seq(Characters) /\ Join(j + 1, end) \in Seq(Characters) /\ Join(1, j + 1) \o Join(j + 1, end) = text
  BY <1>1, <1>2 DEF Segmented
<1>7. Unspaced(text) = Unspaced(Join(1, j + 1)) \o v /\ v \in Seq(Characters)
  BY <1>6, UnspacedConcat
<1> HIDE DEF u, v, w, end
<1>8. u \o w \in Seq(Characters) /\ (u \o w \o v = <<>> => u \o w = <<>>) /\ (u \o w = <<>> => w = <<>>)
  <2>1. u \o w \in Seq(Characters)
    BY <1>3, <1>4, ConcatProperties
  <2>2. u \o w = <<>> => w = <<>>
    BY <1>3, <1>4, ConcatEqualIffEmpty
  <2> DEFINE x == u \o w
  <2>3. x \in Seq(Characters)
    BY <2>1
  <2> HIDE DEF x
  <2>4. x \o v = <<>> => x = <<>>
    BY <1>7, <2>3, ConcatEqualIffEmpty
  <2> QED BY <2>1, <2>2, <2>4 DEF x
<1> QED BY <1>3, <1>4, <1>5, <1>7, <1>8

(* At the end the text to be spelled is that of the mode.                  *)
LEMMA AllCovered ==
  ASSUME Segmented, engine.whitespace \in Modes
  PROVE  Covered(Len(segments) + 1) = ToSpell
<1> DEFINE n == Len(segments)
           end == n + 1
<1>1. n \in Nat /\ Join(1, end) = text /\ DOMAIN segments = 1 .. n /\ text \in Seq(Characters)
  BY DEF Segmented
<1> HIDE DEF n
<1>2. After(end) = end
  <2>1. ~(end \in 1 .. n)
    BY <1>1
  <2>2. SpacesAt(end) = <<>>
    BY <1>1, <2>1 DEF SpacesAt
  <2> QED BY <2>2 DEF After
<1>3. CASE engine.whitespace \in {"skip", "keep"}
  BY <1>1, <1>3 DEF Covered, ToSpell, n
<1>4. CASE engine.whitespace = "append" /\ WordBefore(end)
  <2>1. PICK j \in 1 .. n : ~IsSpace(segments[j])
    BY <1>1, <1>4 DEF WordBefore
  <2>2. Unspaced(text) # <<>>
    BY <2>1, WordsStay DEF n
  <2> QED BY <1>1, <1>2, <1>4, <2>2 DEF Covered, ToSpell, n
<1>5. CASE engine.whitespace = "append" /\ ~WordBefore(end)
  <2>1. \A j \in 1 .. n : IsSpace(segments[j])
    BY <1>1, <1>5 DEF WordBefore
  <2>2. n = 0 \/ n = 1
    <3> SUFFICES ASSUME n # 0, n # 1 PROVE FALSE
      OBVIOUS
    <3>1. 1 \in 1 .. n /\ 1 + 1 \in 1 .. n
      BY <1>1
    <3> QED BY <2>1, <3>1 DEF Segmented, n
  <2>3. White(text)
    <3>1. CASE n = 0
      <4>1. 1 \in 1 .. n + 1 /\ end = 1
        BY <3>1
      <4>2. text = <<>>
        <5>1. Join(1, 1) = <<>>
          BY <4>1 DEF Segmented, n
        <5> QED BY <1>1, <4>1, <5>1
      <4> QED BY <4>2 DEF White
    <3>2. CASE n = 1
      <4>1. 1 \in 1 .. n /\ end = 1 + 1
        BY <3>2
      <4>2. text = segments[1] /\ White(segments[1])
        <5>1. Join(1, 1 + 1) = segments[1] /\ (IsSpace(segments[1]) => White(segments[1]))
          BY <4>1 DEF Segmented, n
        <5> QED BY <1>1, <2>1, <4>1, <5>1
      <4> QED BY <4>2
    <3> QED BY <2>2, <3>1, <3>2
  <2>4. Unspaced(text) = <<>>
    BY <1>1, <2>3, UnspacedWhite
  <2> QED BY <1>5, <2>4 DEF Covered, ToSpell, n
<1>6. engine.whitespace \in {"skip", "keep"} \/ engine.whitespace = "append"
  BY DEF Modes
<1> QED BY <1>3, <1>4, <1>5, <1>6 DEF n

(* At the end of the segments the invariant says what TextSpelled does.    *)
LEMMA SpelledAtLast == SInv => TextSpelled
<1> SUFFICES ASSUME SInv, Answered
             PROVE  /\ \A e \in answer : start <= e.start /\ e.start < e.end /\ e.end <= node
                    /\ Spellings \subseteq {ToSpell}
                    /\ Spellings = {} => Agglutinated
  BY DEF TextSpelled
<1>1. asked > 0 /\ ~running /\ SessionOK /\ AnswerOK
  BY DEF Answered, SInv
<1>2. Segmented
  BY <1>1, SessionSegmented
<1>3. index = Len(segments) + 1 /\ engine \in Engines /\ start \in Nat /\ node \in Nat /\ start <= node
  BY <1>1 DEF SessionOK
<1>4. engine.whitespace \in Modes
  BY <1>3 DEF Engines
<1>5. Covered(index) = ToSpell
  BY <1>2, <1>3, <1>4, AllCovered
<1>6. Spelling /\ Reached
  BY <1>1 DEF AnswerOK
<1>7. SpelledBy(answer, start, node, ToSpell)
  BY <1>5, <1>6 DEF Spelling
<1>8. ToSpell \in Seq(Characters)
  <2>1. text \in Seq(Characters)
    BY <1>2 DEF Segmented
  <2>2. Unspaced(text) \in Seq(Characters)
    BY <2>1, UnspacedConcat
  <2> QED BY <2>1, <2>2 DEF ToSpell
<1> DEFINE t == ToSpell
<1> HIDE DEF t
<1>9. t \in Seq(Characters) /\ SpelledBy(answer, start, node, t)
  BY <1>7, <1>8 DEF t
<1>10. Spellings \subseteq {t} /\ (Reaching(answer, start, node) => Spellings # {})
  BY <1>3, <1>9, PathsSpell
<1>11. \A e \in answer : start <= e.start /\ e.start < e.end /\ e.end <= node
  <2>1. \A e \in answer : e.start \in start .. node /\ e.end \in e.start + 1 .. node
    BY <1>7 DEF SpelledBy
  <2> QED BY ONLY <1>3, <2>1
<1>12. Spellings = {} => Agglutinated
  BY <1>6, <1>10 DEF Reached
<1> QED BY <1>10, <1>11, <1>12 DEF t

(* A text between spaces is that of the segments from one that starts a    *)
(* run to the run's end.                                                   *)
LEMMA RunIsJoin ==
  ASSUME text \in Seq(Characters), segments = Tokenize(text), Segmented,
         NEW r \in DOMAIN WhitespaceRuns(text), ~IsSpace(WhitespaceRuns(text)[r])
  PROVE  \E i \in 1 .. Len(segments) : StartsRun(i) /\ Join(i, RunEnd(i)) = WhitespaceRuns(text)[r]
<1> DEFINE runs == WhitespaceRuns(text)
           n == Len(segments)
           m == Len(runs)
           white(k) == text[k] \in Whitespace
<1>1. /\ \E first : Cuts(first, text, TokenCuts(text), segments)
      /\ \E g : Cuts(g, text, RunCuts(text), runs)
      /\ Divides(TokenCuts(text), text) /\ Divides(RunCuts(text), text)
      /\ RunCuts(text) \subseteq TokenCuts(text)
  BY TextsCut
<1>2. PICK first : Cuts(first, text, TokenCuts(text), segments)
  BY <1>1
<1>3. PICK g : Cuts(g, text, RunCuts(text), runs)
  BY <1>1
<1> HIDE DEF runs
<1>4. /\ m \in Nat /\ DOMAIN runs = 1 .. m
      /\ \A k \in 1 .. m : runs[k] = Part(text, g[k] - 1, g[k + 1] - 1)
  BY <1>3, CutPieces
<1>5. n \in Nat /\ Len(text) \in Nat /\ DOMAIN text = 1 .. Len(text)
  BY DEF Segmented
<1>6. /\ first \in [1 .. n + 1 -> 1 .. Len(text) + 1] /\ first[1] = 1 /\ first[n + 1] = Len(text) + 1
      /\ \A k \in 1 .. n : first[k] < first[k + 1]
      /\ \A c \in TokenCuts(text) \cap DOMAIN text : \E k \in 1 .. n : first[k] = c
  BY <1>2 DEF Cuts
<1>7. /\ g \in [1 .. m + 1 -> 1 .. Len(text) + 1] /\ g[1] = 1 /\ g[m + 1] = Len(text) + 1
      /\ \A k \in 1 .. m : g[k] < g[k + 1]
      /\ \A k \in 2 .. m : g[k] \in RunCuts(text)
  BY <1>3 DEF Cuts
<1>8. \A i, j \in 1 .. n + 1 : i < j => first[i] < first[j]
  BY <1>2, CutsRise
<1>9. \A i \in 1 .. n : \A k \in first[i] .. first[i + 1] - 1 : white(k) <=> IsSpace(segments[i])
  BY <1>1, <1>2, PiecesOfSpaces
<1>10. \A i \in 1 .. m : \A k \in g[i] .. g[i + 1] - 1 : white(k) <=> IsSpace(runs[i])
  BY <1>1, <1>3, PiecesOfSpaces
<1>11. \A c \in RunCuts(text) : c \in 2 .. Len(text) /\ (white(c - 1) <=> ~white(c))
  BY DEF RunCuts
<1>12. r \in 1 .. m /\ ~IsSpace(runs[r])
  BY <1>4 DEF runs
<1> HIDE DEF n, m, white
<1> DEFINE a == g[r]
           b == g[r + 1]
<1>13. /\ a \in 1 .. Len(text) /\ b \in a + 1 .. Len(text) + 1 /\ r + 1 \in 1 .. m + 1 /\ r \in 1 .. m + 1
       /\ r = 1 => a = 1
       /\ r # 1 => a \in RunCuts(text)
       /\ r = m => b = Len(text) + 1
       /\ r # m => b \in RunCuts(text)
       /\ \A k \in a .. b - 1 : ~white(k)
  <2>1. r + 1 \in 1 .. m + 1 /\ r \in 1 .. m + 1 /\ (r # 1 => r \in 2 .. m) /\ (r # m => r + 1 \in 2 .. m)
    BY <1>4, <1>12
  <2>2. a \in 1 .. Len(text) + 1 /\ b \in 1 .. Len(text) + 1 /\ a < b
    BY <1>7, <1>12, <2>1
  <2>3. a \in 1 .. Len(text) /\ b \in a + 1 .. Len(text) + 1
    BY <1>5, <2>2
  <2>4. \A k \in a .. b - 1 : ~white(k)
    BY <1>10, <1>12
  <2> QED BY <1>7, <2>1, <2>3, <2>4
<1> HIDE DEF a, b
<1>14. PICK i \in 1 .. n : first[i] = a
  <2>1. CASE r = 1
    <3>1. n # 0
      BY <1>5, <1>6, <1>13, <2>1
    <3>2. 1 \in 1 .. n
      BY <1>5, <3>1
    <3> QED BY <1>6, <1>13, <2>1, <3>2
  <2>2. CASE r # 1
    <3>1. a \in TokenCuts(text) \cap DOMAIN text
      BY <1>1, <1>5, <1>13, <2>2
    <3> QED BY <1>6, <3>1
  <2> QED BY <2>1, <2>2
<1>15. PICK j \in 1 .. n + 1 : first[j] = b
  <2>1. CASE r = m
    <3>1. n + 1 \in 1 .. n + 1
      BY <1>5
    <3> QED BY <1>6, <1>13, <2>1, <3>1
  <2>2. CASE r # m
    <3>1. b \in TokenCuts(text) \cap DOMAIN text
      BY <1>1, <1>5, <1>11, <1>13, <2>2
    <3>2. \E k \in 1 .. n : first[k] = b
      BY <1>6, <3>1
    <3>3. \A k \in 1 .. n : k \in 1 .. n + 1
      BY <1>5
    <3> QED BY <3>2, <3>3
  <2> QED BY <2>1, <2>2
<1>16. i \in 1 .. n + 1 /\ i + 1 \in 1 .. n + 1 /\ i < j
  <2>1. i \in 1 .. n + 1 /\ i + 1 \in 1 .. n + 1
    BY <1>5
  <2>2. ~(j < i) /\ j # i
    BY <1>5, <1>8, <1>13, <1>14, <1>15, <2>1
  <2> QED BY <1>5, <2>1, <2>2
<1>17. \A k \in i .. j - 1 : k \in 1 .. n /\ ~IsSpace(segments[k])
  <2> SUFFICES ASSUME NEW k \in i .. j - 1 PROVE k \in 1 .. n /\ ~IsSpace(segments[k])
    OBVIOUS
  <2>1. k \in 1 .. n /\ k \in 1 .. n + 1 /\ k + 1 \in 1 .. n + 1 /\ k < j /\ (i = k \/ i < k)
    BY <1>5, <1>16
  <2>2. first[k] < first[j] /\ (first[i] = first[k] \/ first[i] < first[k]) /\ first[k] < first[k + 1]
    BY <1>6, <1>8, <1>16, <2>1
  <2>3. first[k] \in Int /\ first[k + 1] \in Int
    BY <1>5, <1>6, <2>1
  <2>4. first[k] \in a .. b - 1 /\ first[k] \in first[k] .. first[k + 1] - 1
    BY <1>5, <1>13, <1>14, <1>15, <2>2, <2>3
  <2>5. ~white(first[k])
    BY <1>13, <2>4
  <2> QED BY <1>9, <2>1, <2>4, <2>5
<1>18. j \in 1 .. n => IsSpace(segments[j])
  <2> SUFFICES ASSUME j \in 1 .. n PROVE IsSpace(segments[j])
    OBVIOUS
  <2>1. j + 1 \in 1 .. n + 1 /\ first[j] < first[j + 1]
    BY <1>5, <1>6
  <2>2. first[j + 1] \in 1 .. Len(text) + 1
    BY <1>6, <2>1
  <2>3. r # m
    BY <1>5, <1>13, <1>15, <2>1, <2>2
  <2>4. b - 1 \in a .. b - 1
    BY <1>5, <1>13
  <2>5. ~white(b - 1) /\ b \in RunCuts(text)
    BY <1>13, <2>3, <2>4
  <2>6. white(b)
    BY <1>11, <2>5
  <2>7. b \in first[j] .. first[j + 1] - 1
    BY <1>5, <1>13, <1>15, <2>1, <2>2
  <2> QED BY <1>9, <2>6, <2>7
<1>19. StartsRun(i)
  <2>1. ~IsSpace(segments[i])
    <3>1. i \in i .. j - 1
      BY <1>5, <1>16
    <3> QED BY <1>17, <3>1
  <2>2. ASSUME i # 1 PROVE IsSpace(segments[i - 1])
    <3>1. i - 1 \in 1 .. n /\ i - 1 \in 1 .. n + 1 /\ (i - 1) + 1 = i
      BY <1>5, <2>2
    <3>2. first[i - 1] < first[(i - 1) + 1] /\ first[i - 1] \in 1 .. Len(text) + 1
      BY <1>6, <3>1
    <3>3. first[i - 1] < a
      BY <1>14, <3>1, <3>2
    <3>4. a \in RunCuts(text)
      BY <1>5, <1>13, <3>2, <3>3
    <3>5. a \in a .. b - 1
      BY <1>5, <1>13
    <3>6. white(a - 1)
      BY <1>11, <1>13, <3>4, <3>5
    <3>7. a - 1 \in first[i - 1] .. first[(i - 1) + 1] - 1
      BY <1>5, <1>13, <1>14, <3>1, <3>2, <3>3
    <3> QED BY <1>9, <3>1, <3>6, <3>7
  <2> QED BY <2>1, <2>2 DEF StartsRun
<1>20. RunEnd(i) = j
  <2> DEFINE e == RunEnd(i)
  <2>1. /\ e \in i + 1 .. n + 1
        /\ \A k \in i .. e - 1 : ~IsSpace(segments[k])
        /\ e \in 1 .. n => IsSpace(segments[e])
    <3>1. i \in 1 .. Len(segments) + 1 /\ i \in 1 .. Len(segments) /\ ~IsSpace(segments[i])
      BY <1>16, <1>19 DEF StartsRun, n
    <3> QED BY <3>1, RunEndIs DEF n
  <2> HIDE DEF e
  <2>2. ~(e < j)
    <3> SUFFICES ASSUME e < j PROVE FALSE
      OBVIOUS
    <3>1. e \in i .. j - 1 /\ e \in 1 .. n
      BY <1>5, <1>16, <2>1
    <3> QED BY <1>17, <2>1, <3>1
  <2>3. ~(j < e)
    <3> SUFFICES ASSUME j < e PROVE FALSE
      OBVIOUS
    <3>1. j \in i .. e - 1 /\ j \in 1 .. n
      BY <1>5, <1>16, <2>1
    <3> QED BY <1>18, <2>1, <3>1
  <2>4. e = j
    BY <1>5, <2>1, <2>2, <2>3
  <2> QED BY <2>4 DEF e
<1>21. Join(i, j) = Part(text, a - 1, b - 1)
  <2>1. i \in 1 .. Len(segments) + 1 /\ j \in i .. Len(segments) + 1
    BY <1>5, <1>16 DEF n
  <2>2. Join(i, j) = Part(text, first[i] - 1, first[j] - 1)
    BY <1>2, <2>1, JoinIs
  <2> QED BY <1>14, <1>15, <2>2
<1>22. runs[r] = Join(i, RunEnd(i))
  BY <1>4, <1>12, <1>20, <1>21 DEF a, b
<1> QED BY <1>19, <1>22 DEF n, runs

(* At the end of the segments the invariant says what KnownRunsFound does. *)
LEMMA RunsFoundAtLast == SInv => KnownRunsFound
<1> SUFFICES ASSUME SInv, Answered, ~engine.native,
                    NEW r \in DOMAIN Wholes, ~IsSpace(Wholes[r]), KnownWhole(Wholes[r]),
                    NEW e \in ToSet(Lookup(Wholes[r]))
             PROVE  \E f \in answer : f = EntryEdge(e, f.start, f.end, f.orth) /\ Bare(f.orth) = Wholes[r]
  BY DEF KnownRunsFound, KnownWhole
<1>1. asked > 0 /\ ~running /\ SessionOK /\ AnswerOK
  BY DEF Answered, SInv
<1>2. Segmented
  BY <1>1, SessionSegmented
<1>3. index = Len(segments) + 1 /\ segments = Tokenize(text) /\ text \in Seq(Characters) /\ Len(segments) \in Nat
  BY <1>1, <1>2 DEF SessionOK, Cut, Segmented
<1>4. RunsFound(1, index - 1, answer)
  BY <1>1 DEF AnswerOK
<1>5. CASE engine.whitespace = "append"
  <2>1. Wholes = segments
    BY <1>3, <1>5 DEF Wholes
  <2>2. r \in 1 .. index - 1
    BY <1>2, <1>3, <2>1 DEF Segmented
  <2>3. SegmentIn(Wholes[r], answer)
    BY <1>4, <1>5, <2>1, <2>2 DEF RunsFound
  <2> QED BY <1>5, <2>3 DEF SegmentIn, Bare
<1>6. CASE engine.whitespace # "append"
  <2>1. Wholes = WhitespaceRuns(text)
    BY <1>6 DEF Wholes
  <2>2. PICK i \in 1 .. Len(segments) : StartsRun(i) /\ Join(i, RunEnd(i)) = WhitespaceRuns(text)[r]
    BY <1>2, <1>3, <2>1, RunIsJoin
  <2>3. i \in 1 .. index - 1
    BY <1>3
  <2>4. WholeIn(Wholes[r], answer)
    BY <1>4, <1>6, <2>1, <2>2, <2>3 DEF RunsFound
  <2>5. PICK f \in answer : f = EntryEdge(e, f.start, f.end, Wholes[r])
    BY <2>4 DEF WholeIn
  <2>6. f.orth = Wholes[r]
    BY <2>5 DEF EntryEdge, Edge
  <2>7. f = EntryEdge(e, f.start, f.end, f.orth) /\ Bare(f.orth) = Wholes[r]
    BY <1>6, <2>5, <2>6 DEF Bare
  <2> QED BY <2>7
<1> QED BY <1>5, <1>6

-----------------------------------------------------------------------------
(* The theorems of the session                                             *)

(* The dictionary that is read has readings, the session is where its text *)
(* and its segments say, and the answer so far spells what it went past.   *)
THEOREM SessionInvariant == Spec => [](IInv /\ SInv)
<1>1. Init => SInv
  BY InitSession
<1>2. IInv /\ SInv /\ [Next]_vars => SInv'
  BY SessionKeeps
<1> QED BY <1>1, <1>2, Invariant, PTL DEF Spec

(* However a text is cut into words, marks and spaces, joined around       *)
(* hyphens and apostrophes, sliced at agglutinates or handed to a binary   *)
(* dictionary, and whatever becomes of the spaces and of the numbering:    *)
(* the edges of the answer lead forward, each path spells the text, and    *)
(* but for agglutinates there is a path.                                   *)
THEOREM TextsSpelled == Spec => []TextSpelled
<1>1. SInv => TextSpelled
  BY SpelledAtLast
<1> QED BY <1>1, SessionInvariant, PTL

(* Where spaces are skipped or kept, what the dictionary in memory knows   *)
(* of a text between spaces, numbers excepted, is in the answer, all of    *)
(* it, whatever hyphens cut the text and whatever parts of it are known:   *)
(* the longest known join is the whole.  Where spaces are attached, what   *)
(* it knows of a single segment is, spaces around the segment or not; a    *)
(* word of several segments is not looked up there.                        *)
THEOREM RunsAreFound == Spec => []KnownRunsFound
<1>1. SInv => KnownRunsFound
  BY RunsFoundAtLast
<1> QED BY <1>1, SessionInvariant, PTL
=============================================================================
