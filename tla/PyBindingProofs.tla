--------------------------- MODULE PyBindingProofs ---------------------------
(***************************************************************************)
(* The Python binding implements the handles that its threads are promised *)
(* to share, for any threads, objects, dictionaries and texts, with a lock *)
(* of the interpreter or without.                                          *)
(***************************************************************************)
EXTENDS PyBinding, WellFoundedInduction, TLAPS

-----------------------------------------------------------------------------
(* The inductive invariant                                                 *)

(* Where a call is attached to the interpreter; where it has one text, and *)
(* where it may have several.                                              *)
AttachedPcs == {"numbering", "detach", "share", "resolve", "build", "generate",
                "take", "apply", "copy", "path", "load"}
SinglePcs   == {"numbering", "detach", "run", "number", "low return"}
ManyPcs     == {"share", "work", "collect", "generate"}
AskedPcs    == SinglePcs \cup ManyPcs \cup {"attach", "resolve", "build"}

Blank(texts) == [i \in DOMAIN texts |-> Unanswered]

IsCall(c) ==
  /\ c = [obj |-> c.obj, pc |-> c.pc, texts |-> c.texts, many |-> c.many, low |-> c.low,
          continuous |-> c.continuous, items |-> c.items]
  /\ c.obj \in Objects /\ c.texts \in Seq(Texts)
  /\ c.many \in BOOLEAN /\ c.low \in BOOLEAN /\ c.continuous \in BOOLEAN
  /\ c.texts # <<>> /\ ~c.many => Len(c.texts) = 1
  /\ c.low => c.continuous

(* What a call has at each place of its method.                            *)
ItemsFit(c) ==
  \/ /\ c.pc \in AskedPcs \cup {"take"} /\ c.texts # <<>>
     /\ c.items \in Seq(Outcome \cup {Unanswered, Error}) /\ DOMAIN c.items = DOMAIN c.texts
  \/ c.pc \in {"take", "apply"} /\ c.texts = <<>> /\ c.items \in Change
  \/ c.pc \in {"path", "load"} /\ c.texts = <<>> /\ c.items \in Opening
  \/ c.pc = "copy" /\ c.texts = <<>> /\ c.items = <<>>

Stage(c) ==
  /\ c.pc \in {"numbering", "detach", "run", "share", "generate", "take"} /\ c.texts # <<>>
       => c.items = Blank(c.texts)
  /\ c.pc \in SinglePcs \cup {"take"} => ~c.many
  /\ c.pc \in ManyPcs => c.many
  /\ c.pc = "take" /\ c.texts # <<>> => c.low
  /\ c.pc \in {"numbering", "detach"} => ~c.low
  /\ c.pc = "generate" => Len(c.texts) = 1
  /\ c.pc \in {"number", "low return"} => c.items[1] # Unanswered
  /\ c.pc \in {"attach", "collect"} =>
       \/ \E i \in DOMAIN c.items : c.items[i] = Error
       \/ \A i \in DOMAIN c.items : c.items[i] # Unanswered
  /\ c.pc \in {"resolve", "build"} => \A i \in DOMAIN c.items : c.items[i] \in Outcome

CallOK(c) == IsCall(c) /\ ItemsFit(c) /\ Stage(c)

(* The low-level object that a call has borrowed.                          *)
HoldsLow(t, kind) == Borrow("low", calls[t].obj, t, kind) \in borrows

Holding(t) ==
  LET c == calls[t] IN
  /\ c.pc \in {"run", "number"} => HoldsLow(t, KindFor(c.continuous))
  /\ c.pc \in {"work", "collect"} => HoldsLow(t, "shared")
  /\ c.pc = "attach" => HoldsLow(t, "shared") \/ HoldsLow(t, "mut")
  /\ c.pc = "apply" => HoldsLow(t, "mut")
  /\ c.pc \in {"generate", "resolve"} => \A b \in borrows : b.thread = t => b.layer = "high"
  /\ c.pc \in AttachedPcs => t \in attached
  /\ build = "gil" /\ c.pc = "resolve" => CanBorrow("low", c.obj, "shared")

(* What it has read of the object still holds, or it has met another.      *)
UpToDate(t) ==
  LET c == calls[t]
      m == objects[c.obj] IN
  /\ IF c.pc \in {"path", "load"} THEN m = Closed /\ OthersOn(t, c.obj) = {} ELSE m \in Object
  /\ c.pc = "number" => c.items = <<Analysed(t)>>
  /\ c.pc \in {"work", "collect"} =>
       \A i \in DOMAIN c.items : c.items[i] \in {Unanswered, Item(m.dict, c.texts[i], 0)}
  /\ c.pc \in {"detach", "run", "number"} /\ ~c.continuous /\ m.numbering = "continuous" => t \in met
  /\ c.pc \in {"attach", "resolve", "build"} =>
       t \in met \/ \A i \in DOMAIN c.items : c.items[i] \in Outcome => c.items[i].dict = m.dict

Sound(t) == CallOK(calls[t]) /\ Holding(t) /\ UpToDate(t)

BorrowType == [layer : {"low", "high"}, obj : Objects, thread : Threads, kind : {"shared", "mut"}]

TypeOK ==
  /\ build \in Builds /\ paths \in Seq(Directories)
  /\ objects \in [Objects -> Object \cup {Closed}]
  /\ borrows \subseteq BorrowType
  /\ attached \subseteq Threads /\ met \subseteq Threads
  /\ DOMAIN calls = Threads

(* Borrows are of calls under way and exclude each other as their kinds    *)
(* say; a lock lets one thread be attached; without one, calls on the same *)
(* object have met.                                                        *)
BorrowsInv ==
  /\ \A b \in borrows : calls[b.thread] # Idle /\ calls[b.thread].obj = b.obj
  /\ \A b, c \in borrows : b.layer = c.layer /\ b.obj = c.obj /\ b.thread # c.thread
                           => b.kind = "shared" /\ c.kind = "shared"

TogetherInv ==
  /\ build = "gil" => \A t, u \in attached : t = u
  /\ build = "free" => \A t \in Threads : calls[t] # Idle /\ OthersOn(t, calls[t].obj) # {} => t \in met

IInv ==
  /\ TypeOK /\ BorrowsInv /\ TogetherInv
  /\ \A t \in Threads : calls[t] # Idle => Sound(t)

-----------------------------------------------------------------------------
(* Calls as records                                                        *)

With(c, pc, continuous, items) ==
  [obj |-> c.obj, pc |-> pc, texts |-> c.texts, many |-> c.many, low |-> c.low,
   continuous |-> continuous, items |-> items]

(* A record of a call's fields, and what it becomes.                       *)
IsRecord(c) == c = With(c, c.pc, c.continuous, c.items)

LEMMA WithOne ==
  ASSUME NEW c, IsRecord(c), NEW pc, NEW continuous, NEW items
  PROVE  /\ [c EXCEPT !.pc = pc] = With(c, pc, c.continuous, c.items)
         /\ [c EXCEPT !.continuous = continuous] = With(c, c.pc, continuous, c.items)
         /\ [c EXCEPT !.items = items] = With(c, c.pc, c.continuous, items)
<1>0. c = [obj |-> c.obj, pc |-> c.pc, texts |-> c.texts, many |-> c.many, low |-> c.low,
           continuous |-> c.continuous, items |-> c.items]
  BY DEF IsRecord, With
<1>1. [c EXCEPT !.pc = pc] = With(c, pc, c.continuous, c.items)
  BY <1>0 DEF With
<1>2. [c EXCEPT !.continuous = continuous] = With(c, c.pc, continuous, c.items)
  BY <1>0 DEF With
<1>3. [c EXCEPT !.items = items] = With(c, c.pc, c.continuous, items)
  BY <1>0 DEF With
<1> QED BY <1>1, <1>2, <1>3

LEMMA WithIs ==
  ASSUME NEW c, IsCall(c), NEW pc, NEW continuous
  PROVE  /\ [c EXCEPT !.pc = pc] = With(c, pc, c.continuous, c.items)
         /\ [c EXCEPT !.pc = pc, !.continuous = continuous] = With(c, pc, continuous, c.items)
<1>1. IsRecord(c)
  BY DEF IsCall, IsRecord, With
<1> DEFINE d == With(c, pc, c.continuous, c.items)
<1>2. [c EXCEPT !.pc = pc] = d
  BY <1>1, WithOne
<1>3. IsRecord(d) /\ With(d, d.pc, continuous, d.items) = With(c, pc, continuous, c.items)
  BY DEF IsRecord, With
<1> HIDE DEF d
<1>4. [d EXCEPT !.continuous = continuous] = With(d, d.pc, continuous, d.items)
  BY <1>3, WithOne
<1>5. [c EXCEPT !.pc = pc, !.continuous = continuous]
        = [[c EXCEPT !.pc = pc] EXCEPT !.continuous = continuous]
  OBVIOUS
<1> QED BY <1>2, <1>3, <1>4, <1>5 DEF d

LEMMA WithItems ==
  ASSUME NEW c, IsCall(c), NEW pc, NEW items
  PROVE  [c EXCEPT !.items = items, !.pc = pc] = With(c, pc, c.continuous, items)
<1>1. IsRecord(c)
  BY DEF IsCall, IsRecord, With
<1> DEFINE e == With(c, c.pc, c.continuous, items)
<1>2. [c EXCEPT !.items = items] = e
  BY <1>1, WithOne
<1>3. IsRecord(e) /\ With(e, pc, e.continuous, e.items) = With(c, pc, c.continuous, items)
  BY DEF IsRecord, With
<1> HIDE DEF e
<1>4. [e EXCEPT !.pc = pc] = With(e, pc, e.continuous, e.items)
  BY <1>3, WithOne
<1>5. [c EXCEPT !.items = items, !.pc = pc] = [[c EXCEPT !.items = items] EXCEPT !.pc = pc]
  OBVIOUS
<1> QED BY <1>2, <1>3, <1>4, <1>5 DEF e

LEMMA WithNewItems ==
  ASSUME NEW c, IsCall(c), NEW items
  PROVE  [c EXCEPT !.items = items] = With(c, c.pc, c.continuous, items)
<1>1. IsRecord(c)
  BY DEF IsCall, IsRecord, With
<1> QED BY <1>1, WithOne

LEMMA CallIsRecord ==
  ASSUME NEW c, IsCall(c), ItemsFit(c)
  PROVE  c \in CallRecord /\ c # Idle
<1>1. c.pc \in Places
  BY DEF Places, ItemsFit, AskedPcs, SinglePcs, ManyPcs
<1>2. c.items \in Seq(Outcome \cup {Unanswered, Error}) \cup Change \cup Opening
  <2>1. c.items = <<>> => c.items \in Seq(Outcome \cup {Unanswered, Error})
    OBVIOUS
  <2> QED BY <2>1 DEF ItemsFit
<1>3. c \in CallRecord
  BY <1>1, <1>2 DEF IsCall, CallRecord
<1> QED BY <1>3, MarksAssumption

LEMMA CallTypes ==
  ASSUME NEW c, CallOK(c)
  PROVE  /\ c.continuous \in BOOLEAN /\ c.pc \in Places
         /\ c.items \in Seq(Outcome \cup {Unanswered, Error}) \cup Change \cup Opening
<1>1. IsCall(c) /\ ItemsFit(c)
  BY DEF CallOK
<1>2. c \in CallRecord
  BY <1>1, CallIsRecord
<1> QED BY <1>2 DEF CallRecord

LEMMA SizeType ==
  ASSUME NEW d \in Dictionaries, NEW x \in Texts
  PROVE  Size(d, x) \in Nat
BY PyBindingAssumption

LEMMA ItemType ==
  ASSUME NEW d \in Dictionaries, NEW x \in Texts, NEW start \in Nat
  PROVE  /\ Item(d, x, start) \in Outcome \cup {Error} /\ Item(d, x, start) # Unanswered
         /\ Item(d, x, start) # Error => Item(d, x, start).dict = d
         /\ Item(d, x, start) = Error <=> Size(d, x) = 0
<1>1. [dict |-> d, text |-> x, start |-> start] \in Outcome
  BY DEF Outcome
<1> QED BY <1>1, MarksAssumption DEF Item

LEMMA TextsType ==
  ASSUME NEW c, IsCall(c)
  PROVE  /\ DOMAIN c.texts = 1 .. Len(c.texts) /\ Len(c.texts) \in Nat
         /\ \A i \in DOMAIN c.texts : c.texts[i] \in Texts
         /\ c.texts # <<>> => 1 \in DOMAIN c.texts
BY DEF IsCall

LEMMA ObjectType ==
  ASSUME NEW m \in Object
  PROVE  /\ m = [dict |-> m.dict, numbering |-> m.numbering, next |-> m.next]
         /\ m.dict \in Dictionaries /\ m.numbering \in Numberings /\ m.next \in Nat
         /\ m # Closed
BY PyBindingAssumption DEF Object

(* The first directory on a path that has the dictionary, if one has.      *)
LEMMA FoundIsDictionary ==
  ASSUME NEW dirs \in Seq(Directories), NEW name \in Names
  PROVE  FirstHolding(dirs, name) \in Dictionaries \cup {NoDictionary}
<1> DEFINE holding == { i \in DOMAIN dirs : Holds(dirs[i], name) # NoDictionary }
<1>1. CASE holding = {}
  BY <1>1 DEF FirstHolding
<1>2. CASE holding # {}
  <2>1. holding \subseteq Nat
    OBVIOUS
  <2>2. PICK k \in holding : \A i \in holding : ~ (<<i, k>> \in OpToRel(<, Nat))
    BY <1>2, <2>1, WFMin, NatLessThanWellFounded
  <2>3. \A i \in holding : k =< i
    <3>1. k \in Nat /\ \A i \in holding : i \in Nat /\ ~(i < k)
      BY <2>1, <2>2 DEF OpToRel
    <3> HIDE DEF holding
    <3> QED BY <3>1
  <2>4. Min(holding) \in holding
    BY <2>2, <2>3 DEF Min
  <2>5. dirs[Min(holding)] \in Directories
    BY <2>4
  <2> HIDE DEF holding
  <2>6. Holds(dirs[Min(holding)], name) \in Dictionaries \cup {NoDictionary}
    BY <2>5, PyBindingAssumption
  <2> QED BY <1>2, <2>6 DEF FirstHolding, holding
<1> QED BY <1>1, <1>2

LEMMA WithPathType ==
  ASSUME NEW dirs \in Seq(Directories), NEW d \in Directories
  PROVE  WithPath(dirs, d) \in Seq(Directories)
BY DEF WithPath

(* A call in its stage.                                                    *)
LEMMA CallFacts ==
  ASSUME IInv, NEW t \in Threads, calls[t] # Idle
  PROVE  /\ Sound(t) /\ CallOK(calls[t]) /\ IsCall(calls[t])
         /\ Holding(t) /\ UpToDate(t)
         /\ calls[t].obj \in Objects
BY DEF IInv, Sound, CallOK, IsCall

LEMMA OpenObject ==
  ASSUME IInv, NEW t \in Threads, calls[t] # Idle, calls[t].pc \notin {"path", "load"}
  PROVE  /\ objects[calls[t].obj] \in Object /\ objects[calls[t].obj].dict \in Dictionaries
         /\ objects[calls[t].obj].next \in Nat /\ objects[calls[t].obj].numbering \in Numberings
<1>1. objects[calls[t].obj] \in Object
  BY CallFacts DEF UpToDate
<1> QED BY <1>1, ObjectType

LEMMA MetOn ==
  ASSUME IInv, build = "free", NEW t \in Threads, NEW u \in Threads \ {t},
         calls[t] # Idle, calls[u] # Idle, calls[t].obj = calls[u].obj
  PROVE  t \in met /\ u \in met
<1>1. u \in OthersOn(t, calls[t].obj) /\ t \in OthersOn(u, calls[u].obj)
  BY DEF OthersOn
<1> QED BY <1>1 DEF IInv, TogetherInv

LEMMA BuildIs == IInv => build = "gil" \/ build = "free"
BY DEF IInv, TypeOK, Builds

(* One who may write to the low-level object shares it with nobody.        *)
LEMMA AloneWithMut ==
  ASSUME IInv, NEW t \in Threads, NEW u \in Threads \ {t}, NEW o,
         Borrow("low", o, t, "mut") \in borrows
  PROVE  \A kind : Borrow("low", o, u, kind) \notin borrows
<1> SUFFICES ASSUME NEW kind, Borrow("low", o, u, kind) \in borrows
             PROVE  FALSE
  OBVIOUS
<1> DEFINE b == Borrow("low", o, t, "mut")
           c == Borrow("low", o, u, kind)
<1>1. b.layer = c.layer /\ b.obj = c.obj /\ b.thread = t /\ c.thread = u /\ b.kind = "mut"
  BY DEF Borrow
<1> HIDE DEF b, c
<1>2. b \in borrows /\ c \in borrows
  BY DEF b, c
<1> QED BY <1>1, <1>2 DEF IInv, BorrowsInv

-----------------------------------------------------------------------------
(* What a step of one thread leaves the others                             *)

(* The object of a call is as it was; or all that the call has read of it  *)
(* is; or the call has read nothing of it, or met the thread that writes.  *)
Undisturbed(u) ==
  LET o  == calls[u].obj
      pc == calls[u].pc IN
  \/ objects'[o] = objects[o]
  \/ /\ objects'[o] \in Object /\ pc \notin {"path", "load"}
     /\ \/ /\ pc # "number"
           /\ objects'[o].dict = objects[o].dict /\ objects'[o].numbering = objects[o].numbering
        \/ /\ pc \notin {"run", "number", "work", "collect", "attach"}
           /\ u \in met \/ pc \notin {"detach", "resolve", "build"}

LEMMA OthersSound ==
  ASSUME IInv, NEW t \in Threads, NEW u \in Threads \ {t}, calls[u] # Idle,
         calls'[u] = calls[u], build' = build,
         u \in attached => u \in attached', u \in met => u \in met',
         \A b \in borrows : b.thread = u => b \in borrows',
         \A b \in borrows' : b \in borrows \/ (b.thread # u /\ (build = "gil" => u \notin attached)),
         Undisturbed(u),
         calls[u].pc \in {"path", "load"} => OthersOn(u, calls[u].obj)' = {}
  PROVE  Sound(u)'
<1> DEFINE c == calls[u]
           m == objects[c.obj]
           n == objects'[c.obj]
<1>1. CallOK(c) /\ Holding(u) /\ UpToDate(u)
  BY CallFacts
<1>2. CallOK(calls[u])'
  BY <1>1
<1>3. \A kind : HoldsLow(u, kind) => HoldsLow(u, kind)'
  BY DEF HoldsLow, Borrow
<1>4. build = "gil" /\ c.pc = "resolve" => CanBorrow("low", c.obj, "shared")'
  <2> SUFFICES ASSUME build = "gil", c.pc = "resolve"
               PROVE  CanBorrow("low", c.obj, "shared")'
    OBVIOUS
  <2>1. u \in attached /\ CanBorrow("low", c.obj, "shared")
    BY <1>1 DEF Holding, AttachedPcs
  <2>2. \A b \in borrows' : b \in borrows
    BY <2>1
  <2> QED BY <2>1, <2>2 DEF CanBorrow
<1>5. Holding(u)'
  <2>1. c.pc \in {"generate", "resolve"} => \A b \in borrows' : b.thread = u => b.layer = "high"
    BY <1>1 DEF Holding
  <2> QED BY <1>1, <1>3, <1>4, <2>1 DEF Holding
<1>6. UpToDate(u)'
  <2> USE DEF UpToDate
  <2>1. CASE n = m
    <3>1. Analysed(u)' = Analysed(u)
      BY <2>1 DEF Analysed, Continuous
    <3> QED BY <1>1, <2>1, <3>1
  <2>2. CASE n \in Object /\ c.pc \notin {"path", "load"} /\ c.pc # "number"
             /\ n.dict = m.dict /\ n.numbering = m.numbering
    BY <1>1, <2>2
  <2>3. CASE /\ n \in Object /\ c.pc \notin {"path", "load"}
             /\ c.pc \notin {"run", "number", "work", "collect", "attach"}
             /\ u \in met \/ c.pc \notin {"detach", "resolve", "build"}
    BY <1>1, <2>3
  <2> QED BY <2>1, <2>2, <2>3 DEF Undisturbed
<1> QED BY <1>2, <1>5, <1>6 DEF Sound

(* A call goes on: what it may do to the borrows and the interpreter.      *)
LEMMA GoesOn ==
  ASSUME IInv, NEW t \in Threads, calls[t] # Idle, NEW d, d # Idle, d.obj = calls[t].obj,
         calls' = [calls EXCEPT ![t] = d], UNCHANGED <<build, met>>,
         paths' \in Seq(Directories), objects' \in [Objects -> Object \cup {Closed}],
         \/ borrows' = borrows
         \/ \E kind \in {"shared", "mut"} :
              /\ CanBorrow("low", calls[t].obj, kind) /\ t \in attached
              /\ borrows' = borrows \cup {Borrow("low", calls[t].obj, t, kind)}
         \/ borrows' = { b \in borrows : ~(b.thread = t /\ b.layer = "low") },
         \/ attached' = attached \/ attached' = attached \ {t}
         \/ CanAttach /\ attached' = attached \cup {t},
         \A u \in Threads \ {t} : calls[u] # Idle => Undisturbed(u),
         Sound(t)'
  PROVE  IInv'
<1>1. DOMAIN calls' = Threads /\ calls'[t] = d /\ \A u \in Threads \ {t} : calls'[u] = calls[u]
  BY DEF IInv, TypeOK
<1>8. \A v \in Threads : calls'[v] # Idle => calls[v] # Idle /\ calls'[v].obj = calls[v].obj
  BY <1>1
<1>2. calls[t].obj \in Objects
  BY CallFacts
<1>3. TypeOK'
  <2>1. borrows' \subseteq BorrowType
    <3>1. \A kind \in {"shared", "mut"} : Borrow("low", calls[t].obj, t, kind) \in BorrowType
      BY <1>2 DEF Borrow, BorrowType
    <3> QED BY <3>1 DEF IInv, TypeOK
  <2> QED BY <1>1, <2>1 DEF IInv, TypeOK, BorrowType
<1>4. \A b \in borrows' : b \in borrows
         \/ \E kind \in {"shared", "mut"} : /\ b = Borrow("low", calls[t].obj, t, kind) /\ t \in attached
                                            /\ CanBorrow("low", calls[t].obj, kind)
  OBVIOUS
<1>5. BorrowsInv'
  <2>1. ASSUME NEW b \in borrows'
        PROVE  calls'[b.thread] # Idle /\ calls'[b.thread].obj = b.obj
    <3>1. CASE b \in borrows
      <4>1. b.thread \in Threads /\ calls[b.thread] # Idle /\ calls[b.thread].obj = b.obj
        BY <3>1 DEF IInv, BorrowsInv, TypeOK, BorrowType
      <4> QED BY <1>1, <4>1
    <3>2. ASSUME NEW kind, b = Borrow("low", calls[t].obj, t, kind)
          PROVE  calls'[b.thread] # Idle /\ calls'[b.thread].obj = b.obj
      BY <1>1, <3>2 DEF Borrow
    <3> QED BY <1>4, <3>1, <3>2
  <2>2. ASSUME NEW b \in borrows', NEW c \in borrows', b.layer = c.layer, b.obj = c.obj,
               b.thread # c.thread
        PROVE  b.kind = "shared" /\ c.kind = "shared"
    <3>1. CASE b \in borrows /\ c \in borrows
      BY <2>2, <3>1 DEF IInv, BorrowsInv
    <3>2. ASSUME NEW x \in borrows, NEW y, NEW kind, y = Borrow("low", calls[t].obj, t, kind),
                 CanBorrow("low", calls[t].obj, kind), x.layer = y.layer, x.obj = y.obj
          PROVE  x.kind = "shared" /\ y.kind = "shared"
      BY <3>2 DEF CanBorrow, Borrow
    <3>3. CASE b \notin borrows /\ c \notin borrows
      BY <1>4, <2>2, <3>3 DEF Borrow
    <3>4. CASE b \in borrows /\ c \notin borrows
      BY <1>4, <2>2, <3>2, <3>4
    <3>5. CASE b \notin borrows /\ c \in borrows
      BY <1>4, <2>2, <3>2, <3>5
    <3> QED BY <3>1, <3>3, <3>4, <3>5
  <2> QED BY <2>1, <2>2 DEF BorrowsInv
<1>6. TogetherInv'
  <2>1. build = "gil" => \A u, v \in attached' : u = v
    BY DEF IInv, TogetherInv, CanAttach
  <2>2. ASSUME build = "free", NEW u \in Threads, calls'[u] # Idle, OthersOn(u, calls[u].obj)' # {}
        PROVE  u \in met
    <3>1. calls[u] # Idle /\ OthersOn(u, calls[u].obj) # {}
      BY <1>8, <2>2 DEF OthersOn
    <3> QED BY <2>2, <3>1 DEF IInv, TogetherInv
  <2> QED BY <2>1, <2>2 DEF TogetherInv
<1>7. ASSUME NEW u \in Threads \ {t}, calls'[u] # Idle
      PROVE  Sound(u)'
  <2>1. calls[u] # Idle /\ calls'[u] = calls[u] /\ (u \in attached => u \in attached')
    BY <1>1, <1>7
  <2>2. \A b \in borrows : b.thread = u => b \in borrows'
    OBVIOUS
  <2>3. \A b \in borrows' : b \in borrows \/ (b.thread # u /\ (build = "gil" => u \notin attached))
    <3>1. \A kind : Borrow("low", calls[t].obj, t, kind).thread = t
      BY DEF Borrow
    <3> QED BY <1>4, <3>1 DEF IInv, TogetherInv
  <2>4. calls[u].pc \in {"path", "load"} => OthersOn(u, calls[u].obj)' = {}
    <3>1. calls[u].pc \in {"path", "load"} => OthersOn(u, calls[u].obj) = {}
      BY <2>1, CallFacts DEF UpToDate
    <3> QED BY <1>8, <2>1, <3>1 DEF OthersOn
  <2> QED BY <1>7, <2>1, <2>2, <2>3, <2>4, OthersSound
<1> QED BY <1>1, <1>3, <1>5, <1>6, <1>7 DEF IInv

(* A call ends.                                                            *)
LEMMA ReturnKeeps ==
  ASSUME IInv, NEW t \in Threads, NEW value, Return(t, value),
         paths' \in Seq(Directories), objects' \in [Objects -> Object \cup {Closed}],
         \A u \in Threads \ {t} : calls[u] # Idle => Undisturbed(u)
  PROVE  IInv'
<1>1. /\ DOMAIN calls' = Threads /\ calls'[t] = Idle /\ \A u \in Threads \ {t} : calls'[u] = calls[u]
      /\ borrows' = { b \in borrows : b.thread # t } /\ attached' = attached \ {t}
      /\ met' = met \ {t} /\ build' = build
  BY DEF IInv, TypeOK, Return
<1>2. TypeOK'
  BY <1>1 DEF IInv, TypeOK, BorrowType
<1>3. BorrowsInv'
  <2>1. \A b \in borrows : b.thread \in Threads
    BY DEF IInv, TypeOK, BorrowType
  <2> QED BY <1>1, <2>1 DEF IInv, BorrowsInv
<1>4. TogetherInv'
  <2>1. build = "gil" => \A u, v \in attached' : u = v
    BY <1>1 DEF IInv, TogetherInv
  <2>2. ASSUME build = "free", NEW u \in Threads, calls'[u] # Idle, OthersOn(u, calls[u].obj)' # {}
        PROVE  u \in met'
    <3>1. calls[u] # Idle /\ OthersOn(u, calls[u].obj) # {} /\ u # t
      BY <1>1, <2>2 DEF OthersOn
    <3> QED BY <1>1, <2>2, <3>1 DEF IInv, TogetherInv
  <2> QED BY <1>1, <2>1, <2>2 DEF TogetherInv
<1>5. ASSUME NEW u \in Threads, calls'[u] # Idle
      PROVE  Sound(u)'
  <2>1. u \in Threads \ {t} /\ calls[u] # Idle /\ calls'[u] = calls[u]
    BY <1>1, <1>5
  <2>2. calls[u].pc \in {"path", "load"} => OthersOn(u, calls[u].obj)' = {}
    <3>1. calls[u].pc \in {"path", "load"} => OthersOn(u, calls[u].obj) = {}
      BY <2>1, CallFacts DEF UpToDate
    <3> QED BY <1>1, <2>1, <3>1 DEF OthersOn
  <2>3. (\A b \in borrows' : b \in borrows) /\ (\A b \in borrows : b.thread = u => b \in borrows')
    BY <1>1, <2>1
  <2> QED BY <1>1, <2>1, <2>2, <2>3, OthersSound
<1> QED BY <1>2, <1>3, <1>4, <1>5 DEF IInv

(* A call begins on an object that no thread is opening.                   *)
LEMMA BeginKeeps ==
  ASSUME IInv, NEW t \in Threads, NEW o \in Objects, NEW layer \in {"low", "high"},
         NEW kind \in {"shared", "mut"}, NEW call, Begin(t, o, layer, kind, call),
         call # Idle, call.obj = o,
         \A u \in Threads \ {t} : calls[u] # Idle /\ calls[u].obj = o => calls[u].pc \notin {"path", "load"},
         calls'[t] # Idle => Sound(t)'
  PROVE  IInv'
<1>0. calls[t] = Idle /\ CanAttach
  BY DEF Begin
<1>1. CASE Fail(t)
  <2>1. Return(t, Error) /\ UNCHANGED <<paths, objects>>
    BY <1>1 DEF Fail
  <2>2. \A u \in Threads \ {t} : calls[u] # Idle => Undisturbed(u)
    BY <2>1 DEF Undisturbed
  <2>3. paths' \in Seq(Directories) /\ objects' \in [Objects -> Object \cup {Closed}]
    BY <2>1 DEF IInv, TypeOK
  <2> QED BY <2>1, <2>2, <2>3, ReturnKeeps
<1>2. ASSUME CanBorrow(layer, o, kind), borrows' = borrows \cup {Borrow(layer, o, t, kind)},
             attached' = attached \cup {t}, calls' = [calls EXCEPT ![t] = call],
             met' = met \cup IF build = "gil" \/ OthersOn(t, o) = {} THEN {} ELSE OthersOn(t, o) \cup {t},
             UNCHANGED <<build, paths, objects>>
      PROVE  IInv'
  <2>1. DOMAIN calls' = Threads /\ calls'[t] = call /\ \A u \in Threads \ {t} : calls'[u] = calls[u]
    BY <1>2 DEF IInv, TypeOK
  <2> DEFINE new == Borrow(layer, o, t, kind)
  <2>2. new \in BorrowType /\ new.layer = layer /\ new.obj = o /\ new.thread = t /\ new.kind = kind
    BY DEF Borrow, BorrowType
  <2>3. borrows' = borrows \cup {new}
    BY <1>2
  <2> HIDE DEF new
  <2>4. TypeOK'
    <3>1. met' \subseteq Threads
      BY <1>2 DEF IInv, TypeOK, OthersOn
    <3> QED BY <1>2, <2>1, <2>2, <2>3, <3>1 DEF IInv, TypeOK, BorrowType
  <2>5. BorrowsInv'
    <3>1. ASSUME NEW b \in borrows'
          PROVE  calls'[b.thread] # Idle /\ calls'[b.thread].obj = b.obj
      <4>1. b \in borrows => /\ b.thread \in Threads /\ calls[b.thread] # Idle
                             /\ calls[b.thread].obj = b.obj
        BY DEF IInv, BorrowsInv, TypeOK, BorrowType
      <4> QED BY <1>0, <2>1, <2>2, <2>3, <4>1
    <3>2. \A b \in borrows : b.layer = new.layer /\ b.obj = new.obj => b.kind = "shared" /\ new.kind = "shared"
      BY <1>2, <2>2 DEF CanBorrow
    <3>3. ASSUME NEW b \in borrows', NEW c \in borrows', b.layer = c.layer, b.obj = c.obj,
                 b.thread # c.thread
          PROVE  b.kind = "shared" /\ c.kind = "shared"
      <4>1. b \in borrows /\ c \in borrows => b.kind = "shared" /\ c.kind = "shared"
        BY <3>3 DEF IInv, BorrowsInv
      <4> QED BY <2>3, <3>2, <3>3, <4>1
    <3> QED BY <3>1, <3>3 DEF BorrowsInv
  <2>6. TogetherInv'
    <3>1. build = "gil" => \A u, v \in attached' : u = v
      BY <1>0, <1>2 DEF CanAttach
    <3>2. ASSUME build = "free", NEW u \in Threads, NEW v \in Threads \ {u},
                 calls'[u] # Idle, calls'[v] # Idle, calls'[v].obj = calls'[u].obj
          PROVE  u \in met'
      <4>1. CASE u = t
        <5>1. v \in OthersOn(t, o)
          BY <2>1, <3>2, <4>1 DEF OthersOn
        <5> QED BY <1>2, <3>2, <4>1, <5>1
      <4>2. CASE v = t
        <5>1. u \in OthersOn(t, o)
          BY <2>1, <3>2, <4>2 DEF OthersOn
        <5> QED BY <1>2, <3>2, <5>1
      <4>3. CASE u # t /\ v # t
        <5>1. calls[u] # Idle /\ calls[v] # Idle /\ calls[v].obj = calls[u].obj
          BY <2>1, <3>2, <4>3
        <5> QED BY <1>2, <3>2, <5>1, MetOn
      <4> QED BY <4>1, <4>2, <4>3
    <3>3. build = "free" => \A u \in Threads : calls'[u] # Idle /\ OthersOn(u, calls[u].obj)' # {} => u \in met'
      BY <3>2 DEF OthersOn
    <3> QED BY <1>2, <3>1, <3>3 DEF TogetherInv
  <2>7. ASSUME NEW u \in Threads \ {t}, calls'[u] # Idle
        PROVE  Sound(u)'
    <3>1. calls[u] # Idle /\ calls'[u] = calls[u]
      BY <2>1, <2>7
    <3>2. calls[u].pc \in {"path", "load"} => OthersOn(u, calls[u].obj)' = {}
      <4>1. calls[u].pc \in {"path", "load"} => OthersOn(u, calls[u].obj) = {}
        BY <3>1, CallFacts DEF UpToDate
      <4>2. calls[u].pc \in {"path", "load"} => calls[u].obj # o
        BY <3>1
      <4> QED BY <2>1, <3>1, <4>1, <4>2 DEF OthersOn
    <3>3. \A b \in borrows' : b \in borrows \/ (b.thread # u /\ (build = "gil" => u \notin attached))
      BY <1>0, <1>2, <2>2, <2>3 DEF CanAttach
    <3>4. Undisturbed(u) /\ (u \in met => u \in met') /\ (u \in attached => u \in attached')
      BY <1>2 DEF Undisturbed
    <3>5. \A b \in borrows : b.thread = u => b \in borrows'
      BY <2>3
    <3> QED BY <1>2, <3>1, <3>2, <3>3, <3>4, <3>5, OthersSound
  <2> QED BY <2>1, <2>4, <2>5, <2>6, <2>7 DEF IInv
<1> QED BY <1>1, <1>2 DEF Begin

-----------------------------------------------------------------------------
(* The steps of a call                                                     *)

LEMMA Untouched ==
  ASSUME IInv, UNCHANGED objects
  PROVE  /\ objects' \in [Objects -> Object \cup {Closed}]
         /\ \A u : Undisturbed(u)
BY DEF IInv, TypeOK, Undisturbed

LEMMA FailKeeps ==
  ASSUME IInv, NEW t \in Threads, Fail(t)
  PROVE  IInv'
<1>1. Return(t, Error) /\ UNCHANGED <<paths, objects>>
  BY DEF Fail
<1>2. paths' \in Seq(Directories)
  BY <1>1 DEF IInv, TypeOK
<1> QED BY <1>1, <1>2, Untouched, ReturnKeeps

LEMMA EndKeeps ==
  ASSUME IInv, NEW t \in Threads, NEW value, Return(t, value), UNCHANGED <<paths, objects>>
  PROVE  IInv'
<1>1. paths' \in Seq(Directories)
  BY DEF IInv, TypeOK
<1> QED BY <1>1, Untouched, ReturnKeeps

(* A call that goes on without writing to its object.                      *)
LEMMA StepKeeps ==
  ASSUME IInv, NEW t \in Threads, calls[t] # Idle, NEW pc, NEW continuous, NEW items,
         LET d == With(calls[t], pc, continuous, items) IN
         /\ CallOK(d)
         /\ calls' = [calls EXCEPT ![t] = d],
         UNCHANGED <<build, met, objects, paths>>,
         \/ borrows' = borrows
         \/ \E kind \in {"shared", "mut"} :
              /\ CanBorrow("low", calls[t].obj, kind) /\ t \in attached
              /\ borrows' = borrows \cup {Borrow("low", calls[t].obj, t, kind)}
         \/ borrows' = { b \in borrows : ~(b.thread = t /\ b.layer = "low") },
         \/ attached' = attached \/ attached' = attached \ {t}
         \/ CanAttach /\ attached' = attached \cup {t},
         Holding(t)', UpToDate(t)'
  PROVE  IInv'
<1> DEFINE d == With(calls[t], pc, continuous, items)
<1>1. CallOK(d) /\ calls' = [calls EXCEPT ![t] = d] /\ d.obj = calls[t].obj
  BY DEF With
<1> HIDE DEF d
<1>2. d # Idle
  BY <1>1, CallIsRecord DEF CallOK
<1>3. paths' \in Seq(Directories)
  BY DEF IInv, TypeOK
<1>4. Sound(t)'
  <2>1. calls'[t] = d
    BY <1>1 DEF IInv, TypeOK
  <2>2. CallOK(calls[t])'
    BY <1>1, <2>1
  <2> QED BY <2>2 DEF Sound
<1> QED BY <1>1, <1>2, <1>3, <1>4, Untouched, GoesOn

(* Where a thread is, and what its call becomes.                           *)
LEMMA AtPlace ==
  ASSUME IInv, NEW t \in Threads, NEW pc, At(t, pc)
  PROVE  /\ calls[t] # Idle /\ calls[t].pc = pc
         /\ IsCall(calls[t]) /\ ItemsFit(calls[t]) /\ Stage(calls[t])
         /\ Holding(t) /\ UpToDate(t)
         /\ \A next : GoTo(t, next) =>
              calls' = [calls EXCEPT ![t] = With(calls[t], next, calls[t].continuous, calls[t].items)]
         /\ \A x : [calls EXCEPT ![t] = x][t] = x
<1>1. calls[t] # Idle /\ calls[t].pc = pc
  BY DEF At
<1>2. IsCall(calls[t]) /\ ItemsFit(calls[t]) /\ Stage(calls[t]) /\ Holding(t) /\ UpToDate(t)
  BY <1>1, CallFacts DEF CallOK
<1>3. ASSUME NEW next, GoTo(t, next)
      PROVE  calls' = [calls EXCEPT ![t] = With(calls[t], next, calls[t].continuous, calls[t].items)]
  <2>1. calls' = [calls EXCEPT ![t] = [calls[t] EXCEPT !.pc = next]]
    BY <1>3 DEF GoTo
  <2>2. [calls[t] EXCEPT !.pc = next] = With(calls[t], next, calls[t].continuous, calls[t].items)
    BY <1>2, WithIs
  <2> QED BY <2>1, <2>2
<1> QED BY <1>1, <1>2, <1>3 DEF IInv, TypeOK

LEMMA ReadNumberingKeeps ==
  ASSUME IInv, NEW t \in Threads, ReadNumbering(t)
  PROVE  IInv'
<1> DEFINE c == calls[t]
           continuous == objects[c.obj].numbering = "continuous"
           d == With(c, "detach", continuous, c.items)
<1>1. At(t, "numbering") /\ c # Idle /\ c.pc = "numbering" /\ IsCall(c) /\ ItemsFit(c) /\ Stage(c)
      /\ Holding(t) /\ UpToDate(t)
  BY AtPlace DEF ReadNumbering
<1>2. CASE Fail(t)
  BY <1>2, FailKeeps
<1>3. CASE /\ calls' = [calls EXCEPT ![t].pc = "detach", ![t].continuous = continuous]
           /\ UNCHANGED <<build, paths, objects, borrows, attached, returned, met>>
  <2>1. calls' = [calls EXCEPT ![t] = d]
    <3>1. calls' = [calls EXCEPT ![t] = [calls[t] EXCEPT !.pc = "detach", !.continuous = continuous]]
      BY <1>3
    <3> HIDE DEF continuous
    <3>2. [calls[t] EXCEPT !.pc = "detach", !.continuous = continuous] = d
      BY <1>1, WithIs
    <3> QED BY <3>1, <3>2
  <2>2. /\ d.obj = c.obj /\ d.pc = "detach" /\ d.texts = c.texts /\ d.many = c.many /\ d.low = c.low
        /\ d.continuous = continuous /\ d.items = c.items
    BY DEF With
  <2>3. CallOK(d)
    <3>1. IsCall(d)
      BY <1>1, <2>2 DEF IsCall, With, Stage
    <3>2. ItemsFit(d)
      BY <1>1, <2>2, ZenonT(40) DEF ItemsFit, AskedPcs, SinglePcs
    <3>3. Stage(d)
      BY <1>1, <2>2, <3>2 DEF Stage, SinglePcs, ManyPcs, ItemsFit
    <3> QED BY <3>1, <3>2, <3>3 DEF CallOK
  <2>4. calls'[t] = d
    BY <1>1, <2>1, AtPlace
  <2>5. Holding(t)'
    BY <1>1, <1>3, <2>2, <2>4 DEF Holding, AttachedPcs
  <2>6. UpToDate(t)'
    BY <1>1, <1>3, <2>2, <2>4 DEF UpToDate
  <2> HIDE DEF d
  <2>7. CallOK(With(calls[t], "detach", continuous, calls[t].items))
        /\ calls' = [calls EXCEPT ![t] = With(calls[t], "detach", continuous, calls[t].items)]
    BY <2>1, <2>3 DEF d
  <2> QED BY <1>1, <1>3, <2>5, <2>6, <2>7, StepKeeps
<1> QED BY <1>2, <1>3 DEF ReadNumbering

LEMMA WithIsCall ==
  ASSUME NEW c, IsCall(c), NEW pc, NEW continuous \in BOOLEAN, c.low => continuous, NEW items
  PROVE  IsCall(With(c, pc, continuous, items))
BY DEF IsCall, With

(* A borrow taken is held, at the call's next place.                       *)
LEMMA TakenIsHeld ==
  ASSUME NEW t, NEW kind, borrows' = borrows \cup {Borrow("low", calls[t].obj, t, kind)},
         calls'[t].obj = calls[t].obj
  PROVE  HoldsLow(t, kind)'
BY DEF HoldsLow, Borrow

LEMMA DetachKeeps ==
  ASSUME IInv, NEW t \in Threads, Detach(t)
  PROVE  IInv'
<1> DEFINE c == calls[t]
           d == With(c, "run", c.continuous, c.items)
           kind == KindFor(c.continuous)
<1>1. At(t, "detach") /\ c # Idle /\ c.pc = "detach" /\ IsCall(c) /\ ItemsFit(c) /\ Stage(c)
      /\ Holding(t) /\ UpToDate(t)
  BY AtPlace DEF Detach
<1>2. CASE Fail(t)
  BY <1>2, FailKeeps
<1>3. CASE /\ CanBorrow("low", c.obj, kind)
           /\ borrows' = borrows \cup {Borrow("low", c.obj, t, kind)}
           /\ attached' = attached \ {t} /\ GoTo(t, "run")
           /\ UNCHANGED <<build, paths, objects, returned, met>>
  <2>1. calls' = [calls EXCEPT ![t] = d] /\ calls'[t] = d
    BY <1>1, <1>3, AtPlace
  <2>2. /\ d.obj = c.obj /\ d.pc = "run" /\ d.texts = c.texts /\ d.many = c.many /\ d.low = c.low
        /\ d.continuous = c.continuous /\ d.items = c.items
    BY DEF With
  <2>3. CallOK(d)
    <3>1. IsCall(d)
      BY <1>1, WithIsCall DEF IsCall
    <3>2. ItemsFit(d)
      BY <1>1, <2>2 DEF ItemsFit, AskedPcs, SinglePcs
    <3>3. Stage(d)
      BY <1>1, <2>2 DEF Stage, SinglePcs, ManyPcs
    <3> QED BY <3>1, <3>2, <3>3 DEF CallOK
  <2>4. Holding(t)'
    <3>1. HoldsLow(t, kind)'
      BY <1>3, <2>1, <2>2, TakenIsHeld
    <3> QED BY <2>1, <2>2, <3>1 DEF Holding, AttachedPcs
  <2>5. UpToDate(t)'
    BY <1>1, <1>3, <2>1, <2>2 DEF UpToDate
  <2>6. t \in attached /\ kind \in {"shared", "mut"}
    BY <1>1 DEF Holding, AttachedPcs, KindFor
  <2>7. /\ CallOK(With(calls[t], "run", calls[t].continuous, calls[t].items))
        /\ calls' = [calls EXCEPT ![t] = With(calls[t], "run", calls[t].continuous, calls[t].items)]
    BY <2>1, <2>3
  <2> HIDE DEF kind
  <2> QED BY <1>1, <1>3, <2>4, <2>5, <2>6, <2>7, StepKeeps
<1> QED BY <1>2, <1>3 DEF Detach

LEMMA AnalysedType ==
  ASSUME IInv, NEW t \in Threads, calls[t] # Idle, calls[t].pc \in {"run", "number"}
  PROVE  /\ Analysed(t) \in Outcome \cup {Error} /\ Analysed(t) # Unanswered
         /\ Analysed(t) # Error => Analysed(t).dict = objects[calls[t].obj].dict
         /\ DOMAIN calls[t].texts = {1} /\ calls[t].texts[1] \in Texts
<1>1. objects[calls[t].obj].dict \in Dictionaries /\ objects[calls[t].obj].next \in Nat
  BY OpenObject
<1>2. CallOK(calls[t])
  BY CallFacts
<1>3. IsCall(calls[t]) /\ ~calls[t].many /\ calls[t].texts # <<>>
  BY <1>2 DEF CallOK, Stage, SinglePcs, ItemsFit
<1>4. DOMAIN calls[t].texts = {1} /\ calls[t].texts[1] \in Texts
  BY <1>3, TextsType DEF IsCall
<1>5. (IF Continuous(t) THEN objects[calls[t].obj].next ELSE 0) \in Nat
  BY <1>1
<1> HIDE DEF Continuous
<1> QED BY <1>1, <1>4, <1>5, ItemType DEF Analysed

LEMMA RunKeeps ==
  ASSUME IInv, NEW t \in Threads, Run(t)
  PROVE  IInv'
<1> DEFINE c == calls[t]
           items == <<Analysed(t)>>
           d == With(c, "number", c.continuous, items)
<1>1. At(t, "run") /\ c # Idle /\ c.pc = "run" /\ IsCall(c) /\ ItemsFit(c) /\ Stage(c)
      /\ Holding(t) /\ UpToDate(t)
  BY AtPlace DEF Run
<1>2. /\ Analysed(t) \in Outcome \cup {Error} /\ Analysed(t) # Unanswered
      /\ DOMAIN c.texts = {1} /\ c.texts[1] \in Texts
  BY <1>1, AnalysedType
<1>3. UNCHANGED <<build, paths, objects, borrows, attached, met>>
  BY DEF Run
<1>4. calls' = [calls EXCEPT ![t] = d] /\ calls'[t] = d
  <2>1. calls' = [calls EXCEPT ![t] = [calls[t] EXCEPT !.items = items, !.pc = "number"]]
    BY DEF Run
  <2> HIDE DEF items
  <2>2. [calls[t] EXCEPT !.items = items, !.pc = "number"] = d
    <3>1. \A x, y : IsCall(x) => [x EXCEPT !.items = y, !.pc = "number"] = With(x, "number", x.continuous, y)
      BY WithItems, Zenon
    <3>2. IsCall(calls[t])
      BY <1>1
    <3> QED BY <3>1, <3>2, Zenon
  <2> QED BY <1>1, <2>1, <2>2, AtPlace
<1>5. /\ d.obj = c.obj /\ d.pc = "number" /\ d.texts = c.texts /\ d.many = c.many /\ d.low = c.low
      /\ d.continuous = c.continuous /\ d.items = items
  BY DEF With
<1>6. CallOK(d)
  <2>1. IsCall(d)
    BY <1>1, WithIsCall DEF IsCall
  <2>2. items \in Seq(Outcome \cup {Unanswered, Error}) /\ DOMAIN items = {1} /\ items[1] = Analysed(t)
    BY <1>2
  <2>3. ItemsFit(d)
    BY <1>1, <1>2, <1>5, <2>2 DEF ItemsFit, AskedPcs, SinglePcs
  <2>4. Stage(d)
    BY <1>1, <1>2, <1>5, <2>2 DEF Stage, SinglePcs, ManyPcs
  <2> QED BY <2>1, <2>3, <2>4 DEF CallOK
<1>7. Holding(t)'
  <2>1. \A kind : HoldsLow(t, kind) => HoldsLow(t, kind)'
    BY <1>3, <1>4, <1>5 DEF HoldsLow, Borrow
  <2> QED BY <1>1, <1>4, <1>5, <2>1 DEF Holding, AttachedPcs
<1>8. UpToDate(t)'
  <2>1. Analysed(t)' = Analysed(t)
    <3> HIDE DEF items, d
    <3> QED BY <1>3, <1>4, <1>5 DEF Analysed, Continuous
  <2> QED BY <1>1, <1>3, <1>4, <1>5, <2>1 DEF UpToDate
<1>9. /\ CallOK(With(calls[t], "number", calls[t].continuous, items))
      /\ calls' = [calls EXCEPT ![t] = With(calls[t], "number", calls[t].continuous, items)]
  BY <1>4, <1>6
<1> HIDE DEF items
<1> QED BY <1>1, <1>3, <1>7, <1>8, <1>9, StepKeeps

(* Nobody analyses, or is about to resolve what it analysed, on an object  *)
(* that a call holds mutably, and nobody opens it.                         *)
LEMMA MutKeepsOut ==
  ASSUME IInv, NEW t \in Threads, calls[t] # Idle, HoldsLow(t, "mut"),
         NEW u \in Threads \ {t}, calls[u] # Idle, calls[u].obj = calls[t].obj
  PROVE  calls[u].pc \notin {"run", "number", "work", "collect", "attach", "apply", "path", "load"}
<1>1. Holding(u) /\ UpToDate(u)
  BY CallFacts
<1>2. \A kind : ~HoldsLow(u, kind)
  BY AloneWithMut DEF HoldsLow
<1>3. t \in OthersOn(u, calls[u].obj)
  BY DEF OthersOn
<1> QED BY <1>1, <1>2, <1>3 DEF Holding, UpToDate

LEMMA NumberKeeps ==
  ASSUME IInv, NEW t \in Threads, Number(t)
  PROVE  IInv'
<1> DEFINE c == calls[t]
           m == objects[c.obj]
           pc == IF c.low THEN "low return" ELSE "attach"
           d == With(c, pc, c.continuous, c.items)
<1>1. At(t, "number") /\ c # Idle /\ c.pc = "number" /\ IsCall(c) /\ ItemsFit(c) /\ Stage(c)
      /\ Holding(t) /\ UpToDate(t)
  BY AtPlace DEF Number
<1>2. /\ Analysed(t) \in Outcome \cup {Error} /\ Analysed(t) # Unanswered
      /\ Analysed(t) # Error => Analysed(t).dict = m.dict
      /\ DOMAIN c.texts = {1} /\ c.texts[1] \in Texts
  BY <1>1, AnalysedType
<1>3. UNCHANGED <<build, paths, borrows, attached, met>> /\ GoTo(t, pc)
  BY DEF Number
<1>4. calls' = [calls EXCEPT ![t] = d] /\ calls'[t] = d
  <2> HIDE DEF pc
  <2> QED BY <1>1, <1>3, AtPlace
<1>5. /\ d.obj = c.obj /\ d.pc = pc /\ d.texts = c.texts /\ d.many = c.many /\ d.low = c.low
      /\ d.continuous = c.continuous /\ d.items = c.items
  BY DEF With
<1>6. CallOK(d)
  <2>1. IsCall(d)
    <3> HIDE DEF pc
    <3> QED BY <1>1, WithIsCall DEF IsCall
  <2>2. ItemsFit(d)
    BY <1>1, <1>5 DEF ItemsFit, AskedPcs, SinglePcs
  <2>3. DOMAIN c.items = {1}
    BY <1>1, <1>2 DEF ItemsFit, AskedPcs, SinglePcs
  <2>4. Stage(d)
    BY <1>1, <1>2, <1>5, <2>3 DEF Stage, SinglePcs, ManyPcs
  <2> QED BY <2>1, <2>2, <2>4 DEF CallOK
<1>7. /\ m \in Object /\ m.dict \in Dictionaries /\ m.next \in Nat /\ c.obj \in Objects
      /\ m = [dict |-> m.dict, numbering |-> m.numbering, next |-> m.next] /\ m.numbering \in Numberings
  BY <1>1, OpenObject, ObjectType, CallFacts
<1>8. /\ objects' \in [Objects -> Object \cup {Closed}]
      /\ \A o \in Objects : o # c.obj => objects'[o] = objects[o]
      /\ objects'[c.obj] \in Object
      /\ objects'[c.obj].dict = m.dict /\ objects'[c.obj].numbering = m.numbering
      /\ ~Continuous(t) => objects' = objects
  <2>1. CASE Continuous(t)
    <3> DEFINE n == [dict |-> m.dict, numbering |-> m.numbering, next |-> m.next + Size(m.dict, c.texts[1])]
    <3>1. Size(m.dict, c.texts[1]) \in Nat
      BY <1>2, <1>7, SizeType
    <3>2. n \in Object
      BY <1>7, <3>1 DEF Object
    <3>3. objects' = [objects EXCEPT ![c.obj] = [m EXCEPT !.next = @ + Size(m.dict, c.texts[1])]]
      BY <2>1 DEF Number
    <3>4. [m EXCEPT !.next = @ + Size(m.dict, c.texts[1])] = n
      BY <1>7
    <3> HIDE DEF n
    <3>5. objects' = [objects EXCEPT ![c.obj] = n]
      BY <3>3, <3>4
    <3>6. n.dict = m.dict /\ n.numbering = m.numbering
      BY DEF n
    <3> QED BY <1>7, <2>1, <3>2, <3>5, <3>6 DEF IInv, TypeOK
  <2>2. CASE ~Continuous(t)
    <3>1. objects' = objects
      BY <2>2 DEF Number
    <3> QED BY <1>7, <2>2, <3>1 DEF IInv, TypeOK
  <2> QED BY <2>1, <2>2
<1>9. ASSUME NEW u \in Threads \ {t}, calls[u] # Idle
      PROVE  Undisturbed(u)
  <2>1. calls[u].obj \in Objects
    BY <1>9, CallFacts
  <2>2. CASE calls[u].obj # c.obj \/ ~Continuous(t)
    BY <1>8, <2>1, <2>2 DEF Undisturbed
  <2>3. CASE calls[u].obj = c.obj /\ Continuous(t)
    <3>1. HoldsLow(t, "mut")
      BY <1>1, <2>3 DEF Holding, KindFor, Continuous
    <3>2. calls[u].pc \notin {"number", "path", "load"}
      BY <1>1, <1>9, <2>3, <3>1, MutKeepsOut
    <3> QED BY <1>8, <2>3, <3>2 DEF Undisturbed
  <2> QED BY <2>2, <2>3
<1>10. Holding(t)'
  <2>1. \A kind : HoldsLow(t, kind) => HoldsLow(t, kind)'
    <3>1. calls'[t].obj = calls[t].obj /\ borrows' = borrows
      BY <1>3, <1>4, <1>5
    <3> QED BY <3>1 DEF HoldsLow
  <2>2. HoldsLow(t, "shared") \/ HoldsLow(t, "mut")
    BY <1>1 DEF Holding, KindFor
  <2>3. calls'[t].pc \notin AttachedPcs \cup {"run", "number", "work", "collect", "resolve", "apply", "generate"}
    BY <1>4, <1>5 DEF AttachedPcs
  <2> HIDE DEF d
  <2> QED BY <2>1, <2>2, <2>3 DEF Holding
<1>11. UpToDate(t)'
  <2>1. c.items = <<Analysed(t)>>
    BY <1>1 DEF UpToDate
  <2>2. \A i \in DOMAIN c.items : c.items[i] \in Outcome => c.items[i].dict = m.dict
    <3>1. Error \notin Outcome
      BY MarksAssumption
    <3> QED BY <1>2, <2>1, <3>1
  <2>3. calls'[t].pc \in {"low return", "attach"} /\ calls'[t].obj = c.obj /\ calls'[t].items = c.items
    BY <1>4, <1>5
  <2> QED BY <1>8, <2>2, <2>3 DEF UpToDate
<1>12. Sound(t)'
  <2>1. CallOK(calls[t])'
    BY <1>4, <1>6
  <2> QED BY <1>10, <1>11, <2>1 DEF Sound
<1>13. d # Idle
  BY <1>6, CallIsRecord DEF CallOK
<1>14. paths' \in Seq(Directories)
  BY <1>3 DEF IInv, TypeOK
<1>15. d.obj = calls[t].obj /\ calls' = [calls EXCEPT ![t] = d]
  BY <1>4, <1>5
<1> HIDE DEF d
<1> QED BY <1>1, <1>3, <1>8, <1>9, <1>12, <1>13, <1>14, <1>15, GoesOn

LEMMA AttachKeeps ==
  ASSUME IInv, NEW t \in Threads, Attach(t)
  PROVE  IInv'
<1> DEFINE c == calls[t]
           d == With(c, "resolve", c.continuous, c.items)
<1>1. At(t, "attach") /\ c # Idle /\ c.pc = "attach" /\ IsCall(c) /\ ItemsFit(c) /\ Stage(c)
      /\ Holding(t) /\ UpToDate(t) /\ CanAttach
  BY AtPlace DEF Attach
<1>2. CASE Fail(t)
  BY <1>2, FailKeeps
<1>3. CASE /\ ~Failed(t)
           /\ borrows' = { b \in borrows : ~(b.thread = t /\ b.layer = "low") }
           /\ attached' = attached \cup {t}
           /\ GoTo(t, "resolve")
           /\ UNCHANGED <<build, paths, objects, returned, met>>
  <2>1. calls' = [calls EXCEPT ![t] = d] /\ calls'[t] = d
    BY <1>1, <1>3, AtPlace
  <2>2. /\ d.obj = c.obj /\ d.pc = "resolve" /\ d.texts = c.texts /\ d.many = c.many /\ d.low = c.low
        /\ d.continuous = c.continuous /\ d.items = c.items
    BY DEF With
  <2>3. CallOK(d)
    <3>1. IsCall(d)
      BY <1>1, WithIsCall DEF IsCall
    <3>2. ItemsFit(d)
      BY <1>1, <2>2 DEF ItemsFit, AskedPcs, SinglePcs
    <3>3. \A i \in DOMAIN c.items : c.items[i] \in Outcome
      <4>1. \A i \in DOMAIN c.items : c.items[i] # Error /\ c.items[i] # Unanswered
        BY <1>1, <1>3 DEF Failed, Stage
      <4>2. c.items \in Seq(Outcome \cup {Unanswered, Error})
        BY <1>1 DEF ItemsFit
      <4>3. \A i \in DOMAIN c.items : c.items[i] \in Outcome \cup {Unanswered, Error}
        BY <4>2
      <4> QED BY <4>1, <4>3
    <3>4. Stage(d)
      BY <1>1, <2>2, <3>3 DEF Stage, SinglePcs, ManyPcs
    <3> QED BY <3>1, <3>2, <3>4 DEF CallOK
  <2>4. Holding(t)'
    <3>1. ASSUME NEW b \in borrows, b.layer = "low", b.obj = c.obj, b.thread # t
          PROVE  b.kind = "shared"
      <4>1. PICK kind : Borrow("low", c.obj, t, kind) \in borrows
        BY <1>1 DEF Holding, HoldsLow
      <4> DEFINE a == Borrow("low", c.obj, t, kind)
      <4>2. a \in borrows /\ a.layer = "low" /\ a.obj = c.obj /\ a.thread = t
        BY <4>1 DEF Borrow
      <4> HIDE DEF a
      <4> QED BY <3>1, <4>2 DEF IInv, BorrowsInv
    <3>2. CanBorrow("low", c.obj, "shared")'
      <4> HIDE DEF d
      <4> QED BY <1>3, <2>1, <2>2, <3>1 DEF CanBorrow
    <3>3. calls'[t].pc = "resolve" /\ calls'[t].obj = c.obj /\ t \in attached'
      BY <1>3, <2>1, <2>2
    <3>4. \A b \in borrows' : b.thread = t => b.layer = "high"
      BY <1>3 DEF IInv, TypeOK, BorrowType
    <3> HIDE DEF c
    <3> QED BY <3>2, <3>3, <3>4 DEF Holding, c
  <2>5. UpToDate(t)'
    BY <1>1, <1>3, <2>1, <2>2 DEF UpToDate
  <2>7. /\ CallOK(With(calls[t], "resolve", calls[t].continuous, calls[t].items))
        /\ calls' = [calls EXCEPT ![t] = With(calls[t], "resolve", calls[t].continuous, calls[t].items)]
    BY <2>1, <2>3
  <2> QED BY <1>1, <1>3, <2>4, <2>5, <2>7, StepKeeps
<1> QED BY <1>2, <1>3 DEF Attach

LEMMA ResolveKeeps ==
  ASSUME IInv, NEW t \in Threads, Resolve(t)
  PROVE  IInv'
<1> DEFINE c == calls[t]
           d == With(c, "build", c.continuous, c.items)
<1>1. At(t, "resolve") /\ c # Idle /\ c.pc = "resolve" /\ IsCall(c) /\ ItemsFit(c) /\ Stage(c)
      /\ Holding(t) /\ UpToDate(t)
  BY AtPlace DEF Resolve
<1>2. CASE Fail(t)
  BY <1>2, FailKeeps
<1>3. CASE /\ CanBorrow("low", c.obj, "shared")
           /\ borrows' = borrows \cup {Borrow("low", c.obj, t, "shared")}
           /\ GoTo(t, "build")
           /\ UNCHANGED <<build, paths, objects, attached, returned, met>>
  <2>1. calls' = [calls EXCEPT ![t] = d] /\ calls'[t] = d
    BY <1>1, <1>3, AtPlace
  <2>2. /\ d.obj = c.obj /\ d.pc = "build" /\ d.texts = c.texts /\ d.many = c.many /\ d.low = c.low
        /\ d.continuous = c.continuous /\ d.items = c.items
    BY DEF With
  <2>3. CallOK(d)
    <3>1. IsCall(d)
      BY <1>1, WithIsCall DEF IsCall
    <3>2. ItemsFit(d)
      BY <1>1, <2>2 DEF ItemsFit, AskedPcs, SinglePcs
    <3>3. Stage(d)
      BY <1>1, <2>2 DEF Stage, SinglePcs, ManyPcs
    <3> QED BY <3>1, <3>2, <3>3 DEF CallOK
  <2>4. t \in attached
    BY <1>1 DEF Holding, AttachedPcs
  <2>5. Holding(t)'
    BY <1>3, <2>1, <2>2, <2>4 DEF Holding, AttachedPcs
  <2>6. UpToDate(t)'
    BY <1>1, <1>3, <2>1, <2>2 DEF UpToDate
  <2>7. /\ CallOK(With(calls[t], "build", calls[t].continuous, calls[t].items))
        /\ calls' = [calls EXCEPT ![t] = With(calls[t], "build", calls[t].continuous, calls[t].items)]
    BY <2>1, <2>3
  <2> QED BY <1>1, <1>3, <2>4, <2>5, <2>6, <2>7, StepKeeps
<1> QED BY <1>2, <1>3 DEF Resolve

LEMMA BuildKeeps ==
  ASSUME IInv, NEW t \in Threads, Build(t)
  PROVE  IInv'
<1>1. UNCHANGED <<paths, objects>>
  BY DEF Build
<1>2. PICK value : Return(t, value)
  BY DEF Build
<1> QED BY <1>1, <1>2, EndKeeps

LEMMA ShareKeeps ==
  ASSUME IInv, NEW t \in Threads, Share(t)
  PROVE  IInv'
<1> DEFINE c == calls[t]
           d == With(c, "work", c.continuous, c.items)
<1>1. At(t, "share") /\ c # Idle /\ c.pc = "share" /\ IsCall(c) /\ ItemsFit(c) /\ Stage(c)
      /\ Holding(t) /\ UpToDate(t)
  BY AtPlace DEF Share
<1>2. CASE Fail(t)
  BY <1>2, FailKeeps
<1>3. CASE /\ CanBorrow("low", c.obj, "shared")
           /\ borrows' = borrows \cup {Borrow("low", c.obj, t, "shared")}
           /\ attached' = Detached(t)
           /\ GoTo(t, "work")
           /\ UNCHANGED <<build, paths, objects, returned, met>>
  <2>1. calls' = [calls EXCEPT ![t] = d] /\ calls'[t] = d
    BY <1>1, <1>3, AtPlace
  <2>2. /\ d.obj = c.obj /\ d.pc = "work" /\ d.texts = c.texts /\ d.many = c.many /\ d.low = c.low
        /\ d.continuous = c.continuous /\ d.items = c.items
    BY DEF With
  <2>3. CallOK(d)
    <3>1. IsCall(d)
      BY <1>1, WithIsCall DEF IsCall
    <3>2. ItemsFit(d)
      BY <1>1, <2>2 DEF ItemsFit, AskedPcs, SinglePcs, ManyPcs
    <3>3. Stage(d)
      BY <1>1, <2>2 DEF Stage, SinglePcs, ManyPcs
    <3> QED BY <3>1, <3>2, <3>3 DEF CallOK
  <2>4. t \in attached /\ attached' = attached \ {t}
    BY <1>1, <1>3 DEF Holding, AttachedPcs, Detached
  <2>5. Holding(t)'
    <3>1. HoldsLow(t, "shared")'
      BY <1>3, <2>1, <2>2, TakenIsHeld
    <3> QED BY <2>1, <2>2, <3>1 DEF Holding, AttachedPcs
  <2>6. UpToDate(t)'
    <3>1. c.items = Blank(c.texts)
      BY <1>1 DEF Stage, ItemsFit
    <3>2. \A i \in DOMAIN c.items : c.items[i] = Unanswered
      BY <3>1 DEF Blank
    <3> QED BY <1>1, <1>3, <2>1, <2>2, <3>2 DEF UpToDate
  <2>7. /\ CallOK(With(calls[t], "work", calls[t].continuous, calls[t].items))
        /\ calls' = [calls EXCEPT ![t] = With(calls[t], "work", calls[t].continuous, calls[t].items)]
    BY <2>1, <2>3
  <2> QED BY <1>1, <1>3, <2>4, <2>5, <2>6, <2>7, StepKeeps
<1> QED BY <1>2, <1>3 DEF Share

LEMMA WorkKeeps ==
  ASSUME IInv, NEW t \in Threads, NEW i, Work(t, i)
  PROVE  IInv'
<1> DEFINE c == calls[t]
           m == objects[c.obj]
           item == Item(m.dict, c.texts[i], 0)
           items == [c.items EXCEPT ![i] = item]
           d == With(c, "work", c.continuous, items)
<1>1. At(t, "work") /\ c # Idle /\ c.pc = "work" /\ IsCall(c) /\ ItemsFit(c) /\ Stage(c)
      /\ Holding(t) /\ UpToDate(t)
  BY AtPlace DEF Work
<1>2. /\ c.items \in Seq(Outcome \cup {Unanswered, Error}) /\ DOMAIN c.items = DOMAIN c.texts
      /\ i \in DOMAIN c.texts
  BY <1>1 DEF ItemsFit, Work
<1>3. UNCHANGED <<build, paths, objects, borrows, attached, met>>
  BY DEF Work
<1>4. calls' = [calls EXCEPT ![t] = d] /\ calls'[t] = d
  <2>1. calls' = [calls EXCEPT ![t] = [calls[t] EXCEPT !.items[i] = item]]
    BY DEF Work
  <2>2. [calls[t] EXCEPT !.items[i] = item] = [calls[t] EXCEPT !.items = items]
    OBVIOUS
  <2> HIDE DEF items
  <2>3. [calls[t] EXCEPT !.items = items] = d
    BY <1>1, WithNewItems
  <2> HIDE DEF d
  <2> QED BY <1>1, <2>1, <2>2, <2>3, AtPlace
<1>5. /\ d.obj = c.obj /\ d.pc = "work" /\ d.texts = c.texts /\ d.many = c.many /\ d.low = c.low
      /\ d.continuous = c.continuous /\ d.items = items
  BY DEF With
<1>6. m.dict \in Dictionaries /\ c.texts[i] \in Texts
  BY <1>1, <1>2, OpenObject, TextsType
<1>7. item \in Outcome \cup {Unanswered, Error}
  BY <1>6, ItemType
<1>8. /\ items \in Seq(Outcome \cup {Unanswered, Error}) /\ DOMAIN items = DOMAIN c.texts
      /\ \A j \in DOMAIN c.texts : items[j] = IF j = i THEN item ELSE c.items[j]
  <2> HIDE DEF item
  <2> QED BY <1>2, <1>7
<1> HIDE DEF items
<1>9. CallOK(d)
  <2>1. IsCall(d)
    BY <1>1, WithIsCall DEF IsCall
  <2>2. ItemsFit(d)
    BY <1>1, <1>5, <1>8 DEF ItemsFit, AskedPcs, SinglePcs, ManyPcs
  <2>3. Stage(d)
    BY <1>1, <1>5 DEF Stage, SinglePcs, ManyPcs
  <2> QED BY <2>1, <2>2, <2>3 DEF CallOK
<1>10. Holding(t)'
  <2>1. calls'[t].obj = calls[t].obj /\ borrows' = borrows /\ calls'[t].pc = "work"
    BY <1>3, <1>4, <1>5
  <2>2. HoldsLow(t, "shared")'
    BY <1>1, <2>1 DEF Holding, HoldsLow
  <2> QED BY <2>1, <2>2 DEF Holding, AttachedPcs
<1>11. UpToDate(t)'
  <2>1. /\ calls'[t].obj = c.obj /\ calls'[t].pc = "work" /\ calls'[t].items = items
        /\ calls'[t].texts = c.texts /\ objects' = objects
    BY <1>3, <1>4, <1>5
  <2>2. \A j \in DOMAIN items : items[j] \in {Unanswered, Item(m.dict, c.texts[j], 0)}
    BY <1>1, <1>2, <1>8 DEF UpToDate
  <2>3. m \in Object
    BY <1>1 DEF UpToDate
  <2> QED BY <2>1, <2>2, <2>3 DEF UpToDate
<1>12. /\ CallOK(With(calls[t], "work", calls[t].continuous, items))
       /\ calls' = [calls EXCEPT ![t] = With(calls[t], "work", calls[t].continuous, items)]
  BY <1>4, <1>9
<1> QED BY <1>1, <1>3, <1>10, <1>11, <1>12, StepKeeps

LEMMA JoinKeeps ==
  ASSUME IInv, NEW t \in Threads, Join(t)
  PROVE  IInv'
<1> DEFINE c == calls[t]
           m == objects[c.obj]
           pc == IF build = "free" THEN "collect" ELSE "attach"
           d == With(c, pc, c.continuous, c.items)
<1>1. At(t, "work") /\ c # Idle /\ c.pc = "work" /\ IsCall(c) /\ ItemsFit(c) /\ Stage(c)
      /\ Holding(t) /\ UpToDate(t)
  BY AtPlace DEF Join
<1>2. UNCHANGED <<build, paths, objects, borrows, attached, met>> /\ GoTo(t, pc)
      /\ pc \in {"collect", "attach"}
  BY DEF Join
<1>3. \/ \E i \in DOMAIN c.items : c.items[i] = Error
      \/ \A i \in DOMAIN c.items : c.items[i] # Unanswered
  BY DEF Join, Failed
<1> HIDE DEF pc
<1>4. calls' = [calls EXCEPT ![t] = d] /\ calls'[t] = d
  BY <1>1, <1>2, AtPlace
<1>5. /\ d.obj = c.obj /\ d.pc = pc /\ d.texts = c.texts /\ d.many = c.many /\ d.low = c.low
      /\ d.continuous = c.continuous /\ d.items = c.items
  BY DEF With
<1>6. CallOK(d)
  <2>1. IsCall(d)
    BY <1>1, WithIsCall DEF IsCall
  <2>2. ItemsFit(d)
    BY <1>1, <1>2, <1>5 DEF ItemsFit, AskedPcs, SinglePcs, ManyPcs
  <2>3. Stage(d)
    BY <1>1, <1>2, <1>3, <1>5 DEF Stage, SinglePcs, ManyPcs
  <2> QED BY <2>1, <2>2, <2>3 DEF CallOK
<1>7. calls'[t].obj = calls[t].obj /\ borrows' = borrows /\ calls'[t].pc \in {"collect", "attach"}
      /\ calls'[t].items = calls[t].items /\ calls'[t].texts = calls[t].texts
  BY <1>2, <1>4, <1>5
<1>8. Holding(t)'
  <2>1. HoldsLow(t, "shared")'
    BY <1>1, <1>7 DEF Holding, HoldsLow
  <2> QED BY <1>7, <2>1 DEF Holding, AttachedPcs
<1>9. UpToDate(t)'
  <2>1. ASSUME NEW i \in DOMAIN c.items, c.items[i] \in Outcome
        PROVE  c.items[i].dict = m.dict
    <3>1. c.items[i] \in {Unanswered, Item(m.dict, c.texts[i], 0)}
      BY <1>1 DEF UpToDate
    <3>2. c.items[i] = Item(m.dict, c.texts[i], 0) /\ c.items[i] # Error
      BY <2>1, <3>1, MarksAssumption
    <3> QED BY <3>2 DEF Item
  <2>2. objects' = objects /\ m \in Object
    BY <1>1, <1>2 DEF UpToDate
  <2> HIDE DEF d
  <2> QED BY <1>1, <1>7, <2>1, <2>2 DEF UpToDate
<1>10. /\ CallOK(With(calls[t], pc, calls[t].continuous, calls[t].items))
       /\ calls' = [calls EXCEPT ![t] = With(calls[t], pc, calls[t].continuous, calls[t].items)]
  BY <1>4, <1>6
<1> QED BY <1>1, <1>2, <1>8, <1>9, <1>10, StepKeeps

LEMMA CollectKeeps ==
  ASSUME IInv, NEW t \in Threads, Collect(t)
  PROVE  IInv'
<1>1. UNCHANGED <<paths, objects>>
  BY DEF Collect
<1>2. PICK value : Return(t, value)
  BY DEF Collect
<1> QED BY <1>1, <1>2, EndKeeps

LEMMA SynthesiseKeeps ==
  ASSUME IInv, NEW t \in Threads, Synthesise(t)
  PROVE  IInv'
<1> DEFINE c == calls[t]
           m == objects[c.obj]
           item == Item(m.dict, c.texts[1], 0)
           items == <<item>>
           d == With(c, "resolve", c.continuous, items)
<1>1. At(t, "generate") /\ c # Idle /\ c.pc = "generate" /\ IsCall(c) /\ ItemsFit(c) /\ Stage(c)
      /\ Holding(t) /\ UpToDate(t)
  BY AtPlace DEF Synthesise
<1>2. CASE Fail(t)
  BY <1>2, FailKeeps
<1>3. CASE /\ CanBorrow("low", c.obj, "shared") /\ item # Error
           /\ calls' = [calls EXCEPT ![t].items = items, ![t].pc = "resolve"]
           /\ UNCHANGED <<build, paths, objects, borrows, attached, returned, met>>
  <2>1. calls' = [calls EXCEPT ![t] = d] /\ calls'[t] = d
    <3> HIDE DEF items
    <3>1. calls' = [calls EXCEPT ![t] = [calls[t] EXCEPT !.items = items, !.pc = "resolve"]]
      BY <1>3
    <3>2. [calls[t] EXCEPT !.items = items, !.pc = "resolve"] = d
      <4>1. \A x, y : IsCall(x) => [x EXCEPT !.items = y, !.pc = "resolve"] = With(x, "resolve", x.continuous, y)
        BY WithItems, Zenon
      <4>2. IsCall(calls[t])
        BY <1>1
      <4> QED BY <4>1, <4>2, Zenon
    <3> HIDE DEF d
    <3> QED BY <1>1, <3>1, <3>2, AtPlace
  <2>2. /\ d.obj = c.obj /\ d.pc = "resolve" /\ d.texts = c.texts /\ d.many = c.many /\ d.low = c.low
        /\ d.continuous = c.continuous /\ d.items = items
    BY DEF With
  <2>3. m \in Object /\ m.dict \in Dictionaries
    BY <1>1, OpenObject
  <2>4. DOMAIN c.texts = {1} /\ c.texts[1] \in Texts /\ c.texts # <<>>
    <3>1. Len(c.texts) = 1
      BY <1>1 DEF Stage
    <3> QED BY <1>1, <3>1, TextsType
  <2>5. item \in Outcome /\ item.dict = m.dict
    BY <1>3, <2>3, <2>4, ItemType
  <2>6. items \in Seq(Outcome \cup {Unanswered, Error}) /\ DOMAIN items = {1} /\ items[1] = item
    <3> HIDE DEF item
    <3> QED BY <2>5
  <2> HIDE DEF items, item
  <2>7. CallOK(d)
    <3>1. IsCall(d)
      BY <1>1, WithIsCall DEF IsCall
    <3>2. ItemsFit(d)
      BY <1>1, <2>2, <2>4, <2>6 DEF ItemsFit, AskedPcs, SinglePcs
    <3>3. Stage(d)
      BY <1>1, <2>2, <2>5, <2>6 DEF Stage, SinglePcs, ManyPcs
    <3> QED BY <3>1, <3>2, <3>3 DEF CallOK
  <2>8. /\ calls'[t].obj = calls[t].obj /\ borrows' = borrows /\ calls'[t].pc = "resolve"
        /\ calls'[t].items = items /\ attached' = attached /\ t \in attached /\ objects' = objects
    BY <1>1, <1>3, <2>1, <2>2 DEF Holding, AttachedPcs
  <2> HIDE DEF d
  <2>9. Holding(t)'
    <3>1. \A b \in borrows : b.thread = t => b.layer = "high"
      BY <1>1 DEF Holding
    <3> QED BY <1>3, <2>8, <3>1 DEF Holding, AttachedPcs, CanBorrow
  <2>10. UpToDate(t)'
    BY <2>3, <2>5, <2>6, <2>8 DEF UpToDate
  <2>11. /\ CallOK(With(calls[t], "resolve", calls[t].continuous, items))
         /\ calls' = [calls EXCEPT ![t] = With(calls[t], "resolve", calls[t].continuous, items)]
    BY <2>1, <2>7 DEF d
  <2> QED BY <1>1, <1>3, <2>9, <2>10, <2>11, StepKeeps
<1> QED BY <1>2, <1>3 DEF Synthesise

LEMMA TakeKeeps ==
  ASSUME IInv, NEW t \in Threads, Take(t)
  PROVE  IInv'
<1> DEFINE c == calls[t]
           pc == IF c.texts = <<>> THEN "apply" ELSE "run"
           d == With(c, pc, c.continuous, c.items)
<1>1. At(t, "take") /\ c # Idle /\ c.pc = "take" /\ IsCall(c) /\ ItemsFit(c) /\ Stage(c)
      /\ Holding(t) /\ UpToDate(t)
  BY AtPlace DEF Take
<1>2. CASE Fail(t)
  BY <1>2, FailKeeps
<1>3. CASE /\ CanBorrow("low", c.obj, "mut")
           /\ borrows' = borrows \cup {Borrow("low", c.obj, t, "mut")}
           /\ GoTo(t, pc)
           /\ UNCHANGED <<build, paths, objects, attached, returned, met>>
  <2>1. \/ pc = "apply" /\ c.texts = <<>>
        \/ pc = "run" /\ c.texts # <<>>
    OBVIOUS
  <2> HIDE DEF pc
  <2>2. calls' = [calls EXCEPT ![t] = d] /\ calls'[t] = d
    BY <1>1, <1>3, AtPlace
  <2>3. /\ d.obj = c.obj /\ d.pc = pc /\ d.texts = c.texts /\ d.many = c.many /\ d.low = c.low
        /\ d.continuous = c.continuous /\ d.items = c.items
    BY DEF With
  <2>4. CallOK(d)
    <3>1. IsCall(d)
      BY <1>1, WithIsCall DEF IsCall
    <3>2. ItemsFit(d)
      BY <1>1, <2>1, <2>3 DEF ItemsFit, AskedPcs, SinglePcs
    <3>3. Stage(d)
      BY <1>1, <2>1, <2>3 DEF Stage, SinglePcs, ManyPcs
    <3> QED BY <3>1, <3>2, <3>3 DEF CallOK
  <2>5. /\ calls'[t].obj = calls[t].obj /\ calls'[t].pc = pc /\ calls'[t].continuous = calls[t].continuous
        /\ attached' = attached /\ t \in attached /\ objects' = objects
        /\ pc = "run" => calls[t].continuous
    BY <1>1, <1>3, <2>1, <2>2, <2>3 DEF Holding, AttachedPcs, Stage, IsCall
  <2>6. HoldsLow(t, "mut")'
    BY <1>3, <2>5, TakenIsHeld
  <2>7. Holding(t)'
    <3> HIDE DEF d
    <3> QED BY <2>1, <2>5, <2>6 DEF Holding, KindFor, AttachedPcs
  <2>8. UpToDate(t)'
    <3> HIDE DEF d
    <3> QED BY <1>1, <2>1, <2>5 DEF UpToDate
  <2>9. /\ CallOK(With(calls[t], pc, calls[t].continuous, calls[t].items))
        /\ calls' = [calls EXCEPT ![t] = With(calls[t], pc, calls[t].continuous, calls[t].items)]
    BY <2>2, <2>4
  <2> QED BY <1>1, <1>3, <2>5, <2>7, <2>8, <2>9, StepKeeps
<1> QED BY <1>2, <1>3 DEF Take

(* An object after something was set in it.                                *)
LEMMA ChangedObject ==
  ASSUME NEW m \in Object, NEW dict \in Dictionaries, NEW numbering \in Numberings
  PROVE  /\ [m EXCEPT !.dict = dict, !.next = 0] = [dict |-> dict, numbering |-> m.numbering, next |-> 0]
         /\ [m EXCEPT !.numbering = numbering, !.next = 0] = [dict |-> m.dict, numbering |-> numbering, next |-> 0]
         /\ [m EXCEPT !.next = 0] = [dict |-> m.dict, numbering |-> m.numbering, next |-> 0]
         /\ [dict |-> dict, numbering |-> m.numbering, next |-> 0] \in Object
         /\ [dict |-> m.dict, numbering |-> numbering, next |-> 0] \in Object
         /\ [dict |-> m.dict, numbering |-> m.numbering, next |-> 0] \in Object
<1>1. /\ m = [dict |-> m.dict, numbering |-> m.numbering, next |-> m.next]
      /\ m.dict \in Dictionaries /\ m.numbering \in Numberings /\ m.next \in Nat
  BY ObjectType
<1> DEFINE x == [dict |-> dict, numbering |-> m.numbering, next |-> m.next]
           y == [dict |-> m.dict, numbering |-> numbering, next |-> m.next]
<1>2. [m EXCEPT !.dict = dict] = x /\ [m EXCEPT !.numbering = numbering] = y
  BY <1>1
<1>3. /\ [x EXCEPT !.next = 0] = [dict |-> dict, numbering |-> m.numbering, next |-> 0]
      /\ [y EXCEPT !.next = 0] = [dict |-> m.dict, numbering |-> numbering, next |-> 0]
  OBVIOUS
<1> HIDE DEF x, y
<1>4. /\ [m EXCEPT !.dict = dict, !.next = 0] = [[m EXCEPT !.dict = dict] EXCEPT !.next = 0]
      /\ [m EXCEPT !.numbering = numbering, !.next = 0] = [[m EXCEPT !.numbering = numbering] EXCEPT !.next = 0]
  OBVIOUS
<1>5. [m EXCEPT !.next = 0] = [dict |-> m.dict, numbering |-> m.numbering, next |-> 0]
  BY <1>1
<1>6. /\ [dict |-> dict, numbering |-> m.numbering, next |-> 0] \in Object
      /\ [dict |-> m.dict, numbering |-> numbering, next |-> 0] \in Object
      /\ [dict |-> m.dict, numbering |-> m.numbering, next |-> 0] \in Object
  BY <1>1, SMTT(30) DEF Object
<1> QED BY <1>2, <1>3, <1>4, <1>5, <1>6

(* A setter ends by writing the object, or having failed.                  *)
LEMMA ApplyIs ==
  ASSUME IInv, NEW t \in Threads, Apply(t)
  PROVE  LET c    == calls[t]
             m    == objects[c.obj]
             dict == FirstHolding(paths, c.items.to)
             Wrote(n) == /\ n \in Object /\ objects' = [objects EXCEPT ![c.obj] = n]
                         /\ Return(t, <<>>) /\ n.next = 0
         IN  /\ c # Idle /\ c.pc = "apply" /\ c.texts = <<>> /\ c.items \in Change /\ HoldsLow(t, "mut")
             /\ t \in attached /\ m \in Object /\ paths' = paths
             /\ \/ \E n : /\ Wrote(n) /\ c.items.what = "dictionary" /\ dict \in Dictionaries
                          /\ n = [dict |-> dict, numbering |-> m.numbering, next |-> 0]
                \/ \E n : /\ Wrote(n) /\ c.items.what = "numbering" /\ c.items.to \in Numberings
                          /\ n = [dict |-> m.dict, numbering |-> c.items.to, next |-> 0]
                \/ \E n : /\ Wrote(n) /\ c.items.what = "case"
                          /\ n = [dict |-> m.dict, numbering |-> m.numbering, next |-> 0]
                \/ Fail(t)
<1> DEFINE c == calls[t]
           m == objects[c.obj]
           to == c.items.to
           dict == FirstHolding(paths, to)
<1>1. At(t, "apply") /\ c # Idle /\ c.pc = "apply" /\ IsCall(c) /\ ItemsFit(c) /\ Stage(c)
      /\ Holding(t) /\ UpToDate(t)
  BY AtPlace DEF Apply
<1>2. c.texts = <<>> /\ c.items \in Change
  BY <1>1 DEF ItemsFit, AskedPcs, SinglePcs, ManyPcs
<1>3. HoldsLow(t, "mut") /\ t \in attached /\ m \in Object /\ m.dict \in Dictionaries /\ m.numbering \in Numberings
  BY <1>1, OpenObject DEF Holding, AttachedPcs, UpToDate
<1>4. c.items.what = "dictionary" => to \in Names
  BY <1>2 DEF Change
<1>5. c.items.what = "numbering" => to \in Numberings \cup {"bad"}
  BY <1>2 DEF Change
<1>6. paths \in Seq(Directories)
  BY DEF IInv, TypeOK
<1>7. c.items.what = "dictionary" /\ dict # NoDictionary => dict \in Dictionaries
  BY <1>4, <1>6, FoundIsDictionary
<1> HIDE DEF dict
<1>8. CASE /\ c.items.what = "dictionary" /\ dict # NoDictionary
           /\ objects' = [objects EXCEPT ![c.obj].dict = dict, ![c.obj].next = 0]
           /\ Return(t, <<>>)
  <2> DEFINE n == [dict |-> dict, numbering |-> m.numbering, next |-> 0]
  <2>1. objects' = [objects EXCEPT ![c.obj] = [m EXCEPT !.dict = dict, !.next = 0]]
    BY <1>8
  <2>2. n \in Object /\ [m EXCEPT !.dict = dict, !.next = 0] = n
    BY <1>3, <1>7, <1>8, ChangedObject
  <2>3. objects' = [objects EXCEPT ![c.obj] = n] /\ n.next = 0
    BY <2>1, <2>2
  <2> HIDE DEF n
  <2>4. paths' = paths
    BY DEF Apply
  <2> QED BY <1>1, <1>2, <1>3, <1>7, <1>8, <2>2, <2>3, <2>4 DEF n, dict
<1>9. CASE /\ c.items.what = "numbering" /\ to # "bad"
           /\ objects' = [objects EXCEPT ![c.obj].numbering = to, ![c.obj].next = 0]
           /\ Return(t, <<>>)
  <2> DEFINE n == [dict |-> m.dict, numbering |-> to, next |-> 0]
  <2>1. objects' = [objects EXCEPT ![c.obj] = [m EXCEPT !.numbering = to, !.next = 0]]
    BY <1>9
  <2>2. n \in Object /\ [m EXCEPT !.numbering = to, !.next = 0] = n
    <3>1. to \in Numberings
      BY <1>5, <1>9
    <3> HIDE DEF to
    <3> QED BY <1>3, <3>1, ChangedObject
  <2>3. objects' = [objects EXCEPT ![c.obj] = n] /\ n.next = 0
    BY <2>1, <2>2
  <2> HIDE DEF n
  <2>4. paths' = paths
    BY DEF Apply
  <2> QED BY <1>1, <1>2, <1>3, <1>5, <1>9, <2>2, <2>3, <2>4 DEF n
<1>10. CASE /\ c.items.what = "case" /\ to # "bad"
            /\ objects' = [objects EXCEPT ![c.obj].next = 0]
            /\ Return(t, <<>>)
  <2> DEFINE n == [dict |-> m.dict, numbering |-> m.numbering, next |-> 0]
  <2>1. objects' = [objects EXCEPT ![c.obj] = [m EXCEPT !.next = 0]]
    BY <1>10
  <2>2. n \in Object /\ [m EXCEPT !.next = 0] = n
    BY <1>3, ChangedObject
  <2>3. objects' = [objects EXCEPT ![c.obj] = n] /\ n.next = 0
    BY <2>1, <2>2
  <2> HIDE DEF n
  <2>4. paths' = paths
    BY DEF Apply
  <2> QED BY <1>1, <1>2, <1>3, <1>10, <2>2, <2>3, <2>4 DEF n
<1>11. CASE Return(t, Error) /\ UNCHANGED objects
  <2>1. paths' = paths
    BY DEF Apply
  <2> QED BY <1>1, <1>2, <1>3, <1>11, <2>1 DEF Fail
<1> QED BY <1>8, <1>9, <1>10, <1>11 DEF Apply, dict

(* A writer that holds its object mutably and ends leaves what others have *)
(* read of it, or has met them.                                            *)
LEMMA WrittenKeeps ==
  ASSUME IInv, NEW t \in Threads, calls[t] # Idle, NEW n \in Object, NEW value, Return(t, value),
         objects' = [objects EXCEPT ![calls[t].obj] = n], paths' = paths,
         OthersOn(t, calls[t].obj) = {} \/ (HoldsLow(t, "mut") /\ t \in attached)
  PROVE  IInv'
<1> DEFINE o == calls[t].obj
<1>1. /\ objects' \in [Objects -> Object \cup {Closed}] /\ o \in Objects
      /\ \A p \in Objects : objects'[p] = IF p = o THEN n ELSE objects[p]
  BY CallFacts DEF IInv, TypeOK
<1>2. ASSUME NEW u \in Threads \ {t}, calls[u] # Idle
      PROVE  Undisturbed(u)
  <2>1. calls[u].obj \in Objects /\ Holding(u)
    BY <1>2, CallFacts
  <2>2. CASE calls[u].obj # o
    BY <1>1, <2>1, <2>2 DEF Undisturbed
  <2>3. CASE calls[u].obj = o
    <3>1. u \in OthersOn(t, o)
      BY <1>2, <2>3 DEF OthersOn
    <3>2. HoldsLow(t, "mut") /\ t \in attached
      BY <3>1
    <3>3. calls[u].pc \notin {"run", "number", "work", "collect", "attach", "path", "load"}
      BY <1>2, <2>3, <3>2, MutKeepsOut
    <3>4. build = "free" => u \in met
      BY <1>2, <2>3, MetOn
    <3>5. build = "gil" => u \notin attached
      BY <3>2 DEF IInv, TogetherInv
    <3>6. u \in met \/ calls[u].pc \notin {"detach", "resolve", "build"}
      BY <2>1, <3>4, <3>5, BuildIs DEF Holding, AttachedPcs
    <3> QED BY <1>1, <2>3, <3>3, <3>6 DEF Undisturbed
  <2> QED BY <2>2, <2>3
<1>3. paths' \in Seq(Directories)
  BY DEF IInv, TypeOK
<1> QED BY <1>1, <1>2, <1>3, ReturnKeeps

LEMMA ApplyKeeps ==
  ASSUME IInv, NEW t \in Threads, Apply(t)
  PROVE  IInv'
<1>1. /\ calls[t] # Idle /\ HoldsLow(t, "mut") /\ t \in attached /\ paths' = paths
      /\ \/ \E n \in Object : objects' = [objects EXCEPT ![calls[t].obj] = n] /\ Return(t, <<>>)
         \/ Fail(t)
  BY ApplyIs
<1> QED BY <1>1, WrittenKeeps, FailKeeps

LEMMA LowReturnKeeps ==
  ASSUME IInv, NEW t \in Threads, LowReturn(t)
  PROVE  IInv'
<1>1. UNCHANGED <<paths, objects>>
  BY DEF LowReturn
<1>2. PICK value : Return(t, value)
  BY DEF LowReturn
<1> QED BY <1>1, <1>2, EndKeeps

LEMMA CopyKeeps ==
  ASSUME IInv, NEW t \in Threads, Copy(t)
  PROVE  IInv'
<1>1. CASE Return(t, objects[calls[t].obj]) /\ UNCHANGED <<paths, objects>>
  BY <1>1, EndKeeps
<1>2. CASE Fail(t)
  BY <1>2, FailKeeps
<1> QED BY <1>1, <1>2 DEF Copy

LEMMA InsertPathKeeps ==
  ASSUME IInv, NEW t \in Threads, InsertPath(t)
  PROVE  IInv'
<1> DEFINE c == calls[t]
           d == With(c, "load", c.continuous, c.items)
<1>1. At(t, "path") /\ c # Idle /\ c.pc = "path" /\ IsCall(c) /\ ItemsFit(c) /\ Stage(c)
      /\ Holding(t) /\ UpToDate(t)
  BY AtPlace DEF InsertPath
<1>2. UNCHANGED <<build, objects, borrows, attached, met>> /\ GoTo(t, "load")
      /\ paths' = WithPath(paths, c.items.dir)
  BY DEF InsertPath
<1>3. calls' = [calls EXCEPT ![t] = d] /\ calls'[t] = d
  BY <1>1, <1>2, AtPlace
<1>4. /\ d.obj = c.obj /\ d.pc = "load" /\ d.texts = c.texts /\ d.many = c.many /\ d.low = c.low
      /\ d.continuous = c.continuous /\ d.items = c.items
  BY DEF With
<1>5. c.items \in Opening /\ c.texts = <<>>
  BY <1>1 DEF ItemsFit, AskedPcs, SinglePcs, ManyPcs
<1>6. CallOK(d)
  <2>1. IsCall(d)
    BY <1>1, WithIsCall DEF IsCall
  <2>2. ItemsFit(d)
    BY <1>4, <1>5 DEF ItemsFit
  <2>3. Stage(d)
    BY <1>4 DEF Stage, SinglePcs, ManyPcs
  <2> QED BY <2>1, <2>2, <2>3 DEF CallOK
<1>7. Sound(t)'
  <2>1. CallOK(calls[t])'
    BY <1>3, <1>6
  <2>2. Holding(t)'
    BY <1>1, <1>2, <1>3, <1>4 DEF Holding, AttachedPcs
  <2>3. calls'[t].pc = "load" /\ calls'[t].obj = c.obj /\ objects' = objects
    BY <1>2, <1>3, <1>4
  <2>4. OthersOn(t, calls[t].obj)' = {}
    <3>1. \A u \in Threads \ {t} : calls'[u] = calls[u]
      BY <1>3
    <3> QED BY <1>1, <2>3, <3>1 DEF OthersOn, UpToDate
  <2>5. UpToDate(t)'
    BY <1>1, <2>3, <2>4 DEF UpToDate
  <2> QED BY <2>1, <2>2, <2>5 DEF Sound
<1>8. paths' \in Seq(Directories)
  <2>1. c.items.dir \in Directories
    BY <1>5, PyBindingAssumption DEF Opening
  <2>2. paths \in Seq(Directories)
    BY DEF IInv, TypeOK
  <2> QED BY <1>2, <2>1, <2>2, WithPathType
<1>9. d # Idle
  BY <1>6, CallIsRecord DEF CallOK
<1>10. d.obj = calls[t].obj /\ calls' = [calls EXCEPT ![t] = d]
  BY <1>3, <1>4
<1> HIDE DEF d
<1> QED BY <1>1, <1>2, <1>7, <1>8, <1>9, <1>10, Untouched, GoesOn

(* A constructor ends by opening its object, or having failed.             *)
LEMMA LoadIs ==
  ASSUME IInv, NEW t \in Threads, Load(t)
  PROVE  LET c    == calls[t]
             dict == FirstHolding(paths, c.items.name)
             n    == [dict |-> dict, numbering |-> c.items.numbering, next |-> 0]
         IN  /\ c # Idle /\ c.pc = "load" /\ c.texts = <<>>
             /\ objects[c.obj] = Closed /\ OthersOn(t, c.obj) = {} /\ paths' = paths
             /\ \/ /\ n \in Object /\ objects' = [objects EXCEPT ![c.obj] = n]
                   /\ Return(t, <<>>)
                \/ Fail(t)
<1> DEFINE c == calls[t]
           dict == FirstHolding(paths, c.items.name)
<1>1. At(t, "load") /\ c # Idle /\ c.pc = "load" /\ IsCall(c) /\ ItemsFit(c) /\ Stage(c)
      /\ Holding(t) /\ UpToDate(t)
  BY AtPlace DEF Load
<1>2. c.items \in Opening /\ c.texts = <<>>
  BY <1>1 DEF ItemsFit, AskedPcs, SinglePcs, ManyPcs
<1>3. objects[c.obj] = Closed /\ OthersOn(t, c.obj) = {}
  BY <1>1 DEF UpToDate
<1>4. dict \in Dictionaries \cup {NoDictionary}
  <2>1. c.items.name \in Names /\ paths \in Seq(Directories)
    BY <1>2 DEF Opening, IInv, TypeOK
  <2> QED BY <2>1, FoundIsDictionary
<1>5. c.items.numbering \in Numberings \cup {"bad"}
  BY <1>2, PyBindingAssumption DEF Opening
<1> HIDE DEF dict
<1>6. CASE /\ dict # NoDictionary /\ c.items.numbering # "bad"
           /\ objects' = [objects EXCEPT ![c.obj] = [dict |-> dict, numbering |-> c.items.numbering, next |-> 0]]
           /\ Return(t, <<>>)
           /\ UNCHANGED paths
  <2>1. [dict |-> dict, numbering |-> c.items.numbering, next |-> 0] \in Object
    BY <1>4, <1>5, <1>6 DEF Object
  <2> QED BY <1>1, <1>2, <1>3, <1>6, <2>1 DEF dict
<1>7. CASE Fail(t)
  BY <1>1, <1>2, <1>3, <1>7 DEF Fail
<1> QED BY <1>6, <1>7 DEF Load, dict

LEMMA LoadKeeps ==
  ASSUME IInv, NEW t \in Threads, Load(t)
  PROVE  IInv'
<1>1. /\ calls[t] # Idle /\ OthersOn(t, calls[t].obj) = {} /\ paths' = paths
      /\ \/ \E n \in Object : objects' = [objects EXCEPT ![calls[t].obj] = n] /\ Return(t, <<>>)
         \/ Fail(t)
  BY LoadIs
<1> QED BY <1>1, WrittenKeeps, FailKeeps

(* Nothing but the search path depends on the search path.                 *)
LEMMA PathsKeep ==
  ASSUME IInv, UNCHANGED <<build, objects, borrows, attached, calls, met>>, paths' \in Seq(Directories)
  PROVE  IInv'
<1>1. TypeOK' /\ BorrowsInv' /\ TogetherInv'
  BY DEF IInv, TypeOK, BorrowsInv, TogetherInv, OthersOn
<1>2. ASSUME NEW t \in Threads, calls'[t] # Idle
      PROVE  Sound(t)'
  <2>1. Sound(t)
    BY <1>2 DEF IInv
  <2>2. CallOK(calls[t])'
    BY <2>1 DEF Sound
  <2>3. Holding(t)'
    BY <2>1 DEF Sound, Holding, HoldsLow, CanBorrow
  <2>4. UpToDate(t)'
    BY <2>1 DEF Sound, UpToDate, OthersOn, Analysed, Continuous
  <2> QED BY <2>2, <2>3, <2>4 DEF Sound
<1> QED BY <1>1, <1>2 DEF IInv

LEMMA PathsSetKeeps ==
  ASSUME IInv, NEW t \in Threads,
         \/ \E d \in DictPaths : AddDictionaryPath(t, d)
         \/ \E dirs \in PathChoices : SetPaths(t, dirs)
  PROVE  IInv'
<1>1. UNCHANGED <<build, objects, borrows, attached, calls, met>>
  BY DEF AddDictionaryPath, SetPaths
<1>2. CASE \E d \in DictPaths : AddDictionaryPath(t, d)
  <2>1. PICK d \in Directories : paths' = WithPath(paths, d)
    BY <1>2, PyBindingAssumption DEF AddDictionaryPath
  <2>2. paths' \in Seq(Directories)
    BY <2>1, WithPathType DEF IInv, TypeOK
  <2> QED BY <1>1, <2>2, PathsKeep
<1>3. CASE \E dirs \in PathChoices : SetPaths(t, dirs)
  <2>1. paths' \in Seq(Directories)
    BY <1>3, PyBindingAssumption DEF SetPaths
  <2> QED BY <1>1, <2>1, PathsKeep
<1> QED BY <1>2, <1>3

-----------------------------------------------------------------------------
(* Calls that begin                                                        *)

Made(o, pc, texts, many, low, continuous, items) ==
  [obj |-> o, pc |-> pc, texts |-> texts, many |-> many, low |-> low,
   continuous |-> continuous, items |-> items]

(* A call that asks for analyses, and one that does not.                   *)
Asking(o, pc, texts) ==
  Made(o, pc, texts, pc \in {"share", "generate"}, pc \in {"run", "take"}, pc \in {"run", "take"},
       Blank(texts))

Setting(o, pc, items) == Made(o, pc, <<>>, FALSE, FALSE, FALSE, items)

(* The records that calls begin with.                                      *)
LEMMA CallMade ==
  ASSUME NEW o, NEW pc, NEW texts
  PROVE  Call(o, pc, texts) = Made(o, pc, texts, FALSE, FALSE, FALSE, Blank(texts))
BY DEF Call, Blank, Made

LEMMA ManyMade ==
  ASSUME NEW o, NEW pc, NEW texts
  PROVE  [Call(o, pc, texts) EXCEPT !.many = TRUE] = Made(o, pc, texts, TRUE, FALSE, FALSE, Blank(texts))
<1> DEFINE c == Call(o, pc, texts)
           blank == Blank(texts)
           no == FALSE
           yes == TRUE
<1>1. c = Made(o, pc, texts, no, no, no, blank)
  BY DEF Call, Blank, Made
<1> HIDE DEF c, blank, no, yes
<1>2. [c EXCEPT !.many = yes] = Made(o, pc, texts, yes, no, no, blank)
  BY <1>1 DEF Made
<1> QED BY <1>2, Zenon DEF c, blank, no, yes

LEMMA LowMade ==
  ASSUME NEW o, NEW pc, NEW texts
  PROVE  [Call(o, pc, texts) EXCEPT !.low = TRUE, !.continuous = TRUE]
           = Made(o, pc, texts, FALSE, TRUE, TRUE, Blank(texts))
<1> DEFINE c == Call(o, pc, texts)
           blank == Blank(texts)
           no == FALSE
           yes == TRUE
           d == Made(o, pc, texts, no, yes, no, blank)
<1>1. c = Made(o, pc, texts, no, no, no, blank)
  BY DEF Call, Blank, Made
<1>2. [c EXCEPT !.low = yes, !.continuous = yes] = [[c EXCEPT !.low = yes] EXCEPT !.continuous = yes]
  OBVIOUS
<1> HIDE DEF c, blank, no, yes
<1>3. [c EXCEPT !.low = yes] = d
  BY <1>1 DEF Made
<1>4. d = [obj |-> o, pc |-> pc, texts |-> texts, many |-> no, low |-> yes, continuous |-> no, items |-> blank]
  BY DEF Made
<1> HIDE DEF d
<1>5. [d EXCEPT !.continuous = yes] = Made(o, pc, texts, no, yes, yes, blank)
  BY <1>4 DEF Made
<1> QED BY <1>2, <1>3, <1>5, Zenon DEF c, blank, no, yes

LEMMA SettingCalls ==
  ASSUME NEW o, NEW pc, NEW items
  PROVE  [Call(o, pc, <<>>) EXCEPT !.items = items] = Setting(o, pc, items)
<1> DEFINE c == Call(o, pc, <<>>)
           blank == Blank(<<>>)
           no == FALSE
<1>1. c = Made(o, pc, <<>>, no, no, no, blank)
  BY DEF Call, Blank, Made
<1> HIDE DEF c, blank, no
<1>2. [c EXCEPT !.items = items] = Made(o, pc, <<>>, no, no, no, items)
  BY <1>1 DEF Made
<1> QED BY <1>2, Zenon DEF c, Setting, no


LEMMA AskingCalls ==
  ASSUME NEW o, NEW pc, NEW texts
  PROVE  /\ pc = "numbering" => Call(o, pc, texts) = Asking(o, pc, texts)
         /\ pc \in {"share", "generate"} => [Call(o, pc, texts) EXCEPT !.many = TRUE] = Asking(o, pc, texts)
         /\ pc \in {"run", "take"} =>
              [Call(o, pc, texts) EXCEPT !.low = TRUE, !.continuous = TRUE] = Asking(o, pc, texts)
<1>1. CASE pc = "numbering"
  <2>1. /\ (pc \in {"share", "generate"}) = FALSE /\ (pc \in {"run", "take"}) = FALSE
    BY <1>1
  <2>2. pc \notin {"share", "generate"} /\ pc \notin {"run", "take"}
    BY <1>1
  <2> QED BY <2>1, <2>2, CallMade, Zenon DEF Asking
<1>2. CASE pc \in {"share", "generate"}
  <2>1. /\ (pc \in {"share", "generate"}) = TRUE /\ (pc \in {"run", "take"}) = FALSE
    BY <1>2
  <2>2. pc # "numbering" /\ pc \notin {"run", "take"}
    BY <1>2
  <2> QED BY <2>1, <2>2, ManyMade, ZenonT(40) DEF Asking
<1>3. CASE pc \in {"run", "take"}
  <2>1. /\ (pc \in {"share", "generate"}) = FALSE /\ (pc \in {"run", "take"}) = TRUE
    BY <1>3
  <2>2. pc # "numbering" /\ pc \notin {"share", "generate"}
    BY <1>3
  <2>3. Asking(o, pc, texts) = Made(o, pc, texts, FALSE, TRUE, TRUE, Blank(texts))
    BY <2>1, Zenon DEF Asking
  <2>4. [Call(o, pc, texts) EXCEPT !.low = TRUE, !.continuous = TRUE]
          = Made(o, pc, texts, FALSE, TRUE, TRUE, Blank(texts))
    BY LowMade, Zenon
  <2> QED BY <2>2, <2>3, <2>4, Zenon
<1> QED BY <1>1, <1>2, <1>3

(* A call that begins: what it borrows first, and what it has then.        *)
BeforePcs == {"numbering", "detach", "run", "share", "generate", "take", "work", "number"}

Begins(t, o, layer, kind, call) ==
  /\ Begin(t, o, layer, kind, call) /\ CallOK(call) /\ call.obj = o
  /\ IF call.pc = "path" THEN objects[o] = Closed /\ OthersOn(t, o) = {} ELSE IsOpen(o)
  /\ \/ call.pc \in {"numbering", "share", "generate", "take", "copy", "path"} /\ layer = "high"
     \/ /\ call.pc \in {"run", "apply"} /\ layer = "low" /\ kind = "mut"
        /\ call.pc = "run" => call.continuous
  /\ \/ call.texts = <<>>
     \/ call.texts \in Batches \cup { <<x>> : x \in Texts } /\ call.pc \in BeforePcs

LEMMA BeginSound ==
  ASSUME IInv, NEW t \in Threads, NEW o \in Objects, NEW layer \in {"low", "high"},
         NEW kind \in {"shared", "mut"}, NEW call, Begins(t, o, layer, kind, call)
  PROVE  IInv'
<1>0. /\ Begin(t, o, layer, kind, call) /\ CallOK(call) /\ call.obj = o
      /\ IF call.pc = "path" THEN objects[o] = Closed /\ OthersOn(t, o) = {} ELSE IsOpen(o)
      /\ \/ call.pc \in {"numbering", "share", "generate", "take", "copy", "path"} /\ layer = "high"
         \/ /\ call.pc \in {"run", "apply"} /\ layer = "low" /\ kind = "mut"
            /\ call.pc = "run" => call.continuous
  BY DEF Begins
<1>1. call # Idle
  BY <1>0, CallIsRecord DEF CallOK
<1>2. \A u \in Threads \ {t} : calls[u] # Idle /\ calls[u].obj = o => calls[u].pc \notin {"path", "load"}
  <2> SUFFICES ASSUME NEW u \in Threads \ {t}, calls[u] # Idle, calls[u].obj = o,
                      calls[u].pc \in {"path", "load"}
               PROVE  FALSE
    OBVIOUS
  <2>1. objects[o] = Closed
    BY CallFacts DEF UpToDate
  <2>2. u \in OthersOn(t, o)
    BY DEF OthersOn
  <2> QED BY <1>0, <2>1, <2>2 DEF IsOpen
<1>3. ASSUME calls'[t] # Idle
      PROVE  Sound(t)'
  <2>1. calls[t] = Idle /\ CanAttach
    BY <1>0 DEF Begin
  <2>2. calls'[t] = call /\ borrows' = borrows \cup {Borrow(layer, o, t, kind)}
        /\ attached' = attached \cup {t} /\ UNCHANGED <<build, paths, objects>>
        /\ \A u \in Threads \ {t} : calls'[u] = calls[u]
    BY <1>0, <1>3 DEF Begin, Fail, Return, IInv, TypeOK
  <2>3. CallOK(calls[t])'
    BY <1>0, <2>2
  <2>4. layer = "low" /\ kind = "mut" => HoldsLow(t, "mut")'
    BY <1>0, <2>2 DEF HoldsLow
  <2>5. Holding(t)'
    <3>1. layer = "high" => \A b \in borrows' : b.thread = t => b.layer = "high"
      BY <2>1, <2>2 DEF IInv, BorrowsInv, Borrow
    <3> HIDE DEF CallOK
    <3> QED BY <1>0, <2>2, <2>4, <3>1 DEF Holding, KindFor, AttachedPcs
  <2>6. UpToDate(t)'
    <3>1. IsOpen(o) => objects[o] \in Object
      BY DEF IInv, TypeOK, IsOpen
    <3>2. OthersOn(t, o)' = OthersOn(t, o)
      BY <2>2 DEF OthersOn
    <3>3. calls'[t].obj = o /\ calls'[t].pc = call.pc /\ calls'[t].continuous = call.continuous
      BY <1>0, <2>2
    <3>4. calls'[t].pc \in {"path", "load"} =>
            objects'[calls[t].obj'] = Closed /\ OthersOn(t, calls[t].obj)' = {}
      BY <1>0, <2>2, <3>2, <3>3
    <3>5. calls'[t].pc \notin {"path", "load"} => objects'[calls[t].obj'] \in Object
      BY <1>0, <2>2, <3>1, <3>3
    <3>6. /\ calls'[t].pc \notin {"number", "work", "collect", "attach", "resolve", "build", "detach"}
          /\ calls'[t].pc = "run" => calls'[t].continuous
      BY <1>0, <3>3
    <3> QED BY <3>4, <3>5, <3>6 DEF UpToDate
  <2> QED BY <2>3, <2>5, <2>6 DEF Sound
<1> QED BY <1>0, <1>1, <1>2, <1>3, BeginKeeps

LEMMA BlankType ==
  ASSUME NEW texts \in Seq(Texts)
  PROVE  Blank(texts) \in Seq(Outcome \cup {Unanswered, Error}) /\ DOMAIN Blank(texts) = DOMAIN texts
BY DEF Blank

LEMMA AskingMade ==
  ASSUME NEW o \in Objects, NEW texts \in Seq(Texts), texts # <<>>,
         NEW pc \in {"numbering", "run", "take", "share", "generate"},
         pc # "share" => Len(texts) = 1
  PROVE  LET c == Asking(o, pc, texts)
         IN  CallOK(c) /\ c.obj = o /\ c.pc = pc /\ c.texts = texts /\ (pc = "run" => c.continuous)
<1> DEFINE blank == Blank(texts)
           many == pc \in {"share", "generate"}
           low == pc \in {"run", "take"}
           c == Asking(o, pc, texts)
<1>1. blank \in Seq(Outcome \cup {Unanswered, Error}) /\ DOMAIN blank = DOMAIN texts
  BY BlankType
<1>2. /\ many \in BOOLEAN /\ low \in BOOLEAN
      /\ \/ pc = "numbering" /\ ~many /\ ~low
         \/ pc \in {"run", "take"} /\ ~many /\ low
         \/ pc \in {"share", "generate"} /\ many /\ ~low
  OBVIOUS
<1>3. c = Made(o, pc, texts, many, low, low, blank)
  BY DEF Asking
<1> HIDE DEF blank, many, low, c
<1>4. /\ c.obj = o /\ c.pc = pc /\ c.texts = texts /\ c.many = many /\ c.low = low
      /\ c.continuous = low /\ c.items = blank
      /\ c = [obj |-> o, pc |-> pc, texts |-> texts, many |-> many, low |-> low,
              continuous |-> low, items |-> blank]
  BY <1>3 DEF Made
<1>5. IsCall(c)
  BY <1>2, <1>4 DEF IsCall
<1>6. ItemsFit(c)
  BY <1>1, <1>4 DEF ItemsFit, AskedPcs, SinglePcs, ManyPcs
<1>7. Stage(c)
  BY <1>2, <1>4 DEF Stage, SinglePcs, ManyPcs, blank
<1> QED BY <1>2, <1>4, <1>5, <1>6, <1>7 DEF CallOK, c

LEMMA SettingMade ==
  ASSUME NEW o \in Objects, NEW pc, NEW items,
         \/ pc \in {"take", "apply"} /\ items \in Change
         \/ pc = "path" /\ items \in Opening
         \/ pc = "copy" /\ items = <<>>
  PROVE  LET c == Setting(o, pc, items)
         IN  CallOK(c) /\ c.obj = o /\ c.pc = pc /\ c.texts = <<>>
<1> DEFINE c == Setting(o, pc, items)
<1>1. /\ c.obj = o /\ c.pc = pc /\ c.texts = <<>> /\ c.many = FALSE /\ c.low = FALSE
      /\ c.continuous = FALSE /\ c.items = items
      /\ c = [obj |-> o, pc |-> pc, texts |-> <<>>, many |-> FALSE, low |-> FALSE,
              continuous |-> FALSE, items |-> items]
  BY DEF Setting, Made
<1> HIDE DEF c
<1>2. IsCall(c)
  BY <1>1 DEF IsCall
<1>3. ItemsFit(c)
  BY <1>1 DEF ItemsFit
<1>4. Stage(c)
  BY <1>1 DEF Stage, SinglePcs, ManyPcs
<1> QED BY <1>1, <1>2, <1>3, <1>4 DEF CallOK, c

LEMMA OneAsked ==
  ASSUME NEW o \in Objects, NEW x \in Texts, NEW pc \in {"numbering", "run", "take", "generate"}
  PROVE  LET c == Asking(o, pc, <<x>>)
         IN  CallOK(c) /\ c.obj = o /\ c.pc = pc /\ c.texts = <<x>> /\ (pc = "run" => c.continuous)
<1> DEFINE texts == <<x>>
<1>1. texts \in Seq(Texts) /\ texts # <<>> /\ Len(texts) = 1
  OBVIOUS
<1> HIDE DEF texts
<1>2. LET c == Asking(o, pc, texts)
      IN  CallOK(c) /\ c.obj = o /\ c.pc = pc /\ c.texts = texts /\ (pc = "run" => c.continuous)
  BY <1>1, AskingMade
<1> QED BY <1>2 DEF texts

LEMMA AskingBegins ==
  ASSUME NEW t \in Threads, NEW o \in Objects,
         \/ \E x \in Texts : \/ Analyse(t, o, x) \/ Generate(t, o, x)
                             \/ AnalyseIter(t, o, x) \/ LowAnalyse(t, o, x)
         \/ \E batch \in Batches : AnalyseMany(t, o, batch)
  PROVE  \E layer \in {"low", "high"}, kind \in {"shared", "mut"} : \E call : Begins(t, o, layer, kind, call)
<1>1. ASSUME NEW x \in Texts, Analyse(t, o, x)
      PROVE  \E layer \in {"low", "high"}, kind \in {"shared", "mut"} : \E call : Begins(t, o, layer, kind, call)
  <2> DEFINE c == Asking(o, "numbering", <<x>>)
  <2>1. IsOpen(o) /\ Begin(t, o, "high", "shared", c)
    BY <1>1, AskingCalls DEF Analyse, InBounds
  <2>2. CallOK(c) /\ c.obj = o /\ c.pc = "numbering" /\ c.texts = <<x>>
    BY OneAsked
  <2> HIDE DEF c
  <2> QED BY <2>1, <2>2 DEF Begins, BeforePcs
<1>2. ASSUME NEW x \in Texts, Generate(t, o, x)
      PROVE  \E layer \in {"low", "high"}, kind \in {"shared", "mut"} : \E call : Begins(t, o, layer, kind, call)
  <2> DEFINE c == Asking(o, "generate", <<x>>)
  <2>1. IsOpen(o) /\ Begin(t, o, "high", "shared", c)
    BY <1>2, AskingCalls DEF Generate
  <2>2. CallOK(c) /\ c.obj = o /\ c.pc = "generate" /\ c.texts = <<x>>
    BY OneAsked
  <2> HIDE DEF c
  <2> QED BY <2>1, <2>2 DEF Begins, BeforePcs
<1>3. ASSUME NEW x \in Texts, AnalyseIter(t, o, x)
      PROVE  \E layer \in {"low", "high"}, kind \in {"shared", "mut"} : \E call : Begins(t, o, layer, kind, call)
  <2> DEFINE c == Asking(o, "take", <<x>>)
  <2>1. IsOpen(o) /\ Begin(t, o, "high", "mut", c)
    BY <1>3, AskingCalls DEF AnalyseIter, InBounds
  <2>2. CallOK(c) /\ c.obj = o /\ c.pc = "take" /\ c.texts = <<x>>
    BY OneAsked
  <2> HIDE DEF c
  <2> QED BY <2>1, <2>2 DEF Begins, BeforePcs
<1>4. ASSUME NEW x \in Texts, LowAnalyse(t, o, x)
      PROVE  \E layer \in {"low", "high"}, kind \in {"shared", "mut"} : \E call : Begins(t, o, layer, kind, call)
  <2> DEFINE c == Asking(o, "run", <<x>>)
  <2>1. IsOpen(o) /\ Begin(t, o, "low", "mut", c)
    BY <1>4, AskingCalls DEF LowAnalyse, InBounds
  <2>2. CallOK(c) /\ c.obj = o /\ c.pc = "run" /\ c.texts = <<x>> /\ c.continuous
    BY OneAsked
  <2> HIDE DEF c
  <2> QED BY <2>1, <2>2 DEF Begins, BeforePcs
<1>5. ASSUME NEW batch \in Batches, AnalyseMany(t, o, batch)
      PROVE  \E layer \in {"low", "high"}, kind \in {"shared", "mut"} : \E call : Begins(t, o, layer, kind, call)
  <2> DEFINE c == Asking(o, "share", batch)
  <2>1. IsOpen(o) /\ Begin(t, o, "high", "shared", c)
    BY <1>5, AskingCalls DEF AnalyseMany
  <2>2. batch \in Seq(Texts) /\ batch # <<>>
    BY PyBindingAssumption
  <2>3. CallOK(c) /\ c.obj = o /\ c.pc = "share" /\ c.texts = batch
    BY <2>2, AskingMade
  <2> HIDE DEF c
  <2> QED BY <2>1, <2>3 DEF Begins, BeforePcs
<1> QED BY <1>1, <1>2, <1>3, <1>4, <1>5

LEMMA SettingBegins ==
  ASSUME NEW t \in Threads, NEW o \in Objects,
         \/ \E change \in Changes : Set(t, o, change) \/ LowSet(t, o, change)
         \/ Clone(t, o)
         \/ \E n \in Names, d \in DictPaths, g \in Chosen : New(t, o, n, d, g)
  PROVE  \E layer \in {"low", "high"}, kind \in {"shared", "mut"} : \E call : Begins(t, o, layer, kind, call)
<1>0. Changes \subseteq Change
  BY PyBindingAssumption
<1>1. ASSUME NEW change \in Changes, Set(t, o, change)
      PROVE  \E layer \in {"low", "high"}, kind \in {"shared", "mut"} : \E call : Begins(t, o, layer, kind, call)
  <2> DEFINE c == Setting(o, "take", change)
  <2>1. IsOpen(o) /\ Begin(t, o, "high", "mut", c)
    BY <1>1, SettingCalls DEF Set
  <2>2. CallOK(c) /\ c.obj = o /\ c.pc = "take" /\ c.texts = <<>>
    BY <1>0, SettingMade
  <2> HIDE DEF c
  <2> QED BY <2>1, <2>2 DEF Begins, BeforePcs
<1>2. ASSUME NEW change \in Changes, LowSet(t, o, change)
      PROVE  \E layer \in {"low", "high"}, kind \in {"shared", "mut"} : \E call : Begins(t, o, layer, kind, call)
  <2> DEFINE c == Setting(o, "apply", change)
  <2>1. IsOpen(o) /\ Begin(t, o, "low", "mut", c)
    BY <1>2, SettingCalls DEF LowSet
  <2>2. CallOK(c) /\ c.obj = o /\ c.pc = "apply" /\ c.texts = <<>>
    BY <1>0, SettingMade
  <2> HIDE DEF c
  <2> QED BY <2>1, <2>2 DEF Begins, BeforePcs
<1>3. CASE Clone(t, o)
  <2> DEFINE c == Setting(o, "copy", <<>>)
  <2>1. Call(o, "copy", <<>>) = c
    <3>1. Blank(<<>>) = <<>>
      BY DEF Blank
    <3> QED BY <3>1, CallMade, Zenon DEF Setting
  <2>2. IsOpen(o) /\ Begin(t, o, "high", "shared", c)
    BY <1>3, <2>1 DEF Clone
  <2>3. CallOK(c) /\ c.obj = o /\ c.pc = "copy" /\ c.texts = <<>>
    BY SettingMade
  <2> HIDE DEF c
  <2> QED BY <2>2, <2>3 DEF Begins, BeforePcs
<1>4. ASSUME NEW n \in Names, NEW d \in DictPaths, NEW g \in Chosen, New(t, o, n, d, g)
      PROVE  \E layer \in {"low", "high"}, kind \in {"shared", "mut"} : \E call : Begins(t, o, layer, kind, call)
  <2> DEFINE opening == [name |-> n, dir |-> d, numbering |-> g]
             c == Setting(o, "path", opening)
  <2>1. opening \in Opening
    BY DEF Opening
  <2>2. [Call(o, "path", <<>>) EXCEPT !.items = opening] = c
    <3> HIDE DEF opening
    <3> QED BY SettingCalls
  <2>3. objects[o] = Closed /\ OthersOn(t, o) = {} /\ Begin(t, o, "high", "mut", c)
    BY <1>4, <2>2 DEF New
  <2> HIDE DEF opening
  <2>4. CallOK(c) /\ c.obj = o /\ c.pc = "path" /\ c.texts = <<>>
    BY <2>1, SettingMade
  <2> HIDE DEF c
  <2> QED BY <2>3, <2>4 DEF Begins, BeforePcs
<1> QED BY <1>1, <1>2, <1>3, <1>4

-----------------------------------------------------------------------------
(* The invariant                                                           *)

LEMMA EnterKeeps ==
  ASSUME IInv, NEW t \in Threads, Enter(t)
  PROVE  IInv'
<1>1. CASE \E o \in Objects, layer \in {"low", "high"}, kind \in {"shared", "mut"} : \E call :
             Begins(t, o, layer, kind, call)
  BY <1>1, BeginSound
<1> QED BY <1>1, AskingBegins, SettingBegins, PathsSetKeeps DEF Enter

LEMMA InitHolds == Init => IInv
<1> SUFFICES ASSUME Init
             PROVE  IInv
  OBVIOUS
<1>1. \A t \in Threads : calls[t] = Idle
  BY DEF Init
<1>2. TypeOK
  <2>1. paths \in Seq(Directories)
    BY PyBindingAssumption DEF Init
  <2> QED BY <2>1 DEF Init, TypeOK, Object
<1>3. BorrowsInv
  BY DEF Init, BorrowsInv
<1>4. TogetherInv
  BY <1>1 DEF Init, TogetherInv
<1> QED BY <1>1, <1>2, <1>3, <1>4 DEF IInv

LEMMA NextKeeps == IInv /\ [Next]_vars => IInv'
<1>1. ASSUME IInv, UNCHANGED vars
      PROVE  IInv'
  <2>1. paths' \in Seq(Directories)
    BY <1>1 DEF vars, IInv, TypeOK
  <2> QED BY <1>1, <2>1, PathsKeep DEF vars
<1>2. ASSUME IInv, NEW t \in Threads, Enter(t)
      PROVE  IInv'
  BY <1>2, EnterKeeps
<1>3. ASSUME IInv, NEW t \in Threads, Continue(t)
      PROVE  IInv'
  <2>1. CASE ReadNumbering(t) \/ Detach(t) \/ Run(t) \/ Number(t) \/ Resolve(t) \/ Build(t)
    BY <1>3, <2>1, ReadNumberingKeeps, DetachKeeps, RunKeeps, NumberKeeps, ResolveKeeps, BuildKeeps
  <2>2. CASE Share(t) \/ (\E i \in DOMAIN calls[t].texts : Work(t, i)) \/ Join(t) \/ Collect(t)
    BY <1>3, <2>2, ShareKeeps, WorkKeeps, JoinKeeps, CollectKeeps
  <2>3. CASE Synthesise(t) \/ Take(t) \/ Apply(t)
    BY <1>3, <2>3, SynthesiseKeeps, TakeKeeps, ApplyKeeps
  <2>4. CASE LowReturn(t) \/ Copy(t) \/ InsertPath(t) \/ Load(t)
    BY <1>3, <2>4, LowReturnKeeps, CopyKeeps, InsertPathKeeps, LoadKeeps
  <2> QED BY <1>3, <2>1, <2>2, <2>3, <2>4 DEF Continue
<1> QED BY <1>1, <1>2, <1>3, AttachKeeps DEF Next

(* In every reachable state: borrows are of calls under way and exclude    *)
(* each other as their kinds say, a call holds at each place of its method *)
(* what the borrow rules of the source require there, and what it has read *)
(* of its object still holds unless it met another call.                   *)
THEOREM Invariant == Spec => []IInv
BY InitHolds, NextKeeps, PTL DEF Spec

-----------------------------------------------------------------------------
(* What a call has been promised                                           *)

(* The answer that a call has, in the handle's terms.                      *)
Answer(c) ==
  IF ~TookEffect(c) THEN Unanswered
  ELSE IF \E i \in DOMAIN c.items : c.items[i] = Error THEN Error
  ELSE [i \in DOMAIN c.items |-> Resolved(c.items[i], c.items[i].dict)]

LEMMA AskedOfIs ==
  ASSUME NEW c
  PROVE  /\ AskedOf(c) = [obj |-> c.obj, texts |-> c.texts, many |-> c.many, answer |-> Answer(c)]
         /\ AskedOf(c).obj = c.obj /\ AskedOf(c).texts = c.texts /\ AskedOf(c).many = c.many
         /\ AskedOf(c).answer = Answer(c)
BY DEF AskedOf, Answer

LEMMA ItemsOfTexts ==
  ASSUME NEW c, CallOK(c), c.texts # <<>>
  PROVE  /\ c.items \in Seq(Outcome \cup {Unanswered, Error}) /\ DOMAIN c.items = DOMAIN c.texts
         /\ 1 \in DOMAIN c.items
         /\ \A i \in DOMAIN c.items : c.items[i] \in Outcome \cup {Unanswered, Error}
<1>1. c.items \in Seq(Outcome \cup {Unanswered, Error}) /\ DOMAIN c.items = DOMAIN c.texts
  BY DEF CallOK, ItemsFit
<1>2. 1 \in DOMAIN c.texts
  BY TextsType DEF CallOK
<1> QED BY <1>1, <1>2

(* The three answers: none yet, an error, and the texts' resolutions.      *)
LEMMA AnswerCases ==
  ASSUME NEW c, CallOK(c)
  PROVE  /\ ~TookEffect(c) => Answer(c) = Unanswered
         /\ TookEffect(c) /\ (\E i \in DOMAIN c.items : c.items[i] = Error) => Answer(c) = Error
         /\ TookEffect(c) /\ ~(\E i \in DOMAIN c.items : c.items[i] = Error) =>
              /\ Answer(c) = [i \in DOMAIN c.items |-> Resolved(c.items[i], c.items[i].dict)]
              /\ Answer(c) \in Seq(Resolution) /\ Answer(c) \notin {Unanswered, Error}
              /\ DOMAIN Answer(c) = DOMAIN c.items
              /\ \A i \in DOMAIN c.items : c.items[i] \in Outcome
<1>1. ASSUME TookEffect(c), ~(\E i \in DOMAIN c.items : c.items[i] = Error)
      PROVE  /\ Answer(c) = [i \in DOMAIN c.items |-> Resolved(c.items[i], c.items[i].dict)]
             /\ Answer(c) \in Seq(Resolution) /\ Answer(c) \notin {Unanswered, Error}
             /\ DOMAIN Answer(c) = DOMAIN c.items
             /\ \A i \in DOMAIN c.items : c.items[i] \in Outcome
  <2>1. Answer(c) = [i \in DOMAIN c.items |-> Resolved(c.items[i], c.items[i].dict)]
    BY <1>1 DEF Answer
  <2>2. c.texts # <<>> /\ \A i \in DOMAIN c.items : c.items[i] # Unanswered
    BY <1>1 DEF TookEffect
  <2>3. \A i \in DOMAIN c.items : c.items[i] \in Outcome
    BY <1>1, <2>2, ItemsOfTexts
  <2>4. \A i \in DOMAIN c.items : Resolved(c.items[i], c.items[i].dict) \in Resolution
    BY <2>3 DEF Outcome, Resolution, Resolved
  <2>5. DOMAIN c.items = 1 .. Len(c.items) /\ Len(c.items) \in Nat
    BY <2>2, ItemsOfTexts
  <2>6. Answer(c) \in Seq(Resolution)
    BY <2>1, <2>4, <2>5
  <2>7. Answer(c) \notin {Unanswered, Error}
    BY <2>6, MarksAssumption
  <2> QED BY <2>1, <2>3, <2>6, <2>7
<1> QED BY <1>1 DEF Answer

LEMMA AskedIsRecord ==
  ASSUME NEW c, CallOK(c)
  PROVE  AskedOf(c) # Idle
<1>1. Answer(c) \in Seq(Resolution) \cup {Unanswered, Error}
  BY AnswerCases
<1>2. AskedOf(c) \in AskedRecord
  BY <1>1, AskedOfIs DEF AskedRecord, CallOK, IsCall
<1> QED BY <1>2, MarksAssumption

(* Where a call has no answer, and where it has one.                       *)
LEMMA NoAnswer ==
  ASSUME NEW c, CallOK(c),
         c.texts = <<>> \/ c.pc \in {"numbering", "detach", "run", "share", "generate", "take", "work", "number"}
  PROVE  Answer(c) = Unanswered
<1>1. CASE c.texts = <<>> \/ c.pc \in {"share", "work", "number"}
  BY <1>1 DEF Answer, TookEffect
<1>2. CASE c.texts # <<>> /\ c.pc \in {"numbering", "detach", "run", "generate", "take"}
  <2>1. c.items = Blank(c.texts) /\ 1 \in DOMAIN c.items
    BY <1>2, ItemsOfTexts DEF CallOK, Stage
  <2>2. c.items[1] = Unanswered
    BY <2>1 DEF Blank
  <2> QED BY <2>1, <2>2 DEF Answer, TookEffect
<1> QED BY <1>1, <1>2

LEMMA FullAnswer ==
  ASSUME NEW c, CallOK(c), c.pc \in {"resolve", "build"}
  PROVE  /\ c.texts # <<>> /\ TookEffect(c) /\ ~(\E i \in DOMAIN c.items : c.items[i] = Error)
         /\ \A i \in DOMAIN c.items : c.items[i] \in Outcome
<1>1. c.texts # <<>> /\ \A i \in DOMAIN c.items : c.items[i] \in Outcome
  BY DEF CallOK, ItemsFit, Stage
<1>2. \A i \in DOMAIN c.items : c.items[i] # Unanswered /\ c.items[i] # Error
  BY <1>1, MarksAssumption
<1> QED BY <1>1, <1>2 DEF TookEffect

(* A step changes what one thread asked.                                   *)
LEMMA AskedType ==
  ASSUME IInv
  PROVE  /\ DOMAIN Asked = Threads
         /\ \A t \in Threads : Asked[t] = IF calls[t] = Idle THEN Idle ELSE AskedOf(calls[t])
         /\ \A t \in Threads : calls[t] # Idle => Asked[t] # Idle /\ CallOK(calls[t])
<1>1. \A t \in Threads : calls[t] # Idle => AskedOf(calls[t]) # Idle /\ CallOK(calls[t])
  BY CallFacts, AskedIsRecord
<1> QED BY <1>1 DEF Asked

LEMMA AskedStep ==
  ASSUME IInv, IInv', NEW t \in Threads, \A u \in Threads \ {t} : calls'[u] = calls[u],
         calls'[t] # Idle
  PROVE  /\ Asked' = [Asked EXCEPT ![t] = AskedOf(calls'[t])]
         /\ CallOK(calls'[t])
<1>1. CallOK(calls'[t])
  BY DEF IInv, Sound
<1>2. Asked' = [u \in Threads |-> IF calls'[u] = Idle THEN Idle ELSE AskedOf(calls'[u])]
  BY DEF Asked
<1>3. Asked = [u \in Threads |-> IF calls[u] = Idle THEN Idle ELSE AskedOf(calls[u])]
  BY DEF Asked
<1> QED BY <1>1, <1>2, <1>3

LEMMA AskedEnd ==
  ASSUME NEW t \in Threads, NEW value, Return(t, value), IInv
  PROVE  Asked' = [Asked EXCEPT ![t] = Idle] /\ Promised!Finish(t, value)
<1>0. DOMAIN calls = Threads
  BY DEF IInv, TypeOK
<1>1. calls'[t] = Idle /\ \A u \in Threads \ {t} : calls'[u] = calls[u]
  BY <1>0 DEF Return
<1>2. Asked' = [u \in Threads |-> IF calls'[u] = Idle THEN Idle ELSE AskedOf(calls'[u])]
  BY DEF Asked
<1>3. Asked = [u \in Threads |-> IF calls[u] = Idle THEN Idle ELSE AskedOf(calls[u])]
  BY DEF Asked
<1>4. Asked' = [Asked EXCEPT ![t] = Idle]
  BY <1>1, <1>2, <1>3
<1> QED BY <1>4 DEF Return, Promised!Finish

-----------------------------------------------------------------------------
(* Every step is a step of the shared handles, or one that nobody sees     *)

LEMMA WithNotIdle ==
  ASSUME NEW c, CallOK(c), NEW pc \in Places, NEW continuous \in BOOLEAN,
         NEW items \in Seq(Outcome \cup {Unanswered, Error}) \cup Change \cup Opening
  PROVE  With(c, pc, continuous, items) # Idle
<1>1. With(c, pc, continuous, items) \in CallRecord
  BY DEF With, CallRecord, CallOK, IsCall
<1> QED BY <1>1, MarksAssumption

(* How a call's fields go on.                                              *)
LEMMA OnwardFields ==
  ASSUME IInv, NEW t \in Threads, calls[t] # Idle, NEW pc \in Places, NEW continuous \in BOOLEAN,
         NEW items \in Seq(Outcome \cup {Unanswered, Error}) \cup Change \cup Opening,
         calls' = [calls EXCEPT ![t] = With(calls[t], pc, continuous, items)]
  PROVE  /\ calls'[t] # Idle /\ \A u \in Threads \ {t} : calls'[u] = calls[u]
         /\ calls'[t].obj = calls[t].obj /\ calls'[t].texts = calls[t].texts
         /\ calls'[t].many = calls[t].many /\ calls'[t].low = calls[t].low
         /\ calls'[t].pc = pc /\ calls'[t].items = items /\ calls'[t].continuous = continuous
<1> DEFINE d == With(calls[t], pc, continuous, items)
<1>1. d # Idle
  BY CallFacts, WithNotIdle
<1>2. /\ d.obj = calls[t].obj /\ d.texts = calls[t].texts /\ d.many = calls[t].many /\ d.low = calls[t].low
      /\ d.pc = pc /\ d.items = items /\ d.continuous = continuous
  BY DEF With
<1>3. calls'[t] = d /\ \A u \in Threads \ {t} : calls'[u] = calls[u]
  BY DEF IInv, TypeOK
<1> HIDE DEF d
<1> QED BY <1>1, <1>2, <1>3

LEMMA GoToFields ==
  ASSUME IInv, NEW t \in Threads, calls[t] # Idle, NEW pc \in Places, GoTo(t, pc)
  PROVE  /\ calls'[t] # Idle /\ \A u \in Threads \ {t} : calls'[u] = calls[u]
         /\ calls'[t].obj = calls[t].obj /\ calls'[t].texts = calls[t].texts
         /\ calls'[t].many = calls[t].many /\ calls'[t].low = calls[t].low
         /\ calls'[t].pc = pc /\ calls'[t].items = calls[t].items
         /\ calls'[t].continuous = calls[t].continuous
<1>1. At(t, calls[t].pc)
  BY DEF At
<1>2. calls' = [calls EXCEPT ![t] = With(calls[t], pc, calls[t].continuous, calls[t].items)]
  BY <1>1, AtPlace
<1>3. /\ calls[t].continuous \in BOOLEAN
      /\ calls[t].items \in Seq(Outcome \cup {Unanswered, Error}) \cup Change \cup Opening
  BY CallFacts, CallTypes
<1> DEFINE d == With(calls[t], pc, calls[t].continuous, calls[t].items)
<1>4. d # Idle
  BY <1>3, CallFacts, WithNotIdle
<1>5. /\ d.obj = calls[t].obj /\ d.texts = calls[t].texts /\ d.many = calls[t].many /\ d.low = calls[t].low
      /\ d.pc = pc /\ d.items = calls[t].items /\ d.continuous = calls[t].continuous
  BY DEF With
<1>6. calls'[t] = d /\ \A u \in Threads \ {t} : calls'[u] = calls[u]
  BY <1>2 DEF IInv, TypeOK
<1> HIDE DEF d
<1> QED BY <1>4, <1>5, <1>6

(* A step that gives no answer and writes to no handle.                    *)
LEMMA Unseen ==
  ASSUME IInv, IInv', NEW t \in Threads, calls[t] # Idle, calls'[t] # Idle,
         \A u \in Threads \ {t} : calls'[u] = calls[u],
         UNCHANGED <<build, objects, met, returned>>,
         calls'[t].obj = calls[t].obj, calls'[t].texts = calls[t].texts, calls'[t].many = calls[t].many,
         Answer(calls'[t]) = Answer(calls[t])
  PROVE  UNCHANGED Promised!vars
<1>1. Asked' = [Asked EXCEPT ![t] = AskedOf(calls'[t])]
  BY AskedStep
<1>2. AskedOf(calls'[t]) = AskedOf(calls[t])
  BY AskedOfIs
<1>3. Asked' = Asked
  <2>1. Asked[t] = AskedOf(calls[t]) /\ Asked = [u \in Threads |-> Asked[u]]
    BY AskedType DEF Asked
  <2> QED BY <1>1, <1>2, <2>1
<1> QED BY <1>3 DEF Promised!vars

(* An error ends a call whose answer was none yet, or the error, or lost   *)
(* to a call that it met.                                                  *)
LEMMA FailImplements ==
  ASSUME IInv, NEW t \in Threads, Return(t, Error), UNCHANGED objects,
         calls[t] # Idle => Answer(calls[t]) \in {Unanswered, Error} \/ t \in met
  PROVE  Promised!Next
<1>1. Promised!Finish(t, Error)
  BY AskedEnd
<1>2. CASE calls[t] = Idle
  <2>1. Promised!Refuse(t)
    BY <1>1, <1>2, AskedType DEF Promised!Refuse
  <2> QED BY <2>1 DEF Promised!Next
<1>3. CASE calls[t] # Idle
  <2>1. Asked[t] # Idle /\ Asked[t].answer = Answer(calls[t])
    BY <1>3, AskedType, AskedOfIs
  <2>2. CASE Answer(calls[t]) = Unanswered
    <3>1. Promised!Refuse(t)
      BY <1>1, <2>1, <2>2 DEF Promised!Refuse
    <3> QED BY <3>1 DEF Promised!Next
  <2>3. CASE Answer(calls[t]) = Error
    <3>1. Asked[t].answer # Unanswered
      BY <2>1, <2>3, MarksAssumption
    <3>2. Promised!Give(t)
      BY <1>1, <2>1, <2>3, <3>1 DEF Promised!Give
    <3> QED BY <3>2 DEF Promised!Next
  <2>4. CASE Answer(calls[t]) \notin {Unanswered, Error}
    <3>1. t \in met
      BY <1>3, <2>4
    <3>2. Promised!Lose(t)
      BY <1>1, <2>1, <2>4, <3>1 DEF Promised!Lose, Promised!Spoilable
    <3> QED BY <3>2 DEF Promised!Next
  <2> QED BY <2>2, <2>3, <2>4
<1> QED BY <1>2, <1>3

(* A call that returns the answer that it has.                             *)
LEMMA GiveImplements ==
  ASSUME IInv, NEW t \in Threads, calls[t] # Idle, Return(t, Answer(calls[t])), UNCHANGED objects,
         Answer(calls[t]) # Unanswered
  PROVE  Promised!Next
<1>1. Asked[t] # Idle /\ Asked[t].answer = Answer(calls[t])
  BY AskedType, AskedOfIs
<1>2. Promised!Finish(t, Answer(calls[t]))
  BY AskedEnd
<1>3. Promised!Give(t)
  BY <1>1, <1>2 DEF Promised!Give
<1> QED BY <1>3 DEF Promised!Next

(* A call that goes on to where its answer is what it was.                 *)
LEMMA GoToUnseen ==
  ASSUME IInv, IInv', NEW t \in Threads, calls[t] # Idle, NEW pc \in Places, GoTo(t, pc),
         UNCHANGED <<build, objects, met, returned>>,
         \/ calls[t].texts = <<>>
         \/ calls[t].pc \in BeforePcs /\ pc \in BeforePcs
         \/ calls[t].pc \notin {"share", "work", "number"} /\ pc \notin {"share", "work", "number"}
  PROVE  UNCHANGED Promised!vars
<1> DEFINE c == calls[t]
           d == calls'[t]
<1>1. /\ d # Idle /\ \A u \in Threads \ {t} : calls'[u] = calls[u]
      /\ d.obj = c.obj /\ d.texts = c.texts /\ d.many = c.many
      /\ d.pc = pc /\ d.items = c.items
  BY GoToFields
<1>2. CallOK(c) /\ CallOK(d)
  BY <1>1, CallFacts, AskedStep
<1>3. Answer(d) = Answer(c)
  <2>1. CASE c.texts = <<>> \/ (c.pc \in BeforePcs /\ pc \in BeforePcs)
    <3>1. /\ c.texts = <<>> \/ c.pc \in BeforePcs
          /\ d.texts = <<>> \/ d.pc \in BeforePcs
      BY <1>1, <2>1
    <3>2. Answer(c) = Unanswered /\ Answer(d) = Unanswered
      BY <1>2, <3>1, NoAnswer DEF BeforePcs
    <3> QED BY <3>2
  <2>2. CASE c.pc \notin {"share", "work", "number"} /\ pc \notin {"share", "work", "number"}
    <3>1. TookEffect(d) <=> TookEffect(c)
      <4> HIDE DEF c, d
      <4> QED BY <1>1, <2>2 DEF TookEffect
    <3> HIDE DEF c, d
    <3> QED BY <1>1, <3>1 DEF Answer
  <2> QED BY <2>1, <2>2
<1> QED BY <1>1, <1>3, Unseen

LEMMA ReadNumberingImplements ==
  ASSUME IInv, IInv', NEW t \in Threads, ReadNumbering(t)
  PROVE  Promised!Next \/ UNCHANGED Promised!vars
<1> DEFINE c == calls[t]
           continuous == objects[c.obj].numbering = "continuous"
           d == With(c, "detach", continuous, c.items)
<1>1. c # Idle /\ c.pc = "numbering" /\ IsCall(c) /\ CallOK(c)
  BY AtPlace, CallFacts DEF ReadNumbering
<1>2. Answer(c) = Unanswered
  BY <1>1, NoAnswer
<1>3. CASE Fail(t)
  BY <1>2, <1>3, FailImplements DEF Fail
<1>4. CASE /\ calls' = [calls EXCEPT ![t].pc = "detach", ![t].continuous = continuous]
           /\ UNCHANGED <<build, paths, objects, borrows, attached, returned, met>>
  <2>0. continuous \in BOOLEAN
    OBVIOUS
  <2> HIDE DEF continuous
  <2>1. calls' = [calls EXCEPT ![t] = [calls[t] EXCEPT !.pc = "detach", !.continuous = continuous]]
    BY <1>4
  <2>2. [calls[t] EXCEPT !.pc = "detach", !.continuous = continuous] = d
    BY <1>1, WithIs
  <2>3. calls'[t] = d /\ \A u \in Threads \ {t} : calls'[u] = calls[u]
    BY <2>1, <2>2 DEF IInv, TypeOK
  <2>4. d # Idle
    <3>1. "detach" \in Places
      BY DEF Places
    <3>2. c.items \in Seq(Outcome \cup {Unanswered, Error}) \cup Change \cup Opening
      BY <1>1, CallTypes
    <3> HIDE DEF c
    <3> QED BY <1>1, <2>0, <3>1, <3>2, WithNotIdle
  <2>5. d.obj = c.obj /\ d.texts = c.texts /\ d.many = c.many /\ d.pc = "detach"
    BY DEF With
  <2> HIDE DEF d
  <2>6. Answer(d) = Unanswered
    <3>1. CallOK(d)
      BY <2>3, <2>4, AskedStep
    <3> QED BY <2>5, <3>1, NoAnswer
  <2> QED BY <1>1, <1>2, <1>4, <2>3, <2>4, <2>5, <2>6, Unseen
<1> QED BY <1>3, <1>4 DEF ReadNumbering

LEMMA OnTheWay ==
  ASSUME IInv, IInv', NEW t \in Threads,
         Detach(t) \/ Share(t) \/ Take(t) \/ Attach(t) \/ InsertPath(t)
  PROVE  Promised!Next \/ UNCHANGED Promised!vars
<1> USE DEF Places
<1>1. CASE Detach(t)
  <2>1. calls[t] # Idle /\ calls[t].pc = "detach" /\ CallOK(calls[t])
    BY <1>1, AtPlace, CallFacts DEF Detach
  <2>2. CASE Fail(t)
    BY <2>1, <2>2, NoAnswer, FailImplements DEF Fail
  <2>3. CASE GoTo(t, "run") /\ UNCHANGED <<build, objects, met, returned>>
    BY <2>1, <2>3, GoToUnseen DEF BeforePcs
  <2> QED BY <1>1, <2>2, <2>3 DEF Detach
<1>2. CASE Share(t)
  <2>1. calls[t] # Idle /\ calls[t].pc = "share" /\ CallOK(calls[t])
    BY <1>2, AtPlace, CallFacts DEF Share
  <2>2. CASE Fail(t)
    BY <2>1, <2>2, NoAnswer, FailImplements DEF Fail
  <2>3. CASE GoTo(t, "work") /\ UNCHANGED <<build, objects, met, returned>>
    BY <2>1, <2>3, GoToUnseen DEF BeforePcs
  <2> QED BY <1>2, <2>2, <2>3 DEF Share
<1>3. CASE Take(t)
  <2>1. calls[t] # Idle /\ calls[t].pc = "take" /\ CallOK(calls[t])
    BY <1>3, AtPlace, CallFacts DEF Take
  <2>2. CASE Fail(t)
    BY <2>1, <2>2, NoAnswer, FailImplements DEF Fail
  <2>3. CASE /\ GoTo(t, IF calls[t].texts = <<>> THEN "apply" ELSE "run")
             /\ UNCHANGED <<build, objects, met, returned>>
    <3>1. CASE calls[t].texts = <<>>
      <4>1. GoTo(t, "apply")
        BY <2>3, <3>1
      <4> QED BY <2>1, <2>3, <3>1, <4>1, GoToUnseen
    <3>2. CASE calls[t].texts # <<>>
      <4>1. GoTo(t, "run")
        BY <2>3, <3>2
      <4> QED BY <2>1, <2>3, <4>1, GoToUnseen DEF BeforePcs
    <3> QED BY <3>1, <3>2
  <2> QED BY <1>3, <2>2, <2>3 DEF Take
<1>4. CASE Attach(t)
  <2>1. calls[t] # Idle /\ calls[t].pc = "attach" /\ CallOK(calls[t])
    BY <1>4, AtPlace, CallFacts DEF Attach
  <2>2. CASE Failed(t) /\ Fail(t)
    <3>1. Answer(calls[t]) \in {Unanswered, Error}
      BY <2>1, <2>2, AnswerCases DEF Failed
    <3> QED BY <2>2, <3>1, FailImplements DEF Fail
  <2>3. CASE GoTo(t, "resolve") /\ UNCHANGED <<build, objects, met, returned>>
    BY <2>1, <2>3, GoToUnseen
  <2> QED BY <1>4, <2>2, <2>3 DEF Attach
<1>5. CASE InsertPath(t)
  <2>1. calls[t] # Idle /\ calls[t].pc = "path" /\ ItemsFit(calls[t])
    BY <1>5, AtPlace DEF InsertPath
  <2>2. calls[t].texts = <<>>
    BY <2>1 DEF ItemsFit, AskedPcs, SinglePcs, ManyPcs
  <2>3. GoTo(t, "load") /\ UNCHANGED <<build, objects, met, returned>>
    BY <1>5 DEF InsertPath
  <2> QED BY <2>1, <2>2, <2>3, GoToUnseen
<1> QED BY <1>1, <1>2, <1>3, <1>4, <1>5

(* The analyser's answers are the handle's readings.                       *)
LEMMA ReadingIs ==
  ASSUME NEW d \in Dictionaries, NEW x \in Texts, NEW start \in Nat
  PROVE  /\ Promised!Reading(d, x, start) = Error <=> Item(d, x, start) = Error
         /\ Item(d, x, start) # Error =>
              Promised!Reading(d, x, start) = Resolved(Item(d, x, start), Item(d, x, start).dict)
<1>1. CASE Size(d, x) = 0
  BY <1>1 DEF Item, Promised!Reading
<1>2. CASE Size(d, x) # 0
  <2> DEFINE item == [dict |-> d, text |-> x, start |-> start]
             reading == [dict |-> d, tags |-> d, text |-> x, start |-> start]
  <2>1. Item(d, x, start) = item /\ Promised!Reading(d, x, start) = reading
    BY <1>2 DEF Item, Promised!Reading
  <2>2. item \in Outcome /\ reading \in Resolution
    BY DEF Outcome, Resolution
  <2>3. item # Error /\ reading # Error
    BY <2>2, MarksAssumption
  <2>4. Resolved(item, item.dict) = reading
    BY DEF Resolved
  <2> QED BY <2>1, <2>3, <2>4
<1> QED BY <1>1, <1>2

(* What a dictionary answers to texts, numbered from a node.               *)
Readings(dict, texts, start) ==
  LET readings == [i \in DOMAIN texts |-> Promised!Reading(dict, texts[i], start)]
  IN  IF \E i \in DOMAIN readings : readings[i] = Error THEN Error ELSE readings

LEMMA AnswersAgree ==
  ASSUME NEW c, CallOK(c), TookEffect(c), NEW dict \in Dictionaries, NEW start \in Nat,
         \A i \in DOMAIN c.items : c.items[i] = Item(dict, c.texts[i], start)
  PROVE  Answer(c) = Readings(dict, c.texts, start)
<1> DEFINE readings == [i \in DOMAIN c.texts |-> Promised!Reading(dict, c.texts[i], start)]
<1>1. c.texts # <<>>
  BY DEF TookEffect
<1>2. DOMAIN c.items = DOMAIN c.texts /\ \A i \in DOMAIN c.texts : c.texts[i] \in Texts
  BY <1>1, ItemsOfTexts, TextsType DEF CallOK
<1>3. \A i \in DOMAIN c.texts :
        /\ readings[i] = Error <=> c.items[i] = Error
        /\ c.items[i] # Error => readings[i] = Resolved(c.items[i], c.items[i].dict)
  BY <1>2, ReadingIs
<1>4. DOMAIN readings = DOMAIN c.texts
  OBVIOUS
<1>5. CASE \E i \in DOMAIN c.items : c.items[i] = Error
  BY <1>2, <1>3, <1>4, <1>5, AnswerCases DEF Readings
<1>6. CASE ~\E i \in DOMAIN c.items : c.items[i] = Error
  <2>1. Answer(c) = [i \in DOMAIN c.items |-> Resolved(c.items[i], c.items[i].dict)]
    BY <1>6, AnswerCases
  <2>2. readings = [i \in DOMAIN c.items |-> Resolved(c.items[i], c.items[i].dict)]
    BY <1>2, <1>3, <1>6
  <2>3. ~\E i \in DOMAIN readings : readings[i] = Error
    BY <1>2, <1>3, <1>4, <1>6
  <2> HIDE DEF readings
  <2> QED BY <2>1, <2>2, <2>3 DEF readings, Readings
<1> QED BY <1>5, <1>6

(* A call takes effect.                                                    *)
LEMMA EffectImplements ==
  ASSUME IInv, IInv', NEW t \in Threads, calls[t] # Idle, calls'[t] # Idle,
         \A u \in Threads \ {t} : calls'[u] = calls[u],
         calls'[t].obj = calls[t].obj, calls'[t].texts = calls[t].texts, calls'[t].many = calls[t].many,
         UNCHANGED <<build, met, returned>>,
         Answer(calls[t]) = Unanswered, calls[t].texts # <<>>, objects[calls[t].obj] # Closed,
         \/ /\ Answer(calls'[t]) = Promised!AnswerOf(objects[calls[t].obj], AskedOf(calls[t]))
            /\ objects' = [objects EXCEPT ![calls[t].obj] = Promised!After(objects[calls[t].obj], AskedOf(calls[t]))]
         \/ /\ Answer(calls'[t]) = Promised!AnswerOf(objects[calls[t].obj], [AskedOf(calls[t]) EXCEPT !.many = TRUE])
            /\ t \in met /\ UNCHANGED objects
  PROVE  Promised!Next
<1> DEFINE a == AskedOf(calls[t])
           b == AskedOf(calls'[t])
<1>1. Asked' = [Asked EXCEPT ![t] = b]
  BY AskedStep
<1>2. Asked[t] = a /\ Asked[t] # Idle
  BY AskedType
<1>3. /\ a = [obj |-> calls[t].obj, texts |-> calls[t].texts, many |-> calls[t].many, answer |-> Unanswered]
      /\ a.obj = calls[t].obj /\ a.texts = calls[t].texts /\ a.answer = Unanswered
  BY AskedOfIs
<1>4. b = [obj |-> calls[t].obj, texts |-> calls[t].texts, many |-> calls[t].many, answer |-> Answer(calls'[t])]
  BY AskedOfIs
<1> HIDE DEF a, b
<1>5. \A x : x = Answer(calls'[t]) => [a EXCEPT !.answer = x] = b
  BY <1>3, <1>4
<1>6. \A x : x = Answer(calls'[t]) => Asked' = [Asked EXCEPT ![t].answer = x]
  <2> SUFFICES ASSUME NEW x, x = Answer(calls'[t])
               PROVE  Asked' = [Asked EXCEPT ![t].answer = x]
    OBVIOUS
  <2>1. [Asked EXCEPT ![t].answer = x] = [Asked EXCEPT ![t] = [Asked[t] EXCEPT !.answer = x]]
    OBVIOUS
  <2>2. [Asked[t] EXCEPT !.answer = x] = b
    BY <1>2, <1>5
  <2> QED BY <1>1, <2>1, <2>2
<1>7. CASE /\ Answer(calls'[t]) = Promised!AnswerOf(objects[calls[t].obj], a)
           /\ objects' = [objects EXCEPT ![calls[t].obj] = Promised!After(objects[calls[t].obj], a)]
  <2> DEFINE x == Promised!AnswerOf(objects[calls[t].obj], a)
             y == Promised!After(objects[calls[t].obj], a)
  <2>1. Asked' = [Asked EXCEPT ![t].answer = x]
    <3> HIDE DEF x
    <3> QED BY <1>6, <1>7 DEF x
  <2>2. objects' = [objects EXCEPT ![a.obj] = y]
    BY <1>3, <1>7
  <2>3. Promised!Analyse(t)
    BY <1>2, <1>3, <2>1, <2>2 DEF Promised!Analyse
  <2> QED BY <2>3 DEF Promised!Next
<1>8. CASE /\ Answer(calls'[t]) = Promised!AnswerOf(objects[calls[t].obj], [a EXCEPT !.many = TRUE])
           /\ t \in met /\ UNCHANGED objects
  <2> DEFINE x == Promised!AnswerOf(objects[calls[t].obj], [a EXCEPT !.many = TRUE])
  <2>1. Asked' = [Asked EXCEPT ![t].answer = x]
    <3> HIDE DEF x
    <3> QED BY <1>6, <1>8 DEF x
  <2>2. Promised!AnalyseStale(t)
    BY <1>2, <1>3, <1>8, <2>1 DEF Promised!AnalyseStale, Promised!Spoilable
  <2> QED BY <2>2 DEF Promised!Next
<1> QED BY <1>7, <1>8 DEF a

LEMMA AnswerOfIs ==
  ASSUME NEW m, NEW c
  PROVE  /\ Promised!AnswerOf(m, AskedOf(c))
              = Readings(m.dict, c.texts, IF c.many THEN 0 ELSE Promised!StartOf(m))
         /\ Promised!AnswerOf(m, [AskedOf(c) EXCEPT !.many = TRUE]) = Readings(m.dict, c.texts, 0)
<1> DEFINE a == AskedOf(c)
           b == [a EXCEPT !.many = TRUE]
<1>1. a = [obj |-> c.obj, texts |-> c.texts, many |-> c.many, answer |-> Answer(c)]
      /\ a.texts = c.texts /\ a.many = c.many
  BY AskedOfIs
<1> HIDE DEF a
<1>2. b.texts = c.texts /\ b.many = TRUE
  BY <1>1
<1> HIDE DEF b
<1>3. Promised!AnswerOf(m, a) = Readings(m.dict, c.texts, IF c.many THEN 0 ELSE Promised!StartOf(m))
  BY <1>1 DEF Promised!AnswerOf, Readings
<1>4. Promised!AnswerOf(m, b) = Readings(m.dict, c.texts, 0)
  BY <1>2 DEF Promised!AnswerOf, Readings
<1> QED BY <1>3, <1>4 DEF a, b

LEMMA NumberImplements ==
  ASSUME IInv, IInv', NEW t \in Threads, Number(t)
  PROVE  Promised!Next
<1> DEFINE c == calls[t]
           m == objects[c.obj]
           pc == IF c.low THEN "low return" ELSE "attach"
           d == calls'[t]
           start == IF Continuous(t) THEN m.next ELSE 0
<1>1. c # Idle /\ c.pc = "number" /\ CallOK(c) /\ UpToDate(t)
  BY AtPlace, CallFacts DEF Number
<1>2. pc \in {"low return", "attach"} /\ pc \in Places /\ GoTo(t, pc)
  BY DEF Number, Places
<1>3. /\ d # Idle /\ \A u \in Threads \ {t} : calls'[u] = calls[u]
      /\ d.obj = c.obj /\ d.texts = c.texts /\ d.many = c.many
      /\ d.pc = pc /\ d.items = c.items
  <2> HIDE DEF pc
  <2> QED BY <1>1, <1>2, GoToFields
<1>4. CallOK(d)
  BY <1>3, AskedStep
<1>5. Answer(c) = Unanswered /\ ~c.many /\ c.texts # <<>>
  BY <1>1, NoAnswer DEF CallOK, Stage, SinglePcs, ItemsFit
<1>6. /\ m.dict \in Dictionaries /\ m.next \in Nat /\ m.numbering \in Numberings /\ m \in Object /\ m # Closed
      /\ m = [dict |-> m.dict, numbering |-> m.numbering, next |-> m.next]
  BY <1>1, OpenObject, ObjectType
<1>7. c.items = <<Analysed(t)>> /\ Analysed(t) = Item(m.dict, c.texts[1], start)
  BY <1>1 DEF UpToDate, Analysed
<1>8. Analysed(t) # Unanswered
  BY <1>1, AnalysedType
<1>9. DOMAIN d.items = {1} /\ d.items[1] = Analysed(t) /\ d.texts[1] = c.texts[1]
  <2> HIDE DEF d, start
  <2>1. d.items = <<Analysed(t)>> /\ d.texts = c.texts
    BY <1>3, <1>7
  <2> DEFINE item == Analysed(t)
  <2>2. d.items = <<item>>
    BY <2>1
  <2> HIDE DEF item
  <2>3. DOMAIN d.items = {1} /\ d.items[1] = item
    BY <2>2
  <2> QED BY <2>1, <2>3 DEF item
<1>10. TookEffect(d) /\ start \in Nat
  <2>1. d.texts # <<>> /\ d.pc \notin {"share", "work", "number"}
    BY <1>2, <1>3, <1>5
  <2> HIDE DEF d
  <2> QED BY <1>6, <1>8, <1>9, <2>1 DEF TookEffect
<1>11. \A i \in DOMAIN d.items : d.items[i] = Item(m.dict, d.texts[i], start)
  <2> HIDE DEF start, d
  <2> QED BY <1>7, <1>9
<1>12. Answer(d) = Readings(m.dict, c.texts, start)
  <2> HIDE DEF start, d, m
  <2>1. m.dict \in Dictionaries
    BY <1>6
  <2>2. Answer(d) = Readings(m.dict, d.texts, start)
    BY <1>4, <1>10, <1>11, <2>1, AnswersAgree
  <2> QED BY <1>3, <2>2
<1>13. UNCHANGED <<build, met, returned>>
  BY DEF Number
<1>14. CASE Continuous(t) \/ m.numbering = "separate"
  <2>1. start = (IF c.many THEN 0 ELSE Promised!StartOf(m))
    BY <1>5, <1>6, <1>14 DEF Continuous, Numberings, Promised!StartOf
  <2>2. Answer(d) = Promised!AnswerOf(m, AskedOf(c))
    <3>1. Promised!AnswerOf(m, AskedOf(c)) = Readings(m.dict, c.texts, IF c.many THEN 0 ELSE Promised!StartOf(m))
      BY AnswerOfIs
    <3> HIDE DEF start, d, m, c
    <3> QED BY <1>12, <2>1, <3>1
  <2>3. objects' = [objects EXCEPT ![c.obj] = Promised!After(m, AskedOf(c))]
    <3>1. AskedOf(c).many = c.many /\ AskedOf(c).texts = c.texts
      BY AskedOfIs
    <3>2. CASE Continuous(t)
      <4>1. m.numbering = "continuous"
        BY <3>2 DEF Continuous
      <4>2. Promised!After(m, AskedOf(c)) = [m EXCEPT !.next = @ + Size(m.dict, c.texts[1])]
        BY <1>5, <3>1, <4>1 DEF Promised!After
      <4>3. objects' = [objects EXCEPT ![c.obj] = [m EXCEPT !.next = @ + Size(m.dict, c.texts[1])]]
        BY <3>2 DEF Number
      <4> QED BY <4>2, <4>3
    <3>3. CASE ~Continuous(t)
      <4>1. Promised!After(m, AskedOf(c)) = m
        BY <1>14, <3>3 DEF Promised!After
      <4>2. objects' = objects
        BY <3>3 DEF Number
      <4>3. objects = [objects EXCEPT ![c.obj] = m]
        BY DEF IInv, TypeOK
      <4> QED BY <4>1, <4>2, <4>3
    <3> QED BY <3>2, <3>3
  <2> QED BY <1>1, <1>3, <1>5, <1>6, <1>13, <2>2, <2>3, EffectImplements
<1>15. CASE ~Continuous(t) /\ m.numbering # "separate"
  <2>1. m.numbering = "continuous" /\ ~c.continuous
    BY <1>6, <1>15 DEF Numberings, Continuous
  <2>2. t \in met /\ start = 0 /\ objects' = objects
    BY <1>1, <1>15, <2>1 DEF UpToDate, Number
  <2>3. Answer(d) = Promised!AnswerOf(m, [AskedOf(c) EXCEPT !.many = TRUE])
    <3>1. Promised!AnswerOf(m, [AskedOf(c) EXCEPT !.many = TRUE]) = Readings(m.dict, c.texts, 0)
      BY AnswerOfIs
    <3> HIDE DEF start, d, m, c
    <3> QED BY <1>12, <2>2, <3>1
  <2> QED BY <1>1, <1>3, <1>5, <1>6, <1>13, <2>2, <2>3, EffectImplements
<1> QED BY <1>14, <1>15

(* A call that has new items.                                              *)
LEMMA NewItemsFields ==
  ASSUME IInv, NEW t \in Threads, calls[t] # Idle, NEW pc \in Places,
         NEW items \in Seq(Outcome \cup {Unanswered, Error}) \cup Change \cup Opening,
         \/ calls' = [calls EXCEPT ![t].items = items, ![t].pc = pc]
         \/ calls' = [calls EXCEPT ![t].items = items] /\ pc = calls[t].pc
  PROVE  /\ calls'[t] # Idle /\ \A u \in Threads \ {t} : calls'[u] = calls[u]
         /\ calls'[t].obj = calls[t].obj /\ calls'[t].texts = calls[t].texts
         /\ calls'[t].many = calls[t].many /\ calls'[t].pc = pc /\ calls'[t].items = items
<1> DEFINE c == calls[t]
           d == With(c, pc, c.continuous, items)
<1>1. IsCall(c) /\ CallOK(c) /\ c.continuous \in BOOLEAN
  BY CallFacts, CallTypes
<1>2. calls'[t] = d /\ \A u \in Threads \ {t} : calls'[u] = calls[u]
  <2>1. CASE calls' = [calls EXCEPT ![t].items = items, ![t].pc = pc]
    <3>1. calls' = [calls EXCEPT ![t] = [calls[t] EXCEPT !.items = items, !.pc = pc]]
      BY <2>1
    <3>2. [calls[t] EXCEPT !.items = items, !.pc = pc] = d
      <4>1. ASSUME NEW x, IsCall(x)
            PROVE  [x EXCEPT !.items = items, !.pc = pc] = With(x, pc, x.continuous, items)
        <5> DEFINE e == With(x, x.pc, x.continuous, items)
        <5>1. [x EXCEPT !.items = items] = e
          BY <4>1, WithNewItems
        <5>2. IsRecord(e) /\ With(e, pc, e.continuous, e.items) = With(x, pc, x.continuous, items)
          BY DEF IsRecord, With
        <5> HIDE DEF e
        <5>3. [e EXCEPT !.pc = pc] = With(e, pc, e.continuous, e.items)
          BY <5>2, WithOne
        <5>4. [x EXCEPT !.items = items, !.pc = pc] = [[x EXCEPT !.items = items] EXCEPT !.pc = pc]
          OBVIOUS
        <5> QED BY <5>1, <5>2, <5>3, <5>4
      <4>2. IsCall(calls[t])
        BY <1>1
      <4> QED BY <4>1, <4>2, Zenon
    <3> HIDE DEF d
    <3> QED BY <3>1, <3>2 DEF IInv, TypeOK
  <2>2. CASE calls' = [calls EXCEPT ![t].items = items] /\ pc = calls[t].pc
    <3>1. calls' = [calls EXCEPT ![t] = [calls[t] EXCEPT !.items = items]]
      BY <2>2
    <3>2. [calls[t] EXCEPT !.items = items] = d
      BY <1>1, <2>2, WithNewItems
    <3> HIDE DEF d
    <3> QED BY <3>1, <3>2 DEF IInv, TypeOK
  <2> QED BY <2>1, <2>2
<1>3. d # Idle
  BY <1>1, WithNotIdle
<1>4. /\ d.obj = c.obj /\ d.texts = c.texts /\ d.many = c.many /\ d.pc = pc /\ d.items = items
  BY DEF With
<1> HIDE DEF d
<1> QED BY <1>2, <1>3, <1>4

LEMMA RunImplements ==
  ASSUME IInv, IInv', NEW t \in Threads, Run(t)
  PROVE  UNCHANGED Promised!vars
<1> DEFINE c == calls[t]
           d == calls'[t]
           items == <<Analysed(t)>>
<1>1. c # Idle /\ c.pc = "run" /\ CallOK(c)
  BY AtPlace, CallFacts DEF Run
<1>2. UNCHANGED <<build, objects, met, returned>> /\ calls' = [calls EXCEPT ![t].items = items, ![t].pc = "number"]
  BY DEF Run
<1>3. items \in Seq(Outcome \cup {Unanswered, Error})
  <2>1. Analysed(t) \in Outcome \cup {Error}
    BY <1>1, AnalysedType
  <2> QED BY <2>1
<1> HIDE DEF items
<1>4. "number" \in Places
  BY DEF Places
<1>5. /\ d # Idle /\ \A u \in Threads \ {t} : calls'[u] = calls[u]
      /\ d.obj = c.obj /\ d.texts = c.texts /\ d.many = c.many /\ d.pc = "number"
  BY <1>1, <1>2, <1>3, <1>4, NewItemsFields
<1>6. CallOK(d)
  BY <1>5, AskedStep
<1>7. Answer(c) = Unanswered /\ Answer(d) = Unanswered
  BY <1>1, <1>5, <1>6, NoAnswer
<1> QED BY <1>1, <1>2, <1>5, <1>7, Unseen

LEMMA WorkImplements ==
  ASSUME IInv, IInv', NEW t \in Threads, NEW i, Work(t, i)
  PROVE  UNCHANGED Promised!vars
<1> DEFINE c == calls[t]
           d == calls'[t]
           item == Item(objects[c.obj].dict, c.texts[i], 0)
           items == [c.items EXCEPT ![i] = item]
<1>1. c # Idle /\ c.pc = "work" /\ CallOK(c) /\ ItemsFit(c) /\ IsCall(c)
  BY AtPlace, CallFacts DEF Work
<1>2. UNCHANGED <<build, objects, met, returned>>
  BY DEF Work
<1>3. calls' = [calls EXCEPT ![t].items = items]
  <2>1. calls' = [calls EXCEPT ![t].items[i] = item]
    BY DEF Work
  <2> HIDE DEF item
  <2> QED BY <2>1
<1>4. items \in Seq(Outcome \cup {Unanswered, Error})
  <2>1. c.items \in Seq(Outcome \cup {Unanswered, Error}) /\ DOMAIN c.items = DOMAIN c.texts /\ i \in DOMAIN c.texts
    BY <1>1 DEF ItemsFit, Work
  <2>2. item \in Outcome \cup {Error}
    <3>1. objects[c.obj].dict \in Dictionaries /\ c.texts[i] \in Texts
      BY <1>1, <2>1, OpenObject, TextsType
    <3> QED BY <3>1, ItemType
  <2> HIDE DEF item
  <2> QED BY <2>1, <2>2
<1> HIDE DEF items
<1>5. c.pc \in Places
  BY <1>1, CallTypes
<1>6. /\ d # Idle /\ \A u \in Threads \ {t} : calls'[u] = calls[u]
      /\ d.obj = c.obj /\ d.texts = c.texts /\ d.many = c.many /\ d.pc = "work"
  BY <1>1, <1>3, <1>4, <1>5, NewItemsFields
<1>7. CallOK(d)
  BY <1>6, AskedStep
<1>8. Answer(c) = Unanswered /\ Answer(d) = Unanswered
  BY <1>1, <1>6, <1>7, NoAnswer
<1> QED BY <1>1, <1>2, <1>6, <1>8, Unseen

(* A call of several texts takes effect by the dictionary of now.          *)
LEMMA ManyTakeEffect ==
  ASSUME IInv, IInv', NEW t \in Threads, calls[t] # Idle, calls'[t] # Idle,
         \A u \in Threads \ {t} : calls'[u] = calls[u],
         calls'[t].obj = calls[t].obj, calls'[t].texts = calls[t].texts, calls'[t].many = calls[t].many,
         UNCHANGED <<build, objects, met, returned>>,
         calls[t].pc \in {"work", "generate"}, TookEffect(calls'[t]),
         \A i \in DOMAIN calls'[t].items :
           calls'[t].items[i] = Item(objects[calls[t].obj].dict, calls[t].texts[i], 0)
  PROVE  Promised!Next
<1> DEFINE c == calls[t]
           d == calls'[t]
           m == objects[c.obj]
<1>1. CallOK(c) /\ CallOK(d)
  BY CallFacts, AskedStep
<1>2. Answer(c) = Unanswered /\ c.many = TRUE /\ c.texts # <<>>
  <2>1. c.many = TRUE
    BY <1>1 DEF CallOK, IsCall, Stage, ManyPcs
  <2>2. c.texts # <<>>
    BY <1>1 DEF CallOK, ItemsFit
  <2> QED BY <1>1, <2>1, <2>2, NoAnswer
<1>3. m \in Object /\ m # Closed /\ m.dict \in Dictionaries
  BY OpenObject, ObjectType
<1>4. Answer(d) = Readings(m.dict, c.texts, 0)
  <2>1. \A i \in DOMAIN d.items : d.items[i] = Item(m.dict, d.texts[i], 0)
    OBVIOUS
  <2> HIDE DEF d, m
  <2>2. m.dict \in Dictionaries /\ 0 \in Nat /\ TookEffect(d)
    BY <1>3 DEF d
  <2>3. Answer(d) = Readings(m.dict, d.texts, 0)
    BY <1>1, <2>1, <2>2, AnswersAgree
  <2> QED BY <2>3 DEF d
<1>5. Answer(d) = Promised!AnswerOf(m, AskedOf(c))
  <2>1. Promised!AnswerOf(m, AskedOf(c)) = Readings(m.dict, c.texts, IF c.many THEN 0 ELSE Promised!StartOf(m))
    BY AnswerOfIs
  <2> QED BY <1>2, <1>4, <2>1
<1>6. objects' = [objects EXCEPT ![c.obj] = Promised!After(m, AskedOf(c))]
  <2>1. AskedOf(c).many = TRUE
    BY <1>2, AskedOfIs
  <2>2. Promised!After(m, AskedOf(c)) = m
    BY <2>1 DEF Promised!After
  <2>3. objects = [objects EXCEPT ![c.obj] = m]
    BY DEF IInv, TypeOK
  <2> QED BY <2>2, <2>3
<1> QED BY <1>2, <1>3, <1>5, <1>6, EffectImplements

LEMMA JoinImplements ==
  ASSUME IInv, IInv', NEW t \in Threads, Join(t)
  PROVE  Promised!Next \/ UNCHANGED Promised!vars
<1> DEFINE c == calls[t]
           d == calls'[t]
           m == objects[c.obj]
           pc == IF build = "free" THEN "collect" ELSE "attach"
<1>1. c # Idle /\ c.pc = "work" /\ CallOK(c) /\ UpToDate(t)
  BY AtPlace, CallFacts DEF Join
<1>2. pc \in {"collect", "attach"} /\ pc \in Places /\ GoTo(t, pc) /\ UNCHANGED <<build, objects, met, returned>>
  BY DEF Join, Places
<1>3. /\ d # Idle /\ \A u \in Threads \ {t} : calls'[u] = calls[u]
      /\ d.obj = c.obj /\ d.texts = c.texts /\ d.many = c.many
      /\ d.pc = pc /\ d.items = c.items
  <2> HIDE DEF pc
  <2> QED BY <1>1, <1>2, GoToFields
<1> HIDE DEF pc, d
<1>4. CASE \A i \in DOMAIN c.items : c.items[i] # Unanswered
  <2>1. \A i \in DOMAIN d.items : d.items[i] = Item(m.dict, c.texts[i], 0)
    BY <1>1, <1>3, <1>4 DEF UpToDate
  <2>2. c.texts # <<>>
    BY <1>1 DEF CallOK, ItemsFit
  <2>3. TookEffect(d)
    BY <1>2, <1>3, <1>4, <2>2 DEF TookEffect
  <2> QED BY <1>1, <1>2, <1>3, <2>1, <2>3, ManyTakeEffect DEF d
<1>5. CASE ~\A i \in DOMAIN c.items : c.items[i] # Unanswered
  <2>1. ~TookEffect(c) /\ ~TookEffect(d)
    BY <1>3, <1>5 DEF TookEffect
  <2>2. Answer(c) = Unanswered /\ Answer(d) = Unanswered
    BY <2>1 DEF Answer
  <2> QED BY <1>1, <1>2, <1>3, <2>2, Unseen DEF d
<1> QED BY <1>4, <1>5

LEMMA SynthesiseImplements ==
  ASSUME IInv, IInv', NEW t \in Threads, Synthesise(t)
  PROVE  Promised!Next
<1> DEFINE c == calls[t]
           d == calls'[t]
           m == objects[c.obj]
           item == Item(m.dict, c.texts[1], 0)
           items == <<item>>
<1>1. c # Idle /\ c.pc = "generate" /\ CallOK(c) /\ Stage(c) /\ IsCall(c)
  BY AtPlace, CallFacts DEF Synthesise
<1>2. CASE Fail(t)
  BY <1>1, <1>2, NoAnswer, FailImplements DEF Fail
<1>3. CASE /\ item # Error
           /\ calls' = [calls EXCEPT ![t].items = items, ![t].pc = "resolve"]
           /\ UNCHANGED <<build, objects, met, returned>>
  <2>1. DOMAIN c.texts = {1} /\ c.texts[1] \in Texts /\ c.texts # <<>>
    <3>1. Len(c.texts) = 1
      BY <1>1 DEF Stage
    <3> QED BY <1>1, <3>1, TextsType
  <2>2. item \in Outcome
    <3>1. m.dict \in Dictionaries
      BY <1>1, OpenObject
    <3> QED BY <1>3, <2>1, <3>1, ItemType
  <2>3. items \in Seq(Outcome \cup {Unanswered, Error}) /\ DOMAIN items = {1} /\ items[1] = item
    <3> HIDE DEF item
    <3> QED BY <2>2
  <2>4. item # Unanswered /\ item # Error
    BY <2>2, MarksAssumption
  <2>5. "resolve" \in Places
    BY DEF Places
  <2> HIDE DEF items, d
  <2>6. /\ d # Idle /\ \A u \in Threads \ {t} : calls'[u] = calls[u]
        /\ d.obj = c.obj /\ d.texts = c.texts /\ d.many = c.many /\ d.pc = "resolve" /\ d.items = items
    BY <1>1, <1>3, <2>3, <2>5, NewItemsFields DEF d
  <2>7. \A i \in DOMAIN d.items : d.items[i] = Item(m.dict, c.texts[i], 0)
    BY <2>3, <2>6
  <2>8. TookEffect(d)
    <3> HIDE DEF item
    <3> QED BY <2>1, <2>3, <2>4, <2>6 DEF TookEffect
  <2> QED BY <1>1, <1>3, <2>6, <2>7, <2>8, ManyTakeEffect DEF d
<1> QED BY <1>2, <1>3 DEF Synthesise

(* A lock, or having met the call that excludes this one.                  *)
LEMMA ResolveImplements ==
  ASSUME IInv, IInv', NEW t \in Threads, Resolve(t)
  PROVE  Promised!Next \/ UNCHANGED Promised!vars
<1> DEFINE c == calls[t]
<1>1. c # Idle /\ c.pc = "resolve" /\ CallOK(c) /\ Holding(t)
  BY AtPlace, CallFacts DEF Resolve
<1>2. CASE ~CanBorrow("low", c.obj, "shared") /\ Fail(t)
  <2>1. PICK b \in borrows : b.layer = "low" /\ b.obj = c.obj /\ b.kind # "shared"
    BY <1>2 DEF CanBorrow
  <2>2. b.thread # t
    BY <1>1, <2>1 DEF Holding
  <2>3. b.thread \in Threads \ {t} /\ calls[b.thread] # Idle /\ calls[b.thread].obj = c.obj
    BY <2>1, <2>2 DEF IInv, BorrowsInv, TypeOK, BorrowType
  <2>4. build = "free"
    BY <1>1, <1>2, BuildIs DEF Holding
  <2>5. t \in met
    BY <1>1, <2>3, <2>4, MetOn
  <2> QED BY <1>2, <2>5, FailImplements DEF Fail
<1>3. CASE GoTo(t, "build") /\ UNCHANGED <<build, objects, met, returned>>
  <2>1. "build" \in Places
    BY DEF Places
  <2> QED BY <1>1, <1>3, <2>1, GoToUnseen
<1> QED BY <1>2, <1>3 DEF Resolve

LEMMA BuildImplements ==
  ASSUME IInv, IInv', NEW t \in Threads, Build(t)
  PROVE  Promised!Next
<1> DEFINE c == calls[t]
           now == objects[c.obj].dict
           items == c.items
<1>1. c # Idle /\ c.pc = "build" /\ CallOK(c) /\ UpToDate(t)
  BY AtPlace, CallFacts DEF Build
<1>2. /\ c.texts # <<>> /\ \A i \in DOMAIN items : items[i] \in Outcome
      /\ Answer(c) = [i \in DOMAIN items |-> Resolved(items[i], items[i].dict)]
      /\ Answer(c) \notin {Unanswered, Error} /\ DOMAIN Answer(c) = DOMAIN items
  BY <1>1, FullAnswer, AnswerCases
<1>3. t \in met \/ \A i \in DOMAIN items : items[i].dict = now
  BY <1>1, <1>2 DEF UpToDate
<1>4. UNCHANGED objects
  BY DEF Build
<1>5. CASE (\E i \in DOMAIN items : items[i].dict # now) /\ Return(t, Error)
  BY <1>3, <1>4, <1>5, FailImplements
<1>6. CASE Return(t, [i \in DOMAIN items |-> Resolved(items[i], now)])
  <2>1. CASE \A i \in DOMAIN items : items[i].dict = now
    <3>1. Answer(c) = [i \in DOMAIN items |-> Resolved(items[i], now)]
      BY <1>2, <2>1
    <3> QED BY <1>1, <1>2, <1>4, <1>6, <3>1, GiveImplements
  <2>2. CASE t \in met
    <3> DEFINE a == Answer(c)
               lost == [i \in DOMAIN a |-> [a[i] EXCEPT !.tags = now]]
    <3>1. Asked[t] # Idle /\ Asked[t].answer = a
      BY <1>1, AskedType, AskedOfIs
    <3>2. now \in Dictionaries
      BY <1>1, OpenObject
    <3>3. \A i \in DOMAIN items : [a[i] EXCEPT !.tags = now] = Resolved(items[i], now)
      <4>1. \A i \in DOMAIN items : a[i] = Resolved(items[i], items[i].dict)
        BY <1>2
      <4>2. ASSUME NEW x, NEW y, NEW z PROVE [Resolved(x, y) EXCEPT !.tags = z] = Resolved(x, z)
        BY DEF Resolved
      <4> QED BY <4>1, <4>2
    <3>4. lost = [i \in DOMAIN items |-> Resolved(items[i], now)]
      BY <1>2, <3>3
    <3>5. Promised!Finish(t, lost)
      <4> HIDE DEF lost
      <4>1. Return(t, lost)
        BY <1>6, <3>4
      <4> QED BY <4>1, AskedEnd
    <3>6. Promised!Finish(t, [i \in DOMAIN Asked[t].answer |-> [Asked[t].answer[i] EXCEPT !.tags = now]])
      BY <3>1, <3>5
    <3>7. Promised!Lose(t)
      BY <1>2, <1>4, <2>2, <3>1, <3>2, <3>6 DEF Promised!Lose, Promised!Spoilable
    <3> QED BY <3>7 DEF Promised!Next
  <2> QED BY <1>3, <2>1, <2>2
<1> QED BY <1>5, <1>6 DEF Build

(* The answers of all the workers, and the one of the low-level object.    *)
LEMMA CollectImplements ==
  ASSUME IInv, NEW t \in Threads, Collect(t)
  PROVE  Promised!Next
<1> DEFINE c == calls[t]
           m == objects[c.obj]
           items == c.items
<1>1. c # Idle /\ c.pc = "collect" /\ CallOK(c) /\ UpToDate(t) /\ IsCall(c) /\ Stage(c)
  BY AtPlace, CallFacts DEF Collect
<1>2. UNCHANGED objects
  BY DEF Collect
<1>3. CASE Failed(t) /\ Return(t, Error)
  <2>1. Answer(c) \in {Unanswered, Error}
    BY <1>1, <1>3, AnswerCases DEF Failed
  <2> QED BY <1>2, <1>3, <2>1, FailImplements
<1>4. CASE ~Failed(t) /\ Return(t, [i \in DOMAIN items |-> Resolved(items[i], m.dict)])
  <2>1. c.texts # <<>>
    BY <1>1 DEF CallOK, ItemsFit
  <2>2. \A i \in DOMAIN items : items[i] # Unanswered
    BY <1>1, <1>4 DEF Stage, Failed
  <2>3. TookEffect(c)
    BY <1>1, <2>1, <2>2 DEF TookEffect
  <2>4. /\ Answer(c) = [i \in DOMAIN items |-> Resolved(items[i], items[i].dict)]
        /\ Answer(c) # Unanswered
    BY <1>1, <1>4, <2>3, AnswerCases DEF Failed
  <2>5. ASSUME NEW i \in DOMAIN items
        PROVE  items[i].dict = m.dict
    <3>1. items[i] = Item(m.dict, c.texts[i], 0) /\ items[i] # Error
      BY <1>1, <1>4, <2>2 DEF UpToDate, Failed
    <3>2. m.dict \in Dictionaries
      BY <1>1, OpenObject
    <3>3. c.texts[i] \in Texts
      BY <1>1, <2>1, TextsType, ItemsOfTexts
    <3> QED BY <3>1, <3>2, <3>3, ItemType
  <2>6. Answer(c) = [i \in DOMAIN items |-> Resolved(items[i], m.dict)]
    BY <2>4, <2>5
  <2> QED BY <1>1, <1>2, <1>4, <2>4, <2>6, GiveImplements
<1> QED BY <1>3, <1>4 DEF Collect

LEMMA LowReturnImplements ==
  ASSUME IInv, NEW t \in Threads, LowReturn(t)
  PROVE  Promised!Next
<1> DEFINE c == calls[t]
           items == c.items
<1>1. c # Idle /\ c.pc = "low return" /\ CallOK(c) /\ IsCall(c) /\ Stage(c)
  BY AtPlace, CallFacts DEF LowReturn
<1>2. UNCHANGED objects
  BY DEF LowReturn
<1>3. CASE Failed(t) /\ Return(t, Error)
  <2>1. Answer(c) \in {Unanswered, Error}
    BY <1>1, <1>3, AnswerCases DEF Failed
  <2> QED BY <1>2, <1>3, <2>1, FailImplements
<1>4. CASE ~Failed(t) /\ Return(t, [i \in DOMAIN items |-> Resolved(items[i], items[i].dict)])
  <2>1. c.texts # <<>>
    BY <1>1 DEF CallOK, ItemsFit
  <2>2. DOMAIN items = {1}
    <3>1. Len(c.texts) = 1
      BY <1>1, <2>1 DEF Stage, SinglePcs, IsCall
    <3>2. DOMAIN c.texts = {1}
      <4>1. DOMAIN c.texts = 1 .. Len(c.texts)
        BY <1>1, TextsType
      <4> QED BY <3>1, <4>1
    <3>3. DOMAIN items = DOMAIN c.texts
      BY <1>1, <2>1, ItemsOfTexts
    <3> QED BY <3>2, <3>3
  <2>3. TookEffect(c)
    <3>1. items[1] # Unanswered
      BY <1>1 DEF Stage
    <3> QED BY <1>1, <2>1, <2>2, <3>1 DEF TookEffect
  <2>4. /\ Answer(c) = [i \in DOMAIN items |-> Resolved(items[i], items[i].dict)]
        /\ Answer(c) # Unanswered
    BY <1>1, <1>4, <2>3, AnswerCases DEF Failed
  <2> QED BY <1>1, <1>2, <1>4, <2>4, GiveImplements
<1> QED BY <1>3, <1>4 DEF LowReturn

(* A call that asks for no analysis copies its handle, opens it or changes *)
(* it.                                                                     *)
LEMMA CopyImplements ==
  ASSUME IInv, NEW t \in Threads, Copy(t)
  PROVE  Promised!Next
<1> DEFINE c == calls[t]
<1>1. c # Idle /\ c.pc = "copy" /\ CallOK(c) /\ ItemsFit(c)
  BY AtPlace, CallFacts DEF Copy
<1>2. c.texts = <<>>
  BY <1>1 DEF ItemsFit, AskedPcs, SinglePcs, ManyPcs
<1>3. CASE Return(t, objects[c.obj]) /\ UNCHANGED objects
  <2>1. Asked[t] # Idle /\ Asked[t].texts = <<>> /\ Asked[t].obj = c.obj
    BY <1>1, <1>2, AskedType, AskedOfIs
  <2>2. Promised!Finish(t, objects[c.obj])
    BY <1>3, AskedEnd
  <2>3. Promised!Copy(t)
    BY <1>3, <2>1, <2>2 DEF Promised!Copy
  <2> QED BY <2>3 DEF Promised!Next
<1>4. CASE Fail(t)
  BY <1>1, <1>2, <1>4, NoAnswer, FailImplements DEF Fail
<1> QED BY <1>3, <1>4 DEF Copy

LEMMA WriteImplements ==
  ASSUME IInv, NEW t \in Threads, calls[t] # Idle, calls[t].texts = <<>>, NEW n \in Object,
         objects' = [objects EXCEPT ![calls[t].obj] = n], Return(t, <<>>)
  PROVE  Promised!Next
<1>1. calls[t].obj \in Objects /\ DOMAIN objects = Objects /\ objects = [o \in Objects |-> objects[o]]
  BY CallFacts DEF IInv, TypeOK
<1>2. \A o \in Objects : objects'[o] = IF o = calls[t].obj THEN n ELSE objects[o]
  BY <1>1
<1>3. objects' = [o \in Objects |-> objects'[o]]
  BY <1>1
<1>4. n \in Promised!Object
  BY DEF Object, Numberings, Promised!Object
<1>5. Asked[t] # Idle /\ Asked[t].texts = <<>>
  BY AskedType, AskedOfIs
<1>6. Promised!Finish(t, <<>>)
  BY AskedEnd
<1>7. Promised!Change(t)
  BY <1>2, <1>3, <1>4, <1>5, <1>6 DEF Promised!Change
<1> QED BY <1>7 DEF Promised!Next

LEMMA ApplyImplements ==
  ASSUME IInv, NEW t \in Threads, Apply(t)
  PROVE  Promised!Next
<1>1. /\ calls[t] # Idle /\ calls[t].texts = <<>>
      /\ \/ \E n \in Object : objects' = [objects EXCEPT ![calls[t].obj] = n] /\ Return(t, <<>>)
         \/ Fail(t)
  BY ApplyIs
<1>2. Answer(calls[t]) = Unanswered
  BY <1>1, CallFacts, NoAnswer
<1> QED BY <1>1, <1>2, WriteImplements, FailImplements DEF Fail

LEMMA LoadImplements ==
  ASSUME IInv, NEW t \in Threads, Load(t)
  PROVE  Promised!Next
<1>1. /\ calls[t] # Idle /\ calls[t].texts = <<>>
      /\ \/ \E n \in Object : objects' = [objects EXCEPT ![calls[t].obj] = n] /\ Return(t, <<>>)
         \/ Fail(t)
  BY LoadIs
<1>2. Answer(calls[t]) = Unanswered
  BY <1>1, CallFacts, NoAnswer
<1> QED BY <1>1, <1>2, WriteImplements, FailImplements DEF Fail

(* A call begins as it is asked, or is refused its borrow.                 *)
LEMMA BeginImplements ==
  ASSUME IInv, IInv', NEW t \in Threads, NEW o \in Objects, NEW layer, NEW kind, NEW call,
         Begins(t, o, layer, kind, call)
  PROVE  Promised!Next
<1>1. /\ Begin(t, o, layer, kind, call) /\ CallOK(call) /\ call.obj = o
      /\ \/ call.texts = <<>>
         \/ call.texts \in Batches \cup { <<x>> : x \in Texts } /\ call.pc \in BeforePcs
  BY DEF Begins
<1>2. calls[t] = Idle
  BY <1>1 DEF Begin
<1>3. CASE Fail(t)
  BY <1>2, <1>3, FailImplements DEF Fail
<1>4. CASE /\ calls' = [calls EXCEPT ![t] = call]
           /\ met' = met \cup IF build = "gil" \/ OthersOn(t, o) = {} THEN {}
                             ELSE OthersOn(t, o) \cup {t}
           /\ returned' = [returned EXCEPT ![t] = Unanswered]
           /\ UNCHANGED <<build, objects>>
  <2>1. calls'[t] = call /\ call # Idle /\ \A u \in Threads \ {t} : calls'[u] = calls[u]
    BY <1>1, <1>4, CallIsRecord DEF IInv, TypeOK, CallOK
  <2>2. Asked' = [Asked EXCEPT ![t] = AskedOf(call)]
    BY <2>1, AskedStep
  <2>3. Asked[t] = Idle
    BY <1>2, AskedType
  <2>4. Promised!On(o) = OthersOn(t, o)
    <3>1. \A u \in Threads : (Asked[u] # Idle /\ Asked[u].obj = o) <=> (calls[u] # Idle /\ calls[u].obj = o)
      BY AskedType, AskedOfIs
    <3> QED BY <1>2, <3>1 DEF Promised!On, OthersOn
  <2>5. Answer(call) = Unanswered
    BY <1>1, NoAnswer DEF BeforePcs
  <2>6. AskedOf(call) = [obj |-> o, texts |-> call.texts, many |-> call.many, answer |-> Unanswered]
    BY <1>1, <2>5, AskedOfIs
  <2>7. Promised!Ask(t, o, call.texts, call.many)
    BY <1>4, <2>2, <2>3, <2>4, <2>6 DEF Promised!Ask
  <2>8. call.texts \in Batches \cup { <<x>> : x \in Texts } \cup {<<>>} /\ call.many \in BOOLEAN
    BY <1>1 DEF CallOK, IsCall
  <2> QED BY <2>7, <2>8 DEF Promised!Next
<1> QED BY <1>1, <1>3, <1>4 DEF Begin

LEMMA EnterImplements ==
  ASSUME IInv, IInv', NEW t \in Threads, Enter(t)
  PROVE  Promised!Next \/ UNCHANGED Promised!vars
<1>1. CASE \E o \in Objects, layer \in {"low", "high"}, kind \in {"shared", "mut"} : \E call :
             Begins(t, o, layer, kind, call)
  BY <1>1, BeginImplements
<1>2. CASE \/ \E d \in DictPaths : AddDictionaryPath(t, d)
           \/ \E dirs \in PathChoices : SetPaths(t, dirs)
  <2>1. UNCHANGED <<build, objects, calls, met, returned>>
    BY <1>2 DEF AddDictionaryPath, SetPaths
  <2> QED BY <2>1 DEF Promised!vars, Asked
<1> QED BY <1>1, <1>2, AskingBegins, SettingBegins DEF Enter

LEMMA StepImplements ==
  ASSUME IInv, IInv', [Next]_vars
  PROVE  [Promised!Next]_(Promised!vars)
<1>1. CASE UNCHANGED vars
  BY <1>1 DEF vars, Promised!vars, Asked
<1>2. ASSUME NEW t \in Threads, Enter(t)
      PROVE  Promised!Next \/ UNCHANGED Promised!vars
  BY <1>2, EnterImplements
<1>3. ASSUME NEW t \in Threads, Continue(t)
      PROVE  Promised!Next \/ UNCHANGED Promised!vars
  <2>1. CASE ReadNumbering(t) \/ Detach(t) \/ Run(t) \/ Number(t) \/ Resolve(t) \/ Build(t)
    BY <2>1, ReadNumberingImplements, OnTheWay, RunImplements, NumberImplements, ResolveImplements,
       BuildImplements
  <2>2. CASE Share(t) \/ (\E i \in DOMAIN calls[t].texts : Work(t, i)) \/ Join(t) \/ Collect(t)
    BY <2>2, OnTheWay, WorkImplements, JoinImplements, CollectImplements
  <2>3. CASE Synthesise(t) \/ Take(t) \/ Apply(t)
    BY <2>3, SynthesiseImplements, OnTheWay, ApplyImplements
  <2>4. CASE LowReturn(t) \/ Copy(t) \/ InsertPath(t) \/ Load(t)
    BY <2>4, LowReturnImplements, CopyImplements, OnTheWay, LoadImplements
  <2> QED BY <1>3, <2>1, <2>2, <2>3, <2>4 DEF Continue
<1>4. ASSUME NEW t \in Threads, Attach(t)
      PROVE  Promised!Next \/ UNCHANGED Promised!vars
  BY <1>4, OnTheWay
<1> QED BY <1>1, <1>2, <1>3, <1>4 DEF Next

LEMMA InitImplements == Init => Promised!Init
BY DEF Init, Builds, Asked, Promised!Init, Promised!Builds

(* However the threads' calls interleave, with a global lock or without:   *)
(* each answer is the one that the handle, as it was at one moment of the  *)
(* call, gives to every text asked, with the tags of the dictionary that   *)
(* analysed it; a text that a thread gets no answer for has not moved the  *)
(* numbering of the handle.  Only calls that met on a handle where there   *)
(* is no lock may lose their answers.                                      *)
THEOREM SharesAsPromised == Spec => ImplementsSharedHandle
<1>1. IInv /\ IInv' /\ [Next]_vars => [Promised!Next]_(Promised!vars)
  BY StepImplements
<1> QED BY <1>1, InitImplements, Invariant, PTL DEF Spec, ImplementsSharedHandle, Promised!Spec
=============================================================================
