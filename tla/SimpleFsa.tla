------------------------------ MODULE SimpleFsa ------------------------------
(***************************************************************************)
(* The dictionary builder's automaton: SortedSimpleFsaBuilder turns sorted *)
(* entries into a minimal automaton while it reads them, the automaton is  *)
(* laid out and written, and the analyzer's SimpleFsa reads what was       *)
(* written.  DictionaryBuilder says where the entries come from.           *)
(*                                                                         *)
(* The states of the previous word are still its own; those behind them    *)
(* are in the register, shared and never changed again.  replace_or_register *)
(* goes down the part of the previous word that the next one leaves        *)
(* (Descend) and registers its states on the way back (Register).  A       *)
(* state's transitions are a function of the label: they are added in the  *)
(* order of the labels, since words come sorted.                           *)
(***************************************************************************)
EXTENDS Integers, Sequences, FiniteSets, FiniteSetsExt, SequencesExt

CONSTANTS
  Labels,           (* bytes                                               *)
  Words,            (* the words that entries may have                     *)
  Data,             (* payloads of words added one by one                  *)
  NoData,           (* a state that does not accept has this               *)
  DataSize(_),      (* the bytes they take                                 *)
  TransitionsLimit, (* of one state: 127                                   *)
  OffsetLimit,      (* what three bytes hold: 256 * 256 * 256              *)
  MaxEntries        (* bound of the model: entries of one dictionary       *)

ASSUME SimpleFsaAssumption ==
  /\ Labels \subseteq Nat
  /\ Words \subseteq Seq(Labels)
  /\ NoData \notin Data
  /\ \A d \in Data : DataSize(d) \in Nat \ {0}
  /\ TransitionsLimit \in Nat /\ OffsetLimit \in Nat \ {0} /\ MaxEntries \in Nat

NoState == 0

VARIABLES
  states, register, initial,  (* SortedSimpleFsaBuilder                    *)
  previous,                   (* previous_word, <<>> for none              *)
  entries,                    (* the entries added                         *)
  word, data, at, prefix_len, (* add_entry; at = NoState in close          *)
  stack,                      (* activations of replace_or_register, then  *)
                              (* of simple_graph_dfs_visit                 *)
  order, image,               (* dfs_order; what is written                *)
  pc

builder == <<states, register, initial>>
adding  == <<word, data, at, prefix_len>>
fsa     == <<builder, previous, entries, adding, stack, order, image, pc>>

-----------------------------------------------------------------------------
NewState == [data |-> NoData, transitions |-> <<>>]

FsaInit ==
  /\ states = <<NewState>> /\ register = <<>> /\ initial = 1
  /\ previous = <<>> /\ entries = <<>>
  /\ word = <<>> /\ data = NoData /\ at = NoState /\ prefix_len = 0
  /\ stack = <<>> /\ order = <<>> /\ image = <<>>

Transitions(q) == states[q].transitions

SetTransition(table, q, label, target) ==
  [table EXCEPT ![q].transitions =
     [l \in DOMAIN @ \cup {label} |-> IF l = label THEN target ELSE @[l]]]

(* The order of byte strings.                                              *)
Less(u, v) ==
  \E k \in 1 .. Len(v) :
    /\ k - 1 <= Len(u) /\ \A i \in 1 .. k - 1 : u[i] = v[i]
    /\ k <= Len(u) => u[k] < v[k]

-----------------------------------------------------------------------------
(* Adding an entry                                                         *)

Valid(w) == w # <<>> /\ (previous # <<>> => Less(previous, w))

AddEntry(w, d) ==
  /\ pc = "ready" /\ Cardinality(DOMAIN entries) < MaxEntries /\ Valid(w)
  /\ word' = w /\ data' = d /\ at' = initial /\ prefix_len' = 0
  /\ pc' = "walk"
  /\ UNCHANGED <<builder, previous, entries, stack, order, image>>

Refuse(w) ==
  /\ pc = "ready" /\ Cardinality(DOMAIN entries) < MaxEntries /\ ~Valid(w)
  /\ pc' = "failed"
  /\ UNCHANGED <<builder, previous, entries, adding, stack, order, image>>

Known == prefix_len < Len(word) /\ word[prefix_len + 1] \in DOMAIN Transitions(at)

Follow ==
  /\ pc = "walk" /\ Known
  /\ at' = Transitions(at)[word[prefix_len + 1]]
  /\ prefix_len' = prefix_len + 1
  /\ UNCHANGED <<builder, previous, entries, word, data, stack, order, image, pc>>

(* What the previous word has behind the common prefix is minimised first. *)
Diverge ==
  /\ pc = "walk" /\ ~Known
  /\ IF prefix_len < Len(previous)
     THEN /\ previous[prefix_len + 1] \in DOMAIN Transitions(at)
          /\ stack' = <<Transitions(at)[previous[prefix_len + 1]]>>
          /\ pc' = "descend"
     ELSE stack' = stack /\ pc' = "extend"
  /\ UNCHANGED <<builder, previous, entries, adding, order, image>>

Extend ==
  /\ pc = "extend" /\ prefix_len < Len(word)
  /\ states' = Append(SetTransition(states, at, word[prefix_len + 1], Len(states) + 1), NewState)
  /\ at' = Len(states) + 1
  /\ prefix_len' = prefix_len + 1
  /\ UNCHANGED <<register, initial, previous, entries, word, data, stack, order, image, pc>>

Store ==
  /\ pc = "extend" /\ prefix_len = Len(word) /\ states[at].data = NoData
  /\ states' = [states EXCEPT ![at].data = data]
  /\ entries' = [w \in DOMAIN entries \cup {word} |-> IF w = word THEN data ELSE entries[w]]
  /\ previous' = word
  /\ pc' = "ready"
  /\ UNCHANGED <<register, initial, adding, stack, order, image>>

Close ==
  /\ pc = "ready"
  /\ IF entries = <<>>
     THEN pc' = "failed" /\ stack' = stack
     ELSE pc' = "descend" /\ stack' = <<initial>>
  /\ at' = NoState
  /\ UNCHANGED <<builder, previous, entries, word, data, prefix_len, order, image>>

-----------------------------------------------------------------------------
(* replace_or_register: activation i stands before a label of the previous *)
(* word and has come over the one before.                                  *)

Top       == stack[Len(stack)]
Passed(i) == (IF at = NoState THEN 0 ELSE prefix_len + 1) + i - 1

Descend ==
  /\ pc = "descend"
  /\ IF Passed(Len(stack)) = Len(previous)
     THEN pc' = "register" /\ stack' = stack
     ELSE LET label == previous[Passed(Len(stack)) + 1] IN
          /\ label \in DOMAIN Transitions(Top)
          /\ stack' = Append(stack, Transitions(Top)[label])
          /\ pc' = pc
  /\ UNCHANGED <<builder, previous, entries, adding, order, image>>

(* Mutant: the register does not tell data apart. *)
KeyOfTransitions(q) == [data |-> NoData, transitions |-> states[q].transitions]

Key(q) == states[q]

(* Mutant: a state is registered without looking for an equal one. *)
ReplacementByItself == Top

Replacement == IF Key(Top) \in DOMAIN register THEN register[Key(Top)] ELSE Top

(* The state that the top activation's result is attached to.              *)
Parent == IF Len(stack) > 1 THEN stack[Len(stack) - 1] ELSE at

Register ==
  /\ pc = "register"
  /\ register' = [k \in DOMAIN register \cup {Key(Top)} |->
                    IF k = Key(Top) THEN Replacement ELSE register[k]]
  /\ IF Parent = NoState
     THEN /\ initial' = Replacement /\ states' = states
          /\ stack' = <<Replacement>> /\ pc' = "order"
     ELSE /\ states' = SetTransition(states, Parent, previous[Passed(Len(stack))], Replacement)
          /\ initial' = initial
          /\ stack' = SubSeq(stack, 1, Len(stack) - 1)
          /\ pc' = IF Len(stack) > 1 THEN "register" ELSE "extend"
  /\ UNCHANGED <<previous, entries, adding, order, image>>

-----------------------------------------------------------------------------
(* Layout: the targets of a state's transitions are written behind it.     *)

Unvisited == { l \in DOMAIN Transitions(Top) :
                 Transitions(Top)[l] \notin Range(stack) \cup Range(order) }

Visit ==
  /\ pc = "order" /\ Unvisited # {}
  /\ \E l \in Unvisited :
       /\ \A k \in Unvisited : l <= k
       /\ stack' = Append(stack, Transitions(Top)[l])
  /\ UNCHANGED <<builder, previous, entries, adding, order, image, pc>>

Leave ==
  /\ pc = "order" /\ Unvisited = {}
  /\ order' = Append(order, Top)
  /\ stack' = SubSeq(stack, 1, Len(stack) - 1)
  /\ pc' = IF Len(stack) = 1 THEN "write" ELSE "order"
  /\ UNCHANGED <<builder, previous, entries, adding, image>>

Accepting(q) == states[q].data # NoData
ValueSize(q) == IF Accepting(q) THEN DataSize(states[q].data) ELSE 0
Size(q)      == 1 + ValueSize(q) + 4 * Cardinality(DOMAIN Transitions(q))

(* How much is laid out up to each place, from the end of what is written. *)
ReverseOffsets ==
  LET laid[i \in 0 .. Len(order)] == IF i = 0 THEN 0 ELSE laid[i - 1] + Size(order[i])
  IN  laid

(* Mutant: a state's place is noted before its size is added. *)
OffsetOfEnd(q) ==
  LET place == CHOOSE i \in DOMAIN order : order[i] = q IN
  ReverseOffsets[Len(order)] - ReverseOffsets[place - 1]

Offset(q) ==
  LET place == CHOOSE i \in DOMAIN order : order[i] = q IN
  ReverseOffsets[Len(order)] - ReverseOffsets[place]

Frequency(l) ==
  Cardinality(UNION { {w} \X { i \in DOMAIN w : w[i] = l } : w \in DOMAIN entries })

(* The more frequent labels come first (sorted_simple_transitions).        *)
ComesBefore(k, l) == Frequency(k) > Frequency(l) \/ (Frequency(k) = Frequency(l) /\ k < l)

Sorted(q) ==
  LET labels == DOMAIN Transitions(q) IN
  [i \in 1 .. Cardinality(labels) |->
     CHOOSE l \in labels : Cardinality({ k \in labels : ComesBefore(k, l) }) = i - 1]

Fits(q) ==
  /\ Cardinality(DOMAIN Transitions(q)) <= TransitionsLimit
  /\ Accepting(q) \/ DOMAIN Transitions(q) # {}
  /\ \A l \in DOMAIN Transitions(q) : Offset(Transitions(q)[l]) < OffsetLimit

(* A byte, by the field of a state's record that it is of.                 *)
Byte(field, value) == [field |-> field, value |-> value]
More(n)            == [i \in 1 .. n |-> Byte("more", "")]

(* serialize_simple_state: a header, the value, the transitions.           *)
Bytes(q) ==
  LET labels == Sorted(q) IN
  <<Byte("header", [accepting |-> Accepting(q), transitions_num |-> Len(labels)])>>
    \o (IF Accepting(q) THEN <<Byte("value", states[q].data)>> \o More(ValueSize(q) - 1) ELSE <<>>)
    \o FlattenSeq([i \in DOMAIN labels |->
          <<Byte("label", labels[i]), Byte("target", Offset(Transitions(q)[labels[i]]) % OffsetLimit)>> \o More(2)])

Write ==
  /\ pc = "write"
  /\ IF \A q \in Range(order) : Fits(q)
     THEN /\ image' = FlattenSeq([i \in DOMAIN order |-> Bytes(Reverse(order)[i])])
          /\ pc' = "done"
     ELSE image' = image /\ pc' = "failed"
  /\ UNCHANGED <<builder, previous, entries, adding, stack, order>>

(* What follows once an entry is taken or the builder closed.              *)
FsaSteps ==
  \/ Follow \/ Diverge \/ Extend \/ Store
  \/ Descend \/ Register \/ Visit \/ Leave \/ Write

(* Before the first entry is given, or entries are refused, nothing is     *)
(* done to the automaton.                                                  *)
Prepare ==
  /\ pc \in {"rules", "convert"} /\ pc' \in {"convert", "ready", "failed"}
  /\ UNCHANGED <<builder, previous, entries, adding, stack, order, image>>

(* A builder that may be given any words, with any payloads.               *)
TakesBytes(d) == d # NoData /\ DataSize(d) \in Nat \ {0}

FsaNext ==
  \/ Prepare
  \/ \E w \in Seq(Labels) : Refuse(w) \/ \E d : TakesBytes(d) /\ AddEntry(w, d)
  \/ Close
  \/ FsaSteps

FsaSpec == FsaInit /\ pc \in {"rules", "ready"} /\ [][FsaNext]_fsa

-----------------------------------------------------------------------------
(* The analyzer's reader                                                   *)

At(offset, field) == offset + 1 \in DOMAIN image /\ image[offset + 1].field = field
Value(offset)     == image[offset + 1].value

(* read_simple_state_header: where a state's transitions start.            *)
TransitionsAt(offset) ==
  offset + 1 + IF Value(offset).accepting THEN DataSize(Value(offset + 1)) ELSE 0

(* Where a label leads to from the state at an offset, if anywhere.        *)
Proceed(offset, label) ==
  { Value(TransitionsAt(offset) + 4 * i + 1) : i \in
      { k \in 0 .. Value(offset).transitions_num - 1 :
          LET place == TransitionsAt(offset) + 4 * k IN
          At(place, "label") /\ Value(place) = label /\ At(place + 1, "target") } }

Readable(offset) ==
  At(offset, "header") /\ (Value(offset).accepting => At(offset + 1, "value"))

(* try_recognize: the initial state counts as not accepting.               *)
Recognized(w) ==
  LET reach[k \in 0 .. Len(w)] ==
        IF k = 0 THEN {0}
        ELSE UNION { Proceed(o, w[k]) : o \in { o \in reach[k - 1] : Readable(o) } }
  IN  { Value(o + 1) : o \in
          { o \in reach[Len(w)] : w # <<>> /\ Readable(o) /\ Value(o).accepting } }

-----------------------------------------------------------------------------
(* Properties                                                              *)

(* What a word leads to from a state of the automaton: a set of one value  *)
(* or of none.                                                             *)
Values(q, w) ==
  LET reach[k \in 0 .. Len(w)] ==
        IF k = 0 THEN {q}
        ELSE { Transitions(p)[w[k]] : p \in { p \in reach[k - 1] : w[k] \in DOMAIN Transitions(p) } }
  IN  { states[p].data : p \in reach[Len(w)] } \ {NoData}

Entered(w) == IF w \in DOMAIN entries THEN {entries[w]} ELSE {}

(* At every moment, between any two steps of add_entry and of the          *)
(* minimisation, the automaton recognises the entries added, with their    *)
(* data, and no other word: a state replaced by a registered one loses and *)
(* gains nothing.                                                          *)
Recognises == \A w \in Words : Values(initial, w) = Entered(w)

Endings == UNION { { SubSeq(w, i, Len(w)) : i \in 1 .. Len(w) + 1 } : w \in DOMAIN entries }

(* The automaton that is laid out is minimal: no two of its states have    *)
(* the same words before them, and none has no word.                       *)
Minimal ==
  pc \in {"write", "done"} =>
    \A i, j \in DOMAIN order :
      /\ i # j => \E w \in Endings : Values(order[i], w) # Values(order[j], w)
      /\ \E w \in Endings : Values(order[i], w) # {}

(* What is written recognises the entries: the layout puts the initial     *)
(* state first and every target where its transitions say.                 *)
ReadsBack == pc = "done" => \A w \in Words : Recognized(w) = Entered(w)
=============================================================================
