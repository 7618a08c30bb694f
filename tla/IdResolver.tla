---------------------------- MODULE IdResolver ----------------------------
(***************************************************************************)
(* The identifiers of tags, names and labels.  The resolver keeps a table  *)
(* for each: the texts by identifier, counted from 0, and the identifier   *)
(* of each text.  The two halves are changed by separate statements and    *)
(* have to keep telling the same story.                                    *)
(*                                                                         *)
(* A labels text is the sequence of its parts; "_" stands for no labels.   *)
(***************************************************************************)
EXTENDS Naturals, Sequences, SequencesExt

CONSTANTS
  Blank,       (* the empty text                                           *)
  Underscore,  (* the text "_"                                             *)
  LabelOrder   (* all label texts, in the order of their characters        *)

(* Each label has one place in the order.                                  *)
ASSUME LabelOrderAssumption == LabelOrder \in Seq(ToSet(LabelOrder)) /\ IsInjective(LabelOrder)

(* What each element of a sequence gives, one after another.               *)
Each(s, Of(_)) == FlattenSeq([i \in DOMAIN s |-> Of(s[i])])
If(condition, list) == IF condition THEN list ELSE <<>>

EmptyTable == [texts |-> <<>>, ids |-> [t \in {} |-> 0]]

(* The text of an identifier, and the identifier of a text that has one. *)
Text(table, id) == table.texts[id + 1]
HasId(table, text) == text \in DOMAIN table.ids
Id(table, text) == table.ids[text]

GetOrInsert(table, text) ==
  IF HasId(table, text)
  THEN table
  ELSE [texts |-> Append(table.texts, text),
        ids |-> [t \in DOMAIN table.ids \cup {text} |->
                   IF t = text THEN Len(table.texts) ELSE table.ids[t]]]

(* The table with room for id: the texts in between are empty. *)
Resized(table, id) ==
  [table EXCEPT !.texts = [i \in 1..(IF Len(@) > id THEN Len(@) ELSE id + 1) |->
                             IF i <= Len(@) THEN @[i] ELSE Blank]]

(* Mutant: the text that is replaced keeps its identifier. *)
Remembered(table, id) == table.ids

(* The identifiers without the one of the text that id has had. *)
Forgotten(table, id) ==
  IF Text(table, id) = Blank
  THEN table.ids
  ELSE [t \in DOMAIN table.ids \ {Text(table, id)} |-> table.ids[t]]

SetText(table, id, text) ==
  LET room == Resized(table, id)
      ids == Forgotten(room, id)
  IN [texts |-> [room.texts EXCEPT ![id + 1] = text],
      ids |-> [t \in DOMAIN ids \cup {text} |-> IF t = text THEN id ELSE ids[t]]]

Normalized(text) == IF text = Blank THEN Underscore ELSE text

InOrder(labels) == Each(LabelOrder, LAMBDA l : If(l \in labels, <<l>>))
LabelSet(labels) == IF labels = <<Underscore>> THEN {} ELSE ToSet(labels)
(* What a field of labels is stored as: its parts, each once and in order. *)
Canonical(parts) ==
  LET canonical == InOrder(ToSet(parts) \ {Blank})
  IN IF canonical = <<>> THEN <<Underscore>> ELSE canonical

Default(ign, sp) ==
  [tags |-> SetText(SetText(EmptyTable, 0, ign), 1, sp),
   names |-> GetOrInsert(EmptyTable, Underscore),
   labels |-> GetOrInsert(EmptyTable, <<Underscore>>)]

(* A text that has an identifier is the text of this identifier. *)
Sound(table) ==
  \A t \in DOMAIN table.ids : table.ids[t] + 1 \in DOMAIN table.texts /\ Text(table, table.ids[t]) = t
=============================================================================
