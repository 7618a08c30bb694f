---------------------------- MODULE SharedHandle ----------------------------
(***************************************************************************)
(* What Python threads that share Morfeusz handles are promised.           *)
(*                                                                         *)
(* A call takes effect at once: an analysis reads a handle as it is at     *)
(* one moment between the call and its return, every text it was given by  *)
(* the same dictionary, and its tags are the tags of that dictionary.      *)
(* Numbered continuously, an analysis leaves the handle where its answer   *)
(* ends, and one that is refused leaves it as it was.                      *)
(*                                                                         *)
(* An interpreter without a global lock promises less to calls that meet   *)
(* on a handle: the answer of such a call may be lost after it has taken   *)
(* effect.                                                                 *)
(***************************************************************************)
EXTENDS Naturals, Sequences

CONSTANTS
  Threads, Objects, Dictionaries, Texts,
  Batches,      (* what may be asked at once: sequences of texts           *)
  Size(_, _),   (* the nodes that a dictionary's reading of a text takes;  *)
                (* 0 when the analysis fails                               *)
  Closed, Idle, Unanswered, Error

Builds == {"gil", "free"}
Object == [dict : Dictionaries, numbering : {"separate", "continuous"}, next : Nat]

VARIABLES
  build,     (* the interpreter: with a global lock, or free-threaded      *)
  objects,   (* the handles                                                *)
  asked,     (* the call that each thread has under way, with its answer   *)
             (* once it has taken effect                                   *)
  met,       (* where there is no lock, the threads whose call met another *)
             (* on its handle                                              *)
  returned   (* what each thread's last call returned, until its next      *)

vars == <<build, objects, asked, met, returned>>

(* A text's readings by a dictionary, numbered on from a node.             *)
Reading(d, text, start) ==
  IF Size(d, text) = 0 THEN Error ELSE [dict |-> d, tags |-> d, text |-> text, start |-> start]

StartOf(m) == IF m.numbering = "continuous" THEN m.next ELSE 0

AnswerOf(m, call) ==
  LET start == IF call.many THEN 0 ELSE StartOf(m)
      readings == [i \in DOMAIN call.texts |-> Reading(m.dict, call.texts[i], start)]
  IN  IF \E i \in DOMAIN readings : readings[i] = Error THEN Error ELSE readings

After(m, call) ==
  IF call.many \/ m.numbering = "separate" \/ call.texts = <<>> THEN m
  ELSE [m EXCEPT !.next = @ + Size(m.dict, call.texts[1])]

Init ==
  /\ build \in Builds
  /\ objects = [o \in Objects |-> Closed]
  /\ asked = [t \in Threads |-> Idle]
  /\ met = {}
  /\ returned = [t \in Threads |-> Error]

On(o) == { t \in Threads : asked[t] # Idle /\ asked[t].obj = o }

Ask(t, o, texts, many) ==
  /\ asked[t] = Idle
  /\ asked' = [asked EXCEPT ![t] = [ obj |-> o, texts |-> texts, many |-> many,
                                     answer |-> Unanswered ]]
  /\ met' = met \cup (IF build = "gil" \/ On(o) = {} THEN {} ELSE On(o) \cup {t})
  /\ returned' = [returned EXCEPT ![t] = Unanswered]
  /\ UNCHANGED <<build, objects>>

Finish(t, value) ==
  /\ asked' = [asked EXCEPT ![t] = Idle]
  /\ returned' = [returned EXCEPT ![t] = value]
  /\ met' = met \ {t}
  /\ UNCHANGED build

Analyse(t) ==
  /\ asked[t] # Idle /\ asked[t].answer = Unanswered /\ asked[t].texts # <<>>
  /\ objects[asked[t].obj] # Closed
  /\ asked' = [asked EXCEPT ![t].answer = AnswerOf(objects[asked[t].obj], asked[t])]
  /\ objects' = [objects EXCEPT ![asked[t].obj] = After(@, asked[t])]
  /\ UNCHANGED <<build, met, returned>>

Give(t) ==
  /\ asked[t] # Idle /\ asked[t].answer # Unanswered
  /\ Finish(t, asked[t].answer)
  /\ UNCHANGED objects

Refuse(t) ==
  /\ asked[t] = Idle \/ asked[t].answer = Unanswered
  /\ Finish(t, Error)
  /\ UNCHANGED objects

(* Only in a free-threaded interpreter, and only to calls that met: an     *)
(* answer is lost or its tags are another dictionary's; or an analysis     *)
(* numbers as the handle did before a change.                              *)
Spoilable(t) == t \in met /\ asked[t] # Idle

Lose(t) ==
  /\ Spoilable(t) /\ asked[t].answer \notin {Unanswered, Error}
  /\ \/ Finish(t, Error)
     \/ \E d \in Dictionaries :
          Finish(t, [i \in DOMAIN asked[t].answer |-> [asked[t].answer[i] EXCEPT !.tags = d]])
  /\ UNCHANGED objects

AnalyseStale(t) ==
  /\ Spoilable(t) /\ asked[t].answer = Unanswered /\ asked[t].texts # <<>>
  /\ asked' = [asked EXCEPT ![t].answer = AnswerOf(objects[asked[t].obj], [asked[t] EXCEPT !.many = TRUE])]
  /\ UNCHANGED <<build, objects, met, returned>>

(* A call that analyses nothing opens or changes a handle, or copies it.   *)
Copy(t) ==
  /\ asked[t] # Idle /\ asked[t].texts = <<>>
  /\ Finish(t, objects[asked[t].obj])
  /\ UNCHANGED objects

Change(t) ==
  /\ asked[t] # Idle /\ asked[t].texts = <<>>
  /\ \A o \in Objects : objects'[o] = objects[o] \/ objects'[o] \in Object
  /\ \A o, p \in Objects : objects'[o] = objects[o] \/ objects'[p] = objects[p] \/ o = p
  /\ objects' = [o \in Objects |-> objects'[o]]
  /\ Finish(t, <<>>)

Next ==
  \E t \in Threads :
    \/ \E o \in Objects, texts \in Batches \cup {<<>>}, many \in BOOLEAN : Ask(t, o, texts, many)
    \/ Analyse(t) \/ Give(t) \/ Refuse(t) \/ Lose(t) \/ AnalyseStale(t)
    \/ Copy(t) \/ Change(t)

Spec == Init /\ [][Next]_vars
=============================================================================
