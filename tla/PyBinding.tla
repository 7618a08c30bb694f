------------------------------ MODULE PyBinding ------------------------------
(***************************************************************************)
(* The Python binding: threads that share Morfeusz objects.                *)
(*                                                                         *)
(* A Morfeusz object of Python holds a low-level object, and that the      *)
(* analyser.  A method borrows each of the two, shared or mutably, for as  *)
(* long as it uses it; a borrow that another excludes is not waited for    *)
(* but ends the call with an error.  analyse lets other threads run while  *)
(* it analyses, and borrows the low-level object anew to resolve the tags  *)
(* of its answer.                                                          *)
(*                                                                         *)
(* With a global interpreter lock one thread is attached at a time, and    *)
(* detaches only to analyse; in a free-threaded interpreter every thread   *)
(* stays attached, and any two steps may interleave.                       *)
(***************************************************************************)
EXTENDS Naturals, Sequences, FiniteSets, SequencesExt

CONSTANTS
  Threads, Objects, Dictionaries, Texts, Batches,
  Size(_, _),   (* the nodes of a dictionary's reading of a text, 0 when   *)
                (* its analysis fails                                      *)
  Directories,  (* directories that dictionaries may be in                 *)
  Names,        (* dictionary names                                        *)
  Holds(_, _),  (* the dictionary of a name in a directory, or NoDictionary*)
  PathChoices,  (* lists of directories that callers set                   *)
  DictPaths,    (* directories that callers add                            *)
  Changes,      (* what callers change in a handle                         *)
  Chosen,       (* numberings that callers open a handle with              *)
  NodeLimit,    (* bound: a handle numbered beyond it analyses no more     *)
  Closed, Idle, Unanswered, Error, NoDictionary

Builds     == {"gil", "free"}
Numberings == {"separate", "continuous"}
Object == [dict : Dictionaries, numbering : Numberings, next : Nat]

(* What a setter sets; "case" is any other option, "bad" a value that the  *)
(* conversion from an integer refuses.                                     *)
Change == [what : {"dictionary"}, to : Names]
          \cup [what : {"numbering"}, to : Numberings \cup {"bad"}]
          \cup [what : {"case"}, to : {"valid", "bad"}]

(* What an analysis says of a text, before and after its tags are resolved.*)
Outcome    == [dict : Dictionaries, text : Texts, start : Nat]
Resolution == [dict : Dictionaries, tags : Dictionaries, text : Texts, start : Nat]

(* A call of a thread: the items it has for the texts it was given, or     *)
(* what it is to set, or to open.                                          *)
Places  == {"numbering", "detach", "run", "number", "attach", "low return", "resolve", "build",
            "share", "work", "collect", "generate", "take", "apply", "copy", "path", "load"}
Opening == [name : Names, dir : DictPaths, numbering : Chosen]
CallRecord ==
  [ obj : Objects, pc : Places, texts : Seq(Texts), many : BOOLEAN, low : BOOLEAN, continuous : BOOLEAN,
    items : Seq(Outcome \cup {Unanswered, Error}) \cup Change \cup Opening ]
AskedRecord ==
  [ obj : Objects, texts : Seq(Texts), many : BOOLEAN, answer : Seq(Resolution) \cup {Unanswered, Error} ]

(* The marks are none of the values that they stand in for.                *)
ASSUME MarksAssumption ==
  /\ Idle \notin CallRecord \cup AskedRecord
  /\ Unanswered # Error
  /\ {Unanswered, Error} \cap (Outcome \cup Resolution \cup Seq(Resolution)) = {}

ASSUME PyBindingAssumption ==
  /\ Batches \subseteq Seq(Texts) \ {<<>>}
  /\ \A d \in Dictionaries, x \in Texts : Size(d, x) \in Nat
  /\ \A d \in Directories, n \in Names : Holds(d, n) \in Dictionaries \cup {NoDictionary}
  /\ NoDictionary \notin Dictionaries
  /\ Closed \notin Object
  /\ PathChoices \subseteq Seq(Directories) /\ DictPaths \subseteq Directories
  /\ Changes \subseteq Change /\ Chosen \subseteq Numberings \cup {"bad"}

VARIABLES
  build,    (* the interpreter the module is built for                     *)
  paths,    (* the dictionary search path of the process                   *)
  objects,  (* the analysers of the low-level objects                      *)
  borrows,  (* the borrows of objects that calls hold                      *)
  attached, (* the threads attached to the interpreter                     *)
  calls,    (* the call that each thread is in                             *)
  returned, (* what its last call returned, until its next                 *)
  met       (* history: the threads whose call met another on its object,  *)
            (* where no lock keeps them apart                              *)

vars == <<build, paths, objects, borrows, attached, calls, returned, met>>

Init ==
  /\ build \in Builds
  /\ paths \in PathChoices
  /\ objects = [o \in Objects |-> Closed]
  /\ borrows = {}
  /\ attached = {}
  /\ calls = [t \in Threads |-> Idle]
  /\ returned = [t \in Threads |-> Error]
  /\ met = {}

-----------------------------------------------------------------------------
(* Borrows, the interpreter, and the ways in which a call goes on          *)

Borrow(layer, o, t, kind) == [layer |-> layer, obj |-> o, thread |-> t, kind |-> kind]

CanBorrow(layer, o, kind) ==
  \A b \in borrows : b.layer = layer /\ b.obj = o => b.kind = "shared" /\ kind = "shared"

CanAttach == build = "free" \/ attached = {}

OthersOn(t, o) == { u \in Threads \ {t} : calls[u] # Idle /\ calls[u].obj = o }

GoTo(t, pc) == calls' = [calls EXCEPT ![t].pc = pc]

(* The call ends: what it borrowed is given back, and the thread is free   *)
(* to let others run.                                                      *)
Return(t, value) ==
  /\ calls' = [calls EXCEPT ![t] = Idle]
  /\ returned' = [returned EXCEPT ![t] = value]
  /\ borrows' = { b \in borrows : b.thread # t }
  /\ attached' = attached \ {t}
  /\ met' = met \ {t}
  /\ UNCHANGED build

Fail(t) == Return(t, Error) /\ UNCHANGED <<paths, objects>>

At(t, pc) == calls[t] # Idle /\ calls[t].pc = pc

(* A method is called on an object, which the binding borrows first.       *)
Begin(t, o, layer, kind, call) ==
  /\ calls[t] = Idle /\ CanAttach
  /\ \/ /\ CanBorrow(layer, o, kind)
        /\ borrows' = borrows \cup {Borrow(layer, o, t, kind)}
        /\ attached' = attached \cup {t}
        /\ calls' = [calls EXCEPT ![t] = call]
        /\ met' = met \cup IF build = "gil" \/ OthersOn(t, o) = {} THEN {}
                          ELSE OthersOn(t, o) \cup {t}
        /\ returned' = [returned EXCEPT ![t] = Unanswered]
        /\ UNCHANGED <<build, paths, objects>>
     \/ /\ ~CanBorrow(layer, o, kind)
        /\ Fail(t)

Call(o, pc, texts) ==
  [ obj |-> o, pc |-> pc, texts |-> texts, many |-> FALSE, low |-> FALSE, continuous |-> FALSE,
    items |-> [i \in DOMAIN texts |-> Unanswered] ]

IsOpen(o) == objects[o] # Closed
InBounds(o) == IsOpen(o) /\ objects[o].next <= NodeLimit

-----------------------------------------------------------------------------
(* Analysis                                                                *)

(* The analyser's answer, and the tag ids that its dictionary gave it.     *)
Item(d, text, start) ==
  IF Size(d, text) = 0 THEN Error ELSE [dict |-> d, text |-> text, start |-> start]

Resolved(item, d) == [dict |-> item.dict, tags |-> d, text |-> item.text, start |-> item.start]

Analyse(t, o, text) ==
  InBounds(o) /\ Begin(t, o, "high", "shared", Call(o, "numbering", <<text>>))

(* analyse_one looks at the numbering first.                               *)
ReadNumbering(t) ==
  /\ At(t, "numbering")
  /\ LET o == calls[t].obj
     IN  \/ /\ CanBorrow("low", o, "shared")
            /\ calls' = [calls EXCEPT ![t].pc = "detach",
                                      ![t].continuous = objects[o].numbering = "continuous"]
            /\ UNCHANGED <<build, paths, objects, borrows, attached, returned, met>>
         \/ ~CanBorrow("low", o, "shared") /\ Fail(t)

(* Mutant: the session is shared by the threads that analyse by it.        *)
AlwaysShared(continuous) == "shared"

KindFor(continuous) == IF continuous THEN "mut" ELSE "shared"

(* Then it borrows the low-level object for the analysis and detaches.     *)
Detach(t) ==
  /\ At(t, "detach")
  /\ LET o    == calls[t].obj
         kind == KindFor(calls[t].continuous)
     IN  \/ /\ CanBorrow("low", o, kind)
            /\ borrows' = borrows \cup {Borrow("low", o, t, kind)}
            /\ attached' = attached \ {t}
            /\ GoTo(t, "run")
            /\ UNCHANGED <<build, paths, objects, returned, met>>
         \/ ~CanBorrow("low", o, kind) /\ Fail(t)

(* The analyser: by its session when the numbering was continuous, else    *)
(* from node 0.  The session moves its next node once it has the answer.   *)
Continuous(t) == calls[t].continuous /\ objects[calls[t].obj].numbering = "continuous"

Analysed(t) ==
  LET m == objects[calls[t].obj]
  IN  Item(m.dict, calls[t].texts[1], IF Continuous(t) THEN m.next ELSE 0)

Run(t) ==
  /\ At(t, "run")
  /\ calls' = [calls EXCEPT ![t].items = <<Analysed(t)>>, ![t].pc = "number"]
  /\ UNCHANGED <<build, paths, objects, borrows, attached, returned, met>>

Number(t) ==
  /\ At(t, "number")
  /\ LET o == calls[t].obj
     IN  objects' = IF Continuous(t)
                    THEN [objects EXCEPT ![o].next = @ + Size(objects[o].dict, calls[t].texts[1])]
                    ELSE objects
  /\ GoTo(t, IF calls[t].low THEN "low return" ELSE "attach")
  /\ UNCHANGED <<build, paths, borrows, attached, returned, met>>

Failed(t) == \E i \in DOMAIN calls[t].items : calls[t].items[i] = Error

(* Back in the interpreter the borrow ends; a failure is raised.           *)
Attach(t) ==
  /\ At(t, "attach") /\ CanAttach
  /\ \/ Failed(t) /\ Fail(t)
     \/ /\ ~Failed(t)
        /\ borrows' = { b \in borrows : ~(b.thread = t /\ b.layer = "low") }
        /\ attached' = attached \cup {t}
        /\ GoTo(t, "resolve")
        /\ UNCHANGED <<build, paths, objects, returned, met>>

Resolve(t) ==
  /\ At(t, "resolve")
  /\ LET o == calls[t].obj
     IN  \/ /\ CanBorrow("low", o, "shared")
            /\ borrows' = borrows \cup {Borrow("low", o, t, "shared")}
            /\ GoTo(t, "build")
            /\ UNCHANGED <<build, paths, objects, attached, returned, met>>
         \/ ~CanBorrow("low", o, "shared") /\ Fail(t)

(* The tags are looked up in the dictionary of now; another one may have   *)
(* none for an id.                                                         *)
Build(t) ==
  /\ At(t, "build")
  /\ LET now   == objects[calls[t].obj].dict
         items == calls[t].items
     IN  \/ Return(t, [i \in DOMAIN items |-> Resolved(items[i], now)])
         \/ /\ \E i \in DOMAIN items : items[i].dict # now
            /\ Return(t, Error)
  /\ UNCHANGED <<paths, objects>>

-----------------------------------------------------------------------------
(* analyse_many                                                            *)

AnalyseMany(t, o, texts) ==
  /\ IsOpen(o)
  /\ Begin(t, o, "high", "shared", [Call(o, "share", texts) EXCEPT !.many = TRUE])

(* Mutant: the calling thread waits for its workers attached.              *)
StaysAttached(t) == attached

Detached(t) == attached \ {t}

Share(t) ==
  /\ At(t, "share")
  /\ LET o == calls[t].obj
     IN  \/ /\ CanBorrow("low", o, "shared")
            /\ borrows' = borrows \cup {Borrow("low", o, t, "shared")}
            /\ attached' = Detached(t)
            /\ GoTo(t, "work")
            /\ UNCHANGED <<build, paths, objects, returned, met>>
         \/ ~CanBorrow("low", o, "shared") /\ Fail(t)

(* In a free-threaded interpreter a worker attaches to build what it       *)
(* returns, and so may have to stop the world: it then waits for every     *)
(* attached thread, and one that waits for workers does not stop.          *)
WorldStops == build = "free" => \A u \in attached : ~At(u, "work")

(* A worker, with a fork of the analyser, takes any of the texts.          *)
Work(t, i) ==
  /\ At(t, "work")
  /\ i \in DOMAIN calls[t].items /\ calls[t].items[i] = Unanswered
  /\ WorldStops
  /\ calls' = [calls EXCEPT ![t].items[i] =
                 Item(objects[calls[t].obj].dict, calls[t].texts[i], 0)]
  /\ UNCHANGED <<build, paths, objects, borrows, attached, returned, met>>

(* The workers have done all the texts, or failed one and left the rest.   *)
Join(t) ==
  /\ At(t, "work")
  /\ Failed(t) \/ \A i \in DOMAIN calls[t].items : calls[t].items[i] # Unanswered
  /\ GoTo(t, IF build = "free" THEN "collect" ELSE "attach")
  /\ UNCHANGED <<build, paths, objects, borrows, attached, returned, met>>

(* The free-threaded build has kept its borrow, and its workers have       *)
(* resolved the tags.                                                      *)
Collect(t) ==
  /\ At(t, "collect") /\ CanAttach
  /\ LET items == calls[t].items
     IN  \/ Failed(t) /\ Return(t, Error)
         \/ /\ ~Failed(t)
            /\ Return(t, [i \in DOMAIN items |-> Resolved(items[i], objects[calls[t].obj].dict)])
  /\ UNCHANGED <<paths, objects>>

-----------------------------------------------------------------------------
(* Other calls                                                             *)

(* generate, too, resolves under a borrow of its own.                      *)
Generate(t, o, text) ==
  /\ IsOpen(o)
  /\ Begin(t, o, "high", "shared", [Call(o, "generate", <<text>>) EXCEPT !.many = TRUE])

Synthesise(t) ==
  /\ At(t, "generate")
  /\ LET o    == calls[t].obj
         item == Item(objects[o].dict, calls[t].texts[1], 0)
     IN  \/ /\ CanBorrow("low", o, "shared") /\ item # Error
            /\ calls' = [calls EXCEPT ![t].items = <<item>>, ![t].pc = "resolve"]
            /\ UNCHANGED <<build, paths, objects, borrows, attached, returned, met>>
         \/ ~CanBorrow("low", o, "shared") /\ Fail(t)
         \/ item = Error /\ Fail(t)

(* A setter borrows both objects mutably.                                  *)
Set(t, o, change) ==
  IsOpen(o) /\ Begin(t, o, "high", "mut", [Call(o, "take", <<>>) EXCEPT !.items = change])

Take(t) ==
  /\ At(t, "take")
  /\ LET o == calls[t].obj
     IN  \/ /\ CanBorrow("low", o, "mut")
            /\ borrows' = borrows \cup {Borrow("low", o, t, "mut")}
            /\ GoTo(t, IF calls[t].texts = <<>> THEN "apply" ELSE "run")
            /\ UNCHANGED <<build, paths, objects, attached, returned, met>>
         \/ ~CanBorrow("low", o, "mut") /\ Fail(t)

FirstHolding(dirs, name) ==
  LET holding == { i \in DOMAIN dirs : Holds(dirs[i], name) # NoDictionary }
  IN  IF holding = {} THEN NoDictionary ELSE Holds(dirs[Min(holding)], name)

(* Setting anything gives the analyser a new session, numbered from 0.     *)
Apply(t) ==
  /\ At(t, "apply")
  /\ LET o      == calls[t].obj
         change == calls[t].items
         dict   == FirstHolding(paths, change.to)
     IN  \/ /\ change.what = "dictionary" /\ dict # NoDictionary
            /\ objects' = [objects EXCEPT ![o].dict = dict, ![o].next = 0]
            /\ Return(t, <<>>)
         \/ /\ change.what = "numbering" /\ change.to # "bad"
            /\ objects' = [objects EXCEPT ![o].numbering = change.to, ![o].next = 0]
            /\ Return(t, <<>>)
         \/ /\ change.what = "case" /\ change.to # "bad"
            /\ objects' = [objects EXCEPT ![o].next = 0]
            /\ Return(t, <<>>)
         \/ /\ change.to = "bad" \/ (change.what = "dictionary" /\ dict = NoDictionary)
            /\ Return(t, Error)
            /\ UNCHANGED objects
  /\ UNCHANGED paths

(* The methods of the low-level object borrow only that, and stay attached.*)
LowAnalyse(t, o, text) ==
  InBounds(o) /\ Begin(t, o, "low", "mut", [Call(o, "run", <<text>>) EXCEPT !.low = TRUE, !.continuous = TRUE])

(* analyse_iter of the outer object takes both mutably, and stays attached *)
(* as well.                                                                *)
AnalyseIter(t, o, text) ==
  /\ InBounds(o)
  /\ Begin(t, o, "high", "mut",
           [Call(o, "take", <<text>>) EXCEPT !.low = TRUE, !.continuous = TRUE])

(* Their answers have the tags' ids.                                       *)
LowReturn(t) ==
  /\ At(t, "low return")
  /\ LET items == calls[t].items
     IN  \/ Failed(t) /\ Return(t, Error)
         \/ ~Failed(t) /\ Return(t, [i \in DOMAIN items |-> Resolved(items[i], items[i].dict)])
  /\ UNCHANGED <<paths, objects>>

LowSet(t, o, change) ==
  IsOpen(o) /\ Begin(t, o, "low", "mut", [Call(o, "apply", <<>>) EXCEPT !.items = change])

(* A clone is a new object with the original's session.                    *)
Clone(t, o) == IsOpen(o) /\ Begin(t, o, "high", "shared", Call(o, "copy", <<>>))

Copy(t) ==
  /\ At(t, "copy")
  /\ LET o == calls[t].obj
     IN  \/ /\ CanBorrow("low", o, "shared")
            /\ Return(t, objects[o])
            /\ UNCHANGED <<paths, objects>>
         \/ ~CanBorrow("low", o, "shared") /\ Fail(t)

(* The constructor: dict_path goes in front of the search path unless it   *)
(* is on it, then the name is looked up along the path, and the options    *)
(* are set.                                                                *)
WithPath(dirs, d) == IF d \in ToSet(dirs) THEN dirs ELSE <<d>> \o dirs

New(t, o, name, dir, numbering) ==
  /\ objects[o] = Closed /\ OthersOn(t, o) = {}
  /\ Begin(t, o, "high", "mut",
           [Call(o, "path", <<>>) EXCEPT !.items = [name |-> name, dir |-> dir, numbering |-> numbering]])

InsertPath(t) ==
  /\ At(t, "path")
  /\ paths' = WithPath(paths, calls[t].items.dir)
  /\ GoTo(t, "load")
  /\ UNCHANGED <<build, objects, borrows, attached, returned, met>>

Load(t) ==
  /\ At(t, "load")
  /\ LET new  == calls[t].items
         dict == FirstHolding(paths, new.name)
     IN  \/ /\ dict # NoDictionary /\ new.numbering # "bad"
            /\ objects' = [objects EXCEPT ![calls[t].obj] =
                             [dict |-> dict, numbering |-> new.numbering, next |-> 0]]
            /\ Return(t, <<>>)
            /\ UNCHANGED paths
         \/ (dict = NoDictionary \/ new.numbering = "bad") /\ Fail(t)

(* The search path of the module.                                          *)
AddDictionaryPath(t, d) ==
  /\ calls[t] = Idle /\ CanAttach
  /\ paths' = WithPath(paths, d)
  /\ UNCHANGED <<build, objects, borrows, attached, calls, returned, met>>

SetPaths(t, dirs) ==
  /\ calls[t] = Idle /\ CanAttach
  /\ paths' = dirs
  /\ UNCHANGED <<build, objects, borrows, attached, calls, returned, met>>

-----------------------------------------------------------------------------
Enter(t) ==
  \/ \E o \in Objects :
       \/ \E x \in Texts : Analyse(t, o, x) \/ Generate(t, o, x)
                         \/ AnalyseIter(t, o, x) \/ LowAnalyse(t, o, x)
       \/ \E batch \in Batches : AnalyseMany(t, o, batch)
       \/ \E change \in Changes : Set(t, o, change) \/ LowSet(t, o, change)
       \/ Clone(t, o)
       \/ \E n \in Names, d \in DictPaths, g \in Chosen : New(t, o, n, d, g)
  \/ \E d \in DictPaths : AddDictionaryPath(t, d)
  \/ \E dirs \in PathChoices : SetPaths(t, dirs)

Continue(t) ==
  \/ ReadNumbering(t) \/ Detach(t) \/ Run(t) \/ Number(t) \/ Resolve(t) \/ Build(t)
  \/ Share(t) \/ (At(t, "work") /\ \E i \in DOMAIN calls[t].texts : Work(t, i)) \/ Join(t) \/ Collect(t)
  \/ Synthesise(t) \/ Take(t) \/ Apply(t)
  \/ LowReturn(t) \/ Copy(t) \/ InsertPath(t) \/ Load(t)

Next == \E t \in Threads : Enter(t) \/ Continue(t) \/ Attach(t)

Spec == Init /\ [][Next]_vars

(* Threads and workers run; one that waits for the lock gets it in the end *)
(* although others take it in turn: the interpreter makes them give way.   *)
FairSpec ==
  Spec /\ \A t \in Threads : WF_vars(Continue(t)) /\ SF_vars(Attach(t))

-----------------------------------------------------------------------------
(* Properties                                                              *)

(* The analysis of a call has taken effect when its answer is known.       *)
TookEffect(c) ==
  /\ c.texts # <<>>
  /\ c.pc \notin {"share", "work", "number"}
  /\ \A i \in DOMAIN c.items : c.items[i] # Unanswered

AskedOf(c) ==
  [ obj |-> c.obj, texts |-> c.texts, many |-> c.many,
    answer |-> IF ~TookEffect(c) THEN Unanswered
               ELSE IF \E i \in DOMAIN c.items : c.items[i] = Error THEN Error
               ELSE [i \in DOMAIN c.items |-> Resolved(c.items[i], c.items[i].dict)] ]

Asked == [t \in Threads |-> IF calls[t] = Idle THEN Idle ELSE AskedOf(calls[t])]

Promised == INSTANCE SharedHandle WITH
  asked <- Asked, Batches <- Batches \cup { <<x>> : x \in Texts }

(* However the threads' calls interleave: each answer is the one that the  *)
(* handle, as it was at one moment of the call, gives to every text asked, *)
(* with the tags of the dictionary that analysed it; a text that a thread  *)
(* gets no answer for has not moved the numbering of the handle.           *)
ImplementsSharedHandle == Promised!Spec

(* Every call returns: no call waits for another on the same object, and   *)
(* no thread for workers that wait for it.                                 *)
CallsReturn == \A t \in Threads : calls[t] # Idle ~> calls[t] = Idle
=============================================================================
