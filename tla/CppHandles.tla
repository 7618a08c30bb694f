---------------------------- MODULE CppHandles ----------------------------
(***************************************************************************)
(* The C API and the C++ class over it.                                    *)
(*                                                                         *)
(* A C++ handle owns an instance of the C API.  A call of the C API that   *)
(* fails leaves a message behind, in its instance or, when there is none   *)
(* yet, in the process; the C++ method then reads the message and throws   *)
(* it.  A handle also caches the texts of the identifiers it resolved.     *)
(*                                                                         *)
(* The search path of the C API belongs to the process: a method that      *)
(* loads a dictionary first empties it and pushes the directories of the   *)
(* C++ list one by one, each under the lock of the path, but not all of    *)
(* them under one.  Threads use handles of their own, and may load at the  *)
(* same time.                                                              *)
(***************************************************************************)
EXTENDS Naturals, Sequences, FiniteSets

CONSTANTS
  Threads, Handles,
  Does(_, _),     (* the calls that a thread makes on a handle             *)
  UsesLegacy(_),  (* whether it uses the functions without a handle        *)
  Dictionaries, Directories, Names,
  Holds(_, _),    (* the dictionary of a name in a directory, if any       *)
  Lists,          (* what users set Morfeusz::dictionarySearchPaths to     *)
  DefaultList,    (* what it is at first                                   *)
  Ids,            (* identifiers of tags, names and labels                 *)
  TextOf(_, _),   (* the text of an identifier in a dictionary, if any     *)
  Charsets, DefaultCharset, DefaultName,
  Asks,           (* requests with a kind, such as "analyse" and a text    *)
  Answer(_, _),   (* what a dictionary answers to a request, if anything   *)
  NoDictionary, NoText, NoAnswer, NoError, Unknown, Closed, Idle

ASSUME CppHandlesAssumption ==
  /\ Lists \subseteq Seq(Directories) /\ DefaultList \in Lists
  /\ \A d \in Directories, n \in Names : Holds(d, n) \in Dictionaries \cup {NoDictionary}
  /\ NoDictionary \notin Dictionaries
  /\ DefaultCharset \in Charsets /\ DefaultName \in Names
  /\ NoError \notin {"id", "charset", "usage", "dictionary"} \cup { ask.kind : ask \in Asks }

VARIABLES
  list,         (* Morfeusz::dictionarySearchPaths                         *)
  paths,        (* the search path of the C API                            *)
  globalError,  (* the message left by the last creation                   *)
  handles,
  legacy,       (* the analyser of the functions without a handle          *)
  calls,        (* the call of each thread that loads a dictionary         *)
  outcomes      (* how each thread's last call ended: what it returned or  *)
                (* threw and, history, what it deserved                    *)

vars == <<list, paths, globalError, handles, legacy, calls, outcomes>>

Usages == {"valid", "invalid"}

New(dict, charset) ==
  [dict |-> dict, charset |-> charset, error |-> NoError, cache |-> [i \in Ids |-> Unknown]]

Returned(value) == [how |-> "returned", what |-> value]
Thrown(message) == [how |-> "thrown", what |-> message]

Init ==
  /\ list = DefaultList
  /\ paths = DefaultList
  /\ globalError = NoError
  /\ handles = [h \in Handles |-> Closed]
  /\ legacy = Closed
  /\ calls = [t \in Threads |-> Idle]
  /\ outcomes = [t \in Threads |-> Idle]

-----------------------------------------------------------------------------
(* Calls that end at once                                                  *)

LastError(error, fallback) == IF error = NoError THEN fallback ELSE error

EndsWith(t, got, deserved) ==
  outcomes' = [outcomes EXCEPT ![t] = [got |-> got, deserved |-> deserved, overlapped |-> FALSE]]

(* A handle is used by one thread at a time.                               *)
InUse(h) == \E t \in Threads : calls[t] # Idle /\ calls[t].handle = h

Calls(t, what, h) ==
  what \in Does(t, h) /\ calls[t] = Idle /\ handles[h] # Closed /\ ~InUse(h)

Free(h) == handles[h] = Closed /\ ~InUse(h)

(* The text of an identifier, in the bytes of a character set.             *)
Encoded(text, charset) == [text |-> text, charset |-> charset]

TextDeserved(h, id) ==
  IF TextOf(handles[h].dict, id) = NoText THEN Thrown("id")
  ELSE Returned(Encoded(TextOf(handles[h].dict, id), handles[h].charset))

(* getTag, getName and the labels: from the cache, or from the instance.   *)
GetText(t, h, id) ==
  /\ Calls(t, "get text", h)
  /\ LET m    == handles[h]
         text == TextOf(m.dict, id)
     IN  \/ /\ m.cache[id] # Unknown
            /\ EndsWith(t, Returned(m.cache[id]), TextDeserved(h, id))
            /\ UNCHANGED handles
         \/ /\ m.cache[id] = Unknown /\ text # NoText
            /\ handles' = [handles EXCEPT ![h].cache[id] = Encoded(text, m.charset),
                                          ![h].error = NoError]
            /\ EndsWith(t, Returned(Encoded(text, m.charset)), TextDeserved(h, id))
         \/ /\ m.cache[id] = Unknown /\ text = NoText
            /\ handles' = [handles EXCEPT ![h].error = "id"]
            /\ EndsWith(t, Thrown(LastError(handles'[h].error, "cannot")), TextDeserved(h, id))
  /\ UNCHANGED <<list, paths, globalError, calls, legacy>>

(* Mutant: a request that fails leaves the message as it was.              *)
ErrorKept(h, ask) == IF Answer(handles[h].dict, ask) = NoAnswer THEN handles[h].error ELSE NoError

ErrorAfter(h, ask) == IF Answer(handles[h].dict, ask) = NoAnswer THEN ask.kind ELSE NoError

(* analyse, generate, the ids of texts, and the options of an instance:    *)
(* each leaves its message in the instance, or removes what was there.     *)
Ask(t, h, ask) ==
  /\ Calls(t, "ask", h)
  /\ LET answer == Answer(handles[h].dict, ask)
     IN  /\ handles' = [handles EXCEPT ![h].error = ErrorAfter(h, ask)]
         /\ EndsWith(t, IF answer # NoAnswer THEN Returned(answer)
                        ELSE Thrown(LastError(handles'[h].error, "cannot")),
                        IF answer # NoAnswer THEN Returned(answer) ELSE Thrown(ask.kind))
  /\ UNCHANGED <<list, paths, globalError, calls, legacy>>

NoTexts == [i \in Ids |-> Unknown]

(* Mutant: the texts that are cached stay.                                 *)
KeepsCache(cache) == cache

ClearCache(cache) == NoTexts

SetCharset(t, h, charset) ==
  /\ Calls(t, "set charset", h)
  /\ \/ /\ charset \in Charsets
        /\ handles' = [handles EXCEPT ![h].charset = charset, ![h].error = NoError,
                                      ![h].cache = ClearCache(@)]
        /\ EndsWith(t, Returned("ok"), Returned("ok"))
     \/ /\ charset \notin Charsets
        /\ handles' = [handles EXCEPT ![h].error = "charset"]
        /\ EndsWith(t, Thrown(LastError(handles'[h].error, "cannot")), Thrown("charset"))
  /\ UNCHANGED <<list, paths, globalError, calls, legacy>>

(* A clone has no message and no cached texts.                             *)
Clone(t, h, clone) ==
  /\ Calls(t, "clone", h) /\ Free(clone)
  /\ handles' = [handles EXCEPT ![clone] = New(handles[h].dict, handles[h].charset)]
  /\ EndsWith(t, Returned("ok"), Returned("ok"))
  /\ UNCHANGED <<list, paths, globalError, calls, legacy>>

Destroy(t, h) ==
  /\ Calls(t, "destroy", h)
  /\ handles' = [handles EXCEPT ![h] = Closed]
  /\ EndsWith(t, Returned("ok"), Returned("ok"))
  /\ UNCHANGED <<list, paths, globalError, calls, legacy>>

-----------------------------------------------------------------------------
(* Calls that load a dictionary                                            *)

FirstHolding(dirs, name) ==
  LET holding == { i \in DOMAIN dirs : Holds(dirs[i], name) # NoDictionary }
      first   == CHOOSE i \in holding : \A j \in holding : i <= j
  IN  IF holding = {} THEN NoDictionary ELSE Holds(dirs[first], name)

LoadDeserved(name, usage) ==
  IF usage = "invalid" THEN Thrown("usage")
  ELSE IF FirstHolding(list, name) = NoDictionary THEN Thrown("dictionary")
  ELSE Returned(FirstHolding(list, name))

Loading == { t \in Threads : calls[t] # Idle }

(* History: the calls that load at the same time as another.               *)
Begin(t, h, what, name, usage) ==
  /\ what \in Does(t, h) /\ calls[t] = Idle
  /\ calls' = [u \in Threads |->
       IF u = t THEN [ pc |-> "clear", what |-> what, handle |-> h, name |-> name, usage |-> usage,
                       todo |-> <<>>, found |-> NoDictionary,
                       deserved |-> LoadDeserved(name, usage), overlapped |-> Loading # {} ]
       ELSE IF calls[u] # Idle THEN [calls[u] EXCEPT !.overlapped = TRUE] ELSE Idle]
  /\ outcomes' = [outcomes EXCEPT ![t] = Idle]
  /\ UNCHANGED <<list, paths, globalError, handles, legacy>>

CreateInstance(t, h, name, usage) == Free(h) /\ Begin(t, h, "create", name, usage)

SetDictionary(t, h, name) ==
  handles[h] # Closed /\ ~InUse(h) /\ Begin(t, h, "set dictionary", name, "valid")

At(t, pc) == calls[t] # Idle /\ calls[t].pc = pc

(* syncDictionarySearchPaths.                                              *)
Clear(t) ==
  /\ At(t, "clear")
  /\ paths' = <<>>
  /\ calls' = [calls EXCEPT ![t].pc = "push", ![t].todo = list]
  /\ UNCHANGED <<list, globalError, handles, outcomes, legacy>>

Push(t) ==
  /\ At(t, "push") /\ calls[t].todo # <<>>
  /\ paths' = Append(paths, Head(calls[t].todo))
  /\ calls' = [calls EXCEPT ![t].todo = Tail(@)]
  /\ UNCHANGED <<list, globalError, handles, outcomes, legacy>>

(* The C API takes a copy of the search path, and loads from it.           *)
Load(t) ==
  /\ At(t, "push") /\ calls[t].todo = <<>>
  /\ calls' = [calls EXCEPT
       ![t].found = IF calls[t].usage = "invalid" THEN NoDictionary
                    ELSE FirstHolding(paths, calls[t].name),
       ![t].pc = calls[t].what]
  /\ UNCHANGED <<list, paths, globalError, handles, outcomes, legacy>>

End(t, got) ==
  /\ calls' = [calls EXCEPT ![t] = Idle]
  /\ outcomes' = [outcomes EXCEPT ![t] =
       [got |-> got, deserved |-> calls[t].deserved, overlapped |-> calls[t].overlapped]]

Message(usage) == IF usage = "invalid" THEN "usage" ELSE "dictionary"

(* morfeusz_create_instance removes or leaves the message of the process,  *)
(* which is read by a call of its own.                                     *)
Created(t) ==
  /\ At(t, "create") /\ calls[t].found # NoDictionary
  /\ globalError' = NoError
  /\ handles' = [handles EXCEPT ![calls[t].handle] = New(calls[t].found, DefaultCharset)]
  /\ End(t, Returned(calls[t].found))
  /\ UNCHANGED <<list, paths, legacy>>

NotCreated(t) ==
  /\ At(t, "create") /\ calls[t].found = NoDictionary
  /\ globalError' = Message(calls[t].usage)
  /\ calls' = [calls EXCEPT ![t].pc = "throw"]
  /\ UNCHANGED <<list, paths, handles, outcomes, legacy>>

Throw(t) ==
  /\ At(t, "throw")
  /\ End(t, Thrown(LastError(globalError, "cannot")))
  /\ UNCHANGED <<list, paths, globalError, handles, legacy>>

(* morfeusz_instance_set_dictionary, and the cache after it.               *)
Switched(t) ==
  /\ At(t, "set dictionary") /\ calls[t].found # NoDictionary
  /\ handles' = [handles EXCEPT ![calls[t].handle].dict = calls[t].found,
                                ![calls[t].handle].error = NoError,
                                ![calls[t].handle].cache = ClearCache(@)]
  /\ End(t, Returned(calls[t].found))
  /\ UNCHANGED <<list, paths, globalError, legacy>>

NotSwitched(t) ==
  /\ At(t, "set dictionary") /\ calls[t].found = NoDictionary
  /\ handles' = [handles EXCEPT ![calls[t].handle].error = "dictionary"]
  /\ End(t, Thrown(LastError("dictionary", "cannot")))
  /\ UNCHANGED <<list, paths, globalError, legacy>>

(* The analyser of the plain C functions, behind a lock of its own.  Its   *)
(* first use opens it, along the search path of that moment, and without   *)
(* any dictionary if there is none; an answer stays where the pointer to   *)
(* it points until the next analysis.                                      *)
OpenLegacy ==
  IF legacy # Closed THEN legacy
  ELSE [ dict |-> FirstHolding(paths, DefaultName), charset |-> DefaultCharset, answer |-> NoAnswer ]

LegacyAnalyse(t, ask) ==
  /\ UsesLegacy(t) /\ calls[t] = Idle
  /\ legacy' = [OpenLegacy EXCEPT !.answer =
       IF OpenLegacy.dict = NoDictionary THEN NoAnswer ELSE Answer(OpenLegacy.dict, ask)]
  /\ UNCHANGED <<list, paths, globalError, handles, calls, outcomes>>

LegacySetCharset(t, charset) ==
  /\ UsesLegacy(t) /\ calls[t] = Idle
  /\ legacy' = IF charset \in Charsets THEN [OpenLegacy EXCEPT !.charset = charset] ELSE OpenLegacy
  /\ UNCHANGED <<list, paths, globalError, handles, calls, outcomes>>

(* Users change the list while no thread reads it.                         *)
SetList(dirs) ==
  /\ Loading = {}
  /\ list' = dirs
  /\ UNCHANGED <<paths, globalError, handles, calls, outcomes, legacy>>

-----------------------------------------------------------------------------
Uses(t) ==
  \E h \in Handles :
    \/ \E id \in Ids : GetText(t, h, id)
    \/ \E ask \in Asks : Ask(t, h, ask)
    \/ \E charset \in Charsets \cup {Unknown} : SetCharset(t, h, charset)
    \/ \E clone \in Handles : Clone(t, h, clone)
    \/ Destroy(t, h)
    \/ \E name \in Names, usage \in Usages : CreateInstance(t, h, name, usage)
    \/ \E name \in Names : SetDictionary(t, h, name)

Plain(t) ==
  \/ \E ask \in Asks : LegacyAnalyse(t, ask)
  \/ \E charset \in Charsets \cup {Unknown} : LegacySetCharset(t, charset)

Loads(t) ==
  \/ Clear(t) \/ Push(t) \/ Load(t)
  \/ Created(t) \/ NotCreated(t) \/ Throw(t)
  \/ Switched(t) \/ NotSwitched(t)

Next ==
  \/ \E t \in Threads : Uses(t) \/ Plain(t) \/ Loads(t)
  \/ \E dirs \in Lists : SetList(dirs)

Spec == Init /\ [][Next]_vars

-----------------------------------------------------------------------------
(* Properties                                                              *)

Errors == {NoError, "id", "charset", "usage", "dictionary"} \cup { ask.kind : ask \in Asks }

CachedTexts ==
  {Unknown} \cup { Encoded(TextOf(d, i), c) : d \in Dictionaries, i \in Ids, c \in Charsets }

Handle ==
  [dict : Dictionaries, charset : Charsets, error : Errors, cache : [Ids -> CachedTexts]]

Legacy ==
  [ dict : Dictionaries \cup {NoDictionary}, charset : Charsets,
    answer : {NoAnswer} \cup { Answer(d, ask) : d \in Dictionaries, ask \in Asks } ]

Call ==
  [ pc : {"clear", "push", "create", "set dictionary", "throw"}, what : {"create", "set dictionary"},
    handle : Handles, name : Names, usage : Usages, todo : Seq(Directories),
    found : Dictionaries \cup {NoDictionary}, overlapped : BOOLEAN,
    deserved : { Returned(d) : d \in Dictionaries } \cup {Thrown("usage"), Thrown("dictionary")} ]

TypeOK ==
  /\ list \in Lists /\ paths \in Seq(Directories)
  /\ globalError \in {NoError, "usage", "dictionary"}
  /\ handles \in [Handles -> Handle \cup {Closed}]
  /\ legacy \in Legacy \cup {Closed}
  /\ calls \in [Threads -> Call \cup {Idle}]

(* A text that a handle has cached is the text of the identifier in the    *)
(* dictionary and the character set that the handle has now, whatever was  *)
(* set in between and whether or not that succeeded.                       *)
CachedTextsTrue ==
  \A h \in Handles : handles[h] # Closed =>
    \A id \in Ids : handles[h].cache[id] # Unknown =>
      /\ TextOf(handles[h].dict, id) # NoText
      /\ handles[h].cache[id] = Encoded(TextOf(handles[h].dict, id), handles[h].charset)

(* Every call ends as the handle and the C++ list at its beginning make it *)
(* deserve: a failure is thrown with its own message, not with one that an *)
(* earlier call left, and a dictionary is loaded from the first directory  *)
(* of the list that holds it.  Only a call that loads a dictionary at the  *)
(* same time as another may end otherwise.                                 *)
OutcomesDeserved ==
  \A t \in Threads :
    outcomes[t] # Idle /\ ~outcomes[t].overlapped => outcomes[t].got = outcomes[t].deserved
=============================================================================
