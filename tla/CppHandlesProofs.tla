--------------------------- MODULE CppHandlesProofs ---------------------------
(***************************************************************************)
(* The C++ handles of CppHandles, for any threads, handles, dictionaries   *)
(* and search paths: what a handle has cached is true, and a call that is  *)
(* not disturbed ends as it deserves.                                      *)
(***************************************************************************)
EXTENDS CppHandles, SequenceTheorems, WellFoundedInduction, TLAPS

-----------------------------------------------------------------------------
(* The inductive invariant                                                 *)

Active(t) == calls[t] # Idle

(* A handle has one call, the one whose dictionary is set is open, and a   *)
(* call whose load is over is about to do what it was begun for.           *)
OwnerInv ==
  /\ \A t, u \in Threads : Active(t) /\ Active(u) /\ calls[t].handle = calls[u].handle => t = u
  /\ \A t \in Threads : Active(t) /\ calls[t].what = "set dictionary" =>
       handles[calls[t].handle] # Closed /\ calls[t].usage = "valid"
  /\ \A t \in Threads : Active(t) /\ calls[t].pc \in {"create", "set dictionary"} =>
       calls[t].pc = calls[t].what

FoundIn(dirs, call) ==
  IF call.usage = "invalid" THEN NoDictionary ELSE FirstHolding(dirs, call.name)

(* A call that meets no other finds the path as it made it.                *)
AloneInv(t) ==
  /\ Loading = {t}
  /\ calls[t].deserved = LoadDeserved(calls[t].name, calls[t].usage)
  /\ calls[t].pc = "push" => paths \o calls[t].todo = list
  /\ calls[t].pc \in {"create", "set dictionary"} => calls[t].found = FoundIn(list, calls[t])
  /\ calls[t].pc = "throw" =>
       globalError = Message(calls[t].usage) /\ calls[t].deserved = Thrown(globalError)

LoadInv == \A t \in Threads : Active(t) /\ ~calls[t].overlapped => AloneInv(t)

OutcomeInv == outcomes = [t \in Threads |-> outcomes[t]] /\ OutcomesDeserved

IInv == TypeOK /\ OwnerInv /\ CachedTextsTrue /\ LoadInv /\ OutcomeInv

-----------------------------------------------------------------------------
(* The search path, and messages                                           *)

LEMMA FirstType ==
  ASSUME NEW dirs \in Seq(Directories), NEW name \in Names
  PROVE  FirstHolding(dirs, name) \in Dictionaries \cup {NoDictionary}
<1> DEFINE holding == { i \in DOMAIN dirs : Holds(dirs[i], name) # NoDictionary }
           first == CHOOSE i \in holding : \A j \in holding : i <= j
<1>1. CASE holding = {}
  BY <1>1 DEF FirstHolding
<1>2. CASE holding # {}
  <2>1. holding \in SUBSET Nat
    OBVIOUS
  <2>2. \E i \in holding : \A j \in holding : i <= j
    <3>1. PICK i \in holding : \A j \in holding : <<j, i>> \notin OpToRel(<, Nat)
      BY <1>2, <2>1, WFMin, NatLessThanWellFounded
    <3>2. \A j \in holding : ~ (j < i)
      BY <2>1, <3>1, Zenon DEF OpToRel
    <3> HIDE DEF holding
    <3> QED BY <2>1, <3>2
  <2>3. first \in holding
    BY <2>2
  <2>4. dirs[first] \in Directories
    BY <2>3, ElementOfSeq
  <2>5. FirstHolding(dirs, name) = Holds(dirs[first], name)
    BY <1>2 DEF FirstHolding
  <2> QED BY <2>4, <2>5, CppHandlesAssumption
<1> QED BY <1>1, <1>2

LEMMA DeservedType ==
  ASSUME list \in Lists, NEW name \in Names, NEW usage \in Usages
  PROVE  LoadDeserved(name, usage) \in
           { Returned(d) : d \in Dictionaries } \cup {Thrown("usage"), Thrown("dictionary")}
<1>1. FirstHolding(list, name) \in Dictionaries \cup {NoDictionary}
  BY FirstType, CppHandlesAssumption
<1> QED BY <1>1 DEF LoadDeserved

LEMMA Messages ==
  ASSUME NEW fallback
  PROVE  /\ LastError("id", fallback) = "id" /\ LastError("charset", fallback) = "charset"
         /\ LastError("usage", fallback) = "usage" /\ LastError("dictionary", fallback) = "dictionary"
         /\ \A ask \in Asks : LastError(ask.kind, fallback) = ask.kind
BY CppHandlesAssumption DEF LastError

LEMMA NewType ==
  ASSUME NEW d \in Dictionaries, NEW charset \in Charsets
  PROVE  New(d, charset) \in Handle
BY DEF New, Handle, Errors, CachedTexts

-----------------------------------------------------------------------------
(* Calls that end at once                                                  *)

CacheTrue(m) ==
  m # Closed => \A id \in Ids : m.cache[id] # Unknown =>
    TextOf(m.dict, id) # NoText /\ m.cache[id] = Encoded(TextOf(m.dict, id), m.charset)

LEMMA Start == Init => IInv
<1> SUFFICES ASSUME Init PROVE IInv
  OBVIOUS
<1> USE DEF Init
<1>1. TypeOK
  BY CppHandlesAssumption DEF TypeOK
<1> QED BY <1>1 DEF IInv, OwnerInv, CachedTextsTrue, LoadInv, OutcomeInv, OutcomesDeserved, Active

(* One handle, which nobody else uses, changes and keeps a true cache; the *)
(* call ends as it deserves.                                               *)
LEMMA EndsAtOnce ==
  ASSUME IInv, NEW t \in Threads, NEW h \in Handles, ~InUse(h),
         UNCHANGED <<list, paths, globalError, calls, legacy>>,
         handles' = [handles EXCEPT ![h] = handles'[h]],
         handles'[h] \in Handle \cup {Closed}, CacheTrue(handles'[h]),
         NEW got, EndsWith(t, got, got)
  PROVE  IInv'
<1>1. TypeOK'
  BY DEF IInv, TypeOK
<1>2. \A g \in Handles \ {h} : handles'[g] = handles[g]
  BY DEF IInv, TypeOK
<1>3. OwnerInv'
  BY <1>2 DEF IInv, TypeOK, OwnerInv, Active, InUse, Call
<1>4. CachedTextsTrue'
  BY <1>2 DEF IInv, CachedTextsTrue, CacheTrue
<1>5. LoadInv'
  BY DEF IInv, LoadInv, AloneInv, Active, Loading, LoadDeserved, FoundIn
<1>6. OutcomeInv'
  BY DEF IInv, OutcomeInv, OutcomesDeserved, EndsWith
<1> QED BY <1>1, <1>3, <1>4, <1>5, <1>6 DEF IInv

LEMMA CallsFacts ==
  ASSUME IInv, NEW t \in Threads, NEW h \in Handles, NEW what, Calls(t, what, h)
  PROVE  handles[h] \in Handle /\ handles[h] # Closed /\ ~InUse(h) /\ CacheTrue(handles[h])
BY DEF Calls, IInv, TypeOK, CachedTextsTrue, CacheTrue

LEMMA GetTextStep ==
  \A t \in Threads, h \in Handles, id \in Ids : IInv /\ GetText(t, h, id) => IInv'
<1> SUFFICES ASSUME NEW t \in Threads, NEW h \in Handles, NEW id \in Ids, IInv, GetText(t, h, id)
             PROVE  IInv'
  OBVIOUS
<1> DEFINE m == handles[h]
           text == TextOf(m.dict, id)
<1>1. m \in Handle /\ m # Closed /\ ~InUse(h) /\ CacheTrue(m)
  BY CallsFacts DEF GetText
<1>2. UNCHANGED <<list, paths, globalError, calls, legacy>>
  BY DEF GetText
<1>3. handles \in [Handles -> Handle \cup {Closed}]
  BY DEF IInv, TypeOK
<1>4. CASE m.cache[id] # Unknown /\ UNCHANGED handles
           /\ EndsWith(t, Returned(m.cache[id]), TextDeserved(h, id))
  <2>1. TextDeserved(h, id) = Returned(m.cache[id])
    BY <1>1, <1>4 DEF CacheTrue, TextDeserved
  <2>2. handles' = [handles EXCEPT ![h] = handles'[h]]
    BY <1>3, <1>4
  <2> QED BY <1>1, <1>2, <1>4, <2>1, <2>2, EndsAtOnce
<1>5. CASE /\ m.cache[id] = Unknown /\ text # NoText
           /\ handles' = [handles EXCEPT ![h].cache[id] = Encoded(text, m.charset), ![h].error = NoError]
           /\ EndsWith(t, Returned(Encoded(text, m.charset)), TextDeserved(h, id))
  <2> DEFINE n == [m EXCEPT !.cache[id] = Encoded(text, m.charset), !.error = NoError]
  <2>1. TextDeserved(h, id) = Returned(Encoded(text, m.charset))
    BY <1>5 DEF TextDeserved
  <2>2. handles'[h] = n /\ handles' = [handles EXCEPT ![h] = handles'[h]]
    BY <1>3, <1>5
  <2>3. n \in Handle
    <3>1. Encoded(text, m.charset) \in CachedTexts
      BY <1>1 DEF Handle, CachedTexts
    <3> QED BY <1>1, <3>1 DEF Handle, Errors
  <2>4. CacheTrue(n)
    BY <1>1, <1>5 DEF CacheTrue, Handle
  <2> QED BY <1>1, <1>2, <1>5, <2>1, <2>2, <2>3, <2>4, EndsAtOnce
<1>6. CASE /\ m.cache[id] = Unknown /\ text = NoText
           /\ handles' = [handles EXCEPT ![h].error = "id"]
           /\ EndsWith(t, Thrown(LastError(handles'[h].error, "cannot")), TextDeserved(h, id))
  <2> DEFINE n == [m EXCEPT !.error = "id"]
  <2>1. handles'[h] = n /\ handles' = [handles EXCEPT ![h] = handles'[h]]
    BY <1>3, <1>6
  <2>2. n \in Handle /\ n.error = "id"
    BY <1>1 DEF Handle, Errors
  <2>3. CacheTrue(n)
    BY <1>1 DEF CacheTrue, Handle
  <2>4. TextDeserved(h, id) = Thrown("id") /\ LastError(handles'[h].error, "cannot") = "id"
    BY <1>6, <2>1, <2>2, Messages DEF TextDeserved
  <2> QED BY <1>1, <1>2, <1>6, <2>1, <2>2, <2>3, <2>4, EndsAtOnce
<1> QED BY <1>4, <1>5, <1>6 DEF GetText

LEMMA AskStep ==
  \A t \in Threads, h \in Handles, ask \in Asks : IInv /\ Ask(t, h, ask) => IInv'
<1> SUFFICES ASSUME NEW t \in Threads, NEW h \in Handles, NEW ask \in Asks, IInv, Ask(t, h, ask)
             PROVE  IInv'
  OBVIOUS
<1> DEFINE m == handles[h]
           n == [m EXCEPT !.error = ErrorAfter(h, ask)]
           answer == Answer(m.dict, ask)
<1>1. m \in Handle /\ m # Closed /\ ~InUse(h) /\ CacheTrue(m)
  BY CallsFacts DEF Ask
<1>2. /\ UNCHANGED <<list, paths, globalError, calls, legacy>>
      /\ handles' = [handles EXCEPT ![h].error = ErrorAfter(h, ask)]
      /\ EndsWith(t, IF answer # NoAnswer THEN Returned(answer)
                     ELSE Thrown(LastError(handles'[h].error, "cannot")),
                     IF answer # NoAnswer THEN Returned(answer) ELSE Thrown(ask.kind))
  BY DEF Ask
<1>3. handles'[h] = n /\ handles' = [handles EXCEPT ![h] = handles'[h]]
  BY <1>2 DEF IInv, TypeOK
<1>4. n \in Handle /\ n.error = ErrorAfter(h, ask)
  BY <1>1 DEF Handle, Errors, ErrorAfter
<1>5. CacheTrue(n)
  BY <1>1 DEF CacheTrue, Handle
<1>6. answer = NoAnswer => LastError(handles'[h].error, "cannot") = ask.kind
  BY <1>3, <1>4, Messages DEF ErrorAfter
<1>7. EndsWith(t, IF answer # NoAnswer THEN Returned(answer) ELSE Thrown(ask.kind),
                  IF answer # NoAnswer THEN Returned(answer) ELSE Thrown(ask.kind))
  BY <1>2, <1>6
<1> QED BY <1>1, <1>2, <1>3, <1>4, <1>5, <1>7, EndsAtOnce

LEMMA SetCharsetStep ==
  \A t \in Threads, h \in Handles, charset \in Charsets \cup {Unknown} :
    IInv /\ SetCharset(t, h, charset) => IInv'
<1> SUFFICES ASSUME NEW t \in Threads, NEW h \in Handles, NEW charset \in Charsets \cup {Unknown},
                    IInv, SetCharset(t, h, charset)
             PROVE  IInv'
  OBVIOUS
<1> DEFINE m == handles[h]
<1>1. m \in Handle /\ m # Closed /\ ~InUse(h) /\ CacheTrue(m)
  BY CallsFacts DEF SetCharset
<1>2. UNCHANGED <<list, paths, globalError, calls, legacy>>
  BY DEF SetCharset
<1>3. handles \in [Handles -> Handle \cup {Closed}]
  BY DEF IInv, TypeOK
<1>4. CASE /\ charset \in Charsets
           /\ handles' = [handles EXCEPT ![h].charset = charset, ![h].error = NoError,
                                         ![h].cache = ClearCache(@)]
           /\ EndsWith(t, Returned("ok"), Returned("ok"))
  <2> DEFINE n == [m EXCEPT !.charset = charset, !.error = NoError, !.cache = NoTexts]
  <2>1. handles'[h] = n /\ handles' = [handles EXCEPT ![h] = handles'[h]]
    BY <1>3, <1>4 DEF ClearCache
  <2>2. n \in Handle /\ n.cache = NoTexts
    <3>1. NoTexts \in [Ids -> CachedTexts] /\ NoError \in Errors
      BY DEF CachedTexts, NoTexts, Errors
    <3> QED BY <1>1, <1>4, <3>1 DEF Handle
  <2>3. CacheTrue(n)
    BY <2>2 DEF CacheTrue, NoTexts
  <2> QED BY <1>1, <1>2, <1>4, <2>1, <2>2, <2>3, EndsAtOnce
<1>5. CASE /\ handles' = [handles EXCEPT ![h].error = "charset"]
           /\ EndsWith(t, Thrown(LastError(handles'[h].error, "cannot")), Thrown("charset"))
  <2> DEFINE n == [m EXCEPT !.error = "charset"]
  <2>1. handles'[h] = n /\ handles' = [handles EXCEPT ![h] = handles'[h]]
    BY <1>3, <1>5
  <2>2. n \in Handle /\ n.error = "charset"
    BY <1>1 DEF Handle, Errors
  <2>3. CacheTrue(n)
    BY <1>1 DEF CacheTrue, Handle
  <2>4. LastError(handles'[h].error, "cannot") = "charset"
    BY <2>1, <2>2, Messages
  <2> QED BY <1>1, <1>2, <1>5, <2>1, <2>2, <2>3, <2>4, EndsAtOnce
<1> QED BY <1>4, <1>5 DEF SetCharset

LEMMA CloneStep ==
  \A t \in Threads, h, clone \in Handles : IInv /\ Clone(t, h, clone) => IInv'
<1> SUFFICES ASSUME NEW t \in Threads, NEW h \in Handles, NEW clone \in Handles, IInv, Clone(t, h, clone)
             PROVE  IInv'
  OBVIOUS
<1> DEFINE n == New(handles[h].dict, handles[h].charset)
<1>1. handles[h] \in Handle
  BY CallsFacts DEF Clone
<1>2. n \in Handle /\ CacheTrue(n)
  BY <1>1, NewType DEF Handle, CacheTrue, New
<1>3. handles'[clone] = n /\ handles' = [handles EXCEPT ![clone] = handles'[clone]]
  BY DEF Clone, IInv, TypeOK
<1> QED BY <1>2, <1>3, EndsAtOnce DEF Clone, Free

LEMMA DestroyStep == \A t \in Threads, h \in Handles : IInv /\ Destroy(t, h) => IInv'
<1> SUFFICES ASSUME NEW t \in Threads, NEW h \in Handles, IInv, Destroy(t, h) PROVE IInv'
  OBVIOUS
<1>1. handles'[h] = Closed /\ handles' = [handles EXCEPT ![h] = handles'[h]]
  BY DEF Destroy, IInv, TypeOK
<1>2. ~InUse(h) /\ CacheTrue(Closed)
  BY DEF Destroy, Calls, CacheTrue
<1> QED BY <1>1, <1>2, EndsAtOnce DEF Destroy

-----------------------------------------------------------------------------
(* Calls that load a dictionary                                            *)

LEMMA ActiveCall ==
  ASSUME IInv, NEW t \in Threads, Active(t)
  PROVE  calls[t] \in Call /\ calls[t].handle \in Handles
BY DEF IInv, TypeOK, Active, Call

LEMMA Begins ==
  ASSUME IInv, NEW t \in Threads, NEW h \in Handles, NEW what \in {"create", "set dictionary"},
         NEW name \in Names, NEW usage \in Usages, ~InUse(h), Begin(t, h, what, name, usage),
         what = "set dictionary" => handles[h] # Closed /\ usage = "valid"
  PROVE  IInv'
<1> DEFINE call == [ pc |-> "clear", what |-> what, handle |-> h, name |-> name, usage |-> usage,
                     todo |-> <<>>, found |-> NoDictionary,
                     deserved |-> LoadDeserved(name, usage), overlapped |-> Loading # {} ]
<1>1. /\ UNCHANGED <<list, paths, globalError, handles, legacy>> /\ calls[t] = Idle
      /\ calls' = [u \in Threads |-> IF u = t THEN call
                     ELSE IF calls[u] # Idle THEN [calls[u] EXCEPT !.overlapped = TRUE] ELSE Idle]
      /\ outcomes' = [outcomes EXCEPT ![t] = Idle]
  BY DEF Begin
<1>2. call \in Call
  <2>1. LoadDeserved(name, usage) \in
           { Returned(d) : d \in Dictionaries } \cup {Thrown("usage"), Thrown("dictionary")}
    BY DeservedType DEF IInv, TypeOK
  <2>2. <<>> \in Seq(Directories) /\ (Loading # {}) \in BOOLEAN
    BY EmptySeq
  <2> QED BY <2>1, <2>2 DEF Call, Usages
<1>3. /\ call.handle = h /\ call.what = what /\ call.pc = "clear" /\ call.usage = usage
      /\ call.name = name /\ call.overlapped = (Loading # {}) /\ call.deserved = LoadDeserved(name, usage)
  OBVIOUS
<1> HIDE DEF call
<1>4. \A u \in Threads \ {t} :
        /\ calls'[u] # Idle => calls[u] # Idle
        /\ calls[u] # Idle => /\ calls'[u] \in Call /\ calls'[u].overlapped = TRUE
                              /\ calls'[u].handle = calls[u].handle /\ calls'[u].what = calls[u].what
                              /\ calls'[u].usage = calls[u].usage /\ calls'[u].pc = calls[u].pc
  BY <1>1 DEF IInv, TypeOK, Call
<1>5. calls'[t] = call
  BY <1>1
<1>6. TypeOK'
  <2>1. calls' \in [Threads -> Call \cup {Idle}]
    BY <1>1, <1>2, <1>4
  <2> QED BY <1>1, <2>1 DEF IInv, TypeOK
<1>7. OwnerInv'
  <2>1. /\ \A u, v \in Threads : Active(u) /\ Active(v) /\ calls[u].handle = calls[v].handle => u = v
        /\ \A u \in Threads : Active(u) /\ calls[u].what = "set dictionary" =>
             handles[calls[u].handle] # Closed /\ calls[u].usage = "valid"
        /\ \A u \in Threads : Active(u) /\ calls[u].pc \in {"create", "set dictionary"} =>
             calls[u].pc = calls[u].what
    BY DEF IInv, OwnerInv
  <2>2. \A u \in Threads \ {t} : Active(u)' =>
          /\ Active(u) /\ calls'[u].handle = calls[u].handle /\ calls'[u].what = calls[u].what
          /\ calls'[u].usage = calls[u].usage /\ calls'[u].pc = calls[u].pc /\ calls[u].handle # h
    BY <1>4 DEF Active, InUse
  <2>3. ASSUME NEW u \in Threads, NEW v \in Threads, Active(u)', Active(v)', calls'[u].handle = calls'[v].handle
        PROVE  u = v
    BY <1>3, <1>5, <2>1, <2>2, <2>3, ZenonT(40)
  <2>4. ASSUME NEW u \in Threads, Active(u)', calls'[u].what = "set dictionary"
        PROVE  handles[calls'[u].handle] # Closed /\ calls'[u].usage = "valid"
    BY <1>3, <1>5, <2>1, <2>2, <2>4, ZenonT(40)
  <2>5. ASSUME NEW u \in Threads, Active(u)', calls'[u].pc \in {"create", "set dictionary"}
        PROVE  calls'[u].pc = calls'[u].what
    BY <1>3, <1>5, <2>1, <2>2, <2>5
  <2> QED BY <1>1, <2>3, <2>4, <2>5 DEF OwnerInv
<1>8. CachedTextsTrue'
  BY <1>1 DEF IInv, CachedTextsTrue
<1>9. LoadInv'
  <2> SUFFICES ASSUME NEW u \in Threads, Active(u)', ~calls'[u].overlapped PROVE AloneInv(u)'
    BY DEF LoadInv
  <2>1. u = t /\ Loading = {}
    BY <1>3, <1>4, <1>5 DEF Active
  <2>2. Loading' = {t}
    BY <1>4, <2>1 DEF Loading, Active
  <2> QED BY <1>1, <1>3, <1>5, <2>1, <2>2 DEF AloneInv, LoadDeserved
<1>10. OutcomeInv'
  BY <1>1 DEF IInv, OutcomeInv, OutcomesDeserved
<1> QED BY <1>6, <1>7, <1>8, <1>9, <1>10 DEF IInv

LEMMA CreateInstanceStep ==
  \A t \in Threads, h \in Handles, name \in Names, usage \in Usages :
    IInv /\ CreateInstance(t, h, name, usage) => IInv'
BY Begins DEF CreateInstance, Free

LEMMA SetDictionaryStep ==
  \A t \in Threads, h \in Handles, name \in Names : IInv /\ SetDictionary(t, h, name) => IInv'
BY Begins DEF SetDictionary, Usages

(* A call goes on: it keeps what it was called with, and if it met no      *)
(* other call, c is what AloneInv says of it.                              *)
LEMMA GoesOn ==
  ASSUME IInv, NEW t \in Threads, Active(t), NEW c \in Call, calls' = [calls EXCEPT ![t] = c],
         c.handle = calls[t].handle, c.what = calls[t].what, c.usage = calls[t].usage,
         c.name = calls[t].name, c.overlapped = calls[t].overlapped, c.deserved = calls[t].deserved,
         UNCHANGED <<list, handles, outcomes, legacy>>,
         paths' \in Seq(Directories), globalError' \in {NoError, "usage", "dictionary"},
         c.pc \in {"create", "set dictionary"} => c.pc = c.what,
         AloneInv(t) =>
           /\ c.pc = "push" => paths' \o c.todo = list
           /\ c.pc \in {"create", "set dictionary"} => c.found = FoundIn(list, c)
           /\ c.pc = "throw" => globalError' = Message(c.usage) /\ c.deserved = Thrown(globalError')
  PROVE  IInv'
<1>1. calls'[t] = c /\ \A u \in Threads \ {t} : calls'[u] = calls[u]
  BY DEF IInv, TypeOK
<1>2. TypeOK'
  BY DEF IInv, TypeOK
<1>3. OwnerInv'
  <2>1. \A u \in Threads : Active(u)' =>
          /\ Active(u) /\ calls'[u].handle = calls[u].handle /\ calls'[u].what = calls[u].what
          /\ calls'[u].usage = calls[u].usage
    BY <1>1 DEF Active
  <2>2. \A u \in Threads : Active(u)' /\ calls'[u].pc \in {"create", "set dictionary"} =>
          calls'[u].pc = calls'[u].what
    <3> SUFFICES ASSUME NEW u \in Threads, Active(u)', calls'[u].pc \in {"create", "set dictionary"}
                 PROVE  calls'[u].pc = calls'[u].what
      OBVIOUS
    <3>1. CASE u = t
      BY <1>1, <3>1
    <3>2. CASE u # t
      <4>1. calls'[u] = calls[u] /\ Active(u)
        BY <1>1, <2>1, <3>2
      <4> QED BY <4>1 DEF IInv, OwnerInv
    <3> QED BY <3>1, <3>2
  <2>3. /\ \A u, v \in Threads : Active(u) /\ Active(v) /\ calls[u].handle = calls[v].handle => u = v
        /\ \A u \in Threads : Active(u) /\ calls[u].what = "set dictionary" =>
             handles[calls[u].handle] # Closed /\ calls[u].usage = "valid"
    BY DEF IInv, OwnerInv
  <2>4. ASSUME NEW u \in Threads, NEW v \in Threads, Active(u)', Active(v)', calls'[u].handle = calls'[v].handle
        PROVE  u = v
    BY <2>1, <2>3, <2>4, ZenonT(40)
  <2>5. ASSUME NEW u \in Threads, Active(u)', calls'[u].what = "set dictionary"
        PROVE  handles'[calls'[u].handle] # Closed /\ calls'[u].usage = "valid"
    BY <2>1, <2>3, <2>5
  <2> QED BY <2>2, <2>4, <2>5 DEF OwnerInv
<1>4. CachedTextsTrue' /\ OutcomeInv'
  BY DEF IInv, CachedTextsTrue, OutcomeInv, OutcomesDeserved
<1>5. LoadInv'
  <2> SUFFICES ASSUME NEW u \in Threads, Active(u)', ~calls'[u].overlapped PROVE AloneInv(u)'
    BY DEF LoadInv
  <2>1. t \in Loading
    BY DEF Active, Loading
  <2>2. u = t
    <3> SUFFICES ASSUME u # t PROVE FALSE
      OBVIOUS
    <3>1. Active(u) /\ ~calls[u].overlapped
      BY <1>1 DEF Active
    <3>2. Loading = {u}
      BY <3>1 DEF IInv, LoadInv, AloneInv
    <3> QED BY <2>1, <3>2
  <2>3. AloneInv(t)
    BY <1>1, <2>2 DEF IInv, LoadInv
  <2>4. Loading' = {t}
    BY <1>1, <2>2, <2>3 DEF AloneInv, Loading, Active
  <2> QED BY <1>1, <2>2, <2>3, <2>4 DEF AloneInv, LoadDeserved, FoundIn
<1> QED BY <1>2, <1>3, <1>4, <1>5 DEF IInv

LEMMA ClearStep == \A t \in Threads : IInv /\ Clear(t) => IInv'
<1> SUFFICES ASSUME NEW t \in Threads, IInv, Clear(t) PROVE IInv'
  OBVIOUS
<1> DEFINE c == [calls[t] EXCEPT !.pc = "push", !.todo = list]
<1>1. calls[t] \in Call /\ Active(t)
  BY ActiveCall DEF Clear, At, Active
<1>2. list \in Seq(Directories)
  BY CppHandlesAssumption DEF IInv, TypeOK
<1>3. /\ c \in Call /\ c.pc = "push" /\ c.todo = list /\ c.handle = calls[t].handle /\ c.what = calls[t].what
      /\ c.usage = calls[t].usage /\ c.name = calls[t].name /\ c.overlapped = calls[t].overlapped
      /\ c.deserved = calls[t].deserved
  BY <1>1, <1>2 DEF Call
<1>4. calls' = [calls EXCEPT ![t] = c]
  BY DEF Clear, IInv, TypeOK
<1>5. paths' = <<>> /\ paths' \in Seq(Directories) /\ paths' \o list = list
  BY <1>2, EmptySeq DEF Clear
<1>6. UNCHANGED <<list, handles, outcomes, legacy, globalError>>
  BY DEF Clear
<1> HIDE DEF c
<1> QED BY <1>1, <1>3, <1>4, <1>5, <1>6, GoesOn DEF IInv, TypeOK

LEMMA HeadMoves ==
  ASSUME NEW S, NEW s \in Seq(S), NEW r \in Seq(S), r # <<>>
  PROVE  Append(s, Head(r)) \o Tail(r) = s \o r
<1> DEFINE a == Append(s, Head(r))
           b == Tail(r)
<1>1. /\ Head(r) \in S /\ b \in Seq(S) /\ Len(b) = Len(r) - 1 /\ Head(r) = r[1] /\ Len(r) >= 1
      /\ \A i \in 1 .. Len(b) : b[i] = r[i + 1]
  BY HeadTailProperties, EmptySeq
<1>2. /\ a \in Seq(S) /\ Len(a) = Len(s) + 1 /\ a[Len(s) + 1] = Head(r)
      /\ \A i \in 1 .. Len(s) : a[i] = s[i]
  BY <1>1, AppendProperties
<1>3. Len(s) \in Nat /\ Len(r) \in Nat
  OBVIOUS
<1> HIDE DEF a, b
<1>4. /\ a \o b \in Seq(S) /\ Len(a \o b) = Len(a) + Len(b)
      /\ \A i \in 1 .. Len(a) + Len(b) : (a \o b)[i] = IF i <= Len(a) THEN a[i] ELSE b[i - Len(a)]
  BY <1>1, <1>2, ConcatProperties
<1>5. /\ s \o r \in Seq(S) /\ Len(s \o r) = Len(s) + Len(r)
      /\ \A i \in 1 .. Len(s) + Len(r) : (s \o r)[i] = IF i <= Len(s) THEN s[i] ELSE r[i - Len(s)]
  BY ConcatProperties
<1>6. Len(a \o b) = Len(s \o r)
  BY <1>1, <1>2, <1>3, <1>4, <1>5
<1>7. ASSUME NEW i \in 1 .. Len(s) + Len(r) PROVE (a \o b)[i] = (s \o r)[i]
  <2>0. i \in 1 .. Len(a) + Len(b)
    BY <1>1, <1>2, <1>3
  <2>1. CASE i <= Len(s)
    <3>1. i <= Len(a) /\ i \in 1 .. Len(s)
      BY <1>2, <1>3, <2>1
    <3> QED BY <1>2, <1>4, <1>5, <2>0, <2>1, <3>1
  <2>2. CASE i = Len(s) + 1
    <3>1. i <= Len(a) /\ ~ (i <= Len(s)) /\ i - Len(s) = 1
      BY <1>2, <1>3, <2>2
    <3>2. (a \o b)[i] = Head(r)
      BY <1>2, <1>4, <2>0, <2>2, <3>1
    <3>3. (s \o r)[i] = r[1]
      BY <1>5, <3>1
    <3> QED BY <1>1, <3>2, <3>3
  <2>3. CASE i > Len(s) + 1
    <3>1. /\ i - Len(a) \in 1 .. Len(b) /\ i - Len(a) + 1 = i - Len(s)
          /\ ~ (i <= Len(a)) /\ ~ (i <= Len(s)) /\ i \in 1 .. Len(a) + Len(b)
      BY <1>1, <1>2, <1>3, <2>3
    <3>2. b[i - Len(a)] = r[i - Len(s)]
      BY <1>1, <3>1
    <3>3. (a \o b)[i] = b[i - Len(a)]
      BY <1>4, <3>1
    <3>4. (s \o r)[i] = r[i - Len(s)]
      BY <1>5, <3>1
    <3> QED BY <3>2, <3>3, <3>4
  <2>4. i <= Len(s) \/ i = Len(s) + 1 \/ i > Len(s) + 1
    BY <1>3
  <2> QED BY <2>1, <2>2, <2>3, <2>4, Zenon
<1>8. a \o b = s \o r
  BY <1>4, <1>5, <1>6, <1>7, SeqEqual
<1> QED BY <1>8 DEF a, b

LEMMA PushStep == \A t \in Threads : IInv /\ Push(t) => IInv'
<1> SUFFICES ASSUME NEW t \in Threads, IInv, Push(t) PROVE IInv'
  OBVIOUS
<1> DEFINE todo == calls[t].todo
           c == [calls[t] EXCEPT !.todo = Tail(todo)]
<1>1. calls[t] \in Call /\ Active(t) /\ calls[t].pc = "push" /\ todo # <<>>
  BY ActiveCall DEF Push, At, Active
<1>2. todo \in Seq(Directories) /\ paths \in Seq(Directories)
  BY <1>1 DEF IInv, TypeOK, Call
<1>3. Tail(todo) \in Seq(Directories) /\ Head(todo) \in Directories
  BY <1>1, <1>2, HeadTailProperties
<1>4. /\ c \in Call /\ c.pc = "push" /\ c.todo = Tail(todo) /\ c.handle = calls[t].handle
      /\ c.what = calls[t].what /\ c.usage = calls[t].usage /\ c.name = calls[t].name
      /\ c.overlapped = calls[t].overlapped /\ c.deserved = calls[t].deserved
  BY <1>1, <1>3 DEF Call
<1>5. calls' = [calls EXCEPT ![t] = c]
  BY DEF Push, IInv, TypeOK
<1>6. paths' = Append(paths, Head(todo)) /\ paths' \in Seq(Directories)
  BY <1>2, <1>3 DEF Push
<1>7. paths' \o Tail(todo) = paths \o todo
  BY <1>1, <1>2, <1>6, HeadMoves
<1>8. UNCHANGED <<list, handles, outcomes, legacy, globalError>>
  BY DEF Push
<1>9. AloneInv(t) => paths' \o c.todo = list
  BY <1>1, <1>4, <1>7 DEF AloneInv
<1> HIDE DEF c
<1> QED BY <1>1, <1>4, <1>5, <1>6, <1>8, <1>9, GoesOn DEF IInv, TypeOK

LEMMA LoadStep == \A t \in Threads : IInv /\ Load(t) => IInv'
<1> SUFFICES ASSUME NEW t \in Threads, IInv, Load(t) PROVE IInv'
  OBVIOUS
<1> DEFINE found == FoundIn(paths, calls[t])
           c == [calls[t] EXCEPT !.found = found, !.pc = calls[t].what]
<1>1. calls[t] \in Call /\ Active(t) /\ calls[t].pc = "push" /\ calls[t].todo = <<>>
  BY ActiveCall DEF Load, At, Active
<1>2. paths \in Seq(Directories) /\ found \in Dictionaries \cup {NoDictionary}
  BY <1>1, FirstType DEF IInv, TypeOK, Call, FoundIn
<1>3. /\ c \in Call /\ c.pc = calls[t].what /\ c.found = found /\ c.handle = calls[t].handle
      /\ c.what = calls[t].what /\ c.usage = calls[t].usage /\ c.name = calls[t].name
      /\ c.overlapped = calls[t].overlapped /\ c.deserved = calls[t].deserved
  BY <1>1, <1>2 DEF Call
<1>4. calls' = [calls EXCEPT ![t] = c]
  BY DEF Load, IInv, TypeOK, FoundIn
<1>5. UNCHANGED <<list, paths, handles, outcomes, legacy, globalError>>
  BY DEF Load
<1>6. AloneInv(t) => paths = list
  BY <1>1, <1>2 DEF AloneInv
<1>7. AloneInv(t) => c.found = FoundIn(list, c)
  BY <1>3, <1>6 DEF FoundIn
<1>8. c.pc \in {"create", "set dictionary"}
  BY <1>1, <1>3 DEF Call
<1> HIDE DEF c
<1> QED BY <1>1, <1>2, <1>3, <1>4, <1>5, <1>7, <1>8, GoesOn DEF IInv, TypeOK

LEMMA NotCreatedStep == \A t \in Threads : IInv /\ NotCreated(t) => IInv'
<1> SUFFICES ASSUME NEW t \in Threads, IInv, NotCreated(t) PROVE IInv'
  OBVIOUS
<1> DEFINE c == [calls[t] EXCEPT !.pc = "throw"]
<1>1. calls[t] \in Call /\ Active(t) /\ calls[t].pc = "create" /\ calls[t].found = NoDictionary
  BY ActiveCall DEF NotCreated, At, Active
<1>2. /\ c \in Call /\ c.pc = "throw" /\ c.handle = calls[t].handle
      /\ c.what = calls[t].what /\ c.usage = calls[t].usage /\ c.name = calls[t].name
      /\ c.overlapped = calls[t].overlapped /\ c.deserved = calls[t].deserved
  BY <1>1 DEF Call
<1>3. calls' = [calls EXCEPT ![t] = c]
  BY DEF NotCreated, IInv, TypeOK
<1>4. globalError' = Message(c.usage) /\ globalError' \in {"usage", "dictionary"}
  BY <1>2 DEF NotCreated, Message
<1>5. UNCHANGED <<list, paths, handles, outcomes, legacy>>
  BY DEF NotCreated
<1>6. AloneInv(t) => c.deserved = Thrown(globalError')
  BY <1>1, <1>2, <1>4 DEF AloneInv, FoundIn, LoadDeserved, Message
<1> HIDE DEF c
<1> QED BY <1>1, <1>2, <1>3, <1>4, <1>5, <1>6, GoesOn DEF IInv, TypeOK

(* A call ends: its handle has a true cache, and it got what it deserved   *)
(* if it met no other.                                                     *)
LEMMA Ends ==
  ASSUME IInv, NEW t \in Threads, Active(t), NEW got, End(t, got),
         UNCHANGED <<list, paths, legacy>>, globalError' \in {NoError, "usage", "dictionary"},
         NEW h \in Handles, h = calls[t].handle,
         handles' = [handles EXCEPT ![h] = handles'[h]],
         handles'[h] \in Handle \cup {Closed}, CacheTrue(handles'[h]),
         AloneInv(t) => got = calls[t].deserved
  PROVE  IInv'
<1>1. calls'[t] = Idle /\ \A u \in Threads \ {t} : calls'[u] = calls[u]
  BY DEF IInv, TypeOK, End
<1>2. TypeOK'
  BY DEF IInv, TypeOK, End
<1>3. \A g \in Handles \ {h} : handles'[g] = handles[g]
  BY DEF IInv, TypeOK
<1>4. OwnerInv'
  <2>1. \A u \in Threads : Active(u)' =>
          Active(u) /\ calls'[u] = calls[u] /\ calls[u].handle \in Handles \ {h}
    <3> SUFFICES ASSUME NEW u \in Threads, Active(u)'
                 PROVE  Active(u) /\ calls'[u] = calls[u] /\ calls[u].handle \in Handles \ {h}
      OBVIOUS
    <3>1. u # t /\ calls'[u] = calls[u] /\ Active(u)
      BY <1>1 DEF Active
    <3> QED BY <3>1, ActiveCall DEF IInv, OwnerInv
  <2>2. \A u \in Threads : Active(u)' => handles'[calls'[u].handle] = handles[calls[u].handle]
    BY <1>3, <2>1
  <2> QED BY <2>1, <2>2, ZenonT(60) DEF IInv, OwnerInv
<1>5. CachedTextsTrue'
  BY <1>3 DEF IInv, CachedTextsTrue, CacheTrue
<1>6. LoadInv'
  <2> SUFFICES ASSUME NEW u \in Threads, Active(u)', ~calls'[u].overlapped PROVE FALSE
    BY DEF LoadInv
  <2>1. u # t /\ Active(u) /\ ~calls[u].overlapped
    BY <1>1 DEF Active
  <2>2. Loading = {u}
    BY <2>1 DEF IInv, LoadInv, AloneInv
  <2> QED BY <2>1, <2>2 DEF Loading, Active
<1>7. OutcomeInv'
  <2>1. ~calls[t].overlapped => got = calls[t].deserved
    BY DEF IInv, LoadInv
  <2> DEFINE ending == [got |-> got, deserved |-> calls[t].deserved, overlapped |-> calls[t].overlapped]
  <2>2. outcomes' = [outcomes EXCEPT ![t] = ending]
    BY DEF End
  <2>3. ~ending.overlapped => ending.got = ending.deserved
    BY <2>1
  <2> HIDE DEF ending
  <2> QED BY <2>2, <2>3 DEF IInv, OutcomeInv, OutcomesDeserved
<1> QED BY <1>2, <1>4, <1>5, <1>6, <1>7 DEF IInv

LEMMA CreatedStep == \A t \in Threads : IInv /\ Created(t) => IInv'
<1> SUFFICES ASSUME NEW t \in Threads, IInv, Created(t) PROVE IInv'
  OBVIOUS
<1> DEFINE h == calls[t].handle
           n == New(calls[t].found, DefaultCharset)
<1>1. calls[t] \in Call /\ Active(t) /\ calls[t].pc = "create" /\ calls[t].found # NoDictionary /\ h \in Handles
  BY ActiveCall DEF Created, At, Active
<1>2. handles'[h] = n /\ handles' = [handles EXCEPT ![h] = handles'[h]]
  BY <1>1 DEF Created, IInv, TypeOK
<1>3. n \in Handle /\ CacheTrue(n)
  <2>1. calls[t].found \in Dictionaries /\ DefaultCharset \in Charsets
    BY <1>1, CppHandlesAssumption DEF Call
  <2> QED BY <2>1, NewType DEF New, CacheTrue
<1>4. AloneInv(t) => Returned(calls[t].found) = calls[t].deserved
  BY <1>1 DEF AloneInv, FoundIn, LoadDeserved
<1>5. /\ UNCHANGED <<list, paths, legacy>> /\ globalError' = NoError /\ End(t, Returned(calls[t].found))
  BY DEF Created
<1> HIDE DEF n
<1> QED BY <1>1, <1>2, <1>3, <1>4, <1>5, Ends

LEMMA ThrowStep == \A t \in Threads : IInv /\ Throw(t) => IInv'
<1> SUFFICES ASSUME NEW t \in Threads, IInv, Throw(t) PROVE IInv'
  OBVIOUS
<1> DEFINE h == calls[t].handle
<1>1. calls[t] \in Call /\ Active(t) /\ calls[t].pc = "throw" /\ h \in Handles
  BY ActiveCall DEF Throw, At, Active
<1>2. /\ UNCHANGED <<list, paths, legacy, handles, globalError>>
      /\ End(t, Thrown(LastError(globalError, "cannot")))
  BY DEF Throw
<1>3. /\ handles' = [handles EXCEPT ![h] = handles'[h]]
      /\ handles'[h] \in Handle \cup {Closed} /\ CacheTrue(handles'[h])
  BY <1>1, <1>2 DEF IInv, TypeOK, CachedTextsTrue, CacheTrue
<1>4. AloneInv(t) => Thrown(LastError(globalError, "cannot")) = calls[t].deserved
  BY <1>1, Messages DEF AloneInv, Message
<1> QED BY <1>1, <1>2, <1>3, <1>4, Ends DEF IInv, TypeOK

LEMMA SwitchedStep == \A t \in Threads : IInv /\ Switched(t) => IInv'
<1> SUFFICES ASSUME NEW t \in Threads, IInv, Switched(t) PROVE IInv'
  OBVIOUS
<1> DEFINE h == calls[t].handle
           m == handles[h]
           n == [m EXCEPT !.dict = calls[t].found, !.error = NoError, !.cache = NoTexts]
<1>1. /\ calls[t] \in Call /\ Active(t) /\ calls[t].pc = "set dictionary" /\ calls[t].found # NoDictionary
      /\ h \in Handles
  BY ActiveCall DEF Switched, At, Active
<1>3. m \in Handle
  BY <1>1 DEF IInv, TypeOK, OwnerInv
<1>4. handles'[h] = n /\ handles' = [handles EXCEPT ![h] = handles'[h]]
  BY <1>1 DEF Switched, IInv, TypeOK, ClearCache
<1>5. n \in Handle /\ n.cache = NoTexts
  <2>1. NoTexts \in [Ids -> CachedTexts] /\ NoError \in Errors
    BY DEF CachedTexts, NoTexts, Errors
  <2>2. calls[t].found \in Dictionaries
    BY <1>1 DEF Call
  <2> QED BY <1>3, <2>1, <2>2 DEF Handle
<1>6. CacheTrue(n)
  BY <1>5 DEF CacheTrue, NoTexts
<1>7. AloneInv(t) => Returned(calls[t].found) = calls[t].deserved
  BY <1>1 DEF AloneInv, FoundIn, LoadDeserved
<1>8. UNCHANGED <<list, paths, legacy, globalError>> /\ End(t, Returned(calls[t].found))
  BY DEF Switched
<1> HIDE DEF n
<1> QED BY <1>1, <1>4, <1>5, <1>6, <1>7, <1>8, Ends DEF IInv, TypeOK

LEMMA NotSwitchedStep == \A t \in Threads : IInv /\ NotSwitched(t) => IInv'
<1> SUFFICES ASSUME NEW t \in Threads, IInv, NotSwitched(t) PROVE IInv'
  OBVIOUS
<1> DEFINE h == calls[t].handle
           m == handles[h]
           n == [m EXCEPT !.error = "dictionary"]
<1>1. /\ calls[t] \in Call /\ Active(t) /\ calls[t].pc = "set dictionary" /\ calls[t].found = NoDictionary
      /\ h \in Handles
  BY ActiveCall DEF NotSwitched, At, Active
<1>2. m \in Handle /\ m # Closed
  BY <1>1 DEF IInv, TypeOK, OwnerInv
<1>3. handles'[h] = n /\ handles' = [handles EXCEPT ![h] = handles'[h]]
  BY <1>1 DEF NotSwitched, IInv, TypeOK
<1>4. n \in Handle
  BY <1>2 DEF Handle, Errors
<1>5. CacheTrue(m)
  BY <1>1 DEF IInv, CachedTextsTrue, CacheTrue
<1>6. CacheTrue(n)
  BY <1>2, <1>5 DEF CacheTrue, Handle
<1>7. AloneInv(t) => Thrown(LastError("dictionary", "cannot")) = calls[t].deserved
  BY <1>1, Messages DEF AloneInv, FoundIn, LoadDeserved, IInv, OwnerInv
<1>8. UNCHANGED <<list, paths, legacy, globalError>> /\ End(t, Thrown(LastError("dictionary", "cannot")))
  BY DEF NotSwitched
<1> HIDE DEF n
<1> QED BY <1>1, <1>3, <1>4, <1>6, <1>7, <1>8, Ends DEF IInv, TypeOK

-----------------------------------------------------------------------------
(* The plain C functions, and the list                                     *)

LEMMA LegacyFrame ==
  ASSUME IInv, UNCHANGED <<list, paths, globalError, handles, calls, outcomes>>,
         legacy' \in Legacy \cup {Closed}
  PROVE  IInv'
<1>1. TypeOK'
  BY DEF IInv, TypeOK
<1>2. OwnerInv' /\ CachedTextsTrue' /\ OutcomeInv'
  BY DEF IInv, OwnerInv, CachedTextsTrue, OutcomeInv, OutcomesDeserved, Active
<1>3. LoadInv'
  BY DEF IInv, LoadInv, AloneInv, Active, Loading, LoadDeserved, FoundIn
<1> QED BY <1>1, <1>2, <1>3 DEF IInv

LEMMA OpenLegacyType == IInv => OpenLegacy \in Legacy
<1> SUFFICES ASSUME IInv PROVE OpenLegacy \in Legacy
  OBVIOUS
<1>1. CASE legacy # Closed
  BY <1>1 DEF IInv, TypeOK, OpenLegacy
<1>2. CASE legacy = Closed
  <2>1. FirstHolding(paths, DefaultName) \in Dictionaries \cup {NoDictionary}
    BY FirstType, CppHandlesAssumption DEF IInv, TypeOK
  <2> QED BY <1>2, <2>1, CppHandlesAssumption DEF OpenLegacy, Legacy
<1> QED BY <1>1, <1>2

LEMMA LegacyAnalyseStep ==
  \A t \in Threads, ask \in Asks : IInv /\ LegacyAnalyse(t, ask) => IInv'
<1> SUFFICES ASSUME NEW t \in Threads, NEW ask \in Asks, IInv, LegacyAnalyse(t, ask) PROVE IInv'
  OBVIOUS
<1> DEFINE answer == IF OpenLegacy.dict = NoDictionary THEN NoAnswer ELSE Answer(OpenLegacy.dict, ask)
           answers == {NoAnswer} \cup { Answer(d, a) : d \in Dictionaries, a \in Asks }
<1>1. OpenLegacy \in [dict : Dictionaries \cup {NoDictionary}, charset : Charsets, answer : answers]
  BY OpenLegacyType DEF Legacy
<1>2. answer \in answers
  BY <1>1
<1>3. legacy' = [OpenLegacy EXCEPT !.answer = answer]
  BY DEF LegacyAnalyse
<1>4. legacy' \in Legacy
  <2> HIDE DEF answer, answers
  <2>1. legacy' \in [dict : Dictionaries \cup {NoDictionary}, charset : Charsets, answer : answers]
    BY <1>1, <1>2, <1>3
  <2> QED BY <2>1 DEF Legacy, answers
<1> QED BY <1>4, LegacyFrame DEF LegacyAnalyse

LEMMA LegacySetCharsetStep ==
  \A t \in Threads, charset \in Charsets \cup {Unknown} : IInv /\ LegacySetCharset(t, charset) => IInv'
<1> SUFFICES ASSUME NEW t \in Threads, NEW charset \in Charsets \cup {Unknown}, IInv,
                    LegacySetCharset(t, charset)
             PROVE  IInv'
  OBVIOUS
<1>1. charset \in Charsets => [OpenLegacy EXCEPT !.charset = charset] \in Legacy
  BY OpenLegacyType DEF Legacy
<1>2. legacy' \in Legacy
  BY <1>1, OpenLegacyType DEF LegacySetCharset
<1> QED BY <1>2, LegacyFrame DEF LegacySetCharset

LEMMA SetListStep == \A dirs \in Lists : IInv /\ SetList(dirs) => IInv'
<1> SUFFICES ASSUME NEW dirs \in Lists, IInv, SetList(dirs) PROVE IInv'
  OBVIOUS
<1> USE DEF SetList
<1>1. TypeOK'
  BY DEF IInv, TypeOK
<1>2. OwnerInv' /\ CachedTextsTrue' /\ OutcomeInv'
  BY DEF IInv, OwnerInv, CachedTextsTrue, OutcomeInv, OutcomesDeserved, Active
<1>3. LoadInv'
  BY DEF LoadInv, Active, Loading
<1> QED BY <1>1, <1>2, <1>3 DEF IInv

LEMMA Step == IInv /\ [Next]_vars => IInv'
<1> SUFFICES ASSUME IInv, [Next]_vars PROVE IInv'
  OBVIOUS
<1>1. CASE \E t \in Threads : Uses(t)
  <2> PICK t \in Threads : Uses(t)
    BY <1>1
  <2> PICK h \in Handles :
        \/ \E id \in Ids : GetText(t, h, id)
        \/ \E ask \in Asks : Ask(t, h, ask)
        \/ \E charset \in Charsets \cup {Unknown} : SetCharset(t, h, charset)
        \/ \E clone \in Handles : Clone(t, h, clone)
        \/ Destroy(t, h)
        \/ \E name \in Names, usage \in Usages : CreateInstance(t, h, name, usage)
        \/ \E name \in Names : SetDictionary(t, h, name)
    BY DEF Uses
  <2> QED BY GetTextStep, AskStep, SetCharsetStep, CloneStep, DestroyStep, CreateInstanceStep,
             SetDictionaryStep
<1>2. CASE \E t \in Threads : Plain(t)
  BY <1>2, LegacyAnalyseStep, LegacySetCharsetStep DEF Plain
<1>3. CASE \E t \in Threads : Loads(t)
  BY <1>3, ClearStep, PushStep, LoadStep, CreatedStep, NotCreatedStep, ThrowStep, SwitchedStep,
     NotSwitchedStep DEF Loads
<1>4. CASE \E dirs \in Lists : SetList(dirs)
  BY <1>4, SetListStep
<1>5. CASE UNCHANGED vars
  BY <1>5, LegacyFrame DEF vars, IInv, TypeOK
<1> QED BY <1>1, <1>2, <1>3, <1>4, <1>5 DEF Next

LEMMA Invariant == Spec => []IInv
BY Start, Step, PTL DEF Spec

-----------------------------------------------------------------------------
(* What a handle has cached is what its dictionary and its character set   *)
(* give now, after any calls of any threads on it and on others, those     *)
(* that failed included.                                                   *)
THEOREM CachedTextsAlwaysTrue == Spec => []CachedTextsTrue
<1>1. IInv => CachedTextsTrue
  BY DEF IInv
<1> QED BY <1>1, Invariant, PTL

(* A call throws its own failure and no older one, and loads what the C++  *)
(* list promises, unless another call loads at the same time.              *)
THEOREM OutcomesAlwaysDeserved == Spec => []OutcomesDeserved
<1>1. IInv => OutcomesDeserved
  BY DEF IInv, OutcomeInv
<1> QED BY <1>1, Invariant, PTL

(* Every variable keeps its type: no handle holds a dictionary that is     *)
(* none, nor a text that no dictionary has.                                *)
THEOREM CppTypeCorrect == Spec => []TypeOK
<1>1. IInv => TypeOK
  BY DEF IInv
<1> QED BY <1>1, Invariant, PTL
=============================================================================
