---------------------------- MODULE TextAnalysis ----------------------------
(***************************************************************************)
(* How the engine cuts a text and numbers the nodes of the answer.  With a *)
(* dictionary in memory the text is cut into words, marks and spaces, and  *)
(* neighbours are joined again when the dictionary knows them together or, *)
(* around hyphens, when it knows neither; a word that ends in an           *)
(* agglutinate becomes a graph of all its known slices.  With a binary     *)
(* dictionary the text is cut at spaces only and the dictionary answers    *)
(* for each word.  Spaces are skipped, kept as edges of their own, or      *)
(* attached to the words around them.                                      *)
(*                                                                         *)
(* The answer is the set of its interpretations; their order is left out.  *)
(***************************************************************************)
EXTENDS TsvDictionary

CONSTANTS
  Texts(_),       (* what a session may be given after so many texts       *)
  Whitespace, WordChars,
  AgltTags,       (* the tags that begin with "aglt:"                      *)
  NativeWord(_),  (* the answer of a binary dictionary for a word          *)
  MaxTexts,       (* how many texts a session is given                     *)
  NoEngine

VARIABLES
  engine,    (* [native, whitespace, numbering] of the session             *)
  asked,     (* how many texts the session was given                       *)
  next,      (* the node at which it continues                             *)
  running,   (* whether it is at the last of the texts                     *)
  text, segments, index,
  start, node, answer

session == <<engine, asked, next, running>>
cutting == <<text, segments, index>>
answering == <<start, node, answer>>
vars == <<dictVars, session, cutting, answering>>

Modes == {"skip", "keep", "append"}
-----------------------------------------------------------------------------
(* Cutting the text. *)

(* A text in pieces, the first and those that begin at a cut.              *)
Pieces(t, cuts) ==
  LET starts == (cuts \cup {1}) \cap DOMAIN t
      Start(k) == CHOOSE i \in starts : Cardinality({j \in starts : j <= i}) = k
      End(i) == Min({j \in starts : j > i} \cup {Len(t) + 1}) - 1
  IN [k \in 1..Cardinality(starts) |-> SubSeq(t, Start(k), End(Start(k)))]

IsSpace(piece) == piece[1] \in Whitespace
IsWord(piece) == \A i \in DOMAIN piece : piece[i] \in WordChars

Tokenize(t) ==
  Pieces(t, { i \in 2 .. Len(t) : \A kind \in {Whitespace, WordChars} : ~ {t[i - 1], t[i]} \subseteq kind })
WhitespaceRuns(t) ==
  Pieces(t, { i \in 2 .. Len(t) : (t[i - 1] \in Whitespace) # (t[i] \in Whitespace) })

(* Positions are the first after a span, as in the code. *)
RunEnd(i) ==
  LET spaces == {j \in i..Len(segments) : IsSpace(segments[j])}
  IN IF spaces = {} THEN Len(segments) + 1 ELSE Min(spaces)
Join(i, end) == FlattenSeq(SubSeq(segments, i, end - 1))
Known(orth) == orth \in DOMAIN byOrth
AnyTagged(orth, tags) == \E e \in ToSet(Lookup(orth)) : Tag(e) \in tags

KnownJoins(i) == {end \in i + 2..RunEnd(i) : Known(Join(i, end))}
(* Mutant: the first join that is known. *)
ShortestKnownJoin(i) == Min(KnownJoins(i))

LongestKnownJoin(i) == Max(KnownJoins(i))

HyphenatedSpans(i) ==
  {end \in i + 3..RunEnd(i) :
     (end - i) % 2 = 1 /\ \A j \in i..end - 1 :
       IF (j - i) % 2 = 0 THEN IsWord(segments[j]) ELSE segments[j] = <<"-">>}
CanDecompose(i, end) ==
  /\ end - i = 3
  /\ AnyTagged(segments[i], {"adja"}) /\ AnyTagged(segments[i + 2], AdjTags)
UnknownSpans(i) ==
  {end \in HyphenatedSpans(i) :
     (\A other \in HyphenatedSpans(i) : other <= end) /\ ~CanDecompose(i, end)}
-----------------------------------------------------------------------------
(* The interpretations of one piece. *)

Space(n, orth) == Edge(n, n + 1, orth, orth, 1)

Uppercase(t) == [i \in DOMAIN t |-> Upper[t[i]]]

Repeated(c, most) == {[i \in 1..n |-> c] : n \in 0..most}
Concatenated(S, T) == {s \o t : s \in S, t \in T}
Rank(one, five, ten) ==
  {<<one, ten>>, <<one, five>>} \cup Concatenated(Repeated(five, 1), Repeated(one, 3))
RomanNumerals ==
  Concatenated(Concatenated(Repeated("M", 3), Rank("C", "D", "M")),
               Concatenated(Rank("X", "L", "C"), Rank("I", "V", "X"))) \ {<<>>}

IsRoman(t) == HasId(resolver.tags, "romandig") /\ Uppercase(t) \in RomanNumerals

TokenEdges(lookup, orth, n) ==
  IF IsDigits(lookup)
  THEN {Number(lookup, n, n + 1, orth)}
  ELSE IF IsRoman(lookup)
  THEN {Edge(n, n + 1, orth, Uppercase(lookup), Id(resolver.tags, "romandig"))}
  ELSE IF Known(lookup)
  THEN {EntryEdge(e, n, n + 1, orth) : e \in ToSet(Lookup(lookup))}
  ELSE {Edge(n, n + 1, orth, lookup, 0)}

(* The known slices of a token; each ends after the place it starts at. *)
Slice(token, s) == SubSeq(token, s[1] + 1, s[2])
KnownSlices(token) ==
  {s \in (0..Len(token)) \X (0..Len(token)) : s[1] < s[2] /\ Known(Slice(token, s))}
HasAgltSuffix(token) ==
  \E s \in KnownSlices(token) : s[1] > 0 /\ AnyTagged(Slice(token, s), AgltTags)
GraphBoundaries(token) == {0, Len(token)} \cup UNION {{s[1], s[2]} : s \in KnownSlices(token)}
BoundaryIndex(token, b) == Cardinality({c \in GraphBoundaries(token) : c < b})

InWordGraph(token, n) ==
  UNION {{EntryEdge(e, n + BoundaryIndex(token, s[1]), n + BoundaryIndex(token, s[2]),
                    Slice(token, s)) : e \in ToSet(Lookup(Slice(token, s)))} :
         s \in KnownSlices(token)}

(* What an answer promises: its nodes, from the first to the last, stand   *)
(* at places of the text, its edges lead forward and say what is between   *)
(* the places of their nodes.                                              *)
SpelledBy(edges, from, to, t) ==
  \E place \in [from..to -> 0..Len(t)] :
    /\ place[from] = 0 /\ place[to] = Len(t)
    /\ \A e \in edges :
         /\ e.start \in from..to /\ e.end \in e.start + 1..to
         /\ place[e.start] <= place[e.end]
         /\ e.orth = SubSeq(t, place[e.start] + 1, place[e.end])

(* The last node is one of those that edges reach from the first.          *)
Reaching(edges, from, to) ==
  \A nodes \in SUBSET (from..to) :
    from \in nodes /\ (\A e \in edges : e.start \in nodes => e.end \in nodes) => to \in nodes

(* The characters of words are no spaces.                                  *)
ASSUME TextsAssumption ==
  /\ Whitespace \cap WordChars = {}
  /\ MaxTexts \in Nat
  /\ \A n \in 0..MaxTexts - 1 : \A t \in Texts(n) : t \in Seq(DOMAIN Lower)

(* The answer of a binary dictionary for a word begins at node 0, spells   *)
(* the word and has a path, as an inflexion graph does.                    *)
ASSUME NativeWordAssumption ==
  \A n \in 0..MaxTexts - 1 : \A t \in Texts(n) : \A w \in ToSet(WhitespaceRuns(t)) :
    ~IsSpace(w) =>
      LET word == NativeWord(w)
      IN /\ word.nodes \in Nat
         /\ \A e \in word.edges : e = Edge(e.start, e.end, e.orth, e.lemma, e.tagId)
         /\ SpelledBy(word.edges, 0, word.nodes, w)
         /\ Reaching(word.edges, 0, word.nodes)

(* Mutant: spaces on every interpretation of the word. *)
AppendToAll(edges, leading, trailing) ==
  {[e EXCEPT !.orth = leading \o @ \o trailing] : e \in edges}

AppendWhitespace(edges, leading, trailing) ==
  {[e EXCEPT !.orth =
      (IF \A f \in edges : e.start <= f.start THEN leading ELSE <<>>) \o @ \o
      (IF \A f \in edges : e.end >= f.end THEN trailing ELSE <<>>)] : e \in edges}
-----------------------------------------------------------------------------
(* The session. *)

Init ==
  /\ DictInit
  /\ engine = NoEngine /\ asked = 0 /\ next = 0 /\ running = FALSE
  /\ text = <<>> /\ segments = <<>> /\ index = 1
  /\ start = 0 /\ node = 0 /\ answer = {}

Open ==
  /\ phase = "ready" /\ engine = NoEngine
  /\ engine' \in [native : BOOLEAN, whitespace : Modes, numbering : {"separate", "continuous"}]
  /\ UNCHANGED <<dictVars, asked, next, running, cutting, answering>>

Analyze(t) ==
  /\ engine # NoEngine /\ ~running /\ asked < MaxTexts
  /\ asked' = asked + 1 /\ running' = TRUE
  /\ start' = IF engine.numbering = "separate" THEN 0 ELSE next
  /\ node' = start' /\ answer' = {}
  /\ text' = t /\ index' = 1
  /\ segments' = IF engine.native THEN WhitespaceRuns(t) ELSE Tokenize(t)
  /\ UNCHANGED <<dictVars, engine, next>>

ResetNumbering ==
  /\ ~running /\ next # 0
  /\ next' = 0
  /\ UNCHANGED <<dictVars, engine, asked, running, cutting, answering>>

At(i) == running /\ index = i /\ i <= Len(segments)
AtWord(i) == At(i) /\ ~IsSpace(segments[i])

(* The loops' steps: edges for the segments from index on, up to another,  *)
(* and the nodes they take.                                                *)
Advance(end, edges, nodes) ==
  /\ answer' = answer \cup edges
  /\ node' = node + nodes
  /\ index' = end
  /\ UNCHANGED <<dictVars, session, text, segments, start>>

(* push_segment_interpretations and push_token_interpretations of a text   *)
(* to which no spaces are attached.                                        *)
AdvanceSegment(end, orth) ==
  IF HasAgltSuffix(orth)
  THEN Advance(end, InWordGraph(orth, node), Cardinality(GraphBoundaries(orth)) - 1)
  ELSE Advance(end, TokenEdges(orth, orth, node), 1)

SkipSpaces ==
  \E i \in DOMAIN segments :
    /\ At(i) /\ IsSpace(segments[i])
    /\ engine.whitespace = "skip" \/ (engine.whitespace = "append" /\ engine.native)
    /\ Advance(i + 1, {}, 0)

KeepSpaces ==
  \E i \in DOMAIN segments :
    /\ At(i) /\ IsSpace(segments[i]) /\ engine.whitespace = "keep"
    /\ Advance(i + 1, {Space(node, segments[i])}, 1)

InMemoryWord(i) == AtWord(i) /\ ~engine.native /\ engine.whitespace # "append"

KnownJoin ==
  \E i \in DOMAIN segments :
    /\ InMemoryWord(i) /\ KnownJoins(i) # {}
    /\ AdvanceSegment(LongestKnownJoin(i), Join(i, LongestKnownJoin(i)))

UnknownSpan ==
  \E i \in DOMAIN segments :
    /\ InMemoryWord(i) /\ KnownJoins(i) = {}
    /\ \E end \in UnknownSpans(i) : Advance(end, TokenEdges(Join(i, end), Join(i, end), node), 1)

OneSegment ==
  \E i \in DOMAIN segments :
    /\ InMemoryWord(i) /\ KnownJoins(i) = {} /\ UnknownSpans(i) = {}
    /\ AdvanceSegment(i + 1, segments[i])

(* The spaces at a position, if any. *)
SpacesAt(i) == IF i \in DOMAIN segments /\ IsSpace(segments[i]) THEN segments[i] ELSE <<>>
After(i) == IF SpacesAt(i) = <<>> THEN i ELSE i + 1

(* Segments are taken one by one here: neighbours are not joined. *)
AppendSpaces ==
  LET i == After(index)
      orth == SpacesAt(index) \o segments[i] \o SpacesAt(i + 1)
  IN /\ At(index) /\ ~engine.native /\ engine.whitespace = "append"
     /\ i <= Len(segments)
     /\ IF orth = segments[i]
        THEN AdvanceSegment(i + 1, orth)
        ELSE Advance(After(i + 1), TokenEdges(segments[i], orth, node), 1)

(* Spaces and nothing else. *)
AppendNothing ==
  /\ At(index) /\ ~engine.native /\ engine.whitespace = "append"
  /\ After(index) > Len(segments)
  /\ Advance(After(index), {}, 0)

(* The spaces before the first word go with it, all others with the word   *)
(* they follow.                                                            *)
AnalyzeNativeWord ==
  \E i \in DOMAIN segments :
    /\ AtWord(i) /\ engine.native
    /\ LET word == NativeWord(segments[i])
           edges == {[e EXCEPT !.start = @ + node, !.end = @ + node] : e \in word.edges}
           leading == IF i = 2 THEN SpacesAt(1) ELSE <<>>
       IN Advance(i + 1,
                  IF engine.whitespace = "append"
                  THEN AppendWhitespace(edges, leading, SpacesAt(i + 1)) ELSE edges,
                  word.nodes)

Return ==
  /\ running /\ index > Len(segments)
  /\ running' = FALSE
  /\ next' = IF engine.numbering = "continuous" THEN node ELSE next
  /\ UNCHANGED <<dictVars, engine, asked, cutting, answering>>

Step ==
  \/ SkipSpaces \/ KeepSpaces
  \/ KnownJoin \/ UnknownSpan \/ OneSegment
  \/ AppendSpaces \/ AppendNothing \/ AnalyzeNativeWord \/ Return

Ask == Open \/ ResetNumbering \/ \E t \in Texts(asked) : Analyze(t)

Next ==
  \/ (Load /\ UNCHANGED <<session, cutting, answering>>)
  \/ Ask
  \/ Step

Spec == Init /\ [][Next]_vars
-----------------------------------------------------------------------------
Answered == asked > 0 /\ ~running

(* What the paths of the answer from each node to its last node spell. *)
Spellings ==
  LET from[n \in start..node] ==
        IF n = node THEN {<<>>}
        ELSE UNION {{e.orth \o rest : rest \in from[e.end]} : e \in {e \in answer : e.start = n}}
  IN from[start]

Unspaced(t) == Each(t, LAMBDA c : If(c \notin Whitespace, <<c>>))
ToSpell ==
  IF engine.whitespace = "skip" \/ (engine.whitespace = "append" /\ Unspaced(text) = <<>>)
  THEN Unspaced(text) ELSE text

(* A slice of the text that the dictionary in memory reads as an           *)
(* agglutinate; the graph of known slices around it may have gaps.         *)
Agglutinated ==
  ~engine.native /\ \E i, j \in DOMAIN text : AnyTagged(SubSeq(text, i, j), AgltTags)

(* Whatever is cut, joined, attached and renumbered, and wherever the      *)
(* session starts: edges lead forward within the answer's nodes, each path *)
(* through it spells the text, no character lost, doubled or out of order, *)
(* spaces as the mode says; and there is a path, except where the code     *)
(* puts a graph of known slices that may have gaps.                        *)
TextSpelled ==
  Answered =>
    /\ \A e \in answer : start <= e.start /\ e.start < e.end /\ e.end <= node
    /\ Spellings \subseteq {ToSpell}
    /\ Spellings = {} => Agglutinated

(* What the dictionary in memory is to find as a whole: a text between     *)
(* spaces or, where spaces are attached and neighbours never joined, a     *)
(* single segment, whatever spaces are with it.                            *)
Wholes == IF engine.whitespace = "append" THEN Tokenize(text) ELSE WhitespaceRuns(text)
Bare(orth) == IF engine.whitespace = "append" THEN Unspaced(orth) ELSE orth

(* With spaces skipped or kept, a text between spaces that the dictionary  *)
(* in memory knows is found as a whole, with all its readings, though      *)
(* hyphens cut it into segments and parts of it are known as well.  With   *)
(* spaces attached this is said of single segments only: a known word with *)
(* a hyphen in it is then not looked for.  Numbers, of digits or Roman,    *)
(* are read as such in every mode.                                         *)
KnownRunsFound ==
  Answered /\ ~engine.native =>
    \A i \in DOMAIN Wholes :
      LET run == Wholes[i]
      IN ~IsSpace(run) /\ Known(run) /\ ~IsDigits(run) /\ ~IsRoman(run) =>
           \A e \in ToSet(Lookup(run)) : \E f \in answer :
             f = EntryEdge(e, f.start, f.end, f.orth) /\ Bare(f.orth) = run
=============================================================================
