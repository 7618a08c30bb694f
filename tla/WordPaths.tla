------------------------------ MODULE WordPaths ------------------------------
(***************************************************************************)
(* How process_one_word takes one word apart: the depth-first search for   *)
(* its segmentations ("paths") through the dictionary and the segmentation *)
(* rules, and what becomes of a word that has none, which is split at      *)
(* separators and searched part by part.                                   *)
(*                                                                         *)
(* A frame is one activation of collect_segmented_analyzer_paths with the  *)
(* place its two loops have reached: the prefixes of the rest of the word  *)
(* that the dictionary knows, shortest first, and for each of them its     *)
(* interpretation groups.  The word is lowercased character by character,  *)
(* so a position in one is a position in the other.                        *)
(***************************************************************************)
EXTENDS Integers, Sequences

CONSTANTS
  Chars,       (* the characters of words                                  *)
  Lower,       (* Lower[c]: c in lower case                                *)
  Separators,  (* the dictionary's separator characters                    *)
  Types,       (* segment types                                            *)
  Dictionary,  (* Dictionary[w]: the groups of the lowercased word w       *)
  RuleStates,  (* states of the segmentation rules' automaton              *)
  InitialState,
  RuleSets,    (* the automata that options may select                     *)
  Words        (* the words asked about                                    *)

(* A group: its segment type and its interpretations' case patterns, each  *)
(* the set of places that want an uppercase character.                     *)
Pattern    == SUBSET (Nat \ {0})
Group      == [segment_type : Types, patterns : Seq(Pattern)]
Transition == [segment_type : Types, shift : BOOLEAN, to : RuleStates]
Rules      == [RuleStates -> [accepting : BOOLEAN, weak : BOOLEAN, transitions : Seq(Transition)]]
CaseModes  == {"conditional", "strict", "ignore"}

ASSUME WordPathsAssumption ==
  /\ Lower \in [Chars -> Chars] /\ \A c \in Chars : Lower[Lower[c]] = Lower[c]
  /\ Separators \subseteq Chars
  /\ Dictionary = [w \in DOMAIN Dictionary |-> Dictionary[w]]
  /\ \A w \in DOMAIN Dictionary : Dictionary[w] \in Seq(Group)
  /\ InitialState \in RuleStates
  /\ RuleSets \subseteq Rules
  /\ Words \subseteq Seq(Chars) \ {<<>>}

VARIABLES
  word, case, rules,  (* what process_one_word is called with              *)
  part,               (* the part of the word it is at: the whole at first *)
  inside,             (* inside_ign_handler                                *)
  index, run_start, pending,  (* the loop of handle_ign_chunk: where it is, *)
                      (* where a run starts, the run (s, e) if there is one *)
  back,               (* where process_one_word returns to                 *)
  frames,             (* the search's activations, the innermost one last  *)
  paths,              (* the segmentations found so far                    *)
  answer,             (* the parts answered, their paths and which of them *)
                      (* the case handling keeps                           *)
  pc

call == <<word, case, rules>>
loop == <<index, run_start, pending>>
splitting == <<inside, loop, back>>
vars == <<call, part, splitting, frames, paths, answer, pc>>

-----------------------------------------------------------------------------
(* The dictionary, the rules and letter case                               *)

Piece(from, to)   == [from |-> from, to |-> to]
IsSeparator(i)    == word[i] \in Separators
Lowered(from, to) == [k \in 1 .. to - from + 1 |-> Lower[word[from + k - 1]]]

(* The groups of the word's text from one position to another.             *)
GroupsAt(from, to) ==
  IF Lowered(from, to) \in DOMAIN Dictionary THEN Dictionary[Lowered(from, to)] ELSE <<>>

(* find_transition reads a state's transitions from the last one.          *)
IsTransition(state, type, i) ==
  LET transitions == rules[state].transitions IN
  /\ i \in DOMAIN transitions
  /\ transitions[i].segment_type = type
  /\ \A j \in i + 1 .. Len(transitions) : transitions[j].segment_type # type

Sink(state) == rules[state].transitions = <<>>

(* Mutant: a word may end in any state. *)
AllowsAnyEnd(state, at_end) == at_end \/ ~Sink(state)

Allows(state, at_end) == IF at_end THEN rules[state].accepting ELSE ~Sink(state)

(* proceed_to_next: the transition, if the state it leads to will do.      *)
Proceeds(state, type, at_end) ==
  { rules[state].transitions[i] : i \in
      { k \in DOMAIN rules[state].transitions :
          IsTransition(state, type, k) /\ Allows(rules[state].transitions[k].to, at_end) } }

(* matches_orth: the text has an uppercase character wherever the pattern  *)
(* wants one.                                                              *)
PatternMatches(from, to, pattern) ==
  \A k \in pattern : /\ from + k - 1 <= to
                     /\ Lower[word[from + k - 1]] # word[from + k - 1]

Matching(from, to, group) ==
  { i \in DOMAIN group.patterns : PatternMatches(from, to, group.patterns[i]) }

(* for_each_case_compatible_interpretation. *)
Compatible(from, to, group) ==
  LET matching == Matching(from, to, group) IN
  IF case = "ignore" \/ (case = "conditional" /\ matching = {})
  THEN DOMAIN group.patterns ELSE matching

GroupOf(chunk)     == GroupsAt(chunk.from, chunk.to)[chunk.group]
CaseMatches(chunk) == Matching(chunk.from, chunk.to, GroupOf(chunk)) # {}

(* Strict case handling drops a path with a chunk of the wrong case.       *)
Retained(found) ==
  { i \in DOMAIN found :
      case = "strict" => \A c \in DOMAIN found[i].chunks : CaseMatches(found[i].chunks[c]) }

-----------------------------------------------------------------------------
None == [s |-> 0, e |-> 0]

Init ==
  /\ word \in Words
  /\ case \in CaseModes
  /\ rules \in RuleSets
  /\ part = Piece(1, Len(word))
  /\ inside = FALSE
  /\ index = 1 /\ run_start = 1 /\ pending = None
  /\ back = "done"
  /\ frames = <<>>
  /\ paths = <<>>
  /\ answer = <<>>
  /\ pc = "word"

(* One activation of the search, at its first prefix's first group.        *)
Enter(at, state, chunks) ==
  [at |-> at, state |-> state, chunks |-> chunks, end |-> at, group |-> 1]

StartSearch ==
  /\ pc = "word" /\ ~Sink(InitialState)
  /\ frames' = <<Enter(part.from, InitialState, <<>>)>>
  /\ paths' = <<>>
  /\ pc' = "search"
  /\ UNCHANGED <<call, part, splitting, answer>>

(* Without rules the whole word is looked up: lookup_word_interpretations. *)
WholeWord(g) ==
  [chunks |-> <<[from |-> part.from, to |-> part.to, group |-> g, shift |-> FALSE]>>, weak |-> FALSE]

LookUp ==
  /\ pc = "word" /\ Sink(InitialState)
  /\ LET groups == GroupsAt(part.from, part.to) IN
     answer' = Append(answer,
       [part |-> part, paths |-> [g \in DOMAIN groups |-> WholeWord(g)],
        kept |-> { g \in DOMAIN groups : Compatible(part.from, part.to, groups[g]) # {} }])
  /\ pc' = back
  /\ UNCHANGED <<call, part, splitting, frames, paths>>

-----------------------------------------------------------------------------
(* The search                                                              *)

Depth  == Len(frames)
Top    == frames[Depth]
AtEnd  == Top.end = part.to
Groups == GroupsAt(Top.at, Top.end)

Searching == pc = "search" /\ frames # <<>> /\ Top.end <= part.to
Trying    == Searching /\ Top.group \in DOMAIN Groups
Allowed   == Proceeds(Top.state, Groups[Top.group].segment_type, AtEnd)

(* Mutant: a prefix is left after one of its groups. *)
FirstGroupOnly == [frames EXCEPT ![Depth].end = @ + 1, ![Depth].group = 1]

NextGroup == [frames EXCEPT ![Depth].group = @ + 1]

Extended(shift) ==
  Append(Top.chunks, [from |-> Top.at, to |-> Top.end, group |-> Top.group, shift |-> shift])

(* The rules refuse the group.                                             *)
Refuse ==
  /\ Trying /\ Allowed = {}
  /\ frames' = NextGroup
  /\ UNCHANGED <<call, part, splitting, paths, answer, pc>>

(* A group at the end of the word completes a path.                        *)
Accept ==
  /\ Trying /\ AtEnd
  /\ \E t \in Allowed :
       paths' = Append(paths, [chunks |-> Extended(t.shift), weak |-> rules[t.to].weak])
  /\ frames' = NextGroup
  /\ UNCHANGED <<call, part, splitting, answer, pc>>

(* Otherwise the search goes on behind it, and resumes here afterwards.    *)
Descend ==
  /\ Trying /\ ~AtEnd
  /\ \E t \in Allowed :
       frames' = Append(NextGroup, Enter(Top.end + 1, t.to, Extended(t.shift)))
  /\ UNCHANGED <<call, part, splitting, paths, answer, pc>>

(* No more groups: on to a longer prefix.                                  *)
NextPrefix ==
  /\ Searching /\ Top.group \notin DOMAIN Groups
  /\ frames' = [frames EXCEPT ![Depth].end = @ + 1, ![Depth].group = 1]
  /\ UNCHANGED <<call, part, splitting, paths, answer, pc>>

Leave ==
  /\ pc = "search" /\ frames # <<>> /\ Top.end > part.to
  /\ frames' = SubSeq(frames, 1, Depth - 1)
  /\ UNCHANGED <<call, part, splitting, paths, answer, pc>>

-----------------------------------------------------------------------------
(* What becomes of the part once it is searched                            *)

Searched == pc = "search" /\ frames = <<>>

(* Answers the part with some of the paths; none stand for one ignotium.   *)
Answer(kept) ==
  /\ answer' = Append(answer, [part |-> part, paths |-> paths, kept |-> kept])
  /\ pc' = back
  /\ UNCHANGED <<call, part, splitting, frames, paths>>

Found == Searched /\ paths # <<>> /\ Answer(Retained(paths))

HasSeparator == \E i \in part.from .. part.to : IsSeparator(i)

(* Mutant: unknown parts are split again. *)
SplitsAgain == HasSeparator

Splits == ~inside /\ HasSeparator

Unknown == Searched /\ paths = <<>> /\ ~Splits /\ Answer({})

-----------------------------------------------------------------------------
(* handle_ign_chunk: the word is gone through character by character and   *)
(* its runs and separators are processed as words of their own.  As in the *)
(* code a slice (s, e) ends before e.  What a call does not see is set     *)
(* before it where the code sets it afterwards.                            *)

Split ==
  /\ Searched /\ paths = <<>> /\ Splits
  /\ inside' = TRUE
  /\ index' = 1 /\ run_start' = 1 /\ pending' = None
  /\ pc' = "split"
  /\ UNCHANGED <<call, part, back, frames, paths, answer>>

ProcessSlice(s, e, after) ==
  /\ part' = Piece(s, e - 1)
  /\ back' = after
  /\ pc' = "word"
  /\ UNCHANGED <<call, inside, frames, paths, answer>>

AtChar     == pc = "split" /\ index <= Len(word)
AfterChars == pc = "split" /\ index > Len(word)
CharEnd    == index + 1

(* Another character begins or extends the pending run.                    *)
ExtendRun ==
  /\ AtChar /\ ~IsSeparator(index)
  /\ pending' = [s |-> IF pending = None THEN run_start ELSE pending.s, e |-> CharEnd]
  /\ index' = CharEnd
  /\ UNCHANGED <<call, part, inside, back, run_start, frames, paths, answer, pc>>

(* Mutant: the run is not taken from what is pending. *)
RunKept ==
  /\ AtChar /\ IsSeparator(index) /\ pending # None
  /\ ProcessSlice(pending.s, pending.e, "separator")
  /\ UNCHANGED loop

(* A separator ends the pending run, which is processed first ...          *)
TakeRun ==
  /\ AtChar /\ IsSeparator(index) /\ pending # None
  /\ pending' = None
  /\ ProcessSlice(pending.s, pending.e, "separator")
  /\ UNCHANGED <<index, run_start>>

AtSeparator == pc = "separator" \/ (AtChar /\ IsSeparator(index) /\ pending = None)

(* Mutant: the next run starts at the separator. *)
RunFromSeparator ==
  /\ AtSeparator
  /\ ProcessSlice(index, CharEnd, "split")
  /\ run_start' = index /\ index' = CharEnd
  /\ UNCHANGED pending

(* ... and is a part itself, behind which the next run starts.             *)
Separator ==
  /\ AtSeparator
  /\ ProcessSlice(index, CharEnd, "split")
  /\ run_start' = CharEnd /\ index' = CharEnd
  /\ UNCHANGED pending

(* What is pending after the last character.                               *)
LastRun ==
  /\ AfterChars /\ pending # None
  /\ ProcessSlice(pending.s, pending.e, "done")
  /\ UNCHANGED loop

AllSplit ==
  /\ AfterChars /\ pending = None
  /\ pc' = "done"
  /\ UNCHANGED <<call, part, splitting, frames, paths, answer>>

Next ==
  \/ StartSearch \/ LookUp
  \/ Refuse \/ Accept \/ Descend \/ NextPrefix \/ Leave
  \/ Found \/ Unknown
  \/ Split \/ ExtendRun \/ TakeRun \/ Separator \/ LastRun \/ AllSplit

Spec == Init /\ [][Next]_vars /\ WF_vars(Next)

-----------------------------------------------------------------------------
(* Properties                                                              *)

Position == 1 .. Len(word)
Parts == { p \in [from : Position, to : Position] : p.from <= p.to }
Chunk == [from : Position, to : Position, group : Nat \ {0}, shift : BOOLEAN]
Path  == [chunks : Seq(Chunk), weak : BOOLEAN]
Frame == [at : Position, state : RuleStates, chunks : Seq(Chunk),
          end : 1 .. Len(word) + 1, group : Nat \ {0}]

SplittingOK ==
  /\ inside \in BOOLEAN
  /\ index \in 1 .. Len(word) + 1 /\ run_start \in 1 .. Len(word) + 1
  /\ pending \in [s : Position, e : 2 .. Len(word) + 1] \cup {None}
  /\ back \in {"split", "separator", "done"}

TypeOK ==
  /\ word \in Words /\ case \in CaseModes /\ rules \in RuleSets
  /\ part \in Parts
  /\ SplittingOK
  /\ frames \in Seq(Frame)
  /\ paths \in Seq(Path)
  /\ answer \in Seq([part : Parts, paths : Seq(Path), kept : SUBSET Nat])
  /\ pc \in {"word", "search", "split", "separator", "done"}

(* The chunks follow on from each other and each is a group that the       *)
(* dictionary has for its text.                                            *)
Chained(p, chunks) ==
  \A i \in DOMAIN chunks :
    /\ chunks[i].from = IF i = 1 THEN p.from ELSE chunks[i - 1].to + 1
    /\ chunks[i].from <= chunks[i].to /\ chunks[i].to <= p.to
    /\ chunks[i].group \in DOMAIN GroupsAt(chunks[i].from, chunks[i].to)

Leads(state, chunk, next) ==
  \E k \in DOMAIN rules[state].transitions :
    /\ IsTransition(state, GroupOf(chunk).segment_type, k)
    /\ rules[state].transitions[k].shift = chunk.shift
    /\ rules[state].transitions[k].to = next

(* The rules lead along the chunks through the states of a run.            *)
IsRun(chunks, run) ==
  run[0] = InitialState /\ \A i \in DOMAIN chunks : Leads(run[i - 1], chunks[i], run[i])

Segments(p, path, run) ==
  LET last == Len(path.chunks) IN
  /\ last > 0 /\ path.chunks[last].to = p.to
  /\ Chained(p, path.chunks)
  /\ IsRun(path.chunks, run)
  /\ rules[run[last]].accepting /\ path.weak = rules[run[last]].weak

IsSegmentation(p, path) ==
  \E run \in [0 .. Len(path.chunks) -> RuleStates] : Segments(p, path, run)

(* Every path the search returns is a way to write the part as dictionary  *)
(* segments that the rules accept, and is weak if they say so.             *)
PathsSound == pc = "search" => \A i \in DOMAIN paths : IsSegmentation(part, paths[i])

(* All the ways to write a part as dictionary segments that the rules lead *)
(* along: what can follow position i in state s, shorter chunks first.     *)
ChunksFrom(i, p) ==
  UNION { { [from |-> i, to |-> j, group |-> g, shift |-> s] :
              g \in DOMAIN GroupsAt(i, j), s \in BOOLEAN } : j \in i .. p.to }

Ended(s) == IF rules[s].accepting THEN {[chunks |-> <<>>, weak |-> rules[s].weak]} ELSE {}

Steps(i, s, p) == { c \in ChunksFrom(i, p) \X RuleStates : Leads(s, c[1], c[2]) }

Prefixed(chunk, rests) == { [chunks |-> <<chunk>> \o r.chunks, weak |-> r.weak] : r \in rests }

Segmentations(p) ==
  LET rest[i \in p.from .. p.to + 1] ==
        [s \in RuleStates |->
           IF i = p.to + 1 THEN Ended(s)
           ELSE UNION { Prefixed(c[1], rest[c[1].to + 1][c[2]]) : c \in Steps(i, s, p) }]
  IN  rest[p.from][InitialState]

RightCase(path) ==
  case = "strict" => \A i \in DOMAIN path.chunks : CaseMatches(path.chunks[i])

Before(p, q) ==
  \E i \in DOMAIN p.chunks \cap DOMAIN q.chunks :
    /\ \A j \in 1 .. i - 1 : p.chunks[j] = q.chunks[j]
    /\ \/ p.chunks[i].to < q.chunks[i].to
       \/ p.chunks[i].to = q.chunks[i].to /\ p.chunks[i].group < q.chunks[i].group

(* Each part is answered with all its segmentations of the right case, and *)
(* with an ignotium only when it has none; shorter first chunks come first *)
(* and no path comes twice.  Only a word without segmentations is split.   *)
AnswersDeserved ==
  ~Sink(InitialState) =>
    /\ \A k \in DOMAIN answer :
         LET found == answer[k].paths
             kept  == answer[k].kept IN
         /\ { found[i] : i \in kept } = { s \in Segmentations(answer[k].part) : RightCase(s) }
         /\ \A i, j \in kept : i < j => Before(found[i], found[j])
    /\ inside => Segmentations(Piece(1, Len(word))) = {}

(* The parts answered follow on from each other and, in the end, cover the *)
(* word: no character is lost or answered twice.                           *)
AnswerCovers ==
  /\ \A k \in DOMAIN answer :
       answer[k].part.from = IF k = 1 THEN 1 ELSE answer[k - 1].part.to + 1
  /\ pc = "done" => answer # <<>> /\ answer[Len(answer)].part.to = Len(word)

(* A run without separators that neither side can make longer.             *)
LongestRun(p) ==
  /\ \A i \in p.from .. p.to : ~IsSeparator(i)
  /\ p.from > 1 => IsSeparator(p.from - 1)
  /\ p.to < Len(word) => IsSeparator(p.to + 1)

IsPart(p) == (p.from = p.to /\ IsSeparator(p.from)) \/ LongestRun(p)

(* Whatever the loop of handle_ign_chunk keeps pending, a word is split    *)
(* into single separators and the longest runs between them, and answered  *)
(* as a whole if it is not split.                                          *)
SplitAtSeparators ==
  \A k \in DOMAIN answer :
    LET p == answer[k].part IN
    IF inside THEN IsPart(p) ELSE p = Piece(1, Len(word))

(* Every word is answered: the search ends.                                *)
Returns == <>(pc = "done")
(* What makes these inductive: each activation has come to its state by a  *)
(* run along its chunks, and looks at text within the part.                *)
FrameSound(f) ==
  /\ f.at <= part.to /\ f.at <= f.end /\ f.end <= part.to + 1
  /\ f.at = IF f.chunks = <<>> THEN part.from ELSE f.chunks[Len(f.chunks)].to + 1
  /\ Chained(part, f.chunks)
  /\ \E run \in [0 .. Len(f.chunks) -> RuleStates] :
       IsRun(f.chunks, run) /\ run[Len(f.chunks)] = f.state

SearchInv ==
  /\ frames # <<>> => pc = "search"
  /\ \A d \in DOMAIN frames : FrameSound(frames[d])
  /\ PathsSound

(* The loop's variables: the run that begins at run_start reaches to the   *)
(* index and is pending unless it is empty or was taken.                   *)
Processing  == pc \in {"word", "search"}
BeforeSeparator == pc = "separator" \/ (Processing /\ back = "separator")
Unanswered  == IF answer = <<>> THEN 1 ELSE answer[Len(answer)].part.to + 1

LoopInv ==
  /\ run_start <= index
  /\ run_start > 1 => IsSeparator(run_start - 1)
  /\ \A i \in run_start .. index - 1 : ~IsSeparator(i)
  /\ IF BeforeSeparator \/ run_start = index THEN pending = None
     ELSE pending = [s |-> run_start, e |-> index]
  /\ BeforeSeparator => index <= Len(word) /\ IsSeparator(index)

(* The slice that is processed is the one before or at the index.          *)
SliceInv ==
  /\ back = "split" => part = Piece(index - 1, index - 1) /\ run_start = index /\ index > 1
  /\ back # "split" => part = Piece(run_start, index - 1) /\ run_start < index
  /\ back = "done"  => index = Len(word) + 1

(* The parts answered are what lies before the present one.                *)
PartsInv ==
  /\ ~inside =>
       /\ back = "done" /\ pc \notin {"split", "separator"}
       /\ pc # "done" => answer = <<>> /\ part = Piece(1, Len(word))
  /\ inside /\ pc # "done" =>
       /\ LoopInv
       /\ Processing => SliceInv /\ Unanswered = part.from
       /\ pc = "split" => Unanswered = run_start
       /\ pc = "separator" => Unanswered = index
  /\ Sink(InitialState) => ~inside /\ pc # "search"
  /\ AnswerCovers
  /\ SplitAtSeparators
=============================================================================
