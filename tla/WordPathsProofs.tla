-------------------------- MODULE WordPathsProofs --------------------------
(***************************************************************************)
(* Theorems about WordPaths for any word, dictionary and rules: the search *)
(* finds the segmentations of a part, all of them and nothing else, and    *)
(* the parts answered are the word.                                        *)
(***************************************************************************)
EXTENDS WordPaths, WellFoundedInduction, TLAPS

-----------------------------------------------------------------------------
(* Types                                                                   *)

LEMMA WordType ==
  ASSUME TypeOK
  PROVE  /\ word \in Seq(Chars) /\ Len(word) \in Nat \ {0}
         /\ rules \in Rules /\ InitialState \in RuleStates
         /\ part.from \in 1 .. Len(word) /\ part.to \in 1 .. Len(word) /\ part.from <= part.to
BY WordPathsAssumption DEF TypeOK, Parts, Position

LEMMA GroupsType ==
  ASSUME NEW from, NEW to
  PROVE  GroupsAt(from, to) \in Seq(Group)
BY WordPathsAssumption DEF GroupsAt

LEMMA RulesType ==
  ASSUME TypeOK, NEW s \in RuleStates
  PROVE  /\ rules[s].accepting \in BOOLEAN /\ rules[s].weak \in BOOLEAN
         /\ rules[s].transitions \in Seq(Transition)
         /\ \A i \in DOMAIN rules[s].transitions : rules[s].transitions[i] \in Transition
BY WordType DEF Rules

LEMMA TopType ==
  ASSUME TypeOK, frames # <<>>
  PROVE  Depth \in DOMAIN frames /\ Depth \in Nat \ {0} /\ Top \in Frame
BY DEF TypeOK, Depth, Top

LEMMA SearchingType ==
  ASSUME TypeOK, Searching
  PROVE  /\ frames # <<>> /\ pc = "search" /\ Top \in Frame /\ Top.state \in RuleStates
         /\ Top.chunks \in Seq(Chunk) /\ Len(Top.chunks) \in Nat
         /\ Top.at \in Nat /\ Top.end \in Nat /\ Top.group \in Nat /\ Top.end <= part.to
         /\ part.to \in 1 .. Len(word) /\ Len(word) \in Nat
<1>1. frames # <<>> /\ pc = "search" /\ Top.end <= part.to
  BY DEF Searching
<1>2. Top \in Frame /\ part.to \in 1 .. Len(word) /\ Len(word) \in Nat
  BY <1>1, TopType, WordType
<1>3. Top.at \in Nat /\ Top.end \in Nat /\ Top.group \in Nat /\ Top.chunks \in Seq(Chunk)
  BY <1>2 DEF Frame, Position
<1> QED BY <1>1, <1>2, <1>3 DEF Frame

LEMMA ExtendedType ==
  ASSUME TypeOK, Trying, NEW shift \in BOOLEAN
  PROVE  Extended(shift) \in Seq(Chunk)
<1>1. Top \in Frame /\ part.to \in Position
  BY TopType, WordType DEF Trying, Searching, Position
<1>2. Top.end \in Position
  BY <1>1, WordType DEF Trying, Searching, Frame, Position
<1>3. [from |-> Top.at, to |-> Top.end, group |-> Top.group, shift |-> shift] \in Chunk
  BY <1>1, <1>2 DEF Frame, Chunk
<1> QED BY <1>1, <1>3 DEF Extended, Frame

LEMMA NextGroupType ==
  ASSUME TypeOK, Trying
  PROVE  NextGroup \in Seq(Frame) /\ Len(NextGroup) = Depth
<1>1. Depth \in DOMAIN frames /\ Top \in Frame /\ Len(frames) \in Nat
  BY TopType DEF Trying, Searching, TypeOK
<1>2. [frames[Depth] EXCEPT !.group = frames[Depth].group + 1] \in Frame
  BY <1>1 DEF Top, Frame
<1> QED BY <1>1, <1>2 DEF NextGroup, TypeOK, Depth

LEMMA EnterType ==
  ASSUME TypeOK, NEW at \in Position, NEW state \in RuleStates, NEW chunks \in Seq(Chunk)
  PROVE  Enter(at, state, chunks) \in Frame
BY WordType DEF Enter, Frame, Position

LEMMA AllowedType ==
  ASSUME TypeOK, Trying, NEW t \in Allowed
  PROVE  /\ t \in Transition /\ t.to \in RuleStates /\ t.shift \in BOOLEAN
         /\ rules[t.to].weak \in BOOLEAN
         /\ \E k \in DOMAIN rules[Top.state].transitions :
              /\ t = rules[Top.state].transitions[k]
              /\ IsTransition(Top.state, Groups[Top.group].segment_type, k)
              /\ Allows(t.to, AtEnd)
<1>1. Top.state \in RuleStates
  BY TopType DEF Trying, Searching, Frame
<1>2. t \in Transition
  BY <1>1, RulesType DEF Allowed, Proceeds
<1> QED BY <1>1, <1>2, RulesType DEF Allowed, Proceeds, Transition

(* The slices that the loop of handle_ign_chunk processes are parts.       *)
LEMMA SliceType ==
  ASSUME TypeOK, NEW s, NEW e, NEW after, ProcessSlice(s, e, after),
         s \in Position, e \in 2 .. Len(word) + 1, s < e
  PROVE  part' \in Parts /\ pc' = "word" /\ back' = after
         /\ UNCHANGED <<call, inside, frames, paths, answer>>
BY WordType DEF ProcessSlice, Piece, Parts, Position

LEMMA Elements ==
  ASSUME NEW S, NEW s \in Seq(S)
  PROVE  \A j \in 1 .. Len(s) : s[j] \in S
OBVIOUS

(* The types of the unchanged variables' sets do not change either.        *)
LEMMA SameTypes ==
  ASSUME TypeOK, UNCHANGED call
  PROVE  /\ word' \in Words /\ case' \in CaseModes /\ rules' \in RuleSets
         /\ Parts' = Parts /\ Chunk' = Chunk /\ Path' = Path /\ Frame' = Frame
         /\ UNCHANGED splitting => SplittingOK'
BY DEF TypeOK, call, Parts, Position, Chunk, Path, Frame, SplittingOK, splitting, loop

LEMMA TypeInit == Init => TypeOK
<1> SUFFICES ASSUME Init PROVE TypeOK
  OBVIOUS
<1>1. Len(word) \in Nat \ {0}
  BY WordPathsAssumption DEF Init
<1>2. part \in Parts
  BY <1>1 DEF Init, Parts, Position, Piece
<1>3. SplittingOK
  <2>1. inside = FALSE /\ index = 1 /\ run_start = 1 /\ pending = None /\ back = "done"
    BY DEF Init
  <2>2. 1 \in 1 .. Len(word) + 1
    BY <1>1
  <2> QED BY <2>1, <2>2 DEF SplittingOK
<1>4. frames \in Seq(Frame) /\ paths \in Seq(Path)
      /\ answer \in Seq([part : Parts, paths : Seq(Path), kept : SUBSET Nat])
  BY DEF Init
<1> QED BY <1>2, <1>4, <1>3 DEF Init, TypeOK

(* Where the loop of handle_ign_chunk is and what is pending.              *)
LEMMA LoopAt ==
  ASSUME TypeOK, PartsInv, pc \in {"split", "separator"}
  PROVE  /\ inside /\ LoopInv /\ ~Sink(InitialState)
         /\ Len(word) \in Nat /\ index \in 1 .. Len(word) + 1 /\ run_start \in 1 .. Len(word) + 1
         /\ pending \in [s : Position, e : 2 .. Len(word) + 1] \cup {None}
         /\ run_start <= index
         /\ pending # None =>
              /\ pending = [s |-> run_start, e |-> index] /\ run_start < index
              /\ run_start \in Position /\ index \in 2 .. Len(word) + 1
         /\ pc = "split" /\ pending = None => run_start = index
<1>1. inside /\ LoopInv /\ ~Sink(InitialState)
  BY DEF PartsInv
<1>2. /\ Len(word) \in Nat /\ index \in 1 .. Len(word) + 1 /\ run_start \in 1 .. Len(word) + 1
      /\ pending \in [s : Position, e : 2 .. Len(word) + 1] \cup {None}
  BY WordType DEF TypeOK, SplittingOK
<1>3. run_start <= index
  BY <1>1 DEF LoopInv
<1>4. ASSUME pending # None
      PROVE  /\ pending = [s |-> run_start, e |-> index] /\ run_start < index
             /\ run_start \in Position /\ index \in 2 .. Len(word) + 1
  <2>1. pending = [s |-> run_start, e |-> index] /\ run_start # index
    BY <1>1, <1>4 DEF LoopInv
  <2> QED BY <1>2, <1>3, <2>1 DEF Position
<1>5. pc = "split" /\ pending = None => run_start = index
  <2> SUFFICES ASSUME pc = "split", pending = None, run_start # index PROVE FALSE
    OBVIOUS
  <2>1. ~BeforeSeparator
    BY DEF BeforeSeparator, Processing
  <2>2. pending = [s |-> run_start, e |-> index]
    BY <1>1, <2>1 DEF LoopInv
  <2>3. pending.s = run_start /\ pending.s = 0
    BY <2>2 DEF None
  <2> QED BY <1>2, <2>3
<1> QED BY <1>1, <1>2, <1>3, <1>4, <1>5

LEMMA SeparatorAt ==
  ASSUME TypeOK, PartsInv, AtSeparator
  PROVE  /\ pc \in {"split", "separator"} /\ IsSeparator(index) /\ pending = None
         /\ index \in Position /\ CharEnd \in 2 .. Len(word) + 1 /\ index < CharEnd
         /\ Unanswered = index
<1>1. pc \in {"split", "separator"}
  BY DEF AtSeparator, AtChar
<1>2. index <= Len(word) /\ IsSeparator(index) /\ pending = None
  BY <1>1, LoopAt DEF AtSeparator, AtChar, LoopInv, BeforeSeparator
<1>3. Unanswered = index
  BY <1>1, <1>2, LoopAt DEF AtSeparator, AtChar, PartsInv
<1> QED BY <1>1, <1>2, <1>3, LoopAt DEF CharEnd, Position

LEMMA AnswerType ==
  ASSUME TypeOK, NEW found \in Seq(Path), NEW kept \in SUBSET Nat
  PROVE  Append(answer, [part |-> part, paths |-> found, kept |-> kept])
           \in Seq([part : Parts, paths : Seq(Path), kept : SUBSET Nat])
BY DEF TypeOK

LEMMA TypeNext == TypeOK /\ PartsInv /\ [Next]_vars => TypeOK'
<1> SUFFICES ASSUME TypeOK, PartsInv, [Next]_vars PROVE TypeOK'
  OBVIOUS
<1>1. UNCHANGED call
  BY DEF Next, vars, StartSearch, LookUp, Refuse, Accept, Descend, NextPrefix, Leave,
         Found, Unknown, Split, ExtendRun, TakeRun, Separator, LastRun, AllSplit, Answer,
         ProcessSlice
<1>2. /\ word' \in Words /\ case' \in CaseModes /\ rules' \in RuleSets
      /\ Parts' = Parts /\ Path' = Path /\ Frame' = Frame
      /\ UNCHANGED splitting => SplittingOK'
  BY <1>1, SameTypes
<1>3. /\ part \in Parts /\ back \in {"split", "separator", "done"} /\ frames \in Seq(Frame) /\ paths \in Seq(Path)
      /\ answer \in Seq([part : Parts, paths : Seq(Path), kept : SUBSET Nat])
      /\ pc \in {"word", "search", "split", "separator", "done"}
  BY DEF TypeOK, SplittingOK
<1>4. SplittingOK
  BY DEF TypeOK
<1>5. CASE StartSearch
  <2>1. Enter(part.from, InitialState, <<>>) \in Frame
    <3>1. part.from \in Position /\ InitialState \in RuleStates
      BY WordType DEF Position
    <3>2. <<>> \in Seq(Chunk)
      OBVIOUS
    <3> QED BY <3>1, <3>2, EnterType
  <2> QED BY <1>3, <1>2, <1>5, <2>1 DEF StartSearch, TypeOK
<1>6. CASE LookUp
  <2> DEFINE groups == GroupsAt(part.from, part.to)
             found  == [g \in DOMAIN groups |-> WholeWord(g)]
             kept   == { g \in DOMAIN groups : Compatible(part.from, part.to, groups[g]) # {} }
  <2>1. groups \in Seq(Group) /\ Len(groups) \in Nat /\ DOMAIN groups = 1 .. Len(groups)
    BY GroupsType
  <2>2. \A g \in DOMAIN groups : WholeWord(g) \in Path
    BY <2>1, WordType DEF WholeWord, Path, Chunk, Position
  <2>3. found \in Seq(Path) /\ kept \in SUBSET Nat
    BY <2>1, <2>2
  <2>4. answer' = Append(answer, [part |-> part, paths |-> found, kept |-> kept])
    BY <1>6 DEF LookUp
  <2> HIDE DEF found, kept
  <2>5. answer' \in Seq([part : Parts, paths : Seq(Path), kept : SUBSET Nat])
    BY <2>3, <2>4, AnswerType
  <2> QED BY <1>3, <1>2, <1>6, <2>5 DEF LookUp, TypeOK
<1>7. CASE Refuse
  BY <1>3, <1>2, <1>7, NextGroupType DEF Refuse, TypeOK
<1>8. CASE Accept
  <2>1. PICK t \in Allowed : paths' = Append(paths, [chunks |-> Extended(t.shift), weak |-> rules[t.to].weak])
    BY <1>8 DEF Accept
  <2>2. [chunks |-> Extended(t.shift), weak |-> rules[t.to].weak] \in Path
    BY <1>8, AllowedType, ExtendedType DEF Accept, Path
  <2> QED BY <1>3, <1>2, <1>8, <2>1, <2>2, NextGroupType DEF Accept, TypeOK
<1>9. CASE Descend
  <2>1. PICK t \in Allowed : frames' = Append(NextGroup, Enter(Top.end + 1, t.to, Extended(t.shift)))
    BY <1>9 DEF Descend
  <2>2. Top.end + 1 \in Position
    BY <1>9, TopType, WordType DEF Descend, Trying, Searching, AtEnd, Frame, Position
  <2>3. Enter(Top.end + 1, t.to, Extended(t.shift)) \in Frame
    BY <1>9, <2>2, AllowedType, ExtendedType, EnterType DEF Descend
  <2> QED BY <1>3, <1>2, <1>9, <2>1, <2>3, NextGroupType DEF Descend, TypeOK
<1>10. CASE NextPrefix
  <2>1. Depth \in DOMAIN frames /\ Top \in Frame
    BY <1>10, TopType DEF NextPrefix, Searching
  <2>2. [frames[Depth] EXCEPT !.end = frames[Depth].end + 1, !.group = 1] \in Frame
    BY <1>10, <2>1, WordType DEF NextPrefix, Searching, Top, Frame, Position
  <2>3. frames' = [frames EXCEPT ![Depth] = [frames[Depth] EXCEPT !.end = frames[Depth].end + 1, !.group = 1]]
    BY <1>10, <2>1 DEF NextPrefix
  <2>4. frames' \in Seq(Frame)
    BY <1>3, <2>1, <2>2, <2>3
  <2> QED BY <1>3, <1>2, <1>10, <2>4 DEF NextPrefix, TypeOK
<1>11. CASE Leave
  <2>1. frames' \in Seq(Frame)
    BY <1>3, <1>11, TopType DEF Leave, Depth
  <2> QED BY <1>3, <1>2, <1>11, <2>1 DEF Leave, TypeOK
<1>12. ASSUME NEW kept \in SUBSET Nat, Answer(kept)
       PROVE  TypeOK'
  BY <1>3, <1>2, <1>12, AnswerType DEF Answer, TypeOK
<1>13. CASE Found
  <2>1. Retained(paths) \in SUBSET Nat
    BY <1>3 DEF Retained
  <2> QED BY <1>12, <1>13, <2>1 DEF Found
<1>14. CASE Unknown
  BY <1>12, <1>14 DEF Unknown
<1>15. CASE Split
  <2>1. SplittingOK'
    BY <1>3, <1>1, <1>15, WordType DEF Split, SplittingOK, TypeOK, call
  <2> QED BY <1>3, <1>2, <1>15, <2>1 DEF Split, TypeOK
<1>16. CASE ExtendRun
  <2>1. SplittingOK'
    <3>1. /\ pc = "split" /\ index <= Len(word) /\ index' = index + 1
          /\ pending' = [s |-> IF pending = None THEN run_start ELSE pending.s, e |-> index + 1]
          /\ UNCHANGED <<word, inside, back, run_start>>
      BY <1>16 DEF ExtendRun, AtChar, CharEnd, call
    <3>2. /\ Len(word) \in Nat /\ index \in 1 .. Len(word) + 1 /\ run_start \in 1 .. Len(word) + 1
          /\ run_start <= index
          /\ pending # None => pending.s = run_start
      BY <3>1, LoopAt
    <3>3. pending' = [s |-> run_start, e |-> index + 1]
      BY <3>1, <3>2
    <3>4. run_start \in 1 .. Len(word) /\ index + 1 \in 2 .. Len(word) + 1 /\ index + 1 \in 1 .. Len(word) + 1
      BY <3>1, <3>2
    <3>5. pending' \in [s : 1 .. Len(word), e : 2 .. Len(word) + 1]
      BY <3>3, <3>4
    <3> QED BY <1>4, <3>1, <3>4, <3>5 DEF SplittingOK, Position
  <2> QED BY <1>3, <1>2, <1>16, <2>1 DEF ExtendRun, AtChar, TypeOK
<1>17. ASSUME NEW s, NEW e, NEW after, ProcessSlice(s, e, after),
              s \in Position, e \in 2 .. Len(word) + 1, s < e, SplittingOK'
       PROVE  TypeOK'
  BY <1>3, <1>2, <1>17, SliceType DEF TypeOK
<1>18. CASE TakeRun
  <2>1. pending = [s |-> run_start, e |-> index] /\ run_start \in Position
        /\ index \in 2 .. Len(word) + 1 /\ run_start < index
    BY <1>18, LoopAt DEF TakeRun, AtChar
  <2>2. SplittingOK'
    BY <1>18, <1>4 DEF TakeRun, ProcessSlice, SplittingOK, Position, call
  <2> QED BY <1>17, <1>18, <2>1, <2>2 DEF TakeRun
<1>19. CASE Separator
  <2>1. index \in Position /\ CharEnd \in 2 .. Len(word) + 1 /\ index < CharEnd
    BY <1>19, SeparatorAt DEF Separator
  <2>2. SplittingOK'
    <3>1. CharEnd \in 1 .. Len(word) + 1
      BY <2>1, WordType
    <3> QED BY <1>19, <1>4, <3>1 DEF Separator, ProcessSlice, SplittingOK, Position, call
  <2> QED BY <1>17, <1>19, <2>1, <2>2 DEF Separator
<1>20. CASE LastRun
  <2>1. pending = [s |-> run_start, e |-> index] /\ run_start \in Position
        /\ index \in 2 .. Len(word) + 1 /\ run_start < index
    BY <1>20, LoopAt DEF LastRun, AfterChars
  <2>2. SplittingOK'
    BY <1>20, <1>4 DEF LastRun, ProcessSlice, SplittingOK, Position, loop, call
  <2> QED BY <1>17, <1>20, <2>1, <2>2 DEF LastRun
<1>21. CASE AllSplit
  BY <1>3, <1>2, <1>21 DEF AllSplit, TypeOK
<1>22. CASE UNCHANGED vars
  BY <1>3, <1>2, <1>22 DEF vars, TypeOK
<1> QED BY <1>5, <1>6, <1>7, <1>8, <1>9, <1>10, <1>11, <1>13, <1>14, <1>15, <1>16, <1>18, <1>19, <1>20,
           <1>21, <1>22 DEF Next

-----------------------------------------------------------------------------
(* The parts answered                                                      *)

(* The search leaves what was answered and the loop as they are.           *)
LEMMA SameParts ==
  ASSUME UNCHANGED <<word, rules, part, splitting, answer>>, PartsInv,
         pc' = pc \/ (Processing /\ Processing'), pc' = "search" => pc = "search" \/ ~Sink(InitialState)
  PROVE  PartsInv'
<1>1. /\ word' = word /\ rules' = rules /\ part' = part /\ answer' = answer
      /\ inside' = inside /\ back' = back /\ index' = index /\ run_start' = run_start /\ pending' = pending
  BY DEF splitting, loop
<1>2. /\ Processing' <=> Processing
      /\ BeforeSeparator' <=> BeforeSeparator
      /\ \A s \in {"done", "split", "separator"} : (pc' = s) <=> (pc = s)
  BY <1>1 DEF Processing, BeforeSeparator
<1>3. (LoopInv' <=> LoopInv) /\ (SliceInv' <=> SliceInv) /\ Unanswered' = Unanswered
  BY <1>1, <1>2 DEF LoopInv, SliceInv, Unanswered, IsSeparator, Piece
<1>4. SplitAtSeparators' <=> SplitAtSeparators
  BY <1>1 DEF SplitAtSeparators, IsPart, LongestRun, IsSeparator, Piece
<1>5. AnswerCovers' <=> AnswerCovers
  BY <1>1, <1>2 DEF AnswerCovers
<1> QED BY <1>1, <1>2, <1>3, <1>4, <1>5 DEF PartsInv, Sink, Piece

LEMMA PartsInit == Init => PartsInv
BY WordPathsAssumption DEF Init, PartsInv, AnswerCovers, SplitAtSeparators, Piece

(* What the loop has processed is a separator or a longest run.            *)
LEMMA SliceIsPart ==
  ASSUME TypeOK, PartsInv, Processing, inside
  PROVE  IsPart(part)
<1>1. LoopInv /\ SliceInv
  BY DEF PartsInv, Processing
<1>2. Len(word) \in Nat /\ index \in 1 .. Len(word) + 1 /\ run_start \in 1 .. Len(word) + 1
      /\ back \in {"split", "separator", "done"}
  BY WordType DEF TypeOK, SplittingOK
<1>3. CASE back = "split"
  <2>1. part.from = index - 1 /\ part.to = index - 1 /\ IsSeparator(index - 1)
    BY <1>1, <1>2, <1>3 DEF SliceInv, LoopInv, Piece
  <2> QED BY <2>1 DEF IsPart
<1>4. CASE back # "split"
  <2>1. part.from = run_start /\ part.to = index - 1
    BY <1>1, <1>4 DEF SliceInv, Piece
  <2>2. index - 1 < Len(word) => IsSeparator(index - 1 + 1)
    <3>1. back = "done" => index = Len(word) + 1
      BY <1>1 DEF SliceInv
    <3>2. back = "separator" => IsSeparator(index)
      BY <1>1 DEF LoopInv, BeforeSeparator
    <3> QED BY <1>2, <1>4, <3>1, <3>2
  <2>3. LongestRun(part)
    BY <1>1, <2>1, <2>2 DEF LongestRun, LoopInv
  <2> QED BY <2>3 DEF IsPart
<1> QED BY <1>3, <1>4

(* One part more is answered.                                              *)
LEMMA PartsAnswer ==
  ASSUME TypeOK, PartsInv, Processing, NEW found, NEW kept,
         answer' = Append(answer, [part |-> part, paths |-> found, kept |-> kept]),
         UNCHANGED <<word, rules, part, splitting>>, pc' = back
  PROVE  PartsInv'
<1> DEFINE entry == [part |-> part, paths |-> found, kept |-> kept]
<1>1. answer' = Append(answer, entry) /\ entry.part = part
  OBVIOUS
<1> HIDE DEF entry
<1>2. answer \in Seq([part : Parts, paths : Seq(Path), kept : SUBSET Nat]) /\ Len(answer) \in Nat
  BY DEF TypeOK
<1>3. /\ Len(answer') = Len(answer) + 1 /\ answer'[Len(answer) + 1].part = part
      /\ DOMAIN answer' = 1 .. Len(answer) + 1
      /\ \A k \in DOMAIN answer : answer'[k] = answer[k] /\ k \in 1 .. Len(answer)
      /\ answer' # <<>> /\ (answer = <<>> <=> Len(answer) = 0)
  BY <1>1, <1>2
<1>4. /\ part.from \in 1 .. Len(word) /\ part.to \in 1 .. Len(word) /\ Len(word) \in Nat
      /\ index \in 1 .. Len(word) + 1 /\ run_start \in 1 .. Len(word) + 1
      /\ inside \in BOOLEAN /\ back \in {"split", "separator", "done"}
  BY WordType DEF TypeOK, SplittingOK
<1>5. /\ word' = word /\ rules' = rules /\ part' = part
      /\ inside' = inside /\ back' = back /\ index' = index /\ run_start' = run_start /\ pending' = pending
  BY DEF splitting, loop
<1>6. Unanswered = part.from
  <2>1. ~inside => answer = <<>> /\ part.from = 1
    BY DEF PartsInv, Processing, Piece
  <2>2. inside => Unanswered = part.from
    BY DEF PartsInv, Processing
  <2> QED BY <2>1, <2>2 DEF Unanswered
<1>7. Unanswered' = part.to + 1
  BY <1>3 DEF Unanswered
<1>8. ASSUME NEW k \in DOMAIN answer'
      PROVE  answer'[k].part.from = IF k = 1 THEN 1 ELSE answer'[k - 1].part.to + 1
  <2>1. CASE k \in DOMAIN answer
    <3>1. k # 1 => k - 1 \in DOMAIN answer
      BY <1>2, <2>1
    <3> QED BY <1>3, <2>1, <3>1 DEF PartsInv, AnswerCovers
  <2>2. CASE k = Len(answer) + 1
    <3>1. k # 1 => answer # <<>> /\ k - 1 = Len(answer) /\ Len(answer) \in DOMAIN answer
      BY <1>2, <1>3, <2>2
    <3>2. k = 1 => answer = <<>>
      BY <1>2, <1>3, <2>2
    <3> QED BY <1>2, <1>3, <1>6, <2>2, <3>1, <3>2 DEF Unanswered
  <2> QED BY <1>2, <1>3, <2>1, <2>2
<1>9. SplitAtSeparators'
  <2>2. ASSUME NEW k \in DOMAIN answer'
        PROVE  IF inside THEN IsPart(answer'[k].part) ELSE answer'[k].part = Piece(1, Len(word))
    <3>1. CASE k \in DOMAIN answer
      BY <1>3, <3>1 DEF PartsInv, SplitAtSeparators
    <3>2. CASE k = Len(answer) + 1
      <4>1. ~inside => part = Piece(1, Len(word))
        BY DEF PartsInv, Processing
      <4> QED BY <1>3, <3>2, <4>1, SliceIsPart
    <3> QED BY <1>2, <1>3, <3>1, <3>2
  <2> QED BY <1>5, <2>2 DEF SplitAtSeparators, IsPart, LongestRun, IsSeparator, Piece
<1>10. (Sink(InitialState) => ~inside /\ pc # "search")'
  BY <1>4, <1>5 DEF Sink, PartsInv
<1>11. back = "done" => part.to = Len(word)
  <2>1. ~inside => part.to = Len(word)
    BY DEF PartsInv, Processing, Piece
  <2>2. inside /\ back = "done" => part.to = Len(word)
    BY <1>4 DEF PartsInv, Processing, SliceInv, Piece
  <2> QED BY <1>4, <2>1, <2>2
<1>12. AnswerCovers'
  <2>1. pc' = "done" => answer'[Len(answer')].part.to = Len(word)
    BY <1>3, <1>11
  <2> QED BY <1>3, <1>5, <1>8, <2>1 DEF AnswerCovers
<1>13. CASE back = "done"
  <2>1. pc' = "done" /\ (~inside => back' = "done")
    BY <1>5, <1>13
  <2> QED BY <1>5, <1>9, <1>10, <1>12, <2>1 DEF PartsInv
<1>14. CASE back # "done"
  <2>1. inside /\ LoopInv /\ SliceInv
    BY <1>14 DEF PartsInv, Processing
  <2>2. BeforeSeparator' <=> BeforeSeparator
    BY <1>4, <1>5, <1>14 DEF BeforeSeparator, Processing
  <2>3. LoopInv'
    BY <1>5, <2>1, <2>2 DEF LoopInv, IsSeparator
  <2>4. (back = "split" => Unanswered' = run_start) /\ (back = "separator" => Unanswered' = index)
    BY <1>4, <1>7, <2>1 DEF SliceInv, Piece
  <2>5. ~Processing'
    BY <1>4 DEF Processing
  <2> QED BY <1>4, <1>5, <1>9, <1>10, <1>12, <2>1, <2>3, <2>4, <2>5 DEF PartsInv
<1> QED BY <1>13, <1>14

(* The loop goes on, or begins, with nothing answered by that.             *)
LEMMA PartsLoop ==
  ASSUME PartsInv, UNCHANGED <<word, rules, answer>>, inside', ~Sink(InitialState), pc' # "done",
         inside \/ answer = <<>>, LoopInv',
         Processing' => SliceInv' /\ Unanswered = part'.from,
         pc' = "split" => Unanswered = run_start', pc' = "separator" => Unanswered = index'
  PROVE  PartsInv'
<1>1. Unanswered' = Unanswered
  BY DEF Unanswered
<1>2. AnswerCovers'
  BY DEF PartsInv, AnswerCovers
<1>3. SplitAtSeparators'
  <2>1. CASE answer = <<>>
    BY <2>1 DEF SplitAtSeparators
  <2>2. CASE inside
    BY <2>2 DEF PartsInv, SplitAtSeparators, IsPart, LongestRun, IsSeparator
  <2> QED BY <2>1, <2>2
<1> QED BY <1>1, <1>2, <1>3 DEF PartsInv, Sink

LEMMA SplitKeeps == ASSUME TypeOK, PartsInv, Split PROVE PartsInv'
<1>1. /\ answer = <<>> /\ answer' = answer /\ word' = word /\ rules' = rules /\ inside'
      /\ index' = 1 /\ run_start' = 1 /\ pending' = None /\ pc' = "split"
  BY DEF Split, Splits, Searched, PartsInv, call
<1>2. ~Sink(InitialState)
  BY DEF Split, Searched, PartsInv
<1>3. LoopInv'
  BY <1>1 DEF LoopInv, BeforeSeparator, Processing
<1>4. Unanswered = 1 /\ ~Processing'
  BY <1>1 DEF Unanswered, Processing
<1> QED BY <1>1, <1>2, <1>3, <1>4, PartsLoop

LEMMA ExtendRunKeeps == ASSUME TypeOK, PartsInv, ExtendRun PROVE PartsInv'
<1>1. /\ pc = "split" /\ pc' = "split" /\ index <= Len(word) /\ ~IsSeparator(index)
      /\ pending' = [s |-> IF pending = None THEN run_start ELSE pending.s, e |-> CharEnd]
      /\ index' = index + 1 /\ run_start' = run_start /\ answer' = answer /\ inside' = inside
      /\ word' = word /\ rules' = rules
  BY DEF ExtendRun, AtChar, CharEnd, call
<1>2. /\ inside /\ LoopInv /\ ~Sink(InitialState) /\ run_start <= index
      /\ index \in Nat /\ run_start \in Nat
      /\ pending # None => pending = [s |-> run_start, e |-> index]
  BY <1>1, LoopAt
<1>3. pending' = [s |-> run_start', e |-> index']
  BY <1>1, <1>2 DEF CharEnd
<1>4. \A i \in run_start .. index : ~IsSeparator(i)
  BY <1>1, <1>2 DEF LoopInv
<1>5. LoopInv'
  <2>1. ~BeforeSeparator'
    BY <1>1 DEF BeforeSeparator, Processing
  <2>2. run_start' <= index' /\ run_start' # index' /\ index' - 1 = index
    BY <1>1, <1>2
  <2>3. \A i \in run_start' .. index' - 1 : ~IsSeparator(i)'
    BY <1>1, <1>4, <2>2 DEF IsSeparator
  <2>4. run_start' > 1 => IsSeparator(run_start - 1)'
    BY <1>1, <1>2 DEF LoopInv, IsSeparator
  <2> QED BY <1>3, <2>1, <2>2, <2>3, <2>4 DEF LoopInv
<1>6. Unanswered = run_start'
  BY <1>1, <1>2 DEF PartsInv
<1>7. ~Processing'
  BY <1>1 DEF Processing
<1> QED BY <1>1, <1>2, <1>5, <1>6, <1>7, PartsLoop

(* What a call processes leaves the loop as it should be afterwards.       *)
LEMMA TakeRunKeeps == ASSUME TypeOK, PartsInv, TakeRun PROVE PartsInv'
<1>1. /\ pc = "split" /\ pc' = "word" /\ index <= Len(word) /\ IsSeparator(index) /\ pending # None
      /\ pending' = None /\ part' = Piece(pending.s, pending.e - 1) /\ back' = "separator"
      /\ index' = index /\ run_start' = run_start /\ answer' = answer /\ inside' = inside
      /\ word' = word /\ rules' = rules
  BY DEF TakeRun, AtChar, ProcessSlice, call
<1>2. /\ inside /\ LoopInv /\ ~Sink(InitialState) /\ index \in Nat /\ run_start \in Nat
      /\ pending = [s |-> run_start, e |-> index] /\ run_start < index
  BY <1>1, LoopAt
<1>3. part' = Piece(run_start, index - 1) /\ part'.from = run_start
  BY <1>1, <1>2 DEF Piece
<1>4. LoopInv'
  BY <1>1, <1>2 DEF LoopInv, BeforeSeparator, Processing, IsSeparator
<1>5. SliceInv'
  BY <1>1, <1>2, <1>3 DEF SliceInv, Piece
<1>6. Unanswered = run_start
  BY <1>1, <1>2 DEF PartsInv
<1> QED BY <1>1, <1>2, <1>3, <1>4, <1>5, <1>6, PartsLoop

LEMMA SeparatorKeeps == ASSUME TypeOK, PartsInv, Separator PROVE PartsInv'
<1>1. /\ pc \in {"split", "separator"} /\ IsSeparator(index) /\ pending = None
      /\ index \in Position /\ CharEnd \in 2 .. Len(word) + 1 /\ Unanswered = index
  BY SeparatorAt DEF Separator
<1>2. /\ pc' = "word" /\ pending' = None /\ part' = Piece(index, CharEnd - 1) /\ back' = "split"
      /\ index' = index + 1 /\ run_start' = index + 1 /\ answer' = answer /\ inside' = inside
      /\ word' = word /\ rules' = rules
  BY <1>1 DEF Separator, ProcessSlice, CharEnd, call
<1>3. inside /\ ~Sink(InitialState) /\ index \in Nat /\ index > 0
  BY <1>1, LoopAt DEF Position
<1>4. index + 1 - 1 = index /\ index + 1 > 1 /\ CharEnd - 1 = index
  BY <1>3 DEF CharEnd
<1>5. index' - 1 = index /\ run_start' - 1 = index /\ index' > 1 /\ run_start' = index'
  BY <1>2, <1>3
<1>6. part' = Piece(index, index) /\ part'.from = index
  <2>1. part' = Piece(index, index)
    BY <1>2, <1>4
  <2> QED BY <2>1 DEF Piece
<1>7. LoopInv'
  <2>1. ~BeforeSeparator'
    BY <1>2 DEF BeforeSeparator, Processing
  <2>2. word'[run_start' - 1] \in Separators
    BY <1>1, <1>2, <1>5 DEF IsSeparator
  <2>3. \A i \in run_start' .. index' - 1 : FALSE
    BY <1>2, <1>3
  <2>4. run_start' = index' /\ run_start' <= index'
    BY <1>2, <1>3
  <2> QED BY <1>2, <2>1, <2>2, <2>3, <2>4 DEF LoopInv, IsSeparator
<1>8. SliceInv'
  <2>1. part' = Piece(index' - 1, index' - 1)
    BY <1>6, <1>5
  <2> QED BY <1>2, <1>5, <2>1 DEF SliceInv, Piece
<1> QED BY <1>1, <1>2, <1>3, <1>6, <1>7, <1>8, PartsLoop

LEMMA LastRunKeeps == ASSUME TypeOK, PartsInv, LastRun PROVE PartsInv'
<1>1. /\ pc = "split" /\ pc' = "word" /\ index > Len(word) /\ pending # None
      /\ part' = Piece(pending.s, pending.e - 1) /\ back' = "done" /\ pending' = pending
      /\ index' = index /\ run_start' = run_start /\ answer' = answer /\ inside' = inside
      /\ word' = word /\ rules' = rules
  BY DEF LastRun, AfterChars, ProcessSlice, loop, call
<1>2. /\ inside /\ LoopInv /\ ~Sink(InitialState) /\ index \in 1 .. Len(word) + 1 /\ run_start \in Nat
      /\ pending = [s |-> run_start, e |-> index] /\ run_start < index /\ Len(word) \in Nat
  BY <1>1, LoopAt
<1>3. part' = Piece(run_start, index - 1) /\ part'.from = run_start /\ index = Len(word) + 1
  BY <1>1, <1>2 DEF Piece
<1>4. LoopInv'
  BY <1>1, <1>2 DEF LoopInv, BeforeSeparator, Processing, IsSeparator
<1>5. SliceInv'
  BY <1>1, <1>2, <1>3 DEF SliceInv, Piece
<1>6. Unanswered = run_start
  BY <1>1, <1>2 DEF PartsInv
<1> QED BY <1>1, <1>2, <1>3, <1>4, <1>5, <1>6, PartsLoop

(* Behind the last character nothing is left.                              *)
LEMMA AllSplitKeeps == ASSUME TypeOK, PartsInv, AllSplit PROVE PartsInv'
<1>1. /\ pc = "split" /\ pc' = "done" /\ index > Len(word) /\ pending = None
      /\ answer' = answer /\ inside' = inside /\ word' = word /\ rules' = rules
  BY DEF AllSplit, AfterChars, splitting, call
<1>2. inside /\ ~Sink(InitialState) /\ Len(word) \in Nat \ {0} /\ index \in 1 .. Len(word) + 1
      /\ run_start = index
  BY <1>1, LoopAt, WordType
<1>3. Unanswered = Len(word) + 1
  BY <1>1, <1>2 DEF PartsInv
<1>4. answer # <<>> /\ answer[Len(answer)].part.to = Len(word)
  <2>1. answer # <<>>
    BY <1>2, <1>3 DEF Unanswered
  <2>2. answer[Len(answer)].part \in Parts
    <3>1. answer \in Seq([part : Parts, paths : Seq(Path), kept : SUBSET Nat])
      BY DEF TypeOK
    <3>2. Len(answer) \in 1 .. Len(answer)
      BY <2>1, <3>1
    <3>3. answer[Len(answer)] \in [part : Parts, paths : Seq(Path), kept : SUBSET Nat]
      BY <3>1, <3>2, Elements
    <3> QED BY <3>3
  <2>3. answer[Len(answer)].part.to \in Nat
    BY <1>2, <2>2 DEF Parts, Position
  <2> QED BY <1>2, <1>3, <2>1, <2>3 DEF Unanswered
<1>5. AnswerCovers' /\ SplitAtSeparators'
  BY <1>1, <1>4 DEF PartsInv, AnswerCovers, SplitAtSeparators, IsPart, LongestRun, IsSeparator, Piece
<1> QED BY <1>1, <1>2, <1>5 DEF PartsInv, Sink

LEMMA PartsNext == TypeOK /\ PartsInv /\ [Next]_vars => PartsInv'
<1> SUFFICES ASSUME TypeOK, PartsInv, [Next]_vars PROVE PartsInv'
  OBVIOUS
<1>1. CASE StartSearch \/ Refuse \/ Accept \/ Descend \/ NextPrefix \/ Leave
  <2>1. UNCHANGED <<word, rules, part, splitting, answer>> /\ Processing /\ Processing'
        /\ (pc' = "search" => pc = "search" \/ ~Sink(InitialState))
    BY <1>1 DEF StartSearch, Refuse, Accept, Descend, NextPrefix, Leave, Trying, Searching, Processing, call
  <2> QED BY <2>1, SameParts
<1>2. CASE LookUp
  <2> DEFINE groups == GroupsAt(part.from, part.to)
             found  == [g \in DOMAIN groups |-> WholeWord(g)]
             kept   == { g \in DOMAIN groups : Compatible(part.from, part.to, groups[g]) # {} }
  <2>1. answer' = Append(answer, [part |-> part, paths |-> found, kept |-> kept])
        /\ UNCHANGED <<word, rules, part, splitting>> /\ pc' = back /\ Processing
    BY <1>2 DEF LookUp, Processing, call
  <2> HIDE DEF found, kept
  <2> QED BY <2>1, PartsAnswer
<1>3. ASSUME NEW kept, Answer(kept), Searched PROVE PartsInv'
  BY <1>3, PartsAnswer DEF Searched, Answer, Processing, call
<1>4. CASE Found \/ Unknown
  BY <1>3, <1>4 DEF Found, Unknown
<1>5. CASE Split \/ ExtendRun \/ TakeRun \/ Separator \/ LastRun \/ AllSplit
  BY <1>5, SplitKeeps, ExtendRunKeeps, TakeRunKeeps, SeparatorKeeps, LastRunKeeps, AllSplitKeeps
<1>6. CASE UNCHANGED vars
  BY <1>6, SameParts DEF vars, call
<1> QED BY <1>1, <1>2, <1>4, <1>5, <1>6 DEF Next

LEMMA PartsAlways == Spec => [](TypeOK /\ PartsInv)
BY TypeInit, TypeNext, PartsInit, PartsNext, PTL DEF Spec

(* Every position the search and the splitting use lies in the word.       *)
THEOREM PathsTypeCorrect == Spec => []TypeOK
<1> QED BY PartsAlways, PTL

(* The parts answered follow on from each other and, in the end, are the   *)
(* whole word: the loop of handle_ign_chunk takes each run once, from      *)
(* behind the last separator up to the next, and the last run at the end.  *)
THEOREM NothingLost == Spec => []AnswerCovers
<1>1. PartsInv => AnswerCovers
  BY DEF PartsInv
<1> QED BY <1>1, PartsAlways, PTL

(* What the loop processes are the word's separators and the longest runs  *)
(* between them, whatever stands where.                                    *)
THEOREM SplitsAtSeparators == Spec => []SplitAtSeparators
<1>1. PartsInv => SplitAtSeparators
  BY DEF PartsInv
<1> QED BY <1>1, PartsAlways, PTL
-----------------------------------------------------------------------------
(* Soundness: an activation has come to its state by a run                 *)

(* While a part is searched, all that the search is about stays the same.  *)
LEMMA SameSearch ==
  ASSUME UNCHANGED <<word, rules, part>>
  PROVE  /\ \A f : FrameSound(f)' <=> FrameSound(f)
         /\ \A p, path : IsSegmentation(p, path)' <=> IsSegmentation(p, path)
         /\ \A p, path, run : Segments(p, path, run)' <=> Segments(p, path, run)
         /\ \A p, chunks : Chained(p, chunks)' <=> Chained(p, chunks)
<1>1. /\ \A from, to : GroupsAt(from, to)' = GroupsAt(from, to)
      /\ \A state, type, i : IsTransition(state, type, i)' <=> IsTransition(state, type, i)
  BY DEF GroupsAt, Lowered, IsTransition
<1>2. \A p, chunks : Chained(p, chunks)' <=> Chained(p, chunks)
  BY <1>1 DEF Chained
<1>3. \A state, chunk, next : Leads(state, chunk, next)' <=> Leads(state, chunk, next)
  BY <1>1 DEF Leads, GroupOf
<1>4. \A chunks, run : IsRun(chunks, run)' <=> IsRun(chunks, run)
  BY <1>3 DEF IsRun
<1>5. \A p, path, run : Segments(p, path, run)' <=> Segments(p, path, run)
  BY <1>2, <1>4 DEF Segments
<1>6. \A p, path : IsSegmentation(p, path)' <=> IsSegmentation(p, path)
  BY <1>5 DEF IsSegmentation
<1>7. \A f : FrameSound(f)' <=> FrameSound(f)
  BY <1>2, <1>4 DEF FrameSound
<1> QED BY <1>2, <1>5, <1>6, <1>7

(* The group that a frame tries, as the chunk that it would become.        *)
Tried(shift) == [from |-> Top.at, to |-> Top.end, group |-> Top.group, shift |-> shift]

LEMMA TriedLeads ==
  ASSUME TypeOK, Trying, NEW t \in Allowed
  PROVE  Leads(Top.state, Tried(t.shift), t.to)
BY AllowedType DEF Leads, Tried, GroupOf, Groups

LEMMA ExtendedChained ==
  ASSUME TypeOK, Trying, FrameSound(Top), NEW shift \in BOOLEAN
  PROVE  /\ Chained(part, Extended(shift))
         /\ Len(Extended(shift)) = Len(Top.chunks) + 1
         /\ Extended(shift)[Len(Top.chunks) + 1] = Tried(shift)
         /\ \A i \in 1 .. Len(Top.chunks) : Extended(shift)[i] = Top.chunks[i]
<1>1. Top.chunks \in Seq(Chunk) /\ Len(Top.chunks) \in Nat
  BY TopType DEF Trying, Searching, Frame
<1>2. /\ Len(Extended(shift)) = Len(Top.chunks) + 1
      /\ Extended(shift)[Len(Top.chunks) + 1] = Tried(shift)
      /\ \A i \in 1 .. Len(Top.chunks) : Extended(shift)[i] = Top.chunks[i]
      /\ DOMAIN Extended(shift) = 1 .. Len(Top.chunks) + 1
  BY <1>1 DEF Extended, Tried
<1>3. /\ Top.at <= Top.end /\ Top.end <= part.to
      /\ Top.group \in DOMAIN GroupsAt(Top.at, Top.end)
      /\ Top.at = IF Top.chunks = <<>> THEN part.from ELSE Top.chunks[Len(Top.chunks)].to + 1
      /\ Chained(part, Top.chunks)
  BY DEF Trying, Searching, Groups, FrameSound
<1>4. ASSUME NEW i \in 1 .. Len(Top.chunks) + 1
      PROVE  /\ Extended(shift)[i].from = IF i = 1 THEN part.from ELSE Extended(shift)[i - 1].to + 1
             /\ Extended(shift)[i].from <= Extended(shift)[i].to /\ Extended(shift)[i].to <= part.to
             /\ Extended(shift)[i].group \in DOMAIN GroupsAt(Extended(shift)[i].from, Extended(shift)[i].to)
  <2>1. CASE i \in 1 .. Len(Top.chunks)
    <3>1. i \in DOMAIN Top.chunks /\ (i # 1 => i - 1 \in 1 .. Len(Top.chunks))
      BY <1>1, <2>1
    <3> QED BY <1>2, <1>3, <2>1, <3>1 DEF Chained
  <2>2. CASE i = Len(Top.chunks) + 1
    <3>1. Top.chunks = <<>> <=> Len(Top.chunks) = 0
      BY <1>1
    <3>2. i # 1 => i - 1 = Len(Top.chunks) /\ i - 1 \in 1 .. Len(Top.chunks)
      BY <1>1, <2>2
    <3> QED BY <1>2, <1>3, <2>2, <3>1, <3>2 DEF Tried
  <2> QED BY <1>1, <2>1, <2>2
<1> QED BY <1>2, <1>4 DEF Chained

LEMMA ExtendedRun ==
  ASSUME TypeOK, Trying, FrameSound(Top), NEW t \in Allowed
  PROVE  \E run \in [0 .. Len(Extended(t.shift)) -> RuleStates] :
           IsRun(Extended(t.shift), run) /\ run[Len(Extended(t.shift))] = t.to
<1> DEFINE n == Len(Top.chunks)
<1>1. n \in Nat /\ Top.chunks \in Seq(Chunk)
  BY TopType DEF Trying, Searching, Frame
<1>2. t.shift \in BOOLEAN /\ t.to \in RuleStates
  BY AllowedType
<1>3. PICK run \in [0 .. n -> RuleStates] : IsRun(Top.chunks, run) /\ run[n] = Top.state
  BY DEF FrameSound
<1> DEFINE longer == [i \in 0 .. n + 1 |-> IF i = n + 1 THEN t.to ELSE run[i]]
<1>4. /\ Len(Extended(t.shift)) = n + 1
      /\ Extended(t.shift)[n + 1] = Tried(t.shift)
      /\ \A i \in 1 .. n : Extended(t.shift)[i] = Top.chunks[i]
  BY <1>2, ExtendedChained
<1>5. longer \in [0 .. Len(Extended(t.shift)) -> RuleStates]
  BY <1>1, <1>2, <1>3, <1>4
<1>6. longer[0] = InitialState
  BY <1>1, <1>3 DEF IsRun
<1>7. ASSUME NEW i \in 1 .. n + 1
      PROVE  Leads(longer[i - 1], Extended(t.shift)[i], longer[i])
  <2>1. CASE i = n + 1
    <3>1. longer[i - 1] = Top.state /\ longer[i] = t.to
      BY <1>1, <1>3, <2>1
    <3> QED BY <1>4, <2>1, <3>1, TriedLeads
  <2>2. CASE i \in 1 .. n
    <3>1. longer[i - 1] = run[i - 1] /\ longer[i] = run[i] /\ i \in DOMAIN Top.chunks
      BY <1>1, <2>2
    <3> QED BY <1>3, <1>4, <2>2, <3>1 DEF IsRun
  <2> QED BY <1>1, <2>1, <2>2
<1>8. DOMAIN Extended(t.shift) = 1 .. n + 1
  BY <1>1, <1>4 DEF Extended
<1>9. longer[Len(Extended(t.shift))] = t.to
  BY <1>1, <1>4
<1> HIDE DEF longer
<1> QED BY <1>5, <1>6, <1>7, <1>8, <1>9 DEF IsRun
LEMMA EnterSound ==
  ASSUME TypeOK, NEW at \in Position, NEW state \in RuleStates, NEW chunks \in Seq(Chunk),
         at <= part.to,
         at = IF chunks = <<>> THEN part.from ELSE chunks[Len(chunks)].to + 1,
         Chained(part, chunks),
         \E run \in [0 .. Len(chunks) -> RuleStates] : IsRun(chunks, run) /\ run[Len(chunks)] = state
  PROVE  FrameSound(Enter(at, state, chunks))
BY WordType DEF FrameSound, Enter, Position

(* Moving a frame's cursor within the part keeps it sound.                 *)
LEMMA CursorSound ==
  ASSUME NEW f \in Frame, NEW end, NEW group, FrameSound(f), f.at <= end, end <= part.to + 1
  PROVE  FrameSound([f EXCEPT !.end = end, !.group = group])
<1> DEFINE g == [f EXCEPT !.end = end, !.group = group]
<1>1. g.at = f.at /\ g.state = f.state /\ g.chunks = f.chunks /\ g.end = end
  BY DEF Frame
<1> HIDE DEF g
<1> QED BY <1>1 DEF FrameSound

LEMMA NextGroupSound ==
  ASSUME TypeOK, Trying, SearchInv
  PROVE  \A d \in DOMAIN NextGroup : FrameSound(NextGroup[d])
<1>1. Depth \in DOMAIN frames /\ Top \in Frame /\ Len(frames) \in Nat /\ Top = frames[Depth]
  BY TopType DEF Trying, Searching, TypeOK, Top
<1>2. NextGroup[Depth] = [Top EXCEPT !.end = Top.end, !.group = Top.group + 1]
  BY <1>1 DEF NextGroup, Frame
<1>3. FrameSound(Top) /\ Top.at <= Top.end /\ Top.end <= part.to + 1
  BY <1>1 DEF SearchInv, FrameSound
<1>4. FrameSound(NextGroup[Depth])
  <2>1. FrameSound([Top EXCEPT !.end = Top.end, !.group = Top.group + 1])
    BY <1>1, <1>3, CursorSound
  <2> QED BY <1>2, <2>1
<1>5. DOMAIN NextGroup = DOMAIN frames /\ \A d \in DOMAIN frames \ {Depth} : NextGroup[d] = frames[d]
  BY <1>1 DEF NextGroup
<1> QED BY <1>4, <1>5 DEF SearchInv

LEMMA TopSound ==
  ASSUME TypeOK, SearchInv, frames # <<>>
  PROVE  FrameSound(Top)
BY TopType DEF SearchInv, Top

(* A path the search completes is a segmentation.                          *)
LEMMA AcceptedSound ==
  ASSUME TypeOK, SearchInv, Trying, AtEnd, NEW t \in Allowed
  PROVE  IsSegmentation(part, [chunks |-> Extended(t.shift), weak |-> rules[t.to].weak])
<1> DEFINE path == [chunks |-> Extended(t.shift), weak |-> rules[t.to].weak]
           n == Len(Top.chunks)
<1> SUFFICES IsSegmentation(part, path)
  OBVIOUS
<1>0. Searching
  BY DEF Trying
<1>1. FrameSound(Top) /\ t.shift \in BOOLEAN /\ n \in Nat
  BY <1>0, TopSound, SearchingType, AllowedType
<1>2. /\ Chained(part, Extended(t.shift)) /\ Len(Extended(t.shift)) = n + 1
      /\ Extended(t.shift)[n + 1].to = part.to
  <2>1. Tried(t.shift).to = part.to
    BY DEF Tried, AtEnd
  <2> QED BY <1>1, <2>1, ExtendedChained
<1>3. PICK run \in [0 .. Len(Extended(t.shift)) -> RuleStates] :
        IsRun(Extended(t.shift), run) /\ run[Len(Extended(t.shift))] = t.to
  BY <1>1, ExtendedRun
<1>4. rules[t.to].accepting
  BY AllowedType DEF Allows
<1>5. path.chunks = Extended(t.shift) /\ path.weak = rules[t.to].weak
  OBVIOUS
<1> HIDE DEF path
<1>6. Segments(part, path, run)
  BY <1>1, <1>2, <1>3, <1>4, <1>5 DEF Segments
<1> QED BY <1>3, <1>5, <1>6 DEF IsSegmentation

LEMMA SearchInit == Init => SearchInv
BY DEF Init, SearchInv, PathsSound

LEMMA SearchNext == TypeOK /\ SearchInv /\ [Next]_vars => SearchInv'
<1> SUFFICES ASSUME TypeOK, SearchInv, [Next]_vars PROVE SearchInv'
  OBVIOUS
<1>1. ASSUME UNCHANGED <<call, part>>, pc = "search", pc' = "search",
             \A d \in DOMAIN frames' : FrameSound(frames'[d]),
             \A i \in DOMAIN paths' : IsSegmentation(part, paths'[i])
      PROVE  SearchInv'
  <2>1. UNCHANGED <<word, rules, part>>
    BY <1>1 DEF call
  <2>2. (\A d \in DOMAIN frames : FrameSound(frames[d]))'
    BY <1>1, <2>1, SameSearch
  <2>3. PathsSound'
    BY <1>1, <2>1, SameSearch DEF PathsSound
  <2> QED BY <1>1, <2>2, <2>3 DEF SearchInv
<1>2. ASSUME frames' = <<>>, pc' # "search"
      PROVE  SearchInv'
  BY <1>2 DEF SearchInv, PathsSound
<1>3. pc = "search" => \A i \in DOMAIN paths : IsSegmentation(part, paths[i])
  BY DEF SearchInv, PathsSound
<1>4. CASE StartSearch
  <2>1. UNCHANGED <<word, rules, part>> /\ frames' = <<Enter(part.from, InitialState, <<>>)>>
        /\ paths' = <<>> /\ pc' = "search"
    BY <1>4 DEF StartSearch, call
  <2>2. FrameSound(Enter(part.from, InitialState, <<>>))
    <3>1. [i \in {0} |-> InitialState] \in [0 .. Len(<<>>) -> RuleStates]
      BY WordType
    <3>2. IsRun(<<>>, [i \in {0} |-> InitialState])
      BY DEF IsRun
    <3>3. Chained(part, <<>>)
      BY DEF Chained
    <3>4. <<>> \in Seq(Chunk) /\ part.from \in Position /\ part.from <= part.to /\ InitialState \in RuleStates
      BY WordType DEF Position
    <3> QED BY <3>1, <3>2, <3>3, <3>4, EnterSound
  <2>3. (\A d \in DOMAIN frames : FrameSound(frames[d]))'
    <3>1. \A d \in DOMAIN frames' : FrameSound(frames'[d])
      BY <2>1, <2>2
    <3> QED BY <2>1, <3>1, SameSearch
  <2> QED BY <2>1, <2>3 DEF SearchInv, PathsSound
<1>5. CASE LookUp
  <2>1. frames = <<>> /\ back # "search"
    BY <1>5 DEF LookUp, SearchInv, TypeOK, SplittingOK
  <2> QED BY <1>2, <1>5, <2>1 DEF LookUp
<1>6. CASE Refuse
  <2>1. frames' = NextGroup /\ Trying /\ pc = "search"
    BY <1>6 DEF Refuse, Trying, Searching
  <2> QED BY <1>1, <1>3, <1>6, <2>1, NextGroupSound DEF Refuse
<1>7. CASE Accept
  <2>1. frames' = NextGroup /\ Trying /\ AtEnd /\ pc = "search"
    BY <1>7 DEF Accept, Trying, Searching
  <2>2. PICK t \in Allowed : paths' = Append(paths, [chunks |-> Extended(t.shift), weak |-> rules[t.to].weak])
    BY <1>7 DEF Accept
  <2>3. \A i \in DOMAIN paths' : IsSegmentation(part, paths'[i])
    <3> DEFINE path == [chunks |-> Extended(t.shift), weak |-> rules[t.to].weak]
    <3>1. IsSegmentation(part, path)
      BY <2>1, <2>2, AcceptedSound
    <3>2. paths \in Seq(Path)
      BY DEF TypeOK
    <3> HIDE DEF path
    <3> QED BY <1>3, <2>1, <2>2, <3>1, <3>2 DEF path
  <2> QED BY <1>1, <1>7, <2>1, <2>3, NextGroupSound DEF Accept
<1>8. CASE Descend
  <2>1. Trying /\ ~AtEnd /\ pc = "search"
    BY <1>8 DEF Descend, Trying, Searching
  <2>2. PICK t \in Allowed : frames' = Append(NextGroup, Enter(Top.end + 1, t.to, Extended(t.shift)))
    BY <1>8 DEF Descend
  <2>3. FrameSound(Enter(Top.end + 1, t.to, Extended(t.shift)))
    <3>1. t.shift \in BOOLEAN /\ t.to \in RuleStates /\ Extended(t.shift) \in Seq(Chunk)
      BY <2>1, AllowedType, ExtendedType
    <3>2. FrameSound(Top) /\ Top \in Frame /\ Len(Top.chunks) \in Nat
      BY <2>1, TopSound, TopType DEF Trying, Searching, Frame
    <3>3. Top.end + 1 \in Position /\ Top.end + 1 <= part.to
      BY <2>1, <3>2, WordType DEF Trying, Searching, AtEnd, Frame, Position
    <3>4. /\ Chained(part, Extended(t.shift)) /\ Extended(t.shift) # <<>>
          /\ Extended(t.shift)[Len(Extended(t.shift))].to = Top.end
      <4>1. Tried(t.shift).to = Top.end
        BY DEF Tried
      <4>2. Extended(t.shift) # <<>> <=> Len(Extended(t.shift)) # 0
        BY <3>1
      <4> QED BY <2>1, <3>1, <3>2, <4>1, <4>2, ExtendedChained
    <3>5. \E run \in [0 .. Len(Extended(t.shift)) -> RuleStates] :
            IsRun(Extended(t.shift), run) /\ run[Len(Extended(t.shift))] = t.to
      BY <2>1, <3>2, ExtendedRun
    <3> QED BY <3>1, <3>3, <3>4, <3>5, EnterSound
  <2>4. NextGroup \in Seq(Frame) /\ \A d \in DOMAIN NextGroup : FrameSound(NextGroup[d])
    BY <2>1, NextGroupType, NextGroupSound
  <2>5. \A d \in DOMAIN frames' : FrameSound(frames'[d])
    <3> DEFINE new == Enter(Top.end + 1, t.to, Extended(t.shift))
    <3>1. frames' = Append(NextGroup, new) /\ FrameSound(new)
      BY <2>2, <2>3
    <3> HIDE DEF new
    <3> QED BY <2>4, <3>1
  <2> QED BY <1>1, <1>3, <1>8, <2>1, <2>5 DEF Descend
<1>9. CASE NextPrefix
  <2>1. Depth \in DOMAIN frames /\ Top \in Frame /\ FrameSound(Top) /\ frames \in Seq(Frame)
        /\ Top = frames[Depth] /\ pc = "search" /\ Top.end <= part.to
    BY <1>9, TopType, TopSound DEF NextPrefix, Searching, TypeOK, Top
  <2>2. FrameSound([Top EXCEPT !.end = Top.end + 1, !.group = 1])
    <3>1. Top.at <= Top.end + 1 /\ Top.end + 1 <= part.to + 1
      <4>1. Searching
        BY <1>9 DEF NextPrefix
      <4>2. Top.at \in Nat /\ Top.end \in Nat /\ part.to \in Nat /\ Top.at <= Top.end /\ Top.end <= part.to
        BY <2>1, <4>1, SearchingType DEF FrameSound
      <4> QED BY <4>2
    <3> QED BY <2>1, <3>1, CursorSound
  <2>3. frames' = [frames EXCEPT ![Depth] = [Top EXCEPT !.end = Top.end + 1, !.group = 1]]
    BY <1>9, <2>1 DEF NextPrefix
  <2>4. \A d \in DOMAIN frames' : FrameSound(frames'[d])
    <3> DEFINE new == [Top EXCEPT !.end = Top.end + 1, !.group = 1]
    <3>1. frames' = [frames EXCEPT ![Depth] = new] /\ FrameSound(new)
      BY <2>2, <2>3
    <3> HIDE DEF new
    <3> QED BY <2>1, <3>1 DEF SearchInv
  <2> QED BY <1>1, <1>3, <1>9, <2>1, <2>4 DEF NextPrefix
<1>10. CASE Leave
  <2>1. frames \in Seq(Frame) /\ frames # <<>> /\ pc = "search"
    BY <1>10 DEF Leave, TypeOK
  <2>2. \A d \in DOMAIN frames' : d \in DOMAIN frames /\ frames'[d] = frames[d]
    BY <1>10, <2>1 DEF Leave, Depth
  <2>3. \A d \in DOMAIN frames' : FrameSound(frames'[d])
    BY <2>2 DEF SearchInv
  <2> QED BY <1>1, <1>3, <1>10, <2>1, <2>3 DEF Leave
<1>11. back # "search" /\ (frames # <<>> => pc = "search")
  BY DEF TypeOK, SplittingOK, SearchInv
<1>12. CASE Found \/ Unknown
  BY <1>2, <1>11, <1>12 DEF Found, Unknown, Searched, Answer
<1>13. CASE Split
  BY <1>2, <1>13 DEF Split, Searched
<1>14. CASE ExtendRun \/ AllSplit
  BY <1>2, <1>11, <1>14 DEF ExtendRun, AllSplit, AtChar, AfterChars
<1>15. CASE TakeRun \/ Separator \/ LastRun
  BY <1>2, <1>11, <1>15 DEF TakeRun, Separator, LastRun, AtSeparator, AtChar, AfterChars, ProcessSlice
<1>16. CASE UNCHANGED vars
  <2>1. UNCHANGED <<word, rules, part, frames, paths, pc>>
    BY <1>16 DEF vars, call
  <2> QED BY <2>1, SameSearch DEF SearchInv, PathsSound
<1> QED BY <1>4, <1>5, <1>6, <1>7, <1>8, <1>9, <1>10, <1>12, <1>13, <1>14, <1>15, <1>16 DEF Next

(* The search finds only segmentations: each path is a way to write the    *)
(* part as dictionary segments that the rules accept.                      *)
THEOREM OnlySegmentations == Spec => []PathsSound
<1>1. Spec => [](TypeOK /\ SearchInv)
  BY PartsAlways, SearchInit, SearchNext, PTL DEF Spec
<1>2. SearchInv => PathsSound
  BY DEF SearchInv
<1> QED BY <1>1, <1>2, PTL
-----------------------------------------------------------------------------
(* Completeness: a segmentation is found or still ahead of an activation,  *)
(* which has come to it by its first chunks and run, and whose loops have  *)
(* not passed the next one.                                                *)

Ahead(f, s, run) ==
  LET n == Len(f.chunks)
      c == s.chunks[n + 1] IN
  /\ n < Len(s.chunks)
  /\ \A i \in 1 .. n : s.chunks[i] = f.chunks[i]
  /\ run[n] = f.state
  /\ c.to > f.end \/ (c.to = f.end /\ c.group >= f.group)

Accounted(s, run) ==
  \/ \E i \in DOMAIN paths : paths[i] = s
  \/ \E d \in DOMAIN frames : Ahead(frames[d], s, run)

CompleteInv ==
  pc = "search" =>
    \A s \in Path : \A run \in [0 .. Len(s.chunks) -> RuleStates] :
      Segments(part, s, run) => Accounted(s, run)

LEMMA PathType ==
  ASSUME NEW s \in Path
  PROVE  /\ s.chunks \in Seq(Chunk) /\ Len(s.chunks) \in Nat /\ s.weak \in BOOLEAN
         /\ DOMAIN s.chunks = 1 .. Len(s.chunks)
         /\ \A i \in 1 .. Len(s.chunks) :
              /\ s.chunks[i].from \in Nat /\ s.chunks[i].to \in Nat /\ s.chunks[i].group \in Nat \ {0}
              /\ s.chunks[i] = [from |-> s.chunks[i].from, to |-> s.chunks[i].to,
                                group |-> s.chunks[i].group, shift |-> s.chunks[i].shift]
<1>1. s.chunks \in Seq(Chunk) /\ s.weak \in BOOLEAN
  BY DEF Path
<1>2. \A i \in 1 .. Len(s.chunks) : s.chunks[i] \in Chunk
  BY <1>1, Elements
<1>3. ASSUME NEW c \in Chunk
      PROVE  /\ c.from \in Nat /\ c.to \in Nat /\ c.group \in Nat \ {0}
             /\ c = [from |-> c.from, to |-> c.to, group |-> c.group, shift |-> c.shift]
  <2>1. Position \subseteq Nat
    BY DEF Position
  <2> QED BY <2>1 DEF Chunk
<1> QED BY <1>1, <1>2, <1>3

(* The next chunk starts where the activation does, with a group there.    *)
LEMMA NextChunk ==
  ASSUME TypeOK, frames # <<>>, FrameSound(Top),
         NEW s \in Path, NEW run, Segments(part, s, run), Ahead(Top, s, run)
  PROVE  LET n == Len(Top.chunks)
             c == s.chunks[n + 1] IN
         /\ n \in Nat /\ n + 1 \in 1 .. Len(s.chunks)
         /\ c.from = Top.at /\ c.to <= part.to /\ c.to \in Nat /\ c.group \in Nat \ {0}
         /\ c.group \in DOMAIN GroupsAt(Top.at, c.to)
         /\ c = [from |-> Top.at, to |-> c.to, group |-> c.group, shift |-> c.shift]
<1> DEFINE n == Len(Top.chunks)
           c == s.chunks[n + 1]
<1>1. n \in Nat /\ Top.chunks \in Seq(Chunk) /\ (Top.chunks = <<>> <=> n = 0)
  BY TopType DEF Frame
<1>2. n + 1 \in 1 .. Len(s.chunks) /\ \A i \in 1 .. n : s.chunks[i] = Top.chunks[i]
  BY <1>1, PathType DEF Ahead
<1>3. n + 1 \in DOMAIN s.chunks /\ Chained(part, s.chunks)
  BY <1>2, PathType DEF Segments
<1>4. /\ c.from = IF n + 1 = 1 THEN part.from ELSE s.chunks[n + 1 - 1].to + 1
      /\ c.to <= part.to /\ c.group \in DOMAIN GroupsAt(c.from, c.to)
  BY <1>3 DEF Chained
<1>5. c.from = Top.at
  BY <1>1, <1>2, <1>4 DEF FrameSound
<1>6. c.to \in Nat /\ c.group \in Nat \ {0}
      /\ c = [from |-> c.from, to |-> c.to, group |-> c.group, shift |-> c.shift]
  BY <1>2, PathType
<1> HIDE DEF c
<1> QED BY <1>1, <1>2, <1>4, <1>5, <1>6 DEF c

(* A segmentation ends with its first chunk that ends with the part.       *)
LEMMA EndsOnce ==
  ASSUME TypeOK, NEW s \in Path, NEW run, Segments(part, s, run), NEW i \in 1 .. Len(s.chunks)
  PROVE  s.chunks[i].to = part.to <=> i = Len(s.chunks)
<1>1. s.chunks[Len(s.chunks)].to = part.to /\ Chained(part, s.chunks)
  BY DEF Segments
<1>2. ASSUME s.chunks[i].to = part.to, i # Len(s.chunks)
      PROVE  FALSE
  <2>1. i + 1 \in 1 .. Len(s.chunks) /\ i + 1 # 1 /\ i + 1 - 1 = i
    BY <1>2, PathType
  <2>2. /\ s.chunks[i + 1].from = s.chunks[i].to + 1
        /\ s.chunks[i + 1].from <= s.chunks[i + 1].to /\ s.chunks[i + 1].to <= part.to
    BY <1>1, <2>1, PathType DEF Chained
  <2>3. s.chunks[i + 1].to \in Nat /\ s.chunks[i + 1].from \in Nat
    BY <2>1, PathType
  <2>4. part.to \in Nat
    BY WordType
  <2> QED BY <1>2, <2>2, <2>3, <2>4
<1> QED BY <1>1, <1>2

(* The rules allow the group that a segmentation continues with.           *)
LEMMA TriedAllowed ==
  ASSUME TypeOK, Trying, FrameSound(Top),
         NEW s \in Path, NEW run \in [0 .. Len(s.chunks) -> RuleStates],
         Segments(part, s, run), Ahead(Top, s, run),
         s.chunks[Len(Top.chunks) + 1].to = Top.end,
         s.chunks[Len(Top.chunks) + 1].group = Top.group
  PROVE  LET n == Len(Top.chunks) IN
         /\ Allowed # {}
         /\ \A t \in Allowed : t.to = run[n + 1] /\ s.chunks[n + 1] = Tried(t.shift)
<1> DEFINE n == Len(Top.chunks)
           c == s.chunks[n + 1]
           type == Groups[Top.group].segment_type
           transitions == rules[Top.state].transitions
<1>0. Searching /\ frames # <<>>
  BY DEF Trying, Searching
<1>1. /\ n \in Nat /\ n + 1 \in 1 .. Len(s.chunks)
      /\ c = [from |-> Top.at, to |-> Top.end, group |-> Top.group, shift |-> c.shift]
      /\ c.from = Top.at
  BY <1>0, NextChunk
<1>2. Leads(run[n], c, run[n + 1])
  <2>1. n + 1 \in DOMAIN s.chunks /\ n + 1 - 1 = n
    BY <1>1, PathType
  <2> QED BY <2>1 DEF Segments, IsRun
<1>3. run[n] = Top.state /\ GroupOf(c).segment_type = type
  BY <1>1 DEF Ahead, GroupOf, Groups
<1>4. PICK k \in DOMAIN transitions :
        IsTransition(Top.state, type, k) /\ transitions[k].shift = c.shift /\ transitions[k].to = run[n + 1]
  BY <1>2, <1>3 DEF Leads
<1>5. Allows(run[n + 1], AtEnd)
  <2>1. AtEnd <=> n + 1 = Len(s.chunks)
    BY <1>1, EndsOnce DEF AtEnd
  <2>2. CASE n + 1 = Len(s.chunks)
    BY <2>1, <2>2 DEF Segments, Allows
  <2>3. CASE n + 1 # Len(s.chunks)
    <3>1. n + 2 \in DOMAIN s.chunks /\ n + 2 - 1 = n + 1
      BY <1>1, <2>3, PathType
    <3>2. Leads(run[n + 1], s.chunks[n + 2], run[n + 2])
      BY <3>1 DEF Segments, IsRun
    <3> QED BY <2>1, <2>3, <3>2 DEF Leads, Allows, Sink
  <2> QED BY <2>2, <2>3
<1>6. transitions[k] \in Allowed
  BY <1>4, <1>5 DEF Allowed, Proceeds
<1>7. ASSUME NEW t \in Allowed
      PROVE  t = transitions[k]
  <2>1. PICK j \in DOMAIN transitions : t = transitions[j] /\ IsTransition(Top.state, type, j)
    BY <1>7 DEF Allowed, Proceeds
  <2>2. transitions \in Seq(Transition)
    BY <1>0, SearchingType, RulesType
  <2>3. j \in Nat /\ k \in Nat /\ j \in 1 .. Len(transitions) /\ k \in 1 .. Len(transitions)
    BY <2>2
  <2>4. ~(j < k) /\ ~(k < j)
    BY <1>4, <2>1, <2>3 DEF IsTransition
  <2> QED BY <2>1, <2>3, <2>4
<1>8. c = Tried(transitions[k].shift)
  BY <1>1, <1>4 DEF Tried
<1> QED BY <1>4, <1>6, <1>7, <1>8
(* A segmentation that the top frame does not continue with now stays      *)
(* ahead of it when its cursor moves to the next group or prefix.          *)
LEMMA StaysAhead ==
  ASSUME TypeOK, frames # <<>>, NEW s, NEW run, Ahead(Top, s, run), NEW end \in Nat, NEW group \in Nat,
         LET c == s.chunks[Len(Top.chunks) + 1] IN c.to > end \/ (c.to = end /\ c.group >= group)
  PROVE  Ahead([Top EXCEPT !.end = end, !.group = group], s, run)
<1> DEFINE g == [Top EXCEPT !.end = end, !.group = group]
<1>1. g.state = Top.state /\ g.chunks = Top.chunks /\ g.end = end /\ g.group = group
  BY TopType DEF Frame
<1> HIDE DEF g
<1> QED BY <1>1 DEF Ahead

LEMMA OthersKept ==
  ASSUME TypeOK, frames # <<>>, NEW g
  PROVE  /\ [frames EXCEPT ![Depth] = g][Depth] = g
         /\ DOMAIN [frames EXCEPT ![Depth] = g] = DOMAIN frames
         /\ Depth \in DOMAIN frames
         /\ \A d \in DOMAIN frames : d # Depth => [frames EXCEPT ![Depth] = g][d] = frames[d]
BY TopType DEF TypeOK

LEMMA NextGroupIs ==
  ASSUME TypeOK, frames # <<>>
  PROVE  NextGroup = [frames EXCEPT ![Depth] = [Top EXCEPT !.end = Top.end, !.group = Top.group + 1]]
BY TopType DEF NextGroup, Top, Frame, TypeOK

(* Trying a group leaves what the top frame continues with otherwise.      *)
LEMMA TriedOrAhead ==
  ASSUME TypeOK, Trying, SearchInv,
         NEW s \in Path, NEW run, Segments(part, s, run),
         NEW d \in DOMAIN frames, Ahead(frames[d], s, run)
  PROVE  \/ Ahead(NextGroup[d], s, run)
         \/ /\ d = Depth
            /\ s.chunks[Len(Top.chunks) + 1].to = Top.end
            /\ s.chunks[Len(Top.chunks) + 1].group = Top.group
<1> DEFINE c == s.chunks[Len(Top.chunks) + 1]
<1>1. Searching /\ frames # <<>>
  BY DEF Trying, Searching
<1>2. Top.end \in Nat /\ Top.group \in Nat
  BY <1>1, SearchingType
<1>3. CASE d # Depth
  BY <1>1, <1>3, OthersKept, NextGroupIs
<1>4. CASE d = Depth
  <2>1. Ahead(Top, s, run) /\ FrameSound(Top)
    BY <1>1, <1>4, TopSound DEF Top
  <2>2. c.to \in Nat /\ c.group \in Nat
    BY <1>1, <2>1, NextChunk
  <2>3. c.to > Top.end \/ (c.to = Top.end /\ c.group >= Top.group)
    BY <2>1 DEF Ahead
  <2>4. CASE c.to = Top.end /\ c.group = Top.group
    BY <1>4, <2>4
  <2>5. CASE ~(c.to = Top.end /\ c.group = Top.group)
    <3>1. c.to > Top.end \/ (c.to = Top.end /\ c.group >= Top.group + 1)
      BY <1>2, <2>2, <2>3, <2>5
    <3>4. Top.group + 1 \in Nat
      BY <1>2
    <3>2. Ahead([Top EXCEPT !.end = Top.end, !.group = Top.group + 1], s, run)
      <4>1. LET e == s.chunks[Len(Top.chunks) + 1] IN
            e.to > Top.end \/ (e.to = Top.end /\ e.group >= Top.group + 1)
        BY <3>1
      <4> HIDE DEF c
      <4> DEFINE next == Top.group + 1
                 end == Top.end
      <4>2. next \in Nat /\ end \in Nat /\ LET e == s.chunks[Len(Top.chunks) + 1] IN
               e.to > end \/ (e.to = end /\ e.group >= next)
        BY <1>2, <4>1
      <4> HIDE DEF next, end
      <4>3. Ahead([Top EXCEPT !.end = end, !.group = next], s, run)
        BY <1>1, <2>1, <4>2, StaysAhead
      <4> QED BY <4>3 DEF next, end
    <3>3. NextGroup[Depth] = [Top EXCEPT !.end = Top.end, !.group = Top.group + 1]
      BY <1>1, NextGroupIs, OthersKept
    <3> QED BY <1>4, <3>2, <3>3
  <2> QED BY <2>4, <2>5
<1> QED BY <1>3, <1>4

LEMMA NextGroupDomain ==
  ASSUME TypeOK, frames # <<>>
  PROVE  DOMAIN NextGroup = DOMAIN frames /\ Len(NextGroup) = Depth /\ Depth \in Nat
BY TopType DEF NextGroup, Depth, TypeOK

LEMMA RefuseComplete ==
  ASSUME TypeOK, SearchInv, Refuse,
         NEW s \in Path, NEW run \in [0 .. Len(s.chunks) -> RuleStates],
         Segments(part, s, run), Accounted(s, run)
  PROVE  Accounted(s, run)'
<1>1. Trying /\ Allowed = {} /\ frames' = NextGroup /\ paths' = paths /\ frames # <<>>
  BY DEF Refuse, Trying, Searching
<1>2. CASE \E i \in DOMAIN paths : paths[i] = s
  BY <1>1, <1>2 DEF Accounted
<1>3. ASSUME NEW d \in DOMAIN frames, Ahead(frames[d], s, run)
      PROVE  Accounted(s, run)'
  <2>1. CASE Ahead(NextGroup[d], s, run)
    BY <1>1, <2>1, NextGroupDomain DEF Accounted, Ahead
  <2>2. ASSUME d = Depth, s.chunks[Len(Top.chunks) + 1].to = Top.end,
               s.chunks[Len(Top.chunks) + 1].group = Top.group
        PROVE  FALSE
    BY <1>1, <1>3, <2>2, TopSound, TriedAllowed DEF Top
  <2> QED BY <1>1, <1>3, <2>1, <2>2, TriedOrAhead
<1> QED BY <1>2, <1>3 DEF Accounted

LEMMA AcceptComplete ==
  ASSUME TypeOK, SearchInv, Accept,
         NEW s \in Path, NEW run \in [0 .. Len(s.chunks) -> RuleStates],
         Segments(part, s, run), Accounted(s, run)
  PROVE  Accounted(s, run)'
<1>1. Trying /\ AtEnd /\ frames' = NextGroup /\ frames # <<>> /\ paths \in Seq(Path)
  BY DEF Accept, Trying, Searching, TypeOK
<1>2. PICK t \in Allowed : paths' = Append(paths, [chunks |-> Extended(t.shift), weak |-> rules[t.to].weak])
  BY DEF Accept
<1> DEFINE found == [chunks |-> Extended(t.shift), weak |-> rules[t.to].weak]
<1>3. /\ \A i \in DOMAIN paths : i \in DOMAIN paths' /\ paths'[i] = paths[i]
      /\ Len(paths) + 1 \in DOMAIN paths' /\ paths'[Len(paths) + 1] = found
  <2>1. paths' = Append(paths, found)
    BY <1>2
  <2> HIDE DEF found
  <2> QED BY <1>1, <2>1
<1>4. CASE \E i \in DOMAIN paths : paths[i] = s
  BY <1>3, <1>4 DEF Accounted
<1>5. ASSUME NEW d \in DOMAIN frames, Ahead(frames[d], s, run)
      PROVE  Accounted(s, run)'
  <2>1. CASE Ahead(NextGroup[d], s, run)
    BY <1>1, <2>1, NextGroupDomain DEF Accounted, Ahead
  <2>2. ASSUME d = Depth, s.chunks[Len(Top.chunks) + 1].to = Top.end,
               s.chunks[Len(Top.chunks) + 1].group = Top.group
        PROVE  found = s
    <3> DEFINE n == Len(Top.chunks)
    <3>1. Ahead(Top, s, run) /\ FrameSound(Top)
      BY <1>1, <1>5, <2>2, TopSound DEF Top
    <3>2. t.to = run[n + 1] /\ s.chunks[n + 1] = Tried(t.shift)
      BY <1>1, <1>2, <2>2, <3>1, TriedAllowed
    <3>3. n \in Nat /\ n + 1 \in 1 .. Len(s.chunks)
      BY <1>1, <3>1, NextChunk
    <3>4. n + 1 = Len(s.chunks)
      BY <1>1, <2>2, <3>3, EndsOnce DEF AtEnd
    <3>5. /\ Extended(t.shift) \in Seq(Chunk) /\ Len(Extended(t.shift)) = n + 1
          /\ Extended(t.shift)[n + 1] = Tried(t.shift)
          /\ \A i \in 1 .. n : Extended(t.shift)[i] = Top.chunks[i]
      BY <1>1, <1>2, <3>1, AllowedType, ExtendedType, ExtendedChained
    <3>6. \A i \in 1 .. n + 1 : Extended(t.shift)[i] = s.chunks[i]
      BY <3>1, <3>2, <3>3, <3>5 DEF Ahead
    <3>7. s.chunks = Extended(t.shift)
      BY <3>3, <3>4, <3>5, <3>6, PathType
    <3>8. s.weak = rules[t.to].weak
      BY <3>2, <3>4 DEF Segments
    <3> QED BY <3>7, <3>8 DEF Path
  <2>3. CASE found = s
    BY <1>3, <2>3 DEF Accounted
  <2> QED BY <1>1, <1>5, <2>1, <2>2, <2>3, TriedOrAhead
<1> QED BY <1>4, <1>5 DEF Accounted

LEMMA DescendComplete ==
  ASSUME TypeOK, SearchInv, Descend,
         NEW s \in Path, NEW run \in [0 .. Len(s.chunks) -> RuleStates],
         Segments(part, s, run), Accounted(s, run)
  PROVE  Accounted(s, run)'
<1>1. Trying /\ ~AtEnd /\ frames # <<>> /\ paths' = paths /\ NextGroup \in Seq(Frame)
  BY NextGroupType DEF Descend, Trying, Searching
<1>2. PICK t \in Allowed : frames' = Append(NextGroup, Enter(Top.end + 1, t.to, Extended(t.shift)))
  BY DEF Descend
<1> DEFINE inner == Enter(Top.end + 1, t.to, Extended(t.shift))
<1>3. /\ \A d \in DOMAIN frames : d \in DOMAIN frames' /\ frames'[d] = NextGroup[d]
      /\ Depth + 1 \in DOMAIN frames' /\ frames'[Depth + 1] = inner
  <2>1. frames' = Append(NextGroup, inner)
    BY <1>2
  <2> HIDE DEF inner
  <2> QED BY <1>1, <2>1, NextGroupDomain
<1>4. CASE \E i \in DOMAIN paths : paths[i] = s
  BY <1>1, <1>4 DEF Accounted
<1>5. ASSUME NEW d \in DOMAIN frames, Ahead(frames[d], s, run)
      PROVE  Accounted(s, run)'
  <2>1. CASE Ahead(NextGroup[d], s, run)
    BY <1>3, <2>1 DEF Accounted, Ahead
  <2>2. ASSUME d = Depth, s.chunks[Len(Top.chunks) + 1].to = Top.end,
               s.chunks[Len(Top.chunks) + 1].group = Top.group
        PROVE  Ahead(inner, s, run)
    <3> DEFINE n == Len(Top.chunks)
    <3>1. Ahead(Top, s, run) /\ FrameSound(Top)
      BY <1>1, <1>5, <2>2, TopSound DEF Top
    <3>2. t.to = run[n + 1] /\ s.chunks[n + 1] = Tried(t.shift)
      BY <1>1, <1>2, <2>2, <3>1, TriedAllowed
    <3>3. n \in Nat /\ n + 1 \in 1 .. Len(s.chunks)
      BY <1>1, <3>1, NextChunk
    <3>4. n + 1 # Len(s.chunks)
      BY <1>1, <2>2, <3>3, EndsOnce DEF AtEnd
    <3>5. /\ Len(Extended(t.shift)) = n + 1
          /\ Extended(t.shift)[n + 1] = Tried(t.shift)
          /\ \A i \in 1 .. n : Extended(t.shift)[i] = Top.chunks[i]
      BY <1>1, <1>2, <3>1, AllowedType, ExtendedChained
    <3>6. \A i \in 1 .. n + 1 : s.chunks[i] = Extended(t.shift)[i]
      BY <3>1, <3>2, <3>3, <3>5 DEF Ahead
    <3>7. n + 2 \in 1 .. Len(s.chunks) /\ n + 2 # 1 /\ n + 2 - 1 = n + 1
      BY <3>3, <3>4, PathType
    <3>8. /\ s.chunks[n + 2].from = Top.end + 1
          /\ s.chunks[n + 2].from <= s.chunks[n + 2].to
      BY <2>2, <3>7, PathType DEF Segments, Chained
    <3>9. s.chunks[n + 2].to \in Nat /\ s.chunks[n + 2].group \in Nat \ {0} /\ Top.end \in Nat
      BY <1>1, <3>7, PathType, SearchingType DEF Trying
    <3>10. s.chunks[n + 2].to >= Top.end + 1 /\ s.chunks[n + 2].group >= 1
      BY <3>8, <3>9
    <3>11. /\ inner.chunks = Extended(t.shift) /\ inner.state = t.to
           /\ inner.end = Top.end + 1 /\ inner.group = 1
      BY DEF Enter
    <3>12. n + 1 < Len(s.chunks) /\ n + 1 + 1 = n + 2
      BY <3>3, <3>7, PathType
    <3>13. \/ s.chunks[n + 2].to > inner.end
           \/ s.chunks[n + 2].to = inner.end /\ s.chunks[n + 2].group >= inner.group
      BY <3>9, <3>10, <3>11
    <3> HIDE DEF inner
    <3> QED BY <3>2, <3>5, <3>6, <3>11, <3>12, <3>13 DEF Ahead
  <2>3. CASE Ahead(inner, s, run)
    BY <1>3, <2>3 DEF Accounted, Ahead
  <2> QED BY <1>1, <1>5, <2>1, <2>2, <2>3, TriedOrAhead
<1> QED BY <1>4, <1>5 DEF Accounted

LEMMA NextPrefixComplete ==
  ASSUME TypeOK, SearchInv, NextPrefix,
         NEW s \in Path, NEW run \in [0 .. Len(s.chunks) -> RuleStates],
         Segments(part, s, run), Accounted(s, run)
  PROVE  Accounted(s, run)'
<1> DEFINE end == Top.end + 1
           moved == [Top EXCEPT !.end = end, !.group = 1]
<1>1. Searching /\ frames # <<>> /\ paths' = paths /\ Top.group \notin DOMAIN Groups
  BY DEF NextPrefix, Searching
<1>2. frames' = [frames EXCEPT ![Depth] = moved]
  BY <1>1, TopType DEF NextPrefix, Top, Frame, TypeOK
<1>3. /\ DOMAIN frames' = DOMAIN frames /\ frames'[Depth] = moved /\ Depth \in DOMAIN frames
      /\ \A d \in DOMAIN frames : d # Depth => frames'[d] = frames[d]
  <2> HIDE DEF moved
  <2> QED BY <1>1, <1>2, OthersKept
<1>4. CASE \E i \in DOMAIN paths : paths[i] = s
  BY <1>1, <1>4 DEF Accounted
<1>5. ASSUME NEW d \in DOMAIN frames, Ahead(frames[d], s, run)
      PROVE  Accounted(s, run)'
  <2>1. CASE d # Depth
    BY <1>3, <1>5, <2>1 DEF Accounted, Ahead
  <2>2. CASE d = Depth
    <3> DEFINE c == s.chunks[Len(Top.chunks) + 1]
    <3>1. Ahead(Top, s, run) /\ FrameSound(Top)
      BY <1>1, <1>5, <2>2, TopSound DEF Top
    <3>2. c.to \in Nat /\ c.group \in Nat \ {0} /\ c.group \in DOMAIN GroupsAt(Top.at, c.to)
      BY <1>1, <3>1, NextChunk
    <3>3. c.to > Top.end \/ (c.to = Top.end /\ c.group >= Top.group)
      BY <3>1 DEF Ahead
    <3>4. Top.group \in Nat \ {0} /\ Top.end \in Nat
      BY <1>1, SearchingType, TopType DEF Frame
    <3>5. ~(c.to = Top.end /\ c.group >= Top.group)
      <4>1. SUFFICES ASSUME c.to = Top.end, c.group >= Top.group
                     PROVE  FALSE
        OBVIOUS
      <4>2. c.group \in DOMAIN Groups
        BY <3>2, <4>1 DEF Groups
      <4>3. DOMAIN Groups = 1 .. Len(Groups) /\ Len(Groups) \in Nat
        BY GroupsType DEF Groups
      <4>4. Top.group \in DOMAIN Groups
        <5> HIDE DEF c
        <5> QED BY <3>2, <3>4, <4>1, <4>2, <4>3
      <4> QED BY <1>1, <4>4
    <3>6. end \in Nat /\ 1 \in Nat /\ (c.to > end \/ (c.to = end /\ c.group >= 1))
      <4> HIDE DEF c
      <4> QED BY <3>2, <3>3, <3>4, <3>5
    <3>7. Ahead(moved, s, run)
      <4>1. end \in Nat /\ 1 \in Nat /\ LET e == s.chunks[Len(Top.chunks) + 1] IN
               e.to > end \/ (e.to = end /\ e.group >= 1)
        BY <3>6
      <4> HIDE DEF end, c
      <4> QED BY <1>1, <3>1, <4>1, StaysAhead
    <3>8. Depth \in DOMAIN frames' /\ frames'[Depth] = moved
      BY <1>3
    <3> HIDE DEF moved, c
    <3> QED BY <3>7, <3>8 DEF Accounted, Ahead
  <2> QED BY <2>1, <2>2
<1> QED BY <1>4, <1>5 DEF Accounted

LEMMA LeaveComplete ==
  ASSUME TypeOK, SearchInv, Leave,
         NEW s \in Path, NEW run \in [0 .. Len(s.chunks) -> RuleStates],
         Segments(part, s, run), Accounted(s, run)
  PROVE  Accounted(s, run)'
<1>1. frames # <<>> /\ Top.end > part.to /\ paths' = paths /\ frames' = SubSeq(frames, 1, Depth - 1)
  BY DEF Leave
<1>2. /\ DOMAIN frames = 1 .. Depth /\ Depth \in Nat \ {0}
      /\ \A d \in 1 .. Depth - 1 : d \in DOMAIN frames' /\ frames'[d] = frames[d]
  BY <1>1, TopType DEF TypeOK, Depth
<1>3. CASE \E i \in DOMAIN paths : paths[i] = s
  BY <1>1, <1>3 DEF Accounted
<1>4. ASSUME NEW d \in DOMAIN frames, Ahead(frames[d], s, run)
      PROVE  Accounted(s, run)'
  <2>1. d # Depth
    <3>1. SUFFICES ASSUME d = Depth
                   PROVE  FALSE
      OBVIOUS
    <3>2. Ahead(Top, s, run) /\ FrameSound(Top)
      BY <1>1, <1>4, <3>1, TopSound DEF Top
    <3> DEFINE c == s.chunks[Len(Top.chunks) + 1]
    <3>3. c.to \in Nat /\ c.to <= part.to
      BY <1>1, <3>2, NextChunk
    <3>4. c.to >= Top.end
      <4>1. c.to > Top.end \/ c.to = Top.end
        BY <3>2 DEF Ahead
      <4>2. Top.end \in Nat
        BY <1>1, TopType, WordType DEF Frame
      <4> HIDE DEF c
      <4> QED BY <3>3, <4>1, <4>2
    <3>5. part.to \in Nat /\ Top.end \in Nat
      BY <1>1, TopType, WordType DEF Frame
    <3> HIDE DEF c
    <3> QED BY <1>1, <3>3, <3>4, <3>5
  <2>2. d \in 1 .. Depth - 1
    BY <1>2, <2>1
  <2> QED BY <1>2, <1>4, <2>2 DEF Accounted, Ahead
<1> QED BY <1>3, <1>4 DEF Accounted

(* The first activation has everything ahead of it.                        *)
LEMMA StartComplete ==
  ASSUME TypeOK, StartSearch,
         NEW s \in Path, NEW run \in [0 .. Len(s.chunks) -> RuleStates],
         Segments(part, s, run)
  PROVE  Accounted(s, run)'
<1> DEFINE first == Enter(part.from, InitialState, <<>>)
<1>1. frames' = <<first>>
  BY DEF StartSearch
<1>2. first.state = InitialState /\ first.chunks = <<>> /\ first.end = part.from /\ first.group = 1
  BY DEF Enter
<1>3. 1 \in 1 .. Len(s.chunks) /\ 0 < Len(s.chunks)
  BY PathType DEF Segments
<1>4. s.chunks[1].from = part.from /\ s.chunks[1].from <= s.chunks[1].to
  BY <1>3, PathType DEF Segments, Chained
<1>5. s.chunks[1].to \in Nat /\ s.chunks[1].group \in Nat \ {0} /\ part.from \in Nat
  <2>1. s.chunks[1].to \in Nat /\ s.chunks[1].group \in Nat \ {0}
    BY <1>3, PathType
  <2>2. part.from \in Nat
    BY WordType
  <2> QED BY <2>1, <2>2
<1>6. run[0] = InitialState
  BY DEF Segments, IsRun
<1>7. Ahead(first, s, run)
  <2>1. Len(first.chunks) = 0
    BY <1>2
  <2> HIDE DEF first
  <2>2. s.chunks[1].to > first.end \/ (s.chunks[1].to = first.end /\ s.chunks[1].group >= first.group)
    BY <1>2, <1>4, <1>5
  <2> QED BY <1>2, <1>3, <1>6, <2>1, <2>2 DEF Ahead
<1> HIDE DEF first
<1> QED BY <1>1, <1>7 DEF Accounted, Ahead

LEMMA CompleteNext == TypeOK /\ SearchInv /\ CompleteInv /\ [Next]_vars => CompleteInv'
<1> SUFFICES ASSUME TypeOK, SearchInv, CompleteInv, [Next]_vars, pc' = "search"
             PROVE  CompleteInv'
  BY DEF CompleteInv
<1>0. back # "search"
  BY DEF TypeOK, SplittingOK
<1>1. UNCHANGED <<call, part>> /\ (StartSearch \/ pc = "search")
  BY <1>0 DEF Next, vars, StartSearch, LookUp, Refuse, Accept, Descend, NextPrefix, Leave,
              Found, Unknown, Split, ExtendRun, TakeRun, Separator, LastRun, AllSplit, Answer,
              ProcessSlice, Searched, Trying, Searching
<1>2. SUFFICES ASSUME NEW s \in Path, NEW run \in [0 .. Len(s.chunks) -> RuleStates],
                      Segments(part, s, run)
               PROVE  Accounted(s, run)'
  <2>1. UNCHANGED <<word, rules, part>>
    BY <1>1 DEF call
  <2>2. Path' = Path
    BY <1>1, SameTypes
  <2>3. \A p, path, run : Segments(p, path, run)' <=> Segments(p, path, run)
    BY <2>1, SameSearch
  <2> QED BY <1>1, <1>2, <2>1, <2>2, <2>3 DEF CompleteInv
<1>3. CASE StartSearch
  BY <1>2, <1>3, StartComplete
<1>4. CASE pc = "search"
  <2>1. Accounted(s, run)
    BY <1>2, <1>4 DEF CompleteInv
  <2>2. Refuse \/ Accept \/ Descend \/ NextPrefix \/ Leave \/ UNCHANGED vars
    BY <1>0, <1>4 DEF Next, StartSearch, LookUp, Found, Unknown, Split, ExtendRun, TakeRun, Separator,
                      LastRun, AllSplit, Answer, ProcessSlice, AtChar, AfterChars, AtSeparator
  <2>3. CASE UNCHANGED vars
    BY <2>1, <2>3 DEF vars, Accounted, Ahead
  <2> QED BY <1>2, <2>1, <2>2, <2>3, RefuseComplete, AcceptComplete, DescendComplete,
             NextPrefixComplete, LeaveComplete
<1> QED BY <1>1, <1>3, <1>4

(* collect_segmented_analyzer_paths returns every way to write the part as *)
(* segments that the dictionary has and the rules accept.                  *)
THEOREM AllSegmentations ==
  Spec => [](Searched => \A s \in Path : IsSegmentation(part, s) => \E i \in DOMAIN paths : paths[i] = s)
<1>1. Init => CompleteInv
  BY DEF Init, CompleteInv
<1>2. CompleteInv /\ Searched
        => \A s \in Path : IsSegmentation(part, s) => \E i \in DOMAIN paths : paths[i] = s
  BY DEF CompleteInv, Searched, IsSegmentation, Accounted
<1> QED BY <1>1, <1>2, CompleteNext, PartsAlways, SearchInit, SearchNext, PTL DEF Spec

(* A word is split, or a part of it taken for unknown, only if it has no   *)
(* segmentation (handle_ign_chunk is called for no other).                 *)
THEOREM OnlyUnknownGivenUp ==
  Spec => [][Unknown \/ Split => ~\E s \in Path : IsSegmentation(part, s)]_vars
<1>1. (Searched => \A s \in Path : IsSegmentation(part, s) => \E i \in DOMAIN paths : paths[i] = s)
        => [Unknown \/ Split => ~\E s \in Path : IsSegmentation(part, s)]_vars
  BY DEF Unknown, Split
<1> QED BY <1>1, AllSegmentations, PTL
-----------------------------------------------------------------------------
(* What Segmentations enumerates: from each position and state, the ways   *)
(* to go on to the end of the part.                                        *)

TailBy(i, s, p, t, run) ==
  LET last == Len(t.chunks) IN
  /\ run[0] = s
  /\ \A k \in DOMAIN t.chunks : Leads(run[k - 1], t.chunks[k], run[k])
  /\ Chained(Piece(i, p.to), t.chunks)
  /\ IF last = 0 THEN i = p.to + 1 ELSE t.chunks[last].to = p.to
  /\ rules[run[last]].accepting /\ t.weak = rules[run[last]].weak

IsTail(i, s, p, t) == \E run \in [0 .. Len(t.chunks) -> RuleStates] : TailBy(i, s, p, t, run)

Tails(p) == [i \in p.from .. p.to + 1 |-> [s \in RuleStates |-> { t \in Path : IsTail(i, s, p, t) }]]

Rests(p, rest) ==
  [i \in p.from .. p.to + 1 |->
     [s \in RuleStates |->
        IF i = p.to + 1 THEN Ended(s)
        ELSE UNION { Prefixed(c[1], rest[c[1].to + 1][c[2]]) : c \in Steps(i, s, p) }]]

LEMMA PartType ==
  ASSUME TypeOK, NEW p \in Parts
  PROVE  /\ p.from \in Nat \ {0} /\ p.to \in Nat /\ p.from <= p.to /\ p.to <= Len(word)
         /\ Len(word) \in Nat
BY WordType DEF Parts, Position

(* A chunk that starts at i with a group of the dictionary.                *)
LEMMA StepsType ==
  ASSUME TypeOK, NEW p \in Parts, NEW i \in p.from .. p.to, NEW s \in RuleStates, NEW c \in Steps(i, s, p)
  PROVE  /\ c[1] \in Chunk /\ c[2] \in RuleStates /\ Leads(s, c[1], c[2])
         /\ c[1].from = i /\ c[1].to \in i .. p.to /\ c[1].group \in DOMAIN GroupsAt(i, c[1].to)
<1>1. c \in ChunksFrom(i, p) \X RuleStates /\ Leads(s, c[1], c[2])
  BY DEF Steps
<1>2. c[1] \in ChunksFrom(i, p) /\ c[2] \in RuleStates
  BY <1>1
<1>3. PICK j \in i .. p.to : \E g \in DOMAIN GroupsAt(i, j), b \in BOOLEAN :
        c[1] = [from |-> i, to |-> j, group |-> g, shift |-> b]
  BY <1>2 DEF ChunksFrom
<1>4. PICK g \in DOMAIN GroupsAt(i, j), b \in BOOLEAN :
        c[1] = [from |-> i, to |-> j, group |-> g, shift |-> b]
  BY <1>3
<1>5. g \in Nat \ {0}
  BY GroupsType
<1>6. i \in Position /\ j \in Position
  BY PartType DEF Position
<1> QED BY <1>1, <1>2, <1>4, <1>5, <1>6 DEF Chunk

LEMMA ConsProperties ==
  ASSUME NEW c \in Chunk, NEW u \in Seq(Chunk)
  PROVE  /\ <<c>> \o u \in Seq(Chunk) /\ Len(<<c>> \o u) = Len(u) + 1 /\ (<<c>> \o u)[1] = c
         /\ \A k \in 1 .. Len(u) : (<<c>> \o u)[k + 1] = u[k]
         /\ \A k \in 2 .. Len(u) + 1 : (<<c>> \o u)[k] = u[k - 1]
OBVIOUS

(* A chunk in front of a way to go on behind it is a way to go on.         *)
LEMMA PrefixedIsTail ==
  ASSUME TypeOK, NEW p \in Parts, NEW i \in p.from .. p.to, NEW s \in RuleStates, NEW c \in Steps(i, s, p),
         NEW r \in Path, IsTail(c[1].to + 1, c[2], p, r)
  PROVE  LET t == [chunks |-> <<c[1]>> \o r.chunks, weak |-> r.weak] IN t \in Path /\ IsTail(i, s, p, t)
<1> DEFINE t == [chunks |-> <<c[1]>> \o r.chunks, weak |-> r.weak]
           n == Len(r.chunks)
<1>1. /\ c[1] \in Chunk /\ c[2] \in RuleStates /\ Leads(s, c[1], c[2])
      /\ c[1].from = i /\ c[1].to \in i .. p.to /\ c[1].group \in DOMAIN GroupsAt(i, c[1].to)
  BY StepsType
<1>2. r.chunks \in Seq(Chunk) /\ n \in Nat /\ r.weak \in BOOLEAN /\ DOMAIN r.chunks = 1 .. n
  BY PathType
<1>3. /\ t.chunks \in Seq(Chunk) /\ Len(t.chunks) = n + 1 /\ t.chunks[1] = c[1] /\ t.weak = r.weak
      /\ \A k \in 2 .. n + 1 : t.chunks[k] = r.chunks[k - 1]
      /\ DOMAIN t.chunks = 1 .. n + 1
  <2>1. DEFINE u == <<c[1]>> \o r.chunks
  <2>2. /\ u \in Seq(Chunk) /\ Len(u) = n + 1 /\ u[1] = c[1]
        /\ \A k \in 2 .. n + 1 : u[k] = r.chunks[k - 1]
    BY <1>1, <1>2, ConsProperties
  <2> HIDE DEF u
  <2>3. DOMAIN u = 1 .. n + 1
    BY <2>2
  <2>4. t.chunks = u /\ t.weak = r.weak
    BY DEF u
  <2> QED BY <2>2, <2>3, <2>4
<1> HIDE DEF t
<1>4. PICK run \in [0 .. n -> RuleStates] : TailBy(c[1].to + 1, c[2], p, r, run)
  BY DEF IsTail
<1> DEFINE new == [k \in 0 .. n + 1 |-> IF k = 0 THEN s ELSE run[k - 1]]
<1>5. /\ new \in [0 .. Len(t.chunks) -> RuleStates] /\ new[0] = s /\ new[1] = c[2]
      /\ \A k \in 1 .. n + 1 : new[k] = run[k - 1]
  BY <1>2, <1>3, <1>4 DEF TailBy
<1> HIDE DEF new
<1>6. \A k \in 1 .. n + 1 : Leads(new[k - 1], t.chunks[k], new[k])
  <2> SUFFICES ASSUME NEW k \in 1 .. n + 1 PROVE Leads(new[k - 1], t.chunks[k], new[k])
    OBVIOUS
  <2>1. CASE k = 1
    BY <1>1, <1>3, <1>5, <2>1
  <2>2. CASE k # 1
    <3>1. k - 1 \in 1 .. n /\ k \in 2 .. n + 1 /\ k - 1 \in 1 .. n + 1
      BY <1>2, <2>2
    <3>2. Leads(run[k - 1 - 1], r.chunks[k - 1], run[k - 1])
      BY <1>2, <1>4, <3>1 DEF TailBy
    <3> QED BY <1>3, <1>5, <3>1, <3>2
  <2> QED BY <2>1, <2>2
<1>7. Chained(Piece(i, p.to), t.chunks)
  <2> SUFFICES ASSUME NEW k \in 1 .. n + 1
               PROVE  /\ t.chunks[k].from = IF k = 1 THEN i ELSE t.chunks[k - 1].to + 1
                      /\ t.chunks[k].from <= t.chunks[k].to /\ t.chunks[k].to <= p.to
                      /\ t.chunks[k].group \in DOMAIN GroupsAt(t.chunks[k].from, t.chunks[k].to)
    BY <1>3 DEF Chained, Piece
  <2>1. CASE k = 1
    BY <1>1, <1>3, <2>1
  <2>2. CASE k # 1
    <3>1. k - 1 \in 1 .. n /\ k \in 2 .. n + 1 /\ k - 1 \in 1 .. n + 1
      BY <1>2, <2>2
    <3>2. /\ r.chunks[k - 1].from = IF k - 1 = 1 THEN c[1].to + 1 ELSE r.chunks[k - 1 - 1].to + 1
          /\ r.chunks[k - 1].from <= r.chunks[k - 1].to /\ r.chunks[k - 1].to <= p.to
          /\ r.chunks[k - 1].group \in DOMAIN GroupsAt(r.chunks[k - 1].from, r.chunks[k - 1].to)
      BY <1>2, <1>4, <3>1 DEF TailBy, Chained, Piece
    <3>3. t.chunks[k] = r.chunks[k - 1]
      BY <1>3, <3>1
    <3>4. t.chunks[k - 1] = IF k - 1 = 1 THEN c[1] ELSE r.chunks[k - 1 - 1]
      <4>1. k - 1 # 1 => k - 1 \in 2 .. n + 1
        BY <3>1
      <4> QED BY <1>3, <4>1
    <3> QED BY <2>2, <3>2, <3>3, <3>4
  <2> QED BY <2>1, <2>2
<1>8. t.chunks[n + 1].to = p.to /\ n + 1 # 0
  <2>1. CASE n = 0
    <3>1. c[1].to + 1 = p.to + 1
      BY <1>4, <2>1 DEF TailBy
    <3>2. c[1].to = p.to
      BY <1>1, <3>1, PartType
    <3>3. t.chunks[n + 1] = c[1] /\ n + 1 # 0
      BY <1>3, <2>1
    <3> QED BY <3>2, <3>3
  <2>2. CASE n # 0
    <3>1. n + 1 \in 2 .. n + 1 /\ n + 1 - 1 = n
      BY <1>2, <2>2
    <3> QED BY <1>2, <1>3, <1>4, <2>2, <3>1, SMTT(30) DEF TailBy
  <2> QED BY <2>1, <2>2
<1>9. new[n + 1] = run[n]
  <2>1. n + 1 \in 1 .. n + 1 /\ n + 1 - 1 = n
    BY <1>2
  <2> QED BY <1>5, <2>1
<1>10. TailBy(i, s, p, t, new)
  BY <1>3, <1>4, <1>5, <1>6, <1>7, <1>8, <1>9 DEF TailBy
<1>11. t \in Path
  BY <1>2, <1>3 DEF Path, t
<1> QED BY <1>5, <1>10, <1>11 DEF IsTail, t
(* A way to go on from before the end begins with a chunk of Steps.        *)
LEMMA TailIsPrefixed ==
  ASSUME TypeOK, NEW p \in Parts, NEW i \in p.from .. p.to, NEW s \in RuleStates,
         NEW t \in Path, IsTail(i, s, p, t)
  PROVE  \E c \in Steps(i, s, p) : \E r \in Path :
           /\ IsTail(c[1].to + 1, c[2], p, r)
           /\ t = [chunks |-> <<c[1]>> \o r.chunks, weak |-> r.weak]
<1> DEFINE m == Len(t.chunks)
           first == t.chunks[1]
           rest == [k \in 1 .. m - 1 |-> t.chunks[k + 1]]
           r == [chunks |-> rest, weak |-> t.weak]
<1>1. t.chunks \in Seq(Chunk) /\ m \in Nat /\ t.weak \in BOOLEAN /\ DOMAIN t.chunks = 1 .. m
  BY PathType
<1>2. PICK run \in [0 .. m -> RuleStates] : TailBy(i, s, p, t, run)
  BY DEF IsTail
<1>3. i \in Nat /\ i <= p.to /\ p.to \in Nat
  BY PartType
<1>4. m # 0 /\ 1 \in 1 .. m /\ m - 1 \in Nat
  BY <1>1, <1>2, <1>3 DEF TailBy
<1>5. /\ first \in Chunk /\ first.from = i /\ i <= first.to /\ first.to <= p.to /\ first.to \in Nat
      /\ first.group \in DOMAIN GroupsAt(i, first.to) /\ first.shift \in BOOLEAN
      /\ first = [from |-> i, to |-> first.to, group |-> first.group, shift |-> first.shift]
  <2>1. first \in Chunk
    BY <1>1, <1>4
  <2>2. /\ t.chunks[1].from = i /\ t.chunks[1].from <= t.chunks[1].to /\ t.chunks[1].to <= p.to
        /\ t.chunks[1].group \in DOMAIN GroupsAt(t.chunks[1].from, t.chunks[1].to)
    BY <1>1, <1>2, <1>4 DEF TailBy, Chained, Piece
  <2>3. /\ t.chunks[1].to \in Nat
        /\ t.chunks[1] = [from |-> t.chunks[1].from, to |-> t.chunks[1].to,
                          group |-> t.chunks[1].group, shift |-> t.chunks[1].shift]
    BY <1>4, PathType
  <2> QED BY <2>1, <2>2, <2>3 DEF Chunk
<1>6. run[1] \in RuleStates /\ Leads(s, first, run[1])
  <2>1. 1 - 1 = 0 /\ 1 \in 0 .. m
    BY <1>1, <1>4
  <2> QED BY <1>1, <1>2, <1>4, <2>1 DEF TailBy
<1> HIDE DEF first
<1>7. <<first, run[1]>> \in Steps(i, s, p)
  <2>1. first.to \in i .. p.to
    BY <1>3, <1>5
  <2>2. first \in ChunksFrom(i, p)
    BY <1>5, <2>1 DEF ChunksFrom
  <2> QED BY <1>6, <2>2 DEF Steps
<1>8. /\ rest \in Seq(Chunk) /\ Len(rest) = m - 1 /\ DOMAIN rest = 1 .. m - 1
      /\ \A k \in 1 .. m - 1 : rest[k] = t.chunks[k + 1] /\ k + 1 \in 1 .. m
  BY <1>1, <1>4
<1>9. t.chunks = <<first>> \o rest
  <2>1. <<first>> \o rest \in Seq(Chunk) /\ Len(<<first>> \o rest) = m
        /\ (<<first>> \o rest)[1] = first
        /\ \A k \in 2 .. m - 1 + 1 : (<<first>> \o rest)[k] = rest[k - 1]
    BY <1>4, <1>5, <1>8, ConsProperties
  <2>2. \A k \in 1 .. m : (<<first>> \o rest)[k] = t.chunks[k]
    <3> SUFFICES ASSUME NEW k \in 1 .. m PROVE (<<first>> \o rest)[k] = t.chunks[k]
      OBVIOUS
    <3>1. CASE k = 1
      BY <2>1, <3>1 DEF first
    <3>2. CASE k # 1
      <4>1. k \in 2 .. m - 1 + 1 /\ k - 1 \in 1 .. m - 1 /\ k - 1 + 1 = k
        BY <1>1, <3>2
      <4> QED BY <1>8, <2>1, <4>1
    <3> QED BY <3>1, <3>2
  <2> HIDE DEF rest
  <2> QED BY <1>1, <2>1, <2>2
<1>10. r \in Path /\ r.chunks = rest /\ r.weak = t.weak
  BY <1>1, <1>8 DEF Path
<1>11. t = [chunks |-> <<first>> \o r.chunks, weak |-> r.weak]
  <2>1. t = [chunks |-> t.chunks, weak |-> t.weak]
    BY DEF Path
  <2> HIDE DEF r, rest
  <2> QED BY <1>9, <1>10, <2>1
<1> HIDE DEF rest, r
<1> DEFINE new == [k \in 0 .. m - 1 |-> run[k + 1]]
<1>12. /\ new \in [0 .. Len(r.chunks) -> RuleStates] /\ new[0] = run[1] /\ new[m - 1] = run[m]
       /\ \A k \in 1 .. m - 1 : new[k] = run[k + 1] /\ new[k - 1] = run[k]
  <2>1. 0 \in 0 .. m - 1 /\ m - 1 \in 0 .. m - 1 /\ 0 + 1 = 1 /\ m - 1 + 1 = m
    BY <1>4
  <2>2. \A k \in 0 .. m - 1 : k + 1 \in 0 .. m
    BY <1>4
  <2>3. \A k \in 1 .. m - 1 : k \in 0 .. m - 1 /\ k - 1 \in 0 .. m - 1 /\ k - 1 + 1 = k
    BY <1>4
  <2>4. Len(r.chunks) = m - 1
    BY <1>8, <1>10
  <2>5. new \in [0 .. m - 1 -> RuleStates]
    BY <2>2
  <2> QED BY <2>1, <2>3, <2>4, <2>5
<1> HIDE DEF new
<1>13. IsTail(first.to + 1, run[1], p, r)
  <2>1. \A k \in 1 .. m - 1 : Leads(new[k - 1], rest[k], new[k])
    <3> SUFFICES ASSUME NEW k \in 1 .. m - 1 PROVE Leads(new[k - 1], rest[k], new[k])
      OBVIOUS
    <3>1. k + 1 \in DOMAIN t.chunks /\ k + 1 - 1 = k
      BY <1>1, <1>8
    <3>2. Leads(run[k], t.chunks[k + 1], run[k + 1])
      BY <1>2, <3>1 DEF TailBy
    <3> QED BY <1>8, <1>12, <3>2
  <2>2. Chained(Piece(first.to + 1, p.to), rest)
    <3> SUFFICES ASSUME NEW k \in 1 .. m - 1
                 PROVE  /\ rest[k].from = IF k = 1 THEN first.to + 1 ELSE rest[k - 1].to + 1
                        /\ rest[k].from <= rest[k].to /\ rest[k].to <= p.to
                        /\ rest[k].group \in DOMAIN GroupsAt(rest[k].from, rest[k].to)
      BY <1>8 DEF Chained, Piece
    <3>1. k + 1 \in DOMAIN t.chunks /\ k + 1 - 1 = k /\ k + 1 # 1
      BY <1>1, <1>8
    <3>2. /\ t.chunks[k + 1].from = t.chunks[k].to + 1
          /\ t.chunks[k + 1].from <= t.chunks[k + 1].to /\ t.chunks[k + 1].to <= p.to
          /\ t.chunks[k + 1].group \in DOMAIN GroupsAt(t.chunks[k + 1].from, t.chunks[k + 1].to)
      <4>1. Chained(Piece(i, p.to), t.chunks)
        BY <1>2, Zenon DEF TailBy
      <4>2. \A n \in DOMAIN t.chunks :
              /\ t.chunks[n].from = IF n = 1 THEN Piece(i, p.to).from ELSE t.chunks[n - 1].to + 1
              /\ t.chunks[n].from <= t.chunks[n].to /\ t.chunks[n].to <= Piece(i, p.to).to
              /\ t.chunks[n].group \in DOMAIN GroupsAt(t.chunks[n].from, t.chunks[n].to)
        BY <4>1, Zenon DEF Chained
      <4>3. Piece(i, p.to).to = p.to
        BY DEF Piece
      <4> QED BY <3>1, <4>2, <4>3
    <3>3. t.chunks[k] = IF k = 1 THEN first ELSE rest[k - 1]
      <4>1. k # 1 => k - 1 \in 1 .. m - 1 /\ k - 1 + 1 = k
        BY <1>4
      <4> QED BY <1>8, <4>1 DEF first
    <3> QED BY <1>8, <3>2, <3>3
  <2>3. IF m - 1 = 0 THEN first.to + 1 = p.to + 1 ELSE rest[m - 1].to = p.to
    <3>1. t.chunks[m].to = p.to
      BY <1>2, <1>4 DEF TailBy
    <3>2. m - 1 = 0 => m = 1
      BY <1>1
    <3>3. m - 1 # 0 => m - 1 \in 1 .. m - 1 /\ m - 1 + 1 = m
      BY <1>4, SMTT(30)
    <3>4. CASE m - 1 = 0
      BY <3>1, <3>2, <3>4 DEF first
    <3>5. CASE m - 1 # 0
      BY <1>8, <3>1, <3>3, <3>5
    <3> QED BY <3>4, <3>5
  <2>4. rules[new[m - 1]].accepting /\ t.weak = rules[new[m - 1]].weak
    BY <1>2, <1>12 DEF TailBy
  <2>5. TailBy(first.to + 1, run[1], p, r, new)
    BY <1>8, <1>10, <1>12, <2>1, <2>2, <2>3, <2>4 DEF TailBy
  <2> QED BY <1>12, <2>5 DEF IsTail
<1>14. <<first, run[1]>>[1] = first /\ <<first, run[1]>>[2] = run[1]
  OBVIOUS
<1> QED BY <1>7, <1>10, <1>11, <1>13, <1>14

(* At the end of the part only the empty rest is left.                     *)
LEMMA EndedTails ==
  ASSUME TypeOK, NEW p \in Parts, NEW s \in RuleStates
  PROVE  { t \in Path : IsTail(p.to + 1, s, p, t) } = Ended(s)
<1> DEFINE nothing == [chunks |-> <<>>, weak |-> rules[s].weak]
<1>1. p.to \in Nat
  BY PartType
<1>2. ASSUME NEW t \in Path, IsTail(p.to + 1, s, p, t)
      PROVE  rules[s].accepting /\ t = nothing
  <2>1. PICK run \in [0 .. Len(t.chunks) -> RuleStates] : TailBy(p.to + 1, s, p, t, run)
    BY <1>2 DEF IsTail
  <2>2. Len(t.chunks) = 0
    <3> SUFFICES ASSUME Len(t.chunks) # 0 PROVE FALSE
      OBVIOUS
    <3>4. Len(t.chunks) \in Nat /\ DOMAIN t.chunks = 1 .. Len(t.chunks)
      BY PathType
    <3>5. 1 \in 1 .. Len(t.chunks)
      BY <3>4
    <3>1. 1 \in DOMAIN t.chunks /\ t.chunks[1].to \in Nat
      BY <3>4, <3>5, PathType
    <3>2. t.chunks[1].from = p.to + 1 /\ t.chunks[1].from <= t.chunks[1].to /\ t.chunks[1].to <= p.to
      BY <2>1, <3>1 DEF TailBy, Chained, Piece
    <3> QED BY <1>1, <3>1, <3>2
  <2>3. t.chunks = <<>>
    BY <2>2, PathType
  <2>4. t = [chunks |-> t.chunks, weak |-> t.weak]
    BY DEF Path
  <2> QED BY <2>1, <2>2, <2>3, <2>4 DEF TailBy
<1>3. ASSUME rules[s].accepting
      PROVE  nothing \in Path /\ IsTail(p.to + 1, s, p, nothing)
  <2> DEFINE run == [k \in 0 .. 0 |-> s]
  <2>1. run \in [0 .. 0 -> RuleStates] /\ run[0] = s
    OBVIOUS
  <2>2. Len(nothing.chunks) = 0 /\ DOMAIN nothing.chunks = {} /\ nothing.weak = rules[s].weak
    OBVIOUS
  <2>3. nothing \in Path
    BY RulesType DEF Path
  <2>4. Chained(Piece(p.to + 1, p.to), nothing.chunks)
    BY <2>2 DEF Chained
  <2> HIDE DEF run, nothing
  <2>5. TailBy(p.to + 1, s, p, nothing, run)
    BY <1>3, <2>1, <2>2, <2>4 DEF TailBy
  <2> QED BY <2>1, <2>2, <2>3, <2>5 DEF IsTail
<1> QED BY <1>2, <1>3 DEF Ended

LEMMA TailsAreRests ==
  ASSUME TypeOK, NEW p \in Parts
  PROVE  Tails(p) = Rests(p, Tails(p))
<1>1. ASSUME NEW i \in p.from .. p.to + 1, NEW s \in RuleStates
      PROVE  { t \in Path : IsTail(i, s, p, t) }
               = IF i = p.to + 1 THEN Ended(s)
                 ELSE UNION { Prefixed(c[1], Tails(p)[c[1].to + 1][c[2]]) : c \in Steps(i, s, p) }
  <2>1. CASE i = p.to + 1
    BY <2>1, EndedTails
  <2>2. CASE i # p.to + 1
    <3>1. i \in p.from .. p.to
      BY <2>2, PartType
    <3>2. \A c \in Steps(i, s, p) :
            Tails(p)[c[1].to + 1][c[2]] = { r \in Path : IsTail(c[1].to + 1, c[2], p, r) }
      <4> SUFFICES ASSUME NEW c \in Steps(i, s, p)
                   PROVE  c[1].to + 1 \in p.from .. p.to + 1 /\ c[2] \in RuleStates
        BY DEF Tails
      <4> QED BY <3>1, StepsType, PartType
    <3>3. \A q : q \in { t \in Path : IsTail(i, s, p, t) }
              => q \in UNION { Prefixed(c[1], Tails(p)[c[1].to + 1][c[2]]) : c \in Steps(i, s, p) }
      BY <3>1, <3>2, TailIsPrefixed, SMTT(30) DEF Prefixed
    <3>4. \A q : q \in UNION { Prefixed(c[1], Tails(p)[c[1].to + 1][c[2]]) : c \in Steps(i, s, p) }
              => q \in { t \in Path : IsTail(i, s, p, t) }
      <4> SUFFICES ASSUME NEW c \in Steps(i, s, p), NEW t \in Prefixed(c[1], Tails(p)[c[1].to + 1][c[2]])
                   PROVE  t \in Path /\ IsTail(i, s, p, t)
        OBVIOUS
      <4>1. PICK r \in Tails(p)[c[1].to + 1][c[2]] : t = [chunks |-> <<c[1]>> \o r.chunks, weak |-> r.weak]
        BY DEF Prefixed
      <4>2. r \in Path /\ IsTail(c[1].to + 1, c[2], p, r)
        BY <3>2
      <4> QED BY <3>1, <4>1, <4>2, PrefixedIsTail
    <3> QED BY <2>2, <3>3, <3>4
  <2> QED BY <2>1, <2>2
<1> QED BY <1>1 DEF Tails, Rests

(* The recursion of Segmentations has one solution: from a position it     *)
(* only looks at later ones.                                               *)
LEMMA RestsUnique ==
  ASSUME TypeOK, NEW p \in Parts, NEW rest, rest = Rests(p, rest)
  PROVE  rest = Tails(p)
<1> DEFINE Differs == { n \in Nat : \E i \in p.from .. p.to + 1 : n = p.to + 1 - i /\ rest[i] # Tails(p)[i] }
<1>1. SUFFICES Differs = {}
  <2>1. \A i \in p.from .. p.to + 1 : p.to + 1 - i \in Nat
    BY PartType
  <2>2. \A i \in p.from .. p.to + 1 : rest[i] = Tails(p)[i]
    BY <1>1, <2>1
  <2>3. rest = [i \in p.from .. p.to + 1 |-> rest[i]]
    BY DEF Rests
  <2>4. Tails(p) = [i \in p.from .. p.to + 1 |-> Tails(p)[i]]
    BY DEF Tails
  <2> QED BY <2>2, <2>3, <2>4
<1>2. SUFFICES ASSUME Differs # {} PROVE FALSE
  OBVIOUS
<1>3. PICK n \in Differs : \A m \in Differs : ~ (m < n)
  <2>1. PICK m \in Differs : \A k \in Differs : ~ (<<k, m>> \in OpToRel(<, Nat))
    BY <1>2, WFMin, NatLessThanWellFounded
  <2> QED BY <2>1 DEF OpToRel
<1>4. PICK i \in p.from .. p.to + 1 : n = p.to + 1 - i /\ rest[i] # Tails(p)[i]
  OBVIOUS
<1>5. \A j \in p.from .. p.to + 1 : j > i => rest[j] = Tails(p)[j]
  <2> SUFFICES ASSUME NEW j \in p.from .. p.to + 1, j > i, rest[j] # Tails(p)[j] PROVE FALSE
    OBVIOUS
  <2>1. p.to + 1 - j \in Nat /\ p.to + 1 - j < n
    BY <1>4, PartType
  <2> QED BY <1>3, <2>1
<1>6. rest[i] = [s \in RuleStates |->
                   IF i = p.to + 1 THEN Ended(s)
                   ELSE UNION { Prefixed(c[1], rest[c[1].to + 1][c[2]]) : c \in Steps(i, s, p) }]
  BY DEF Rests
<1>7. Tails(p)[i] = [s \in RuleStates |->
                       IF i = p.to + 1 THEN Ended(s)
                       ELSE UNION { Prefixed(c[1], Tails(p)[c[1].to + 1][c[2]]) : c \in Steps(i, s, p) }]
  BY TailsAreRests DEF Rests
<1>8. ASSUME NEW s \in RuleStates, i # p.to + 1, NEW c \in Steps(i, s, p)
      PROVE  rest[c[1].to + 1] = Tails(p)[c[1].to + 1]
  <2>1. i \in p.from .. p.to
    BY <1>8, PartType
  <2>2. c[1].to \in i .. p.to
    BY <1>8, <2>1, StepsType
  <2>3. c[1].to + 1 \in p.from .. p.to + 1 /\ c[1].to + 1 > i
    BY <2>1, <2>2, PartType
  <2> QED BY <1>5, <2>3
<1>9. rest[i] = Tails(p)[i]
  <2>1. ASSUME NEW s \in RuleStates, i # p.to + 1
        PROVE  UNION { Prefixed(c[1], rest[c[1].to + 1][c[2]]) : c \in Steps(i, s, p) }
                 = UNION { Prefixed(c[1], Tails(p)[c[1].to + 1][c[2]]) : c \in Steps(i, s, p) }
    BY <1>8, <2>1
  <2> QED BY <1>6, <1>7, <2>1
<1> QED BY <1>4, <1>9

LEMMA SegmentationsAre ==
  ASSUME TypeOK, NEW p \in Parts
  PROVE  Segmentations(p) = { t \in Path : IsSegmentation(p, t) }
<1>1. Segmentations(p) = (CHOOSE rest : rest = Rests(p, rest))[p.from][InitialState]
  BY DEF Segmentations, Rests
<1>2. (CHOOSE rest : rest = Rests(p, rest)) = Tails(p)
  <2>1. \E rest : rest = Rests(p, rest)
    BY TailsAreRests
  <2> QED BY <2>1, RestsUnique
<1>3. p.from \in p.from .. p.to + 1 /\ InitialState \in RuleStates
  BY PartType, WordType
<1>4. Segmentations(p) = { t \in Path : IsTail(p.from, InitialState, p, t) }
  <2>1. Segmentations(p) = Tails(p)[p.from][InitialState]
    BY <1>1, <1>2
  <2> QED BY <1>3, <2>1 DEF Tails
<1>5. ASSUME NEW t \in Path, NEW run
      PROVE  TailBy(p.from, InitialState, p, t, run) <=> Segments(p, t, run)
  <2>1. Chained(Piece(p.from, p.to), t.chunks) <=> Chained(p, t.chunks)
    BY DEF Chained, Piece
  <2>2. p.from # p.to + 1 /\ Len(t.chunks) \in Nat
    BY PartType, PathType
  <2> QED BY <2>1, <2>2 DEF TailBy, Segments, IsRun
<1> QED BY <1>4, <1>5 DEF IsTail, IsSegmentation
-----------------------------------------------------------------------------
(* Order: the paths found are in order and lie behind every activation's   *)
(* cursor, and so do the chunks of the activations inside it.              *)

Less(chunk, to, group) == chunk.to < to \/ (chunk.to = to /\ chunk.group < group)

BehindAt(k, chunks, f) ==
  /\ k <= Len(f.chunks) + 1
  /\ \A j \in 1 .. k - 1 : chunks[j] = f.chunks[j]
  /\ IF k <= Len(f.chunks) THEN Less(chunks[k], f.chunks[k].to, f.chunks[k].group)
     ELSE Less(chunks[k], f.end, f.group)

Behind(chunks, f) == \E k \in 1 .. Len(chunks) : BehindAt(k, chunks, f)

OrderInv ==
  /\ \A i, j \in DOMAIN paths : i < j => Before(paths[i], paths[j])
  /\ \A d \in DOMAIN frames : \A i \in DOMAIN paths : Behind(paths[i].chunks, frames[d])
  /\ \A d, e \in DOMAIN frames : d < e => Behind(frames[e].chunks, frames[d])

(* What each answer is, in the terms of the invariants of the search.      *)
Answered(a) ==
  /\ a.kept = Retained(a.paths)
  /\ \A i \in DOMAIN a.paths : IsSegmentation(a.part, a.paths[i])
  /\ \A s \in Path : IsSegmentation(a.part, s) => \E i \in DOMAIN a.paths : a.paths[i] = s
  /\ \A i, j \in DOMAIN a.paths : i < j => Before(a.paths[i], a.paths[j])

AnswersInv ==
  ~Sink(InitialState) =>
    /\ \A k \in DOMAIN answer : Answered(answer[k])
    /\ inside => \A s \in Path : ~IsSegmentation(Piece(1, Len(word)), s)

(* The order in which the frames and the paths have been reached.          *)
InOrder(fs, ps) ==
  /\ \A i, j \in DOMAIN ps : i < j => Before(ps[i], ps[j])
  /\ \A d \in DOMAIN fs : \A i \in DOMAIN ps : Behind(ps[i].chunks, fs[d])
  /\ \A d, e \in DOMAIN fs : d < e => Behind(fs[e].chunks, fs[d])

(* What lies behind a cursor still does when the cursor moves on.          *)
LEMMA MovedOn ==
  ASSUME NEW f \in Frame, NEW end \in Nat, NEW group \in Nat,
         end > f.end \/ (end = f.end /\ group >= f.group),
         NEW chunks \in Seq(Chunk), Behind(chunks, f)
  PROVE  Behind(chunks, [f EXCEPT !.end = end, !.group = group])
<1> DEFINE g == [f EXCEPT !.end = end, !.group = group]
<1>1. g.chunks = f.chunks /\ g.end = end /\ g.group = group
  BY DEF Frame
<1> HIDE DEF g
<1>2. PICK k \in 1 .. Len(chunks) : BehindAt(k, chunks, f)
  BY DEF Behind
<1>3. chunks[k].to \in Int /\ chunks[k].group \in Int /\ f.end \in Int /\ f.group \in Int
  <2>1. chunks[k] \in Chunk
    BY Elements
  <2> QED BY <2>1, SMTT(30) DEF Chunk, Position, Frame
<1>4. Less(chunks[k], f.end, f.group) => Less(chunks[k], end, group)
  BY <1>3 DEF Less
<1>5. BehindAt(k, chunks, g)
  BY <1>1, <1>2, <1>4 DEF BehindAt
<1> QED BY <1>2, <1>5 DEF Behind, g

(* The innermost activation moves on: the order stays.                     *)
LEMMA MovedInOrder ==
  ASSUME TypeOK, OrderInv, frames # <<>>, NEW end \in Nat, NEW group \in Nat,
         end > Top.end \/ (end = Top.end /\ group >= Top.group)
  PROVE  InOrder([frames EXCEPT ![Depth] = [Top EXCEPT !.end = end, !.group = group]], paths)
<1> DEFINE g == [Top EXCEPT !.end = end, !.group = group]
           fs == [frames EXCEPT ![Depth] = g]
<1>1. Top \in Frame /\ Top = frames[Depth] /\ Depth = Len(frames) /\ Depth \in Nat
  BY TopType DEF Top, Depth
<1>2. g.chunks = Top.chunks
  BY <1>1 DEF Frame
<1>3. /\ DOMAIN fs = DOMAIN frames /\ fs[Depth] = g /\ Depth \in DOMAIN frames
      /\ \A d \in DOMAIN frames : d # Depth => fs[d] = frames[d]
  <2> HIDE DEF g
  <2> QED BY OthersKept
<1>4. \A chunks \in Seq(Chunk) : Behind(chunks, Top) => Behind(chunks, g)
  BY <1>1, MovedOn
<1>5. \A i \in DOMAIN paths : paths[i].chunks \in Seq(Chunk)
  <2>1. \A i \in DOMAIN paths : paths[i] \in Path
    BY Elements DEF TypeOK
  <2> QED BY <2>1, PathType
<1>6. DOMAIN frames = 1 .. Depth /\ \A d \in DOMAIN frames : frames[d].chunks \in Seq(Chunk)
  <2>1. \A d \in DOMAIN frames : frames[d] \in Frame
    BY Elements DEF TypeOK
  <2> QED BY <1>1, <2>1 DEF Frame, TypeOK
<1> HIDE DEF g, fs
<1>7. ASSUME NEW d \in DOMAIN fs, NEW i \in DOMAIN paths
      PROVE  Behind(paths[i].chunks, fs[d])
  BY <1>1, <1>3, <1>4, <1>5 DEF OrderInv
<1>8. ASSUME NEW d \in DOMAIN fs, NEW e \in DOMAIN fs, d < e
      PROVE  Behind(fs[e].chunks, fs[d])
  <2>1. d # Depth /\ d \in DOMAIN frames /\ e \in DOMAIN frames
    BY <1>3, <1>6, <1>8
  <2>2. fs[e].chunks = frames[e].chunks
    BY <1>1, <1>2, <1>3, <2>1
  <2> QED BY <1>3, <1>8, <2>1, <2>2 DEF OrderInv
<1>9. InOrder(fs, paths)
  BY <1>7, <1>8 DEF InOrder, OrderInv
<1> QED BY <1>9 DEF fs, g

LEMMA NextGroupInOrder ==
  ASSUME TypeOK, OrderInv, Trying
  PROVE  InOrder(NextGroup, paths)
<1>1. frames # <<>> /\ Top.end \in Nat /\ Top.group \in Nat /\ Top.group + 1 \in Nat
  <2>1. Searching
    BY DEF Trying
  <2> QED BY <2>1, SearchingType
<1>2. InOrder([frames EXCEPT ![Depth] = [Top EXCEPT !.end = Top.end, !.group = Top.group + 1]], paths)
  <2> DEFINE end == Top.end
             group == Top.group + 1
  <2>1. end \in Nat /\ group \in Nat /\ (end > Top.end \/ (end = Top.end /\ group >= Top.group))
    BY <1>1
  <2> HIDE DEF end, group
  <2>2. InOrder([frames EXCEPT ![Depth] = [Top EXCEPT !.end = end, !.group = group]], paths)
    BY <1>1, <2>1, MovedInOrder
  <2> QED BY <2>2 DEF end, group
<1> QED BY <1>1, <1>2, NextGroupIs

(* The chunks of the activation with the group it tries: behind what it    *)
(* will try next and what the others will, after what lies behind it.      *)
LEMMA ExtendedInOrder ==
  ASSUME TypeOK, SearchInv, Trying, NEW shift \in BOOLEAN
  PROVE  /\ Behind(Extended(shift), NextGroup[Depth])
         /\ \A f : Behind(Top.chunks, f) => Behind(Extended(shift), f)
         /\ \A chunks : Behind(chunks, Top) =>
              \E k \in 1 .. Len(chunks) :
                /\ k <= Len(Extended(shift))
                /\ \A j \in 1 .. k - 1 : chunks[j] = Extended(shift)[j]
                /\ Less(chunks[k], Extended(shift)[k].to, Extended(shift)[k].group)
<1> DEFINE n == Len(Top.chunks)
           new == Extended(shift)
<1>0. Searching /\ frames # <<>> /\ FrameSound(Top)
  BY TopSound DEF Trying, Searching
<1>1. n \in Nat /\ Top.end \in Nat /\ Top.group \in Nat /\ Top \in Frame
  BY <1>0, SearchingType
<1>2. /\ Len(new) = n + 1 /\ new[n + 1] = Tried(shift)
      /\ \A i \in 1 .. n : new[i] = Top.chunks[i]
  BY <1>0, ExtendedChained
<1>3. new[n + 1].to = Top.end /\ new[n + 1].group = Top.group
  BY <1>2 DEF Tried
<1> HIDE DEF new
<1>4. Behind(new, NextGroup[Depth])
  <2> DEFINE f == NextGroup[Depth]
  <2>1. f.chunks = Top.chunks /\ f.end = Top.end /\ f.group = Top.group + 1
    <3>1. f = [Top EXCEPT !.end = Top.end, !.group = Top.group + 1]
      BY <1>0, NextGroupIs, OthersKept
    <3> QED BY <1>1, <3>1 DEF Frame
  <2> HIDE DEF f
  <2>2. Less(new[n + 1], f.end, f.group)
    BY <1>1, <1>3, <2>1 DEF Less
  <2>3. BehindAt(n + 1, new, f)
    BY <1>1, <1>2, <2>1, <2>2 DEF BehindAt
  <2>4. n + 1 \in 1 .. Len(new)
    BY <1>1, <1>2
  <2> QED BY <2>3, <2>4 DEF Behind, f
<1>5. ASSUME NEW f, Behind(Top.chunks, f)
      PROVE  Behind(new, f)
  <2>1. PICK k \in 1 .. n : BehindAt(k, Top.chunks, f)
    BY <1>5 DEF Behind
  <2>2. BehindAt(k, new, f)
    BY <1>1, <1>2, <2>1 DEF BehindAt
  <2> QED BY <1>1, <1>2, <2>2 DEF Behind
<1>6. ASSUME NEW chunks, Behind(chunks, Top)
      PROVE  \E k \in 1 .. Len(chunks) :
               /\ k <= Len(new) /\ \A j \in 1 .. k - 1 : chunks[j] = new[j]
               /\ Less(chunks[k], new[k].to, new[k].group)
  <2>1. PICK k \in 1 .. Len(chunks) : BehindAt(k, chunks, Top)
    BY <1>6 DEF Behind
  <2>2. k <= n + 1 /\ \A j \in 1 .. k - 1 : chunks[j] = new[j]
    BY <1>1, <1>2, <2>1 DEF BehindAt
  <2>3. Less(chunks[k], new[k].to, new[k].group)
    <3>1. CASE k <= n
      BY <1>1, <1>2, <2>1, <3>1 DEF BehindAt
    <3>2. CASE k = n + 1
      <4>1. ~(k <= Len(Top.chunks))
        BY <1>1, <3>2
      <4> QED BY <1>3, <2>1, <3>2, <4>1 DEF BehindAt
    <3> QED BY <1>1, <2>2, <3>1, <3>2
  <2> QED BY <1>2, <2>2, <2>3
<1> QED BY <1>4, <1>5, <1>6 DEF new

LEMMA AcceptInOrder ==
  ASSUME TypeOK, SearchInv, OrderInv, Accept
  PROVE  OrderInv'
<1>1. Trying /\ frames' = NextGroup /\ frames # <<>> /\ paths \in Seq(Path)
  BY DEF Accept, Trying, Searching, TypeOK
<1>2. PICK t \in Allowed : paths' = Append(paths, [chunks |-> Extended(t.shift), weak |-> rules[t.to].weak])
  BY DEF Accept
<1> DEFINE new == Extended(t.shift)
           found == [chunks |-> new, weak |-> rules[t.to].weak]
<1>3. /\ DOMAIN paths' = 1 .. Len(paths) + 1 /\ Len(paths) \in Nat /\ DOMAIN paths = 1 .. Len(paths)
      /\ paths'[Len(paths) + 1] = found
      /\ \A i \in DOMAIN paths : paths'[i] = paths[i]
  <2>1. paths' = Append(paths, found)
    BY <1>2
  <2> HIDE DEF found
  <2> QED BY <1>1, <2>1
<1>4. found.chunks = new
  OBVIOUS
<1>5. InOrder(NextGroup, paths) /\ DOMAIN NextGroup = DOMAIN frames
  BY <1>1, NextGroupInOrder, NextGroupDomain
<1>6. t.shift \in BOOLEAN /\ new \in Seq(Chunk)
  BY <1>1, <1>2, AllowedType, ExtendedType
<1>7. \A d \in DOMAIN NextGroup : Behind(new, NextGroup[d])
  <2> SUFFICES ASSUME NEW d \in DOMAIN frames
               PROVE  Behind(new, NextGroup[d])
    BY <1>5
  <2>1. CASE d = Depth
    BY <1>1, <1>6, <2>1, ExtendedInOrder
  <2>2. CASE d # Depth
    <3>1. d < Depth /\ Depth \in DOMAIN frames /\ Top = frames[Depth]
      BY <1>1, <2>2, TopType DEF TypeOK, Depth, Top
    <3>2. Behind(Top.chunks, frames[d])
      BY <3>1 DEF OrderInv
    <3>3. NextGroup[d] = frames[d]
      BY <1>1, <2>2, NextGroupIs, OthersKept
    <3> QED BY <1>1, <1>6, <3>2, <3>3, ExtendedInOrder
  <2> QED BY <2>1, <2>2
<1>8. \A i \in DOMAIN paths : Before(paths[i], found)
  <2> SUFFICES ASSUME NEW i \in DOMAIN paths
               PROVE  Before(paths[i], found)
    OBVIOUS
  <2>1. Behind(paths[i].chunks, Top)
    BY <1>1, TopType DEF OrderInv, Top
  <2>2. PICK k \in 1 .. Len(paths[i].chunks) :
          /\ k <= Len(new) /\ \A j \in 1 .. k - 1 : paths[i].chunks[j] = new[j]
          /\ Less(paths[i].chunks[k], new[k].to, new[k].group)
    BY <1>1, <1>6, <2>1, ExtendedInOrder
  <2>3. k \in DOMAIN paths[i].chunks \cap DOMAIN new
    <3>1. paths[i] \in Path
      BY <1>1, Elements, <1>3
    <3>2. DOMAIN paths[i].chunks = 1 .. Len(paths[i].chunks) /\ Len(paths[i].chunks) \in Nat
      BY <3>1, PathType
    <3> QED BY <1>6, <2>2, <3>2
  <2> HIDE DEF found, new
  <2> QED BY <1>4, <2>2, <2>3 DEF Before, Less
<1> HIDE DEF found, new
<1>9. ASSUME NEW i \in DOMAIN paths', NEW j \in DOMAIN paths', i < j
      PROVE  Before(paths'[i], paths'[j])
  <2>1. i \in DOMAIN paths /\ (j \in DOMAIN paths \/ j = Len(paths) + 1)
    BY <1>3, <1>9
  <2> QED BY <1>3, <1>5, <1>8, <1>9, <2>1 DEF InOrder
<1>10. ASSUME NEW d \in DOMAIN NextGroup, NEW i \in DOMAIN paths'
       PROVE  Behind(paths'[i].chunks, NextGroup[d])
  <2>1. i \in DOMAIN paths \/ i = Len(paths) + 1
    BY <1>3
  <2> QED BY <1>3, <1>4, <1>5, <1>7, <2>1 DEF InOrder
<1> QED BY <1>1, <1>5, <1>9, <1>10 DEF InOrder, OrderInv

LEMMA DescendInOrder ==
  ASSUME TypeOK, SearchInv, OrderInv, Descend
  PROVE  OrderInv'
<1>1. Trying /\ frames # <<>> /\ paths' = paths /\ NextGroup \in Seq(Frame)
  BY NextGroupType DEF Descend, Trying, Searching
<1>2. PICK t \in Allowed : frames' = Append(NextGroup, Enter(Top.end + 1, t.to, Extended(t.shift)))
  BY DEF Descend
<1> DEFINE new == Extended(t.shift)
           inner == Enter(Top.end + 1, t.to, new)
<1>3. /\ DOMAIN frames' = 1 .. Depth + 1 /\ Depth \in Nat \ {0} /\ DOMAIN frames = 1 .. Depth
      /\ frames'[Depth + 1] = inner /\ Depth = Len(frames)
      /\ \A d \in DOMAIN frames : frames'[d] = NextGroup[d]
  <2>1. frames' = Append(NextGroup, inner)
    BY <1>2
  <2> HIDE DEF inner
  <2>2. DOMAIN frames = 1 .. Depth /\ Depth = Len(frames) /\ Depth \in Nat \ {0}
    BY <1>1, TopType DEF TypeOK, Depth
  <2> QED BY <1>1, <2>1, <2>2, NextGroupDomain
<1>4. inner.chunks = new
  BY DEF Enter
<1>5. InOrder(NextGroup, paths) /\ DOMAIN NextGroup = DOMAIN frames
  BY <1>1, NextGroupInOrder, NextGroupDomain
<1>6. t.shift \in BOOLEAN /\ new \in Seq(Chunk)
  BY <1>1, <1>2, AllowedType, ExtendedType
<1>7. ASSUME NEW d \in DOMAIN frames
      PROVE  Behind(new, NextGroup[d])
  <2>1. CASE d = Depth
    BY <1>1, <1>6, <2>1, ExtendedInOrder
  <2>2. CASE d # Depth
    <3>1. d < Depth /\ Depth \in DOMAIN frames /\ Top = frames[Depth]
      BY <1>3, <2>2 DEF Top
    <3>2. Behind(Top.chunks, frames[d])
      BY <3>1 DEF OrderInv
    <3>3. NextGroup[d] = frames[d]
      BY <1>1, <2>2, NextGroupIs, OthersKept
    <3> QED BY <1>1, <1>6, <3>2, <3>3, ExtendedInOrder
  <2> QED BY <2>1, <2>2
<1>8. ASSUME NEW i \in DOMAIN paths
      PROVE  Behind(paths[i].chunks, inner)
  <2>1. Behind(paths[i].chunks, Top)
    BY <1>1, TopType DEF OrderInv, Top
  <2>2. PICK k \in 1 .. Len(paths[i].chunks) :
          /\ k <= Len(new) /\ \A j \in 1 .. k - 1 : paths[i].chunks[j] = new[j]
          /\ Less(paths[i].chunks[k], new[k].to, new[k].group)
    BY <1>1, <1>6, <2>1, ExtendedInOrder
  <2>3. k <= Len(new) + 1
    <3>1. Len(new) \in Nat
      BY <1>6
    <3> HIDE DEF new
    <3> QED BY <2>2, <3>1
  <2> HIDE DEF inner, new
  <2>4. BehindAt(k, paths[i].chunks, inner)
    BY <1>4, <2>2, <2>3 DEF BehindAt
  <2> QED BY <2>4 DEF Behind
<1> HIDE DEF inner, new
<1>9. ASSUME NEW d \in DOMAIN frames', NEW i \in DOMAIN paths
      PROVE  Behind(paths[i].chunks, frames'[d])
  <2>1. d \in DOMAIN frames \/ d = Depth + 1
    BY <1>3
  <2> QED BY <1>3, <1>5, <1>8, <2>1 DEF InOrder
<1>10. ASSUME NEW d \in DOMAIN frames', NEW e \in DOMAIN frames', d < e
       PROVE  Behind(frames'[e].chunks, frames'[d])
  <2>1. d \in DOMAIN frames /\ (e \in DOMAIN frames \/ e = Depth + 1)
    BY <1>3, <1>10
  <2> QED BY <1>3, <1>4, <1>5, <1>7, <1>10, <2>1 DEF InOrder
<1> QED BY <1>1, <1>9, <1>10 DEF OrderInv

LEMMA OrderInit == Init => OrderInv
BY DEF Init, OrderInv

LEMMA OrderNext == TypeOK /\ SearchInv /\ OrderInv /\ [Next]_vars => OrderInv'
<1> SUFFICES ASSUME TypeOK, SearchInv, OrderInv, [Next]_vars PROVE OrderInv'
  OBVIOUS
<1>1. ASSUME frames = <<>>, UNCHANGED <<frames, paths>>
      PROVE  OrderInv'
  BY <1>1 DEF OrderInv
<1>2. CASE StartSearch
  <2>1. frames' = <<Enter(part.from, InitialState, <<>>)>> /\ paths' = <<>>
    BY <1>2 DEF StartSearch
  <2> QED BY <2>1 DEF OrderInv
<1>3. CASE LookUp
  BY <1>1, <1>3 DEF LookUp, SearchInv
<1>4. CASE Refuse
  <2>1. Trying /\ frames' = NextGroup /\ paths' = paths
    BY <1>4 DEF Refuse
  <2> QED BY <2>1, NextGroupInOrder DEF InOrder, OrderInv
<1>5. CASE Accept
  BY <1>5, AcceptInOrder
<1>6. CASE Descend
  BY <1>6, DescendInOrder
<1>7. CASE NextPrefix
  <2> DEFINE end == Top.end + 1
             group == 1
  <2>1. Searching /\ frames # <<>> /\ paths' = paths /\ Top.end \in Nat
    BY <1>7, SearchingType DEF NextPrefix
  <2>2. frames' = [frames EXCEPT ![Depth] = [Top EXCEPT !.end = end, !.group = group]]
    BY <1>7, <2>1, TopType DEF NextPrefix, Top, Frame, TypeOK
  <2>3. end \in Nat /\ group \in Nat /\ end > Top.end
    BY <2>1
  <2> HIDE DEF end, group
  <2>4. InOrder(frames', paths)
    BY <2>1, <2>2, <2>3, MovedInOrder
  <2> QED BY <2>1, <2>4 DEF InOrder, OrderInv
<1>8. CASE Leave
  <2>1. frames \in Seq(Frame) /\ frames # <<>> /\ paths' = paths
    BY <1>8 DEF Leave, TypeOK
  <2>2. \A d \in DOMAIN frames' : d \in DOMAIN frames /\ frames'[d] = frames[d]
    BY <1>8, <2>1 DEF Leave, Depth
  <2> QED BY <2>1, <2>2 DEF OrderInv
<1>9. CASE Found \/ Unknown \/ Split
  BY <1>1, <1>9 DEF Found, Unknown, Split, Searched, Answer
<1>10. CASE ExtendRun \/ TakeRun \/ Separator \/ LastRun \/ AllSplit
  <2>1. pc # "search" /\ UNCHANGED <<frames, paths>>
    BY <1>10 DEF ExtendRun, TakeRun, Separator, LastRun, AllSplit, ProcessSlice, AtSeparator, AtChar, AfterChars
  <2> QED BY <1>1, <2>1 DEF SearchInv
<1>11. CASE UNCHANGED vars
  BY <1>11 DEF vars, OrderInv
<1> QED BY <1>2, <1>3, <1>4, <1>5, <1>6, <1>7, <1>8, <1>9, <1>11, <1>10 DEF Next

LEMMA SameAnswers ==
  ASSUME TypeOK, UNCHANGED call
  PROVE  /\ \A p, path : IsSegmentation(p, path)' <=> IsSegmentation(p, path)
         /\ \A a : Answered(a)' <=> Answered(a)
         /\ Sink(InitialState)' <=> Sink(InitialState)
<1>1. word' = word /\ case' = case /\ rules' = rules
  BY DEF call
<1>2. /\ \A from, to : GroupsAt(from, to)' = GroupsAt(from, to)
      /\ \A state, type, i : IsTransition(state, type, i)' <=> IsTransition(state, type, i)
      /\ \A from, to, group : Matching(from, to, group)' = Matching(from, to, group)
  BY <1>1 DEF GroupsAt, Lowered, IsTransition, Matching, PatternMatches
<1>3. \A p, chunks : Chained(p, chunks)' <=> Chained(p, chunks)
  BY <1>2 DEF Chained
<1>4. \A chunks, run : IsRun(chunks, run)' <=> IsRun(chunks, run)
  BY <1>1, <1>2 DEF IsRun, Leads, GroupOf
<1>5. \A p, path : IsSegmentation(p, path)' <=> IsSegmentation(p, path)
  BY <1>1, <1>3, <1>4 DEF IsSegmentation, Segments
<1>6. \A found : Retained(found)' = Retained(found)
  BY <1>1, <1>2 DEF Retained, CaseMatches, GroupOf
<1>7. Path' = Path
  BY SameTypes
<1>8. \A a : Answered(a)' <=> Answered(a)
  BY <1>5, <1>6, <1>7 DEF Answered
<1> QED BY <1>1, <1>5, <1>8 DEF Sink

LEMMA SearchedAll ==
  ASSUME CompleteInv, Searched
  PROVE  \A s \in Path : IsSegmentation(part, s) => \E i \in DOMAIN paths : paths[i] = s
BY DEF CompleteInv, Searched, IsSegmentation, Accounted

LEMMA AnswersInit == Init => AnswersInv
BY DEF Init, AnswersInv

LEMMA AnswersNext ==
  TypeOK /\ SearchInv /\ CompleteInv /\ OrderInv /\ PartsInv /\ AnswersInv /\ [Next]_vars => AnswersInv'
<1> SUFFICES ASSUME TypeOK, SearchInv, CompleteInv, OrderInv, PartsInv, AnswersInv, [Next]_vars
             PROVE  AnswersInv'
  OBVIOUS
<1>1. UNCHANGED call
  BY DEF Next, vars, StartSearch, LookUp, Refuse, Accept, Descend, NextPrefix, Leave,
         Found, Unknown, Split, ExtendRun, TakeRun, Separator, LastRun, AllSplit, Answer,
         ProcessSlice
<1>2. /\ \A p, path : IsSegmentation(p, path)' <=> IsSegmentation(p, path)
      /\ \A a : Answered(a)' <=> Answered(a)
      /\ Sink(InitialState)' <=> Sink(InitialState)
      /\ Path' = Path /\ word' = word
  BY <1>1, SameAnswers, SameTypes DEF call
<1>3. CASE Sink(InitialState)
  BY <1>2, <1>3 DEF AnswersInv
<1>4. ASSUME UNCHANGED <<answer, inside>>
      PROVE  AnswersInv'
  BY <1>2, <1>4 DEF AnswersInv, Piece
<1>5. ASSUME ~Sink(InitialState), Searched, NEW kept, Answer(kept), kept = Retained(paths)
      PROVE  AnswersInv'
  <2> DEFINE entry == [part |-> part, paths |-> paths, kept |-> kept]
  <2>1. entry.part = part /\ entry.paths = paths /\ entry.kept = kept
        /\ answer' = Append(answer, entry) /\ inside' = inside
    BY <1>5 DEF Answer, splitting
  <2> HIDE DEF entry
  <2>2. Answered(entry)
    <3>1. \A i \in DOMAIN paths : IsSegmentation(part, paths[i])
      BY <1>5 DEF SearchInv, PathsSound, Searched
    <3>2. \A i, j \in DOMAIN paths : i < j => Before(paths[i], paths[j])
      BY DEF OrderInv
    <3>3. \A s \in Path : IsSegmentation(part, s) => \E i \in DOMAIN paths : paths[i] = s
      BY <1>5, SearchedAll
    <3> QED BY <1>5, <2>1, <3>1, <3>2, <3>3 DEF Answered
  <2>3. \A k \in DOMAIN answer' : (k \in DOMAIN answer /\ answer'[k] = answer[k]) \/ answer'[k] = entry
    BY <2>1 DEF TypeOK
  <2>4. \A k \in DOMAIN answer' : Answered(answer'[k])
    BY <1>5, <2>2, <2>3 DEF AnswersInv
  <2> QED BY <1>2, <1>5, <2>1, <2>4 DEF AnswersInv, Piece
<1>6. CASE Found
  BY <1>3, <1>5, <1>6 DEF Found
<1>7. CASE Unknown
  <2>1. Searched /\ paths = <<>> /\ Answer({})
    BY <1>7 DEF Unknown
  <2>2. Retained(paths) = {}
    BY <2>1 DEF Retained
  <2> QED BY <1>3, <1>5, <2>1, <2>2
<1>8. CASE Split
  <2>1. Searched /\ paths = <<>> /\ answer' = answer /\ ~inside /\ pc = "search"
    BY <1>8 DEF Split, Splits, Searched
  <2>2. part = Piece(1, Len(word))
    BY <2>1 DEF PartsInv
  <2>3. \A s \in Path : ~IsSegmentation(Piece(1, Len(word)), s)
    BY <2>1, <2>2, SearchedAll
  <2> QED BY <1>2, <2>1, <2>3 DEF AnswersInv, Piece
<1>9. CASE StartSearch \/ Refuse \/ Accept \/ Descend \/ NextPrefix \/ Leave \/ UNCHANGED vars
  BY <1>4, <1>9 DEF StartSearch, Refuse, Accept, Descend, NextPrefix, Leave, vars, splitting
<1>10. CASE LookUp
  BY <1>3, <1>10 DEF LookUp
<1>11. CASE ExtendRun \/ TakeRun \/ Separator \/ LastRun \/ AllSplit
  BY <1>4, <1>11 DEF ExtendRun, TakeRun, Separator, LastRun, AllSplit, ProcessSlice, splitting
<1> QED BY <1>6, <1>7, <1>8, <1>9, <1>10, <1>11 DEF Next

(* What the invariants say of an answer is what it deserves: its kept      *)
(* paths are the segmentations of the right case.                          *)
LEMMA AnswersAreDeserved == TypeOK /\ AnswersInv => AnswersDeserved
<1> SUFFICES ASSUME TypeOK, AnswersInv, ~Sink(InitialState)
             PROVE  /\ \A k \in DOMAIN answer :
                         /\ { answer[k].paths[i] : i \in answer[k].kept }
                              = { s \in Segmentations(answer[k].part) : RightCase(s) }
                         /\ \A i, j \in answer[k].kept : i < j => Before(answer[k].paths[i], answer[k].paths[j])
                    /\ inside => Segmentations(Piece(1, Len(word))) = {}
  BY DEF AnswersDeserved
<1>1. ASSUME NEW k \in DOMAIN answer
      PROVE  /\ { answer[k].paths[i] : i \in answer[k].kept }
                  = { s \in Segmentations(answer[k].part) : RightCase(s) }
             /\ \A i, j \in answer[k].kept : i < j => Before(answer[k].paths[i], answer[k].paths[j])
  <2> DEFINE a == answer[k]
  <2>1. a \in [part : Parts, paths : Seq(Path), kept : SUBSET Nat]
    <3>1. answer \in Seq([part : Parts, paths : Seq(Path), kept : SUBSET Nat])
      BY DEF TypeOK
    <3>2. k \in 1 .. Len(answer)
      BY <3>1
    <3> QED BY <3>1, <3>2, Elements
  <2>2. Answered(a)
    BY DEF AnswersInv
  <2> HIDE DEF a
  <2>3. \A i \in DOMAIN a.paths : a.paths[i] \in Path
    BY <2>1
  <2>4. a.part \in Parts
    BY <2>1
  <2>5. Segmentations(a.part) = { s \in Path : IsSegmentation(a.part, s) }
    BY <2>4, SegmentationsAre
  <2>6. \A i : i \in a.kept <=> i \in DOMAIN a.paths /\ RightCase(a.paths[i])
    BY <2>2 DEF Answered, Retained, RightCase
  <2>7. { a.paths[i] : i \in a.kept } = { s \in Segmentations(a.part) : RightCase(s) }
    BY <2>2, <2>3, <2>5, <2>6 DEF Answered
  <2>8. \A i, j \in a.kept : i < j => Before(a.paths[i], a.paths[j])
    BY <2>2, <2>6 DEF Answered
  <2> QED BY <2>7, <2>8 DEF a
<1>2. inside => Segmentations(Piece(1, Len(word))) = {}
  <2>1. Piece(1, Len(word)) \in Parts
    BY WordType DEF Piece, Parts, Position
  <2> QED BY <2>1, SegmentationsAre DEF AnswersInv
<1> QED BY <1>1, <1>2

(* process_one_word answers each part of a word with all the ways to write *)
(* it as segments that the dictionary has, the rules accept and, when case *)
(* counts, of the right case, shorter first segments first and none twice, *)
(* and splits only a word that has none.                                   *)
THEOREM AnswersAsDeserved == Spec => []AnswersDeserved
<1> DEFINE Inv == TypeOK /\ SearchInv /\ CompleteInv /\ OrderInv /\ PartsInv /\ AnswersInv
<1>1. Init => Inv
  <2>1. Init => CompleteInv
    BY DEF Init, CompleteInv
  <2> QED BY <2>1, TypeInit, SearchInit, OrderInit, PartsInit, AnswersInit
<1>2. Inv /\ [Next]_vars => Inv'
  BY TypeNext, SearchNext, CompleteNext, OrderNext, PartsNext, AnswersNext
<1>3. Inv => AnswersDeserved
  BY AnswersAreDeserved
<1> QED BY <1>1, <1>2, <1>3, PTL DEF Spec
=============================================================================
