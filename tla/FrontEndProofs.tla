--------------------------- MODULE FrontEndProofs ---------------------------
(***************************************************************************)
(* The two front ends that answer standard input line by line.             *)
(*                                                                         *)
(* The pipeline of StdinParallel, for any input, any pool, any length of   *)
(* batches and any capacity of the channel: its output is in order, its    *)
(* memory bounded, and of an input whose lines all succeed it shows what   *)
(* the single-threaded loop does.                                          *)
(*                                                                         *)
(* JsonService, for any dictionaries, requests and texts.  Whatever part   *)
(* of a request's options is taken before one is refused, what has been    *)
(* taken is valid: each option is validated together with those before it, *)
(* so the part that remains was itself accepted.                           *)
(***************************************************************************)
EXTENDS StdinParallel, JsonService, SequenceTheorems, TLAPS

-----------------------------------------------------------------------------
(* The inductive invariant                                                 *)

(* The lines of the batches that were sent.                                *)
Sent == read - Len(batch)

Row(lines, n) == \A i \in 1 .. Len(lines) : lines[i] = n + i

(* The batch at work is what was read last; all lines sent were good.      *)
BatchInv ==
  /\ Len(batch) <= BatchLines /\ Len(batch) <= read /\ Row(batch, Sent)
  /\ \A i \in 1 .. Sent : input[i] = "good"
  /\ failed => \E i \in DOMAIN input : input[i] # "good"

(* A line of the batch is to be taken, is at a worker, or has its block in *)
(* its place, until one has failed.                                        *)
PoolInv ==
  /\ pc \in {"map", "send"} =>
       /\ batch # <<>> /\ Len(blocks) = Len(batch)
       /\ \A i \in 1 .. Len(batch) : blocks[i] # 0 => blocks[i] = batch[i] /\ input[batch[i]] = "good"
  /\ pc = "map" /\ ~failed =>
       \A i \in 1 .. Len(batch) : i \in todo \/ blocks[i] # 0 \/ \E w \in Workers : at[w] = i
  /\ pc = "send" => \A i \in 1 .. Len(batch) : blocks[i] # 0
  /\ pc \in {"read", "send"} => todo = {} /\ ~failed
  /\ pc # "map" => \A w \in Workers : at[w] = 0

(* The line before which batch k of a channel ends.                        *)
EndOf(c, k) == c[k][1] + Len(c[k])

(* The channel holds batches in a row, the first of which follows on what  *)
(* the writer has and the last of which was sent last.                     *)
ChannelInv ==
  /\ Len(channel) <= Capacity
  /\ \A k \in 1 .. Len(channel) :
       /\ 1 <= Len(channel[k]) /\ Len(channel[k]) <= BatchLines
       /\ Row(channel[k], channel[k][1] - 1) /\ EndOf(channel, k) <= Sent + 1
  /\ \A k \in 1 .. Len(channel) - 1 : channel[k + 1][1] = EndOf(channel, k)
  /\ channel # <<>> =>
       /\ channel[1][1] = Len(stdout) + Len(writing) + 1
       /\ EndOf(channel, Len(channel)) = Sent + 1

(* What the writer has written and taken is a row from the first line on.  *)
WriterInv ==
  /\ Len(writing) <= BatchLines /\ Row(writing, Len(stdout))
  /\ writer # "done" => Row(stdout, 0) /\ Len(stdout) + Len(writing) <= Sent
  /\ writer = "on" /\ channel = <<>> => Len(stdout) + Len(writing) = Sent
  /\ writer # "on" => channel = <<>> /\ writing = <<>>
  /\ writer = "done" =>
       /\ pc \in {"close", "joined"}
       /\ Len(stdout) = Sent + 1 /\ stdout[Sent + 1] = Serial!Newline
       /\ \A i \in 1 .. Sent : stdout[i] = i

(* How it ends.                                                            *)
EndInv ==
  /\ pc \in {"close", "joined"} /\ ~failed => writer = "broken" \/ (Ended /\ batch = <<>>)
  /\ status = "running" <=> pc # "joined"
  /\ pc = "joined" => writer # "on"
  /\ status = "ok" => ~failed /\ writer = "done"
  /\ status = "error" => failed \/ writer = "broken"

IInv ==
  /\ input \in Inputs /\ TypeOK
  /\ BatchInv /\ PoolInv /\ ChannelInv /\ WriterInv /\ EndInv

-----------------------------------------------------------------------------
(* Types                                                                   *)

LEMMA NoneLeft == \A s : s = <<>> => Len(s) = 0
OBVIOUS

LEMMA InputType ==
  ASSUME IInv
  PROVE  /\ Len(input) \in Nat /\ DOMAIN input = 1 .. Len(input)
         /\ \A i \in 1 .. Len(input) : input[i] \in Serial!Lines
BY StdinAssumption DEF IInv

LEMMA Limits == BatchLines \in Nat /\ BatchLines >= 1 /\ Capacity \in Nat /\ Capacity >= 1
BY StdinParallelAssumption

LEMMA SentType ==
  ASSUME IInv
  PROVE  Sent \in Nat /\ Sent <= Len(input) /\ Len(batch) \in Nat /\ Sent + Len(batch) = read
BY InputType DEF IInv, TypeOK, BatchInv, Sent

-----------------------------------------------------------------------------
(* The computing thread                                                    *)

LEMMA Start == Init => IInv
<1> SUFFICES ASSUME Init PROVE IInv
  OBVIOUS
<1>1. input \in Inputs /\ Len(input) \in Nat
  BY StdinAssumption DEF Init, Serial!Init
<1>2. /\ stdout = <<>> /\ status = "running" /\ read = 0 /\ batch = <<>> /\ pc = "read"
      /\ todo = {} /\ blocks = <<>> /\ channel = <<>> /\ writing = <<>> /\ writer = "on"
      /\ failed = FALSE
  BY DEF Init, Serial!Init
<1>3. TypeOK
  <2>1. at \in [Workers -> {0} \cup DOMAIN batch]
    BY DEF Init
  <2>2. /\ <<>> \in Seq(0 .. Len(input)) /\ <<>> \in Seq(1 .. Len(input))
        /\ <<>> \in Seq(Seq(1 .. Len(input)))
    BY EmptySeq
  <2>3. read \in 0 .. Len(input)
    BY <1>1, <1>2
  <2>4. todo \subseteq DOMAIN batch
    BY <1>2
  <2> QED BY <1>2, <2>1, <2>2, <2>3, <2>4 DEF TypeOK
<1>4. Len(<<>>) = 0 /\ Sent = 0
  <2>1. Len(batch) = 0
    BY <1>2
  <2>2. Len(<<>>) = 0
    OBVIOUS
  <2>3. read = 0
    BY <1>2
  <2>4. Sent = 0
    BY <2>1, <2>3 DEF Sent
  <2> QED BY <2>2, <2>4
<1>5. BatchInv /\ PoolInv
  BY <1>1, <1>2, <1>4, Limits DEF Init, BatchInv, PoolInv, Row
<1>6. ChannelInv /\ WriterInv
  BY <1>1, <1>2, <1>4, Limits DEF ChannelInv, WriterInv, Row
<1>7. EndInv
  BY DEF Init, Serial!Init, EndInv
<1> QED BY <1>1, <1>3, <1>5, <1>6, <1>7 DEF IInv

LEMMA ReadLineStep == IInv /\ ReadLine => IInv'
<1> SUFFICES ASSUME IInv, ReadLine PROVE IInv'
  OBVIOUS
<1> USE DEF ReadLine
<1>1. /\ read + 1 \in 1 .. Len(input) /\ Sent' = Sent
      /\ batch' \in Seq(1 .. Len(input)) /\ Len(batch') = Len(batch) + 1
      /\ batch'[Len(batch) + 1] = read + 1
      /\ \A i \in 1 .. Len(batch) : batch'[i] = batch[i]
  BY InputType, SentType, AppendProperties DEF IInv, TypeOK, Ended, Sent
<1>2. TypeOK'
  BY <1>1, InputType DEF IInv, TypeOK, pool, output
<1>3. BatchInv'
  <2>1. Len(batch') <= BatchLines /\ Len(batch') <= read'
    BY <1>1, SentType, Limits DEF IInv, BatchInv
  <2>2. Row(batch, Sent)'
    <3> SUFFICES ASSUME NEW i \in 1 .. Len(batch') PROVE batch'[i] = Sent' + i
      BY DEF Row
    <3> QED BY <1>1, SentType, SMTT(30) DEF IInv, BatchInv, Row
  <2> QED BY <1>1, <2>1, <2>2 DEF IInv, BatchInv
<1>4. PoolInv'
  BY DEF IInv, PoolInv, pool
<1>5. ChannelInv' /\ WriterInv'
  BY <1>1 DEF IInv, ChannelInv, WriterInv, EndOf, Row, output
<1>6. EndInv'
  BY DEF IInv, EndInv, output
<1> QED BY <1>2, <1>3, <1>4, <1>5, <1>6 DEF IInv

(* Steps that leave the lines sent, the channel and the writer as they are. *)
LEMMA OutputFrame ==
  ASSUME IInv, UNCHANGED <<input, read, batch, channel, output>>, writer = "done" => pc' \in {"close", "joined"}
  PROVE  /\ Sent' = Sent /\ ChannelInv' /\ WriterInv'
         /\ (failed' => failed \/ \E i \in DOMAIN input : input[i] # "good") => BatchInv'
<1>1. Sent' = Sent
  BY DEF Sent
<1>2. ChannelInv'
  BY <1>1 DEF IInv, ChannelInv, EndOf, Row, output
<1>3. WriterInv'
  BY <1>1 DEF IInv, WriterInv, Row, output
<1>4. (failed' => failed \/ \E i \in DOMAIN input : input[i] # "good") => BatchInv'
  BY <1>1 DEF IInv, BatchInv, Row
<1> QED BY <1>1, <1>2, <1>3, <1>4

LEMMA ReadFailsStep == IInv /\ ReadFails => IInv'
<1> SUFFICES ASSUME IInv, ReadFails PROVE IInv'
  OBVIOUS
<1> USE DEF ReadFails
<1>1. \E i \in DOMAIN input : input[i] # "good"
  BY InputType DEF IInv, TypeOK, Ended
<1>2. TypeOK'
  BY DEF IInv, TypeOK, pool, output
<1>3. BatchInv' /\ ChannelInv' /\ WriterInv'
  BY <1>1, OutputFrame
<1>4. PoolInv' /\ EndInv'
  BY DEF IInv, PoolInv, EndInv, pool, output
<1> QED BY <1>2, <1>3, <1>4 DEF IInv

LEMMA StartMapStep == IInv /\ StartMap => IInv'
<1> SUFFICES ASSUME IInv, StartMap PROVE IInv'
  OBVIOUS
<1> USE DEF StartMap
<1>1. DOMAIN batch = 1 .. Len(batch) /\ Len(batch) \in Nat
  BY DEF IInv, TypeOK
<1>2. blocks' \in Seq(0 .. Len(input)) /\ Len(blocks') = Len(batch)
  BY <1>1, InputType
<1>3. TypeOK'
  BY <1>2 DEF IInv, TypeOK, ItemsOf, output
<1>4. writer # "done"
  BY DEF IInv, WriterInv
<1>5. BatchInv' /\ ChannelInv' /\ WriterInv'
  BY <1>4, OutputFrame
<1>6. PoolInv'
  BY <1>1, <1>2 DEF IInv, PoolInv, ItemsOf
<1>7. EndInv'
  BY DEF IInv, EndInv, output
<1> QED BY <1>3, <1>5, <1>6, <1>7 DEF IInv

LEMMA EndOfInputStep == IInv /\ EndOfInput => IInv'
<1> SUFFICES ASSUME IInv, EndOfInput PROVE IInv'
  OBVIOUS
<1> USE DEF EndOfInput
<1>1. TypeOK'
  BY DEF IInv, TypeOK, pool, output
<1>2. BatchInv' /\ ChannelInv' /\ WriterInv'
  BY OutputFrame
<1>3. PoolInv'
  BY DEF IInv, PoolInv, pool
<1>4. EndInv'
  BY EmptySeq, Limits DEF IInv, EndInv, BatchFull, Ended, output
<1> QED BY <1>1, <1>2, <1>3, <1>4 DEF IInv

LEMMA EndMapStep == IInv /\ EndMap => IInv'
<1> SUFFICES ASSUME IInv, EndMap PROVE IInv'
  OBVIOUS
<1> USE DEF EndMap
<1>1. TypeOK'
  BY DEF IInv, TypeOK, pool, output
<1>2. writer # "done"
  BY DEF IInv, WriterInv
<1>3. BatchInv' /\ ChannelInv' /\ WriterInv'
  BY <1>2, OutputFrame
<1>4. DOMAIN batch = 1 .. Len(batch) /\ 0 \notin 1 .. Len(batch)
  BY DEF IInv, TypeOK
<1>5. PoolInv'
  BY <1>4 DEF IInv, PoolInv, pool
<1>6. EndInv'
  BY DEF IInv, EndInv, output
<1> QED BY <1>1, <1>3, <1>5, <1>6 DEF IInv

LEMMA SendFailsStep == IInv /\ SendFails => IInv'
<1> SUFFICES ASSUME IInv, SendFails PROVE IInv'
  OBVIOUS
<1> USE DEF SendFails
<1>1. TypeOK'
  BY DEF IInv, TypeOK, pool, output
<1>2. BatchInv' /\ ChannelInv' /\ WriterInv'
  BY OutputFrame
<1>3. PoolInv'
  BY DEF IInv, PoolInv, pool
<1>4. writer = "broken"
  BY DEF IInv, TypeOK, WriterInv, Gone
<1>5. EndInv'
  BY <1>4 DEF IInv, EndInv, output
<1> QED BY <1>1, <1>2, <1>3, <1>5 DEF IInv

LEMMA JoinStep == IInv /\ Join => IInv'
<1> SUFFICES ASSUME IInv, Join PROVE IInv'
  OBVIOUS
<1> USE DEF Join
<1>1. TypeOK'
  BY DEF IInv, TypeOK, pool, output
<1>2. BatchInv' /\ ChannelInv' /\ WriterInv'
  BY OutputFrame
<1>3. PoolInv'
  BY DEF IInv, PoolInv, pool
<1>4. EndInv'
  BY DEF IInv, TypeOK, EndInv, Ended, output
<1> QED BY <1>1, <1>2, <1>3, <1>4 DEF IInv

LEMMA TakeLineStep == \A w \in Workers : IInv /\ TakeLine(w) => IInv'
<1> SUFFICES ASSUME NEW w \in Workers, IInv, TakeLine(w) PROVE IInv'
  OBVIOUS
<1> PICK i \in todo : at' = [at EXCEPT ![w] = i] /\ todo' = todo \ {i}
  BY DEF TakeLine
<1> USE DEF TakeLine
<1>1. DOMAIN batch = 1 .. Len(batch) /\ Len(batch) \in Nat /\ i \in DOMAIN batch
  BY DEF IInv, TypeOK
<1>2. TypeOK'
  BY <1>1 DEF IInv, TypeOK, compute, output
<1>3. BatchInv' /\ ChannelInv' /\ WriterInv'
  <2>1. writer # "done"
    BY DEF IInv, WriterInv
  <2> QED BY <2>1, OutputFrame DEF compute
<1>4. PoolInv'
  <2>1. at'[w] = i /\ \A v \in Workers \ {w} : at'[v] = at[v]
    BY DEF IInv, TypeOK
  <2>2. \A j \in 1 .. Len(batch) : j \in todo' \/ blocks[j] # 0 \/ \E v \in Workers : at'[v] = j
    <3> SUFFICES ASSUME NEW j \in 1 .. Len(batch), j \notin todo', blocks[j] = 0
                 PROVE  \E v \in Workers : at'[v] = j
      OBVIOUS
    <3>1. CASE j = i
      BY <2>1, <3>1
    <3>2. CASE j # i
      <4>1. PICK v \in Workers : at[v] = j
        BY <3>2 DEF IInv, PoolInv
      <4>2. v # w
        BY <4>1, <1>1
      <4> QED BY <2>1, <4>1, <4>2
    <3> QED BY <3>1, <3>2
  <2> QED BY <2>2 DEF IInv, PoolInv, compute
<1>5. EndInv'
  BY DEF IInv, EndInv, compute, output
<1> QED BY <1>2, <1>3, <1>4, <1>5 DEF IInv, compute

(* The block takes the place of its line; or the line fails, and nothing   *)
(* more is said of the batch.                                              *)
LEMMA FinishLineStep == \A w \in Workers : IInv /\ FinishLine(w) => IInv'
<1> SUFFICES ASSUME NEW w \in Workers, IInv, FinishLine(w) PROVE IInv'
  OBVIOUS
<1> DEFINE i == at[w]
           line == batch[i]
<1>1. /\ UNCHANGED <<input, status, read, batch, pc, todo, channel, output>>
      /\ i # 0 /\ at' = [at EXCEPT ![w] = 0]
      /\ \/ input[line] = "good" /\ blocks' = [blocks EXCEPT ![i] = line] /\ failed' = failed
         \/ input[line] # "good" /\ failed' = TRUE /\ blocks' = blocks
  BY DEF FinishLine, PlaceOf
<1>2. /\ pc = "map" /\ i \in 1 .. Len(batch) /\ DOMAIN batch = 1 .. Len(batch) /\ Len(batch) \in Nat
      /\ line \in 1 .. Len(input)
  BY <1>1 DEF IInv, TypeOK, PoolInv
<1>3. /\ Len(blocks) = Len(batch) /\ blocks \in Seq(0 .. Len(input)) /\ line \in 0 .. Len(input)
      /\ blocks' \in Seq(0 .. Len(input)) /\ Len(blocks') = Len(batch)
  <2>1. Len(blocks) = Len(batch) /\ blocks \in Seq(0 .. Len(input)) /\ line \in 0 .. Len(input)
    BY <1>2, InputType DEF IInv, TypeOK, PoolInv
  <2> QED BY <1>1, <1>2, <2>1, ExceptSeq
<1>4. TypeOK'
  <2>1. at' \in [Workers -> {0} \cup DOMAIN batch]
    BY <1>1 DEF IInv, TypeOK
  <2> QED BY <1>1, <1>3, <2>1 DEF IInv, TypeOK, output
<1>5. BatchInv' /\ ChannelInv' /\ WriterInv'
  <2>1. writer # "done"
    BY <1>2 DEF IInv, WriterInv
  <2>2. failed' => failed \/ \E k \in DOMAIN input : input[k] # "good"
    BY <1>1, <1>2, InputType
  <2> QED BY <1>1, <2>1, <2>2, OutputFrame
<1>6. PoolInv'
  <2>1. at'[w] = 0 /\ \A v \in Workers \ {w} : at'[v] = at[v]
    BY <1>1 DEF IInv, TypeOK
  <2>2. CASE input[line] = "good"
    <3>1. /\ blocks'[i] = line /\ failed' = failed
          /\ \A j \in 1 .. Len(batch) : j # i => blocks'[j] = blocks[j]
      BY <1>1, <1>2, <1>3, <2>2
    <3>2. \A j \in 1 .. Len(batch) : blocks'[j] # 0 => blocks'[j] = batch[j] /\ input[batch[j]] = "good"
      BY <1>2, <2>2, <3>1 DEF IInv, PoolInv
    <3>3. ASSUME ~failed
          PROVE  \A j \in 1 .. Len(batch) : j \in todo \/ blocks'[j] # 0 \/ \E v \in Workers : at'[v] = j
      <4> SUFFICES ASSUME NEW j \in 1 .. Len(batch), j \notin todo, blocks'[j] = 0
                   PROVE  \E v \in Workers : at'[v] = j
        OBVIOUS
      <4>1. j # i /\ blocks[j] = 0
        BY <1>2, <3>1
      <4>2. PICK v \in Workers : at[v] = j
        BY <1>2, <3>3, <4>1 DEF IInv, PoolInv
      <4> QED BY <2>1, <4>1, <4>2
    <3> QED BY <1>1, <1>2, <1>3, <3>1, <3>2, <3>3 DEF IInv, PoolInv
  <2>3. CASE input[line] # "good"
    BY <1>1, <1>2, <2>3 DEF IInv, PoolInv
  <2> QED BY <2>2, <2>3
<1>7. EndInv'
  BY <1>1, <1>2 DEF IInv, EndInv, output
<1> QED BY <1>1, <1>4, <1>5, <1>6, <1>7 DEF IInv

LEMMA SendStep == IInv /\ Send => IInv'
<1> SUFFICES ASSUME IInv, Send PROVE IInv'
  OBVIOUS
<1> USE DEF Send
<1> DEFINE n == Len(channel)
<1>1. /\ Len(batch) \in Nat /\ Len(batch) >= 1 /\ Len(batch) <= BatchLines /\ Sent + Len(batch) = read
      /\ Sent \in Nat /\ Sent' = read
  <2>1. Len(batch) \in Nat /\ Len(batch) >= 1
    BY EmptySeq DEF IInv, TypeOK, PoolInv
  <2>2. Len(batch') = 0
    OBVIOUS
  <2> QED BY <2>1, <2>2, SentType DEF IInv, TypeOK, BatchInv, Sent
<1>2. /\ Len(blocks) = Len(batch)
      /\ \A i \in 1 .. Len(batch) : blocks[i] = Sent + i /\ input[Sent + i] = "good"
  BY DEF IInv, PoolInv, BatchInv, Row
<1>3. blocks \in Seq(1 .. Len(input))
  <2>1. \A i \in 1 .. Len(blocks) : blocks[i] \in 1 .. Len(input)
    BY <1>1, <1>2, InputType, SMTT(30) DEF IInv, TypeOK
  <2>2. blocks \in [1 .. Len(blocks) -> 1 .. Len(input)]
    BY <2>1 DEF IInv, TypeOK
  <2> QED BY <1>1, <1>2, <2>2
<1>4. /\ channel' \in Seq(Seq(1 .. Len(input))) /\ Len(channel') = n + 1 /\ n \in Nat
      /\ channel'[n + 1] = blocks /\ \A k \in 1 .. n : channel'[k] = channel[k]
  BY <1>3, AppendProperties DEF IInv, TypeOK
<1>5. TypeOK'
  <2>1. at' \in [Workers -> {0} \cup DOMAIN batch']
    BY DEF IInv, TypeOK, PoolInv
  <2>2. /\ todo' = {} /\ batch' \in Seq(1 .. Len(input)) /\ blocks' \in Seq(0 .. Len(input))
    BY EmptySeq DEF IInv, PoolInv
  <2> QED BY <1>4, <2>1, <2>2 DEF IInv, TypeOK, output
<1>6. BatchInv'
  <2>1. \A i \in 1 .. read : input[i] = "good"
    <3> SUFFICES ASSUME NEW i \in 1 .. read PROVE input[i] = "good"
      OBVIOUS
    <3>1. CASE i <= Sent
      BY <1>1, <3>1 DEF IInv, BatchInv
    <3>2. CASE i > Sent
      <4>1. i - Sent \in 1 .. Len(batch) /\ Sent + (i - Sent) = i
        BY <1>1, <3>2
      <4> QED BY <1>2, <4>1
    <3> QED BY <1>1, <3>1, <3>2 DEF IInv, TypeOK
  <2>2. Len(batch') = 0
    OBVIOUS
  <2> QED BY <1>1, <2>1, <2>2, Limits DEF IInv, TypeOK, BatchInv, Row
<1>7. PoolInv'
  BY DEF IInv, PoolInv
<1>8. channel # <<>> => EndOf(channel, n) = Sent + 1 /\ n >= 1
  BY <1>4, EmptySeq DEF IInv, TypeOK, ChannelInv
<1>9. channel' # <<>> /\ blocks[1] = Sent + 1
  <2>1. channel' # <<>>
    BY <1>4, EmptySeq
  <2>2. 1 \in 1 .. Len(batch)
    BY <1>1
  <2>3. blocks[1] = Sent + 1
    BY <1>2, <2>2
  <2> QED BY <2>1, <2>3
<1>10. \A k \in 1 .. n : EndOf(channel', k) = EndOf(channel, k) /\ channel[k][1] \in Nat /\ Len(channel[k]) \in Nat
  <2> SUFFICES ASSUME NEW k \in 1 .. n
               PROVE  EndOf(channel', k) = EndOf(channel, k) /\ channel[k][1] \in Nat /\ Len(channel[k]) \in Nat
    OBVIOUS
  <2>1. channel[k] \in Seq(1 .. Len(input)) /\ Len(channel[k]) \in Nat
    BY <1>4 DEF IInv, TypeOK
  <2>2. 1 \in 1 .. Len(channel[k])
    BY <2>1 DEF IInv, ChannelInv
  <2>3. channel[k][1] \in Nat
    BY <2>1, <2>2
  <2>4. EndOf(channel', k) = EndOf(channel, k)
    BY <1>4 DEF EndOf
  <2> QED BY <2>1, <2>3, <2>4
<1>11. EndOf(channel', n + 1) = read + 1
  <2>1. EndOf(channel', n + 1) = blocks[1] + Len(blocks)
    BY <1>4 DEF EndOf
  <2> QED BY <1>1, <1>2, <1>9, <2>1
<1>12. WriterInv'
  BY <1>1, <1>9 DEF IInv, WriterInv, Row, output
<1>13. ChannelInv'
  <2>1. n + 1 <= Capacity
    BY <1>4, Limits DEF HasRoom
  <2>2. ASSUME NEW k \in 1 .. n + 1
        PROVE  /\ 1 <= Len(channel'[k]) /\ Len(channel'[k]) <= BatchLines
               /\ Row(channel'[k], channel'[k][1] - 1) /\ EndOf(channel', k) <= read + 1
    <3>1. CASE k = n + 1
      <4>1. channel'[k] = blocks /\ EndOf(channel', k) = read + 1
        BY <1>4, <1>11, <3>1
      <4>2. Row(blocks, blocks[1] - 1)
        BY <1>1, <1>2, <1>9 DEF Row
      <4> QED BY <1>1, <1>2, <4>1, <4>2
    <3>2. CASE k \in 1 .. n
      <4>1. channel'[k] = channel[k] /\ EndOf(channel', k) = EndOf(channel, k)
        BY <1>4, <1>10, <3>2
      <4>2. EndOf(channel, k) <= Sent + 1 /\ EndOf(channel, k) \in Int
        BY <1>10, <3>2 DEF IInv, ChannelInv, EndOf
      <4>3. /\ 1 <= Len(channel[k]) /\ Len(channel[k]) <= BatchLines
            /\ Row(channel[k], channel[k][1] - 1)
        BY <3>2 DEF IInv, ChannelInv
      <4> QED BY <1>1, <4>1, <4>2, <4>3
    <3> QED BY <1>4, <3>1, <3>2
  <2>3. ASSUME NEW k \in 1 .. n
        PROVE  channel'[k + 1][1] = EndOf(channel', k)
    <3>1. CASE k = n
      BY <1>4, <1>8, <1>9, <1>10, <3>1
    <3>2. CASE k \in 1 .. n - 1
      BY <1>4, <1>10, <3>2 DEF IInv, ChannelInv
    <3> QED BY <1>4, <3>1, <3>2
  <2>4. channel'[1][1] = Len(stdout) + Len(writing) + 1
    <3>1. CASE channel = <<>>
      <4>1. n = 0
        BY <3>1
      <4> QED BY <1>4, <1>9, <3>1, <4>1 DEF IInv, WriterInv
    <3>2. CASE channel # <<>>
      BY <1>4, <1>8, <3>2 DEF IInv, ChannelInv
    <3> QED BY <3>1, <3>2
  <2>5. \A k \in 1 .. Len(channel') - 1 : channel'[k + 1][1] = EndOf(channel', k)
    <3>1. Len(channel') - 1 = n
      BY <1>4
    <3> QED BY <2>3, <3>1
  <2>6. \A k \in 1 .. Len(channel') :
          /\ 1 <= Len(channel'[k]) /\ Len(channel'[k]) <= BatchLines
          /\ Row(channel'[k], channel'[k][1] - 1) /\ EndOf(channel', k) <= Sent' + 1
    BY <1>1, <1>4, <2>2
  <2>7. channel'[1][1] = Len(stdout') + Len(writing') + 1
    BY <2>4 DEF output
  <2>8. Len(channel') <= Capacity /\ EndOf(channel', Len(channel')) = Sent' + 1
    BY <1>1, <1>4, <1>11, <2>1
  <2> QED BY <2>5, <2>6, <2>7, <2>8 DEF ChannelInv
<1>14. EndInv'
  BY DEF IInv, EndInv, output
<1> QED BY <1>5, <1>6, <1>7, <1>12, <1>13, <1>14 DEF IInv

-----------------------------------------------------------------------------
(* The writer thread                                                       *)

(* Steps of the writer alone.                                              *)
LEMMA ComputeFrame ==
  ASSUME IInv, UNCHANGED <<input, compute, pool>>
  PROVE  Sent' = Sent /\ BatchInv' /\ PoolInv'
<1>1. Sent' = Sent
  BY DEF Sent, compute
<1>2. BatchInv'
  BY <1>1 DEF IInv, BatchInv, Row, compute
<1>3. PoolInv'
  BY DEF IInv, PoolInv, compute, pool
<1> QED BY <1>1, <1>2, <1>3

LEMMA ReceiveStep == IInv /\ Receive => IInv'
<1> SUFFICES ASSUME IInv, Receive PROVE IInv'
  OBVIOUS
<1> USE DEF Receive
<1> DEFINE n == Len(channel)
           block == channel[1]
<1>1. /\ Len(channel') = n - 1 /\ n \in Nat /\ n >= 1
      /\ channel' \in Seq(Seq(1 .. Len(input)))
      /\ \A k \in 1 .. n - 1 : channel'[k] = channel[k + 1]
  BY HeadTailProperties, EmptySeq DEF IInv, TypeOK
<1>2. writing' = block /\ block \in Seq(1 .. Len(input))
  BY <1>1 DEF IInv, TypeOK
<1>3. Sent' = Sent /\ BatchInv' /\ PoolInv'
  BY ComputeFrame
<1>4. TypeOK'
  BY <1>1, <1>2 DEF IInv, TypeOK, compute, pool
<1>5. /\ Len(block) \in Nat /\ 1 <= Len(block) /\ Len(block) <= BatchLines
      /\ Row(block, block[1] - 1) /\ EndOf(channel, 1) <= Sent + 1
      /\ block[1] = Len(stdout) + 1
  <2>1. Len(writing) = 0
    OBVIOUS
  <2>2. 1 \in 1 .. n /\ Len(stdout) \in Nat
    BY <1>1 DEF IInv, TypeOK
  <2>3. block[1] = Len(stdout) + Len(writing) + 1
    BY <1>1 DEF IInv, ChannelInv
  <2>4. /\ 1 <= Len(block) /\ Len(block) <= BatchLines
        /\ Row(block, block[1] - 1) /\ EndOf(channel, 1) <= Sent + 1
    BY <2>2 DEF IInv, ChannelInv
  <2>5. block[1] = Len(stdout) + 1
    BY <2>1, <2>2, <2>3
  <2> QED BY <1>2, <2>4, <2>5
<1>6. EndOf(channel, 1) = Len(stdout) + Len(block) + 1 /\ Len(stdout) \in Nat
  <2>1. Len(stdout) \in Nat
    BY DEF IInv, TypeOK
  <2>2. EndOf(channel, 1) = block[1] + Len(block)
    BY DEF EndOf
  <2>3. block[1] = Len(stdout) + 1 /\ Len(block) \in Nat
    BY <1>5
  <2>4. block[1] + Len(block) = Len(stdout) + Len(block) + 1
    <3> HIDE DEF Receive, block, n
    <3> QED BY <2>1, <2>3
  <2> QED BY <2>1, <2>2, <2>4
<1>7. WriterInv'
  <2>1. Row(block, Len(stdout))
    <3>1. block[1] - 1 = Len(stdout)
      BY <1>5, <1>6
    <3> QED BY <1>5, <3>1
  <2>2. channel' = <<>> => Len(stdout) + Len(block) = Sent
    <3> SUFFICES ASSUME channel' = <<>> PROVE Len(stdout) + Len(block) = Sent
      OBVIOUS
    <3>1. Len(channel') = 0
      BY NoneLeft
    <3>2. n = 1
      <4> HIDE DEF Receive
      <4> QED BY <1>1, <3>1
    <3> QED BY <1>6, <3>2, SentType DEF IInv, ChannelInv
  <2> QED BY <1>2, <1>3, <1>5, <1>6, <2>1, <2>2, SentType, SMTT(30) DEF IInv, WriterInv
<1>8. ChannelInv'
  <2>1. \A k \in 1 .. n - 1 : EndOf(channel', k) = EndOf(channel, k + 1) /\ k + 1 \in 1 .. n
    BY <1>1 DEF EndOf
  <2>2. \A k \in 1 .. n - 1 :
          /\ 1 <= Len(channel'[k]) /\ Len(channel'[k]) <= BatchLines
          /\ Row(channel'[k], channel'[k][1] - 1) /\ EndOf(channel', k) <= Sent' + 1
    BY <1>1, <1>3, <2>1 DEF IInv, ChannelInv
  <2>3. \A k \in 1 .. n - 2 : channel'[k + 1][1] = EndOf(channel', k)
    <3> SUFFICES ASSUME NEW k \in 1 .. n - 2 PROVE channel'[k + 1][1] = EndOf(channel', k)
      OBVIOUS
    <3>1. k + 1 \in 1 .. n - 1 /\ k \in 1 .. n - 1
      BY <1>1
    <3>2. channel'[k + 1] = channel[k + 1 + 1] /\ EndOf(channel', k) = EndOf(channel, k + 1)
      BY <1>1, <2>1, <3>1
    <3> QED BY <3>1, <3>2 DEF IInv, ChannelInv
  <2>4. channel' # <<>> =>
          channel'[1][1] = Len(stdout) + Len(block) + 1 /\ EndOf(channel', n - 1) = Sent' + 1
    <3> SUFFICES ASSUME channel' # <<>>
                 PROVE  channel'[1][1] = Len(stdout) + Len(block) + 1 /\ EndOf(channel', n - 1) = Sent' + 1
      OBVIOUS
    <3>1. n - 1 >= 1
      BY <1>1, EmptySeq
    <3>2. channel'[1] = channel[2] /\ channel[2][1] = EndOf(channel, 1)
      BY <1>1, <3>1 DEF IInv, ChannelInv
    <3>3. EndOf(channel', n - 1) = EndOf(channel, n)
      BY <1>1, <2>1, <3>1
    <3> QED BY <1>3, <1>6, <3>2, <3>3 DEF IInv, ChannelInv
  <2>5. Len(channel') <= Capacity
    BY <1>1, Limits DEF IInv, ChannelInv
  <2>6. Len(channel') - 1 = n - 2
    BY <1>1
  <2> QED BY <1>1, <1>2, <2>2, <2>3, <2>4, <2>5, <2>6 DEF ChannelInv
<1>9. EndInv'
  BY DEF IInv, EndInv, Ended, compute
<1> QED BY <1>3, <1>4, <1>7, <1>8, <1>9 DEF IInv

LEMMA WriteBlockStep == IInv /\ WriteBlock => IInv'
<1> SUFFICES ASSUME IInv, WriteBlock PROVE IInv'
  OBVIOUS
<1> USE DEF WriteBlock
<1> DEFINE n == Len(stdout)
<1>1. /\ n \in Nat /\ Len(writing) \in Nat /\ Len(writing) >= 1
      /\ writing' \in Seq(1 .. Len(input)) /\ Len(writing') = Len(writing) - 1
      /\ \A i \in 1 .. Len(writing') : writing'[i] = writing[i + 1]
  BY HeadTailProperties, EmptySeq DEF IInv, TypeOK
<1>2. Head(writing) = n + 1 /\ Head(writing) \in 0 .. Len(input)
  <2>1. 1 \in 1 .. Len(writing) /\ writing[1] = n + 1
    BY <1>1 DEF IInv, WriterInv, Row
  <2>2. Head(writing) = writing[1]
    OBVIOUS
  <2> QED BY <2>1, <2>2, InputType DEF IInv, TypeOK
<1>3. /\ stdout' \in Seq(0 .. Len(input)) /\ Len(stdout') = n + 1
      /\ stdout'[n + 1] = n + 1 /\ \A i \in 1 .. n : stdout'[i] = stdout[i]
  BY <1>2, AppendProperties DEF IInv, TypeOK
<1>4. Sent' = Sent /\ BatchInv' /\ PoolInv'
  BY ComputeFrame
<1>5. TypeOK'
  BY <1>1, <1>3 DEF IInv, TypeOK, compute, pool
<1>6. Len(stdout') + Len(writing') = Len(stdout) + Len(writing)
  BY <1>1, <1>3
<1>7. ChannelInv'
  BY <1>4, <1>6 DEF IInv, ChannelInv
<1>8. WriterInv'
  <2>1. Row(stdout', 0)
    BY <1>1, <1>3 DEF IInv, WriterInv, Row
  <2>2. Row(writing', Len(stdout'))
    BY <1>1, <1>3 DEF IInv, WriterInv, Row
  <2>3. Len(writing') <= BatchLines
    BY <1>1, Limits DEF IInv, WriterInv
  <2> QED BY <1>4, <1>6, <2>1, <2>2, <2>3 DEF IInv, WriterInv
<1>9. EndInv'
  BY DEF IInv, EndInv, Ended, compute
<1> QED BY <1>4, <1>5, <1>7, <1>8, <1>9 DEF IInv

LEMMA WriteNewlineStep == IInv /\ WriteNewline => IInv'
<1> SUFFICES ASSUME IInv, WriteNewline PROVE IInv'
  OBVIOUS
<1> USE DEF WriteNewline
<1> DEFINE n == Len(stdout)
<1>1. n \in Nat /\ Len(writing) = 0 /\ n = Sent
  <2>1. Len(writing) = 0
    OBVIOUS
  <2> QED BY <2>1 DEF IInv, TypeOK, WriterInv, ChannelClosed
<1>2. /\ stdout' \in Seq(0 .. Len(input)) /\ Len(stdout') = n + 1
      /\ stdout'[n + 1] = Serial!Newline /\ \A i \in 1 .. n : stdout'[i] = stdout[i]
  BY AppendProperties, InputType DEF IInv, TypeOK, Serial!Newline
<1>3. Sent' = Sent /\ BatchInv' /\ PoolInv'
  BY ComputeFrame
<1>4. TypeOK'
  BY <1>2 DEF IInv, TypeOK, compute, pool
<1>5. ChannelInv'
  BY <1>1, Limits DEF ChannelInv, ChannelClosed
<1>6. WriterInv'
  BY <1>1, <1>2, <1>3, Limits DEF IInv, WriterInv, Row, ChannelClosed, compute
<1>7. EndInv'
  BY DEF IInv, EndInv, Ended, ChannelClosed, compute
<1> QED BY <1>3, <1>4, <1>5, <1>6, <1>7 DEF IInv

LEMMA WriteFailsStep == IInv /\ WriteFails => IInv'
<1> SUFFICES ASSUME IInv, WriteFails PROVE IInv'
  OBVIOUS
<1> USE DEF WriteFails
<1>1. Len(writing') = 0 /\ Len(channel') = 0
  OBVIOUS
<1>2. Sent' = Sent /\ BatchInv' /\ PoolInv'
  BY ComputeFrame
<1>3. TypeOK'
  BY EmptySeq DEF IInv, TypeOK, compute, pool
<1>4. ChannelInv'
  BY <1>1, Limits DEF ChannelInv
<1>5. WriterInv'
  BY <1>1, <1>2, Limits, SentType DEF IInv, TypeOK, WriterInv, Row
<1>6. EndInv'
  BY DEF IInv, EndInv, Ended, compute
<1> QED BY <1>2, <1>3, <1>4, <1>5, <1>6 DEF IInv

LEMMA Step == IInv /\ [Next]_vars => IInv'
<1> SUFFICES ASSUME IInv, [Next]_vars PROVE IInv'
  OBVIOUS
<1>1. CASE Compute
  BY <1>1, ReadLineStep, ReadFailsStep, StartMapStep, EndOfInputStep, EndMapStep, SendStep,
     SendFailsStep, JoinStep DEF Compute
<1>2. CASE \E w \in Workers : Worker(w)
  BY <1>2, TakeLineStep, FinishLineStep DEF Worker
<1>3. CASE Writer
  BY <1>3, ReceiveStep, WriteBlockStep, WriteNewlineStep DEF Writer
<1>4. CASE UNCHANGED vars
  <2>1. BatchInv' /\ PoolInv' /\ ChannelInv' /\ WriterInv'
    <3>1. PoolInv' /\ Sent' = Sent
      BY <1>4 DEF IInv, PoolInv, Sent, vars, compute, pool, output
    <3>2. BatchInv' /\ WriterInv'
      BY <1>4, <3>1 DEF IInv, BatchInv, WriterInv, Row, vars, compute, pool, output
    <3>3. ChannelInv'
      BY <1>4, <3>1 DEF IInv, ChannelInv, EndOf, Row, vars, compute, pool, output
    <3> QED BY <3>1, <3>2, <3>3
  <2>2. TypeOK'
    BY <1>4 DEF IInv, TypeOK, vars, compute, pool, output
  <2>3. EndInv'
    BY <1>4 DEF IInv, EndInv, Ended, vars, compute, pool, output
  <2> QED BY <1>4, <2>1, <2>2, <2>3 DEF IInv, vars
<1> QED BY <1>1, <1>2, <1>3, <1>4, WriteFailsStep DEF Next, Exited

LEMMA Invariant == Spec => []IInv
BY Start, Step, PTL DEF Spec

-----------------------------------------------------------------------------
(* What it means for the properties                                        *)

(* The end is a success only when every line was good and sent.            *)
LEMMA Success == IInv /\ status = "ok" => writer = "done" /\ AllGood /\ Sent = Len(input)
<1> SUFFICES ASSUME IInv, status = "ok" PROVE writer = "done" /\ AllGood /\ Sent = Len(input)
  OBVIOUS
<1>1. writer = "done" /\ ~failed /\ pc = "joined"
  BY DEF IInv, EndInv
<1>2. Ended /\ batch = <<>>
  BY <1>1 DEF IInv, EndInv
<1>3. Sent = Len(input)
  BY <1>2, NoneLeft, SentType DEF Ended
<1>4. AllGood
  BY <1>3, InputType DEF IInv, BatchInv, AllGood
<1> QED BY <1>1, <1>3, <1>4

(* Every variable of the pipeline keeps its type: no worker is at a line   *)
(* outside the batch, and nothing but whole blocks reaches the channel.    *)
THEOREM PipelineTypeCorrect == Spec => []TypeOK
<1>1. IInv => TypeOK
  BY DEF IInv
<1> QED BY <1>1, Invariant, PTL

(* Whatever the writer's delays, what is in memory stays bounded by the    *)
(* batch at work, the full channel and the batch being written.            *)
THEOREM MemoryStaysBounded == Spec => []MemoryBounded
<1>1. ASSUME IInv PROVE MemoryBounded
  <2>1. /\ Len(batch) \in Nat /\ Len(writing) \in Nat /\ Len(channel) \in Nat
        /\ Len(batch) <= BatchLines /\ Len(writing) <= BatchLines /\ Len(channel) <= Capacity
    BY <1>1 DEF IInv, TypeOK, BatchInv, WriterInv, ChannelInv
  <2>2. \A a, b, c \in Nat : b <= c => a * b <= c * a /\ a * b \in Nat /\ c * a \in Nat
    OBVIOUS
  <2>3. BatchLines * Len(channel) <= Capacity * BatchLines
    BY <2>1, <2>2, Limits
  <2>4. (Capacity + 2) * BatchLines = Capacity * BatchLines + BatchLines + BatchLines
    BY Limits
  <2>5. BatchLines * Len(channel) \in Nat /\ Capacity * BatchLines \in Nat
    BY <2>1, <2>2, Limits
  <2> DEFINE held == BatchLines * Len(channel)
             room == Capacity * BatchLines
  <2>6. Len(batch) + Len(writing) + held <= room + BatchLines + BatchLines
    <3>1. held <= room /\ held \in Nat /\ room \in Nat
      BY <2>3, <2>5
    <3> HIDE DEF held, room
    <3> QED BY <2>1, <3>1, Limits
  <2> QED BY <2>4, <2>6 DEF MemoryBounded
<1> QED BY <1>1, Invariant, PTL

(* The blocks come out in the order of their lines whichever worker ends   *)
(* first, a success means that all are out, and an error that a line or a  *)
(* write failed.                                                           *)
THEOREM OutputAlwaysInOrder == Spec => []OutputInOrder
<1>1. ASSUME IInv PROVE OutputInOrder
  <2>1. stdout \in Seq(0 .. Len(input)) /\ DOMAIN stdout = 1 .. Len(stdout) /\ Len(stdout) \in Nat
    BY <1>1 DEF IInv, TypeOK
  <2>2. \A i \in DOMAIN stdout : stdout[i] = i \/ (i = Len(stdout) /\ stdout[i] = Serial!Newline)
    BY <1>1, <2>1, SentType DEF IInv, WriterInv, Row
  <2>3. ASSUME status = "ok" PROVE stdout = Serial!Written(input)
    <3>1. writer = "done" /\ AllGood /\ Sent = Len(input)
      BY <1>1, <2>3, Success
    <3> DEFINE blocksOf == [i \in DOMAIN input |-> i]
               all == Append(blocksOf, Serial!Newline)
    <3>2. Serial!Written(input) = all
      BY <3>1 DEF Serial!Written, AllGood
    <3>3. /\ blocksOf \in Seq(0 .. Len(input)) /\ Len(blocksOf) = Len(input)
          /\ \A i \in 1 .. Len(input) : blocksOf[i] = i
      BY <1>1, InputType
    <3>4. /\ all \in Seq(0 .. Len(input)) /\ Len(all) = Len(input) + 1
          /\ all[Len(input) + 1] = Serial!Newline
          /\ \A i \in 1 .. Len(input) : all[i] = i
      <4> HIDE DEF blocksOf
      <4>1. Serial!Newline \in 0 .. Len(input)
        BY <1>1, InputType DEF Serial!Newline
      <4> QED BY <3>3, <4>1, AppendProperties
    <3>5. /\ Len(stdout) = Len(input) + 1 /\ stdout[Len(input) + 1] = Serial!Newline
          /\ \A i \in 1 .. Len(input) : stdout[i] = i
      BY <1>1, <3>1 DEF IInv, WriterInv
    <3> HIDE DEF all
    <3>6. stdout = all
      <4>1. Len(stdout) = Len(all) /\ \A i \in 1 .. Len(stdout) : stdout[i] = all[i]
        BY <1>1, <3>4, <3>5, InputType
      <4>2. stdout \in Seq(0 .. Len(input)) /\ all \in Seq(0 .. Len(input))
        BY <2>1, <3>4
      <4> QED BY ONLY <4>1, <4>2, SeqEqual
    <3> QED BY <3>2, <3>6
  <2>4. status = "error" => writer = "broken" \/ \E i \in DOMAIN input : input[i] # "good"
    BY <1>1 DEF IInv, EndInv, BatchInv
  <2> QED BY <2>2, <2>3, <2>4 DEF OutputInOrder
<1> QED BY <1>1, Invariant, PTL

-----------------------------------------------------------------------------
(* The single-threaded loop                                                *)

(* The writer writes the block of the line that comes next.                *)
LEMMA NextBlock ==
  ASSUME IInv, WriteBlock
  PROVE  Head(writing) = Len(stdout) + 1 /\ Len(stdout) < Len(input)
<1>1. Len(stdout) \in Nat /\ Len(writing) \in Nat /\ Len(writing) >= 1
  BY EmptySeq DEF IInv, TypeOK, WriteBlock
<1>2. writing[1] = Len(stdout) + 1
  BY <1>1 DEF IInv, WriterInv, Row
<1>3. Head(writing) = writing[1]
  BY DEF WriteBlock
<1>4. Len(stdout) + Len(writing) <= Sent
  BY DEF IInv, WriterInv, WriteBlock
<1> QED BY <1>1, <1>2, <1>3, <1>4, SentType, InputType

LEMMA NewlineAtEnd ==
  ASSUME IInv, WriteNewline, AllGood
  PROVE  Len(stdout) = Len(input)
<1>1. pc = "close" /\ channel = <<>> /\ writing = <<>> /\ writer = "on" /\ ~failed
  BY DEF WriteNewline, ChannelClosed, IInv, BatchInv, AllGood
<1>2. Ended /\ batch = <<>>
  BY <1>1 DEF IInv, EndInv
<1>3. Len(writing) = 0 /\ Len(batch) = 0
  BY <1>1, <1>2, NoneLeft
<1>4. Len(stdout) = Sent
  BY <1>1, <1>3 DEF IInv, TypeOK, WriterInv
<1> QED BY <1>2, <1>3, <1>4, SentType DEF Ended

LEMMA JoinAtEnd ==
  ASSUME IInv, Join, IInv'
  PROVE  status' = "error" \/ (status' = "ok" /\ AllGood /\ Len(stdout) = Len(input) + 1)
<1>1. input' = input /\ stdout' = stdout /\ status' \in {"ok", "error"}
  BY DEF Join, output
<1>2. SUFFICES ASSUME status' = "ok" PROVE AllGood /\ Len(stdout) = Len(input) + 1
  BY <1>1
<1>3. (writer = "done" /\ AllGood /\ Sent = Len(input))'
  <2>1. (IInv /\ status = "ok" => writer = "done" /\ AllGood /\ Sent = Len(input))'
    BY Success, PTL
  <2> QED BY <1>2, <2>1
<1>4. Len(stdout') = Len(input') + 1
  BY <1>3 DEF IInv, WriterInv
<1>5. AllGood
  BY <1>1, <1>3 DEF AllGood
<1> QED BY <1>1, <1>4, <1>5

(* Every step of the pipeline is a step of the single-threaded loop or one *)
(* that nobody sees.                                                       *)
LEMMA StepImplements == IInv /\ IInv' /\ [Next]_vars => [Promised!Next]_(Promised!vars)
<1> SUFFICES ASSUME IInv, IInv', [Next]_vars PROVE [Promised!Next]_(Promised!vars)
  OBVIOUS
<1> USE DEF Promised!vars, Promised!Next
<1>1. ASSUME UNCHANGED <<input, stdout, status>> PROVE [Promised!Next]_(Promised!vars)
  BY <1>1 DEF AllGood
<1>2. CASE Compute
  <2>1. CASE Join
    <3>1. status = "running" /\ input' = input /\ stdout' = stdout /\ AllGood' = AllGood
      BY <2>1 DEF IInv, EndInv, Join, output, AllGood
    <3>2. CASE status' = "error"
      BY <3>1, <3>2 DEF Promised!WriteFails
    <3>3. CASE status' = "ok" /\ AllGood /\ Len(stdout) = Len(input) + 1
      BY <3>1, <3>3 DEF Promised!Exit
    <3> QED BY <2>1, <3>2, <3>3, JoinAtEnd
  <2>2. CASE ~Join
    <3>1. UNCHANGED <<input, stdout, status>>
      BY <1>2, <2>2 DEF Compute, ReadLine, ReadFails, StartMap, EndOfInput, EndMap, Send,
         SendFails, output
    <3> QED BY <1>1, <3>1
  <2> QED BY <2>1, <2>2
<1>3. CASE \E w \in Workers : Worker(w)
  <2>1. UNCHANGED <<input, stdout, status>>
    BY <1>3 DEF Worker, TakeLine, FinishLine, output
  <2> QED BY <1>1, <2>1
<1>4. CASE Receive \/ WriteFails \/ Exited \/ UNCHANGED vars
  <2>1. UNCHANGED <<input, stdout, status>>
    BY <1>4 DEF Receive, WriteFails, Exited, vars, output
  <2> QED BY <1>1, <2>1
<1>5. CASE WriteBlock \/ WriteNewline
  <2>1. status = "running" /\ UNCHANGED <<input, status>> /\ AllGood' = AllGood
    BY <1>5 DEF IInv, EndInv, TypeOK, WriterInv, WriteBlock, WriteNewline, ChannelClosed, AllGood
  <2>2. CASE ~AllGood
    BY <2>1, <2>2
  <2>3. CASE AllGood /\ WriteBlock
    <3>1. input[Len(stdout) + 1] = "good"
      <4>1. Len(stdout) \in Nat /\ Len(stdout) < Len(input)
        BY <2>3, NextBlock DEF IInv, TypeOK
      <4>2. Len(stdout) + 1 \in DOMAIN input
        BY <4>1, InputType
      <4> QED BY <2>3, <4>2 DEF AllGood
    <3>2. stdout' = Append(stdout, Len(stdout) + 1)
      BY <2>3, NextBlock DEF WriteBlock
    <3> QED BY <2>1, <2>3, <3>1, <3>2, NextBlock DEF Promised!WriteLine
  <2>4. CASE AllGood /\ WriteNewline
    BY <2>1, <2>4, NewlineAtEnd DEF WriteNewline, Promised!WriteNewline, Promised!Newline, Serial!Newline
  <2> QED BY <1>5, <2>2, <2>3, <2>4
<1> QED BY <1>2, <1>3, <1>4, <1>5 DEF Next, Writer

(* The safety of ImplementsSerial: the pipeline starts as the              *)
(* single-threaded loop does and shows only its steps, whatever the pool's *)
(* order of work and the writer's delays.                                  *)
THEOREM ShowsOnlySerialSteps == Spec => Promised!Init /\ [][Promised!Next]_(Promised!vars)
<1>1. Init => Promised!Init
  BY DEF Init, Serial!Init, Promised!Init
<1>2. IInv /\ IInv' /\ [Next]_vars => [Promised!Next]_(Promised!vars)
  BY StepImplements
<1> QED BY <1>1, <1>2, Invariant, PTL DEF Spec

-----------------------------------------------------------------------------
(* Options                                                                 *)

LEMMA OrderOfOptions ==
  /\ Len(Order) = 6
  /\ Order[1] = "aggl" /\ Order[2] = "praet" /\ Order[3] = "case_handling"
  /\ Order[4] = "token_numbering" /\ Order[5] = "whitespace" /\ Order[6] = "debug"
BY DEF Order

LEMMA FilesHaveMetadata ==
  /\ \A f \in Files : FileMetadata[f] \in Metadata
  /\ NoFile \notin Files
BY JsonServiceAssumption

LEMMA LexiconMetadatas ==
  ASSUME NEW lexicon \in Lexicon
  PROVE  \A md \in Metadatas(lexicon) : md \in Metadata
BY FilesHaveMetadata DEF Lexicon, FilesOrNone, Metadatas

(* What validate_segmentation_options accepts has an automaton.            *)
LEMMA ValidSelects ==
  ASSUME NEW md \in Metadata, NEW p \in Preset, NEW option \in Settable, Valid(md, p, option)
  PROVE  Selects(md, p)
BY DEF Selects, Valid, VariantFor

(* There is an option at which apply_options stops, or the end.            *)
LEMMA TakenAccepted ==
  ASSUME NEW r, NEW options
  PROVE  /\ Taken(r, options) \in 0 .. 6
         /\ \A i \in 1 .. Taken(r, options) : Accepted(r, options, i)
<1> DEFINE A(i) == Accepted(r, options, i)
           P(k) == (\A i \in 1 .. k : A(i)) /\ (k < 6 => ~A(k + 1))
<1> HIDE DEF A
<1>1. \E k \in 0 .. 6 : P(k)
  <2>1. P(0) \/ P(1) \/ P(2) \/ P(3) \/ P(4) \/ P(5) \/ P(6)
    <3>1. \A i \in 1 .. 6 : i = 1 \/ i = 2 \/ i = 3 \/ i = 4 \/ i = 5 \/ i = 6
      OBVIOUS
    <3> QED  BY <3>1
  <2> QED  BY <2>1
<1>2. Taken(r, options) = CHOOSE k \in 0 .. 6 : P(k)
  BY OrderOfOptions DEF Taken, A
<1>3. Taken(r, options) \in 0 .. 6 /\ P(Taken(r, options))
  BY <1>1, <1>2
<1> QED  BY <1>3 DEF A

(* What has been taken of a request's options are allowed values.          *)
LEMMA TakenAllowed ==
  ASSUME NEW r, r.config \in Config, NEW options, NEW k \in 0 .. Taken(r, options)
  PROVE  With(r.config, options, k) \in Config
<1>1. k \in 0 .. 6 /\ Taken(r, options) \in 0 .. 6
  BY TakenAccepted
<1>2. \A i \in 1 .. k : Order[i] \in DOMAIN options => options[Order[i]] \in Allowed[Order[i]]
  BY <1>1, TakenAccepted DEF Accepted
<1>3. \A o : o \in DOMAIN options /\ (\E i \in 1 .. k : Order[i] = o) => options[o] \in Allowed[o]
  BY <1>2
<1>4. /\ Allowed["aggl"] = Allowed.aggl /\ Allowed["praet"] = Allowed.praet
      /\ Allowed["case_handling"] = Allowed.case_handling
      /\ Allowed["token_numbering"] = Allowed.token_numbering
      /\ Allowed["whitespace"] = Allowed.whitespace /\ Allowed["debug"] = BOOLEAN
  BY DEF Allowed
<1> QED  BY <1>3, <1>4 DEF With, Config

(* And each of the dictionaries has an automaton for them.                 *)
LEMMA TakenSelects ==
  ASSUME NEW r, r.config \in Config, r.lexicon \in Lexicon,
         \A md \in Metadatas(r.lexicon) : Selects(md, PresetOf(r.config)),
         NEW options, NEW k \in 0 .. Taken(r, options), NEW md \in Metadatas(r.lexicon)
  PROVE  Selects(md, PresetOf(With(r.config, options, k)))
<1> DEFINE W(i) == With(r.config, options, i)
<1>1. k \in 0 .. 6 /\ \A i \in 1 .. k : Accepted(r, options, i)
  BY TakenAccepted
<1>2. md \in Metadata /\ \A i \in 0 .. k : PresetOf(W(i)) \in Preset
  <2>1. \A i \in 0 .. k : i \in 0 .. Taken(r, options)
    BY TakenAccepted
  <2>2. \A i \in 0 .. k : W(i) \in Config
    BY <2>1, TakenAllowed
  <2>3. \A c \in Config : PresetOf(c) \in Preset
    BY DEF PresetOf, Config, Preset, Allowed
  <2> QED  BY <2>2, <2>3, LexiconMetadatas
<1>3. \A i \in 1 .. k : Order[i] \in DOMAIN options \cap Settable => Selects(md, PresetOf(W(i)))
  BY <1>1, <1>2, ValidSelects DEF Accepted
<1>4. PresetOf(W(0)) = PresetOf(r.config)
  BY DEF With, PresetOf
<1>5. k >= 1 /\ "aggl" \notin DOMAIN options => PresetOf(W(1)) = PresetOf(W(0))
  BY OrderOfOptions DEF With, PresetOf
<1>6. k >= 2 /\ "praet" \notin DOMAIN options => PresetOf(W(2)) = PresetOf(W(1))
  BY OrderOfOptions DEF With, PresetOf
<1>7. k > 2 => PresetOf(W(k)) = PresetOf(W(2))
  <2> SUFFICES ASSUME k > 2 PROVE PresetOf(W(k)) = PresetOf(W(2))
    OBVIOUS
  <2>1. /\ \E i \in 1 .. k : Order[i] = "aggl"
        /\ \E i \in 1 .. 2 : Order[i] = "aggl"
        /\ \E i \in 1 .. k : Order[i] = "praet"
        /\ \E i \in 1 .. 2 : Order[i] = "praet"
    BY <1>1, OrderOfOptions
  <2> QED  BY <2>1 DEF With, PresetOf
<1> HIDE DEF W
<1>8. Selects(md, PresetOf(W(0)))
  BY <1>4
<1>9. k >= 1 => Selects(md, PresetOf(W(1)))
  BY <1>1, <1>3, <1>5, <1>8, OrderOfOptions DEF Settable
<1>10. k >= 2 => Selects(md, PresetOf(W(2)))
  BY <1>1, <1>3, <1>6, <1>9, OrderOfOptions DEF Settable
<1>11. k = 0 \/ k = 1 \/ k = 2 \/ k > 2
  BY <1>1
<1>12. Selects(md, PresetOf(W(k)))
  BY <1>7, <1>8, <1>9, <1>10, <1>11
<1> QED  BY <1>12 DEF W

-----------------------------------------------------------------------------
(* Runtimes                                                                *)

(* A runtime with options that its dictionaries serve.                     *)
Good(r) == r \in Runtime /\ \A md \in Metadatas(r.lexicon) : Selects(md, PresetOf(r.config))

LEMMA RuntimeParts ==
  ASSUME NEW r \in Runtime
  PROVE  /\ r.kind \in {"engine", "morfeusz"} /\ r.lexicon \in Lexicon /\ r.usage \in Usages
         /\ r.config \in Config /\ r.next_node \in Nat
BY DEF Runtime

(* apply_options keeps to what the dictionary serves, refused or not.      *)
LEMMA AppliedGood ==
  ASSUME NEW r, Good(r), NEW options
  PROVE  Good(Applied(r, options))
<1> DEFINE t == Taken(r, options)
           c == With(r.config, options, t)
<1>1. /\ r \in Runtime /\ r.config \in Config /\ r.lexicon \in Lexicon
      /\ t \in 0 .. t
  BY RuntimeParts, TakenAccepted DEF Good
<1>2. c \in Config /\ \A md \in Metadatas(r.lexicon) : Selects(md, PresetOf(c))
  BY <1>1, TakenAllowed, TakenSelects DEF Good
<1>3. Applied(r, options) = r \/ Applied(r, options) = Restarted(r, c)
  BY DEF Applied
<1> HIDE DEF c
<1>4. /\ Restarted(r, c) \in Runtime /\ Restarted(r, c).lexicon = r.lexicon
      /\ Restarted(r, c).config = c
  BY <1>1, <1>2 DEF Restarted, Runtime
<1> QED  BY <1>2, <1>3, <1>4 DEF Good

LEMMA DefaultServed ==
  /\ DefaultConfig \in Config
  /\ \A c \in Config : [c EXCEPT !.aggl = NotSet, !.praet = NotSet] \in Config
  /\ \A f \in Files : Selects(FileMetadata[f], NothingSet)
<1>1. /\ "conditional" \in Allowed.case_handling /\ "separate" \in Allowed.token_numbering
      /\ "skip" \in Allowed.whitespace
  BY DEF Allowed
<1>2. DefaultConfig \in Config
  BY <1>1 DEF DefaultConfig, Config
<1>3. \A c \in Config : [c EXCEPT !.aggl = NotSet, !.praet = NotSet] \in Config
  BY DEF Config
<1> QED  BY <1>2, <1>3, DefaultVariantAssumption

(* A dictionary just loaded serves its own defaults.                       *)
LEMMA SwitchedGood ==
  ASSUME NEW r \in Runtime, NEW a \in FilesOrNone, NEW g \in FilesOrNone, NEW usage \in Usages
  PROVE  Good(Switched(r, a, g, usage))
<1> DEFINE s == Switched(r, a, g, usage)
<1>1. /\ ConfigForSwitch(r) \in Config
      /\ PresetOf(ConfigForSwitch(r)) = NothingSet
  BY RuntimeParts, DefaultServed DEF ConfigForSwitch, PresetOf, NothingSet, DefaultConfig, Config
<1>2. s \in Runtime /\ s.config = ConfigForSwitch(r)
      /\ s.lexicon = [analyzer |-> a, generator |-> g]
  BY <1>1 DEF Switched, Runtime, Lexicon
<1>3. \A md \in Metadatas(s.lexicon) : \E f \in Files : md = FileMetadata[f]
  BY <1>2 DEF Metadatas, FilesOrNone
<1> HIDE DEF s
<1>4. Good(s)
  BY <1>1, <1>2, <1>3, DefaultServed DEF Good
<1> QED  BY <1>4 DEF s

LEMMA EngineGood == Good(EngineRuntime)
<1>1. Metadatas(InMemory) = {} /\ InMemory \in Lexicon
  BY DEF Metadatas, InMemory, Lexicon, FilesOrNone
<1>2. EngineRuntime \in Runtime /\ EngineRuntime.lexicon = InMemory
  BY <1>1, DefaultServed DEF EngineRuntime, Runtime, Usages
<1> QED  BY <1>1, <1>2 DEF Good

LEMMA LoadedGood ==
  ASSUME NEW r \in Runtime
  PROVE  /\ \A readable \in BOOLEAN : \A l \in LoadText(r, readable) : Good(l)
         /\ \A path \in PathChoices : \A l \in LoadPath(r, path) : Good(l)
         /\ \A pair \in Pairs : \A l \in LoadNamed(r, pair) : Good(l)
<1>1. ASSUME NEW readable \in BOOLEAN, NEW l \in LoadText(r, readable) PROVE Good(l)
  <2>1. l = [r EXCEPT !.lexicon = InMemory, !.next_node = 0]
    BY <1>1 DEF LoadText
  <2>2. Metadatas(InMemory) = {} /\ InMemory \in Lexicon
    BY DEF Metadatas, InMemory, Lexicon, FilesOrNone
  <2>3. l \in Runtime /\ l.lexicon = InMemory
    BY <2>1, <2>2 DEF Runtime
  <2> QED  BY <2>2, <2>3 DEF Good
<1>2. ASSUME NEW path \in PathChoices, NEW l \in LoadPath(r, path) PROVE Good(l)
  <2>1. path.file \in FilesOrNone /\ NoFile \in FilesOrNone
    BY <1>2, JsonServiceAssumption DEF FilesOrNone
  <2>2. l = Switched(r, NoFile, path.file, "generate") \/ l = Switched(r, path.file, NoFile, "analyse")
    BY <1>2 DEF LoadPath
  <2> QED  BY <2>1, <2>2, SwitchedGood DEF Usages
<1>3. ASSUME NEW pair \in Pairs, NEW l \in LoadNamed(r, pair) PROVE Good(l)
  <2>1. pair.analyzer \in FilesOrNone /\ pair.generator \in FilesOrNone /\ NoFile \in FilesOrNone
    BY <1>3, JsonServiceAssumption DEF FilesOrNone
  <2>2. \E a, g \in FilesOrNone : l = Switched(r, a, g, r.usage)
    BY <1>3, <2>1 DEF LoadNamed
  <2> QED  BY <2>2, SwitchedGood, RuntimeParts
<1> QED  BY <1>1, <1>2, <1>3

-----------------------------------------------------------------------------
(* What a client may expect of the numbering                               *)

Followed == expected \in {Unsure, runtime.next_node}

(* A request that disturbs nothing changes nothing but by its analysis.    *)
LEMMA UndisturbedKept ==
  ASSUME runtime \in Runtime, NEW options, Undisturbed(options)
  PROVE  Applied(runtime, options) = runtime
<1>1. CASE options = NoOptions
  <2>1. DOMAIN options = {}
    BY <1>1 DEF NoOptions
  <2>2. \A k : With(runtime.config, options, k) = runtime.config
    BY <2>1, RuntimeParts DEF With, Config
  <2> QED  BY <2>1, <2>2 DEF Applied
<1>2. CASE runtime.kind = "engine" /\ \A o \in DOMAIN options : options[o] = runtime.config[o]
  <2>1. /\ runtime.config["aggl"] = runtime.config.aggl
        /\ runtime.config["praet"] = runtime.config.praet
        /\ runtime.config["case_handling"] = runtime.config.case_handling
        /\ runtime.config["token_numbering"] = runtime.config.token_numbering
        /\ runtime.config["whitespace"] = runtime.config.whitespace
        /\ runtime.config["debug"] = runtime.config.debug
    OBVIOUS
  <2>2. \A k : With(runtime.config, options, k) = runtime.config
    BY <1>2, <2>1, RuntimeParts DEF With, Config
  <2> QED  BY <1>2, <2>2 DEF Applied
<1> QED  BY <1>1, <1>2 DEF Undisturbed

-----------------------------------------------------------------------------
(* What becomes of a request's options                                     *)

LEMMA WithAt ==
  ASSUME NEW config \in Config, NEW options, NEW k, NEW o \in DOMAIN DefaultConfig
  PROVE  With(config, options, k)[o] =
           IF o \in DOMAIN options /\ \E i \in 1 .. k : Order[i] = o THEN options[o] ELSE config[o]
<1>1. o \in {"aggl", "praet", "case_handling", "token_numbering", "whitespace", "debug"}
  BY DEF DefaultConfig
<1> QED  BY <1>1 DEF With, Config

LEMMA OptionsOrdered ==
  /\ ToSet(Order) = DOMAIN DefaultConfig
  /\ \A o \in DOMAIN DefaultConfig : \E i \in 1 .. 6 : Order[i] = o
<1>1. ToSet(Order) = { Order[i] : i \in 1 .. 6 }
  BY DEF ToSet, Order
<1>2. DOMAIN DefaultConfig =
        {"aggl", "praet", "case_handling", "token_numbering", "whitespace", "debug"}
  BY DEF DefaultConfig
<1>3. { Order[i] : i \in 1 .. 6 } = {Order[1], Order[2], Order[3], Order[4], Order[5], Order[6]}
  OBVIOUS
<1> QED  BY <1>1, <1>2, <1>3, OrderOfOptions

LEMMA AppliedAsks ==
  ASSUME NEW r, Good(r), NEW options \in OptionChoices
  PROVE  /\ \A o \in DOMAIN DefaultConfig :
              \/ o \in DOMAIN options /\ Applied(r, options).config[o] = options[o]
              \/ Applied(r, options).config[o] = r.config[o]
         /\ AllTaken(r, options) =>
              \A o \in DOMAIN options : Applied(r, options).config[o] = options[o]
         /\ Applied(r, options).lexicon = r.lexicon /\ Applied(r, options).kind = r.kind
<1> DEFINE t == Taken(r, options)
           c == With(r.config, options, t)
           D == DOMAIN DefaultConfig
<1>1. r \in Runtime /\ r.config \in Config /\ t \in 0 .. 6 /\ DOMAIN options \subseteq D
  BY RuntimeParts, TakenAccepted, OptionsOrdered, JsonServiceAssumption DEF Good
<1>2. \A o \in D : c[o] = IF o \in DOMAIN options /\ \E i \in 1 .. t : Order[i] = o
                         THEN options[o] ELSE r.config[o]
  BY <1>1, WithAt
<1>3. AllTaken(r, options) => \A o \in DOMAIN options : c[o] = options[o]
  BY <1>1, <1>2, OptionsOrdered, OrderOfOptions DEF AllTaken
<1>4. \/ Applied(r, options) = Restarted(r, c)
      \/ /\ Applied(r, options) = r
         /\ AllTaken(r, options) => c = r.config \/ DOMAIN options = {}
  <2>1. AllTaken(r, options) /\ (\A i \in 1 .. t : Order[i] \notin DOMAIN options) => DOMAIN options = {}
    BY <1>1, OptionsOrdered, OrderOfOptions DEF AllTaken
  <2> HIDE DEF c
  <2>2. r.kind = "engine" \/ r.kind = "morfeusz"
    BY <1>1, RuntimeParts
  <2> QED  BY <2>1, <2>2 DEF Applied, c
<1> HIDE DEF c, D
<1>5. /\ Restarted(r, c).config = c /\ Restarted(r, c).lexicon = r.lexicon
      /\ Restarted(r, c).kind = r.kind
  BY <1>1 DEF Restarted, Runtime
<1>6. \A o \in D : c[o] = r.config[o] \/ (o \in DOMAIN options /\ c[o] = options[o])
  BY <1>2
<1> QED  BY <1>3, <1>4, <1>5, <1>6 DEF D

(* What a switch of dictionaries does to the options.                      *)
LEMMA LoadedKeeps ==
  ASSUME NEW r \in Runtime
  PROVE  /\ \A readable \in BOOLEAN : \A l \in LoadText(r, readable) : l.config = r.config
         /\ \A path \in PathChoices : \A l \in LoadPath(r, path) : l.config = ConfigForSwitch(r)
         /\ \A pair \in Pairs : \A l \in LoadNamed(r, pair) : l.config = ConfigForSwitch(r)
         /\ \A o \in DOMAIN DefaultConfig :
              \/ ConfigForSwitch(r)[o] = r.config[o]
              \/ /\ ConfigForSwitch(r)[o] = DefaultConfig[o]
                 /\ o \in Settable \/ r.kind = "engine"
<1>1. \A readable \in BOOLEAN : \A l \in LoadText(r, readable) : l.config = r.config
  BY DEF LoadText, Runtime
<1>2. \A path \in PathChoices : \A l \in LoadPath(r, path) : l.config = ConfigForSwitch(r)
  BY DEF LoadPath, Switched
<1>3. \A pair \in Pairs : \A l \in LoadNamed(r, pair) : l.config = ConfigForSwitch(r)
  BY DEF LoadNamed, Switched
<1>4. ASSUME NEW o \in DOMAIN DefaultConfig
      PROVE  \/ ConfigForSwitch(r)[o] = r.config[o]
             \/ /\ ConfigForSwitch(r)[o] = DefaultConfig[o]
                /\ o \in Settable \/ r.kind = "engine"
  <2>1. o \in {"aggl", "praet", "case_handling", "token_numbering", "whitespace", "debug"}
    BY <1>4 DEF DefaultConfig
  <2>2. /\ r.config \in Config /\ DefaultConfig.aggl = NotSet /\ DefaultConfig.praet = NotSet
    BY RuntimeParts DEF DefaultConfig
  <2> QED  BY <2>1, <2>2 DEF ConfigForSwitch, Settable, Config, DefaultConfig
<1> QED  BY <1>1, <1>2, <1>3, <1>4

-----------------------------------------------------------------------------
(* Steps                                                                   *)

ServiceInv == ServiceTypeOK /\ OptionsServable /\ Followed

(* What every step does besides.                                           *)
Right == ServiceInv' /\ TakenAsAsked /\ NumberedAsExpected

LEMMA GoodRuntime == ServiceInv <=> /\ Good(runtime) /\ Followed /\ ServiceTypeOK
BY DEF ServiceInv, ServiceTypeOK, OptionsServable, Good

(* A response of the right type to a request that keeps to its options.    *)
LEMMA Responded ==
  ASSUME NEW mode \in {"analyze", "generate", "metadata", "text", "path", "named"},
         NEW options \in OptionChoices, NEW ok \in BOOLEAN,
         NEW start \in 0 .. NodeLimit, NEW next \in 0 .. NodeLimit, NEW kept \in BOOLEAN,
         Respond(mode, options, ok, <<start, next>>, kept), ServiceInv, Good(runtime')
  PROVE  /\ ServiceTypeOK' /\ OptionsServable'
         /\ response'.mode = mode /\ response'.options = options /\ response'.ok = ok
         /\ response'.start = start
         /\ expected' = IF mode = "analyze" /\ ok /\ runtime'.config.token_numbering = "continuous"
                        THEN next ELSE IF kept THEN expected ELSE Unsure
<1>1. /\ response'.mode = mode /\ response'.options = options /\ response'.ok = ok
      /\ response'.start = start
      /\ expected' = IF mode = "analyze" /\ ok /\ runtime'.config.token_numbering = "continuous"
                     THEN next ELSE IF kept THEN expected ELSE Unsure
  BY DEF Respond
<1>2. expected \in 0 .. Unsure /\ NodeLimit \in Nat /\ Unsure = NodeLimit + 1
  BY JsonServiceAssumption DEF ServiceInv, ServiceTypeOK, Unsure
<1>3. expected' \in 0 .. Unsure
  BY <1>1, <1>2
<1>4. OptionsServable' /\ runtime' \in Runtime
  BY DEF Good, OptionsServable
<1>5. ServiceTypeOK'
  BY <1>1, <1>3, <1>4 DEF ServiceTypeOK, Unsure
<1> QED  BY <1>1, <1>4, <1>5

(* Requests for data: the runtime is the one with the options applied, but *)
(* for the next node of a text that was answered.                          *)
LEMMA DataRequest ==
  ASSUME ServiceInv, NEW mode \in {"analyze", "generate", "metadata"}, NEW options \in OptionChoices,
         NEW ok \in BOOLEAN, ok => AllTaken(runtime, options),
         NEW start \in 0 .. NodeLimit, NEW next \in 0 .. NodeLimit,
         Respond(mode, options, ok, <<start, next>>, Undisturbed(options)),
         LET r == Applied(runtime, options) IN
         IF mode = "analyze" /\ ok /\ r.config.token_numbering = "continuous"
         THEN start = r.next_node /\ runtime' = [r EXCEPT !.next_node = next]
         ELSE runtime' = r
  PROVE  Right
<1> DEFINE r == Applied(runtime, options)
           answered == mode = "analyze" /\ ok /\ r.config.token_numbering = "continuous"
<1>1. Good(runtime) /\ Good(r) /\ NodeLimit \in Nat
  BY GoodRuntime, AppliedGood, JsonServiceAssumption
<1>2. /\ r \in Runtime /\ next \in Nat
  BY <1>1 DEF Good
<1>3. /\ runtime'.config = r.config /\ runtime'.lexicon = r.lexicon /\ runtime' \in Runtime
      /\ runtime'.next_node = IF answered THEN next ELSE r.next_node
  <2> HIDE DEF r
  <2> QED  BY <1>2 DEF Runtime, r
<1>4. Good(runtime')
  BY <1>1, <1>3 DEF Good
<1>5. Undisturbed(options) \in BOOLEAN
  BY DEF Undisturbed
<1>6. /\ ServiceTypeOK' /\ OptionsServable'
      /\ response'.mode = mode /\ response'.options = options /\ response'.ok = ok
      /\ response'.start = start
      /\ expected' = IF answered THEN next ELSE IF Undisturbed(options) THEN expected ELSE Unsure
  BY <1>3, <1>4, <1>5, Responded
<1>7. Undisturbed(options) => r = runtime
  BY <1>1, UndisturbedKept DEF Good
<1>8. Followed'
  BY <1>3, <1>6, <1>7 DEF Followed, ServiceInv, Unsure
<1>9. TakenAsAsked
  BY <1>1, <1>3, <1>6, AppliedAsks DEF TakenAsAsked
<1>10. NumberedAsExpected
  <2> HIDE DEF r
  <2> QED  BY <1>3, <1>6, <1>7 DEF NumberedAsExpected, Followed, ServiceInv, r
<1> QED  BY <1>6, <1>8, <1>9, <1>10 DEF Right, ServiceInv

LEMMA SetDictionaryStep ==
  ASSUME ServiceInv, NEW options \in OptionChoices, NEW by \in {"text", "path", "named"}, NEW loaded,
         \A l \in loaded : Good(l),
         \A l \in loaded : \A o \in DOMAIN DefaultConfig :
           \/ l.config[o] = runtime.config[o]
           \/ /\ by # "text" /\ l.config[o] = DefaultConfig[o]
              /\ o \in Settable \/ runtime.kind = "engine",
         SetDictionary(by, loaded, options)
  PROVE  Right
<1>0. /\ 0 \in 0 .. NodeLimit /\ NoNodes = <<0, 0>>
      /\ by \in {"analyze", "generate", "metadata", "text", "path", "named"} /\ by # "analyze"
  BY JsonServiceAssumption DEF NoNodes
<1>1. CASE runtime' = runtime /\ Respond(by, options, FALSE, NoNodes, TRUE)
  <2>1. Good(runtime') /\ Respond(by, options, FALSE, <<0, 0>>, TRUE)
    BY <1>0, <1>1, GoodRuntime
  <2>2. /\ ServiceTypeOK' /\ OptionsServable' /\ response'.mode = by /\ response'.ok = FALSE
        /\ response'.options = options /\ expected' = expected
    BY <1>0, <2>1, Responded
  <2> QED  BY <1>1, <2>2 DEF Right, ServiceInv, Followed, TakenAsAsked, NumberedAsExpected
<1>2. CASE \E l \in loaded : /\ runtime' = Applied(l, options)
                             /\ Respond(by, options, AllTaken(l, options), NoNodes, FALSE)
  <2>1. PICK l \in loaded : /\ runtime' = Applied(l, options)
                            /\ Respond(by, options, AllTaken(l, options), NoNodes, FALSE)
    BY <1>2
  <2>2. Good(l) /\ Good(runtime')
    BY <2>1, AppliedGood
  <2>3. PICK ok \in BOOLEAN : (ok <=> AllTaken(l, options)) /\ Respond(by, options, ok, <<0, 0>>, FALSE)
    BY <1>0, <2>1 DEF AllTaken
  <2>4. /\ ServiceTypeOK' /\ OptionsServable' /\ response'.mode = by /\ response'.options = options
        /\ response'.ok = ok /\ expected' = Unsure
    <3>1. /\ ServiceTypeOK' /\ OptionsServable' /\ response'.mode = by /\ response'.options = options
          /\ response'.ok = ok
          /\ expected' = IF by = "analyze" /\ ok /\ runtime'.config.token_numbering = "continuous"
                         THEN 0 ELSE IF FALSE THEN expected ELSE Unsure
      BY <1>0, <2>2, <2>3, Responded, ZenonT(60)
    <3> QED  BY <1>0, <3>1
  <2>5. Followed'
    BY <2>4 DEF Followed, Unsure
  <2>6. TakenAsAsked
    BY <2>1, <2>2, <2>3, <2>4, AppliedAsks DEF TakenAsAsked, LostBySwitch
  <2>7. NumberedAsExpected
    BY <2>4 DEF NumberedAsExpected
  <2> QED  BY <2>4, <2>5, <2>6, <2>7 DEF Right, ServiceInv
<1> QED  BY <1>1, <1>2 DEF SetDictionary

LEMMA AnalyzeStep ==
  ASSUME ServiceInv, NEW options \in OptionChoices, Analyze(options) PROVE Right
<1> DEFINE r == Applied(runtime, options)
<1>1. Good(r) /\ StartNode(r) \in Nat /\ NodeLimit \in Nat /\ MaxTaken \in Nat
  BY GoodRuntime, AppliedGood, RuntimeParts, JsonServiceAssumption DEF Good, StartNode
<1>2. ASSUME AllTaken(runtime, options), NEW n \in 0 .. MaxTaken, StartNode(r) + n <= NodeLimit,
             runtime' = IF r.config.token_numbering = "continuous"
                        THEN [r EXCEPT !.next_node = StartNode(r) + n] ELSE r,
             Respond("analyze", options, TRUE, <<StartNode(r), StartNode(r) + n>>, Undisturbed(options))
      PROVE  Right
  <2>1. StartNode(r) \in 0 .. NodeLimit /\ StartNode(r) + n \in 0 .. NodeLimit
    BY <1>1, <1>2
  <2>2. r.config.token_numbering = "continuous" => StartNode(r) = r.next_node
    BY DEF StartNode
  <2> HIDE DEF r
  <2>3. IF r.config.token_numbering = "continuous"
        THEN StartNode(r) = r.next_node /\ runtime' = [r EXCEPT !.next_node = StartNode(r) + n]
        ELSE runtime' = r
    BY <1>2, <2>2
  <2> QED  BY <1>2, <2>1, <2>3, DataRequest DEF r
<1>3. ASSUME runtime' = r, Respond("analyze", options, FALSE, NoNodes, Undisturbed(options))
      PROVE  Right
  <2>1. 0 \in 0 .. NodeLimit /\ NoNodes = <<0, 0>>
    BY <1>1 DEF NoNodes
  <2> QED  BY <1>3, <2>1, DataRequest
<1> QED  BY <1>2, <1>3 DEF Analyze

LEMMA OtherDataStep ==
  ASSUME ServiceInv, NEW options \in OptionChoices, Generate(options) \/ ReportMetadata(options)
  PROVE  Right
<1>1. 0 \in 0 .. NodeLimit /\ NoNodes = <<0, 0>>
  BY JsonServiceAssumption DEF NoNodes
<1>2. PICK mode \in {"generate", "metadata"}, ok \in BOOLEAN :
        /\ ok => AllTaken(runtime, options)
        /\ runtime' = Applied(runtime, options)
        /\ Respond(mode, options, ok, NoNodes, Undisturbed(options))
  BY DEF Generate, ReportMetadata, AllTaken
<1>3. mode \in {"analyze", "generate", "metadata"} /\ mode # "analyze"
  OBVIOUS
<1> QED  BY <1>1, <1>2, <1>3, DataRequest

LEMMA NextRight ==
  ASSUME ServiceInv, ServiceNext PROVE Right
<1>1. PICK options \in OptionChoices :
        \/ Analyze(options) \/ Generate(options) \/ ReportMetadata(options)
        \/ \E readable \in BOOLEAN : SetDictionary("text", LoadText(runtime, readable), options)
        \/ \E path \in PathChoices : SetDictionary("path", LoadPath(runtime, path), options)
        \/ \E pair \in Pairs : SetDictionary("named", LoadNamed(runtime, pair), options)
  BY DEF ServiceNext
<1>2. runtime \in Runtime
  BY DEF ServiceInv, ServiceTypeOK
<1>3. ASSUME NEW readable \in BOOLEAN, SetDictionary("text", LoadText(runtime, readable), options)
      PROVE  Right
  BY <1>2, <1>3, LoadedGood, LoadedKeeps, SetDictionaryStep
<1>4. ASSUME NEW path \in PathChoices, SetDictionary("path", LoadPath(runtime, path), options)
      PROVE  Right
  <2>1. \A l \in LoadPath(runtime, path) : Good(l) /\ l.config = ConfigForSwitch(runtime)
    BY <1>2, LoadedGood, LoadedKeeps
  <2> QED  BY <1>2, <1>4, <2>1, LoadedKeeps, SetDictionaryStep
<1>5. ASSUME NEW pair \in Pairs, SetDictionary("named", LoadNamed(runtime, pair), options)
      PROVE  Right
  <2>1. \A l \in LoadNamed(runtime, pair) : Good(l) /\ l.config = ConfigForSwitch(runtime)
    BY <1>2, LoadedGood, LoadedKeeps
  <2> QED  BY <1>2, <1>5, <2>1, LoadedKeeps, SetDictionaryStep
<1> QED  BY <1>1, <1>3, <1>4, <1>5, AnalyzeStep, OtherDataStep

-----------------------------------------------------------------------------
(* Theorems                                                                *)

LEMMA Started == ServiceInit => ServiceInv
<1> SUFFICES ASSUME ServiceInit PROVE ServiceInv
  OBVIOUS
<1>1. Good(runtime) /\ runtime.next_node = 0
  <2>1. CASE runtime = EngineRuntime
    <3>1. EngineRuntime.next_node = 0
      BY DEF EngineRuntime
    <3> QED  BY <2>1, <3>1, EngineGood
  <2>2. ASSUME NEW path \in PathChoices, runtime \in LoadPath(EngineRuntime, path)
        PROVE  Good(runtime) /\ runtime.next_node = 0
    BY <2>2, EngineGood, LoadedGood DEF Good, LoadPath, Switched
  <2>3. ASSUME NEW pair \in Pairs, runtime \in LoadNamed(EngineRuntime, pair)
        PROVE  Good(runtime) /\ runtime.next_node = 0
    BY <2>3, EngineGood, LoadedGood DEF Good, LoadNamed, Switched
  <2> QED  BY <2>1, <2>2, <2>3 DEF ServiceInit
<1>2. /\ response = [mode |-> "none", options |-> NoOptions, ok |-> TRUE, start |-> 0, next |-> 0]
      /\ expected = 0
  BY DEF ServiceInit
<1>3. ServiceTypeOK
  BY <1>1, <1>2, JsonServiceAssumption DEF ServiceTypeOK, Good, Unsure
<1> QED  BY <1>1, <1>2, <1>3, GoodRuntime DEF Followed

LEMMA Kept == ServiceInv /\ [ServiceNext]_serviceVars => ServiceInv'
<1>1. ServiceInv /\ ServiceNext => ServiceInv'
  BY NextRight DEF Right
<1>2. ServiceInv /\ UNCHANGED serviceVars => ServiceInv'
  BY DEF ServiceInv, ServiceTypeOK, OptionsServable, Followed, serviceVars
<1> QED  BY <1>1, <1>2

LEMMA ServiceInvariant == ServiceSpec => []ServiceInv
BY Started, Kept, PTL DEF ServiceSpec

(* The service's runtime and answers have their types: a value that is not *)
(* one of its option never comes into its configuration.                   *)
THEOREM ServiceTypeCorrect == ServiceSpec => []ServiceTypeOK
<1>1. ServiceInv => ServiceTypeOK
  BY DEF ServiceInv
<1> QED  BY <1>1, ServiceInvariant, PTL

(* No sequence of requests, whichever of them fail and wherever, leaves a  *)
(* service with options that one of its dictionaries has no automaton for. *)
THEOREM OptionsServed == ServiceSpec => []OptionsServable
<1>1. ServiceInv => OptionsServable
  BY DEF ServiceInv
<1> QED  BY <1>1, ServiceInvariant, PTL

(* A request that succeeds leaves all the options it names, and no request *)
(* changes others but by loading a binary dictionary.                      *)
THEOREM OptionsTakenAsAsked == ServiceSpec => OptionsAsAsked
<1>1. ServiceInv /\ [ServiceNext]_serviceVars => [TakenAsAsked]_serviceVars
  BY NextRight DEF Right
<1> QED  BY <1>1, ServiceInvariant, PTL DEF ServiceSpec, OptionsAsAsked

(* Continuous numbering goes on where the last answer ended, as long as    *)
(* the client disturbs nothing.                                            *)
THEOREM NumberingKept == ServiceSpec => NumbersFollowOn
<1>1. ServiceInv /\ [ServiceNext]_serviceVars => [NumberedAsExpected]_serviceVars
  BY NextRight DEF Right
<1> QED  BY <1>1, ServiceInvariant, PTL DEF ServiceSpec, NumbersFollowOn
=============================================================================
