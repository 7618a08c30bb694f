--------------------------- MODULE StdinParallel ---------------------------
(***************************************************************************)
(* The command line tools with --threads: lines are read in batches, each  *)
(* batch is worked on by a pool, and a writer thread takes the finished    *)
(* batches from a bounded channel.  A line that fails ends the work on its *)
(* batch.                                                                  *)
(***************************************************************************)
EXTENDS Naturals, Sequences, FiniteSets

CONSTANTS
  Inputs,     (* what standard input may hold                              *)
  Workers,    (* threads of the pool                                       *)
  BatchLines, (* lines in a full batch                                     *)
  Capacity    (* batches that the channel holds                            *)

ASSUME StdinParallelAssumption ==
  /\ BatchLines \in Nat \ {0} /\ Capacity \in Nat \ {0}
  /\ Workers # {} /\ IsFiniteSet(Workers)

VARIABLES
  input, stdout, status, (* as in StdinSerial                              *)
  read,    (* lines read                                                   *)
  batch,   (* the numbers of the lines of the batch being read or mapped   *)
  pc,      (* what the computing thread does                               *)
  todo,    (* lines of the batch that no worker has taken                  *)
  at,      (* the line each worker is at, or 0                             *)
  blocks,  (* the lines of the batch that are done                         *)
  failed,  (* whether a line has failed                                    *)
  channel, (* finished batches                                             *)
  writing, (* blocks that the writer has taken and not yet written         *)
  writer   (* "on", "done" or "broken"                                     *)

compute == <<read, batch, pc, failed>>
pool    == <<todo, at, blocks>>
output  == <<stdout, writing, writer>>
vars    == <<input, status, compute, pool, channel, output>>

Serial == INSTANCE StdinSerial
AllGood == \A i \in DOMAIN input : input[i] = "good"
Promised == INSTANCE StdinSerial WITH stdout <- IF AllGood THEN stdout ELSE <<>>

ASSUME StdinAssumption == Inputs \subseteq Seq(Serial!Lines)

Init ==
  /\ Serial!Init
  /\ read = 0 /\ batch = <<>> /\ pc = "read" /\ failed = FALSE
  /\ todo = {} /\ at = [w \in Workers |-> 0] /\ blocks = <<>>
  /\ channel = <<>> /\ writing = <<>> /\ writer = "on"

-----------------------------------------------------------------------------
(* The computing thread                                                    *)

Ended == read = Len(input)

ReadLine ==
  /\ pc = "read" /\ Len(batch) < BatchLines /\ ~Ended /\ input[read + 1] # "unreadable"
  /\ read' = read + 1
  /\ batch' = Append(batch, read + 1)
  /\ UNCHANGED <<input, status, pc, failed, pool, channel, output>>

(* An error of standard input gives up the batch read so far.              *)
ReadFails ==
  /\ pc = "read" /\ Len(batch) < BatchLines /\ ~Ended /\ input[read + 1] = "unreadable"
  /\ pc' = "close" /\ failed' = TRUE
  /\ UNCHANGED <<input, status, read, batch, pool, channel, output>>

BatchFull == Len(batch) = BatchLines \/ Ended

ItemsOf(lines) == DOMAIN lines

StartMap ==
  /\ pc = "read" /\ BatchFull /\ batch # <<>>
  /\ pc' = "map"
  /\ todo' = ItemsOf(batch)
  /\ blocks' = [i \in DOMAIN batch |-> 0]
  /\ UNCHANGED <<input, status, read, batch, failed, at, channel, output>>

EndOfInput ==
  /\ pc = "read" /\ BatchFull /\ batch = <<>>
  /\ pc' = "close"
  /\ UNCHANGED <<input, status, read, batch, failed, pool, channel, output>>

(* Workers take the lines of a batch in any order; none is begun after one *)
(* has failed.                                                             *)
TakeLine(w) ==
  /\ pc = "map" /\ at[w] = 0 /\ ~failed
  /\ \E i \in todo : at' = [at EXCEPT ![w] = i] /\ todo' = todo \ {i}
  /\ UNCHANGED <<input, status, compute, blocks, channel, output>>

(* Mutant: a block takes the next place that is free.                      *)
NextFree(i) == CHOOSE k \in DOMAIN blocks : blocks[k] = 0 /\ \A j \in 1 .. k - 1 : blocks[j] # 0

(* The ordered collect: a block takes the place of its line.               *)
PlaceOf(i) == i

FinishLine(w) ==
  /\ at[w] # 0
  /\ at' = [at EXCEPT ![w] = 0]
  /\ LET line == batch[at[w]]
     IN  IF input[line] = "good"
         THEN blocks' = [blocks EXCEPT ![PlaceOf(at[w])] = line] /\ UNCHANGED failed
         ELSE failed' = TRUE /\ UNCHANGED blocks
  /\ UNCHANGED <<input, status, read, batch, pc, todo, channel, output>>

EndMap ==
  /\ pc = "map" /\ \A w \in Workers : at[w] = 0
  /\ \/ failed /\ pc' = "close"
     \/ ~failed /\ todo = {} /\ pc' = "send"
  /\ UNCHANGED <<input, status, read, batch, failed, pool, channel, output>>

(* Mutant: the channel has no bound.                                       *)
RoomAlways(c) == TRUE

HasRoom(c) == Len(c) < Capacity

Send ==
  /\ pc = "send" /\ writer = "on" /\ HasRoom(channel)
  /\ channel' = Append(channel, blocks)
  /\ batch' = <<>> /\ blocks' = <<>> /\ pc' = "read"
  /\ UNCHANGED <<input, status, read, failed, todo, at, output>>

(* Mutant: only a writer that came to its end is noticed.                  *)
CameToEnd(state) == state = "done"

Gone(state) == state # "on"

(* A writer that stopped is no error here; its own is reported later.      *)
SendFails ==
  /\ pc = "send" /\ Gone(writer)
  /\ pc' = "close"
  /\ UNCHANGED <<input, status, read, batch, failed, pool, channel, output>>

Join ==
  /\ pc = "close" /\ writer # "on"
  /\ pc' = "joined"
  /\ status' = IF failed \/ writer = "broken" THEN "error" ELSE "ok"
  /\ UNCHANGED <<input, read, batch, failed, pool, channel, output>>

-----------------------------------------------------------------------------
(* The writer thread                                                       *)

Receive ==
  /\ writer = "on" /\ writing = <<>> /\ channel # <<>>
  /\ writing' = Head(channel) /\ channel' = Tail(channel)
  /\ UNCHANGED <<input, status, compute, pool, stdout, writer>>

WriteBlock ==
  /\ writer = "on" /\ writing # <<>>
  /\ stdout' = Append(stdout, Head(writing))
  /\ writing' = Tail(writing)
  /\ UNCHANGED <<input, status, compute, pool, channel, writer>>

(* Mutant: the writer ends when it finds the channel empty.                *)
NothingLeft == channel = <<>>

ChannelClosed == channel = <<>> /\ pc = "close"

WriteNewline ==
  /\ writer = "on" /\ writing = <<>> /\ ChannelClosed
  /\ stdout' = Append(stdout, Serial!Newline)
  /\ writer' = "done"
  /\ UNCHANGED <<input, status, compute, pool, channel, writing>>

(* A write fails: the writer returns, and its end of the channel closes.   *)
WriteFails ==
  /\ writer = "on" /\ (writing # <<>> \/ ChannelClosed)
  /\ writer' = "broken" /\ writing' = <<>> /\ channel' = <<>>
  /\ UNCHANGED <<input, status, compute, pool, stdout>>

-----------------------------------------------------------------------------
Compute == ReadLine \/ ReadFails \/ StartMap \/ EndOfInput \/ EndMap \/ Send \/ SendFails \/ Join
Worker(w) == TakeLine(w) \/ FinishLine(w)
Writer == Receive \/ WriteBlock \/ WriteNewline
Exited == status # "running" /\ UNCHANGED vars

Next == Compute \/ (\E w \in Workers : Worker(w)) \/ Writer \/ WriteFails \/ Exited

Spec == Init /\ [][Next]_vars

(* Threads are scheduled; writes may fail but need not.                    *)
FairSpec ==
  /\ Spec
  /\ WF_vars(Compute) /\ WF_vars(Writer)
  /\ \A w \in Workers : WF_vars(Worker(w))

-----------------------------------------------------------------------------
(* Properties                                                              *)

TypeOK ==
  /\ stdout \in Seq(0 .. Len(input)) /\ status \in {"running", "ok", "error"}
  /\ read \in 0 .. Len(input) /\ batch \in Seq(1 .. Len(input)) /\ failed \in BOOLEAN
  /\ pc \in {"read", "map", "send", "close", "joined"}
  /\ todo \subseteq DOMAIN batch /\ at \in [Workers -> {0} \cup DOMAIN batch]
  /\ blocks \in Seq(0 .. Len(input))
  /\ channel \in Seq(Seq(1 .. Len(input))) /\ writing \in Seq(1 .. Len(input))
  /\ writer \in {"on", "done", "broken"}

(* The pipeline does what the single thread does: the same blocks in the   *)
(* same order, the same exit status, and an exit, whatever the pool's      *)
(* order of work and the writer's delays.  Of an input with a line that    *)
(* fails it says, as the blocks that are out then may differ, that the run *)
(* ends with an error.                                                     *)
ImplementsSerial == Promised!Spec

(* For every input, the blocks come out in input order with none missing   *)
(* between them, and the end is an error when a line or a write failed.    *)
OutputInOrder ==
  /\ \A i \in DOMAIN stdout : stdout[i] = i \/ (i = Len(stdout) /\ stdout[i] = Serial!Newline)
  /\ status = "ok" => stdout = Serial!Written(input)
  /\ status = "error" => writer = "broken" \/ \E i \in DOMAIN input : input[i] # "good"

(* What is in memory stays bounded: the batch at work, those in the        *)
(* channel and the one being written.                                      *)
MemoryBounded ==
  Len(batch) + Len(writing) + BatchLines * Len(channel) <= (Capacity + 2) * BatchLines

(* A line that fails, a full channel or a writer that stopped never leave  *)
(* the threads waiting for each other.                                     *)
Exits == <>(status # "running")
=============================================================================
