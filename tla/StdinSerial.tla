---------------------------- MODULE StdinSerial ----------------------------
(***************************************************************************)
(* The command line tools' single-threaded loop: each line of standard     *)
(* input is analysed (or synthesised) and its block of output written; a   *)
(* newline ends the output.  The first line that fails ends the program,   *)
(* and the lines before it are still flushed.                              *)
(***************************************************************************)
EXTENDS Naturals, Sequences

CONSTANT Inputs    (* what standard input may hold: sequences of lines     *)

(* A line is analysed, or refused with an error, or cannot be read.        *)
Lines == {"good", "refused", "unreadable"}
Newline == 0

(* What a run whose writes succeed has written in the end.                 *)
Written(lines) ==
  LET failing == { i \in DOMAIN lines : lines[i] # "good" }
      first   == CHOOSE i \in failing : \A j \in failing : i <= j
  IN  IF failing = {} THEN Append([i \in DOMAIN lines |-> i], Newline)
      ELSE [i \in 1 .. first - 1 |-> i]

VARIABLES
  input,  (* standard input                                                *)
  stdout, (* the blocks written, each by the number of its line            *)
  status  (* "running", and then the exit status                           *)

vars == <<input, stdout, status>>

Init == input \in Inputs /\ stdout = <<>> /\ status = "running"

WriteLine ==
  /\ status = "running" /\ Len(stdout) < Len(input) /\ input[Len(stdout) + 1] = "good"
  /\ stdout' = Append(stdout, Len(stdout) + 1)
  /\ UNCHANGED <<input, status>>

LineFails ==
  /\ status = "running" /\ Len(stdout) < Len(input) /\ input[Len(stdout) + 1] # "good"
  /\ status' = "error"
  /\ UNCHANGED <<input, stdout>>

WriteFails ==
  /\ status = "running"
  /\ status' = "error"
  /\ UNCHANGED <<input, stdout>>

(* The newline and the exit: the newline may be out before the program is. *)
WriteNewline ==
  /\ status = "running" /\ Len(stdout) = Len(input)
  /\ stdout' = Append(stdout, Newline)
  /\ UNCHANGED <<input, status>>

Exit ==
  /\ status = "running" /\ Len(stdout) = Len(input) + 1
  /\ status' = "ok"
  /\ UNCHANGED <<input, stdout>>

Next == WriteLine \/ LineFails \/ WriteFails \/ WriteNewline \/ Exit

Spec == Init /\ [][Next]_vars /\ WF_vars(WriteLine \/ LineFails \/ WriteNewline \/ Exit)
=============================================================================
