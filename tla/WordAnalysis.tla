---------------------------- MODULE WordAnalysis ----------------------------
(***************************************************************************)
(* What the callers of BinaryAnalyzerLexicon::analyze_native_word are      *)
(* promised, whatever caches lie behind it: the answer to a call depends   *)
(* on the call and the build alone.                                        *)
(*                                                                         *)
(* Node numbers are i32.  A release build wraps them around; a build with  *)
(* overflow checks panics, and a panic may take the lexicon's shared cache *)
(* with it: from then on a call may be refused.                            *)
(***************************************************************************)
EXTENDS WordSearch

-----------------------------------------------------------------------------
VARIABLES
  request,  (* request[t]: the call t makes or made last                   *)
  answer,   (* answer[t]: its answer, with status "none" while it runs     *)
  poisoned, (* a panic has damaged the shared cache                        *)
  checks    (* the build checks i32 arithmetic for overflow                *)

vars == <<request, answer, poisoned, checks>>

Running(t) == request[t] # NoRequest /\ answer[t] = Nothing

Init ==
  /\ request = [t \in Threads |-> NoRequest]
  /\ answer = [t \in Threads |-> Nothing]
  /\ poisoned = FALSE
  /\ checks \in BOOLEAN

Call(t) ==
  /\ ~Running(t)
  /\ \E r \in Calls : request' = [request EXCEPT ![t] = r]
  /\ answer' = [answer EXCEPT ![t] = Nothing]
  /\ UNCHANGED <<poisoned, checks>>

Reply(t) ==
  /\ Running(t)
  /\ answer' = [answer EXCEPT ![t] = Expected(request[t], checks)]
  /\ poisoned' \in {poisoned, poisoned \/ (checks /\ Overflows(request[t]))}
  /\ UNCHANGED <<request, checks>>

Refuse(t) ==
  /\ Running(t)
  /\ poisoned
  /\ answer' = [answer EXCEPT ![t] = Failed("poisoned")]
  /\ UNCHANGED <<request, poisoned, checks>>

Next == \E t \in Threads : Call(t) \/ Reply(t) \/ Refuse(t)

Spec == Init /\ [][Next]_vars
=============================================================================
