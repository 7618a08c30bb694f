-------------------------- MODULE MCStdinParallel --------------------------
(***************************************************************************)
(* Batches of two lines and two workers: nine good lines fill the channel, *)
(* hold a batch back and end with a short batch; five are enough for lines *)
(* to fail in one batch, in two, or next to one that succeeds.             *)
(***************************************************************************)
EXTENDS StdinParallel

CONSTANTS t1, t2

GoodInputs(n) == { [i \in 1 .. k |-> "good"] : k \in 0 .. n }

MCMixedInputs == UNION { [1 .. k -> {"good", "refused", "unreadable"}] : k \in 0 .. 5 }

MCInputs == GoodInputs(9) \cup MCMixedInputs
=============================================================================
