------------------------------- MODULE MCTsfn -------------------------------
(* Instances of Tsfn: the main thread m and two threads of an addon. *)
EXTENDS Tsfn

\* Two calls of each thread of the addon, one of the main thread
CallsOfThreads == [t \in Threads |-> IF t = Main THEN 1 ELSE 2]
=============================================================================
