-------------------------------- MODULE MCNet --------------------------------
(* Net for TLC: the sockets are interchangeable, and so are the runs that   *)
(* differ by which of them is used first.                                   *)
EXTENDS Net, TLC

SocketSymmetry == Permutations(Sockets)
=============================================================================
