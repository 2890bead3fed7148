------------------------- MODULE MCMpmcBoundedChannel -------------------------
(* Symmetry of the senders and of the receivers, for the runs without       *)
(* liveness properties.                                                     *)
EXTENDS MpmcBoundedChannel, TLC

ThreadSymmetry == Permutations(Senders) \cup Permutations(Receivers)
=============================================================================
