---------------------------- MODULE MCGovernor ----------------------------
(* TLC instance of Governor: two tasks, two images. *)
EXTENDS Governor, TLC

MCSymmetry == Permutations(Caller) \cup Permutations(Image)
============================================================================
