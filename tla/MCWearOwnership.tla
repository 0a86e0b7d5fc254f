------------------------- MODULE MCWearOwnership -------------------------
(* TLC instance of WearOwnership: two daemons on the default path find a    *)
(* file of an earlier version on their own file system, on another one, or  *)
(* none; or one of the daemons has a --socket of its own.                   *)
EXTENDS WearOwnership, TLC

CONSTANTS dA, dB, main, side

File(apart) == [there |-> TRUE, total |-> 1, apart |-> apart]

NoFile == [there |-> FALSE, total |-> 0, apart |-> FALSE]

MCSetups ==
  [socket : {[d \in Daemon |-> main]}, legacy : {File(TRUE), File(FALSE), NoFile}]
    \cup [socket : {f \in [Daemon -> {main, side}] : Cardinality({d \in Daemon : f[d] = side}) = 1},
          legacy : {File(FALSE)}]

MCSymmetry == Permutations({dA, dB})

(* What a process remembered makes no difference once it has ended, or      *)
(* before it has loaded.                                                    *)
MCView ==
  <<[p \in Process |-> IF p \in Owner /\ pc[p] # "located" THEN mem[p] ELSE 0],
    socket, pc, path, file, legacy, due, unsaved, overlap, crashed>>
===========================================================================
