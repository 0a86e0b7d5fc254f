--------------------------- MODULE MCAnimation ---------------------------
(* TLC instance of Animation: the sizes are the real ones. *)
EXTENDS Animation

MCDuration == {0, 30, 45, 300, 4000}

MCBudget == 0..8
==========================================================================
