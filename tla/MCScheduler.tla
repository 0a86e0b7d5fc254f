--------------------------- MODULE MCScheduler ---------------------------
(* TLC instance of Scheduler: two sources, one due often and one seldom. *)
EXTENDS Scheduler, TLC

CONSTANTS cpu, rain

MCRegistry == <<cpu, rain>>

MCDue == (cpu :> {0, 1, 3}) @@ (rain :> {1, 4})
===========================================================================
