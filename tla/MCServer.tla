----------------------------- MODULE MCServer -----------------------------
(* TLC instance of Server: one client, whose source program may hang, sends *)
(* two lines; the other one may leave at any time.  Both may ask for a stop.*)
EXTENDS Server, TLC

CONSTANTS first, second

MCMaySend == (first :> {"blank", "garbled", "source", "shutdown"})
                @@ (second :> {"junk", "other", "garbled", "shutdown"})

MCMaxLines == (first :> 2) @@ (second :> 1)
===========================================================================
