--------------------------- MODULE MCTransport ---------------------------
(* TLC instance of Transport. *)
EXTENDS Transport

(* Two pages or blocks: a first one and a later one. *)
MCParts == 2

(* What one earlier command that gave up may leave behind. *)
MCBacklog == 1

(* A page that is not stored and a reply that is spoiled, or one lost. *)
MCFaults == 2
==========================================================================
