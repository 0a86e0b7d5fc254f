----------------------------- MODULE MCHidApi -----------------------------
(* TLC instance of HidApi.  No symmetry: the run checks liveness. *)
EXTENDS HidApi
===========================================================================
