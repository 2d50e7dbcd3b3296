--------------------------- MODULE MCResponsesServer ---------------------------
(* TLC instance of ResponsesServer.  The safety runs treat streams alike. *)
EXTENDS ResponsesServer, TLC

MCSymmetry == Permutations(Streams)
================================================================================
