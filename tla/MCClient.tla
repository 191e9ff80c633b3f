------------------------------- MODULE MCClient -------------------------------
(* Client with the model values of the configurations. *)
EXTENDS Client
=============================================================================
