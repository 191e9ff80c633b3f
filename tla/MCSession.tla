------------------------------ MODULE MCSession ------------------------------
(* Session with the model values of the configurations. *)
EXTENDS Session
=============================================================================
