------------------------------ MODULE MCServe ------------------------------
(* Serve needs no definition besides its constants.                         *)
EXTENDS Serve
=============================================================================
