------------------------------ MODULE MCKascli ------------------------------
(* Instances of KascliRun. *)
EXTENDS KascliRun
=============================================================================
