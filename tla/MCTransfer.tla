------------------------------ MODULE MCTransfer ------------------------------
(* Transfer as the configurations of TLC instantiate it. *)
EXTENDS Transfer
===============================================================================
