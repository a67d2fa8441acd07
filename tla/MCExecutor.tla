------------------------------ MODULE MCExecutor ------------------------------
(* Executor as the configurations of TLC instantiate it.                     *)
EXTENDS Executor
===============================================================================
