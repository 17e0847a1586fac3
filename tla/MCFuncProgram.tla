---------------------------- MODULE MCFuncProgram ----------------------------
(***************************************************************************)
(* FuncProgram on a small instance.  The numbers of rounds and chains and  *)
(* the speeds are in the .cfg.                                             *)
(***************************************************************************)
EXTENDS FuncProgram
==============================================================================
