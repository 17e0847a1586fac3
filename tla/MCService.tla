------------------------------ MODULE MCService ------------------------------
(***************************************************************************)
(* Service on small instances; speeds are those of robot_func.cxx.         *)
(***************************************************************************)
EXTENDS Service
==============================================================================
