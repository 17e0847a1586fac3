---------------------------- MODULE MCRobotSystem ----------------------------
(***************************************************************************)
(* RobotSystem on small instances; speeds are those of robot_func.cxx.     *)
(***************************************************************************)
EXTENDS RobotSystem

==============================================================================
