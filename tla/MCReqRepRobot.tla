---------------------------- MODULE MCReqRepRobot ----------------------------
(***************************************************************************)
(* ReqRepRobot for TLC: all of its constants are numbers, given in the     *)
(* configuration.                                                          *)
(***************************************************************************)
EXTENDS ReqRepRobot
==============================================================================
