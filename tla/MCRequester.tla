----------------------------- MODULE MCRequester -----------------------------
(***************************************************************************)
(* Requester on small instances.  The callers, the repliers and the bounds *)
(* of each instance are in its .cfg.                                       *)
(***************************************************************************)
EXTENDS Requester
==============================================================================
