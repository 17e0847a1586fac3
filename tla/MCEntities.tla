----------------------------- MODULE MCEntities -----------------------------
(***************************************************************************)
(* Entities, and with it Params, on a small instance.                      *)
(***************************************************************************)
EXTENDS Entities
=============================================================================
