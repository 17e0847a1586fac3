----------------------------- MODULE MCLifetime ------------------------------
(***************************************************************************)
(* Lifetime, and with it Futures, on a small instance.                     *)
(***************************************************************************)
EXTENDS Lifetime
==============================================================================
