----------------------------- MODULE MCLeftovers -----------------------------
(* The instances of MCReconciler, for Leftovers.                           *)
EXTENDS Leftovers, MCReconciler
=============================================================================
