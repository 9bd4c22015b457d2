----------------------------- MODULE MCSnapshots -----------------------------
(* Snapshots on a small instance: see the cfg files for the bounds. *)
EXTENDS Snapshots
=============================================================================
