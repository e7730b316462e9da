--------------------------- MODULE MCStorageEngine ---------------------------
(* A bound on StorageEngine for TLC. *)
EXTENDS StorageEngine

\* A behaviour is followed up to the first step that damages a page; what
\* holds of the other pages beyond it is left to the theorems.
NoPageDamaged == damaged = {}
=============================================================================
