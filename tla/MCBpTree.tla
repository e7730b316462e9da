------------------------------ MODULE MCBpTree ------------------------------
(* The B+-tree for TLC; the constants are in Btree.cfg. *)
EXTENDS BpTree
=============================================================================
