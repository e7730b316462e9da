---------------------------- MODULE MCLruReplacer ----------------------------
(* Constants of LruReplacer for TLC. *)
EXTENDS LruReplacer, TLC
=============================================================================
