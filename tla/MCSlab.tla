------------------------------- MODULE MCSlab -------------------------------
(* Slab with up to four chunks.                                             *)
EXTENDS Slab
=============================================================================
