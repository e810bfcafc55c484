----------------------------- MODULE MCListPtr -----------------------------
(* ListPtr with a few heads and entries.                                    *)
EXTENDS ListPtr
=============================================================================
