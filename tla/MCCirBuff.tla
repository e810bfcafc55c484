----------------------------- MODULE MCCirBuff -----------------------------
(* CirBuff with the MAX_BUFF of cir_buff.c and three different keys.        *)
EXTENDS CirBuff
=============================================================================
