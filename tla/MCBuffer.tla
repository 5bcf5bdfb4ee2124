------------------------------- MODULE MCBuffer -------------------------------
(* Buffer with kCheapPrepend 2 and kInitialSize 2 standing for 8 and 1024, *)
(* and a 2-byte extrabuf standing for 65536: an append of 2 bytes already  *)
(* has to move the content or grow the vector, and a read can spill into   *)
(* extrabuf.                                                                *)
EXTENDS Buffer

CONSTANTS cr, lf, zero

MCCheapPrepend == 2
MCInitialSize == 2
MCExtraSize == 2
MCMaxContent == 4
MCMaxLen == 2
=============================================================================
