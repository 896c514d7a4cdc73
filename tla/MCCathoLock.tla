----------------------------- MODULE MCCathoLock -----------------------------
(* Small instances of CathoLock for TLC.                                   *)
EXTENDS CathoLock

CONSTANTS c1, c2, c3, c4        \* collector processes, as model values
=============================================================================
