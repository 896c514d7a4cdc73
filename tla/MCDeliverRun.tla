---------------------------- MODULE MCDeliverRun ----------------------------
(* Small instances of DeliverRun for TLC.                                  *)
EXTENDS DeliverRun, TLC

CONSTANTS r1, r2, r3, p1, p2        \* runs and postings, as model values

(* Runs are interchangeable, and so are postings.                          *)
RunPostingSymmetry == Permutations(Runs) \cup Permutations(Postings)
=============================================================================
