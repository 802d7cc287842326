---------------------------- MODULE MCCompaction ----------------------------
(* A directory a, with a file of its own, below the one the process is started in *)
EXTENDS Compaction

CONSTANTS l, a, fl, fa

MCAbove == [d \in Dirs |-> IF d = l THEN {fl} ELSE {fl, fa}]
=============================================================================
