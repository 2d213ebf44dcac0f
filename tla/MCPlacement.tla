----------------------------- MODULE MCPlacement -----------------------------
(* Two runs at two paths: they may share a path, and one may edit what the *)
(* other is writing, or the file it is to write itself.                    *)
EXTENDS Placement, TLC

CONSTANT p1

MCCommand ==
    [source : {p1, Request}, out : Path \cup {Stdout}]

Commutes == Permutations(Process)
===============================================================================
