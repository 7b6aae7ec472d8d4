------------------------------ MODULE MCDbSync ------------------------------
(* Values of the constants of DbSync for the runs of TLC.                  *)
EXTENDS DbSync

CONSTANTS k1, k2, c1, c2

MCKeys == {k1, k2}
MCCols == {c1, c2}
MCShapes == {<<c1, c2>>}

Symmetry == Permutations(MCKeys)

AllOps == CallNames

(* The calls that meet in the run sync_delete_all_queued.                  *)
EmptyRowThenDelete == {"open", "writeRow", "writeEmpty", "deleteAll"}

AnyData == OpNames \ {"select", "exec", "discard", "hmset"}
=============================================================================
