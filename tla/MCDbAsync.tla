----------------------------- MODULE MCDbAsync ------------------------------
(* Values of the constants of DbAsync for the runs of TLC.                 *)
EXTENDS DbAsync

CONSTANTS k1, k2, c1, c2

MCKeys == {k1, k2}
MCOneKey == {k1}
MCCols == {c1, c2}
MCShapes == {<<c1, c2>>}
MCOneCol == {c1}
MCOneShape == {<<c1>>}

(* Rows written whole; single columns written too, but no delete-all,      *)
(* which would take the SMEMBERS of a full read for its own.               *)
WholeRowOps   == (CallNames \cup {"close"}) \ {"writeColumn"}
WritesAndReads == {"writeRow", "writeColumn", "deleteRow", "readAll", "close"}
ReadOnly      == {"readAll"}

(* What the server refuses: nothing; what needs memory when it has none;   *)
(* any data command while it loads its data set or is a replica.           *)
Nothing        == {}
NeedsMemory    == {"sadd", "hmset"}
DataCommands   == OpNames \ {"multi", "exec"}
=============================================================================
