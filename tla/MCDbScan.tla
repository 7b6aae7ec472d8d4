------------------------------ MODULE MCDbScan ------------------------------
(* Values of the constants of DbScan for the runs of TLC: two buckets,     *)
(* the second of which fills a page that wraps the ring, and empty ones    *)
(* before and between them.                                                 *)
EXTENDS DbScan

CONSTANTS k1, k2, k3, k4, k5

MCKeys == {k1, k2, k3, k4, k5}
MCBucketOf == [k \in MCKeys |-> IF k \in {k1, k2} THEN 1 ELSE 3]
=============================================================================
