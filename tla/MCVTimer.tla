------------------------------ MODULE MCVTimer ------------------------------
(* Values of the constants of VTimer for the runs of TLC.                  *)
EXTENDS VTimer

CONSTANTS t1, t2

MCTimers == {t1, t2}
=============================================================================
