------------------------------ MODULE MCDbLife ------------------------------
(* Values of the constants of DbLife for the runs of TLC.                  *)
EXTENDS DbLife

CONSTANTS h1, h2

MCHandles == {h1, h2}
MCOne     == {h1}

(* An application that calls the API outside callbacks and in those of     *)
(* replies, and closes its handles outside callbacks.                      *)
CallPlaces  == {"loop", "reply"}
ClosePlaces == {"loop"}

(* One that closes a handle when ctrl_cb reports an error.                 *)
CloseOnError == {"loop", "ctrl"}
=============================================================================
