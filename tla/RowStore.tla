------------------------------ MODULE RowStore ------------------------------
(***************************************************************************)
(* What the DB API promises about one table, without connections, queues   *)
(* or commands (src/include/db_api.h): a row is written in one piece, a    *)
(* removed row leaves nothing behind, every write that is accepted gets    *)
(* one answer, and DB_SUCCESS is answered only to a write that took        *)
(* effect.                                                                 *)
(***************************************************************************)
EXTENDS Naturals

CONSTANTS Keys, Cols, MaxCalls

VARIABLES
  table,    (* row of each key: column -> the write it comes from, 0: none *)
  applied,  (* writes that took effect                                     *)
  outcome   (* what the caller knows of each write                         *)

storeVars == <<table, applied, outcome>>

Writes == 1..MaxCalls
NoRow  == [c \in Cols |-> 0]

Init ==
  /\ table = [k \in Keys |-> NoRow]
  /\ applied = {}
  /\ outcome = [w \in Writes |-> "none"]

Begin(w) ==
  /\ outcome[w] = "none"
  /\ outcome' = [outcome EXCEPT ![w] = "open"]
  /\ UNCHANGED <<table, applied>>

(* All columns of the write change together, the others keep their value.  *)
Apply(w, k, cs) ==
  /\ outcome[w] = "open" /\ w \notin applied
  /\ table' = [table EXCEPT ![k] = [c \in Cols |-> IF c \in cs THEN w ELSE @[c]]]
  /\ applied' = applied \cup {w}
  /\ UNCHANGED outcome

Succeed(w) ==
  /\ outcome[w] = "open" /\ w \in applied
  /\ outcome' = [outcome EXCEPT ![w] = "ok"]
  /\ UNCHANGED <<table, applied>>

(* A failure says nothing: the write may or may not have taken effect.     *)
Fail(w) ==
  /\ outcome[w] = "open"
  /\ outcome' = [outcome EXCEPT ![w] = "failed"]
  /\ UNCHANGED <<table, applied>>

Remove(ks) ==
  /\ table' = [k \in Keys |-> IF k \in ks THEN NoRow ELSE table[k]]
  /\ UNCHANGED <<applied, outcome>>

Next ==
  \/ \E w \in Writes : \/ Begin(w) \/ Succeed(w) \/ Fail(w)
                       \/ \E k \in Keys, cs \in (SUBSET Cols) \ {{}} : Apply(w, k, cs)
  \/ \E ks \in SUBSET Keys : Remove(ks)

Spec == Init /\ [][Next]_storeVars

=============================================================================
