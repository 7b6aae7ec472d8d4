----------------------------- MODULE RedisTable -----------------------------
(***************************************************************************)
(* The part of a Redis server that one database table of the DB API lives  *)
(* in: the set of row keys ("ids"), the hash of each row, and the MULTI    *)
(* state of the one connection that is being served.  The server is not    *)
(* part of the repository; it is modelled from the commands that           *)
(* src/src/db_api.c sends to it.                                           *)
(***************************************************************************)
EXTENDS Integers, Sequences, FiniteSets, SequencesExt

CONSTANTS
  Keys,    (* row keys of the table                                        *)
  Cols,    (* column ids of a row                                          *)
  NoKey,   (* the key field of a command that names no row                 *)
  NoCol    (* the column field of a command that names no column           *)

ASSUME KeysFinite == IsFiniteSet(Keys)
ASSUME NoKeyIsNoKey == NoKey \notin Keys
ASSUME NoColIsNoCol == NoCol \notin Cols

VARIABLES
  ids,     (* members of the set that indexes the rows of the table        *)
  rows,    (* hash of each key: column -> id of the write it comes from    *)
  txn,     (* MULTI state of the connection                                *)
  applied  (* history: the writes whose EXEC took effect                   *)

serverVars == <<ids, rows, txn, applied>>

OpNames == {"multi", "sadd", "hmset", "exec", "srem", "del",
            "smembers", "hgetall", "flushdb"}

(***************************************************************************)
(* A command (db_cmd_data_t): its name, the row and the column it names,   *)
(* and, as history only, the API call it was issued for: the kind of the   *)
(* call and, for a write, its number.  The payload of a column is the      *)
(* number of the write; 0 stands for a column that the hash does not have. *)
(***************************************************************************)
CallNames == {"writeRow", "writeColumn", "deleteRow", "deleteAll", "readAll", "flush"}

Cmds == [op : OpNames, key : Keys \cup {NoKey}, col : Cols \cup {NoCol},
         id : Nat, by : CallNames]

Cmd(op, k, c, i, by) == [op |-> op, key |-> k, col |-> c, id |-> i, by |-> by]

(* A reply: an error or not, and the members that SMEMBERS lists.          *)
Replies == [ok : BOOLEAN, listed : SUBSET Keys]

NoTxn     == [open |-> FALSE, dirty |-> FALSE, queued |-> {}]
EmptyRow  == [c \in Cols |-> 0]
EmptyRows == [k \in Keys |-> EmptyRow]

ServerInit == ids = {} /\ rows = EmptyRows /\ txn = NoTxn /\ applied = {}

(* The rows that the SADDs in q put into the index.                        *)
AddedBy(q) == {k \in Keys : \E s \in q : s.op = "sadd" /\ s.key = k}

(* Hash of every row once the HMSETs in q have run: they come from one     *)
(* write, so a column that several of them set gets the same value.        *)
RowsAfter(q) ==
  [k \in Keys |-> [c \in Cols |->
     LET sets == {h \in q : h.op = "hmset" /\ h.key = k /\ h.col = c}
     IN  IF sets = {} THEN rows[k][c] ELSE (CHOOSE h \in sets : TRUE).id]]

(* What the server answers to c in the current state when it serves it.    *)
AnswerTo(c) == [ok     |-> ~(c.op = "exec" /\ txn.dirty),
                listed |-> IF c.op = "smembers" THEN ids ELSE {}]

ErrorAnswer == [ok |-> FALSE, listed |-> {}]

-----------------------------------------------------------------------------

ServeMulti(c) ==
  /\ c.op = "multi" /\ ~txn.open
  /\ txn' = [NoTxn EXCEPT !.open = TRUE]
  /\ UNCHANGED <<ids, rows, applied>>

(* Inside MULTI a data command is only queued ("+QUEUED").                 *)
ServeQueued(c) ==
  /\ c.op \in {"sadd", "hmset"} /\ txn.open
  /\ txn' = [txn EXCEPT !.queued = @ \cup {c}]
  /\ UNCHANGED <<ids, rows, applied>>

(* EXEC applies everything that was queued, or nothing (EXECABORT) when    *)
(* the server refused one of the queued commands.                          *)
ServeExec(c) ==
  /\ c.op = "exec" /\ txn.open
  /\ txn' = NoTxn
  /\ IF txn.dirty
       THEN UNCHANGED <<ids, rows, applied>>
       ELSE /\ ids' = ids \cup AddedBy(txn.queued)
            /\ rows' = RowsAfter(txn.queued)
            /\ applied' = applied \cup {c.id}

ServeRead(c) ==
  /\ c.op \in {"smembers", "hgetall"} /\ ~txn.open
  /\ UNCHANGED serverVars

ServeSrem(c) ==
  /\ c.op = "srem" /\ ~txn.open
  /\ ids' = ids \ {c.key}
  /\ UNCHANGED <<rows, txn, applied>>

ServeDel(c) ==
  /\ c.op = "del" /\ ~txn.open
  /\ rows' = [k \in Keys |-> IF k = c.key THEN EmptyRow ELSE rows[k]]
  /\ UNCHANGED <<ids, txn, applied>>

ServeFlush(c) ==
  /\ c.op = "flushdb" /\ ~txn.open
  /\ ids' = {} /\ rows' = EmptyRows
  /\ UNCHANGED <<txn, applied>>

(* The server runs one command.  A command that finds the MULTI state other*)
(* than its case expects has no step: TransactionsSeparate of DbAsync says *)
(* that this never happens.                                                *)
Serve(c) ==
  \/ ServeMulti(c)
  \/ ServeQueued(c)
  \/ ServeExec(c)
  \/ ServeRead(c)
  \/ ServeSrem(c)
  \/ ServeDel(c)
  \/ ServeFlush(c)

(* The server refuses a data command (read-only replica, out of memory);   *)
(* inside MULTI that dooms the transaction.  Refusals of every command, of *)
(* MULTI and EXEC too (a server that loads its data set), are left out.    *)
Refuse(c) ==
  /\ c.op \notin {"multi", "exec"}
  /\ txn' = [txn EXCEPT !.dirty = txn.open]
  /\ UNCHANGED <<ids, rows, applied>>

(* The connection ends: what was queued on it is discarded.                *)
ServerForgets == txn' = NoTxn /\ UNCHANGED <<ids, rows, applied>>

=============================================================================
