------------------------------- MODULE DbSync -------------------------------
(***************************************************************************)
(* The synchronous handle of src/src/db_api_sync.c on one table.  A call   *)
(* is a list of Redis commands that exec_sync_cmd sends one at a time,     *)
(* waiting for each reply; a command whose reply does not come is sent a   *)
(* second time on a new connection.  Writes and row deletions wrap their   *)
(* commands in MULTI and EXEC.  Other clients change the table between any *)
(* two commands.                                                           *)
(*                                                                         *)
(* The caller is blocked while a command is out, so sending, serving and   *)
(* reading the reply are one step; what a lost connection leaves open is   *)
(* whether the command was served.  The state of a call is nested in the   *)
(* state of the handle: todo holds the commands it has still to run.       *)
(***************************************************************************)
EXTENDS Integers, Sequences, FiniteSets, SequencesExt

CONSTANTS
  Keys,        (* row keys of the table                                    *)
  Cols,        (* column ids of a row                                      *)
  NoKey,       (* the key field of a command that names no row             *)
  NoCol,       (* the column field of a command that names no column       *)
  Ops,         (* the calls the application makes                          *)
  RowShapes,   (* column lists given to db_write_single_row_sync           *)
  Refusable,   (* commands the server may refuse (loading, out of memory)  *)
  MaxCalls,    (* bound: calls                                             *)
  MaxLosses,   (* bound: lost connections and failed connects              *)
  MaxRefusals, (* bound: refused commands                                  *)
  MaxOthers    (* bound: changes by other clients                          *)

CallNames == {"open", "close", "writeRow", "writeColumn", "writeEmpty",
              "deleteRow", "deleteAll", "readRow", "readColumns"}
OpNames == {"select", "multi", "sadd", "hset", "hmset", "exec", "discard",
            "srem", "del", "delset", "smembers", "hgetall", "hmget"}

ASSUME NoNamesAssumption == NoKey \notin Keys /\ NoCol \notin Cols
ASSUME OpsAssumption == Ops \subseteq CallNames /\ Refusable \subseteq OpNames
ASSUME BoundsAssumption == {MaxCalls, MaxLosses, MaxRefusals, MaxOthers} \subseteq Nat
ASSUME ShapesAssumption == RowShapes \subseteq (Seq(Cols) \ {<< >>})

VARIABLES
  status,    (* "closed", "open", or "aborted" by a failed VNF_ASSERT      *)
  link,      (* redis_ctx: "up", "broken" (err set) or "null"              *)
  flag,      (* start_transaction                                          *)
  calls,     (* history: the calls made                                    *)
  todo,      (* commands the running call still has to run                 *)
  mayRetry,  (* the argument retry of exec_sync_cmd for the first of them  *)
  failed,    (* whether the running call will return an error              *)
  faults,    (* faults so far: [loss, refusal]                             *)
  others,    (* number of changes made by other clients                    *)
  table,     (* server: index (ids) and hash of each row (rows)            *)
  session,   (* server: MULTI state of the handle's connection             *)
  applied,   (* history: calls whose EXEC took effect                      *)
  loose,     (* history: <<call, key>> changed outside a transaction       *)
  outcome,   (* history: what each call returned                           *)
  listed     (* history: rows in the table when a delete-all listed them,  *)
             (* minus those another client has changed since               *)

serverVars == <<table, session, applied, loose>>
vars == <<status, link, flag, calls, todo, mayRetry, failed, faults, others,
          serverVars, outcome, listed>>

Cmds == [op : OpNames, key : Keys \cup {NoKey}, col : Cols \cup {NoCol}, piped : BOOLEAN]

Cmd(op, k, c) == [op |-> op, key |-> k, col |-> c, piped |-> FALSE]
Piped(op, k, c) == [op |-> op, key |-> k, col |-> c, piped |-> TRUE]

Transactional == {"writeRow", "writeColumn", "deleteRow"}
Idle == todo = << >> /\ status # "aborted"
Current == Len(calls)
NoSession == [open |-> FALSE, dirty |-> FALSE, queued |-> << >>]
EmptyRow == [c \in Cols |-> 0]

(* The variables keep their types, and a call is under way only on a       *)
(* handle that has a connection or can get one.                            *)
TypeOK ==
  /\ status \in {"closed", "open", "aborted"} /\ link \in {"up", "broken", "null"}
  /\ flag \in BOOLEAN /\ mayRetry \in BOOLEAN /\ failed \in BOOLEAN
  /\ Range(calls) \subseteq Ops /\ Range(todo) \subseteq Cmds
  /\ faults \in [loss : 0..MaxLosses, refusal : 0..MaxRefusals] /\ others \in 0..MaxOthers
  /\ table.ids \subseteq Keys
  /\ table.rows \in [Keys -> [Cols -> 0..(MaxCalls + MaxOthers)]]
  /\ session \in [open : BOOLEAN, dirty : BOOLEAN, queued : Seq(Cmds)]
  /\ outcome \in [1..MaxCalls -> {"none", "open", "ok", "failed"}]
  /\ listed \subseteq Keys
  /\ link # "up" => session = NoSession
  /\ status = "closed" /\ todo = << >> => link = "null" /\ ~flag

Init ==
  /\ status = "closed" /\ link = "null" /\ flag = FALSE
  /\ calls = << >> /\ todo = << >> /\ mayRetry = TRUE /\ failed = FALSE
  /\ faults = [loss |-> 0, refusal |-> 0] /\ others = 0
  /\ table = [ids |-> {}, rows |-> [k \in Keys |-> EmptyRow]]
  /\ session = NoSession /\ applied = {} /\ loose = {}
  /\ outcome = [n \in 1..MaxCalls |-> "none"] /\ listed = {}

-----------------------------------------------------------------------------
(* The commands of each call.                                              *)

Multi == Cmd("multi", NoKey, NoCol)
Exec == Cmd("exec", NoKey, NoCol)
Discard == Cmd("discard", NoKey, NoCol)

(* Mutant: a transaction for each column.                                  *)
RowCmds_TxnPerColumn(k, shape) ==
  FlattenSeq([i \in 1..Len(shape) |->
    <<Multi, Cmd("sadd", k, NoCol), Piped("hset", k, shape[i]), Exec>>])

(* write_single_row_hset: the HSETs are pipelined.                         *)
RowCmds(k, shape) ==
  <<Multi, Cmd("sadd", k, NoCol)>>
    \o [i \in 1..Len(shape) |-> Piped("hset", k, shape[i])] \o <<Exec>>

ColumnCmds(k, c) == <<Multi, Cmd("sadd", k, NoCol), Cmd("hset", k, c), Exec>>

(* write_single_row_hmset, which db_write_single_row_sync calls only when  *)
(* it is given no columns: a HMSET without fields.                         *)
EmptyRowCmds(k) ==
  <<Multi, Cmd("sadd", k, NoCol), Cmd("hmset", k, NoCol), Exec, Discard>>

DeleteRowCmds(k) == <<Multi, Cmd("srem", k, NoCol), Cmd("del", k, NoCol), Exec>>

(* Mutant: only the index goes.                                            *)
DeleteListed_IndexOnly(order) == <<Cmd("delset", NoKey, NoCol)>>

(* What db_delete_all_row_sync does with the reply to SMEMBERS.            *)
DeleteListed(order) ==
  [i \in 1..Len(order) |-> Cmd("del", order[i], NoCol)] \o <<Cmd("delset", NoKey, NoCol)>>

-----------------------------------------------------------------------------
(* The server.                                                             *)

(* The effect of the commands q on the table t, run one after the other:   *)
(* what an SADD or HSET does stays unless a later command undoes it.       *)
Effect(t, q) ==
  LET Adds(i, k)      == q[i].op = "sadd" /\ q[i].key = k
      Removes(i, k)   == q[i].op = "delset" \/ (q[i].op = "srem" /\ q[i].key = k)
      Writes(i, k, c) == q[i].op = "hset" /\ q[i].key = k /\ q[i].col = c
      Deletes(i, k)   == q[i].op = "del" /\ q[i].key = k
      After(i)        == {j \in DOMAIN q : j > i}
  IN  [ids  |-> {k \in Keys :
                  \/ k \in t.ids /\ \A i \in DOMAIN q : ~Removes(i, k)
                  \/ \E i \in DOMAIN q : Adds(i, k) /\ \A j \in After(i) : ~Removes(j, k)},
       rows |-> [k \in Keys |-> [c \in Cols |->
                  IF \E i \in DOMAIN q : Writes(i, k, c) /\ \A j \in After(i) : ~Deletes(j, k)
                    THEN Current
                    ELSE IF \E i \in DOMAIN q : Deletes(i, k) THEN 0 ELSE t.rows[k][c]]]]

KeysChanged(c) ==
  CASE c.op \in {"sadd", "srem", "hset", "del"} -> {c.key}
    [] c.op = "delset" -> table.ids
    [] OTHER -> {}

(* Whether the reply to c is no error when the server serves c.            *)
ReplyOk(c) ==
  CASE c.op = "exec"    -> session.open /\ ~session.dirty
    [] c.op = "discard" -> session.open
    [] c.op = "multi"   -> ~session.open
    [] OTHER            -> TRUE

(* The data once c is served.  Inside MULTI a command is only queued; EXEC *)
(* runs the queue, or nothing when one of its commands was refused.  A     *)
(* command without MULTI takes effect at once.                             *)
Serve(c) ==
  CASE c.op = "exec" /\ ReplyOk(c) ->
         /\ table' = Effect(table, session.queued)
         /\ applied' = applied \cup {Current}
         /\ UNCHANGED loose
    [] c.op \notin {"exec", "discard", "multi"} /\ ~session.open ->
         /\ table' = Effect(table, <<c>>)
         /\ loose' = loose \cup ({Current} \X KeysChanged(c))
         /\ UNCHANGED applied
    [] OTHER -> UNCHANGED <<table, applied, loose>>

SessionAfter(c) ==
  CASE c.op = "multi" -> IF session.open THEN session ELSE [NoSession EXCEPT !.open = TRUE]
    [] c.op \in {"exec", "discard"} -> NoSession
    [] OTHER -> IF session.open THEN [session EXCEPT !.queued = Append(@, c)] ELSE session

(* Another client writes a whole row, or deletes one, in a transaction.    *)
OtherClient ==
  /\ others < MaxOthers /\ others' = others + 1
  /\ \E k \in Keys :
       /\ \/ table' = [ids  |-> table.ids \cup {k},
                       rows |-> [table.rows EXCEPT ![k] = [c \in Cols |-> MaxCalls + others']]]
          \/ table' = [ids  |-> table.ids \ {k},
                       rows |-> [table.rows EXCEPT ![k] = EmptyRow]]
       /\ listed' = listed \ {k}
  /\ UNCHANGED <<status, link, flag, calls, todo, mayRetry, failed, faults,
                 session, applied, loose, outcome>>

-----------------------------------------------------------------------------
(* How a call goes on.                                                     *)

(* The call has the commands rest left and its error is err; with none     *)
(* left it returns.                                                        *)
Continue(rest, err) ==
  /\ todo' = rest /\ mayRetry' = TRUE /\ failed' = err
  /\ outcome' = IF rest # << >> THEN outcome
                ELSE [outcome EXCEPT ![Current] = IF err THEN "failed" ELSE "ok"]

(* Mutant: the transaction is left open.                                   *)
AfterFailure_NoDiscard(c) == << >>

(* The commands that follow when c has failed.  A write or row deletion    *)
(* discards its transaction, but write_single_row_hmset returns at once    *)
(* when its SADD fails.  Reads and delete-alls leave one they have met     *)
(* where it is.                                                            *)
AfterFailure(c) ==
  IF /\ flag /\ c.op \notin {"exec", "discard"}
     /\ Last(calls) \in Transactional \/ c.op = "hmset"
    THEN <<Discard>> ELSE << >>

(* Mutant: the connection of a handle whose SELECT failed is kept.         *)
Fail_KeepsLink(c, l) ==
  /\ Continue(AfterFailure(c), TRUE)
  /\ flag' = (flag /\ c.op \notin {"exec", "discard", "multi"})
  /\ link' = l
  /\ UNCHANGED <<status, listed>>

(* exec_sync_cmd returns an error for c and leaves the connection at l.    *)
(* EXEC and DISCARD clear the flag whatever their result, a failed MULTI   *)
(* never set it; db_open_sync frees the handle when its SELECT fails.      *)
Fail(c, l) ==
  /\ Continue(AfterFailure(c), TRUE)
  /\ flag' = (flag /\ c.op \notin {"exec", "discard", "multi"})
  /\ link' = IF c.op = "select" THEN "null" ELSE l
  /\ UNCHANGED <<status, listed>>

(* A VNF_ASSERT fails: the process ends.                                   *)
Abort ==
  /\ status' = "aborted" /\ todo' = << >>
  /\ outcome' = [outcome EXCEPT ![Current] = "failed"]
  /\ UNCHANGED <<flag, mayRetry, failed, listed>>

(* exec_sync_cmd returns DB_SUCCESS for c.  Inside MULTI the reply to a    *)
(* read is +QUEUED and not the array that the code asserts; the caller of  *)
(* SMEMBERS takes it for an empty table.                                   *)
Succeed(c) ==
  \/ c.op \in {"hgetall", "hmget"} /\ session.open /\ Abort
  \/ /\ ~(c.op \in {"hgetall", "hmget"} /\ session.open)
     /\ flag' = ((flag \/ c.op = "multi") /\ c.op \notin {"exec", "discard"})
     /\ status' = IF c.op = "select" THEN "open" ELSE status
     /\ IF c.op = "smembers"
          THEN /\ listed' = table.ids
               /\ \E order \in SetToSeqs(IF session.open THEN {} ELSE table.ids) :
                    Continue(DeleteListed(order), failed)
          ELSE UNCHANGED listed /\ Continue(Tail(todo), failed)

(* Mutant: the error reply to an EXEC is only logged, as that to a         *)
(* pipelined HSET is.                                                      *)
Answered_ExecIgnored ==
  /\ todo # << >> /\ link = "up" /\ Head(todo).op # "hmset"
  /\ LET c == Head(todo)
     IN  /\ Serve(c) /\ session' = SessionAfter(c)
         /\ Succeed(c) /\ UNCHANGED link
  /\ UNCHANGED <<calls, faults, others>>

(* The server serves the command and exec_sync_cmd gets its reply.         *)
Answered ==
  /\ todo # << >> /\ link = "up" /\ Head(todo).op # "hmset"
  /\ LET c == Head(todo)
     IN  /\ Serve(c) /\ session' = SessionAfter(c)
         /\ IF ReplyOk(c) THEN Succeed(c) /\ UNCHANGED link ELSE Fail(c, link)
  /\ UNCHANGED <<calls, faults, others>>

(* The server answers with an error; in a transaction it will not EXEC.    *)
(* get_reply_sync_cmd only logs the error of a pipelined HSET.  The        *)
(* callers of SMEMBERS and HGETALL assert that a failed command left no    *)
(* reply, but exec_sync_cmd has stored it.  A HMSET without fields is      *)
(* always an error.                                                        *)
Refused ==
  /\ todo # << >> /\ link = "up"
  /\ LET c == Head(todo)
     IN  /\ IF c.op = "hmset"
              THEN UNCHANGED faults
              ELSE /\ c.op \in Refusable /\ faults.refusal < MaxRefusals
                   /\ faults' = [faults EXCEPT !.refusal = @ + 1]
         /\ session' = [session EXCEPT !.dirty = session.open]
         /\ CASE c.piped -> /\ Continue(Tail(todo), failed)
                            /\ UNCHANGED <<flag, status, link, listed>>
              [] c.op \in {"smembers", "hgetall"} -> Abort /\ UNCHANGED link
              [] OTHER -> Fail(c, link)
  /\ UNCHANGED <<calls, others, table, applied, loose>>

(* The connection is lost, before or after the server served the command,  *)
(* and the session with it.  For a pipelined command the code asserts that *)
(* this does not happen; a second attempt fails; a first one goes on with  *)
(* a new connection.                                                       *)
Lost ==
  /\ todo # << >> /\ link = "up" /\ faults.loss < MaxLosses
  /\ faults' = [faults EXCEPT !.loss = @ + 1]
  /\ session' = NoSession
  /\ LET c == Head(todo)
     IN  /\ \/ c.op # "hmset" /\ Serve(c)
            \/ UNCHANGED <<table, applied, loose>>
         /\ CASE c.piped -> Abort /\ link' = "broken"
              [] ~c.piped /\ mayRetry ->
                   /\ link' = "broken"
                   /\ UNCHANGED <<status, flag, todo, mayRetry, failed, outcome, listed>>
              [] ~c.piped /\ ~mayRetry -> Fail(c, "broken")
  /\ UNCHANGED <<calls, others>>

(* connect_redis succeeds: for a handle without context before the first   *)
(* attempt, after a failed first attempt for the second and last one.      *)
Reconnect ==
  /\ todo # << >> /\ link # "up"
  /\ link' = "up"
  /\ mayRetry' = (mayRetry /\ link = "null")
  /\ UNCHANGED <<status, flag, calls, todo, failed, faults, others, serverVars,
                 outcome, listed>>

(* connect_redis fails, and with it the command.                           *)
ReconnectFails ==
  /\ todo # << >> /\ link # "up" /\ faults.loss < MaxLosses
  /\ faults' = [faults EXCEPT !.loss = @ + 1]
  /\ Fail(Head(todo), "null")
  /\ UNCHANGED <<status, calls, others, serverVars>>

-----------------------------------------------------------------------------
(* The calls.                                                              *)

Call(op) ==
  /\ op \in Ops /\ todo = << >> /\ Current < MaxCalls
  /\ status = (IF op = "open" THEN "closed" ELSE "open")
  /\ calls' = Append(calls, op)
  /\ UNCHANGED <<status, faults, others, table, applied, loose, listed>>

Begin(cmds, retry) ==
  /\ todo' = cmds /\ mayRetry' = retry /\ failed' = FALSE
  /\ outcome' = [outcome EXCEPT ![Current + 1] = "open"]
  /\ UNCHANGED <<flag, link, session>>

BeginTransaction(cmds) == ~flag /\ Begin(cmds, TRUE)

(* start_transaction refuses while the flag is up, and most calls return.  *)
RefuseTransaction ==
  /\ flag /\ outcome' = [outcome EXCEPT ![Current + 1] = "failed"]
  /\ UNCHANGED <<flag, link, session, todo, mayRetry, failed>>

(* write_single_row_hset goes to its EXIT, which discards the transaction  *)
(* that it has found, and returns the error.                               *)
DiscardLeftover ==
  /\ flag /\ todo' = <<Discard>> /\ mayRetry' = TRUE /\ failed' = TRUE
  /\ outcome' = [outcome EXCEPT ![Current + 1] = "open"]
  /\ UNCHANGED <<flag, link, session>>

(* db_open_sync connects, and sends a SELECT that is not retried.          *)
Open == Call("open") /\ Begin(<<Cmd("select", NoKey, NoCol)>>, FALSE)

WriteRow ==
  \E k \in Keys, shape \in RowShapes :
    Call("writeRow") /\ (BeginTransaction(RowCmds(k, shape)) \/ DiscardLeftover)

WriteColumn ==
  \E k \in Keys, c \in Cols :
    Call("writeColumn") /\ (BeginTransaction(ColumnCmds(k, c)) \/ RefuseTransaction)

WriteEmpty ==
  \E k \in Keys : Call("writeEmpty") /\ (BeginTransaction(EmptyRowCmds(k)) \/ RefuseTransaction)

DeleteRow ==
  \E k \in Keys : Call("deleteRow") /\ (BeginTransaction(DeleteRowCmds(k)) \/ RefuseTransaction)

DeleteAll == Call("deleteAll") /\ Begin(<<Cmd("smembers", NoKey, NoCol)>>, TRUE)

ReadRow == \E k \in Keys : Call("readRow") /\ Begin(<<Cmd("hgetall", k, NoCol)>>, TRUE)

ReadColumns ==
  \E k \in Keys : Call("readColumns") /\ Begin(<<Cmd("hmget", k, NoCol)>>, TRUE)

(* db_close_sync: the server drops what the session had queued.            *)
Close ==
  /\ "close" \in Ops /\ todo = << >> /\ status = "open" /\ Current < MaxCalls
  /\ calls' = Append(calls, "close")
  /\ outcome' = [outcome EXCEPT ![Current + 1] = "ok"]
  /\ status' = "closed" /\ link' = "null" /\ flag' = FALSE /\ session' = NoSession
  /\ UNCHANGED <<todo, mayRetry, failed, faults, others, table, applied, loose, listed>>

(* db_new_status_sync, when the node changes its role: a handle opened     *)
(* with DB_CONNECT_MASTER gets a new connection, in two attempts.  The     *)
(* calls block, so no call is under way.                                   *)
NewStatus ==
  /\ todo = << >> /\ status = "open"
  /\ \E n \in 0..2 :
       /\ faults.loss + n <= MaxLosses /\ faults' = [faults EXCEPT !.loss = @ + n]
       /\ link' = IF n = 2 THEN "null" ELSE "up"
  /\ session' = NoSession
  /\ UNCHANGED <<status, flag, calls, todo, mayRetry, failed, others, table,
                 applied, loose, outcome, listed>>

(* The application may call nothing any more, and an aborted process       *)
(* stays so.                                                               *)
Rest == todo = << >> /\ UNCHANGED vars

Next ==
  \/ Open \/ WriteRow \/ WriteColumn \/ WriteEmpty \/ DeleteRow
  \/ DeleteAll \/ ReadRow \/ ReadColumns \/ Close
  \/ Answered \/ Refused \/ Lost \/ Reconnect \/ ReconnectFails
  \/ NewStatus \/ OtherClient
  \/ Rest

Spec == Init /\ [][Next]_vars

-----------------------------------------------------------------------------
(* What should hold.                                                       *)

Returned(op) == calls # << >> /\ todo = << >> /\ Last(calls) = op
                  /\ outcome[Current] = "ok"

(* DB_SUCCESS of a write or a row deletion means that one EXEC applied all *)
(* of it: exec_sync_cmd may have sent any of the commands twice, but then  *)
(* none of them took effect outside the transaction.                       *)
SuccessIsTransaction ==
  \A n \in DOMAIN calls :
    calls[n] \in Transactional /\ outcome[n] = "ok"
      => n \in applied /\ \A k \in Keys : <<n, k>> \notin loose

(* The row of k is as transactions leave it: it is in the index exactly    *)
(* if it has columns, and a whole-row write is seen whole, but for columns *)
(* that db_write_single_column_sync has written.                           *)
Whole(k) ==
  LET row == table.rows[k]
      ByRow(n) == n > MaxCalls \/ (n > 0 /\ calls[n] # "writeColumn")
  IN  /\ k \in table.ids <=> row # EmptyRow
      /\ \A c, d \in Cols : ByRow(row[c]) => row[d] = row[c] \/ ~(row[d] = 0 \/ ByRow(row[d]))

(* Torn rows only come from commands that were sent again after the        *)
(* session with their MULTI was lost, and from delete-all, which uses no   *)
(* transaction: every other row is whole at any moment.                    *)
WholeUnlessLoose ==
  \A k \in Keys : (\A n \in DOMAIN calls : <<n, k>> \notin loose) => Whole(k)

(* No call leaves a transaction behind, neither in start_transaction nor   *)
(* on the server, whichever of its commands failed: the next write would   *)
(* fail, if only to discard what it found, and the next read would be      *)
(* answered with +QUEUED.  The exception is the write of a row without     *)
(* columns.                                                                *)
NoTransactionLeft ==
  todo = << >> /\ status = "open" /\ "writeEmpty" \notin Range(calls)
    => ~flag /\ ~session.open

ListedGone == \A k \in listed : k \notin table.ids /\ table.rows[k] = EmptyRow

(* "find all keys in the dbtbl_id set and delete hashkey for each"         *)
(* (db_api_sync.c:499): a delete-all that reports success has removed from *)
(* the index and the hashes every row that was in the table when the       *)
(* server got its SMEMBERS, except those that another client changed       *)
(* meanwhile.  The code does not keep this after the write of a row        *)
(* without columns has left its MULTI open: the run of it is a refutation. *)
EveryDeleteAllDone == Returned("deleteAll") => ListedGone

(* The same of a handle that has written no row without columns, whatever  *)
(* else it lost, was refused or sent again before.                         *)
DeleteAllDone ==
  Returned("deleteAll") /\ "writeEmpty" \notin Range(calls) => ListedGone

(* The assertions of the handle on the replies of the server hold as long  *)
(* as no connection is lost and no command refused.  (A refused read does  *)
(* fail one: its error reply is stored, and its caller asserts that there  *)
(* is none.)                                                               *)
AssertionsNeedFaults ==
  status = "aborted" => faults.loss + faults.refusal > 0

=============================================================================
