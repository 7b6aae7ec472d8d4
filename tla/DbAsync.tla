------------------------------ MODULE DbAsync -------------------------------
(***************************************************************************)
(* The asynchronous handle of src/src/db_api.c on one table: the commands  *)
(* an API call queues (pending_cmd_queue), the hiredis connection that     *)
(* carries them, the Redis server that runs them, the replies that         *)
(* db_cmd_callback_fn matches with the queue by position, and the loss,    *)
(* re-establishment and closing of the connection.                         *)
(*                                                                         *)
(* Everything runs on one libevent thread, so an API call and a callback   *)
(* are atomic; the server and the network take their own steps.            *)
(*                                                                         *)
(* The application does not call the API from inside a callback.  (A call  *)
(* from one that reports a success differs from the same call made right   *)
(* after it in one place: a db_delete_all_row from the read_complete_cb of *)
(* an empty table, which the second test of that same reply, 497, ends.    *)
(* Calls from callbacks on the connection itself are in DbLife.)           *)
(***************************************************************************)
EXTENDS RedisTable

CONSTANTS
  Ops,           (* the API calls the application makes                    *)
  RowShapes,     (* column lists the application gives db_write_single_row *)
  MaxCalls,      (* bound: API calls                                       *)
  MaxFaults,     (* bound: lost connections, failed connects, refusals     *)
  Refusable,     (* the commands that the server may refuse: none, those   *)
                 (* that need memory, or any data command                  *)
  ScanWhenDown   (* whether db_read_all and db_delete_all_row are also     *)
                 (* called on a handle that is DB_DISCONNECTED             *)

ASSUME OpsAssumption == Ops \subseteq (CallNames \cup {"close"})
ASSUME ShapesAssumption == RowShapes \subseteq (Seq(Cols) \ {<< >>})
ASSUME BoundsAssumption == MaxCalls \in Nat /\ MaxFaults \in Nat
ASSUME ProfileAssumption == Refusable \subseteq OpNames /\ ScanWhenDown \in BOOLEAN

VARIABLES
  connState,  (* conn_state; "closed" once db_close has freed the handle   *)
  ending,     (* why hiredis is running the outstanding callbacks:         *)
              (* "none", "drop" (connection lost), "close" (db_close)      *)
  pending,    (* pending_cmd_queue                                         *)
  wire,       (* commands given to hiredis whose callback has not run      *)
  answers,    (* replies to the first commands of wire, not yet delivered  *)
  fullRead,   (* full_read_in_progress                                     *)
  deleteAll,  (* delete_all_rows_in_progress                               *)
  rowsLeft,   (* read_state.number_of_rows                                 *)
  writeCb,    (* write_cmd_cb_received                                     *)
  calls,      (* number of API calls made                                  *)
  faults,     (* number of faults that have happened                       *)
  lastCall,   (* history: the last API call that was accepted, or "none"   *)
  outcome,    (* history: what write_cb reported of each write             *)
  readsDue    (* history: read_all calls accepted minus read_complete_cbs  *)

clientVars == <<connState, ending, pending, wire, answers,
                fullRead, deleteAll, rowsLeft, writeCb>>
callVars   == <<calls, lastCall, outcome, readsDue>>
vars       == <<clientVars, callVars, faults, serverVars>>

(* batch_cb_start is written but never read by the code: left out.         *)

(* Every variable keeps its type: the connection state stays one of the    *)
(* states that db_api.c gives it, and the queues hold commands.            *)
TypeOK ==
  /\ connState \in {"connecting", "connected", "disconnected", "closed"}
  /\ ending \in {"none", "drop", "close"}
  /\ pending \in Seq(Cmds) /\ wire \in Seq(Cmds) /\ answers \in Seq(Replies)
  /\ fullRead \in BOOLEAN /\ deleteAll \in BOOLEAN /\ writeCb \in BOOLEAN
  /\ rowsLeft \in Int /\ readsDue \in Int
  /\ calls \in 0..MaxCalls /\ faults \in 0..MaxFaults
  /\ lastCall \in CallNames \cup {"none", "close", "deleteAllBehind"}
  /\ outcome \in [1..MaxCalls -> {"none", "open", "ok", "failed", "twice"}]
  /\ ids \subseteq Keys
  /\ rows \in [Keys -> [Cols -> Nat]]
  /\ txn \in [open : BOOLEAN, dirty : BOOLEAN, queued : SUBSET Cmds]
  /\ applied \subseteq 1..MaxCalls

(* db_open: the handle exists and its first connection is being set up.    *)
Init ==
  /\ connState = "connecting" /\ ending = "none"
  /\ pending = << >> /\ wire = << >> /\ answers = << >>
  /\ fullRead = FALSE /\ deleteAll = FALSE /\ rowsLeft = 0 /\ writeCb = FALSE
  /\ calls = 0 /\ faults = 0 /\ lastCall = "none"
  /\ outcome = [w \in 1..MaxCalls |-> "none"] /\ readsDue = 0
  /\ ServerInit

-----------------------------------------------------------------------------
(* Command groups of the API calls.                                        *)

(* Mutants: EXEC before the columns; one transaction for each column.      *)
WriteCmds_EarlyExec(k, shape, w, by) ==
  <<Cmd("multi", NoKey, NoCol, w, by), Cmd("sadd", k, NoCol, w, by),
    Cmd("exec", k, NoCol, w, by)>>
    \o [i \in 1..Len(shape) |-> Cmd("hmset", k, shape[i], w, by)]

WriteCmds_TxnPerColumn(k, shape, w, by) ==
  FlattenSeq([i \in 1..Len(shape) |->
    <<Cmd("multi", NoKey, NoCol, w, by), Cmd("sadd", k, NoCol, w, by),
      Cmd("hmset", k, shape[i], w, by), Cmd("exec", k, NoCol, w, by)>>])

(* db_write_single_row, and db_write_single_column with one column.        *)
WriteCmds(k, shape, w, by) ==
  <<Cmd("multi", NoKey, NoCol, w, by), Cmd("sadd", k, NoCol, w, by)>>
    \o [i \in 1..Len(shape) |-> Cmd("hmset", k, shape[i], w, by)]
    \o <<Cmd("exec", k, NoCol, w, by)>>

(* Mutant: the hash goes before the index entry.                           *)
DeleteCmds_RowFirst(k, by) == <<Cmd("del", k, NoCol, 0, by), Cmd("srem", k, NoCol, 0, by)>>

DeleteCmds(k, by) == <<Cmd("srem", k, NoCol, 0, by), Cmd("del", k, NoCol, 0, by)>>

SmembersCmd(by) == Cmd("smembers", NoKey, NoCol, 0, by)

(* issue_read_commands: one HGETALL for each key that SMEMBERS listed.     *)
ReadCmds(order) ==
  [i \in 1..Len(order) |-> Cmd("hgetall", order[i], NoCol, 0, "readAll")]

(* Mutant: the hashes are forgotten.                                       *)
DelRowCmds_IndexOnly(order) ==
  [i \in 1..Len(order) |-> Cmd("srem", order[i], NoCol, 0, "deleteAll")]

(* issue_del_row_commands: SREM and DEL of each key that SMEMBERS listed.  *)
DelRowCmds(order) ==
  [i \in 1..(2 * Len(order)) |->
     IF i % 2 = 1 THEN Cmd("srem", order[(i + 1) \div 2], NoCol, 0, "deleteAll")
                  ELSE Cmd("del", order[i \div 2], NoCol, 0, "deleteAll")]

(* db_exec_cmd for each command: it is sent at once when the handle is     *)
(* connected, and it always joins the pending queue.                       *)
ExecCmds(cmds) ==
  /\ pending' = pending \o cmds
  /\ wire' = IF connState = "connected" THEN wire \o cmds ELSE wire

(* Mutant: the handle with a new connection is put back to DB_INIT.        *)
ReturnFrom_ToInit(fr, da) ==
  IF connState = "disconnected"
    THEN fullRead' = FALSE /\ deleteAll' = FALSE /\ connState' = "init"
    ELSE fullRead' = fr /\ deleteAll' = da /\ UNCHANGED connState

(* The end of an API call that leaves the two flags at fr and da: when the *)
(* handle is not connected the call returns DB_PENDING, and                *)
(* db_state_handle_error then clears the flags and opens a new connection  *)
(* if the handle is DB_DISCONNECTED (DB_CONNECTING: nothing to do).        *)
ReturnFrom(fr, da) ==
  IF connState = "disconnected"
    THEN fullRead' = FALSE /\ deleteAll' = FALSE /\ connState' = "connecting"
    ELSE fullRead' = fr /\ deleteAll' = da /\ UNCHANGED connState

(* The application calls op.  Calls are made from the event loop, so never *)
(* while hiredis is running the callbacks of a connection that ends.       *)
MayCall(op) ==
  /\ op \in Ops /\ calls < MaxCalls
  /\ ending = "none" /\ connState # "closed"

(* What lastCall holds of a call: its name, or "deleteAllBehind" for a     *)
(* delete-all that is called while another SMEMBERS or a DEL is queued,    *)
(* whose replies the handle takes for those of the delete-all.             *)
Recorded(op) ==
  IF op = "deleteAll" /\ \E i \in DOMAIN pending : pending[i].op \in {"smembers", "del"}
    THEN "deleteAllBehind" ELSE op

Call(op) ==
  /\ MayCall(op)
  /\ calls' = calls + 1 /\ lastCall' = Recorded(op)
  /\ UNCHANGED <<ending, answers, rowsLeft, writeCb, faults, serverVars>>

MayScan == ScanWhenDown \/ connState # "disconnected"

-----------------------------------------------------------------------------
(* API calls.                                                              *)

SubmitWrite(k, shape, by) ==
  /\ Call(by)
  /\ ExecCmds(WriteCmds(k, shape, calls + 1, by))
  /\ ReturnFrom(fullRead, deleteAll)
  /\ outcome' = [outcome EXCEPT ![calls + 1] = "open"]
  /\ UNCHANGED readsDue

WriteSingleRow == \E k \in Keys, shape \in RowShapes : SubmitWrite(k, shape, "writeRow")

WriteSingleColumn == \E k \in Keys, c \in Cols : SubmitWrite(k, <<c>>, "writeColumn")

DeleteSingleRow ==
  /\ Call("deleteRow")
  /\ \E k \in Keys : ExecCmds(DeleteCmds(k, "deleteRow"))
  /\ ReturnFrom(fullRead, deleteAll)
  /\ UNCHANGED <<outcome, readsDue>>

(* Refused with DB_ERROR_DELETE_ALL_IN_PROGRESS while the flag is up.      *)
DeleteAllRow ==
  /\ MayScan /\ ~deleteAll
  /\ Call("deleteAll")
  /\ ExecCmds(<<SmembersCmd("deleteAll")>>)
  /\ ReturnFrom(fullRead, TRUE)
  /\ UNCHANGED <<outcome, readsDue>>

(* Refused with DB_ERROR_FULL_READ_IN_PROGRESS while the flag is up.       *)
ReadAll ==
  /\ MayScan /\ ~fullRead
  /\ Call("readAll")
  /\ ExecCmds(<<SmembersCmd("readAll")>>)
  /\ ReturnFrom(TRUE, deleteAll)
  /\ readsDue' = readsDue + 1
  /\ UNCHANGED outcome

(* db_delete_all: FLUSHDB.                                                 *)
FlushAll ==
  /\ Call("flush")
  /\ ExecCmds(<<Cmd("flushdb", NoKey, NoCol, 0, "flush")>>)
  /\ ReturnFrom(fullRead, deleteAll)
  /\ UNCHANGED <<outcome, readsDue>>

(* db_close: hiredis first fails what is outstanding on the connection,    *)
(* then db_empty_cmd_queue fails the rest, then the handle is freed.       *)
Close ==
  /\ MayCall("close")
  /\ ending' = "close" /\ answers' = << >>
  /\ calls' = calls + 1 /\ lastCall' = "close"
  /\ ServerForgets
  /\ UNCHANGED <<connState, pending, wire, fullRead, deleteAll, rowsLeft,
                 writeCb, faults, outcome, readsDue>>

-----------------------------------------------------------------------------
(* Connection and server.                                                  *)

(* A fault of the environment, from the budget MaxFaults.                  *)
Fault == faults < MaxFaults /\ faults' = faults + 1

(* Mutants: the flush pops what it sends; there is no flush.               *)
ConnectOk_PopsQueue ==
  /\ connState = "connecting" /\ ending = "none"
  /\ connState' = "connected" /\ wire' = pending /\ pending' = << >> /\ answers' = << >>
  /\ UNCHANGED <<ending, fullRead, deleteAll, rowsLeft, writeCb,
                 callVars, faults, serverVars>>

ConnectOk_NoFlush ==
  /\ connState = "connecting" /\ ending = "none"
  /\ connState' = "connected" /\ wire' = << >> /\ answers' = << >>
  /\ UNCHANGED <<ending, pending, fullRead, deleteAll, rowsLeft, writeCb,
                 callVars, faults, serverVars>>

(* db_connect_fn, success: every queued command is sent, none is popped.   *)
ConnectOk ==
  /\ connState = "connecting" /\ ending = "none"
  /\ connState' = "connected" /\ wire' = pending /\ answers' = << >>
  /\ UNCHANGED <<ending, pending, fullRead, deleteAll, rowsLeft, writeCb,
                 callVars, faults, serverVars>>

(* db_connect_fn, failure: DB_DISCONNECTED and at once db_init_connect, so *)
(* that the handle is DB_CONNECTING again with its queue kept.             *)
ConnectFail ==
  /\ connState = "connecting" /\ ending = "none"
  /\ Fault
  /\ UNCHANGED <<clientVars, callVars, serverVars>>

(* The connection is lost; replies that were on their way are lost with it.*)
ConnectionLost ==
  /\ connState = "connected" /\ ending = "none"
  /\ Fault
  /\ ending' = "drop" /\ answers' = << >>
  /\ ServerForgets
  /\ UNCHANGED <<connState, pending, wire, fullRead, deleteAll, rowsLeft,
                 writeCb, callVars>>

NextServed == wire[Len(answers) + 1]

ServerCanRun ==
  /\ connState = "connected" /\ ending = "none"
  /\ Len(answers) < Len(wire)

ServerRuns ==
  /\ ServerCanRun
  /\ Serve(NextServed)
  /\ answers' = Append(answers, AnswerTo(NextServed))
  /\ UNCHANGED <<connState, ending, pending, wire, fullRead, deleteAll,
                 rowsLeft, writeCb, callVars, faults>>

ServerRefusal ==
  /\ ServerCanRun
  /\ NextServed.op \in Refusable
  /\ Fault
  /\ Refuse(NextServed)
  /\ answers' = Append(answers, ErrorAnswer)
  /\ UNCHANGED <<connState, ending, pending, wire, fullRead, deleteAll,
                 rowsLeft, writeCb, callVars>>

-----------------------------------------------------------------------------
(* db_cmd_callback_fn.  The command is the head of pending, whichever      *)
(* command hiredis has the reply of.                                       *)

(* Mutant: the last row does not complete the read.                        *)
CountRow_OffByOne ==
  /\ rowsLeft' = rowsLeft - 1
  /\ readsDue' = IF rowsLeft - 1 < 0 THEN readsDue - 1 ELSE readsDue

(* number_of_rows counts down; at 0 or below it read_complete_cb is called.*)
CountRow ==
  /\ rowsLeft' = rowsLeft - 1
  /\ readsDue' = IF rowsLeft - 1 <= 0 THEN readsDue - 1 ELSE readsDue

(* write_cb(result) for the write that the EXEC c ends, unless no HMSET    *)
(* callback was seen since the last one.                                   *)
ReportWrite(c, result) ==
  /\ outcome' = IF writeCb
                  THEN [outcome EXCEPT ![c.id] = IF @ = "open" THEN result ELSE "twice"]
                  ELSE outcome
  /\ writeCb' = FALSE

(* Mutants: a failure that is not passed on, or passed on as success.      *)
FailSmembers_Silent == fullRead' = FALSE /\ UNCHANGED <<rowsLeft, readsDue, writeCb, outcome>>

FailHmset_NoFlag == UNCHANGED <<fullRead, rowsLeft, writeCb, readsDue, outcome>>

FailExec_Ok(c) == ReportWrite(c, "ok") /\ UNCHANGED <<fullRead, rowsLeft, readsDue>>

(* db_cmd_failure(c), by the name of the command.                          *)
FailSmembers ==
  /\ fullRead' = FALSE
  /\ readsDue' = IF fullRead THEN readsDue - 1 ELSE readsDue
  /\ UNCHANGED <<rowsLeft, writeCb, outcome>>

FailHgetall == CountRow /\ UNCHANGED <<fullRead, writeCb, outcome>>

FailHmset == writeCb' = TRUE /\ UNCHANGED <<fullRead, rowsLeft, readsDue, outcome>>

FailExec(c) == ReportWrite(c, "failed") /\ UNCHANGED <<fullRead, rowsLeft, readsDue>>

FailOther == UNCHANGED <<fullRead, rowsLeft, writeCb, readsDue, outcome>>

CmdFailure(c) ==
  \/ c.op = "smembers" /\ FailSmembers
  \/ c.op = "hgetall" /\ FailHgetall
  \/ c.op = "hmset" /\ FailHmset
  \/ c.op = "exec" /\ FailExec(c)
  \/ c.op \notin {"smembers", "hgetall", "hmset", "exec"} /\ FailOther

(* hiredis delivers the reply to the first command of wire.                *)
Deliver ==
  /\ connState = "connected" /\ ending = "none"
  /\ answers # << >> /\ pending # << >>
  /\ wire # << >>
  /\ answers' = Tail(answers)
  /\ UNCHANGED <<connState, ending, calls, lastCall, faults, serverVars>>

Popped ==
  /\ pending' = Tail(pending)
  /\ wire' = Tail(wire)

(* SMEMBERS: the commands of the full read, then those of the delete-all,  *)
(* each if its flag is up, are queued and sent.                            *)
ReplySmembers ==
  /\ Deliver
  /\ Head(answers).ok /\ Head(pending).op = "smembers"
  /\ \E order \in SetToSeqs(Head(answers).listed) :
       LET more == (IF fullRead THEN ReadCmds(order) ELSE << >>)
                     \o (IF deleteAll THEN DelRowCmds(order) ELSE << >>)
       IN  /\ pending' = Tail(pending) \o more
           /\ wire' = Tail(wire) \o more
           /\ rowsLeft' = IF fullRead /\ order # << >> THEN Len(order) ELSE rowsLeft
           /\ readsDue' = IF fullRead /\ order = << >> THEN readsDue - 1 ELSE readsDue
           /\ deleteAll' = (deleteAll /\ order # << >>)
  /\ fullRead' = FALSE
  /\ UNCHANGED <<writeCb, outcome>>

ReplyHgetall ==
  /\ Deliver /\ Popped
  /\ Head(answers).ok /\ Head(pending).op = "hgetall"
  /\ CountRow
  /\ UNCHANGED <<fullRead, deleteAll, writeCb, outcome>>

(* Mutant: the flag is never lowered.                                      *)
ReplyDel_KeepsFlag ==
  /\ Deliver /\ Popped
  /\ Head(answers).ok /\ Head(pending).op = "del"
  /\ UNCHANGED <<fullRead, deleteAll, rowsLeft, writeCb, readsDue, outcome>>

(* The reply to any DEL ends a delete-all.                                 *)
ReplyDel ==
  /\ Deliver /\ Popped
  /\ Head(answers).ok /\ Head(pending).op = "del"
  /\ deleteAll' = FALSE
  /\ UNCHANGED <<fullRead, rowsLeft, writeCb, readsDue, outcome>>

ReplyHmset ==
  /\ Deliver /\ Popped
  /\ Head(answers).ok /\ Head(pending).op = "hmset"
  /\ writeCb' = TRUE
  /\ UNCHANGED <<fullRead, deleteAll, rowsLeft, readsDue, outcome>>

ReplyExec ==
  /\ Deliver /\ Popped
  /\ Head(answers).ok /\ Head(pending).op = "exec"
  /\ ReportWrite(Head(pending), "ok")
  /\ UNCHANGED <<fullRead, deleteAll, rowsLeft, readsDue>>

ReplyOther ==
  /\ Deliver /\ Popped
  /\ Head(answers).ok /\ Head(pending).op \in {"multi", "sadd", "srem", "flushdb"}
  /\ UNCHANGED <<fullRead, deleteAll, rowsLeft, writeCb, readsDue, outcome>>

ReplyError ==
  /\ Deliver /\ Popped
  /\ ~Head(answers).ok
  /\ CmdFailure(Head(pending))
  /\ UNCHANGED deleteAll

(* A connection that ends: hiredis runs every outstanding callback with a  *)
(* NULL reply ...                                                          *)
NullReply ==
  /\ ending # "none" /\ wire # << >> /\ pending # << >>
  /\ Popped
  /\ CmdFailure(Head(pending))
  /\ UNCHANGED <<connState, ending, answers, deleteAll, calls, lastCall,
                 faults, serverVars>>

(* ... then db_empty_cmd_queue fails what is still queued ...              *)
EmptyCmdQueue ==
  /\ ending # "none" /\ wire = << >> /\ pending # << >>
  /\ pending' = Tail(pending)
  /\ CmdFailure(Head(pending))
  /\ UNCHANGED <<connState, ending, wire, answers, deleteAll, calls, lastCall,
                 faults, serverVars>>

(* ... and db_disconnect_fn, or db_close, has done its work.  Nothing      *)
(* reconnects a handle that lost its connection until the next API call.   *)
Ended ==
  /\ ending # "none" /\ wire = << >> /\ pending = << >>
  /\ ending' = "none"
  /\ connState' = IF ending = "drop" THEN "disconnected" ELSE "closed"
  /\ fullRead' = FALSE /\ deleteAll' = FALSE
  /\ UNCHANGED <<pending, wire, answers, rowsLeft, writeCb, callVars, faults,
                 serverVars>>

(* The event loop has nothing left to do.                                  *)
Idle ==
  /\ ending = "none" /\ pending = << >>
  /\ connState # "connecting"
  /\ UNCHANGED vars

-----------------------------------------------------------------------------
ApiCall == \/ WriteSingleRow \/ WriteSingleColumn \/ DeleteSingleRow
           \/ DeleteAllRow \/ ReadAll \/ FlushAll \/ Close

Callback == \/ ReplySmembers \/ ReplyHgetall \/ ReplyDel \/ ReplyHmset
            \/ ReplyExec \/ ReplyOther \/ ReplyError

TearDown == NullReply \/ EmptyCmdQueue \/ Ended

Next == \/ ApiCall \/ ConnectOk \/ ConnectFail \/ ConnectionLost
        \/ ServerRuns \/ ServerRefusal \/ Callback \/ TearDown \/ Idle

Spec == Init /\ [][Next]_vars

(* libevent runs every handler that is ready, the server serves what it    *)
(* has received, and a connection attempt that is repeated in the end      *)
(* succeeds.  The application owes no call.                                *)
Fairness == WF_vars(ConnectOk) /\ WF_vars(ServerRuns)
              /\ WF_vars(Callback) /\ WF_vars(TearDown)

FairSpec == Spec /\ Fairness

-----------------------------------------------------------------------------
(* What should hold.                                                       *)

(* Replies carry no identification: db_cmd_callback_fn takes the head of   *)
(* pending_cmd_queue for the command that is answered.  That is right only *)
(* if, on a connected handle, hiredis waits for exactly the queued         *)
(* commands in their order, across reconnects that resend the queue; and a *)
(* handle without a connection has nothing queued that was already sent.   *)
ReplyMatching ==
  /\ connState = "connected" => wire = pending
  /\ connState = "connecting" => wire = << >>
  /\ connState \in {"disconnected", "closed"} => pending = << >> /\ wire = << >>
  /\ ending = "drop" => connState = "connected"
  /\ ending # "none" => answers = << >>
  /\ Len(answers) <= Len(wire)

(* Every write that was accepted is answered by exactly one write_cb: it   *)
(* is unanswered as long as its EXEC is queued, and never answered twice.  *)
WriteAnsweredOnce ==
  \A w \in 1..MaxCalls :
    /\ outcome[w] # "twice"
    /\ outcome[w] = "open"
         <=> \E i \in DOMAIN pending : pending[i].op = "exec" /\ pending[i].id = w

(* write_cb(DB_SUCCESS) is called only for a write whose EXEC the server   *)
(* applied, whatever was lost or resent in between.                        *)
SuccessMeansApplied ==
  \A w \in 1..MaxCalls : outcome[w] = "ok" => w \in applied

(* The MULTI of a write closes over its own commands only: the command the *)
(* server runs next is one of a transaction exactly when one is open, also *)
(* after a connection was lost in the middle of a write.                   *)
TransactionsSeparate ==
  ServerCanRun => (txn.open <=> NextServed.op \in {"sadd", "hmset", "exec"})

(* A full read ends with one read_complete_cb, after the read_cb of its    *)
(* last row: reads are owed only while the SMEMBERS is expected or row     *)
(* commands are outstanding, and number_of_rows counts those exactly.      *)
FullReadAccounting ==
  LET rowReads == {i \in DOMAIN pending : pending[i].op = "hgetall"}
  IN  /\ readsDue = (IF fullRead THEN 1 ELSE 0) + (IF rowReads # {} THEN 1 ELSE 0)
      /\ rowsLeft = Cardinality(rowReads)

(* The index never names a row that is gone: rows are removed from the     *)
(* index first, so that a connection lost between SREM and DEL can leave   *)
(* an unlisted row but not a listed one without columns.                   *)
IndexedRowsExist == \A k \in ids : rows[k] # EmptyRow

(* db_delete_all_row leaves an empty table once its commands have run, if  *)
(* nothing was called after it, nothing failed, and no SMEMBERS or DEL of  *)
(* an earlier call was queued in front of it: the reply to that DEL lowers *)
(* its flag too early, and the delete-all ends without a deletion.         *)
DeleteAllEmptiesTable ==
  ( /\ lastCall = "deleteAll" /\ faults = 0
    /\ connState = "connected" /\ ending = "none" /\ pending = << >> )
  => ids = {} /\ rows = EmptyRows

(* The row a reader can find: db_read_all looks up the index first.        *)
ListedRows == [k \in Keys |-> IF k \in ids THEN rows[k] ELSE EmptyRow]

Store == INSTANCE RowStore WITH table <- ListedRows

(* The handle and the server together implement the row store.             *)
ImplementsStore == Store!Spec

(* Every accepted write is answered in the end.                            *)
WritesAnswered ==
  \A w \in 1..MaxCalls : outcome[w] = "open" ~> outcome[w] \in {"ok", "failed"}

(* "It is guaranteed to be called when db_read_all() is invoked()"         *)
(* (db_api.h:146): no full read stays without its read_complete_cb.        *)
ReadsComplete == readsDue > 0 ~> readsDue = 0

(* A delete-all ends, so that the API does not answer for ever that "DB    *)
(* delete all rows is in progress" (db_api.h:98).                          *)
DeleteAllEnds == deleteAll ~> ~deleteAll

=============================================================================
