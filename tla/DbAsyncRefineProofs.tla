------------------------ MODULE DbAsyncRefineProofs ------------------------
(***************************************************************************)
(* The asynchronous handle and the server together implement RowStore, for *)
(* every value of the constants under which either nothing fails or the    *)
(* application writes whole rows only.  The step of the store that a step  *)
(* of the handle stands for:                                               *)
(*   a write call               Begin                                      *)
(*   the server runs EXEC       Apply, with the columns that were queued   *)
(*   write_cb                   Succeed or Fail                            *)
(*   SREM, DEL, FLUSHDB         Remove                                     *)
(*   anything else              nothing                                    *)
(***************************************************************************)
EXTENDS DbAsyncStoreProofs

StoreStep == [Store!Next]_(Store!storeVars)

(* The empty table of db_open is the empty store.                          *)
LEMMA StoreInit == Init => Store!Init
  BY DEF Init, ServerInit, Store!Init, Store!Writes, Store!NoRow, ListedRows, EmptyRow, EmptyRows

(* A step that leaves the table and the writes alone is none of the store. *)
LEMMA StoreStutter ==
  ASSUME UNCHANGED <<ids, rows, applied, outcome>>
  PROVE  StoreStep
  BY DEF StoreStep, Store!storeVars, ListedRows

(* The number of the next call is not in use by a write.                   *)
LEMMA StoreBegin ==
  ASSUME IInv, calls < MaxCalls, outcome' = [outcome EXCEPT ![calls + 1] = "open"],
         UNCHANGED <<ids, rows, applied>>
  PROVE  StoreStep
<1>1. calls + 1 \in 1..MaxCalls
  BY BoundsAssumption DEF IInv, TypeOK
<1>2. outcome[calls + 1] = "none"
  BY <1>1 DEF IInv, TypeOK, PendingInv, QueueInv, NoneAfter
<1>3. ListedRows' = ListedRows
  BY DEF ListedRows
<1>4. Store!Begin(calls + 1)
  BY <1>2, <1>3 DEF Store!Begin
<1> QED
  BY <1>1, <1>4 DEF StoreStep, Store!Next, Store!Writes

(* The API calls.                                                          *)
LEMMA StoreCalls == IInv /\ ApiCall => StoreStep
<1> SUFFICES ASSUME IInv, ApiCall PROVE StoreStep
  OBVIOUS
<1>1. ASSUME NEW k, NEW shape, NEW by, SubmitWrite(k, shape, by) PROVE StoreStep
  BY <1>1, StoreBegin DEF SubmitWrite, Call, MayCall, serverVars
<1>2. CASE WriteSingleRow \/ WriteSingleColumn
  BY <1>1, <1>2 DEF WriteSingleRow, WriteSingleColumn
<1>3. CASE DeleteSingleRow \/ DeleteAllRow \/ ReadAll \/ FlushAll
  BY <1>3, StoreStutter DEF DeleteSingleRow, DeleteAllRow, ReadAll, FlushAll, Call, serverVars
<1>4. CASE Close
  BY <1>4, StoreStutter DEF Close, ServerForgets
<1> QED
  BY <1>2, <1>3, <1>4 DEF ApiCall

(* An EXEC that the server runs changes one row of the store, by the       *)
(* columns that were queued for it.  A row that was not listed has none of *)
(* its own left, or the write gives it all its columns.                    *)
LEMMA StoreApply ==
  ASSUME TypeOK, NEW c \in Cmds, c.op = "exec", c.id \in 1..MaxCalls, InTxn(c, txn), ~txn.dirty,
         ServeExec(c), outcome[c.id] = "open", c.id \notin applied, outcome' = outcome,
         c.key \in ids \/ rows[c.key] = EmptyRow
           \/ \A d \in Cols : \E h \in txn.queued : h.op = "hmset" /\ h.col = d
  PROVE  StoreStep
<1> DEFINE cs == {d \in Cols : \E h \in txn.queued : h.op = "hmset" /\ h.col = d}
           k == c.key
           w == c.id
<1>0. w \in Nat \ {0}
  BY BoundsAssumption
<1>1. /\ k \in Keys /\ ids' = ids \cup {k} /\ applied' = applied \cup {w}
      /\ \A j \in Keys \ {k} : rows'[j] = rows[j]
      /\ \A d \in Cols : rows'[k][d] = IF d \in cs THEN w ELSE rows[k][d]
      /\ cs # {}
      /\ rows' \in [Keys -> [Cols -> Nat]]
  BY <1>0, ExecEffect
<1>2. cs \in (SUBSET Cols) \ {{}} /\ rows \in [Keys -> [Cols -> Nat]]
  BY <1>1 DEF TypeOK
<1>3. k \in ids \/ rows[k] = EmptyRow \/ cs = Cols
  <2>1. (\A d \in Cols : \E h \in txn.queued : h.op = "hmset" /\ h.col = d) => cs = Cols
    OBVIOUS
  <2> QED
    BY <2>1
<1> HIDE DEF cs, k, w
<1>4. ListedRows' = [ListedRows EXCEPT ![k] = [d \in Cols |-> IF d \in cs THEN w ELSE @[d]]]
  <2> DEFINE old == IF k \in ids THEN rows[k] ELSE EmptyRow
             new == [d \in Cols |-> IF d \in cs THEN w ELSE old[d]]
  <2>1. rows'[k] = new
    <3>1. rows'[k] = [d \in Cols |-> IF d \in cs THEN w ELSE rows[k][d]]
      BY <1>1
    <3>2. ASSUME NEW d \in Cols
          PROVE  (IF d \in cs THEN w ELSE rows[k][d]) = (IF d \in cs THEN w ELSE old[d])
      BY <1>3, <3>2
    <3> QED
      BY <3>1, <3>2
  <2>2. ListedRows[k] = old
    BY <1>1 DEF ListedRows
  <2>3. \A j \in Keys : ListedRows'[j] = IF j = k THEN new ELSE ListedRows[j]
    BY <1>1, <2>1 DEF ListedRows
  <2> HIDE DEF old, new
  <2>4. ListedRows' = [j \in Keys |-> IF j = k THEN new ELSE ListedRows[j]]
    BY <2>3 DEF ListedRows
  <2>5. [ListedRows EXCEPT ![k] = [d \in Cols |-> IF d \in cs THEN w ELSE @[d]]]
          = [ListedRows EXCEPT ![k] = new]
    BY <1>1, <2>2 DEF new, ListedRows
  <2>6. [ListedRows EXCEPT ![k] = new] = [j \in Keys |-> IF j = k THEN new ELSE ListedRows[j]]
    BY DEF ListedRows
  <2> QED
    BY <2>4, <2>5, <2>6
<1>5. Store!Apply(w, k, cs)
  BY <1>1, <1>4 DEF Store!Apply, w
<1>6. w \in 1..MaxCalls
  BY DEF w
<1> QED
  BY <1>1, <1>2, <1>5, <1>6 DEF StoreStep, Store!Next, Store!Writes

(* A step that takes the rows ks out of the index, or empties them.        *)
LEMMA StoreRemove ==
  ASSUME NEW ks \in SUBSET Keys, UNCHANGED <<applied, outcome>>,
         \A k \in Keys : ListedRows'[k] = IF k \in ks THEN EmptyRow ELSE ListedRows[k]
  PROVE  StoreStep
<1>1. ListedRows' = [k \in Keys |-> IF k \in ks THEN EmptyRow ELSE ListedRows[k]]
  BY DEF ListedRows
<1>2. Store!Remove(ks)
  BY <1>1 DEF Store!Remove, Store!NoRow, EmptyRow
<1> QED
  BY <1>2 DEF StoreStep, Store!Next

(* The server: the command that comes next is served or refused.           *)
LEMMA StoreServer ==
  ASSUME WholeRows \/ Reliable, IInv, TxnInv, RowsInv, ServerRuns \/ ServerRefusal
  PROVE  StoreStep
<1> DEFINE p == Len(answers) + 1
           c == pending[p]
<1>1. /\ connState = "connected" /\ ending = "none" /\ wire = pending
      /\ p \in 1..Len(pending) /\ pending \in Seq(Cmds) /\ outcome' = outcome
      /\ Serve(c) \/ Refuse(c)
  <2>1. /\ connState = "connected" /\ ending = "none" /\ Len(answers) < Len(wire)
        /\ outcome' = outcome /\ (Serve(NextServed) \/ Refuse(NextServed))
    BY DEF ServerRuns, ServerRefusal, ServerCanRun, callVars
  <2>2. wire = pending
    BY <2>1 DEF IInv, ReplyMatching
  <2>3. pending \in Seq(Cmds) /\ Len(answers) \in Nat /\ Len(pending) \in Nat
    BY PositionType
  <2> QED
    BY <2>1, <2>2, <2>3 DEF NextServed
<1>2. c \in Cmds /\ InTxn(c, txn) /\ c.op \in OpNames
  <2>1. c \in Cmds
    BY <1>1
  <2>2. p <= Len(pending)
    BY <1>1
  <2>3. InTxn(c, txn)
    BY <1>1, <2>2 DEF TxnInv, Position
  <2> QED
    BY <2>1, <2>3 DEF Cmds
<1>3. CASE c.op = "exec" /\ ServeExec(c) /\ ~txn.dirty
  <2>1. c.id \in 1..MaxCalls /\ outcome[c.id] = "open"
    <3>1. c.id \in 1..MaxCalls
      BY <1>1, <1>3, ExecNumber
    <3>2. p \in DOMAIN pending
      BY <1>1
    <3> QED
      BY <1>3, <3>1, <3>2 DEF IInv, PendingInv, QueueInv, OpenIffQueued
  <2>2. c.id \notin applied
    BY <1>1, <1>3 DEF RowsInv, AppliedInv, NotYetApplied
  <2>3. c.key \in ids \/ rows[c.key] = EmptyRow
          \/ \A d \in Cols : \E h \in txn.queued : h.op = "hmset" /\ h.col = d
    <3>1. CASE WholeRows
      <4>1. \A d \in Cols : ColumnSet(pending, p, txn, p, d)
        BY <1>1, <1>3, <3>1 DEF RowsInv, CoverInv, Covered
      <4>2. \A j \in p..p : j = p
        BY <1>1
      <4> QED
        BY <1>3, <4>1, <4>2 DEF ColumnSet
    <3>2. CASE Reliable
      <4>1. c.key \in Keys
        BY <1>2, <1>3 DEF InTxn, InWrite, OfWrite
      <4>2. faults = 0
        BY <3>2, BoundsAssumption DEF Reliable, IInv, TypeOK
      <4> QED
        BY <1>1, <1>3, <4>1, <4>2 DEF RowsInv, OrphanInv, NoOrphans
    <3> QED
      BY <3>1, <3>2
  <2>4. TypeOK
    BY DEF IInv
  <2> HIDE DEF c
  <2> QED
    BY <1>1, <1>2, <1>3, <2>1, <2>2, <2>3, <2>4, StoreApply
<1> HIDE DEF c
<1>4. CASE UNCHANGED <<ids, rows, applied>>
  BY <1>1, <1>4, StoreStutter
<1>5. CASE ServeSrem(c) \/ ServeDel(c)
  <2> DEFINE ks == {c.key} \cap Keys
  <2>1. UNCHANGED <<applied, outcome>>
    BY <1>1, <1>5 DEF ServeSrem, ServeDel
  <2>2. \A k \in Keys : ListedRows'[k] = IF k \in ks THEN EmptyRow ELSE ListedRows[k]
    BY <1>5 DEF ServeSrem, ServeDel, ListedRows
  <2> HIDE DEF ks
  <2>3. ks \in SUBSET Keys
    BY DEF ks
  <2> QED
    BY <2>1, <2>2, <2>3, StoreRemove
<1>6. CASE ServeFlush(c)
  <2>1. UNCHANGED <<applied, outcome>>
    BY <1>1, <1>6 DEF ServeFlush
  <2>2. \A k \in Keys : ListedRows'[k] = IF k \in Keys THEN EmptyRow ELSE ListedRows[k]
    BY <1>6 DEF ServeFlush, ListedRows
  <2> QED
    BY <2>1, <2>2, StoreRemove
<1>7. \/ c.op = "exec" /\ ServeExec(c) /\ ~txn.dirty
      \/ UNCHANGED <<ids, rows, applied>>
      \/ ServeSrem(c) \/ ServeDel(c) \/ ServeFlush(c)
  BY <1>1 DEF Serve, ServeMulti, ServeQueued, ServeExec, ServeRead, Refuse, serverVars
<1> QED
  BY <1>3, <1>4, <1>5, <1>6, <1>7

(* write_cb answers the write of the EXEC at the head of the queue.        *)
LEMMA StoreReport ==
  ASSUME IInv, pending # << >>, Head(pending).op = "exec", NEW result \in {"ok", "failed"},
         ReportWrite(Head(pending), result), result = "ok" => Head(pending).id \in applied,
         UNCHANGED <<ids, rows, applied>>
  PROVE  StoreStep
<1> DEFINE w == Head(pending).id
<1>1. /\ pending \in Seq(Cmds) /\ calls \in Nat /\ calls <= MaxCalls
      /\ outcome \in [1..MaxCalls -> Outcomes]
      /\ QueueInv(pending, writeCb, outcome, calls)
  BY BoundsAssumption DEF IInv, TypeOK, PendingInv, Outcomes
<1>2. writeCb /\ w \in 1..MaxCalls /\ outcome[w] = "open"
  BY <1>1, PopExec
<1>3. outcome' = [outcome EXCEPT ![w] = result]
  BY <1>2 DEF ReportWrite
<1>4. ListedRows' = ListedRows
  BY DEF ListedRows
<1> HIDE DEF w
<1>5. CASE result = "ok"
  <2>1. Store!Succeed(w)
    BY <1>2, <1>3, <1>4, <1>5 DEF Store!Succeed, w
  <2> QED
    BY <1>2, <2>1 DEF StoreStep, Store!Next, Store!Writes
<1>6. CASE result = "failed"
  <2>1. Store!Fail(w)
    BY <1>2, <1>3, <1>4, <1>6 DEF Store!Fail
  <2> QED
    BY <1>2, <2>1 DEF StoreStep, Store!Next, Store!Writes
<1> QED
  BY <1>5, <1>6

(* A failure callback answers a write when it is that of its EXEC.         *)
LEMMA StoreFailure ==
  ASSUME IInv, pending # << >>, CmdFailure(Head(pending)), UNCHANGED <<ids, rows, applied>>
  PROVE  StoreStep
<1>1. CASE Head(pending).op = "exec"
  BY <1>1, StoreReport DEF CmdFailure, FailExec
<1>2. CASE Head(pending).op # "exec"
  BY <1>2, StoreStutter DEF CmdFailure, FailSmembers, FailHgetall, FailHmset, FailOther
<1> QED
  BY <1>1, <1>2

(* The callbacks of replies, and those of a connection that ends.          *)
LEMMA StoreCallbacks == IInv /\ (Callback \/ TearDown) => StoreStep
<1> SUFFICES ASSUME IInv, Callback \/ TearDown PROVE StoreStep
  OBVIOUS
<1>1. CASE ReplySmembers \/ ReplyHgetall \/ ReplyDel \/ ReplyHmset \/ ReplyOther
  BY <1>1, StoreStutter
     DEF ReplySmembers, ReplyHgetall, ReplyDel, ReplyHmset, ReplyOther, Deliver, serverVars
<1>2. CASE ReplyExec
  <2>1. /\ Deliver /\ pending # << >> /\ Head(pending).op = "exec" /\ Head(answers).ok
        /\ ReportWrite(Head(pending), "ok") /\ UNCHANGED <<ids, rows, applied>>
    BY <1>2 DEF ReplyExec, Deliver, serverVars
  <2>2. Head(pending).id \in applied
    <3>1. /\ wire = pending /\ pending \in Seq(Cmds)
          /\ answers \in Seq(Replies) /\ answers # << >>
      BY <2>1 DEF IInv, TypeOK, ReplyMatching, Deliver
    <3>2. 1 \in 1..Len(answers) /\ Head(answers) = answers[1] /\ Head(pending) = wire[1]
      BY <3>1, <2>1, TailCmds
    <3> QED
      BY <3>2, <2>1 DEF IInv, OkAnswersApplied
  <2> QED
    BY <2>1, <2>2, StoreReport
<1>3. CASE ReplyError \/ NullReply \/ EmptyCmdQueue
  BY <1>3, StoreFailure DEF ReplyError, NullReply, EmptyCmdQueue, Deliver, serverVars
<1>4. CASE Ended
  BY <1>4, StoreStutter DEF Ended, callVars, serverVars
<1> QED
  BY <1>1, <1>2, <1>3, <1>4 DEF Callback, TearDown

(* Every step of the handle, the connection and the server is a step of    *)
(* the store or changes nothing of it.                                     *)
LEMMA StoreSteps ==
  ASSUME WholeRows \/ Reliable, IInv, TxnInv, RowsInv, [Next]_vars
  PROVE  StoreStep
<1>1. CASE ConnectOk \/ ConnectFail \/ ConnectionLost
  BY <1>1, StoreStutter DEF ConnectOk, ConnectFail, ConnectionLost, ServerForgets, callVars, serverVars
<1>2. CASE Idle \/ UNCHANGED vars
  BY <1>2, StoreStutter DEF Idle, vars, callVars, serverVars
<1> QED
  BY <1>1, <1>2, StoreCalls, StoreServer, StoreCallbacks DEF Next

(* The handle and the server implement the row store: the rows that a      *)
(* reader finds through the index change by whole writes and removals,     *)
(* each write is applied at most once and answered at most once, and       *)
(* success is answered only to a write that was applied.  Without the      *)
(* hypothesis it is false: a connection lost between SREM and DEL leaves   *)
(* an unlisted row, whose old columns come back with the next write of     *)
(* one column (db_write_single_column).                                    *)
THEOREM RowStoreImplemented == (WholeRows \/ Reliable) => (Spec => ImplementsStore)
<1> SUFFICES ASSUME WholeRows \/ Reliable PROVE Spec => ImplementsStore
  OBVIOUS
<1>1. Init => Store!Init
  BY StoreInit
<1>2. IInv /\ TxnInv /\ RowsInv /\ [Next]_vars => [Store!Next]_(Store!storeVars)
  BY StoreSteps DEF StoreStep
<1> QED
  BY <1>1, <1>2, InductiveInvariant, TransactionInvariant, RowsInvariant, PTL
     DEF Spec, ImplementsStore, Store!Spec

=============================================================================
