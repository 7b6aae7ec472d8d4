---------------------------- MODULE DbSyncProofs ----------------------------
(***************************************************************************)
(* What TLAPS proves of DbSync, for every set of keys and columns and      *)
(* every bound.                                                            *)
(*                                                                         *)
(* SuccessMeansOneExec speaks of calls that have returned.  TxnInv follows *)
(* the running one: the commands it has left end in its EXEC, and as long  *)
(* as that EXEC can succeed, because the server still holds the MULTI or   *)
(* it has not been sent, no command of the call took effect outside.       *)
(*                                                                         *)
(* HandleInv ties the parts of the handle together: a connection that is   *)
(* not up has no session, start_transaction is set whenever the server     *)
(* holds a MULTI, and then the running call still has an EXEC or DISCARD   *)
(* to send.                                                                *)
(*                                                                         *)
(* The two theorems about the table rest on three more invariants: which   *)
(* commands a call has left (PlainInv), that what a delete-all has not yet *)
(* removed it still has the commands for (SweepInv), and that the queue of *)
(* the server and the commands left make up one whole transaction          *)
(* (BodyInv).                                                              *)
(***************************************************************************)
EXTENDS DbSync, SequenceTheorems, FiniteSetTheorems, TLAPS

NotLoose(n) == \A k \in Keys : <<n, k>> \notin loose

(* The commands that calls issue: only the HSETs are pipelined.            *)
Issued == {c \in Cmds : c.piped => c.op = "hset"}

(* The commands of a transaction in front of its EXEC.                     *)
TxnOps == {"multi", "sadd", "hset", "srem", "del"}

(* The commands of a transaction from some point on.                       *)
Shaped(t) ==
  /\ t \in Seq(Issued) /\ Len(t) > 0 /\ t[Len(t)] = Exec
  /\ \A i \in 1..(Len(t) - 1) : t[i].op \in TxnOps
  /\ \A i \in 2..Len(t) : t[i].op # "multi"

(* The running call, when it is a transaction that has not failed.         *)
Txn ==
  todo # << >> /\ calls[Current] \in Transactional /\ ~failed =>
    /\ Shaped(todo)
    /\ Head(todo).op = "multi" \/ session.open => NotLoose(Current)

Typed ==
  /\ calls \in Seq(CallNames) /\ Len(calls) <= MaxCalls
  /\ outcome \in [1..MaxCalls -> {"none", "open", "ok", "failed"}]
  /\ failed \in BOOLEAN
  /\ DOMAIN session = {"open", "dirty", "queued"} /\ session.open \in BOOLEAN
  /\ todo # << >> => calls # << >> /\ outcome[Current] = "open"
  /\ \A n \in Nat, k \in Keys : <<n, k>> \in loose => n <= Len(calls)

TxnInv == Typed /\ Txn /\ SuccessIsTransaction

-----------------------------------------------------------------------------
(* Sequences of commands.                                                  *)

(* What is left of a transaction when its first command is done.           *)
LEMMA ShapedTail ==
  ASSUME NEW t, Shaped(t)
  PROVE  /\ Head(t) = t[1]
         /\ Head(t).op = "exec" => Tail(t) = << >>
         /\ Head(t).op # "exec" => Shaped(Tail(t)) /\ Head(Tail(t)).op # "multi"
<1>1. t \in Seq(Issued) /\ t # << >> /\ Len(t) \in Nat /\ Len(t) > 0 /\ Head(t) = t[1]
  BY DEF Shaped
<1> DEFINE u == Tail(t)
<1>2. /\ u \in Seq(Issued) /\ Len(u) = Len(t) - 1
      /\ \A i \in 1..(Len(t) - 1) : u[i] = t[i + 1]
  BY <1>1
<1> HIDE DEF u
<1>3. ASSUME Len(t) = 1 PROVE Head(t).op = "exec" /\ u = << >>
  <2>1. Head(t) = Exec
    BY <1>1, <1>3 DEF Shaped
  <2>2. Head(t).op = "exec"
    BY <2>1 DEF Exec, Cmd
  <2>3. u = << >>
    BY <1>2, <1>3
  <2> QED
    BY <2>2, <2>3
<1>4. ASSUME Len(t) > 1 PROVE Head(t).op # "exec" /\ Shaped(u) /\ Head(u).op # "multi"
  <2>1. Head(t).op # "exec"
    BY <1>1, <1>4 DEF Shaped, TxnOps
  <2>2. Len(u) > 0 /\ u[Len(u)] = Exec
    <3>1. Len(t) - 1 \in 1..(Len(t) - 1) /\ t[Len(t)] = Exec
      BY <1>1, <1>4 DEF Shaped
    <3>2. u[Len(t) - 1] = t[(Len(t) - 1) + 1]
      BY <1>2, <3>1
    <3>3. (Len(t) - 1) + 1 = Len(t)
      BY <1>1
    <3>4. Len(u) > 0
      BY <1>2, <1>4
    <3> QED
      BY <1>2, <3>1, <3>2, <3>3, <3>4
  <2>3. ASSUME NEW i \in 1..(Len(u) - 1)
        PROVE  u[i].op \in TxnOps
    <3>1. i \in 1..(Len(t) - 1) /\ i + 1 \in 1..(Len(t) - 1)
      BY <1>1, <1>2
    <3> QED
      BY <1>2, <3>1 DEF Shaped
  <2>4. ASSUME NEW i \in 1..Len(u) PROVE u[i].op # "multi"
    <3>1. i \in 1..(Len(t) - 1) /\ i + 1 \in 2..Len(t)
      BY <1>1, <1>2
    <3> QED
      BY <1>2, <3>1 DEF Shaped
  <2>5. Head(u) = u[1] /\ 1 \in 1..Len(u) /\ \A i \in 2..Len(u) : i \in 1..Len(u)
    BY <1>1, <1>2, <1>4, <2>2
  <2>6. Shaped(u)
    BY <1>2, <2>2, <2>3, <2>4, <2>5 DEF Shaped
  <2>7. Head(u).op # "multi"
    BY <2>4, <2>5
  <2> QED
    BY <2>1, <2>6, <2>7
<1>5. Len(t) = 1 \/ Len(t) > 1
  <2>1. Len(t) \in Nat /\ Len(t) > 0
    BY <1>1
  <2> QED
    BY <2>1
<1> QED
  BY <1>1, <1>3, <1>4, <1>5 DEF u

(* The next command of a transaction is its EXEC, or one that EXEC runs.   *)
LEMMA ShapedHead ==
  ASSUME NEW t, Shaped(t)
  PROVE  \/ Head(t) = Exec
         \/ Head(t).op \in TxnOps /\ Head(t).op \notin {"exec", "discard", "smembers"}
<1>1. Len(t) \in Nat /\ Len(t) > 0 /\ t[Len(t)] = Exec /\ Head(t) = t[1]
  BY ShapedTail DEF Shaped
<1>2. CASE Len(t) = 1
  BY <1>1, <1>2
<1>3. CASE Len(t) # 1
  <2>1. 1 \in 1..(Len(t) - 1)
    BY <1>1, <1>3
  <2>2. t[1].op \in TxnOps
    BY <2>1 DEF Shaped
  <2> QED
    BY <1>1, <2>2 DEF TxnOps
<1> QED
  BY <1>2, <1>3

(* A transaction has commands left.                                        *)
LEMMA ShapedNotEmpty ==
  ASSUME NEW t, Shaped(t)
  PROVE  t # << >>
<1> SUFFICES ASSUME t = << >> PROVE FALSE
  OBVIOUS
<1>1. Len(<< >>) = 0
  OBVIOUS
<1>2. Len(t) > 0
  BY DEF Shaped
<1> QED
  BY <1>1, <1>2

(* The two ways to write a command give a command.                         *)
LEMMA CmdType ==
  ASSUME NEW op \in OpNames, NEW k \in Keys \cup {NoKey}, NEW c \in Cols \cup {NoCol}
  PROVE  /\ Cmd(op, k, c) \in Issued /\ Cmd(op, k, c).op = op
         /\ op = "hset" => Piped(op, k, c) \in Issued /\ Piped(op, k, c).op = op
<1>1. Cmd(op, k, c) \in Issued /\ Cmd(op, k, c).op = op
  BY DEF Cmds, Issued, Cmd
<1>2. Piped(op, k, c) = [op |-> op, key |-> k, col |-> c, piped |-> TRUE]
  BY DEF Piped, Cmd
<1> QED
  BY <1>1, <1>2 DEF Cmds, Issued

(* The commands around a transaction.                                      *)
LEMMA Ends ==
  Multi \in Issued /\ Exec \in Issued /\ Multi.op = "multi" /\ Exec.op = "exec"
<1>1. "multi" \in OpNames /\ "exec" \in OpNames
  BY DEF OpNames
<1> QED
  BY <1>1, CmdType DEF Multi, Exec

(* The commands of a row, one by one.                                      *)
LEMMA RowOneByOne ==
  ASSUME NEW k \in Keys, NEW shape \in Seq(Cols)
  PROVE  LET t == RowCmds(k, shape)
         IN  /\ t \in Seq(Issued) /\ Len(t) = Len(shape) + 3
             /\ t[1] = Multi /\ t[2] = Cmd("sadd", k, NoCol) /\ t[Len(t)] = Exec
             /\ \A i \in 3..(Len(t) - 1) : t[i] = Piped("hset", k, shape[i - 2])
<1> DEFINE first == <<Multi, Cmd("sadd", k, NoCol)>>
           sets  == [i \in 1..Len(shape) |-> Piped("hset", k, shape[i])]
           t     == first \o sets \o <<Exec>>
<1>1. "sadd" \in OpNames /\ "hset" \in OpNames /\ Len(shape) \in Nat
  BY DEF OpNames
<1>2. /\ first \in Seq(Issued) /\ Len(first) = 2
      /\ first[1] = Multi /\ first[2] = Cmd("sadd", k, NoCol)
  <2>1. Multi \in Issued /\ Cmd("sadd", k, NoCol) \in Issued
    BY <1>1, CmdType, Ends
  <2> QED
    BY <2>1
<1>3. \A i \in 1..Len(shape) : sets[i] \in Issued /\ sets[i].op = "hset"
  BY <1>1, CmdType
<1>4. sets \in Seq(Issued) /\ Len(sets) = Len(shape)
  BY <1>1, <1>3
<1> HIDE DEF first, sets
<1>5. <<Exec>> \in Seq(Issued) /\ Len(<<Exec>>) = 1 /\ <<Exec>>[1] = Exec
  BY Ends
<1>6. /\ t \in Seq(Issued) /\ Len(t) = Len(shape) + 3
      /\ t[1] = Multi /\ t[2] = Cmd("sadd", k, NoCol) /\ t[Len(t)] = Exec
      /\ \A i \in 3..(Len(t) - 1) : t[i] = sets[i - 2]
  <2>0. /\ first \o sets \in Seq(Issued) /\ Len(first \o sets) = Len(first) + Len(sets)
        /\ \A i \in 1..(Len(first) + Len(sets)) :
             (first \o sets)[i] = IF i <= Len(first) THEN first[i] ELSE sets[i - Len(first)]
    <3>1. first \in Seq(Issued) /\ sets \in Seq(Issued)
      BY <1>2, <1>4
    <3> QED
      BY <3>1, ConcatProperties, ZenonT(30)
  <2>1. first \o sets \in Seq(Issued) /\ Len(first \o sets) = Len(shape) + 2
    BY <1>1, <1>2, <1>4, <2>0
  <2>2. \A i \in 1..(Len(shape) + 2) :
          (first \o sets)[i] = IF i <= 2 THEN first[i] ELSE sets[i - 2]
    BY <1>1, <1>2, <1>4, <2>0
  <2>3. t \in Seq(Issued) /\ Len(t) = Len(shape) + 3
    BY <1>1, <1>5, <2>1, ConcatProperties
  <2>4. \A i \in 1..(Len(shape) + 2) : t[i] = (first \o sets)[i]
    BY <1>1, <1>5, <2>1, ConcatProperties
  <2>5. t[Len(shape) + 3] = <<Exec>>[1]
    BY <1>1, <1>5, <2>1, ConcatProperties
  <2>6. 1 \in 1..(Len(shape) + 2) /\ 2 \in 1..(Len(shape) + 2)
    BY <1>1
  <2>7. ASSUME NEW i \in 3..(Len(t) - 1) PROVE t[i] = sets[i - 2]
    BY <1>1, <2>2, <2>3, <2>4
  <2> QED
    BY <1>2, <1>5, <2>2, <2>3, <2>4, <2>5, <2>6, <2>7
<1>7. RowCmds(k, shape) = t
  BY DEF RowCmds, first, sets
<1>8. Len(shape) + 3 - 1 = Len(shape) + 2 /\ \A i \in 3..(Len(shape) + 2) : i - 2 \in 1..Len(shape)
  BY <1>1
<1> HIDE DEF t
<1>9. \A i \in 3..(Len(t) - 1) : sets[i - 2] = Piped("hset", k, shape[i - 2])
  BY <1>6, <1>8 DEF sets
<1> QED
  BY <1>6, <1>7, <1>9

(* The three transactional calls issue a transaction.                      *)
LEMMA RowShaped ==
  ASSUME NEW k \in Keys, NEW shape \in Seq(Cols)
  PROVE  Shaped(RowCmds(k, shape)) /\ Head(RowCmds(k, shape)).op = "multi"
<1> DEFINE t == RowCmds(k, shape)
<1>1. Len(shape) \in Nat /\ \A i \in 1..Len(shape) : shape[i] \in Cols
  OBVIOUS
<1>2. /\ t \in Seq(Issued) /\ Len(t) = Len(shape) + 3
      /\ t[1] = Multi /\ t[2] = Cmd("sadd", k, NoCol) /\ t[Len(t)] = Exec
      /\ \A i \in 3..(Len(t) - 1) : t[i] = Piped("hset", k, shape[i - 2])
  BY RowOneByOne
<1> HIDE DEF t
<1>3. Multi.op = "multi" /\ Exec.op = "exec" /\ Cmd("sadd", k, NoCol).op = "sadd"
  BY Ends DEF Cmd
<1>4. \A c \in Cols : Piped("hset", k, c).op = "hset"
  BY CmdType DEF OpNames
<1>5. \A i \in 2..Len(t) : t[i].op \in {"sadd", "hset"} \/ (i = Len(t) /\ t[i].op = "exec")
  <2> TAKE i \in 2..Len(t)
  <2>1. i = 2 \/ i = Len(t) \/ (i \in 3..(Len(t) - 1) /\ i - 2 \in 1..Len(shape))
    BY <1>1, <1>2
  <2> QED
    BY <1>1, <1>2, <1>3, <1>4, <2>1
<1>6. \A i \in 1..(Len(t) - 1) : t[i].op \in TxnOps
  BY <1>1, <1>2, <1>3, <1>5 DEF TxnOps
<1>7. Shaped(t)
  BY <1>1, <1>2, <1>5, <1>6 DEF Shaped
<1> QED
  BY <1>1, <1>2, <1>3, <1>7 DEF t

(* ... those of one column or one row have four commands.                  *)
LEMMA FourShaped ==
  ASSUME NEW a \in Issued, NEW b \in Issued, a.op \in {"sadd", "srem"}, b.op \in {"hset", "del"}
  PROVE  Shaped(<<Multi, a, b, Exec>>)
<1> DEFINE t == <<Multi, a, b, Exec>>
<1>1. /\ t \in Seq(Issued) /\ Len(t) = 4 /\ Head(t) = Multi
        /\ t[1] = Multi /\ t[2] = a /\ t[3] = b /\ t[4] = Exec
  BY Ends
<1>2. Multi.op = "multi" /\ Exec.op = "exec"
  BY Ends
<1> HIDE DEF t
<1>3. \A i \in 1..(Len(t) - 1) : i = 1 \/ i = 2 \/ i = 3
  BY <1>1
<1>4. \A i \in 2..Len(t) : i = 2 \/ i = 3 \/ i = 4
  BY <1>1
<1>5. Len(t) > 0
  BY <1>1
<1>6. \A i \in 1..(Len(t) - 1) : t[i].op \in TxnOps
  BY <1>1, <1>2, <1>3 DEF TxnOps
<1>7. \A i \in 2..Len(t) : t[i].op # "multi"
  BY <1>1, <1>2, <1>4
<1>8. Shaped(t)
  BY <1>1, <1>5, <1>6, <1>7 DEF Shaped
<1> QED
  BY <1>8 DEF t

(* ... the write of a column,                                              *)
LEMMA ColumnShaped ==
  ASSUME NEW k \in Keys, NEW c \in Cols
  PROVE  Shaped(ColumnCmds(k, c))
<1>1. "sadd" \in OpNames /\ "hset" \in OpNames
  BY DEF OpNames
<1> QED
  BY <1>1, CmdType, FourShaped DEF ColumnCmds

(* ... and the deletion of a row.                                          *)
LEMMA DeleteRowShaped ==
  ASSUME NEW k \in Keys
  PROVE  Shaped(DeleteRowCmds(k))
<1>1. "srem" \in OpNames /\ "del" \in OpNames
  BY DEF OpNames
<1> QED
  BY <1>1, CmdType, FourShaped DEF DeleteRowCmds

-----------------------------------------------------------------------------
(* How the history changes.                                                *)

(* What a step of a running call may do to the history.                    *)
Grows ==
  /\ applied \subseteq applied'
  /\ \A n \in Nat, k \in Keys : <<n, k>> \in loose' => <<n, k>> \in loose \/ n = Current

(* ... and how the call goes on after it: with the commands of todo', or   *)
(* by returning r.                                                         *)
Returns(r) ==
  /\ todo' = << >> /\ outcome' = [outcome EXCEPT ![Current] = r]
  /\ r = "ok" /\ calls[Current] \in Transactional => Current \in applied' /\ NotLoose(Current)'

Advance ==
  /\ todo # << >> /\ calls' = calls /\ failed' \in BOOLEAN /\ Grows
  /\ DOMAIN session' = {"open", "dirty", "queued"} /\ session'.open \in BOOLEAN
  /\ \/ todo' # << >> /\ outcome' = outcome /\ Txn'
     \/ Returns("ok") \/ Returns("failed")

(* A running call that goes on as Advance says keeps TxnInv.               *)
LEMMA AdvanceHolds ==
  ASSUME TxnInv, Advance
  PROVE  TxnInv'
<1>1. /\ Current \in 1..MaxCalls /\ Current \in Nat /\ outcome[Current] = "open"
      /\ calls' = calls /\ Current' = Current /\ DOMAIN calls = 1..Current
  BY BoundsAssumption DEF TxnInv, Typed, Advance, Current
<1>2. PICK r \in {"ok", "failed", "open"} :
        /\ outcome' = [outcome EXCEPT ![Current] = r]
        /\ r = "open" => todo' # << >> /\ Txn'
        /\ r # "open" => Returns(r)
  <2>1. CASE todo' # << >> /\ outcome' = outcome /\ Txn'
    <3>1. outcome' = [outcome EXCEPT ![Current] = "open"]
      BY <1>1, <2>1 DEF TxnInv, Typed
    <3> QED
      BY <2>1, <3>1
  <2>2. CASE Returns("ok")
    BY <2>2 DEF Returns
  <2>3. CASE Returns("failed")
    BY <2>3 DEF Returns
  <2> QED
    BY <2>1, <2>2, <2>3 DEF Advance
<1>3. /\ outcome' \in [1..MaxCalls -> {"none", "open", "ok", "failed"}]
      /\ outcome'[Current] = r
      /\ \A n \in 1..MaxCalls : n # Current => outcome'[n] = outcome[n]
  BY <1>1, <1>2 DEF TxnInv, Typed
<1>4. todo' # << >> => r = "open"
  BY <1>2 DEF Returns
<1>5. Typed'
  <2>1. ASSUME NEW n \in Nat, NEW k \in Keys, <<n, k>> \in loose' PROVE n <= Len(calls)
    <3>1. <<n, k>> \in loose \/ n = Current
      BY <2>1 DEF Advance, Grows
    <3>2. Len(calls) \in Nat
      BY DEF TxnInv, Typed
    <3> QED
      BY <3>1, <3>2 DEF TxnInv, Typed, Current
  <2> QED
    BY <1>1, <1>3, <1>4, <2>1 DEF TxnInv, Typed, Advance
<1>6. Txn'
  BY <1>2, <1>4 DEF Txn
<1>7. SuccessIsTransaction'
  <2> SUFFICES ASSUME NEW n \in DOMAIN calls, calls[n] \in Transactional, outcome'[n] = "ok"
               PROVE  n \in applied' /\ \A k \in Keys : <<n, k>> \notin loose'
    BY <1>1 DEF SuccessIsTransaction
  <2>1. n \in Nat /\ n \in 1..MaxCalls
    BY <1>1, BoundsAssumption
  <2>2. CASE n = Current
    BY <1>1, <1>2, <1>3, <2>2 DEF Returns, NotLoose
  <2>3. CASE n # Current
    <3>1. outcome[n] = "ok"
      BY <1>3, <2>1, <2>3
    <3>2. n \in applied /\ \A k \in Keys : <<n, k>> \notin loose
      BY <3>1 DEF TxnInv, SuccessIsTransaction
    <3> QED
      BY <2>1, <2>3, <3>2 DEF Advance, Grows
  <2> QED
    BY <2>2, <2>3
<1> QED
  BY <1>5, <1>6, <1>7 DEF TxnInv

(* Inside MULTI nothing takes effect before the EXEC, and MULTI itself     *)
(* never does.                                                             *)
LEMMA ServeGrows ==
  ASSUME TxnInv, NEW c, Serve(c)
  PROVE  /\ Grows
         /\ session.open \/ c.op \in {"multi", "exec"} => loose' = loose
         /\ c.op = "exec" /\ ReplyOk(c) => Current \in applied'
<1>1. CASE c.op = "exec" /\ ReplyOk(c)
  BY <1>1 DEF Serve, Grows
<1>2. CASE c.op \notin {"exec", "discard", "multi"} /\ ~session.open
  <2>1. loose' = loose \cup ({Current} \X KeysChanged(c)) /\ applied' = applied
    BY <1>2 DEF Serve
  <2>2. \A n, k : <<n, k>> \in {Current} \X KeysChanged(c) => n = Current
    OBVIOUS
  <2>3. Grows
    BY <2>1, <2>2 DEF Grows
  <2> QED
    BY <1>2, <2>3
<1>3. CASE /\ ~(c.op = "exec" /\ ReplyOk(c))
           /\ ~(c.op \notin {"exec", "discard", "multi"} /\ ~session.open)
  BY <1>3 DEF Serve, Grows
<1> QED
  BY <1>1, <1>2, <1>3

(* A running call that goes on with the commands rest, or returns.         *)
LEMMA ContinueAdvances ==
  ASSUME TxnInv, todo # << >>, calls' = calls, Grows,
         DOMAIN session' = {"open", "dirty", "queued"}, session'.open \in BOOLEAN,
         NEW rest, NEW err \in BOOLEAN, Continue(rest, err),
         calls[Current] \in Transactional /\ ~err =>
           \/ /\ rest # << >> /\ Shaped(rest)
              /\ Head(rest).op = "multi" \/ session'.open => NotLoose(Current)'
           \/ rest = << >> /\ Current \in applied' /\ NotLoose(Current)'
  PROVE  Advance
<1>1. /\ todo' = rest /\ failed' = err /\ Current' = Current
      /\ outcome' = IF rest # << >> THEN outcome
                    ELSE [outcome EXCEPT ![Current] = IF err THEN "failed" ELSE "ok"]
  BY DEF Continue, Current
<1>2. CASE rest # << >>
  <2>1. Txn'
    BY <1>1, <1>2 DEF Txn
  <2> QED
    BY <1>1, <1>2, <2>1 DEF Advance
<1>3. CASE rest = << >> /\ err
  <2>1. Returns("failed")
    BY <1>1, <1>3 DEF Returns
  <2> QED
    BY <1>1, <2>1 DEF Advance
<1>4. CASE rest = << >> /\ ~err
  <2>1. Returns("ok")
    BY <1>1, <1>4 DEF Returns
  <2> QED
    BY <1>1, <2>1 DEF Advance
<1> QED
  BY <1>2, <1>3, <1>4

(* A failed command ends the transaction without success.                  *)
LEMMA FailAdvances ==
  ASSUME TxnInv, todo # << >>, calls' = calls, Grows,
         DOMAIN session' = {"open", "dirty", "queued"}, session'.open \in BOOLEAN,
         NEW c, NEW l, Fail(c, l)
  PROVE  Advance
BY ContinueAdvances DEF Fail

(* A failed assertion ends the call.                                       *)
LEMMA AbortAdvances ==
  ASSUME TxnInv, todo # << >>, calls' = calls, Grows,
         DOMAIN session' = {"open", "dirty", "queued"}, session'.open \in BOOLEAN, Abort
  PROVE  Advance
<1>1. Returns("failed") /\ failed' \in BOOLEAN
  BY DEF Abort, Returns, TxnInv, Typed
<1> QED
  BY <1>1 DEF Advance

(* The fields of a session without MULTI.                                  *)
LEMMA NoSessionType ==
  DOMAIN NoSession = {"open", "dirty", "queued"} /\ ~NoSession.open /\ NoSession.open \in BOOLEAN
<1>1. NoSession = [open |-> FALSE, dirty |-> FALSE, queued |-> << >>]
  BY DEF NoSession
<1> QED
  BY <1>1

(* The fields of a session after a command.                                *)
LEMMA SessionType ==
  ASSUME TxnInv, NEW c
  PROVE  /\ DOMAIN SessionAfter(c) = {"open", "dirty", "queued"}
         /\ SessionAfter(c).open \in BOOLEAN
         /\ c.op \notin {"multi", "exec", "discard"} => SessionAfter(c).open = session.open
<1>1. DOMAIN session = {"open", "dirty", "queued"} /\ session.open \in BOOLEAN
  BY DEF TxnInv, Typed
<1>2. CASE c.op = "multi"
  <2>1. SessionAfter(c) = session \/ SessionAfter(c) = [NoSession EXCEPT !.open = TRUE]
    BY <1>2 DEF SessionAfter
  <2> QED
    BY <1>1, <1>2, <2>1, NoSessionType
<1>3. CASE c.op \in {"exec", "discard"}
  <2>1. SessionAfter(c) = NoSession
    BY <1>3 DEF SessionAfter
  <2> QED
    BY <1>3, <2>1, NoSessionType
<1>4. CASE c.op \notin {"multi", "exec", "discard"}
  <2>1. SessionAfter(c) =
          IF session.open THEN [session EXCEPT !.queued = Append(@, c)] ELSE session
    BY <1>4 DEF SessionAfter
  <2> QED
    BY <1>1, <1>4, <2>1
<1> QED
  BY <1>2, <1>3, <1>4

-----------------------------------------------------------------------------
(* The steps of a running call.                                            *)

(* Each step of a running call advances it.                                *)
LEMMA AnsweredAdvances ==
  ASSUME TxnInv, Answered
  PROVE  Advance
<1> DEFINE c == Head(todo)
<1>1. /\ todo # << >> /\ calls' = calls /\ Serve(c) /\ session' = SessionAfter(c)
      /\ IF ReplyOk(c) THEN Succeed(c) /\ UNCHANGED link ELSE Fail(c, link)
  BY DEF Answered
<1> HIDE DEF c
<1>2. /\ Grows /\ DOMAIN session' = {"open", "dirty", "queued"} /\ session'.open \in BOOLEAN
      /\ session.open \/ c.op \in {"multi", "exec"} => loose' = loose
      /\ c.op = "exec" /\ ReplyOk(c) => Current \in applied'
      /\ c.op \notin {"multi", "exec", "discard"} => session'.open = session.open
  BY <1>1, ServeGrows, SessionType
<1>3. CASE ~ReplyOk(c)
  BY <1>1, <1>2, <1>3, FailAdvances
<1>4. CASE ReplyOk(c) /\ Abort
  BY <1>1, <1>2, <1>4, AbortAdvances
<1>5. CASE ReplyOk(c) /\ ~Abort
  <2>1. PICK rest : /\ Continue(rest, failed)
                    /\ c.op # "smembers" => rest = Tail(todo)
    BY <1>1, <1>5 DEF Succeed, c
  <2>2. failed \in BOOLEAN
    BY DEF TxnInv, Typed
  <2>3. ASSUME calls[Current] \in Transactional, ~failed
        PROVE  \/ /\ rest # << >> /\ Shaped(rest)
                  /\ Head(rest).op = "multi" \/ session'.open => NotLoose(Current)'
               \/ rest = << >> /\ Current \in applied' /\ NotLoose(Current)'
    <3>1. Shaped(todo) /\ (c.op = "multi" \/ session.open => NotLoose(Current))
      BY <1>1, <2>3 DEF TxnInv, Txn, c
    <3>2. Current' = Current
      BY <1>1 DEF Current
    <3>3. CASE c.op = "exec"
      <4>1. session.open
        BY <1>5, <3>3 DEF ReplyOk
      <4>2. rest = << >>
        BY <2>1, <3>1, <3>3, ShapedTail DEF c
      <4> QED
        BY <1>2, <1>5, <3>1, <3>2, <3>3, <4>1, <4>2 DEF NotLoose
    <3>4. CASE c.op # "exec"
      <4>1. c.op \notin {"smembers", "discard"}
        <5>1. c = Exec \/ c.op \notin {"exec", "discard", "smembers"}
          BY <3>1, ShapedHead DEF c
        <5> QED
          BY <3>4, <5>1, Ends
      <4>2. rest = Tail(todo) /\ Shaped(rest) /\ Head(rest).op # "multi"
        BY <2>1, <3>1, <3>4, <4>1, ShapedTail DEF c
      <4>3. rest # << >>
        BY <4>2, ShapedNotEmpty
      <4>4. ASSUME session'.open PROVE NotLoose(Current)'
        <5>1. (c.op = "multi" \/ session.open) /\ loose' = loose
          BY <1>2, <3>4, <4>1, <4>4
        <5> QED
          BY <3>1, <3>2, <5>1 DEF NotLoose
      <4> QED
        BY <4>2, <4>3, <4>4
    <3> QED
      BY <3>3, <3>4
  <2> QED
    BY <1>1, <1>2, <2>1, <2>2, <2>3, ContinueAdvances
<1> QED
  BY <1>3, <1>4, <1>5

(* ... when the server refuses the command,                                *)
LEMMA RefusedAdvances ==
  ASSUME TxnInv, Refused
  PROVE  Advance
<1> DEFINE c == Head(todo)
<1>1. /\ todo # << >> /\ calls' = calls /\ UNCHANGED <<applied, loose>>
      /\ session' = [session EXCEPT !.dirty = session.open]
      /\ CASE c.piped -> Continue(Tail(todo), failed)
           [] c.op \in {"smembers", "hgetall"} -> Abort
           [] OTHER -> Fail(c, link)
  BY DEF Refused
<1>2. /\ Grows /\ DOMAIN session' = {"open", "dirty", "queued"}
      /\ session'.open \in BOOLEAN /\ session'.open = session.open
  BY <1>1 DEF Grows, TxnInv, Typed
<1>3. \/ c.piped /\ Continue(Tail(todo), failed)
      \/ Abort \/ Fail(c, link)
  BY <1>1
<1> HIDE DEF c
<1>4. CASE Abort
  BY <1>1, <1>2, <1>4, AbortAdvances
<1>5. CASE Fail(c, link)
  BY <1>1, <1>2, <1>5, FailAdvances
<1>6. CASE c.piped /\ Continue(Tail(todo), failed)
  <2>1. failed \in BOOLEAN
    BY DEF TxnInv, Typed
  <2>2. ASSUME calls[Current] \in Transactional, ~failed
        PROVE  /\ Tail(todo) # << >> /\ Shaped(Tail(todo))
               /\ Head(Tail(todo)).op = "multi" \/ session'.open => NotLoose(Current)'
    <3>1. Shaped(todo) /\ (session.open => NotLoose(Current))
      BY <1>1, <2>2 DEF TxnInv, Txn
    <3>2. c.op # "exec"
      <4>1. c = Exec \/ c.op \notin {"exec", "discard", "smembers"}
        BY <3>1, ShapedHead DEF c
      <4>2. Exec.piped = FALSE
        BY DEF Exec, Cmd
      <4> QED
        BY <1>6, <4>1, <4>2
    <3>3. Shaped(Tail(todo)) /\ Head(Tail(todo)).op # "multi"
      BY <3>1, <3>2, ShapedTail DEF c
    <3>4. Tail(todo) # << >>
      BY <3>3, ShapedNotEmpty
    <3>5. Current' = Current /\ loose' = loose
      BY <1>1 DEF Current
    <3> QED
      BY <1>2, <3>1, <3>3, <3>4, <3>5 DEF NotLoose
  <2> QED
    BY <1>1, <1>2, <1>6, <2>1, <2>2, ContinueAdvances
<1> QED
  BY <1>3, <1>4, <1>5, <1>6

(* ... when the connection is lost,                                        *)
LEMMA LostAdvances ==
  ASSUME TxnInv, Lost
  PROVE  Advance
<1> DEFINE c == Head(todo)
<1>1. /\ todo # << >> /\ calls' = calls /\ session' = NoSession
      /\ Serve(c) \/ UNCHANGED <<applied, loose>>
      /\ CASE c.piped -> Abort
           [] ~c.piped /\ mayRetry -> UNCHANGED <<todo, failed, outcome>>
           [] ~c.piped /\ ~mayRetry -> Fail(c, "broken")
  BY DEF Lost
<1>2. /\ DOMAIN session' = {"open", "dirty", "queued"} /\ session'.open \in BOOLEAN
      /\ ~session'.open
  BY <1>1, NoSessionType
<1>3. Abort \/ Fail(c, "broken") \/ UNCHANGED <<todo, failed, outcome>>
  BY <1>1
<1> HIDE DEF c
<1>4. Grows /\ (c.op = "multi" => loose' = loose)
  <2>1. CASE Serve(c)
    BY <2>1, ServeGrows
  <2>2. CASE UNCHANGED <<applied, loose>>
    BY <2>2 DEF Grows
  <2> QED
    BY <1>1, <2>1, <2>2
<1>5. CASE Abort
  BY <1>1, <1>2, <1>4, <1>5, AbortAdvances
<1>6. CASE Fail(c, "broken")
  BY <1>1, <1>2, <1>4, <1>6, FailAdvances
<1>7. CASE UNCHANGED <<todo, failed, outcome>>
  <2>1. Current' = Current
    BY <1>1 DEF Current
  <2>2. Txn'
    <3> SUFFICES ASSUME calls[Current] \in Transactional, ~failed
                 PROVE  Shaped(todo) /\ (c.op = "multi" => NotLoose(Current)')
      BY <1>1, <1>2, <1>7, <2>1 DEF Txn, c
    <3>1. Shaped(todo) /\ (c.op = "multi" => NotLoose(Current))
      BY <1>1 DEF TxnInv, Txn, c
    <3> QED
      BY <1>4, <2>1, <3>1 DEF NotLoose
  <2> QED
    BY <1>1, <1>2, <1>4, <1>7, <2>2 DEF Advance, TxnInv, Typed
<1> QED
  BY <1>3, <1>5, <1>6, <1>7

(* ... and when it is made again, or not.                                  *)
LEMMA ReconnectAdvances ==
  ASSUME TxnInv, Reconnect \/ ReconnectFails
  PROVE  Advance
<1>1. /\ todo # << >> /\ calls' = calls /\ UNCHANGED <<applied, loose, session>>
      /\ DOMAIN session' = {"open", "dirty", "queued"} /\ session'.open \in BOOLEAN
  BY DEF Reconnect, ReconnectFails, serverVars, TxnInv, Typed
<1>2. Grows
  BY <1>1 DEF Grows
<1>3. CASE Reconnect
  <2>1. UNCHANGED <<todo, calls, failed, session, loose, outcome>>
    BY <1>3 DEF Reconnect, serverVars
  <2>2. Txn'
    BY <2>1 DEF TxnInv, Txn, Current, NotLoose, Shaped
  <2> QED
    BY <1>1, <1>2, <2>1, <2>2 DEF Advance, TxnInv, Typed
<1>4. CASE ReconnectFails
  <2>1. Fail(Head(todo), "null")
    BY <1>4 DEF ReconnectFails
  <2> QED
    BY <1>1, <1>2, <2>1, FailAdvances
<1> QED
  BY <1>3, <1>4

-----------------------------------------------------------------------------
(* The beginning of a call, and the steps that are no call's.              *)

(* A new call: it fails, or it has commands to run, those of a transaction *)
(* if it is one.                                                           *)
Starts ==
  \E op \in Ops :
    /\ todo = << >> /\ Current < MaxCalls /\ calls' = Append(calls, op)
    /\ UNCHANGED <<applied, loose>> /\ failed' \in BOOLEAN
    /\ DOMAIN session' = {"open", "dirty", "queued"} /\ session'.open \in BOOLEAN
    /\ \/ /\ todo' = << >> /\ \E r \in {"ok", "failed"} :
               outcome' = [outcome EXCEPT ![Current + 1] = r] /\ (r = "ok" => op \notin Transactional)
       \/ /\ outcome' = [outcome EXCEPT ![Current + 1] = "open"]
          /\ op \in Transactional => Shaped(todo') \/ failed'

(* A call that starts keeps TxnInv.                                        *)
LEMMA StartsHolds ==
  ASSUME TxnInv, Starts
  PROVE  TxnInv'
<1>1. PICK op \in Ops, r \in {"ok", "failed", "open"} :
        /\ todo = << >> /\ Current < MaxCalls /\ calls' = Append(calls, op)
        /\ outcome' = [outcome EXCEPT ![Current + 1] = r]
        /\ r = "ok" => op \notin Transactional
        /\ r # "open" => todo' = << >>
        /\ op \in Transactional /\ r = "open" => Shaped(todo') \/ failed'
  BY DEF Starts
<1>2. /\ UNCHANGED <<applied, loose>> /\ failed' \in BOOLEAN
      /\ DOMAIN session' = {"open", "dirty", "queued"} /\ session'.open \in BOOLEAN
  BY DEF Starts
<1>3. /\ Current \in Nat /\ Current + 1 \in 1..MaxCalls /\ MaxCalls \in Nat
      /\ Current = Len(calls) /\ calls \in Seq(CallNames) /\ op \in CallNames
  BY <1>1, BoundsAssumption, OpsAssumption DEF TxnInv, Typed, Current
<1>4. /\ calls' \in Seq(CallNames) /\ Len(calls') = Current + 1 /\ Current' = Current + 1
      /\ DOMAIN calls = 1..Current /\ DOMAIN calls' = 1..(Current + 1)
      /\ calls'[Current + 1] = op /\ \A n \in 1..Current : calls'[n] = calls[n]
  BY <1>1, <1>3 DEF Current
<1>5. /\ outcome' \in [1..MaxCalls -> {"none", "open", "ok", "failed"}]
      /\ outcome'[Current + 1] = r
      /\ \A n \in 1..Current : outcome'[n] = outcome[n]
  BY <1>1, <1>3 DEF TxnInv, Typed
<1>6. \A k \in Keys : <<Current + 1, k>> \notin loose
  <2> SUFFICES ASSUME NEW k \in Keys, <<Current + 1, k>> \in loose PROVE FALSE
    OBVIOUS
  <2>1. Current + 1 <= Len(calls)
    BY <1>3 DEF TxnInv, Typed
  <2> QED
    BY <1>3, <2>1
<1>7. Typed'
  <2>1. \A n \in Nat, k \in Keys : <<n, k>> \in loose' => n <= Len(calls')
    BY <1>2, <1>3, <1>4 DEF TxnInv, Typed
  <2>2. calls' # << >>
    BY <1>1, <1>3
  <2>3. Len(calls') <= MaxCalls
    BY <1>3, <1>4
  <2> QED
    BY <1>1, <1>2, <1>4, <1>5, <2>1, <2>2, <2>3 DEF Typed
<1>8. Txn'
  <2>1. NotLoose(Current)'
    BY <1>2, <1>4, <1>6 DEF NotLoose
  <2> QED
    BY <1>1, <1>4, <2>1 DEF Txn
<1>9. SuccessIsTransaction'
  <2> SUFFICES ASSUME NEW n \in 1..(Current + 1), calls'[n] \in Transactional, outcome'[n] = "ok"
               PROVE  n \in applied /\ \A k \in Keys : <<n, k>> \notin loose
    BY <1>2, <1>4 DEF SuccessIsTransaction
  <2>1. n # Current + 1
    BY <1>1, <1>4, <1>5
  <2>2. n \in 1..Current
    BY <1>3, <2>1
  <2> QED
    BY <1>4, <1>5, <2>2 DEF TxnInv, SuccessIsTransaction
<1> QED
  BY <1>7, <1>8, <1>9 DEF TxnInv

(* A call that issues commands starts,                                     *)
LEMMA BeginStarts ==
  ASSUME TxnInv, NEW op \in Ops, Call(op), NEW cmds, NEW retry, Begin(cmds, retry),
         op \in Transactional => Shaped(cmds)
  PROVE  Starts
BY DEF Call, Begin, Starts, TxnInv, Typed

(* ... and so does one that start_transaction refuses, or that discards    *)
(* the transaction it has found.                                           *)
LEMMA TransactionStarts ==
  ASSUME TxnInv, NEW op \in Ops, Call(op), NEW cmds,
         BeginTransaction(cmds) \/ RefuseTransaction \/ DiscardLeftover,
         op \in Transactional => Shaped(cmds)
  PROVE  Starts
<1>1. CASE BeginTransaction(cmds)
  BY <1>1, BeginStarts DEF BeginTransaction
<1>2. CASE RefuseTransaction
  BY <1>2 DEF RefuseTransaction, Call, Starts, TxnInv, Typed
<1>3. CASE DiscardLeftover
  BY <1>3 DEF DiscardLeftover, Call, Starts, TxnInv, Typed
<1> QED
  BY <1>1, <1>2, <1>3

(* Every call but db_close_sync starts one of these ways.                  *)
LEMMA CallsStart ==
  ASSUME TxnInv,
         \/ Open \/ WriteRow \/ WriteColumn \/ WriteEmpty \/ DeleteRow
         \/ DeleteAll \/ ReadRow \/ ReadColumns \/ Close
  PROVE  Starts
<1>1. CASE Open
  BY <1>1, BeginStarts DEF Open, Call, Transactional
<1>2. CASE WriteRow
  <2>1. PICK k \in Keys, shape \in RowShapes :
        Call("writeRow") /\ (BeginTransaction(RowCmds(k, shape)) \/ DiscardLeftover)
    BY <1>2 DEF WriteRow
  <2>2. Shaped(RowCmds(k, shape))
    BY ShapesAssumption, RowShaped
  <2> QED
    BY <2>1, <2>2, TransactionStarts DEF Call
<1>3. CASE WriteColumn
  BY <1>3, ColumnShaped, TransactionStarts DEF WriteColumn, Call
<1>4. CASE WriteEmpty
  BY <1>4, TransactionStarts DEF WriteEmpty, Call, Transactional
<1>5. CASE DeleteRow
  <2>1. PICK k \in Keys : Call("deleteRow") /\ (BeginTransaction(DeleteRowCmds(k)) \/ RefuseTransaction)
    BY <1>5 DEF DeleteRow
  <2>2. Shaped(DeleteRowCmds(k))
    BY DeleteRowShaped
  <2> QED
    BY <2>1, <2>2, TransactionStarts DEF Call
<1>6. CASE DeleteAll
  BY <1>6, BeginStarts DEF DeleteAll, Call, Transactional
<1>7. CASE ReadRow
  BY <1>7, BeginStarts DEF ReadRow, Call, Transactional
<1>8. CASE ReadColumns
  BY <1>8, BeginStarts DEF ReadColumns, Call, Transactional
<1>9. CASE Close
  <2>1. /\ "close" \in Ops /\ todo = << >> /\ Current < MaxCalls /\ todo' = << >>
        /\ calls' = Append(calls, "close") /\ session' = NoSession /\ failed' = failed
        /\ outcome' = [outcome EXCEPT ![Current + 1] = "ok"] /\ UNCHANGED <<applied, loose>>
    BY <1>9 DEF Close
  <2> QED
    BY <2>1, NoSessionType DEF Starts, Transactional, TxnInv, Typed
<1> QED
  BY <1>1, <1>2, <1>3, <1>4, <1>5, <1>6, <1>7, <1>8, <1>9

(* Steps that touch no call: the session of an idle handle may go.         *)
LEMMA OutsideHolds ==
  ASSUME TxnInv, NewStatus \/ OtherClient \/ UNCHANGED vars
  PROVE  TxnInv'
<1>1. /\ UNCHANGED <<calls, todo, failed, applied, loose, outcome>>
      /\ UNCHANGED session \/ (todo = << >> /\ session' = NoSession)
  BY DEF NewStatus, OtherClient, vars, serverVars
<1>2. Typed' /\ SuccessIsTransaction'
  BY <1>1, NoSessionType DEF TxnInv, Typed, SuccessIsTransaction, Current
<1>3. Txn'
  BY <1>1 DEF TxnInv, Txn, Current, NotLoose, Shaped
<1> QED
  BY <1>2, <1>3 DEF TxnInv

(* TxnInv holds before the first call ...                                  *)
LEMMA InitHolds ==
  Init => TxnInv
<1> SUFFICES ASSUME Init PROVE TxnInv
  OBVIOUS
<1>1. /\ calls = << >> /\ todo = << >> /\ failed = FALSE /\ session = NoSession
      /\ loose = {} /\ outcome = [n \in 1..MaxCalls |-> "none"]
  BY DEF Init
<1>2. Len(calls) = 0 /\ calls \in Seq(CallNames) /\ DOMAIN calls = {}
  <2>1. calls \in Seq(CallNames) /\ Len(calls) = 0
    BY <1>1
  <2>2. DOMAIN calls = 1..0
    BY <2>1
  <2> QED
    BY <2>1, <2>2
<1>3. Typed
  <2>1. 0 <= MaxCalls
    BY BoundsAssumption
  <2>2. outcome \in [1..MaxCalls -> {"none", "open", "ok", "failed"}]
    BY <1>1
  <2>3. DOMAIN session = {"open", "dirty", "queued"} /\ session.open \in BOOLEAN
    BY <1>1, NoSessionType
  <2> QED
    BY <1>1, <1>2, <2>1, <2>2, <2>3 DEF Typed
<1> QED
  BY <1>1, <1>2, <1>3 DEF TxnInv, Txn, SuccessIsTransaction

(* ... and after every step.                                               *)
LEMMA TxnStep ==
  TxnInv /\ [Next]_vars => TxnInv'
<1> SUFFICES ASSUME TxnInv, [Next]_vars PROVE TxnInv'
  OBVIOUS
<1>1. CASE Answered \/ Refused \/ Lost \/ Reconnect \/ ReconnectFails
  BY <1>1, AnsweredAdvances, RefusedAdvances, LostAdvances, ReconnectAdvances, AdvanceHolds
<1>2. CASE \/ Open \/ WriteRow \/ WriteColumn \/ WriteEmpty \/ DeleteRow
           \/ DeleteAll \/ ReadRow \/ ReadColumns \/ Close
  BY <1>2, CallsStart, StartsHolds
<1>3. CASE NewStatus \/ OtherClient \/ Rest \/ UNCHANGED vars
  BY <1>3, OutsideHolds DEF Rest
<1> QED
  BY <1>1, <1>2, <1>3 DEF Next

(* DB_SUCCESS of a synchronous write or row deletion means that one EXEC   *)
(* applied all of it and nothing of it took effect outside, whatever       *)
(* connections were lost and whatever was sent again or refused.           *)
THEOREM SuccessMeansOneExec == Spec => []SuccessIsTransaction
<1>1. TxnInv => SuccessIsTransaction
  BY DEF TxnInv
<1> QED
  BY <1>1, InitHolds, TxnStep, PTL DEF Spec

-----------------------------------------------------------------------------
(* What start_transaction and the server keep of a transaction.            *)

(* Commands that are the only ones of their call.                          *)
Alone == {"select", "smembers", "hgetall", "hmget"}

NoFaults == faults.loss + faults.refusal = 0

(* A write without columns may have failed, and left its transaction.      *)
Spoilt == "writeEmpty" \in Range(calls) /\ ~NoFaults

(* The server accepts EXEC and DISCARD even while it loads its data set or *)
(* has no memory left.                                                     *)
EndsAccepted == {"exec", "discard"} \cap Refusable = {}

(* The application has written no row without columns.                     *)
NoEmptyRow == "writeEmpty" \notin Range(calls)

Sure == EndsAccepted \/ NoFaults

(* The commands of any call from some point on.                            *)
Lined(t) ==
  /\ t \in Seq(Issued)
  /\ \A i \in 2..Len(t) : t[i].op # "multi"
  /\ \A i \in 1..Len(t) : t[i].op \in Alone => Len(t) = 1

Closes(t) == t # << >> /\ t[Len(t)].op \in {"exec", "discard"}

(* The flag is up, or the next command raises it.                          *)
Owes == flag \/ (todo # << >> /\ Head(todo).op = "multi")

(* The variables TxnInv does not type.                                     *)
Kinds ==
  /\ status \in {"closed", "open", "aborted"} /\ link \in {"up", "broken", "null"}
  /\ flag \in BOOLEAN /\ mayRetry \in BOOLEAN
  /\ calls \in Seq(Ops) /\ others \in 0..MaxOthers
  /\ faults \in [loss : 0..MaxLosses, refusal : 0..MaxRefusals]
  /\ session \in [open : BOOLEAN, dirty : BOOLEAN, queued : Seq(Issued)]

(* A session needs a connection, and a call a handle that is open or being *)
(* opened.                                                                 *)
Placed ==
  /\ link # "up" => session = NoSession
  /\ status = "closed" => ~flag /\ session = NoSession
  /\ status = "closed" /\ todo = << >> => link = "null"
  /\ status = "closed" /\ todo # << >> => Head(todo).op = "select"
  /\ todo # << >> => status # "aborted" /\ (Head(todo).op = "select" => status = "closed")

(* The flag is up whenever the server holds a transaction, and if it is up *)
(* then the running call still has an EXEC or a DISCARD to send.           *)
Flagged ==
  /\ todo # << >> /\ Head(todo).op = "multi" => ~flag
  /\ Sure /\ session.open => flag
  /\ Owes => status = "aborted" \/ Spoilt \/ Closes(todo)
  /\ status = "aborted" => ~NoFaults

HandleInv == Kinds /\ Lined(todo) /\ Placed /\ Flagged

(* No command ends a transaction, or has to.                               *)
Mild(t) == \A i \in 1..Len(t) : t[i].op \notin {"exec", "discard", "hmset"}

(* Reads and delete-alls leave a transaction that they meet where it is.   *)
MildInv == todo # << >> /\ Last(calls) \notin Transactional \cup {"writeEmpty"} => Mild(todo)

(* The commands that are left when the first is done.                      *)
LEMMA LinedTail ==
  ASSUME NEW t, Lined(t), t # << >>
  PROVE  /\ Lined(Tail(t)) /\ Head(t) = t[1] /\ Head(t) \in Issued /\ Len(t) > 0
         /\ Head(t).op \in Alone => Len(t) = 1
         /\ Len(t) = 1 => Tail(t) = << >>
         /\ Tail(t) = << >> => Len(t) = 1
         /\ Tail(t) # << >> => Head(Tail(t)).op # "multi" /\ Head(t).op \notin Alone
                               /\ Head(Tail(t)).op \notin Alone
         /\ Tail(t) # << >> /\ Closes(t) => Closes(Tail(t))
         /\ Len(t) = 1 /\ Closes(t) => Head(t).op \in {"exec", "discard"}
<1> DEFINE u == Tail(t)
<1>1. t \in Seq(Issued) /\ Len(t) \in Nat /\ Len(t) > 0 /\ Head(t) = t[1] /\ Head(t) \in Issued
  BY DEF Lined
<1>2. /\ u \in Seq(Issued) /\ Len(u) = Len(t) - 1
      /\ \A i \in 1..Len(u) : u[i] = t[i + 1] /\ i + 1 \in 2..Len(t) /\ i + 1 \in 1..Len(t)
  BY <1>1
<1> HIDE DEF u
<1>3. u # << >> <=> Len(u) > 0
  BY <1>1, <1>2
<1>4. \A i \in 1..Len(u) : u[i].op # "multi"
  BY <1>2 DEF Lined
<1>5. \A i \in 1..Len(u) : u[i].op \notin Alone
  <2> SUFFICES ASSUME NEW i \in 1..Len(u), u[i].op \in Alone PROVE FALSE
    OBVIOUS
  <2>1. Len(t) = 1
    BY <1>2 DEF Lined
  <2> QED
    BY <1>2, <2>1
<1>6. Lined(u)
  <2>1. \A i \in 2..Len(u) : i \in 1..Len(u)
    BY <1>1, <1>2
  <2> QED
    BY <1>2, <1>4, <1>5, <2>1 DEF Lined
<1>7. Head(t).op \in Alone => Len(t) = 1
  <2>1. 1 \in 1..Len(t)
    BY <1>1
  <2> QED
    BY <1>1, <2>1 DEF Lined
<1>8. u # << >> => Head(u) = u[1] /\ 1 \in 1..Len(u)
  BY <1>1, <1>2, <1>3
<1>9. u # << >> => u[Len(u)] = t[Len(t)]
  <2> SUFFICES ASSUME u # << >> PROVE u[Len(u)] = t[Len(t)]
    OBVIOUS
  <2>1. Len(u) \in 1..Len(u) /\ Len(u) + 1 = Len(t)
    BY <1>1, <1>2, <1>3
  <2> QED
    BY <1>2, <2>1
<1>10. u # << >> => Len(t) # 1
  BY <1>1, <1>2, <1>3
<1>11. u = << >> <=> Len(t) = 1
  BY <1>1, <1>2, <1>3
<1>12. u # << >> => Head(u).op # "multi" /\ Head(u).op \notin Alone /\ Head(t).op \notin Alone
  BY <1>4, <1>5, <1>7, <1>8, <1>10
<1>13. u # << >> /\ Closes(t) => Closes(u)
  BY <1>9 DEF Closes
<1>14. Len(t) = 1 /\ Closes(t) => Head(t).op \in {"exec", "discard"}
  BY <1>1 DEF Closes
<1> QED
  BY <1>1, <1>6, <1>7, <1>11, <1>12, <1>13, <1>14 DEF u

(* A transaction is a sequence of commands as calls issue them.            *)
LEMMA ShapedLined ==
  ASSUME NEW t, Shaped(t)
  PROVE  Lined(t) /\ Closes(t)
<1>1. t \in Seq(Issued) /\ t # << >> /\ Len(t) \in Nat /\ Len(t) > 0 /\ t[Len(t)] = Exec
  BY ShapedNotEmpty DEF Shaped
<1>2. Exec.op = "exec"
  BY Ends
<1>3. \A i \in 1..Len(t) : t[i].op \notin Alone
  <2> SUFFICES ASSUME NEW i \in 1..Len(t) PROVE t[i].op \notin Alone
    OBVIOUS
  <2>1. i = Len(t) \/ i \in 1..(Len(t) - 1)
    BY <1>1
  <2> QED
    BY <1>1, <1>2, <2>1 DEF Shaped, TxnOps, Alone
<1> QED
  BY <1>1, <1>2, <1>3 DEF Lined, Closes, Shaped

(* A call of one command, or of none.                                      *)
LEMMA OneLined ==
  ASSUME NEW c \in Issued
  PROVE  /\ Lined(<<c>>) /\ <<c>> # << >> /\ Head(<<c>>) = c
         /\ c.op \in {"exec", "discard"} => Closes(<<c>>)
BY DEF Lined, Closes

(* So is the empty one,                                                    *)
LEMMA NoneLined == Lined(<< >>) /\ ~Closes(<< >>)
BY DEF Lined, Closes

(* ... and that of a row without columns.                                  *)
LEMMA EmptyRowLined ==
  ASSUME NEW k \in Keys
  PROVE  /\ Lined(EmptyRowCmds(k)) /\ Closes(EmptyRowCmds(k))
         /\ EmptyRowCmds(k) # << >> /\ Head(EmptyRowCmds(k)).op = "multi"
<1> DEFINE a == Cmd("sadd", k, NoCol)
           b == Cmd("hmset", k, NoCol)
           t == <<Multi, a, b, Exec, Discard>>
<1>1. "sadd" \in OpNames /\ "hmset" \in OpNames /\ "discard" \in OpNames
  BY DEF OpNames
<1>2. /\ a \in Issued /\ a.op = "sadd" /\ b \in Issued /\ b.op = "hmset"
      /\ Discard \in Issued /\ Discard.op = "discard"
      /\ Multi \in Issued /\ Multi.op = "multi" /\ Exec \in Issued /\ Exec.op = "exec"
  BY <1>1, CmdType, Ends DEF Discard
<1> HIDE DEF a, b
<1>3. /\ t \in Seq(Issued) /\ Len(t) = 5 /\ t # << >> /\ Head(t) = Multi
      /\ t[1] = Multi /\ t[2] = a /\ t[3] = b /\ t[4] = Exec /\ t[5] = Discard
  BY <1>2
<1> HIDE DEF t
<1>4. \A i \in 1..Len(t) : i = 1 \/ i = 2 \/ i = 3 \/ i = 4 \/ i = 5
  BY <1>3
<1>5. \A i \in 2..Len(t) : i = 2 \/ i = 3 \/ i = 4 \/ i = 5
  BY <1>3
<1>6. Lined(t)
  BY <1>2, <1>3, <1>4, <1>5 DEF Lined, Alone
<1>7. Closes(t)
  BY <1>2, <1>3 DEF Closes
<1>8. EmptyRowCmds(k) = t
  BY DEF EmptyRowCmds, t, a, b
<1> QED
  BY <1>2, <1>3, <1>6, <1>7, <1>8

(* What a delete-all sends after its SMEMBERS.                             *)
LEMMA ListedLined ==
  ASSUME NEW order \in Seq(Keys)
  PROVE  LET t == DeleteListed(order)
         IN  /\ Lined(t) /\ t # << >> /\ Head(t).op # "multi" /\ Head(t).op # "smembers"
             /\ \A i \in 1..Len(t) : t[i].op \in {"del", "delset"}
             /\ t[Len(t)].op = "delset" /\ Len(t) \in 1..Len(t)
             /\ \A i \in 1..Len(order) : i \in 1..Len(t) /\ t[i].op = "del" /\ t[i].key = order[i]
<1> DEFINE dels == [i \in 1..Len(order) |-> Cmd("del", order[i], NoCol)]
           last == Cmd("delset", NoKey, NoCol)
           t    == dels \o <<last>>
<1>1. "del" \in OpNames /\ "delset" \in OpNames /\ Len(order) \in Nat
  BY DEF OpNames
<1>2. last \in Issued /\ last.op = "delset"
  BY <1>1, CmdType
<1>3. \A i \in 1..Len(order) : dels[i] \in Issued /\ dels[i].op = "del" /\ dels[i].key = order[i]
  BY <1>1, CmdType DEF Cmd
<1>4. dels \in Seq(Issued) /\ Len(dels) = Len(order)
  BY <1>1, <1>3
<1> HIDE DEF dels, last
<1>5. <<last>> \in Seq(Issued) /\ Len(<<last>>) = 1 /\ <<last>>[1] = last
  BY <1>2
<1>6. /\ t \in Seq(Issued) /\ Len(t) = Len(order) + 1
      /\ \A i \in 1..Len(order) : t[i] = dels[i]
      /\ t[Len(order) + 1] = last
  BY <1>1, <1>4, <1>5, ConcatProperties
<1>7. DeleteListed(order) = t
  BY DEF DeleteListed, dels, last
<1> HIDE DEF t
<1>8. \A i \in 1..Len(t) : i \in 1..Len(order) \/ i = Len(order) + 1
  BY <1>1, <1>6
<1>9. \A i \in 1..Len(t) : t[i].op \in {"del", "delset"}
  BY <1>2, <1>3, <1>6, <1>8
<1>10. t # << >> /\ Head(t) = t[1] /\ 1 \in 1..Len(t) /\ Len(t) \in 1..Len(t)
  BY <1>1, <1>6
<1>11. \A i \in 2..Len(t) : i \in 1..Len(t)
  BY <1>1, <1>6
<1>12. Lined(t)
  BY <1>6, <1>9, <1>11 DEF Lined, Alone
<1>13. \A i \in 1..Len(order) : i \in 1..Len(t) /\ t[i].op = "del" /\ t[i].key = order[i]
  BY <1>1, <1>3, <1>6
<1>14. t[Len(t)].op = "delset"
  BY <1>2, <1>6
<1> QED
  BY <1>7, <1>9, <1>10, <1>12, <1>13, <1>14

(* Faults only grow in number, and calls in length.                        *)
LEMMA FaultsGrow ==
  ASSUME faults \in [loss : 0..MaxLosses, refusal : 0..MaxRefusals],
         \/ UNCHANGED faults
         \/ \E n \in 0..2 : faults' = [faults EXCEPT !.loss = @ + n]
         \/ faults' = [faults EXCEPT !.refusal = @ + 1]
  PROVE  NoFaults' => NoFaults
<1>1. faults.loss \in Nat /\ faults.refusal \in Nat
  BY BoundsAssumption
<1>2. CASE UNCHANGED faults
  BY <1>2 DEF NoFaults
<1>3. CASE \E n \in 0..2 : faults' = [faults EXCEPT !.loss = @ + n]
  <2>1. PICK n \in 0..2 : faults'.loss = faults.loss + n /\ faults'.refusal = faults.refusal
    BY <1>3
  <2> QED
    BY <1>1, <2>1 DEF NoFaults
<1>4. CASE faults' = [faults EXCEPT !.refusal = @ + 1]
  <2>1. faults'.refusal = faults.refusal + 1 /\ faults'.loss = faults.loss
    BY <1>4
  <2> QED
    BY <1>1, <2>1 DEF NoFaults
<1> QED
  BY <1>2, <1>3, <1>4

(* A refused command is a fault,                                           *)
LEMMA RefusalCounts ==
  ASSUME faults \in [loss : 0..MaxLosses, refusal : 0..MaxRefusals],
         faults' = [faults EXCEPT !.refusal = @ + 1], faults.refusal < MaxRefusals
  PROVE  faults' \in [loss : 0..MaxLosses, refusal : 0..MaxRefusals] /\ ~NoFaults'
<1>1. faults.loss \in Nat /\ faults.refusal \in Nat /\ MaxRefusals \in Nat
  BY BoundsAssumption
<1>2. faults'.refusal = faults.refusal + 1 /\ faults'.loss = faults.loss
  OBVIOUS
<1>3. ~NoFaults'
  BY <1>1, <1>2 DEF NoFaults
<1>4. faults'.refusal \in 0..MaxRefusals
  BY <1>1, <1>2
<1> QED
  BY <1>2, <1>3, <1>4

(* ... and so is a lost connection.                                        *)
LEMMA LossCounts ==
  ASSUME faults \in [loss : 0..MaxLosses, refusal : 0..MaxRefusals], NEW n \in Nat,
         faults' = [faults EXCEPT !.loss = @ + n], faults.loss + n <= MaxLosses
  PROVE  /\ faults' \in [loss : 0..MaxLosses, refusal : 0..MaxRefusals]
         /\ n > 0 => ~NoFaults'
<1>1. faults.loss \in Nat /\ faults.refusal \in Nat /\ MaxLosses \in Nat
  BY BoundsAssumption
<1>2. faults'.loss = faults.loss + n /\ faults'.refusal = faults.refusal
  OBVIOUS
<1>3. n > 0 => ~NoFaults'
  BY <1>1, <1>2 DEF NoFaults
<1>4. faults'.loss \in 0..MaxLosses
  BY <1>1, <1>2
<1> QED
  BY <1>2, <1>3, <1>4

(* A write of a row without columns is not forgotten.                      *)
LEMMA SpoiltStays ==
  ASSUME Kinds, NoFaults' => NoFaults,
         calls' = calls \/ \E op \in Ops : calls' = Append(calls, op)
  PROVE  Spoilt => Spoilt'
<1> SUFFICES ASSUME Spoilt PROVE "writeEmpty" \in Range(calls')
  BY DEF Spoilt
<1>1. CASE calls' = calls
  BY <1>1 DEF Spoilt
<1>2. CASE \E op \in Ops : calls' = Append(calls, op)
  <2>1. PICK op \in Ops : calls' = Append(calls, op)
    BY <1>2
  <2>2. PICK i \in DOMAIN calls : calls[i] = "writeEmpty"
    BY DEF Spoilt, Range
  <2>3. i \in DOMAIN calls' /\ calls'[i] = calls[i]
    BY <2>1, <2>2 DEF Kinds
  <2> QED
    BY <2>2, <2>3 DEF Range
<1> QED
  BY <1>1, <1>2

(* The connection without MULTI.                                           *)
LEMMA NoSessionKind ==
  /\ NoSession \in [open : BOOLEAN, dirty : BOOLEAN, queued : Seq(Issued)]
  /\ ~NoSession.open /\ ~NoSession.dirty
BY DEF NoSession

(* What the sessions of a server look like.                                *)
LEMMA SessionKinds ==
  ASSUME session \in [open : BOOLEAN, dirty : BOOLEAN, queued : Seq(Issued)], NEW c \in Issued
  PROVE  /\ NoSession \in [open : BOOLEAN, dirty : BOOLEAN, queued : Seq(Issued)]
         /\ ~NoSession.open /\ ~NoSession.dirty
         /\ SessionAfter(c) \in [open : BOOLEAN, dirty : BOOLEAN, queued : Seq(Issued)]
         /\ [session EXCEPT !.dirty = session.open]
              \in [open : BOOLEAN, dirty : BOOLEAN, queued : Seq(Issued)]
         /\ session = NoSession => [session EXCEPT !.dirty = session.open] = NoSession
         /\ session = NoSession /\ c.op # "multi" => SessionAfter(c) = NoSession
         /\ c.op \in {"exec", "discard"} => SessionAfter(c) = NoSession
         /\ c.op = "multi" /\ session.open => SessionAfter(c) = session
         /\ c.op \notin {"multi", "exec", "discard"} => SessionAfter(c).open = session.open
<1>1. NoSession \in [open : BOOLEAN, dirty : BOOLEAN, queued : Seq(Issued)]
      /\ ~NoSession.open /\ ~NoSession.dirty
  BY DEF NoSession
<1>2. /\ [session EXCEPT !.dirty = session.open]
           \in [open : BOOLEAN, dirty : BOOLEAN, queued : Seq(Issued)]
      /\ session = NoSession => [session EXCEPT !.dirty = session.open] = NoSession
  <2>1. [session EXCEPT !.dirty = session.open]
          = [open |-> session.open, dirty |-> session.open, queued |-> session.queued]
    OBVIOUS
  <2>2. NoSession = [open |-> NoSession.open, dirty |-> NoSession.open, queued |-> NoSession.queued]
    BY DEF NoSession
  <2>3. session.open \in BOOLEAN /\ session.queued \in Seq(Issued)
    OBVIOUS
  <2> QED
    BY <2>1, <2>2, <2>3
<1>3. CASE c.op = "multi"
  <2>1. /\ SessionAfter(c) = session \/ SessionAfter(c) = [NoSession EXCEPT !.open = TRUE]
        /\ session.open => SessionAfter(c) = session
    BY <1>3 DEF SessionAfter
  <2> QED
    BY <1>1, <1>2, <1>3, <2>1
<1>4. CASE c.op \in {"exec", "discard"}
  <2>1. SessionAfter(c) = NoSession
    BY <1>4 DEF SessionAfter
  <2> QED
    BY <1>1, <1>2, <1>4, <2>1
<1>5. CASE c.op \notin {"multi", "exec", "discard"}
  <2>1. SessionAfter(c) =
          IF session.open THEN [session EXCEPT !.queued = Append(session.queued, c)] ELSE session
    BY <1>5 DEF SessionAfter
  <2>2. Append(session.queued, c) \in Seq(Issued)
    OBVIOUS
  <2> QED
    BY <1>1, <1>2, <1>5, <2>1, <2>2
<1> QED
  BY <1>3, <1>4, <1>5

(* A call that has failed has a DISCARD left.                              *)
LEMMA DiscardOnly ==
  /\ Discard \in Issued /\ Discard.op = "discard"
  /\ Lined(<<Discard>>) /\ Closes(<<Discard>>) /\ <<Discard>> # << >> /\ Head(<<Discard>>) = Discard
<1>1. "discard" \in OpNames
  BY DEF OpNames
<1>2. Discard \in Issued /\ Discard.op = "discard"
  BY <1>1, CmdType DEF Discard
<1> QED
  BY <1>2, OneLined

(* A command has failed: what is left is a DISCARD, or nothing.            *)
LEMMA FailHandle ==
  ASSUME TxnInv, HandleInv, MildInv, todo # << >>, calls' = calls, others' = others,
         NEW l \in {"up", "broken", "null"}, Fail(Head(todo), l),
         faults' \in [loss : 0..MaxLosses, refusal : 0..MaxRefusals],
         session' \in [open : BOOLEAN, dirty : BOOLEAN, queued : Seq(Issued)],
         NoFaults' => NoFaults,
         Head(todo).op \notin {"multi", "exec", "discard", "hmset"} => ~NoFaults',
         session'.open => session.open,
         Sure' /\ session'.open => Head(todo).op \notin {"exec", "discard"},
         link' # "up" => session' = NoSession,
         status = "closed" => session' = NoSession
  PROVE  HandleInv'
<1> DEFINE c == Head(todo)
<1>1. /\ todo' = AfterFailure(c) /\ mayRetry' = TRUE /\ status' = status
      /\ flag' = (flag /\ c.op \notin {"exec", "discard", "multi"})
      /\ link' = IF c.op = "select" THEN "null" ELSE l
  BY DEF Fail, Continue
<1>2. Lined(todo) /\ Kinds /\ Placed /\ Flagged
  BY DEF HandleInv
<1>3. Kinds'
  BY <1>1, <1>2 DEF Kinds
<1>4. Spoilt => Spoilt'
  BY <1>2, SpoiltStays
<1>5. Sure' => Sure
  BY DEF Sure
<1>6. flag \in BOOLEAN /\ ~(c.op = "select" /\ c.op = "multi")
  BY <1>2 DEF Kinds
<1>7. c.op = "multi" => ~flag
  BY <1>2 DEF Flagged, c
<1>8. status # "aborted"
  BY <1>2 DEF Placed
<1>9. status = "closed" => ~flag /\ c.op = "select"
  BY <1>2 DEF Placed, c
<1>10. Sure' /\ session'.open => flag'
  <2> SUFFICES ASSUME Sure', session'.open PROVE flag'
    OBVIOUS
  <2>1. flag
    BY <1>2, <1>5 DEF Flagged
  <2> QED
    BY <1>1, <1>7, <2>1 DEF c
<1> HIDE DEF c
<1>11. CASE todo' = <<Discard>>
  <2>1. flag
    <3>1. <<Discard>> # << >>
      BY DiscardOnly
    <3> QED
      BY <1>1, <1>11, <3>1 DEF AfterFailure
  <2>2. status # "closed"
    BY <1>9, <2>1
  <2>3. Lined(todo') /\ Closes(todo') /\ todo' # << >> /\ Head(todo').op = "discard"
    BY <1>11, DiscardOnly
  <2>4. Placed'
    BY <1>1, <1>8, <2>2, <2>3 DEF Placed
  <2>5. Flagged'
    BY <1>1, <1>8, <1>10, <2>3 DEF Flagged
  <2> QED
    BY <1>3, <2>3, <2>4, <2>5 DEF HandleInv
<1>12. CASE todo' = << >>
  <2>1. Lined(todo')
    BY <1>12, NoneLined
  <2>2. Placed'
    BY <1>1, <1>8, <1>9, <1>12 DEF Placed
  <2>3. Owes' => Spoilt'
    <3> SUFFICES ASSUME Owes' PROVE Spoilt'
      OBVIOUS
    <3>1. flag' /\ flag /\ c.op \notin {"exec", "discard", "multi"}
      BY <1>1, <1>12 DEF Owes
    <3>2. Last(calls) \notin Transactional /\ c.op # "hmset"
      <4>1. <<Discard>> # << >>
        BY DiscardOnly
      <4> QED
        BY <1>1, <1>12, <3>1, <4>1 DEF AfterFailure
    <3>3. CASE Last(calls) = "writeEmpty"
      <4>1. calls # << >> /\ calls \in Seq(Ops)
        BY <1>2 DEF Kinds, TxnInv, Typed
      <4>2. Last(calls) = calls[Len(calls)] /\ Len(calls) \in DOMAIN calls
        BY <4>1 DEF Last
      <4>3. "writeEmpty" \in Range(calls)
        BY <3>3, <4>2 DEF Range
      <4> QED
        BY <3>1, <3>2, <4>3 DEF Spoilt, c
    <3>4. CASE Last(calls) # "writeEmpty"
      <4>1. Mild(todo) /\ Len(todo) \in 1..Len(todo)
        BY <1>2, <3>2, <3>4 DEF MildInv, Lined
      <4>2. ~Closes(todo)
        BY <4>1 DEF Closes, Mild
      <4> QED
        BY <1>2, <1>4, <1>8, <3>1, <4>2 DEF Flagged, Owes
    <3> QED
      BY <3>3, <3>4
  <2>4. Flagged'
    BY <1>1, <1>8, <1>10, <1>12, <2>3 DEF Flagged
  <2> QED
    BY <1>3, <2>1, <2>2, <2>4 DEF HandleInv
<1>13. todo' = <<Discard>> \/ todo' = << >>
  BY <1>1 DEF AfterFailure
<1> QED
  BY <1>11, <1>12, <1>13

(* An assertion has failed.                                                *)
LEMMA AbortHandle ==
  ASSUME HandleInv, todo # << >>, calls' = calls, others' = others, Abort,
         link' \in {"up", "broken", "null"},
         faults' \in [loss : 0..MaxLosses, refusal : 0..MaxRefusals],
         session' \in [open : BOOLEAN, dirty : BOOLEAN, queued : Seq(Issued)],
         NoFaults' => NoFaults, ~NoFaults',
         session'.open => session.open,
         link' # "up" => session' = NoSession
  PROVE  HandleInv'
<1>1. todo' = << >> /\ status' = "aborted" /\ flag' = flag /\ mayRetry' = mayRetry
  BY DEF Abort
<1>2. Lined(todo') /\ Kinds /\ Flagged
  BY <1>1, NoneLined DEF HandleInv
<1>3. Kinds'
  BY <1>1, <1>2 DEF Kinds
<1>4. Sure' => Sure
  BY DEF Sure
<1>5. Placed'
  BY <1>1 DEF Placed
<1>6. Flagged'
  BY <1>1, <1>2, <1>4 DEF Flagged
<1> QED
  BY <1>2, <1>3, <1>5, <1>6 DEF HandleInv

(* A command has succeeded.                                                *)
LEMMA SucceedHandle ==
  ASSUME TxnInv, HandleInv, todo # << >>, link = "up", UNCHANGED <<calls, others, faults, link>>,
         NEW rest, todo' = rest, Lined(rest), mayRetry' = TRUE,
         Head(todo).op # "smembers" => rest = Tail(todo),
         Head(todo).op = "smembers" => rest # << >> /\ Head(rest).op \notin {"multi", "select"},
         flag' = ((flag \/ Head(todo).op = "multi") /\ Head(todo).op \notin {"exec", "discard"}),
         status' = IF Head(todo).op = "select" THEN "open" ELSE status,
         session' = SessionAfter(Head(todo))
  PROVE  HandleInv'
<1> DEFINE c == Head(todo)
<1>1. Lined(todo) /\ Kinds /\ Placed /\ Flagged
  BY DEF HandleInv
<1>2. /\ c \in Issued
      /\ c.op \in Alone => Len(todo) = 1
      /\ Tail(todo) = << >> => Len(todo) = 1
      /\ Tail(todo) # << >> => Head(Tail(todo)).op # "multi" /\ c.op \notin Alone
                               /\ Head(Tail(todo)).op \notin Alone
      /\ Tail(todo) # << >> /\ Closes(todo) => Closes(Tail(todo))
      /\ Len(todo) = 1 /\ Closes(todo) => c.op \in {"exec", "discard"}
  BY <1>1, LinedTail
<1>3. /\ session' \in [open : BOOLEAN, dirty : BOOLEAN, queued : Seq(Issued)]
      /\ ~NoSession.open
      /\ session = NoSession /\ c.op # "multi" => session' = NoSession
      /\ c.op \in {"exec", "discard"} => session' = NoSession
      /\ c.op \notin {"multi", "exec", "discard"} => session'.open = session.open
  BY <1>1, <1>2, SessionKinds DEF Kinds
<1>4. Kinds'
  BY <1>1, <1>3 DEF Kinds
<1>5. (Spoilt => Spoilt') /\ (Sure' => Sure) /\ (NoFaults' <=> NoFaults)
  BY DEF Spoilt, Sure, NoFaults
<1>6. /\ status # "aborted" /\ (c.op = "select" <=> status = "closed")
      /\ (status = "closed" => ~flag) /\ (c.op = "multi" => ~flag)
      /\ flag \in BOOLEAN
  BY <1>1 DEF Placed, Flagged, Kinds, c
<1>7. status' # "closed" /\ status' # "aborted"
  BY <1>6
<1>8. rest # << >> => Head(rest).op \notin {"multi", "select"}
  <2>1. CASE c.op = "smembers"
    BY <2>1
  <2>2. CASE c.op # "smembers"
    BY <1>2, <2>2 DEF Alone
  <2> QED
    BY <2>1, <2>2
<1>9. Placed'
  BY <1>7, <1>8 DEF Placed
<1>10. Sure' /\ session'.open => flag'
  <2> SUFFICES ASSUME Sure', session'.open PROVE flag'
    OBVIOUS
  <2>1. c.op \notin {"exec", "discard"}
    BY <1>3
  <2>2. c.op = "multi" \/ flag
    BY <1>1, <1>3, <1>5, <2>1 DEF Flagged
  <2> QED
    BY <2>1, <2>2
<1>11. flag' => flag \/ c.op = "multi"
  OBVIOUS
<1>12. Owes' => Spoilt' \/ Closes(todo')
  <2> SUFFICES ASSUME Owes', ~Spoilt' PROVE Closes(rest)
    OBVIOUS
  <2>1. flag'
    BY <1>8 DEF Owes
  <2>2. c.op \notin {"exec", "discard"} /\ Owes
    BY <2>1 DEF Owes
  <2>3. Closes(todo)
    BY <1>1, <1>5, <1>6, <2>2 DEF Flagged
  <2>4. Len(todo) # 1
    BY <1>2, <2>2, <2>3
  <2>5. rest = Tail(todo) /\ rest # << >>
    BY <1>2, <2>4 DEF Alone
  <2> QED
    BY <1>2, <2>3, <2>5
<1>13. Flagged'
  BY <1>7, <1>8, <1>10, <1>12 DEF Flagged
<1> QED
  BY <1>4, <1>9, <1>13 DEF HandleInv

-----------------------------------------------------------------------------
(* The table.                                                              *)

Values == 0..(MaxCalls + MaxOthers)

TableInv ==
  /\ table.ids \subseteq Keys /\ IsFiniteSet(table.ids)
  /\ table.rows \in [Keys -> [Cols -> Values]]

(* The effect of any commands on a table is a table.                       *)
LEMMA EffectType ==
  ASSUME NEW t, t.ids \subseteq Keys, IsFiniteSet(t.ids), t.rows \in [Keys -> [Cols -> Values]],
         Current \in Values, NEW q \in Seq(Issued)
  PROVE  /\ Effect(t, q).ids \subseteq Keys /\ IsFiniteSet(Effect(t, q).ids)
         /\ Effect(t, q).rows \in [Keys -> [Cols -> Values]]
<1>1. 0 \in Values
  BY BoundsAssumption DEF Values
<1>2. Effect(t, q).rows \in [Keys -> [Cols -> Values]]
  <2> SUFFICES ASSUME NEW k \in Keys, NEW c \in Cols PROVE Effect(t, q).rows[k][c] \in Values
    BY DEF Effect
  <2>1. t.rows[k][c] \in Values
    OBVIOUS
  <2> QED
    BY <1>1, <2>1 DEF Effect
<1>3. Effect(t, q).ids \subseteq Keys
  BY DEF Effect
<1>4. IsFiniteSet(Effect(t, q).ids)
  <2> DEFINE n == Len(q)
             S == {q[i].key : i \in 1..n}
             f == [i \in 1..n |-> q[i].key]
  <2>1. n \in Nat /\ DOMAIN q = 1..n
    OBVIOUS
  <2>2. IsFiniteSet(1..n)
    BY <2>1, FS_Interval
  <2>3. f \in Surjection(1..n, S)
    BY DEF Surjection
  <2>4. IsFiniteSet(S)
    BY <2>2, <2>3, FS_Surjection
  <2>5. Effect(t, q).ids \subseteq t.ids \cup S
    <3> SUFFICES ASSUME NEW k \in Effect(t, q).ids, k \notin t.ids PROVE k \in S
      OBVIOUS
    <3>1. \E i \in DOMAIN q : q[i].key = k
      BY DEF Effect
    <3> QED
      BY <2>1, <3>1
  <2>6. IsFiniteSet(t.ids \cup S)
    BY <2>4, FS_Union
  <2> QED
    BY <2>5, <2>6, FS_Subset
<1> QED
  BY <1>2, <1>3, <1>4

(* The effect of one command.                                              *)
LEMMA EffectOne ==
  ASSUME NEW t, t.ids \subseteq Keys, t.rows \in [Keys -> [Cols -> Values]], NEW c \in Issued
  PROVE  LET u == Effect(t, <<c>>)
         IN  /\ u.ids \subseteq Keys /\ DOMAIN u.rows = Keys
             /\ \A k \in Keys :
                  /\ k \in u.ids <=> \/ c.op = "sadd" /\ c.key = k
                                     \/ k \in t.ids /\ c.op # "delset" /\ ~(c.op = "srem" /\ c.key = k)
                  /\ DOMAIN u.rows[k] = Cols
                  /\ c.op = "del" /\ c.key = k => u.rows[k] = EmptyRow
                  /\ ~(c.op \in {"hset", "del"} /\ c.key = k) => u.rows[k] = t.rows[k]
<1> DEFINE u == Effect(t, <<c>>)
<1>1. DOMAIN <<c>> = {1} /\ <<c>>[1] = c /\ \A i \in {1} : {j \in {1} : j > i} = {}
  OBVIOUS
<1>2. u.ids \subseteq Keys /\ DOMAIN u.rows = Keys /\ \A k \in Keys : DOMAIN u.rows[k] = Cols
  BY DEF Effect
<1>3. ASSUME NEW k \in Keys
      PROVE  k \in u.ids <=> \/ c.op = "sadd" /\ c.key = k
                             \/ k \in t.ids /\ c.op # "delset" /\ ~(c.op = "srem" /\ c.key = k)
  BY <1>1 DEF Effect
<1>4. ASSUME NEW k \in Keys, c.op = "del", c.key = k PROVE u.rows[k] = EmptyRow
  <2>1. \A d \in Cols : u.rows[k][d] = 0
    BY <1>1, <1>4 DEF Effect
  <2>2. u.rows[k] = [d \in Cols |-> u.rows[k][d]]
    BY DEF Effect
  <2> QED
    BY <2>1, <2>2 DEF EmptyRow
<1>5. ASSUME NEW k \in Keys, ~(c.op \in {"hset", "del"} /\ c.key = k) PROVE u.rows[k] = t.rows[k]
  <2>1. \A d \in Cols : u.rows[k][d] = t.rows[k][d]
    BY <1>1, <1>5 DEF Effect
  <2>2. u.rows[k] = [d \in Cols |-> u.rows[k][d]]
    BY DEF Effect
  <2>3. t.rows[k] = [d \in Cols |-> t.rows[k][d]]
    OBVIOUS
  <2> QED
    BY <2>1, <2>2, <2>3
<1> QED
  BY <1>2, <1>3, <1>4, <1>5

(* The number of the running call is a value of the table.                 *)
LEMMA CurrentValue ==
  ASSUME TxnInv
  PROVE  Current \in Values /\ Current \in 0..MaxCalls
BY BoundsAssumption DEF TxnInv, Typed, Current, Values

(* A served command leaves a table,                                        *)
LEMMA ServeTable ==
  ASSUME TxnInv, Kinds, TableInv, NEW c \in Issued, Serve(c)
  PROVE  TableInv'
<1>1. session.queued \in Seq(Issued) /\ <<c>> \in Seq(Issued)
  BY DEF Kinds
<1>2. table' = table \/ \E q \in Seq(Issued) : table' = Effect(table, q)
  BY <1>1 DEF Serve
<1>3. CASE table' = table
  BY <1>3 DEF TableInv
<1>4. CASE \E q \in Seq(Issued) : table' = Effect(table, q)
  BY <1>4, EffectType, CurrentValue DEF TableInv
<1> QED
  BY <1>2, <1>3, <1>4

(* ... and so does another client.                                         *)
LEMMA OtherTable ==
  ASSUME Kinds, TableInv, OtherClient
  PROVE  TableInv'
<1>1. PICK k \in Keys :
        \/ table' = [ids  |-> table.ids \cup {k},
                     rows |-> [table.rows EXCEPT ![k] = [c \in Cols |-> MaxCalls + others']]]
        \/ table' = [ids  |-> table.ids \ {k}, rows |-> [table.rows EXCEPT ![k] = EmptyRow]]
  BY DEF OtherClient
<1>2. MaxCalls + others' \in Values /\ 0 \in Values
  BY BoundsAssumption DEF OtherClient, Kinds, Values
<1>3. table'.ids \in {table.ids \cup {k}, table.ids \ {k}}
  BY <1>1
<1>4. table'.ids \subseteq Keys /\ IsFiniteSet(table'.ids)
  BY <1>3, FS_AddElement, FS_RemoveElement DEF TableInv
<1>5. table'.rows \in [Keys -> [Cols -> Values]]
  <2>1. CASE table'.rows = [table.rows EXCEPT ![k] = [c \in Cols |-> MaxCalls + others']]
    BY <1>2, <2>1 DEF TableInv
  <2>2. CASE table'.rows = [table.rows EXCEPT ![k] = EmptyRow]
    BY <1>2, <2>2 DEF TableInv, EmptyRow
  <2> QED
    BY <1>1, <2>1, <2>2
<1> QED
  BY <1>4, <1>5 DEF TableInv

(* SMEMBERS lists the whole index, in some order.                          *)
LEMMA ListedOrder ==
  ASSUME NEW S \in SUBSET Keys, IsFiniteSet(S), NEW order \in SetToSeqs(S)
  PROVE  order \in Seq(Keys) /\ \A k \in S : \E i \in 1..Len(order) : order[i] = k
<1> DEFINE n == Cardinality(S)
<1>1. n \in Nat
  BY FS_CardinalityType
<1>2. order \in [1..n -> S] /\ \A i, j \in 1..n : i # j => order[i] # order[j]
  BY DEF SetToSeqs
<1>3. order \in Seq(Keys) /\ Len(order) = n
  BY <1>1, <1>2
<1>4. order \in Injection(1..n, S)
  BY <1>2 DEF Injection, IsInjective
<1>5. Cardinality(1..n) = n
  BY <1>1, FS_Interval
<1>6. order \in Surjection(1..n, S)
  BY <1>4, <1>5, FS_Injection
<1> QED
  BY <1>3, <1>6 DEF Surjection

-----------------------------------------------------------------------------
(* Each step keeps HandleInv.                                              *)

(* Which of the commands of the running call is served, and what is left.  *)
LEMMA HeadKinds ==
  ASSUME HandleInv, todo # << >>
  PROVE  /\ Head(todo) \in Issued /\ Lined(Tail(todo))
         /\ Kinds /\ Lined(todo) /\ Placed /\ Flagged
BY LinedTail DEF HandleInv

(* The reply comes.                                                        *)
LEMMA AnsweredHandle ==
  ASSUME TxnInv, HandleInv, MildInv, TableInv, Answered
  PROVE  HandleInv'
<1> DEFINE c == Head(todo)
<1>1. /\ todo # << >> /\ link = "up" /\ UNCHANGED <<calls, faults, others>>
      /\ session' = SessionAfter(c) /\ link' \in {"up", "broken", "null"}
      /\ IF ReplyOk(c) THEN Succeed(c) /\ UNCHANGED link ELSE Fail(c, link)
  BY DEF Answered, Fail
<1>2. /\ c \in Issued /\ Lined(Tail(todo)) /\ Kinds /\ Lined(todo) /\ Placed /\ Flagged
  BY <1>1, HeadKinds
<1>3. /\ session' \in [open : BOOLEAN, dirty : BOOLEAN, queued : Seq(Issued)]
      /\ ~NoSession.open
      /\ session = NoSession /\ c.op # "multi" => session' = NoSession
      /\ c.op \in {"exec", "discard"} => session' = NoSession
      /\ c.op \notin {"multi", "exec", "discard"} => session'.open = session.open
  BY <1>1, <1>2, SessionKinds DEF Kinds
<1>4. NoFaults' <=> NoFaults
  BY <1>1 DEF NoFaults
<1>5. faults' \in [loss : 0..MaxLosses, refusal : 0..MaxRefusals]
  BY <1>1, <1>2 DEF Kinds
<1>6. CASE ~ReplyOk(c)
  <2>1. Fail(c, link) /\ (c.op \in {"exec", "discard"} \/ (c.op = "multi" /\ session.open))
    BY <1>1, <1>6 DEF ReplyOk
  <2>2. c.op = "multi" => session' = session
    BY <1>1, <1>2, <2>1, SessionKinds DEF Kinds
  <2>3. link' = "up"
    BY <1>1, <2>1 DEF Fail
  <2>4. status = "closed" => session' = NoSession
    BY <1>2, <1>3, <2>1, <2>2 DEF Placed
  <2> QED
    BY <1>1, <1>3, <1>4, <1>5, <2>1, <2>2, <2>3, <2>4, FailHandle
<1>7. CASE ReplyOk(c) /\ c.op \in {"hgetall", "hmget"} /\ session.open
  <2>1. Abort
    BY <1>1, <1>7 DEF Succeed
  <2>2. ~NoFaults
    <3> SUFFICES ASSUME NoFaults PROVE FALSE
      OBVIOUS
    <3>1. flag
      BY <1>2, <1>7 DEF Flagged, Sure
    <3>2. Closes(todo)
      BY <1>1, <1>2, <3>1 DEF Flagged, Owes, Spoilt, Placed
    <3>3. Len(todo) = 1
      BY <1>1, <1>2, <1>7, LinedTail DEF Alone
    <3> QED
      BY <1>1, <1>2, <1>7, <3>2, <3>3, LinedTail
  <2>3. link' = "up" /\ session'.open = session.open
    BY <1>1, <1>3, <1>7
  <2> QED
    BY <1>1, <1>3, <1>4, <1>5, <2>1, <2>2, <2>3, AbortHandle
<1>8. CASE ReplyOk(c) /\ ~(c.op \in {"hgetall", "hmget"} /\ session.open)
  <2>1. /\ flag' = ((flag \/ c.op = "multi") /\ c.op \notin {"exec", "discard"})
        /\ status' = IF c.op = "select" THEN "open" ELSE status
        /\ IF c.op = "smembers"
             THEN \E order \in SetToSeqs(IF session.open THEN {} ELSE table.ids) :
                    Continue(DeleteListed(order), failed)
             ELSE Continue(Tail(todo), failed)
        /\ UNCHANGED link
    BY <1>1, <1>8 DEF Succeed
  <2>2. CASE c.op # "smembers"
    <3>1. todo' = Tail(todo) /\ mayRetry' = TRUE
      BY <2>1, <2>2 DEF Continue
    <3> QED
      BY <1>1, <1>2, <2>1, <2>2, <3>1, SucceedHandle
  <2>3. CASE c.op = "smembers"
    <3>1. PICK order \in SetToSeqs(IF session.open THEN {} ELSE table.ids) :
            Continue(DeleteListed(order), failed)
      BY <2>1, <2>3
    <3>2. order \in Seq(Keys)
      <4>1. (IF session.open THEN {} ELSE table.ids) \in SUBSET Keys
        BY DEF TableInv
      <4>2. IsFiniteSet(IF session.open THEN {} ELSE table.ids)
        BY FS_EmptySet DEF TableInv
      <4> QED
        BY <4>1, <4>2, ListedOrder
    <3>3. todo' = DeleteListed(order) /\ mayRetry' = TRUE
      BY <3>1 DEF Continue
    <3>4. /\ Lined(todo') /\ todo' # << >>
          /\ \A i \in 1..Len(todo') : todo'[i].op \in {"del", "delset"}
      BY <3>2, <3>3, ListedLined
    <3>5. Head(todo').op \in {"del", "delset"}
      <4>1. Head(todo') = todo'[1] /\ 1 \in 1..Len(todo')
        BY <3>4 DEF Lined
      <4> QED
        BY <3>4, <4>1
    <3> QED
      BY <1>1, <1>2, <2>1, <2>3, <3>3, <3>4, <3>5, SucceedHandle
  <2> QED
    BY <2>2, <2>3
<1> QED
  BY <1>6, <1>7, <1>8

(* The reply is an error.                                                  *)
LEMMA RefusedHandle ==
  ASSUME TxnInv, HandleInv, MildInv, Refused
  PROVE  HandleInv'
<1> DEFINE c == Head(todo)
<1>1. /\ todo # << >> /\ link = "up" /\ UNCHANGED <<calls, others>>
      /\ session' = [session EXCEPT !.dirty = session.open]
      /\ IF c.op = "hmset" THEN UNCHANGED faults
           ELSE /\ c.op \in Refusable /\ faults.refusal < MaxRefusals
                /\ faults' = [faults EXCEPT !.refusal = @ + 1]
      /\ CASE c.piped -> /\ Continue(Tail(todo), failed)
                         /\ UNCHANGED <<flag, status, link, listed>>
           [] c.op \in {"smembers", "hgetall"} -> Abort /\ UNCHANGED link
           [] OTHER -> Fail(c, link)
  BY DEF Refused
<1>2. /\ c \in Issued /\ Lined(Tail(todo)) /\ Kinds /\ Lined(todo) /\ Placed /\ Flagged
  BY <1>1, HeadKinds
<1>3. /\ session' \in [open : BOOLEAN, dirty : BOOLEAN, queued : Seq(Issued)]
      /\ session'.open = session.open
      /\ session = NoSession => session' = NoSession
  BY <1>1, <1>2, SessionKinds DEF Kinds
<1>4. /\ faults' \in [loss : 0..MaxLosses, refusal : 0..MaxRefusals]
      /\ NoFaults' => NoFaults
      /\ c.op # "hmset" => ~NoFaults'
  <2>1. CASE c.op = "hmset"
    BY <1>1, <1>2, <2>1 DEF Kinds, NoFaults
  <2>2. CASE c.op # "hmset"
    BY <1>1, <1>2, <2>2, RefusalCounts, FaultsGrow DEF Kinds
  <2> QED
    BY <2>1, <2>2
<1>5. c.op \in {"exec", "discard"} => ~Sure'
  BY <1>1, <1>4 DEF Sure, EndsAccepted
<1>6. CASE c.piped
  <2>0. c.op = "hset"
    BY <1>2, <1>6 DEF Issued
  <2>1. todo' = Tail(todo) /\ mayRetry' = TRUE /\ UNCHANGED <<flag, status, link>>
    <3>1. Continue(Tail(todo), failed) /\ UNCHANGED <<flag, status, link, listed>>
      BY <1>1, <1>6, <2>0
    <3> QED
      BY <3>1 DEF Continue
  <2>2. Spoilt => Spoilt'
    BY <1>1, <1>2, <1>4, SpoiltStays
  <2>3. Sure' => Sure
    BY <1>4 DEF Sure
  <2>4. Kinds'
    BY <1>1, <1>2, <1>3, <1>4, <2>1 DEF Kinds
  <2>5. c.op \notin {"multi", "exec", "discard", "select", "smembers", "hgetall", "hmget", "hmset"}
    BY <2>0
  <2>6. status = "open" /\ status' = "open"
    BY <1>1, <1>2, <2>1, <2>5 DEF Placed, Kinds
  <2>7. Tail(todo) # << >> => Head(Tail(todo)).op # "multi" /\ Head(Tail(todo)).op # "select"
    BY <1>1, <1>2, LinedTail DEF Alone
  <2>8. Placed'
    BY <1>1, <1>2, <1>3, <2>1, <2>6, <2>7 DEF Placed
  <2>9. Owes' => Spoilt' \/ Closes(todo')
    <3> SUFFICES ASSUME Owes' PROVE Spoilt' \/ Closes(Tail(todo))
      BY <2>1
    <3>1. flag
      BY <2>1, <2>7 DEF Owes
    <3>2. Spoilt \/ Closes(todo)
      BY <1>2, <2>6, <3>1 DEF Flagged, Owes
    <3>3. Tail(todo) = << >> => ~Closes(todo)
      BY <1>1, <1>2, <2>5, LinedTail
    <3> QED
      BY <1>1, <1>2, <2>2, <3>2, <3>3, LinedTail
  <2>10. Flagged'
    BY <1>2, <1>3, <2>1, <2>3, <2>6, <2>7, <2>9 DEF Flagged
  <2> QED
    BY <1>2, <2>1, <2>4, <2>8, <2>10 DEF HandleInv
<1>7. CASE Abort /\ UNCHANGED link /\ c.op \in {"smembers", "hgetall"}
  BY <1>1, <1>2, <1>3, <1>4, <1>7, AbortHandle DEF Placed
<1>8. CASE Fail(c, link)
  <2>1. status = "closed" => session' = NoSession
    BY <1>2, <1>3 DEF Placed
  <2>2. link' # "up" => session' = NoSession
    <3>1. link' # "up" => c.op = "select"
      BY <1>1, <1>8 DEF Fail
    <3> QED
      BY <1>1, <1>2, <2>1, <3>1 DEF Placed
  <2> QED
    BY <1>1, <1>3, <1>4, <1>5, <1>8, <2>1, <2>2, FailHandle
<1> QED
  BY <1>1, <1>6, <1>7, <1>8

(* The connection is lost.                                                 *)
LEMMA LostHandle ==
  ASSUME TxnInv, HandleInv, MildInv, Lost
  PROVE  HandleInv'
<1> DEFINE c == Head(todo)
<1>1. /\ todo # << >> /\ link = "up" /\ UNCHANGED <<calls, others>>
      /\ session' = NoSession /\ faults.loss < MaxLosses
      /\ faults' = [faults EXCEPT !.loss = @ + 1]
      /\ CASE c.piped -> Abort /\ link' = "broken"
           [] ~c.piped /\ mayRetry ->
                /\ link' = "broken"
                /\ UNCHANGED <<status, flag, todo, mayRetry, failed, outcome, listed>>
           [] ~c.piped /\ ~mayRetry -> Fail(c, "broken")
  BY DEF Lost
<1>2. /\ c \in Issued /\ Kinds /\ Lined(todo) /\ Placed /\ Flagged
  BY <1>1, HeadKinds
<1>3. /\ session' \in [open : BOOLEAN, dirty : BOOLEAN, queued : Seq(Issued)]
      /\ ~session'.open
  BY <1>1, <1>2, SessionKinds DEF Kinds
<1>4. faults' \in [loss : 0..MaxLosses, refusal : 0..MaxRefusals] /\ ~NoFaults'
  <2>1. faults.loss + 1 <= MaxLosses /\ faults \in [loss : 0..MaxLosses, refusal : 0..MaxRefusals]
    BY <1>1, <1>2, BoundsAssumption DEF Kinds
  <2> QED
    BY <1>1, <2>1, LossCounts
<1>5. CASE Abort /\ link' = "broken"
  BY <1>1, <1>2, <1>3, <1>4, <1>5, AbortHandle
<1>6. CASE link' = "broken" /\ UNCHANGED <<status, flag, todo, mayRetry, failed, outcome, listed>>
  <2>1. Kinds'
    BY <1>1, <1>2, <1>3, <1>4, <1>6 DEF Kinds
  <2>2. Placed'
    BY <1>1, <1>2, <1>6 DEF Placed
  <2>3. Spoilt => Spoilt'
    BY <1>1, <1>2, <1>4, SpoiltStays
  <2>4. Flagged'
    BY <1>2, <1>3, <1>4, <1>6, <2>3 DEF Flagged, Owes
  <2> QED
    BY <1>2, <1>6, <2>1, <2>2, <2>4 DEF HandleInv
<1>7. CASE Fail(c, "broken")
  BY <1>1, <1>2, <1>3, <1>4, <1>7, FailHandle
<1>8. \/ Abort /\ link' = "broken"
      \/ link' = "broken" /\ UNCHANGED <<status, flag, todo, mayRetry, failed, outcome, listed>>
      \/ Fail(c, "broken")
  BY <1>1, <1>2 DEF Kinds
<1> QED
  BY <1>5, <1>6, <1>7, <1>8

(* The connection is made again, or not.                                   *)
LEMMA ReconnectHandle ==
  ASSUME TxnInv, HandleInv, MildInv, Reconnect \/ ReconnectFails
  PROVE  HandleInv'
<1> DEFINE c == Head(todo)
<1>1. todo # << >> /\ link # "up" /\ UNCHANGED <<calls, others, session>>
  BY DEF Reconnect, ReconnectFails, serverVars
<1>2. /\ c \in Issued /\ Kinds /\ Lined(todo) /\ Placed /\ Flagged
  BY <1>1, HeadKinds
<1>3. session = NoSession /\ session' = NoSession /\ ~NoSession.open
      /\ session' \in [open : BOOLEAN, dirty : BOOLEAN, queued : Seq(Issued)]
  BY <1>1, <1>2, SessionKinds DEF Kinds, Placed
<1>4. CASE Reconnect
  <2>1. /\ link' = "up" /\ UNCHANGED <<status, flag, todo, faults>>
        /\ mayRetry' = (mayRetry /\ link = "null")
    BY <1>4 DEF Reconnect
  <2>2. Kinds'
    BY <1>1, <1>2, <1>3, <2>1 DEF Kinds
  <2>3. Placed'
    BY <1>1, <1>2, <1>3, <2>1 DEF Placed
  <2>4. Flagged'
    BY <1>1, <1>2, <1>3, <2>1 DEF Flagged, Owes, Spoilt, NoFaults
  <2> QED
    BY <1>2, <2>1, <2>2, <2>3, <2>4 DEF HandleInv
<1>5. CASE ReconnectFails
  <2>1. faults.loss < MaxLosses /\ faults' = [faults EXCEPT !.loss = @ + 1] /\ Fail(c, "null")
    BY <1>5 DEF ReconnectFails
  <2>2. faults' \in [loss : 0..MaxLosses, refusal : 0..MaxRefusals] /\ ~NoFaults'
    <3>1. faults.loss + 1 <= MaxLosses /\ faults \in [loss : 0..MaxLosses, refusal : 0..MaxRefusals]
      BY <1>2, <2>1, BoundsAssumption DEF Kinds
    <3> QED
      BY <2>1, <3>1, LossCounts
  <2> QED
    BY <1>1, <1>2, <1>3, <2>1, <2>2, FailHandle
<1> QED
  BY <1>4, <1>5

(* A call begins with commands that are lined up, or returns at once.      *)
LEMMA BeginHandle ==
  ASSUME TxnInv, HandleInv, NEW op \in Ops, Call(op), NEW cmds, NEW retry \in BOOLEAN,
         Begin(cmds, retry), Lined(cmds), cmds # << >>,
         Head(cmds).op = "select" <=> op = "open",
         Head(cmds).op = "multi" => ~flag /\ Closes(cmds)
  PROVE  HandleInv'
<1>1. /\ todo = << >> /\ status = (IF op = "open" THEN "closed" ELSE "open") /\ status' = status
      /\ calls' = Append(calls, op) /\ UNCHANGED <<faults, others, flag, link, session>>
      /\ todo' = cmds /\ mayRetry' = retry
  BY DEF Call, Begin
<1>2. Kinds /\ Placed /\ Flagged
  BY DEF HandleInv
<1>3. Kinds'
  BY <1>1, <1>2 DEF Kinds
<1>4. (Spoilt => Spoilt') /\ (NoFaults' <=> NoFaults)
  <2>1. NoFaults' <=> NoFaults
    BY <1>1 DEF NoFaults
  <2> QED
    BY <1>1, <1>2, <2>1, SpoiltStays
<1>5. Placed'
  BY <1>1, <1>2 DEF Placed
<1>6. flag => Spoilt
  BY <1>1, <1>2 DEF Flagged, Owes, Closes
<1>7. Flagged'
  BY <1>1, <1>2, <1>4, <1>6 DEF Flagged, Owes, Sure
<1> QED
  BY <1>1, <1>3, <1>5, <1>7 DEF HandleInv

(* A call begins with a transaction, or start_transaction refuses it.      *)
LEMMA TransactionHandle ==
  ASSUME TxnInv, HandleInv, NEW op \in Ops, op # "open", Call(op), NEW cmds,
         BeginTransaction(cmds) \/ RefuseTransaction \/ DiscardLeftover, Lined(cmds), Closes(cmds),
         cmds # << >>, Head(cmds).op = "multi"
  PROVE  HandleInv'
<1>1. CASE BeginTransaction(cmds)
  BY <1>1, BeginHandle DEF BeginTransaction
<1>2. CASE RefuseTransaction
  <2>1. /\ todo = << >> /\ status' = status /\ status = "open"
        /\ calls' = Append(calls, op) /\ UNCHANGED <<faults, others, flag, link, session, todo, mayRetry>>
    BY <1>2 DEF Call, RefuseTransaction
  <2>2. Kinds /\ Placed /\ Flagged /\ Lined(todo)
    BY DEF HandleInv
  <2>3. Kinds'
    BY <2>1, <2>2 DEF Kinds
  <2>4. (Spoilt => Spoilt') /\ (NoFaults' <=> NoFaults)
    <3>1. NoFaults' <=> NoFaults
      BY <2>1 DEF NoFaults
    <3> QED
      BY <2>1, <2>2, <3>1, SpoiltStays
  <2>5. Placed'
    BY <2>1, <2>2 DEF Placed
  <2>6. Flagged'
    BY <2>1, <2>2, <2>4 DEF Flagged, Owes, Sure, Closes
  <2> QED
    BY <2>1, <2>2, <2>3, <2>5, <2>6 DEF HandleInv
<1>3. CASE DiscardLeftover
  <2>1. /\ todo = << >> /\ status' = status /\ status = "open" /\ todo' = <<Discard>>
        /\ calls' = Append(calls, op) /\ UNCHANGED <<faults, others, flag, link, session>>
        /\ mayRetry' = TRUE
    BY <1>3 DEF Call, DiscardLeftover
  <2>2. Kinds /\ Placed /\ Flagged
    BY DEF HandleInv
  <2>3. Lined(todo') /\ Closes(todo') /\ todo' # << >> /\ Head(todo').op = "discard"
    BY <2>1, DiscardOnly
  <2>4. Kinds'
    BY <2>1, <2>2 DEF Kinds
  <2>5. Placed'
    BY <2>1, <2>2, <2>3 DEF Placed
  <2>6. NoFaults' <=> NoFaults
    BY <2>1 DEF NoFaults
  <2>7. Flagged'
    BY <2>1, <2>2, <2>3, <2>6 DEF Flagged, Sure
  <2> QED
    BY <2>3, <2>4, <2>5, <2>7 DEF HandleInv
<1> QED
  BY <1>1, <1>2, <1>3

(* A call begins that issues one command.                                  *)
LEMMA OneCommand ==
  ASSUME TxnInv, HandleInv, NEW op \in Ops, Call(op), NEW retry \in BOOLEAN,
         NEW name \in OpNames \ {"multi"}, NEW k \in Keys \cup {NoKey},
         Begin(<<Cmd(name, k, NoCol)>>, retry), name = "select" <=> op = "open"
  PROVE  HandleInv'
<1>1. Cmd(name, k, NoCol) \in Issued /\ Cmd(name, k, NoCol).op = name
  BY CmdType
<1> QED
  BY <1>1, OneLined, BeginHandle

(* Every call but db_close_sync begins one of these ways.                  *)
LEMMA CallsHandle ==
  ASSUME TxnInv, HandleInv,
         \/ Open \/ WriteRow \/ WriteColumn \/ WriteEmpty \/ DeleteRow
         \/ DeleteAll \/ ReadRow \/ ReadColumns
  PROVE  HandleInv'
<1>1. /\ "select" \in OpNames /\ "smembers" \in OpNames
      /\ "hgetall" \in OpNames /\ "hmget" \in OpNames
  BY DEF OpNames
<1>2. CASE Open
  BY <1>1, <1>2, OneCommand DEF Open, Call
<1>3. CASE WriteRow
  <2>1. PICK k \in Keys, shape \in RowShapes :
        Call("writeRow") /\ (BeginTransaction(RowCmds(k, shape)) \/ DiscardLeftover)
    BY <1>3 DEF WriteRow
  <2>2. Shaped(RowCmds(k, shape)) /\ Head(RowCmds(k, shape)).op = "multi"
    BY ShapesAssumption, RowShaped
  <2> QED
    BY <2>1, <2>2, ShapedLined, ShapedNotEmpty, TransactionHandle DEF Call
<1>4. CASE WriteColumn
  <2>1. PICK k \in Keys, c \in Cols :
        Call("writeColumn") /\ (BeginTransaction(ColumnCmds(k, c)) \/ RefuseTransaction)
    BY <1>4 DEF WriteColumn
  <2>2. Shaped(ColumnCmds(k, c)) /\ Head(ColumnCmds(k, c)) = Multi
    BY ColumnShaped DEF ColumnCmds
  <2> QED
    BY <2>1, <2>2, Ends, ShapedLined, ShapedNotEmpty, TransactionHandle DEF Call
<1>5. CASE WriteEmpty
  BY <1>5, EmptyRowLined, TransactionHandle DEF WriteEmpty, Call
<1>6. CASE DeleteRow
  <2>1. PICK k \in Keys :
        Call("deleteRow") /\ (BeginTransaction(DeleteRowCmds(k)) \/ RefuseTransaction)
    BY <1>6 DEF DeleteRow
  <2>2. Shaped(DeleteRowCmds(k)) /\ Head(DeleteRowCmds(k)) = Multi
    BY DeleteRowShaped DEF DeleteRowCmds
  <2> QED
    BY <2>1, <2>2, Ends, ShapedLined, ShapedNotEmpty, TransactionHandle DEF Call
<1>7. CASE DeleteAll
  BY <1>1, <1>7, OneCommand DEF DeleteAll, Call
<1>8. CASE ReadRow
  BY <1>1, <1>8, OneCommand DEF ReadRow, Call
<1>9. CASE ReadColumns
  BY <1>1, <1>9, OneCommand DEF ReadColumns, Call
<1> QED
  BY <1>2, <1>3, <1>4, <1>5, <1>6, <1>7, <1>8, <1>9

(* The handle is closed.                                                   *)
LEMMA CloseHandle ==
  ASSUME TxnInv, HandleInv, Close
  PROVE  HandleInv'
<1>1. /\ todo = << >> /\ todo' = << >> /\ status' = "closed" /\ link' = "null"
      /\ flag' = FALSE /\ session' = NoSession /\ UNCHANGED <<mayRetry, faults, others>>
      /\ "close" \in Ops /\ calls' = Append(calls, "close")
  BY DEF Close
<1>2. Kinds /\ Lined(todo)
  BY DEF HandleInv
<1>3. NoSession \in [open : BOOLEAN, dirty : BOOLEAN, queued : Seq(Issued)] /\ ~NoSession.open
  BY NoSessionKind
<1>4. Kinds'
  <2>1. calls' \in Seq(Ops)
    <3>1. calls \in Seq(Ops)
      BY <1>2 DEF Kinds
    <3> QED
      BY <1>1, <3>1
  <2>2. status' \in {"closed", "open", "aborted"} /\ link' \in {"up", "broken", "null"}
    BY <1>1
  <2>3. flag' \in BOOLEAN
    BY <1>1
  <2> QED
    BY <1>1, <1>2, <1>3, <2>1, <2>2, <2>3 DEF Kinds
<1>5. Placed' /\ Flagged'
  BY <1>1, <1>3 DEF Placed, Flagged, Owes
<1> QED
  BY <1>1, <1>2, <1>4, <1>5 DEF HandleInv

(* The node changes its role.                                              *)
LEMMA NewStatusHandle ==
  ASSUME TxnInv, HandleInv, NewStatus
  PROVE  HandleInv'
<1>1. /\ todo = << >> /\ status = "open" /\ session' = NoSession
      /\ UNCHANGED <<status, flag, calls, todo, mayRetry, others>>
  BY DEF NewStatus
<1>2. PICK n \in 0..2 : /\ faults.loss + n <= MaxLosses /\ faults' = [faults EXCEPT !.loss = @ + n]
                        /\ link' \in {"up", "null"}
  BY DEF NewStatus
<1>3. Kinds /\ Placed /\ Flagged /\ Lined(todo)
  BY DEF HandleInv
<1>4. NoSession \in [open : BOOLEAN, dirty : BOOLEAN, queued : Seq(Issued)] /\ ~NoSession.open
  BY NoSessionKind
<1>5. faults' \in [loss : 0..MaxLosses, refusal : 0..MaxRefusals] /\ (NoFaults' => NoFaults)
  <2>1. faults \in [loss : 0..MaxLosses, refusal : 0..MaxRefusals] /\ n \in Nat
    BY <1>3 DEF Kinds
  <2>2. faults' \in [loss : 0..MaxLosses, refusal : 0..MaxRefusals]
    BY <1>2, <2>1, LossCounts
  <2>3. \E m \in 0..2 : faults' = [faults EXCEPT !.loss = @ + m]
    BY <1>2
  <2>4. NoFaults' => NoFaults
    BY <2>1, <2>3, FaultsGrow
  <2> QED
    BY <2>2, <2>4
<1>6. Kinds'
  BY <1>1, <1>2, <1>3, <1>4, <1>5 DEF Kinds
<1>7. Placed'
  BY <1>1 DEF Placed
<1>8. Spoilt => Spoilt'
  BY <1>1, <1>3, <1>5, SpoiltStays
<1>9. Flagged'
  BY <1>1, <1>3, <1>4, <1>8 DEF Flagged, Owes
<1> QED
  BY <1>1, <1>3, <1>6, <1>7, <1>9 DEF HandleInv

(* Other clients do not touch the handle.                                  *)
LEMMA StutterHandle ==
  ASSUME TxnInv, HandleInv, OtherClient \/ UNCHANGED vars
  PROVE  HandleInv'
<1>1. /\ UNCHANGED <<status, link, flag, calls, todo, mayRetry, faults, session>>
      /\ others' = others \/ (others < MaxOthers /\ others' = others + 1)
  BY DEF OtherClient, vars, serverVars
<1>2. Kinds /\ Placed /\ Flagged /\ Lined(todo)
  BY DEF HandleInv
<1>3. Kinds'
  BY <1>1, <1>2, BoundsAssumption DEF Kinds
<1>4. Placed' /\ Flagged'
  BY <1>1, <1>2 DEF Placed, Flagged, Owes, Sure, Spoilt, NoFaults
<1> QED
  BY <1>1, <1>2, <1>3, <1>4 DEF HandleInv

(* Every step leaves a table,                                              *)
LEMMA TableStep ==
  ASSUME TxnInv, HandleInv, TableInv, [Next]_vars
  PROVE  TableInv'
<1>1. CASE Answered \/ Lost
  <2>1. todo # << >> /\ (Serve(Head(todo)) \/ UNCHANGED table)
    BY <1>1 DEF Answered, Lost
  <2>2. Head(todo) \in Issued /\ Kinds
    BY <2>1, HeadKinds
  <2>3. CASE UNCHANGED table
    BY <2>3 DEF TableInv
  <2> QED
    BY <2>1, <2>2, <2>3, ServeTable
<1>2. CASE OtherClient
  BY <1>2, OtherTable DEF HandleInv
<1>3. CASE ~(Answered \/ Lost \/ OtherClient)
  <2>1. UNCHANGED table
    BY <1>3 DEF Next, Open, WriteRow, WriteColumn, WriteEmpty, DeleteRow, DeleteAll, ReadRow,
       ReadColumns, Close, Refused, Reconnect, ReconnectFails, NewStatus, Rest, Call, vars, serverVars
  <2> QED
    BY <2>1 DEF TableInv
<1> QED
  BY <1>1, <1>2, <1>3

(* ... and keeps HandleInv.                                                *)
LEMMA HandleStep ==
  ASSUME TxnInv, HandleInv, MildInv, TableInv, [Next]_vars
  PROVE  HandleInv'
<1>1. CASE Answered \/ Refused \/ Lost \/ Reconnect \/ ReconnectFails
  BY <1>1, AnsweredHandle, RefusedHandle, LostHandle, ReconnectHandle
<1>2. CASE \/ Open \/ WriteRow \/ WriteColumn \/ WriteEmpty \/ DeleteRow
           \/ DeleteAll \/ ReadRow \/ ReadColumns
  BY <1>2, CallsHandle
<1>3. CASE Close \/ NewStatus \/ OtherClient \/ Rest \/ UNCHANGED vars
  BY <1>3, CloseHandle, NewStatusHandle, StutterHandle DEF Rest
<1> QED
  BY <1>1, <1>2, <1>3 DEF Next

(* The commands that are left of a read or a delete-all.                   *)
LEMMA MildTail ==
  ASSUME NEW t, Lined(t), t # << >>, Mild(t)
  PROVE  Mild(Tail(t)) /\ Head(t).op # "hmset"
<1> DEFINE u == Tail(t)
<1>1. t \in Seq(Issued) /\ Len(t) \in Nat /\ Len(t) > 0 /\ Head(t) = t[1] /\ 1 \in 1..Len(t)
  BY DEF Lined
<1>2. Len(u) = Len(t) - 1 /\ \A i \in 1..Len(u) : u[i] = t[i + 1] /\ i + 1 \in 1..Len(t)
  BY <1>1
<1> HIDE DEF u
<1>3. Mild(u)
  BY <1>2 DEF Mild
<1> QED
  BY <1>1, <1>3 DEF Mild, u

(* Every step keeps MildInv.                                               *)
LEMMA MildStep ==
  ASSUME TxnInv, HandleInv, TableInv, MildInv, [Next]_vars
  PROVE  MildInv'
<1>1. CASE Answered \/ Refused \/ Lost \/ Reconnect \/ ReconnectFails
  <2> DEFINE c == Head(todo)
             S == IF session.open THEN {} ELSE table.ids
  <2>1. todo # << >> /\ calls' = calls /\ Lined(todo)
    BY <1>1 DEF Answered, Refused, Lost, Reconnect, ReconnectFails, HandleInv
  <2>2. \/ todo' \in {<< >>, todo, Tail(todo), AfterFailure(c)}
        \/ \E order \in SetToSeqs(S) : todo' = DeleteListed(order)
    <3>1. CASE Answered
      BY <3>1 DEF Answered, Succeed, Continue, Fail, Abort
    <3>2. CASE Refused \/ Lost \/ Reconnect \/ ReconnectFails
      BY <3>2 DEF Refused, Lost, Reconnect, ReconnectFails, Continue, Fail, Abort
    <3> QED
      BY <1>1, <3>1, <3>2
  <2> SUFFICES ASSUME Last(calls) \notin Transactional \cup {"writeEmpty"}, todo' # << >>
               PROVE  Mild(todo')
    BY <2>1 DEF MildInv
  <2>3. Mild(todo) /\ Mild(Tail(todo)) /\ c.op # "hmset"
    BY <2>1, MildTail DEF MildInv
  <2>4. AfterFailure(c) = << >>
    BY <2>3 DEF AfterFailure
  <2>5. ASSUME NEW order \in SetToSeqs(S), todo' = DeleteListed(order) PROVE Mild(todo')
    <3>1. S \in SUBSET Keys
      BY DEF TableInv
    <3>2. IsFiniteSet(S)
      BY FS_EmptySet DEF TableInv
    <3>3. order \in Seq(Keys)
      BY <3>1, <3>2, ListedOrder
    <3> QED
      BY <2>5, <3>3, ListedLined DEF Mild
  <2> QED
    BY <2>2, <2>3, <2>4, <2>5
<1>2. ASSUME NEW op, calls' = Append(calls, op) PROVE Last(calls') = op
  <2>1. calls \in Seq(CallNames)
    BY DEF TxnInv, Typed
  <2> QED
    BY <1>2, <2>1 DEF Last
<1>3. CASE WriteRow \/ WriteColumn \/ WriteEmpty \/ DeleteRow
  <2>1. PICK op \in Transactional \cup {"writeEmpty"} : calls' = Append(calls, op)
    BY <1>3 DEF WriteRow, WriteColumn, WriteEmpty, DeleteRow, Call, Transactional
  <2> QED
    BY <1>2, <2>1 DEF MildInv
<1>4. CASE Open \/ DeleteAll \/ ReadRow \/ ReadColumns
  <2>1. PICK name \in Alone, k \in Keys \cup {NoKey} : todo' = <<Cmd(name, k, NoCol)>>
    BY <1>4 DEF Open, DeleteAll, ReadRow, ReadColumns, Begin, Alone
  <2>2. Cmd(name, k, NoCol).op = name
    BY DEF Cmd
  <2>3. Len(todo') = 1 /\ todo'[1].op = name
    BY <2>1, <2>2
  <2>4. \A i \in 1..Len(todo') : i = 1
    BY <2>3
  <2>5. name \notin {"exec", "discard", "hmset"}
    BY DEF Alone
  <2> QED
    BY <2>3, <2>4, <2>5 DEF MildInv, Mild
<1>5. CASE Close \/ NewStatus \/ OtherClient \/ Rest \/ UNCHANGED vars
  <2>1. todo' = << >> \/ UNCHANGED <<calls, todo>>
    BY <1>5 DEF Close, NewStatus, OtherClient, Rest, vars
  <2> QED
    BY <2>1 DEF MildInv
<1> QED
  BY <1>1, <1>3, <1>4, <1>5 DEF Next

(* All three hold before the first call.                                   *)
LEMMA InitHandle == Init => HandleInv /\ TableInv /\ MildInv
<1> SUFFICES ASSUME Init PROVE HandleInv /\ TableInv /\ MildInv
  OBVIOUS
<1>0. MildInv
  BY DEF Init, MildInv
<1>1. NoSession \in [open : BOOLEAN, dirty : BOOLEAN, queued : Seq(Issued)] /\ ~NoSession.open
  BY NoSessionKind
<1>2. Kinds
  <2>1. 0 \in 0..MaxLosses /\ 0 \in 0..MaxRefusals /\ 0 \in 0..MaxOthers
    BY BoundsAssumption
  <2>2. faults \in [loss : 0..MaxLosses, refusal : 0..MaxRefusals]
    BY <2>1 DEF Init
  <2>3. calls \in Seq(Ops)
    BY DEF Init
  <2> QED
    BY <1>1, <2>1, <2>2, <2>3 DEF Init, Kinds
<1>3. Placed /\ Flagged /\ Lined(todo)
  BY <1>1, NoneLined DEF Init, Placed, Flagged, Owes
<1>4. 0 \in Values
  BY BoundsAssumption DEF Values
<1>5. TableInv
  BY <1>4, FS_EmptySet DEF Init, TableInv, EmptyRow
<1> QED
  BY <1>0, <1>2, <1>3, <1>5 DEF HandleInv

(* The running call, the session at the server, start_transaction and the  *)
(* connection agree in every reachable state.                              *)
THEOREM HandleInvariant == Spec => [](TxnInv /\ HandleInv /\ TableInv /\ MildInv)
<1>1. Init => TxnInv /\ HandleInv /\ TableInv /\ MildInv
  BY InitHolds, InitHandle
<1>2. (TxnInv /\ HandleInv /\ TableInv /\ MildInv) /\ [Next]_vars
        => (TxnInv /\ HandleInv /\ TableInv /\ MildInv)'
  BY TxnStep, HandleStep, TableStep, MildStep
<1> QED
  BY <1>1, <1>2, PTL DEF Spec

(* The assertions of the handle on the replies of the server fail only     *)
(* after a lost connection or a refused command: without them no read      *)
(* meets a transaction that a write has left open.                         *)
THEOREM AssertionsHold == Spec => []AssertionsNeedFaults
<1>1. HandleInv => AssertionsNeedFaults
  <2> SUFFICES ASSUME HandleInv, status = "aborted" PROVE faults.loss + faults.refusal > 0
    BY DEF AssertionsNeedFaults
  <2>1. ~NoFaults /\ faults \in [loss : 0..MaxLosses, refusal : 0..MaxRefusals]
    BY DEF HandleInv, Flagged, Kinds
  <2>2. faults.loss \in Nat /\ faults.refusal \in Nat
    BY <2>1, BoundsAssumption
  <2> QED
    BY <2>1, <2>2 DEF NoFaults
<1> QED
  BY <1>1, HandleInvariant, PTL

(* No call leaves a transaction behind, whichever of its commands were     *)
(* lost or refused, unless it wrote a row without columns: the flag is     *)
(* down and no MULTI is open when the handle is idle.  The server must     *)
(* accept EXEC and DISCARD: one that refuses a DISCARD keeps the session   *)
(* that the handle believes to be closed.                                  *)
THEOREM NothingLeftOpen == EndsAccepted => (Spec => []NoTransactionLeft)
<1> SUFFICES ASSUME EndsAccepted PROVE Spec => []NoTransactionLeft
  OBVIOUS
<1>1. HandleInv => NoTransactionLeft
  <2> SUFFICES ASSUME HandleInv, todo = << >>, status = "open", "writeEmpty" \notin Range(calls)
               PROVE  ~flag /\ ~session.open
    BY DEF NoTransactionLeft
  <2>1. Flagged /\ ~Closes(todo) /\ ~Spoilt
    BY NoneLined DEF HandleInv, Spoilt
  <2>2. ~flag
    BY <2>1 DEF Flagged, Owes
  <2> QED
    BY <2>1, <2>2 DEF Flagged, Sure
<1> QED
  BY <1>1, HandleInvariant, PTL

(* What a delete-all lists are keys.                                       *)
LEMMA ListedStep ==
  ASSUME TableInv, listed \subseteq Keys, [Next]_vars
  PROVE  listed' \subseteq Keys
<1>1. CASE Answered
  <2>1. listed' = listed \/ listed' = table.ids
    BY <1>1 DEF Answered, Succeed, Fail, Abort
  <2> QED
    BY <2>1 DEF TableInv
<1>2. CASE Refused \/ Lost \/ Reconnect \/ ReconnectFails
  <2>1. listed' = listed
    BY <1>2 DEF Refused, Lost, Reconnect, ReconnectFails, Fail, Abort
  <2> QED
    BY <2>1
<1>3. CASE OtherClient
  BY <1>3 DEF OtherClient
<1>4. CASE ~(Answered \/ Refused \/ Lost \/ Reconnect \/ ReconnectFails \/ OtherClient)
  <2>1. listed' = listed
    BY <1>4 DEF Next, Open, WriteRow, WriteColumn, WriteEmpty, DeleteRow, DeleteAll, ReadRow,
       ReadColumns, Close, NewStatus, Rest, Call, vars
  <2> QED
    BY <2>1
<1> QED
  BY <1>1, <1>2, <1>3, <1>4

(* Every variable keeps its type; a session lives and dies with its        *)
(* connection, and a closed handle has none.                               *)
THEOREM TypeCorrect == Spec => []TypeOK
<1>1. Init => listed \subseteq Keys
  BY DEF Init
<1>2. TableInv /\ listed \subseteq Keys /\ [Next]_vars => (listed \subseteq Keys)'
  BY ListedStep
<1>3. TxnInv /\ HandleInv /\ TableInv /\ listed \subseteq Keys => TypeOK
  <2> SUFFICES ASSUME TxnInv, HandleInv, TableInv, listed \subseteq Keys PROVE TypeOK
    OBVIOUS
  <2>1. Range(calls) \subseteq Ops
    BY DEF HandleInv, Kinds, Range
  <2>2. Range(todo) \subseteq Cmds
    BY DEF HandleInv, Lined, Issued, Range
  <2>3. session \in [open : BOOLEAN, dirty : BOOLEAN, queued : Seq(Cmds)]
    <3>1. session \in [open : BOOLEAN, dirty : BOOLEAN, queued : Seq(Issued)]
      BY DEF HandleInv, Kinds
    <3>2. session.queued \in Seq(Cmds)
      BY <3>1 DEF Issued
    <3> QED
      BY <3>1, <3>2
  <2>4. failed \in BOOLEAN /\ outcome \in [1..MaxCalls -> {"none", "open", "ok", "failed"}]
    BY DEF TxnInv, Typed
  <2>5. table.ids \subseteq Keys /\ table.rows \in [Keys -> [Cols -> 0..(MaxCalls + MaxOthers)]]
    BY DEF TableInv, Values
  <2>6. Kinds /\ Placed
    BY DEF HandleInv
  <2> QED
    BY <2>1, <2>2, <2>3, <2>4, <2>5, <2>6 DEF TypeOK, Kinds, Placed
<1> QED
  BY <1>1, <1>2, <1>3, HandleInvariant, PTL DEF Spec

-----------------------------------------------------------------------------
(* What a step of a running call does to its commands.                     *)

(* It fails: what is left is a DISCARD, or nothing.                        *)
Errs ==
  /\ listed' = listed
  /\ IF todo' = << >> THEN outcome'[Current] = "failed"
                      ELSE failed' /\ todo' = <<Discard>>

(* The command has still to be answered.                                   *)
Waits ==
  /\ UNCHANGED <<todo, failed, flag, listed, outcome>>
  /\ session' \in {session, NoSession}

(* The error of a pipelined command is only logged.                        *)
Skips ==
  /\ Head(todo).op = "hset" /\ todo' = Tail(todo)
  /\ session'.open => session'.dirty
  /\ UNCHANGED <<failed, flag, listed, table, applied, loose>>

(* The command is answered.                                                *)
Passes ==
  LET c == Head(todo)
  IN  /\ Serve(c) /\ ReplyOk(c) /\ session' = SessionAfter(c) /\ c.op # "hmset"
      /\ failed' = failed /\ flag' = ((flag \/ c.op = "multi") /\ c.op \notin {"exec", "discard"})
      /\ IF c.op = "smembers"
           THEN /\ listed' = table.ids
                /\ \E order \in SetToSeqs(IF session.open THEN {} ELSE table.ids) :
                     todo' = DeleteListed(order)
           ELSE UNCHANGED listed /\ todo' = Tail(todo)
      /\ failed /\ todo' = << >> => outcome'[Current] = "failed"

Runs == Answered \/ Refused \/ Lost \/ Reconnect \/ ReconnectFails

(* A failed command errs,                                                  *)
LEMMA FailErrs ==
  ASSUME TxnInv, todo # << >>, NEW c, NEW l, Fail(c, l)
  PROVE  Errs
<1>1. Current \in DOMAIN outcome
  BY BoundsAssumption DEF TxnInv, Typed, Current
<1>2. /\ todo' = AfterFailure(c) /\ failed' = TRUE /\ listed' = listed
      /\ todo' = << >> => outcome' = [outcome EXCEPT ![Current] = "failed"]
  BY DEF Fail, Continue
<1>3. todo' = << >> \/ todo' = <<Discard>>
  BY <1>2 DEF AfterFailure
<1> QED
  BY <1>1, <1>2, <1>3 DEF Errs

(* ... and so does a failed assertion.                                     *)
LEMMA AbortErrs ==
  ASSUME TxnInv, todo # << >>, Abort
  PROVE  Errs
<1>1. Current \in DOMAIN outcome
  BY BoundsAssumption DEF TxnInv, Typed, Current
<1> QED
  BY <1>1 DEF Abort, Errs

(* Every step of a running call is one of these.                           *)
LEMMA RunCases ==
  ASSUME TxnInv, HandleInv, Runs
  PROVE  /\ todo # << >> /\ calls' = calls /\ Head(todo) \in Issued
         /\ \/ Serve(Head(todo)) /\ Head(todo).op # "hmset"
            \/ UNCHANGED <<table, applied, loose>>
         /\ Errs \/ Waits \/ Skips \/ Passes
<1> DEFINE c == Head(todo)
<1>1. todo # << >> /\ calls' = calls
  BY DEF Runs, Answered, Refused, Lost, Reconnect, ReconnectFails
<1>2. c \in Issued /\ Kinds /\ Lined(todo)
  BY <1>1, HeadKinds
<1>3. \/ Serve(c) /\ c.op # "hmset"
      \/ UNCHANGED <<table, applied, loose>>
  BY DEF Runs, Answered, Refused, Lost, Reconnect, ReconnectFails, serverVars
<1>4. CASE Answered
  <2>1. /\ Serve(c) /\ session' = SessionAfter(c) /\ c.op # "hmset"
        /\ Fail(c, link) \/ (ReplyOk(c) /\ Succeed(c))
    BY <1>4 DEF Answered
  <2>2. CASE Fail(c, link)
    BY <1>1, <1>2, <1>3, <2>2, FailErrs
  <2>3. CASE Succeed(c) /\ Abort
    BY <1>1, <1>2, <1>3, <2>3, AbortErrs
  <2>4. CASE ReplyOk(c) /\ Succeed(c) /\ ~Abort
    <3>1. Current \in DOMAIN outcome
      BY <1>1, BoundsAssumption DEF TxnInv, Typed, Current
    <3>2. Passes
      BY <2>1, <2>4, <3>1 DEF Succeed, Continue, Passes
    <3> QED
      BY <1>1, <1>2, <1>3, <3>2
  <2> QED
    BY <1>1, <1>2, <1>3, <2>1, <2>2, <2>3, <2>4
<1>5. CASE Refused
  <2>1. /\ session' = [session EXCEPT !.dirty = session.open]
        /\ UNCHANGED <<table, applied, loose>>
        /\ CASE c.piped -> /\ Continue(Tail(todo), failed)
                           /\ UNCHANGED <<flag, status, link, listed>>
             [] c.op \in {"smembers", "hgetall"} -> Abort /\ UNCHANGED link
             [] OTHER -> Fail(c, link)
    BY <1>5 DEF Refused
  <2>2. CASE c.piped
    <3>1. c.op = "hset"
      BY <1>2, <2>2 DEF Issued
    <3>2. Continue(Tail(todo), failed) /\ UNCHANGED <<flag, listed>>
      BY <2>1, <2>2, <3>1
    <3>3. session'.open => session'.dirty
      BY <1>2, <2>1 DEF Kinds
    <3>4. Skips
      BY <2>1, <3>1, <3>2, <3>3 DEF Continue, Skips
    <3> QED
      BY <1>1, <1>2, <1>3, <3>4
  <2>3. CASE Abort
    BY <1>1, <1>2, <1>3, <2>3, AbortErrs
  <2>4. CASE Fail(c, link)
    BY <1>1, <1>2, <1>3, <2>4, FailErrs
  <2> QED
    BY <2>1, <2>2, <2>3, <2>4
<1>6. CASE Lost
  <2>1. \/ Abort \/ Fail(c, "broken")
        \/ session' = NoSession /\ UNCHANGED <<status, flag, todo, mayRetry, failed, outcome, listed>>
    BY <1>2, <1>6 DEF Lost, Kinds
  <2>2. CASE Abort
    BY <1>1, <1>2, <1>3, <2>2, AbortErrs
  <2>3. CASE Fail(c, "broken")
    BY <1>1, <1>2, <1>3, <2>3, FailErrs
  <2>4. CASE session' = NoSession /\ UNCHANGED <<status, flag, todo, mayRetry, failed, outcome, listed>>
    BY <1>1, <1>2, <1>3, <2>4 DEF Waits
  <2> QED
    BY <2>1, <2>2, <2>3, <2>4
<1>7. CASE Reconnect
  <2>1. Waits
    BY <1>7 DEF Reconnect, Waits, serverVars
  <2> QED
    BY <1>1, <1>2, <1>3, <2>1
<1>8. CASE ReconnectFails
  BY <1>1, <1>2, <1>3, <1>8, FailErrs DEF ReconnectFails
<1> QED
  BY <1>4, <1>5, <1>6, <1>7, <1>8 DEF Runs

-----------------------------------------------------------------------------
(* Which commands a call has left.                                         *)

(* The commands of the calls that are no transaction, as long as they have *)
(* not failed.  A row without columns never gets past its HMSET.           *)
PlainCmds(call, t) ==
  /\ call # "close"
  /\ call = "deleteAll" => \A i \in 1..Len(t) : t[i].op \in {"smembers", "del", "delset"}
  /\ call \in {"open", "readRow", "readColumns"} => Head(t).op \in Alone \ {"smembers"}
  /\ call = "writeEmpty" => /\ Len(t) >= 3 /\ t[Len(t) - 2].op = "hmset"
                            /\ \A i \in 1..(Len(t) - 2) : t[i].op # "exec"

PlainInv ==
  todo # << >> => IF failed THEN todo = <<Discard>> ELSE PlainCmds(calls[Current], todo)

(* ... also when the first of them is done.                                *)
LEMMA PlainTail ==
  ASSUME NEW call, NEW t, Lined(t), t # << >>, Tail(t) # << >>, PlainCmds(call, t),
         Head(t).op # "hmset"
  PROVE  PlainCmds(call, Tail(t))
<1> DEFINE u == Tail(t)
<1>1. t \in Seq(Issued) /\ Len(t) \in Nat /\ Len(t) > 0 /\ Head(t) = t[1] /\ Head(t).op \notin Alone
  BY LinedTail DEF Lined
<1>2. /\ u \in Seq(Issued) /\ Len(u) = Len(t) - 1
      /\ \A i \in 1..Len(u) : u[i] = t[i + 1] /\ i + 1 \in 1..Len(t)
  BY <1>1
<1> HIDE DEF u
<1>3. call = "deleteAll" => \A i \in 1..Len(u) : u[i].op \in {"smembers", "del", "delset"}
  BY <1>2 DEF PlainCmds
<1>4. ASSUME call = "writeEmpty"
      PROVE  /\ Len(u) >= 3 /\ u[Len(u) - 2].op = "hmset"
             /\ \A i \in 1..(Len(u) - 2) : u[i].op # "exec"
  <2>1. Len(t) >= 3 /\ t[Len(t) - 2].op = "hmset"
    BY <1>4 DEF PlainCmds
  <2>2. Len(t) # 3
    <3> SUFFICES ASSUME Len(t) = 3 PROVE FALSE
      OBVIOUS
    <3>1. Len(t) - 2 = 1
      OBVIOUS
    <3>2. t[1].op = "hmset"
      BY <2>1, <3>1
    <3> QED
      BY <1>1, <3>2
  <2>3. Len(u) >= 3 /\ Len(u) - 2 \in 1..Len(u) /\ (Len(u) - 2) + 1 = Len(t) - 2
    BY <1>1, <1>2, <2>1, <2>2
  <2>4. \A i \in 1..(Len(u) - 2) : i \in 1..Len(u) /\ i + 1 \in 1..(Len(t) - 2)
    BY <1>1, <1>2
  <2>5. \A i \in 1..(Len(u) - 2) : u[i].op # "exec"
    BY <1>2, <1>4, <2>4 DEF PlainCmds
  <2> QED
    BY <1>2, <2>1, <2>3, <2>5
<1>5. call # "close" /\ call \notin {"open", "readRow", "readColumns"}
  BY <1>1 DEF PlainCmds
<1> QED
  BY <1>3, <1>4, <1>5 DEF PlainCmds, u

(* What a delete-all does with the reply to its SMEMBERS.                  *)
LEMMA SweepStarts ==
  ASSUME HandleInv, TableInv, todo # << >>, Head(todo).op = "smembers", Passes
  PROVE  \E order \in Seq(Keys) :
           /\ todo' = DeleteListed(order)
           /\ ~session.open => \A k \in listed' : \E i \in 1..Len(order) : order[i] = k
<1> DEFINE S == IF session.open THEN {} ELSE table.ids
<1>1. listed' = table.ids /\ \E order \in SetToSeqs(S) : todo' = DeleteListed(order)
  BY DEF Passes
<1>2. S \in SUBSET Keys
  BY DEF TableInv
<1>3. IsFiniteSet(S)
  BY FS_EmptySet DEF TableInv
<1>4. PICK order \in SetToSeqs(S) : todo' = DeleteListed(order)
  BY <1>1
<1>5. order \in Seq(Keys) /\ \A k \in S : \E i \in 1..Len(order) : order[i] = k
  BY <1>2, <1>3, ListedOrder
<1> QED
  BY <1>1, <1>4, <1>5

(* A running call keeps to the commands of its kind.                       *)
LEMMA PlainRuns ==
  ASSUME TxnInv, HandleInv, TableInv, PlainInv, Runs
  PROVE  PlainInv'
<1>1. /\ todo # << >> /\ calls' = calls /\ Current' = Current /\ Lined(todo)
      /\ Errs \/ Waits \/ Skips \/ Passes
  BY RunCases DEF HandleInv, Current
<1>2. failed => Tail(todo) = << >>
  <2>1. Tail(<<Discard>>) = << >>
    OBVIOUS
  <2> QED
    BY <1>1, <2>1 DEF PlainInv
<1>3. Head(todo).op # "hmset" /\ todo' = Tail(todo) /\ failed' = failed => PlainInv'
  BY <1>1, <1>2, PlainTail DEF PlainInv
<1>4. CASE Errs
  <2>1. todo' = << >> \/ (failed' /\ todo' = <<Discard>>)
    BY <1>4 DEF Errs
  <2> QED
    BY <2>1 DEF PlainInv
<1>5. CASE Waits
  BY <1>1, <1>5 DEF Waits, PlainInv
<1>6. CASE Skips
  <2>1. Head(todo).op = "hset" /\ todo' = Tail(todo) /\ failed' = failed
    BY <1>6 DEF Skips
  <2> QED
    BY <1>3, <2>1
<1>7. CASE Passes
  <2>1. CASE Head(todo).op # "smembers"
    BY <1>3, <1>7, <2>1 DEF Passes
  <2>2. CASE Head(todo).op = "smembers"
    <3>1. PICK order \in Seq(Keys) : todo' = DeleteListed(order)
      BY <1>1, <1>7, <2>2, SweepStarts
    <3>2. \A i \in 1..Len(todo') : todo'[i].op \in {"del", "delset"}
      BY <3>1, ListedLined
    <3>3. failed' = failed
      BY <1>7 DEF Passes
    <3>4. ~failed
      <4>1. Discard.op # "smembers" /\ Head(<<Discard>>) = Discard
        BY DiscardOnly
      <4> QED
        BY <1>1, <2>2, <4>1 DEF PlainInv
    <3>5. PlainCmds(calls[Current], todo)
      BY <1>1, <3>4 DEF PlainInv
    <3>6. Len(todo) = 1
      BY <1>1, <2>2, LinedTail DEF Alone
    <3>7. PlainCmds(calls[Current], todo')
      BY <2>2, <3>2, <3>5, <3>6 DEF PlainCmds
    <3> QED
      BY <1>1, <3>3, <3>4, <3>7 DEF PlainInv
  <2> QED
    BY <2>1, <2>2
<1> QED
  BY <1>1, <1>4, <1>5, <1>6, <1>7

(* A call begins with commands of its kind.                                *)
LEMMA PlainBegins ==
  ASSUME TxnInv, NEW op, Call(op), NEW cmds, NEW retry, Begin(cmds, retry), PlainCmds(op, cmds)
  PROVE  PlainInv'
<1>1. calls' = Append(calls, op) /\ todo' = cmds /\ failed' = FALSE
  BY DEF Call, Begin
<1>2. calls \in Seq(CallNames) /\ op \in CallNames
  BY OpsAssumption DEF Call, TxnInv, Typed
<1>3. calls'[Current'] = op
  BY <1>1, <1>2 DEF Current
<1> QED
  BY <1>1, <1>3 DEF PlainInv

(* ... also one that start_transaction may refuse,                         *)
LEMMA PlainTransaction ==
  ASSUME TxnInv, NEW op, Call(op), NEW cmds,
         BeginTransaction(cmds) \/ RefuseTransaction \/ DiscardLeftover, PlainCmds(op, cmds)
  PROVE  PlainInv'
<1>1. CASE BeginTransaction(cmds)
  BY <1>1, PlainBegins DEF BeginTransaction
<1>2. CASE RefuseTransaction
  BY <1>2 DEF Call, RefuseTransaction, PlainInv
<1>3. CASE DiscardLeftover
  BY <1>3 DEF DiscardLeftover, PlainInv
<1> QED
  BY <1>1, <1>2, <1>3

(* ... and one that issues a single command.                               *)
LEMMA PlainOne ==
  ASSUME TxnInv, NEW op, Call(op), NEW retry, NEW name \in OpNames, NEW k,
         Begin(<<Cmd(name, k, NoCol)>>, retry),
         \/ op = "deleteAll" /\ name = "smembers"
         \/ op \in {"open", "readRow", "readColumns"} /\ name \in Alone \ {"smembers"}
  PROVE  PlainInv'
<1> DEFINE c == Cmd(name, k, NoCol)
<1>1. c.op = name
  BY DEF Cmd
<1> HIDE DEF c
<1>2. Len(<<c>>) = 1 /\ <<c>>[1] = c /\ Head(<<c>>) = c /\ \A i \in 1..1 : i = 1
  OBVIOUS
<1>3. PlainCmds(op, <<c>>)
  <2>1. CASE op = "deleteAll" /\ name = "smembers"
    BY <1>1, <1>2, <2>1 DEF PlainCmds
  <2>2. CASE op \in {"open", "readRow", "readColumns"} /\ name \in Alone \ {"smembers"}
    BY <1>1, <1>2, <2>2 DEF PlainCmds
  <2> QED
    BY <2>1, <2>2
<1> QED
  BY <1>3, PlainBegins DEF c

(* Every call but db_close_sync begins one of these ways.                  *)
LEMMA PlainCalls ==
  ASSUME TxnInv,
         \/ Open \/ WriteRow \/ WriteColumn \/ WriteEmpty \/ DeleteRow
         \/ DeleteAll \/ ReadRow \/ ReadColumns
  PROVE  PlainInv'
<1>1. /\ "select" \in OpNames /\ "smembers" \in OpNames
      /\ "hgetall" \in OpNames /\ "hmget" \in OpNames
      /\ {"select", "hgetall", "hmget"} \subseteq Alone \ {"smembers"}
  BY DEF OpNames, Alone
<1>2. \A op \in Transactional : \A cmds : PlainCmds(op, cmds)
  BY DEF Transactional, PlainCmds
<1>3. {"writeRow", "writeColumn", "deleteRow"} \subseteq Transactional
  BY DEF Transactional
<1>4. CASE Open
  BY <1>1, <1>4, PlainOne DEF Open
<1>5. CASE WriteRow
  BY <1>2, <1>3, <1>5, PlainTransaction DEF WriteRow
<1>6. CASE WriteColumn
  BY <1>2, <1>3, <1>6, PlainTransaction DEF WriteColumn
<1>7. CASE DeleteRow
  BY <1>2, <1>3, <1>7, PlainTransaction DEF DeleteRow
<1>8. CASE WriteEmpty
  <2>1. PICK k \in Keys :
        Call("writeEmpty") /\ (BeginTransaction(EmptyRowCmds(k)) \/ RefuseTransaction)
    BY <1>8 DEF WriteEmpty
  <2>2. /\ Len(EmptyRowCmds(k)) = 5 /\ EmptyRowCmds(k)[1] = Multi
        /\ EmptyRowCmds(k)[2] = Cmd("sadd", k, NoCol) /\ EmptyRowCmds(k)[3] = Cmd("hmset", k, NoCol)
    BY DEF EmptyRowCmds
  <2>3. Multi.op = "multi" /\ Cmd("sadd", k, NoCol).op = "sadd" /\ Cmd("hmset", k, NoCol).op = "hmset"
    BY DEF Multi, Cmd
  <2>4. PlainCmds("writeEmpty", EmptyRowCmds(k))
    <3>1. Len(EmptyRowCmds(k)) >= 3 /\ Len(EmptyRowCmds(k)) - 2 = 3
      BY <2>2
    <3>2. \A i \in 1..3 : i = 1 \/ i = 2 \/ i = 3
      OBVIOUS
    <3>3. \A i \in 1..3 : EmptyRowCmds(k)[i].op # "exec"
      BY <2>2, <2>3, <3>2
    <3> QED
      BY <2>2, <2>3, <3>1, <3>3 DEF PlainCmds
  <2> QED
    BY <2>1, <2>4, PlainTransaction
<1>9. CASE DeleteAll
  BY <1>1, <1>9, PlainOne DEF DeleteAll
<1>10. CASE ReadRow
  BY <1>1, <1>10, PlainOne DEF ReadRow
<1>11. CASE ReadColumns
  BY <1>1, <1>11, PlainOne DEF ReadColumns
<1> QED
  BY <1>4, <1>5, <1>6, <1>7, <1>8, <1>9, <1>10, <1>11
 
(* Every step keeps PlainInv.                                              *)
LEMMA PlainStep ==
  ASSUME TxnInv, HandleInv, TableInv, PlainInv, [Next]_vars
  PROVE  PlainInv'
<1>1. CASE Runs
  BY <1>1, PlainRuns
<1>2. CASE \/ Open \/ WriteRow \/ WriteColumn \/ WriteEmpty \/ DeleteRow
           \/ DeleteAll \/ ReadRow \/ ReadColumns
  BY <1>2, PlainCalls
<1>3. CASE Close \/ NewStatus
  BY <1>3 DEF Close, NewStatus, PlainInv
<1>4. CASE OtherClient \/ Rest \/ UNCHANGED vars
  BY <1>4 DEF OtherClient, Rest, vars, PlainInv, Current
<1> QED
  BY <1>1, <1>2, <1>3, <1>4 DEF Next, Runs

-----------------------------------------------------------------------------
(* Delete-all.                                                             *)

(* The row of k is gone from the table t once the commands q have run.     *)
GoneAfter(t, k, q) ==
  /\ t.rows[k] = EmptyRow \/ \E i \in 1..Len(q) : q[i].op = "del" /\ q[i].key = k
  /\ k \notin t.ids \/ \E i \in 1..Len(q) : q[i].op = "delset"

(* A delete-all has its list, and has not failed.                          *)
Sweeping ==
  /\ calls # << >> /\ Last(calls) = "deleteAll"
  /\ IF todo = << >> THEN outcome[Current] = "ok" ELSE ~failed /\ Head(todo).op # "smembers"

SweepInv == Sweeping => \A k \in listed : GoneAfter(table, k, todo)

(* The first command is served.                                            *)
LEMMA GoneServed ==
  ASSUME NEW t, t.ids \subseteq Keys, t.rows \in [Keys -> [Cols -> Values]],
         NEW q, q \in Seq(Issued), q # << >>, Head(q).op \in {"smembers", "del", "delset"},
         NEW k \in Keys, GoneAfter(t, k, q)
  PROVE  GoneAfter(Effect(t, <<Head(q)>>), k, q) /\ GoneAfter(Effect(t, <<Head(q)>>), k, Tail(q))
<1> DEFINE c == Head(q)
           u == Effect(t, <<c>>)
           r == Tail(q)
<1>1. /\ c \in Issued /\ c = q[1] /\ Len(q) \in Nat /\ r \in Seq(Issued) /\ Len(r) = Len(q) - 1
      /\ \A i \in 1..Len(r) : r[i] = q[i + 1]
  OBVIOUS
<1>2. \A i \in 1..Len(q) : i = 1 \/ (i - 1 \in 1..Len(r) /\ r[i - 1] = q[i])
  BY <1>1
<1>3. /\ k \in u.ids => k \in t.ids /\ c.op # "delset"
      /\ c.op = "del" /\ c.key = k => u.rows[k] = EmptyRow
      /\ ~(c.op = "del" /\ c.key = k) => u.rows[k] = t.rows[k]
  <2>1. c.op \notin {"sadd", "hset"}
    OBVIOUS
  <2> QED
    BY <1>1, <2>1, EffectOne
<1> HIDE DEF c, u, r
<1>4. u.rows[k] = EmptyRow \/ \E i \in 1..Len(r) : r[i].op = "del" /\ r[i].key = k
  <2>1. ASSUME NEW i \in 1..Len(q), q[i].op = "del", q[i].key = k
        PROVE  u.rows[k] = EmptyRow \/ \E j \in 1..Len(r) : r[j].op = "del" /\ r[j].key = k
    <3>1. CASE i = 1
      BY <1>1, <1>3, <2>1, <3>1
    <3>2. CASE i - 1 \in 1..Len(r) /\ r[i - 1] = q[i]
      BY <2>1, <3>2
    <3> QED
      BY <1>2, <2>1, <3>1, <3>2
  <2> QED
    BY <1>3, <2>1 DEF GoneAfter
<1>5. k \notin u.ids \/ \E i \in 1..Len(r) : r[i].op = "delset"
  <2>1. ASSUME NEW i \in 1..Len(q), q[i].op = "delset"
        PROVE  k \notin u.ids \/ \E j \in 1..Len(r) : r[j].op = "delset"
    <3>1. CASE i = 1
      BY <1>1, <1>3, <2>1, <3>1
    <3>2. CASE i - 1 \in 1..Len(r) /\ r[i - 1] = q[i]
      BY <2>1, <3>2
    <3> QED
      BY <1>2, <2>1, <3>1, <3>2
  <2> QED
    BY <1>3, <2>1 DEF GoneAfter
<1>6. GoneAfter(u, k, r)
  BY <1>4, <1>5 DEF GoneAfter
<1>7. GoneAfter(u, k, q)
  BY <1>3 DEF GoneAfter
<1> QED
  BY <1>6, <1>7 DEF c, u, r

(* A running call keeps SweepInv.                                          *)
LEMMA SweepRuns ==
  ASSUME EndsAccepted, NoEmptyRow, TxnInv, HandleInv, TableInv, MildInv, PlainInv,
         listed \subseteq Keys, SweepInv, Runs
  PROVE  SweepInv'
<1> SUFFICES ASSUME Sweeping' PROVE \A k \in listed' : GoneAfter(table', k, todo')
  BY DEF SweepInv
<1> DEFINE c == Head(todo)
<1>1. /\ todo # << >> /\ calls' = calls /\ Current' = Current /\ c \in Issued
      /\ Serve(c) \/ UNCHANGED table
      /\ Errs \/ Waits \/ Skips \/ Passes
  BY RunCases DEF Current
<1>2. todo \in Seq(Issued) /\ flag \in BOOLEAN /\ (session.open => flag)
  BY DEF HandleInv, Lined, Kinds, Flagged, Sure
<1>3. calls # << >> /\ Last(calls) = "deleteAll" /\ calls[Current] = "deleteAll"
  BY <1>1 DEF Sweeping, Last, Current
<1>4. IF todo' = << >> THEN outcome'[Current] = "ok" ELSE ~failed' /\ Head(todo').op # "smembers"
  BY <1>1 DEF Sweeping
<1>5. ~Errs
  BY <1>4 DEF Errs
<1>6. ~failed
  <2> SUFFICES ASSUME failed PROVE FALSE
    OBVIOUS
  <2>1. todo = <<Discard>> /\ c.op = "discard" /\ Tail(todo) = << >>
    <3>1. todo = <<Discard>>
      BY <1>1 DEF PlainInv
    <3> QED
      BY <3>1, DiscardOnly
  <2>2. CASE Waits
    BY <1>1, <1>4, <2>2 DEF Waits
  <2>3. CASE Skips
    BY <2>1, <2>3 DEF Skips
  <2>4. CASE Passes
    BY <1>4, <2>1, <2>4 DEF Passes
  <2> QED
    BY <1>1, <1>5, <2>2, <2>3, <2>4
<1>7. c.op \in {"smembers", "del", "delset"}
  <2>1. \A i \in 1..Len(todo) : todo[i].op \in {"smembers", "del", "delset"}
    BY <1>1, <1>3, <1>6 DEF PlainInv, PlainCmds
  <2>2. 1 \in 1..Len(todo) /\ Head(todo) = todo[1]
    BY <1>1, <1>2
  <2> QED
    BY <2>1, <2>2
<1>8. ~flag
  <2>1. Mild(todo) /\ Len(todo) \in 1..Len(todo)
    BY <1>1, <1>2, <1>3 DEF MildInv, Transactional
  <2>2. ~Closes(todo)
    BY <2>1 DEF Closes, Mild
  <2>3. ~Spoilt
    BY DEF Spoilt, NoEmptyRow
  <2>4. status # "aborted"
    BY <1>1 DEF HandleInv, Placed
  <2> QED
    BY <2>2, <2>3, <2>4 DEF HandleInv, Flagged, Owes
<1>9. ~session.open /\ (Serve(c) => table' = Effect(table, <<c>>))
  <2>1. ~session.open
    BY <1>2, <1>8
  <2> QED
    BY <1>7, <2>1 DEF Serve
<1> HIDE DEF c
<1>10. CASE Waits
  <2>1. todo' = todo /\ listed' = listed
    BY <1>10 DEF Waits
  <2>2. \A k \in listed : GoneAfter(table, k, todo)
    BY <1>1, <1>3, <1>4, <1>6, <2>1 DEF SweepInv, Sweeping
  <2>3. CASE table' = table
    BY <2>1, <2>2, <2>3
  <2>4. CASE table' = Effect(table, <<c>>)
    <3>1. \A k \in listed : GoneAfter(Effect(table, <<c>>), k, todo)
      BY <1>1, <1>2, <1>7, <2>2, GoneServed DEF TableInv, c
    <3> QED
      BY <2>1, <2>4, <3>1
  <2> QED
    BY <1>1, <1>9, <2>3, <2>4
<1>11. CASE Passes /\ c.op # "smembers"
  <2>1. todo' = Tail(todo) /\ listed' = listed /\ table' = Effect(table, <<c>>)
    BY <1>9, <1>11 DEF Passes, c
  <2>2. \A k \in listed : GoneAfter(table, k, todo)
    BY <1>1, <1>3, <1>6, <1>11 DEF SweepInv, Sweeping, c
  <2>3. \A k \in listed : GoneAfter(Effect(table, <<c>>), k, Tail(todo))
    BY <1>1, <1>2, <1>7, <2>2, GoneServed DEF TableInv, c
  <2> QED
    BY <2>1, <2>3
<1>12. CASE Passes /\ c.op = "smembers"
  <2>1. PICK order \in Seq(Keys) :
          /\ todo' = DeleteListed(order)
          /\ \A k \in listed' : \E i \in 1..Len(order) : order[i] = k
    BY <1>1, <1>9, <1>12, SweepStarts DEF c
  <2>2. /\ \A i \in 1..Len(order) : i \in 1..Len(todo') /\ todo'[i].op = "del" /\ todo'[i].key = order[i]
        /\ todo'[Len(todo')].op = "delset" /\ Len(todo') \in 1..Len(todo')
    BY <2>1, ListedLined
  <2> QED
    BY <2>1, <2>2 DEF GoneAfter
<1>13. ~Skips
  BY <1>7 DEF Skips, c
<1> QED
  BY <1>1, <1>5, <1>10, <1>11, <1>12, <1>13

(* What another client changes is no longer counted as listed.             *)
LEMMA SweepOther ==
  ASSUME HandleInv, TableInv, listed \subseteq Keys, SweepInv, OtherClient
  PROVE  SweepInv'
<1>1. UNCHANGED <<calls, flag, todo, failed, outcome>>
  BY DEF OtherClient
<1>2. PICK k \in Keys :
        /\ listed' = listed \ {k}
        /\ \/ table' = [ids  |-> table.ids \cup {k},
                        rows |-> [table.rows EXCEPT ![k] = [c \in Cols |-> MaxCalls + others']]]
           \/ table' = [ids  |-> table.ids \ {k}, rows |-> [table.rows EXCEPT ![k] = EmptyRow]]
  BY DEF OtherClient
<1>3. ASSUME NEW j \in listed' PROVE table'.rows[j] = table.rows[j] /\ (j \in table'.ids <=> j \in table.ids)
  BY <1>2, <1>3 DEF TableInv
<1> SUFFICES ASSUME Sweeping', NEW j \in listed' PROVE GoneAfter(table', j, todo')
  BY DEF SweepInv
<1>4. Sweeping
  BY <1>1 DEF Sweeping, Current
<1>5. GoneAfter(table, j, todo)
  BY <1>2, <1>4 DEF SweepInv
<1> QED
  BY <1>1, <1>3, <1>5 DEF GoneAfter

(* Only a delete-all sweeps, and not before it has its list.               *)
LEMMA SweepCalls ==
  ASSUME TxnInv,
         \/ Open \/ WriteRow \/ WriteColumn \/ WriteEmpty \/ DeleteRow
         \/ DeleteAll \/ ReadRow \/ ReadColumns \/ Close
  PROVE  SweepInv'
<1>1. calls \in Seq(CallNames)
  BY DEF TxnInv, Typed
<1>2. \A op : calls' = Append(calls, op) => Last(calls') = op
  BY <1>1 DEF Last
<1>3. CASE DeleteAll
  <2>1. todo' = <<Cmd("smembers", NoKey, NoCol)>>
    BY <1>3 DEF DeleteAll, Begin
  <2>2. Head(<<Cmd("smembers", NoKey, NoCol)>>).op = "smembers"
    BY DEF Cmd
  <2>3. todo' # << >> /\ Head(todo').op = "smembers"
    BY <2>1, <2>2
  <2> QED
    BY <2>3 DEF SweepInv, Sweeping
<1>4. CASE ~DeleteAll
  <2>1. \E op : op # "deleteAll" /\ calls' = Append(calls, op)
    BY <1>4 DEF Open, WriteRow, WriteColumn, WriteEmpty, DeleteRow, ReadRow, ReadColumns, Close, Call
  <2> QED
    BY <1>2, <2>1 DEF SweepInv, Sweeping
<1> QED
  BY <1>3, <1>4

(* Every step keeps SweepInv, as long as no row without columns was        *)
(* written.                                                                *)
LEMMA SweepStep ==
  ASSUME EndsAccepted, TxnInv, HandleInv, TableInv, MildInv, PlainInv,
         listed \subseteq Keys, NoEmptyRow => SweepInv, [Next]_vars
  PROVE  (NoEmptyRow => SweepInv)'
<1>1. CASE Runs
  <2>1. calls' = calls
    BY <1>1, RunCases
  <2> QED
    BY <1>1, <2>1, SweepRuns DEF NoEmptyRow
<1>2. CASE \/ Open \/ WriteRow \/ WriteColumn \/ WriteEmpty \/ DeleteRow
           \/ DeleteAll \/ ReadRow \/ ReadColumns \/ Close
  BY <1>2, SweepCalls
<1>3. CASE OtherClient
  <2>1. calls' = calls
    BY <1>3 DEF OtherClient
  <2> QED
    BY <1>3, <2>1, SweepOther DEF NoEmptyRow
<1>4. CASE NewStatus \/ Rest \/ UNCHANGED vars
  <2>1. UNCHANGED <<calls, flag, todo, failed, outcome, listed, table>>
    BY <1>4 DEF NewStatus, Rest, vars, serverVars
  <2>2. SweepInv' <=> SweepInv
    BY <2>1 DEF SweepInv, Sweeping, GoneAfter, Current
  <2> QED
    BY <2>1, <2>2 DEF NoEmptyRow
<1> QED
  BY <1>1, <1>2, <1>3, <1>4 DEF Next, Runs

(* A delete-all that returns DB_SUCCESS has removed every row it listed    *)
(* that no other client has changed since: what it has not removed yet it  *)
(* still has a DEL and the DEL of the index for.  No MULTI may be open     *)
(* when it runs, or the server only queues its commands: so the handle has *)
(* written no row without columns, which DeleteAllDone says, and the       *)
(* server accepts EXEC and DISCARD.                                        *)
THEOREM DeleteAllRemoves == EndsAccepted => (Spec => []DeleteAllDone)
<1> SUFFICES ASSUME EndsAccepted PROVE Spec => []DeleteAllDone
  OBVIOUS
<1> DEFINE Inv == listed \subseteq Keys /\ PlainInv /\ (NoEmptyRow => SweepInv)
<1>1. Init => Inv
  BY DEF Init, PlainInv, SweepInv, Sweeping
<1>2. TxnInv /\ HandleInv /\ TableInv /\ MildInv /\ Inv /\ [Next]_vars => Inv'
  BY ListedStep, PlainStep, SweepStep
<1>3. HandleInv /\ Inv => DeleteAllDone
  <2> SUFFICES ASSUME Inv, Returned("deleteAll"), NoEmptyRow, NEW k \in listed
               PROVE  k \notin table.ids /\ table.rows[k] = EmptyRow
    BY DEF DeleteAllDone, ListedGone, NoEmptyRow
  <2>1. Sweeping /\ todo = << >>
    BY DEF Returned, Sweeping
  <2>2. GoneAfter(table, k, << >>)
    BY <2>1 DEF SweepInv
  <2>3. 1..Len(<< >>) = {}
    OBVIOUS
  <2> QED
    BY <2>2, <2>3 DEF GoneAfter
<1> HIDE DEF Inv
<1> QED
  BY <1>1, <1>2, <1>3, HandleInvariant, PTL DEF Spec

-----------------------------------------------------------------------------
(* Whole rows.                                                             *)

(* There are columns, and db_write_single_row_sync is given all of them.   *)
WholeShapes == Cols # {} /\ \A shape \in RowShapes : \A c \in Cols : \E i \in DOMAIN shape : shape[i] = c

(* S is what a transaction of the call op sends after its MULTI.           *)
Body(op, S) ==
  \E k \in Keys :
    \/ op = "writeRow" /\ S = {Cmd("sadd", k, NoCol), Exec} \cup {Piped("hset", k, c) : c \in Cols}
    \/ op = "writeColumn" /\ \E c \in Cols : S = {Cmd("sadd", k, NoCol), Cmd("hset", k, c), Exec}
    \/ op = "deleteRow" /\ S = {Cmd("srem", k, NoCol), Cmd("del", k, NoCol), Exec}

(* The server has queued what the running transaction has sent.            *)
BodyInv ==
  todo # << >> /\ calls[Current] \in Transactional /\ ~failed =>
    IF Head(todo).op = "multi"
      THEN Body(calls[Current], Range(Tail(todo)))
      ELSE session.open /\ ~session.dirty
             => Body(calls[Current], Range(session.queued) \cup Range(todo))

(* The set of the commands of a sequence.                                  *)
LEMMA RangeTail ==
  ASSUME NEW t \in Seq(Issued), t # << >>
  PROVE  Range(t) = {Head(t)} \cup Range(Tail(t))
<1>1. Len(t) \in Nat /\ Len(t) > 0 /\ DOMAIN t = 1..Len(t) /\ Head(t) = t[1]
  OBVIOUS
<1>2. DOMAIN Tail(t) = 1..(Len(t) - 1) /\ \A i \in 1..(Len(t) - 1) : Tail(t)[i] = t[i + 1]
  BY <1>1
<1>3. \A i \in 1..Len(t) : i = 1 \/ (i - 1 \in 1..(Len(t) - 1) /\ (i - 1) + 1 = i)
  BY <1>1
<1>4. \A i \in 1..(Len(t) - 1) : i + 1 \in 1..Len(t)
  BY <1>1
<1>5. 1 \in 1..Len(t)
  BY <1>1
<1>6. ASSUME NEW x \in Range(t) PROVE x \in {Head(t)} \cup Range(Tail(t))
  <2>1. PICK i \in 1..Len(t) : x = t[i]
    BY <1>1 DEF Range
  <2>2. CASE i = 1
    BY <1>1, <2>1, <2>2
  <2>3. CASE i - 1 \in 1..(Len(t) - 1) /\ (i - 1) + 1 = i
    <3>1. Tail(t)[i - 1] = x
      BY <1>2, <2>1, <2>3
    <3> QED
      BY <1>2, <2>3, <3>1 DEF Range
  <2> QED
    BY <1>3, <2>2, <2>3
<1>7. ASSUME NEW x \in {Head(t)} \cup Range(Tail(t)) PROVE x \in Range(t)
  <2>1. CASE x = t[1]
    BY <1>1, <1>5, <2>1 DEF Range
  <2>2. CASE x \in Range(Tail(t))
    <3>1. PICK i \in 1..(Len(t) - 1) : x = Tail(t)[i]
      BY <1>2, <2>2 DEF Range
    <3> QED
      BY <1>1, <1>2, <1>4, <3>1 DEF Range
  <2> QED
    BY <1>1, <1>7, <2>1, <2>2
<1> QED
  BY <1>6, <1>7

(* ... when one is queued.                                                 *)
LEMMA RangeAppend ==
  ASSUME NEW q \in Seq(Issued), NEW c \in Issued
  PROVE  Range(Append(q, c)) = Range(q) \cup {c}
<1> DEFINE r == Append(q, c)
           n == Len(q)
<1>1. n \in Nat /\ DOMAIN q = 1..n /\ DOMAIN r = 1..(n + 1) /\ r[n + 1] = c
      /\ \A i \in 1..n : r[i] = q[i]
  OBVIOUS
<1>2. n + 1 \in 1..(n + 1) /\ \A i \in 1..(n + 1) : i \in 1..n \/ i = n + 1
  BY <1>1
<1>3. \A i \in 1..n : i \in 1..(n + 1)
  BY <1>1
<1> HIDE DEF r, n
<1> QED
  BY <1>1, <1>2, <1>3 DEF Range, r

(* The whole transaction of each call.                                     *)
LEMMA RowBody ==
  ASSUME WholeShapes, NEW k \in Keys, NEW shape \in RowShapes
  PROVE  Body("writeRow", Range(Tail(RowCmds(k, shape))))
<1> DEFINE t == RowCmds(k, shape)
           S == {Cmd("sadd", k, NoCol), Exec} \cup {Piped("hset", k, c) : c \in Cols}
           n == Len(shape)
<1>1. shape \in Seq(Cols) /\ n \in Nat /\ DOMAIN shape = 1..n /\ \A i \in 1..n : shape[i] \in Cols
  BY ShapesAssumption
<1>2. /\ t \in Seq(Issued) /\ Len(t) = n + 3
      /\ t[2] = Cmd("sadd", k, NoCol) /\ t[Len(t)] = Exec
      /\ \A i \in 3..(Len(t) - 1) : t[i] = Piped("hset", k, shape[i - 2])
  BY <1>1, RowOneByOne
<1> HIDE DEF t
<1>3. DOMAIN Tail(t) = 1..(n + 2) /\ \A i \in 1..(n + 2) : Tail(t)[i] = t[i + 1]
  BY <1>1, <1>2
<1>4. Tail(t)[1] = Cmd("sadd", k, NoCol) /\ Tail(t)[n + 2] = Exec
      /\ 1 \in 1..(n + 2) /\ n + 2 \in 1..(n + 2)
  BY <1>1, <1>2, <1>3
<1>5. \A i \in 2..(n + 1) : Tail(t)[i] = Piped("hset", k, shape[i - 1]) /\ i - 1 \in 1..n /\ i \in 1..(n + 2)
  <2> TAKE i \in 2..(n + 1)
  <2>1. i + 1 \in 3..(Len(t) - 1) /\ i \in 1..(n + 2) /\ (i + 1) - 2 = i - 1 /\ i - 1 \in 1..n
    BY <1>1, <1>2
  <2> QED
    BY <1>2, <1>3, <2>1
<1>6. \A i \in 1..(n + 2) : i = 1 \/ i = n + 2 \/ i \in 2..(n + 1)
  BY <1>1
<1> HIDE DEF n
<1>7. Range(Tail(t)) \subseteq S
  <2> SUFFICES ASSUME NEW i \in 1..(n + 2) PROVE Tail(t)[i] \in S
    BY <1>3 DEF Range
  <2> QED
    BY <1>1, <1>4, <1>5, <1>6
<1>8. ASSUME NEW c \in Cols PROVE Piped("hset", k, c) \in Range(Tail(t))
  <2>1. PICK i \in 1..n : shape[i] = c
    BY <1>1 DEF WholeShapes
  <2>2. i + 1 \in 2..(n + 1) /\ (i + 1) - 1 = i
    BY <1>1, <2>1
  <2>3. Tail(t)[i + 1] = Piped("hset", k, c) /\ i + 1 \in 1..(n + 2)
    BY <1>5, <2>1, <2>2
  <2> QED
    BY <1>3, <2>3 DEF Range
<1>9. {Cmd("sadd", k, NoCol), Exec} \subseteq Range(Tail(t))
  BY <1>3, <1>4 DEF Range
<1>10. Range(Tail(t)) = S
  BY <1>7, <1>8, <1>9
<1> QED
  BY <1>10 DEF Body, t

(* ... of a transaction of four commands.                                  *)
LEMMA FourBody ==
  ASSUME NEW a \in Issued, NEW b \in Issued
  PROVE  Range(Tail(<<Multi, a, b, Exec>>)) = {a, b, Exec}
<1>1. Tail(<<Multi, a, b, Exec>>) = <<a, b, Exec>>
  OBVIOUS
<1>2. DOMAIN <<a, b, Exec>> = {1, 2, 3}
  OBVIOUS
<1> QED
  BY <1>1, <1>2 DEF Range

(* The write of a column and the deletion of a row.                        *)
LEMMA TransactionBodies ==
  ASSUME NEW k \in Keys
  PROVE  /\ \A c \in Cols : Body("writeColumn", Range(Tail(ColumnCmds(k, c))))
         /\ Body("deleteRow", Range(Tail(DeleteRowCmds(k))))
<1>1. {"sadd", "hset", "srem", "del"} \subseteq OpNames
  BY DEF OpNames
<1>2. Cmd("sadd", k, NoCol) \in Issued /\ Cmd("srem", k, NoCol) \in Issued /\ Cmd("del", k, NoCol) \in Issued
  BY <1>1, CmdType
<1>3. \A c \in Cols : Cmd("hset", k, c) \in Issued
  BY <1>1, CmdType
<1>4. ASSUME NEW c \in Cols
      PROVE  Range(Tail(ColumnCmds(k, c))) = {Cmd("sadd", k, NoCol), Cmd("hset", k, c), Exec}
  BY <1>2, <1>3, FourBody DEF ColumnCmds
<1>5. Range(Tail(DeleteRowCmds(k))) = {Cmd("srem", k, NoCol), Cmd("del", k, NoCol), Exec}
  BY <1>2, FourBody DEF DeleteRowCmds
<1> QED
  BY <1>4, <1>5 DEF Body

(* A running transaction keeps BodyInv: what it sends is queued, or lost.  *)
LEMMA BodyRuns ==
  ASSUME TxnInv, HandleInv, BodyInv, Runs
  PROVE  BodyInv'
<1> SUFFICES ASSUME todo' # << >>, calls'[Current'] \in Transactional, ~failed'
             PROVE  IF Head(todo').op = "multi"
                      THEN Body(calls'[Current'], Range(Tail(todo')))
                      ELSE session'.open /\ ~session'.dirty
                             => Body(calls'[Current'], Range(session'.queued) \cup Range(todo'))
  BY DEF BodyInv
<1> DEFINE c  == Head(todo)
           op == calls[Current]
<1>1. /\ todo # << >> /\ calls' = calls /\ Current' = Current /\ c \in Issued
      /\ Errs \/ Waits \/ Skips \/ Passes
  BY RunCases DEF Current
<1>2. ~Errs
  BY DEF Errs
<1>3. ~failed
  BY <1>1, <1>2 DEF Waits, Skips, Passes
<1>4. Shaped(todo) /\ todo \in Seq(Issued)
  BY <1>1, <1>3 DEF TxnInv, Txn, HandleInv, Lined
<1>5. /\ c.op = "exec" => Tail(todo) = << >>
      /\ c.op # "exec" => Head(Tail(todo)).op # "multi"
      /\ c = Exec \/ (c.op \in TxnOps /\ c.op # "smembers")
  BY <1>4, ShapedTail, ShapedHead
<1>6. IF c.op = "multi"
        THEN Body(op, Range(Tail(todo)))
        ELSE session.open /\ ~session.dirty => Body(op, Range(session.queued) \cup Range(todo))
  BY <1>1, <1>3 DEF BodyInv
<1>7. CASE Waits
  <2>1. todo' = todo /\ session' \in {session, NoSession}
    BY <1>7 DEF Waits
  <2>2. ~NoSession.open
    BY NoSessionKind
  <2> QED
    BY <1>1, <1>6, <2>1, <2>2
<1>8. CASE Skips
  <2>1. c.op = "hset" /\ todo' = Tail(todo) /\ (session'.open => session'.dirty)
    BY <1>8 DEF Skips
  <2>2. Head(todo').op # "multi"
    BY <1>5, <2>1
  <2> QED
    BY <2>1, <2>2
<1>9. CASE Passes
  <2>1. session' = SessionAfter(c) /\ ReplyOk(c) /\ c.op # "hmset"
        /\ (c.op # "smembers" => todo' = Tail(todo))
    BY <1>9 DEF Passes
  <2>2. c.op # "exec"
    <3>1. c.op = "exec" => todo' = << >>
      BY <1>5, <2>1
    <3> QED
      BY <3>1
  <2>3. c.op \in TxnOps /\ c.op \notin {"exec", "discard", "smembers"}
    <3>1. c # Exec
      BY <2>2, Ends
    <3> QED
      BY <1>5, <3>1 DEF TxnOps
  <2>4. todo' = Tail(todo) /\ Head(todo').op # "multi"
    BY <1>5, <2>1, <2>2, <2>3
  <2>5. CASE c.op = "multi"
    <3>1. session' = [NoSession EXCEPT !.open = TRUE]
      BY <2>1, <2>5 DEF SessionAfter, ReplyOk
    <3>2. session'.queued = << >>
      BY <3>1 DEF NoSession
    <3>3. Range(<< >>) = {}
      BY DEF Range
    <3>4. Range(session'.queued) \cup Range(todo') = Range(Tail(todo))
      BY <2>4, <3>2, <3>3
    <3> QED
      BY <1>1, <1>6, <2>4, <2>5, <3>4
  <2>6. CASE c.op # "multi"
    <3>0. session.queued \in Seq(Issued)
          /\ session \in [open : BOOLEAN, dirty : BOOLEAN, queued : Seq(Issued)]
      BY DEF HandleInv, Kinds
    <3>1. session' = IF session.open THEN [session EXCEPT !.queued = Append(session.queued, c)] ELSE session
      BY <2>1, <2>3, <2>6 DEF SessionAfter
    <3>2. CASE ~session.open
      BY <2>4, <3>1, <3>2
    <3>3. CASE session.open
      <4>1. session'.queued = Append(session.queued, c) /\ session'.dirty = session.dirty
        BY <3>0, <3>1, <3>3
      <4>2. Range(session'.queued) = Range(session.queued) \cup {c}
        BY <1>1, <3>0, <4>1, RangeAppend
      <4>3. Range(todo) = {c} \cup Range(Tail(todo))
        BY <1>1, <1>4, RangeTail
      <4>4. Range(session'.queued) \cup Range(todo') = Range(session.queued) \cup Range(todo)
        BY <2>4, <4>2, <4>3
      <4> QED
        BY <1>1, <1>6, <2>4, <2>6, <3>3, <4>1, <4>4
    <3> QED
      BY <3>2, <3>3
  <2> QED
    BY <2>5, <2>6
<1> QED
  BY <1>1, <1>2, <1>7, <1>8, <1>9

(* A transaction begins with all of its commands.                          *)
LEMMA BodyBegins ==
  ASSUME TxnInv, NEW op, Call(op), NEW cmds,
         BeginTransaction(cmds) \/ RefuseTransaction \/ DiscardLeftover,
         op \notin Transactional \/ (Head(cmds).op = "multi" /\ Body(op, Range(Tail(cmds))))
  PROVE  BodyInv'
<1>1. calls' = Append(calls, op) /\ calls \in Seq(CallNames) /\ op \in CallNames /\ todo = << >>
  BY OpsAssumption DEF Call, TxnInv, Typed
<1>2. calls'[Current'] = op
  BY <1>1 DEF Current
<1>3. todo' = cmds \/ todo' = << >> \/ failed'
  BY <1>1 DEF BeginTransaction, RefuseTransaction, DiscardLeftover, Begin
<1> QED
  BY <1>2, <1>3 DEF BodyInv

(* ... as the three transactional calls do.                                *)
LEMMA BodyCalls ==
  ASSUME WholeShapes, TxnInv, WriteRow \/ WriteColumn \/ WriteEmpty \/ DeleteRow
  PROVE  BodyInv'
<1>1. "writeEmpty" \notin Transactional
  BY DEF Transactional
<1>2. CASE WriteRow
  <2>1. PICK k \in Keys, shape \in RowShapes :
        Call("writeRow") /\ (BeginTransaction(RowCmds(k, shape)) \/ DiscardLeftover)
    BY <1>2 DEF WriteRow
  <2>2. Head(RowCmds(k, shape)).op = "multi"
    BY ShapesAssumption, RowShaped
  <2> QED
    BY <2>1, <2>2, RowBody, BodyBegins
<1>3. CASE WriteColumn
  <2>1. PICK k \in Keys, c \in Cols :
        Call("writeColumn") /\ (BeginTransaction(ColumnCmds(k, c)) \/ RefuseTransaction)
    BY <1>3 DEF WriteColumn
  <2>2. Head(ColumnCmds(k, c)).op = "multi"
    BY Ends DEF ColumnCmds
  <2> QED
    BY <2>1, <2>2, TransactionBodies, BodyBegins
<1>4. CASE WriteEmpty
  BY <1>1, <1>4, BodyBegins DEF WriteEmpty
<1>5. CASE DeleteRow
  <2>1. PICK k \in Keys :
        Call("deleteRow") /\ (BeginTransaction(DeleteRowCmds(k)) \/ RefuseTransaction)
    BY <1>5 DEF DeleteRow
  <2>2. Head(DeleteRowCmds(k)).op = "multi"
    BY Ends DEF DeleteRowCmds
  <2> QED
    BY <2>1, <2>2, TransactionBodies, BodyBegins
<1> QED
  BY <1>2, <1>3, <1>4, <1>5

(* Every step keeps BodyInv.                                               *)
LEMMA BodyStep ==
  ASSUME WholeShapes, TxnInv, HandleInv, BodyInv, [Next]_vars
  PROVE  BodyInv'
<1>1. CASE Runs
  BY <1>1, BodyRuns
<1>2. CASE WriteRow \/ WriteColumn \/ WriteEmpty \/ DeleteRow
  BY <1>2, BodyCalls
<1>3. CASE Open \/ DeleteAll \/ ReadRow \/ ReadColumns
  <2>1. PICK op \in {"open", "deleteAll", "readRow", "readColumns"} : Call(op)
    BY <1>3 DEF Open, DeleteAll, ReadRow, ReadColumns
  <2>2. calls' = Append(calls, op) /\ calls \in Seq(CallNames) /\ op \in CallNames
    BY <2>1 DEF Call, TxnInv, Typed, CallNames
  <2>3. calls'[Current'] = op
    BY <2>2 DEF Current
  <2> QED
    BY <2>3 DEF BodyInv, Transactional
<1>4. CASE Close \/ NewStatus
  BY <1>4 DEF Close, NewStatus, BodyInv
<1>5. CASE OtherClient \/ Rest \/ UNCHANGED vars
  <2>1. UNCHANGED <<calls, todo, failed, session>>
    BY <1>5 DEF OtherClient, Rest, vars, serverVars
  <2> QED
    BY <2>1 DEF BodyInv, Current
<1> QED
  BY <1>1, <1>2, <1>3, <1>4, <1>5 DEF Next, Runs

(* What commands do to a table when none of them undoes another: the order *)
(* they run in makes no difference.                                        *)
Added(t, u, S) ==
  \A k \in Keys :
    /\ k \in u.ids <=> k \in t.ids \/ \E s \in S : s.op = "sadd" /\ s.key = k
    /\ DOMAIN u.rows[k] = Cols
    /\ \A c \in Cols : u.rows[k][c] = IF \E s \in S : s.op = "hset" /\ s.key = k /\ s.col = c
                                        THEN Current ELSE t.rows[k][c]

Deleted(t, u, S) ==
  \A k \in Keys :
    /\ k \in u.ids <=> k \in t.ids /\ ~\E s \in S : s.op = "srem" /\ s.key = k
    /\ DOMAIN u.rows[k] = Cols
    /\ \A c \in Cols : u.rows[k][c] = IF \E s \in S : s.op = "del" /\ s.key = k
                                        THEN 0 ELSE t.rows[k][c]

(* Commands that only add and write.                                       *)
LEMMA EffectOfAdding ==
  ASSUME NEW t, t.ids \subseteq Keys, NEW q \in Seq(Issued), NEW S, S = Range(q) \cup {Exec},
         \A s \in S : s.op \in {"sadd", "hset", "exec"}
  PROVE  Added(t, Effect(t, q), S)
<1> DEFINE D == DOMAIN q
<1>1. \A i \in D : q[i] \in S
  BY DEF Range
<1>2. \A s \in S : s.op \in {"sadd", "hset"} => \E i \in D : q[i] = s
  BY Ends DEF Range
<1>3. \A i \in D : q[i].op \notin {"delset", "srem", "del"}
  BY <1>1
<1> HIDE DEF D
<1> SUFFICES ASSUME NEW k \in Keys
             PROVE  /\ k \in Effect(t, q).ids <=> k \in t.ids \/ \E s \in S : s.op = "sadd" /\ s.key = k
                    /\ DOMAIN Effect(t, q).rows[k] = Cols
                    /\ \A c \in Cols :
                         Effect(t, q).rows[k][c] = IF \E s \in S : s.op = "hset" /\ s.key = k /\ s.col = c
                                                     THEN Current ELSE t.rows[k][c]
  BY DEF Added
<1>4. k \in Effect(t, q).ids <=> k \in t.ids \/ \E i \in D : q[i].op = "sadd" /\ q[i].key = k
  BY <1>3 DEF Effect, D
<1>5. ASSUME NEW c \in Cols
      PROVE  Effect(t, q).rows[k][c] = IF \E i \in D : q[i].op = "hset" /\ q[i].key = k /\ q[i].col = c
                                         THEN Current ELSE t.rows[k][c]
  BY <1>3 DEF Effect, D
<1>6. (\E i \in D : q[i].op = "sadd" /\ q[i].key = k) <=> (\E s \in S : s.op = "sadd" /\ s.key = k)
  BY <1>1, <1>2
<1>7. \A c \in Cols : (\E i \in D : q[i].op = "hset" /\ q[i].key = k /\ q[i].col = c)
                        <=> (\E s \in S : s.op = "hset" /\ s.key = k /\ s.col = c)
  BY <1>1, <1>2
<1>8. DOMAIN Effect(t, q).rows[k] = Cols
  BY DEF Effect
<1> QED
  BY <1>4, <1>5, <1>6, <1>7, <1>8

(* Commands that only delete.                                              *)
LEMMA EffectOfDeleting ==
  ASSUME NEW t, t.ids \subseteq Keys, NEW q \in Seq(Issued), NEW S, S = Range(q) \cup {Exec},
         \A s \in S : s.op \in {"srem", "del", "exec"}
  PROVE  Deleted(t, Effect(t, q), S)
<1> DEFINE D == DOMAIN q
<1>1. \A i \in D : q[i] \in S
  BY DEF Range
<1>2. \A s \in S : s.op \in {"srem", "del"} => \E i \in D : q[i] = s
  BY Ends DEF Range
<1>3. \A i \in D : q[i].op \notin {"delset", "sadd", "hset"}
  BY <1>1
<1> HIDE DEF D
<1> SUFFICES ASSUME NEW k \in Keys
             PROVE  /\ k \in Effect(t, q).ids <=> k \in t.ids /\ ~\E s \in S : s.op = "srem" /\ s.key = k
                    /\ DOMAIN Effect(t, q).rows[k] = Cols
                    /\ \A c \in Cols :
                         Effect(t, q).rows[k][c] = IF \E s \in S : s.op = "del" /\ s.key = k
                                                     THEN 0 ELSE t.rows[k][c]
  BY DEF Deleted
<1>4. k \in Effect(t, q).ids <=> k \in t.ids /\ ~\E i \in D : q[i].op = "srem" /\ q[i].key = k
  BY <1>3 DEF Effect, D
<1>5. ASSUME NEW c \in Cols
      PROVE  Effect(t, q).rows[k][c] = IF \E i \in D : q[i].op = "del" /\ q[i].key = k
                                         THEN 0 ELSE t.rows[k][c]
  BY <1>3 DEF Effect, D
<1>6. (\E i \in D : q[i].op = "srem" /\ q[i].key = k) <=> (\E s \in S : s.op = "srem" /\ s.key = k)
  BY <1>1, <1>2
<1>7. (\E i \in D : q[i].op = "del" /\ q[i].key = k) <=> (\E s \in S : s.op = "del" /\ s.key = k)
  BY <1>1, <1>2
<1>8. DOMAIN Effect(t, q).rows[k] = Cols
  BY DEF Effect
<1> QED
  BY <1>4, <1>5, <1>6, <1>7, <1>8

(* The EXEC of the transaction of the call op changes one row.             *)
Changes(op, t, u, k) ==
  /\ \A j \in Keys \ {k} : u.rows[j] = t.rows[j] /\ (j \in u.ids <=> j \in t.ids)
  /\ \/ op = "writeRow" /\ k \in u.ids /\ \A c \in Cols : u.rows[k][c] = Current
     \/ op = "writeColumn" /\ k \in u.ids
          /\ \E c \in Cols : /\ u.rows[k][c] = Current
                             /\ \A d \in Cols \ {c} : u.rows[k][d] = t.rows[k][d]
     \/ op = "deleteRow" /\ k \notin u.ids /\ u.rows[k] = EmptyRow

(* Rows with the same columns are the same.                                *)
LEMMA SameRow ==
  ASSUME NEW f \in [Cols -> Values], NEW g, DOMAIN g = Cols, g = [c \in Cols |-> g[c]],
         \A c \in Cols : g[c] = f[c]
  PROVE  g = f
OBVIOUS

(* An EXEC changes the one row that its call is about.                     *)
LEMMA ExecChanges ==
  ASSUME NEW t, t.ids \subseteq Keys, t.rows \in [Keys -> [Cols -> Values]],
         NEW q \in Seq(Issued), NEW op, Body(op, Range(q) \cup {Exec})
  PROVE  \E k \in Keys : Changes(op, t, Effect(t, q), k)
<1> DEFINE S == Range(q) \cup {Exec}
           u == Effect(t, q)
<1>1. PICK k \in Keys :
        \/ op = "writeRow" /\ S = {Cmd("sadd", k, NoCol), Exec} \cup {Piped("hset", k, c) : c \in Cols}
        \/ op = "writeColumn" /\ \E c \in Cols : S = {Cmd("sadd", k, NoCol), Cmd("hset", k, c), Exec}
        \/ op = "deleteRow" /\ S = {Cmd("srem", k, NoCol), Cmd("del", k, NoCol), Exec}
  BY DEF Body
<1>2. /\ Exec.op = "exec"
      /\ Cmd("sadd", k, NoCol).op = "sadd" /\ Cmd("sadd", k, NoCol).key = k
      /\ Cmd("srem", k, NoCol).op = "srem" /\ Cmd("srem", k, NoCol).key = k
      /\ Cmd("del", k, NoCol).op = "del" /\ Cmd("del", k, NoCol).key = k
  BY Ends DEF Cmd
<1>3. \A c \in Cols : /\ Cmd("hset", k, c).op = "hset" /\ Cmd("hset", k, c).key = k /\ Cmd("hset", k, c).col = c
                      /\ Piped("hset", k, c).op = "hset" /\ Piped("hset", k, c).key = k
                      /\ Piped("hset", k, c).col = c
  BY DEF Cmd, Piped
<1>4. \A j \in Keys : u.rows[j] = [c \in Cols |-> u.rows[j][c]] /\ t.rows[j] \in [Cols -> Values]
  BY DEF Effect
<1>5. S = Range(q) \cup {Exec}
  OBVIOUS
<1> HIDE DEF S, u
<1>6. CASE op = "writeRow" /\ S = {Cmd("sadd", k, NoCol), Exec} \cup {Piped("hset", k, c) : c \in Cols}
  <2>1. \A s \in S : s.op \in {"sadd", "hset", "exec"}
    BY <1>2, <1>3, <1>6
  <2>2. Added(t, u, S)
    BY <1>5, <2>1, EffectOfAdding DEF u
  <2>3. \A s \in S : s.op \in {"sadd", "hset"} => s.key = k
    BY <1>2, <1>3, <1>6
  <2>4. \A c \in Cols : \E s \in S : s.op = "hset" /\ s.key = k /\ s.col = c
    BY <1>3, <1>6
  <2>5. \E s \in S : s.op = "sadd" /\ s.key = k
    BY <1>2, <1>6
  <2>6. ASSUME NEW j \in Keys \ {k} PROVE u.rows[j] = t.rows[j] /\ (j \in u.ids <=> j \in t.ids)
    <3>1. \A c \in Cols : u.rows[j][c] = t.rows[j][c]
      BY <2>2, <2>3 DEF Added
    <3> QED
      BY <1>4, <2>2, <2>3, <3>1, SameRow DEF Added
  <2> QED
    BY <1>6, <2>2, <2>4, <2>5, <2>6 DEF Changes, u, Added
<1>7. CASE op = "writeColumn" /\ \E c \in Cols : S = {Cmd("sadd", k, NoCol), Cmd("hset", k, c), Exec}
  <2>0. PICK c \in Cols : S = {Cmd("sadd", k, NoCol), Cmd("hset", k, c), Exec}
    BY <1>7
  <2>1. \A s \in S : s.op \in {"sadd", "hset", "exec"}
    BY <1>2, <1>3, <2>0
  <2>2. Added(t, u, S)
    BY <1>5, <2>1, EffectOfAdding DEF u
  <2>3. \A s \in S : s.op \in {"sadd", "hset"} => s.key = k
    BY <1>2, <1>3, <2>0
  <2>4. \A d \in Cols : (\E s \in S : s.op = "hset" /\ s.key = k /\ s.col = d) <=> d = c
    BY <1>2, <1>3, <2>0
  <2>5. \E s \in S : s.op = "sadd" /\ s.key = k
    BY <1>2, <2>0
  <2>6. ASSUME NEW j \in Keys \ {k} PROVE u.rows[j] = t.rows[j] /\ (j \in u.ids <=> j \in t.ids)
    <3>1. \A d \in Cols : u.rows[j][d] = t.rows[j][d]
      BY <2>2, <2>3 DEF Added
    <3> QED
      BY <1>4, <2>2, <2>3, <3>1, SameRow DEF Added
  <2>7. u.rows[k][c] = Current /\ \A d \in Cols \ {c} : u.rows[k][d] = t.rows[k][d]
    BY <2>2, <2>4 DEF Added
  <2> QED
    BY <1>7, <2>2, <2>5, <2>6, <2>7 DEF Changes, u, Added
<1>8. CASE op = "deleteRow" /\ S = {Cmd("srem", k, NoCol), Cmd("del", k, NoCol), Exec}
  <2>1. \A s \in S : s.op \in {"srem", "del", "exec"}
    BY <1>2, <1>8
  <2>2. Deleted(t, u, S)
    BY <1>5, <2>1, EffectOfDeleting DEF u
  <2>3. \A s \in S : s.op \in {"srem", "del"} => s.key = k
    BY <1>2, <1>8
  <2>4. (\E s \in S : s.op = "del" /\ s.key = k) /\ (\E s \in S : s.op = "srem" /\ s.key = k)
    BY <1>2, <1>8
  <2>5. ASSUME NEW j \in Keys \ {k} PROVE u.rows[j] = t.rows[j] /\ (j \in u.ids <=> j \in t.ids)
    <3>1. \A d \in Cols : u.rows[j][d] = t.rows[j][d]
      BY <2>2, <2>3 DEF Deleted
    <3> QED
      BY <1>4, <2>2, <2>3, <3>1, SameRow DEF Deleted
  <2>6. u.rows[k] = EmptyRow
    <3>1. \A c \in Cols : u.rows[k][c] = 0
      BY <2>2, <2>4 DEF Deleted
    <3> QED
      BY <1>4, <3>1 DEF EmptyRow
  <2> QED
    BY <1>8, <2>2, <2>4, <2>5, <2>6 DEF Changes, u, Deleted
<1> QED
  BY <1>1, <1>6, <1>7, <1>8

(* Every value of the table is that of a call made so far, or another      *)
(* client's.                                                               *)
OldRows ==
  \A k \in Keys, c \in Cols : table.rows[k][c] \in 0..Len(calls) \/ table.rows[k][c] > MaxCalls

WholeInv == OldRows /\ WholeUnlessLoose

ByRow(n) == n > MaxCalls \/ (n > 0 /\ calls[n] # "writeColumn")

(* Whole, with its test for a whole-row write named.                       *)
LEMMA WholeIs ==
  ASSUME NEW k
  PROVE  Whole(k) <=>
           /\ k \in table.ids <=> table.rows[k] # EmptyRow
           /\ \A c, d \in Cols :
                ByRow(table.rows[k][c]) => \/ table.rows[k][d] = table.rows[k][c]
                                           \/ ~(table.rows[k][d] = 0 \/ ByRow(table.rows[k][d]))
BY DEF Whole, ByRow

(* A row that a step does not change stays whole, also when a call begins. *)
LEMMA WholeKept ==
  ASSUME TxnInv, OldRows, NEW k \in Keys, Whole(k),
         calls' = calls \/ \E op : calls' = Append(calls, op),
         table'.rows[k] = table.rows[k], k \in table'.ids <=> k \in table.ids
  PROVE  Whole(k)'
<1> DEFINE row == table.rows[k]
<1>1. calls \in Seq(CallNames) /\ Len(calls) \in Nat /\ Len(calls) <= MaxCalls /\ MaxCalls \in Nat
  BY BoundsAssumption DEF TxnInv, Typed
<1>2. \A n \in 1..Len(calls) : calls'[n] = calls[n]
  BY <1>1
<1>3. ASSUME NEW c \in Cols PROVE ByRow(row[c])' <=> ByRow(row[c])
  <2>1. row[c] \in 0..Len(calls) \/ row[c] > MaxCalls
    BY DEF OldRows
  <2>2. CASE row[c] > MaxCalls
    BY <2>2 DEF ByRow
  <2>3. CASE row[c] = 0
    BY <1>1, <2>3 DEF ByRow
  <2>4. CASE row[c] \in 1..Len(calls)
    BY <1>2, <2>4 DEF ByRow
  <2> QED
    BY <1>1, <2>1, <2>2, <2>3, <2>4
<1> QED
  BY <1>3, WholeIs DEF Whole, ByRow

(* A served command writes the number of the running call.                 *)
LEMMA OldServed ==
  ASSUME TxnInv, Kinds, OldRows, NEW c \in Issued, Serve(c), calls' = calls
  PROVE  OldRows'
<1>1. Len(calls) \in Nat
  BY DEF TxnInv, Typed
<1>2. table' = table \/ \E q \in Seq(Issued) : table' = Effect(table, q)
  <2>1. session.queued \in Seq(Issued) /\ <<c>> \in Seq(Issued)
    BY DEF Kinds
  <2> QED
    BY <2>1 DEF Serve
<1>3. CASE table' = table
  BY <1>3 DEF OldRows
<1>4. ASSUME NEW q \in Seq(Issued), table' = Effect(table, q) PROVE OldRows'
  <2> SUFFICES ASSUME NEW k \in Keys, NEW d \in Cols
               PROVE  table'.rows[k][d] \in 0..Len(calls) \/ table'.rows[k][d] > MaxCalls
    BY DEF OldRows
  <2>1. table'.rows[k][d] \in {Current, 0, table.rows[k][d]}
    BY <1>4 DEF Effect
  <2> QED
    BY <1>1, <2>1 DEF OldRows, Current
<1> QED
  BY <1>2, <1>3, <1>4

(* The call whose EXEC succeeds is a transaction, and what the server has  *)
(* queued is all of it.                                                    *)
LEMMA ExecIsWhole ==
  ASSUME TxnInv, HandleInv, PlainInv, BodyInv, todo # << >>, Head(todo).op = "exec",
         session.open, ~session.dirty
  PROVE  calls[Current] \in Transactional /\ Body(calls[Current], Range(session.queued) \cup {Exec})
<1>1. Lined(todo) /\ todo \in Seq(Issued) /\ Len(todo) \in Nat /\ Len(todo) > 0 /\ Head(todo) = todo[1]
  BY LinedTail DEF HandleInv, Lined
<1>2. calls[Current] \in CallNames
  BY DEF TxnInv, Typed, Current
<1>3. ~failed
  <2>1. Head(<<Discard>>).op # "exec"
    BY DiscardOnly
  <2> QED
    BY <2>1 DEF PlainInv
<1>4. PlainCmds(calls[Current], todo)
  BY <1>3 DEF PlainInv
<1>5. calls[Current] \notin {"close", "open", "readRow", "readColumns"}
  BY <1>4 DEF PlainCmds, Alone
<1>6. calls[Current] # "deleteAll"
  <2>1. 1 \in 1..Len(todo)
    BY <1>1
  <2> QED
    BY <1>1, <1>4, <2>1 DEF PlainCmds
<1>7. calls[Current] # "writeEmpty"
  <2> SUFFICES ASSUME calls[Current] = "writeEmpty" PROVE FALSE
    OBVIOUS
  <2>1. Len(todo) >= 3 /\ \A i \in 1..(Len(todo) - 2) : todo[i].op # "exec"
    BY <1>4 DEF PlainCmds
  <2>2. 1 \in 1..(Len(todo) - 2)
    BY <1>1, <2>1
  <2> QED
    BY <1>1, <2>1, <2>2
<1>8. calls[Current] \in Transactional
  BY <1>2, <1>5, <1>6, <1>7 DEF CallNames, Transactional
<1>9. Shaped(todo)
  BY <1>3, <1>8 DEF TxnInv, Txn
<1>10. Head(todo) = Exec /\ Tail(todo) = << >>
  BY <1>9, ShapedTail, ShapedHead DEF TxnOps
<1>11. Range(todo) = {Exec}
  <2>1. Range(<< >>) = {}
    BY DEF Range
  <2> QED
    BY <1>1, <1>10, <2>1, RangeTail
<1>12. Body(calls[Current], Range(session.queued) \cup Range(todo))
  BY <1>3, <1>8 DEF BodyInv
<1> QED
  BY <1>8, <1>11, <1>12

(* A command that takes effect leaves every row whole, but for the rows it *)
(* changes outside a transaction.                                          *)
LEMMA ServedWhole ==
  ASSUME Cols # {}, TxnInv, HandleInv, TableInv, PlainInv, BodyInv, WholeInv,
         todo # << >>, calls' = calls, Serve(Head(todo)), Head(todo) \in Issued
  PROVE  WholeUnlessLoose'
<1> DEFINE c == Head(todo)
<1>1. Current' = Current /\ Current \in DOMAIN calls /\ Current \in Nat \ {0} /\ Current <= MaxCalls
  BY BoundsAssumption DEF TxnInv, Typed, Current
<1> SUFFICES ASSUME NEW k \in Keys, \A n \in DOMAIN calls : <<n, k>> \notin loose'
             PROVE  Whole(k)'
  BY DEF WholeUnlessLoose
<1>2. loose \subseteq loose'
  BY DEF Serve
<1>3. Whole(k)
  BY <1>2 DEF WholeInv, WholeUnlessLoose
<1>4. table.ids \subseteq Keys /\ table.rows \in [Keys -> [Cols -> Values]]
  BY DEF TableInv
<1>5. CASE c.op = "exec" /\ ReplyOk(c)
  <2>1. table' = Effect(table, session.queued) /\ session.open /\ ~session.dirty
    BY <1>5 DEF Serve, ReplyOk
  <2>2. calls[Current] \in Transactional /\ Body(calls[Current], Range(session.queued) \cup {Exec})
    BY <1>5, <2>1, ExecIsWhole
  <2>3. session.queued \in Seq(Issued)
    BY DEF HandleInv, Kinds
  <2>4. PICK j \in Keys : Changes(calls[Current], table, table', j)
    BY <1>4, <2>1, <2>2, <2>3, ExecChanges
  <2>5. CASE k # j
    <3>1. table'.rows[k] = table.rows[k] /\ (k \in table'.ids <=> k \in table.ids)
      BY <2>4, <2>5 DEF Changes
    <3> QED
      BY <1>3, <3>1, WholeKept DEF WholeInv
  <2>6. CASE k = j
    <3>1. Current # 0 /\ ~(0 > MaxCalls)
      BY <1>1, BoundsAssumption
    <3>2. CASE calls[Current] = "writeRow" /\ k \in table'.ids /\ \A d \in Cols : table'.rows[k][d] = Current
      <4>1. table'.rows[k] # EmptyRow
        BY <3>1, <3>2 DEF EmptyRow
      <4> QED
        BY <3>2, <4>1 DEF Whole
    <3>3. CASE calls[Current] = "deleteRow" /\ k \notin table'.ids /\ table'.rows[k] = EmptyRow
      <4>1. \A d \in Cols : table'.rows[k][d] = 0
        BY <3>3 DEF EmptyRow
      <4> QED
        BY <3>1, <3>3, <4>1 DEF Whole
    <3>4. CASE /\ calls[Current] = "writeColumn" /\ k \in table'.ids
               /\ \E d \in Cols : /\ table'.rows[k][d] = Current
                                  /\ \A e \in Cols \ {d} : table'.rows[k][e] = table.rows[k][e]
      <4>1. PICK d \in Cols : /\ table'.rows[k][d] = Current
                              /\ \A e \in Cols \ {d} : table'.rows[k][e] = table.rows[k][e]
        BY <3>4
      <4>2. table'.rows[k] # EmptyRow
        BY <3>1, <4>1 DEF EmptyRow
      <4>3. ~ByRow(Current)
        BY <1>1, <3>4, BoundsAssumption DEF ByRow
      <4>4. ASSUME NEW a \in Cols, NEW b \in Cols, ByRow(table'.rows[k][a])
            PROVE  \/ table'.rows[k][b] = table'.rows[k][a]
                   \/ ~(table'.rows[k][b] = 0 \/ ByRow(table'.rows[k][b]))
        <5>1. a # d
          BY <4>1, <4>3, <4>4
        <5>2. CASE b = d
          BY <3>1, <4>1, <4>3, <5>2
        <5>3. CASE b # d
          BY <1>3, <4>1, <4>4, <5>1, <5>3, WholeIs
        <5> QED
          BY <5>2, <5>3
      <4> QED
        BY <3>4, <4>2, <4>4 DEF Whole, ByRow
    <3> QED
      BY <2>4, <2>6, <3>2, <3>3, <3>4 DEF Changes
  <2> QED
    BY <2>5, <2>6
<1>6. CASE ~(c.op = "exec" /\ ReplyOk(c)) /\ ~(c.op \notin {"exec", "discard", "multi"} /\ ~session.open)
  <2>1. table' = table
    BY <1>6 DEF Serve
  <2> QED
    BY <1>3, <2>1, WholeKept DEF WholeInv
<1>7. CASE c.op \notin {"exec", "discard", "multi"} /\ ~session.open
  <2>1. table' = Effect(table, <<c>>) /\ loose' = loose \cup ({Current} \X KeysChanged(c))
    BY <1>7 DEF Serve
  <2>2. k \notin KeysChanged(c)
    <3>1. <<Current, k>> \notin loose'
      BY <1>1
    <3> QED
      BY <2>1, <3>1
  <2>3. /\ ~(c.op \in {"sadd", "srem", "hset", "del"} /\ c.key = k)
        /\ ~(c.op = "delset" /\ k \in table.ids)
    BY <2>2 DEF KeysChanged
  <2>4. table'.rows[k] = table.rows[k] /\ (k \in table'.ids <=> k \in table.ids)
    BY <1>4, <2>1, <2>3, EffectOne
  <2> QED
    BY <1>3, <2>4, WholeKept DEF WholeInv
<1> QED
  BY <1>5, <1>6, <1>7

(* Another client leaves whole rows.                                       *)
LEMMA OtherWhole ==
  ASSUME Cols # {}, TxnInv, Kinds, TableInv, WholeInv, OtherClient
  PROVE  WholeInv'
<1>1. calls' = calls /\ loose' = loose /\ others' \in Nat \ {0}
  BY DEF OtherClient, Kinds
<1>2. PICK k \in Keys :
        \/ table' = [ids  |-> table.ids \cup {k},
                     rows |-> [table.rows EXCEPT ![k] = [c \in Cols |-> MaxCalls + others']]]
        \/ table' = [ids  |-> table.ids \ {k}, rows |-> [table.rows EXCEPT ![k] = EmptyRow]]
  BY DEF OtherClient
<1>3. table.rows \in [Keys -> [Cols -> Values]]
  BY DEF TableInv
<1>4. ASSUME NEW j \in Keys, j # k
      PROVE  table'.rows[j] = table.rows[j] /\ (j \in table'.ids <=> j \in table.ids)
  BY <1>2, <1>3, <1>4
<1>5. \/ k \in table'.ids /\ table'.rows[k] = [c \in Cols |-> MaxCalls + others']
      \/ k \notin table'.ids /\ table'.rows[k] = EmptyRow
  BY <1>2, <1>3
<1>6. MaxCalls + others' > MaxCalls /\ MaxCalls + others' # 0 /\ ~(0 > MaxCalls) /\ 0 \in 0..Len(calls)
  BY <1>1, BoundsAssumption DEF TxnInv, Typed
<1>7. OldRows'
  <2> SUFFICES ASSUME NEW j \in Keys, NEW c \in Cols
               PROVE  table'.rows[j][c] \in 0..Len(calls) \/ table'.rows[j][c] > MaxCalls
    BY <1>1 DEF OldRows
  <2>1. CASE j # k
    BY <1>4, <2>1 DEF WholeInv, OldRows
  <2>2. CASE j = k
    <3>1. table'.rows[k][c] = MaxCalls + others' \/ table'.rows[k][c] = 0
      BY <1>5 DEF EmptyRow
    <3> QED
      BY <1>6, <2>2, <3>1
  <2> QED
    BY <2>1, <2>2
<1>8. Whole(k)'
  <2>1. CASE k \in table'.ids /\ table'.rows[k] = [c \in Cols |-> MaxCalls + others']
    <3>1. table'.rows[k] # EmptyRow
      BY <1>6, <2>1 DEF EmptyRow
    <3>2. \A c \in Cols : table'.rows[k][c] = MaxCalls + others'
      BY <2>1
    <3> QED
      BY <2>1, <3>1, <3>2 DEF Whole
  <2>2. CASE k \notin table'.ids /\ table'.rows[k] = EmptyRow
    <3>1. \A c \in Cols : table'.rows[k][c] = 0
      BY <2>2 DEF EmptyRow
    <3> QED
      BY <1>6, <2>2, <3>1 DEF Whole
  <2> QED
    BY <1>5, <2>1, <2>2
<1>9. WholeUnlessLoose'
  <2> SUFFICES ASSUME NEW j \in Keys, \A n \in DOMAIN calls : <<n, j>> \notin loose
               PROVE  Whole(j)'
    BY <1>1 DEF WholeUnlessLoose
  <2>1. Whole(j)
    BY DEF WholeInv, WholeUnlessLoose
  <2>2. CASE j = k
    BY <1>8, <2>2
  <2>3. CASE j # k
    BY <1>1, <1>4, <2>1, <2>3, WholeKept DEF WholeInv
  <2> QED
    BY <2>2, <2>3
<1> QED
  BY <1>7, <1>9 DEF WholeInv

(* Every step keeps WholeInv.                                              *)
LEMMA WholeStep ==
  ASSUME Cols # {}, TxnInv, HandleInv, TableInv, PlainInv, BodyInv, WholeInv, [Next]_vars
  PROVE  WholeInv'
<1>1. ASSUME UNCHANGED <<table, loose>>, calls' = calls \/ \E op : calls' = Append(calls, op)
      PROVE  WholeInv'
  <2>1. calls \in Seq(CallNames) /\ Len(calls) \in Nat
    BY DEF TxnInv, Typed
  <2>2. Len(calls') \in Nat /\ Len(calls') >= Len(calls) /\ DOMAIN calls \subseteq DOMAIN calls'
    BY <1>1, <2>1
  <2>3. OldRows'
    <3>1. \A n \in 0..Len(calls) : n \in 0..Len(calls')
      BY <2>1, <2>2
    <3> QED
      BY <1>1, <3>1 DEF WholeInv, OldRows
  <2>4. WholeUnlessLoose'
    BY <1>1, <2>2, WholeKept DEF WholeInv, WholeUnlessLoose
  <2> QED
    BY <2>3, <2>4 DEF WholeInv
<1>2. CASE Runs
  <2>1. /\ todo # << >> /\ calls' = calls /\ Head(todo) \in Issued
        /\ Serve(Head(todo)) \/ UNCHANGED <<table, applied, loose>>
    BY <1>2, RunCases
  <2>2. CASE UNCHANGED <<table, applied, loose>>
    BY <1>1, <2>1, <2>2
  <2>3. CASE Serve(Head(todo))
    BY <2>1, <2>3, ServedWhole, OldServed DEF WholeInv, HandleInv
  <2> QED
    BY <2>1, <2>2, <2>3
<1>3. CASE OtherClient
  BY <1>3, OtherWhole DEF HandleInv
<1>4. CASE ~Runs /\ ~OtherClient
  <2>1. UNCHANGED <<table, loose>> /\ (calls' = calls \/ \E op : calls' = Append(calls, op))
    BY <1>4 DEF Next, Runs, Open, WriteRow, WriteColumn, WriteEmpty, DeleteRow, DeleteAll, ReadRow,
       ReadColumns, Close, NewStatus, Rest, Call, vars, serverVars
  <2> QED
    BY <1>1, <2>1
<1> QED
  BY <1>2, <1>3, <1>4

(* The empty table is whole.                                               *)
LEMMA InitWhole == Init => WholeInv
<1> SUFFICES ASSUME Init PROVE WholeInv
  OBVIOUS
<1>1. \A k \in Keys : k \notin table.ids /\ table.rows[k] = EmptyRow
  BY DEF Init
<1>2. \A k \in Keys, c \in Cols : table.rows[k][c] = 0
  BY <1>1 DEF EmptyRow
<1>3. 0 \in 0..Len(calls) /\ ~(0 > MaxCalls)
  BY BoundsAssumption DEF Init
<1> QED
  BY <1>1, <1>2, <1>3 DEF WholeInv, OldRows, WholeUnlessLoose, Whole

(* Every row is whole at any moment, unless a command of some call changed *)
(* it outside a transaction: what an EXEC applies is the whole queue of    *)
(* one call, whatever was sent twice, refused or lost before it, and       *)
(* whatever other clients did in between.                                  *)
THEOREM RowsWhole == WholeShapes => (Spec => []WholeUnlessLoose)
<1> SUFFICES ASSUME WholeShapes PROVE Spec => []WholeUnlessLoose
  OBVIOUS
<1> DEFINE Inv == PlainInv /\ BodyInv /\ WholeInv
<1>1. Init => Inv
  BY InitWhole DEF Init, PlainInv, BodyInv
<1>2. TxnInv /\ HandleInv /\ TableInv /\ Inv /\ [Next]_vars => Inv'
  BY PlainStep, BodyStep, WholeStep DEF WholeShapes
<1>3. Inv => WholeUnlessLoose
  BY DEF WholeInv
<1> HIDE DEF Inv
<1> QED
  BY <1>1, <1>2, <1>3, HandleInvariant, PTL DEF Spec

=============================================================================
