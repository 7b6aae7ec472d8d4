------------------------- MODULE DbAsyncStoreProofs -------------------------
(***************************************************************************)
(* The transactions of the asynchronous handle, for every value of the     *)
(* constants: MULTI and EXEC enclose the commands of one write, the index  *)
(* names no row that is gone, and a delete-all empties the table; and the  *)
(* invariants that DbAsyncRefineProofs needs.                              *)
(*                                                                         *)
(* None of these is inductive.  Which MULTI state the server is in         *)
(* depends on how the commands in front of the next one were queued, also  *)
(* by calls made before the connection was up; so the invariants here      *)
(* relate the order of the commands in the queue (Grouped), the number of  *)
(* commands the server has run (Position) and what it keeps of them.       *)
(***************************************************************************)
EXTENDS DbAsyncProofs

(* Commands that stand at the beginning of what a call or a callback       *)
(* queues, and those that stand at its end.                                *)
Starts == {"multi", "srem", "smembers", "hgetall", "flushdb"}
Ends   == {"exec", "del", "smembers", "hgetall", "flushdb"}
InWrite == {"sadd", "hmset", "exec"}

(* The command b may stand directly behind a.                              *)
Follows(a, b) ==
  /\ a.op = "multi" => b.op = "sadd" /\ b.id = a.id
  /\ a.op = "sadd"  => b.op = "hmset" /\ b.id = a.id /\ b.key = a.key /\ a.key \in Keys
  /\ a.op = "hmset" => b.op \in {"hmset", "exec"} /\ b.id = a.id /\ b.key = a.key
                       /\ a.key \in Keys /\ a.col \in Cols
  /\ a.op = "srem"  => b.op = "del" /\ b.key = a.key
  /\ a.op \in Ends  => b.op \in Starts

(* A queue that may begin in the middle of a write or a deletion, but ends *)
(* with the end of one; and one that also begins with a beginning.         *)
Grouped(q) ==
  /\ \A i \in 1..(Len(q) - 1) : Follows(q[i], q[i + 1])
  /\ Len(q) > 0 => q[Len(q)].op \in Ends

Whole(r) == Grouped(r) /\ (Len(r) > 0 => r[1].op \in Starts)

(* The queued command s is of the same write as n.                         *)
OfWrite(s, n) ==
  /\ s.op \in {"sadd", "hmset"} /\ s.id = n.id /\ s.key = n.key /\ s.key \in Keys
  /\ s.op = "hmset" => s.col \in Cols

(* The MULTI state t of a server that runs n next.                         *)
InTxn(n, t) ==
  IF n.op \in InWrite
    THEN /\ t.open
         /\ \A s \in t.queued : OfWrite(s, n)
         /\ n.op = "sadd" => t.queued = {}
         /\ n.op # "sadd" /\ ~t.dirty => \E s \in t.queued : s.op = "sadd"
         /\ n.op = "exec" /\ ~t.dirty => \E s \in t.queued : s.op = "hmset"
    ELSE t = NoTxn

(* The server has run the first p - 1 commands of q.                       *)
Position(q, p, t) == IF p <= Len(q) THEN InTxn(q[p], t) ELSE t = NoTxn

TxnInv ==
  /\ Grouped(pending)
  /\ ending = "none" => Position(pending, Len(answers) + 1, txn)
  /\ connState # "connected" \/ ending # "none" => txn = NoTxn

DelAt(q, p) == p <= Len(q) /\ q[p].op = "del" => q[p].key \notin ids

IndexInv ==
  /\ IndexedRowsExist
  /\ ending = "none" => DelAt(pending, Len(answers) + 1)

(* The writes whose EXEC the server has still to run are not applied.      *)
NotYetApplied(q, p) ==
  \A i \in 1..Len(q) : i >= p /\ q[i].op = "exec" => q[i].id \notin applied

(* Every column of the row is set by the EXEC at position i: by an HMSET   *)
(* that the server has still to run, or has queued.                        *)
ColumnSet(q, p, t, i, c) ==
  \/ \E j \in p..i : q[j].op = "hmset" /\ q[j].id = q[i].id /\ q[j].col = c
  \/ \E h \in t.queued : h.op = "hmset" /\ h.id = q[i].id /\ h.col = c
  \/ t.dirty /\ q[p].id = q[i].id

Covered(q, p, t) ==
  \A i \in 1..Len(q) : i >= p /\ q[i].op = "exec" => \A c \in Cols : ColumnSet(q, p, t, i, c)

AppliedInv ==
  /\ applied \subseteq 1..calls
  /\ ending = "none" => NotYetApplied(pending, Len(answers) + 1)

CoverInv == ending = "none" => Covered(pending, Len(answers) + 1, txn)

(* A row that is not in the index has no columns, but for the one whose    *)
(* DEL comes next.                                                         *)
NoOrphans(q, p) ==
  \A k \in Keys \ ids :
    rows[k] = EmptyRow \/ (p <= Len(q) /\ q[p].op = "del" /\ q[p].key = k)

OrphanInv ==
  /\ ending # "drop"
  /\ ending = "none" /\ connState # "closed" => NoOrphans(pending, Len(answers) + 1)

-----------------------------------------------------------------------------
(* Queues.                                                                 *)

(* What is left of a queue when its head is popped is still in order.      *)
LEMMA GroupedTail ==
  ASSUME NEW q \in Seq(Cmds), q # << >>, Grouped(q)
  PROVE  Grouped(Tail(q))
<1> DEFINE s == Tail(q)
<1>1. /\ s \in Seq(Cmds) /\ Len(s) = Len(q) - 1 /\ Len(q) >= 1 /\ Len(q) \in Nat
      /\ \A i \in 1..Len(s) : s[i] = q[i + 1]
  BY TailCmds
<1> HIDE DEF s
<1>2. \A i \in 1..(Len(s) - 1) : Follows(s[i], s[i + 1])
  <2> SUFFICES ASSUME NEW i \in 1..(Len(s) - 1) PROVE Follows(s[i], s[i + 1])
    OBVIOUS
  <2>1. i \in 1..Len(s) /\ i + 1 \in 1..Len(s) /\ i + 1 \in 1..(Len(q) - 1)
    BY <1>1
  <2>2. s[i] = q[i + 1] /\ s[i + 1] = q[(i + 1) + 1]
    BY <1>1, <2>1
  <2> QED
    BY <2>1, <2>2 DEF Grouped
<1>3. Len(s) > 0 => s[Len(s)].op \in Ends
  <2> SUFFICES ASSUME Len(s) > 0 PROVE s[Len(s)].op \in Ends
    OBVIOUS
  <2>1. Len(s) \in 1..Len(s) /\ Len(s) + 1 = Len(q)
    BY <1>1
  <2>2. s[Len(s)] = q[Len(q)]
    BY <1>1, <2>1
  <2> QED
    BY <1>1, <2>2 DEF Grouped
<1> QED
  BY <1>2, <1>3 DEF Grouped, s

(* What a call or a callback queues is queued behind the end of the last   *)
(* write or deletion.                                                      *)
LEMMA GroupedConcat ==
  ASSUME NEW q \in Seq(Cmds), NEW r \in Seq(Cmds), Grouped(q), Whole(r)
  PROVE  Grouped(q \o r)
<1> DEFINE s == q \o r
<1>1. /\ s \in Seq(Cmds) /\ Len(s) = Len(q) + Len(r) /\ Len(q) \in Nat /\ Len(r) \in Nat
      /\ \A i \in 1..Len(s) : s[i] = IF i <= Len(q) THEN q[i] ELSE r[i - Len(q)]
  BY ConcatCmds
<1> HIDE DEF s
<1>2. \A i \in 1..(Len(s) - 1) : Follows(s[i], s[i + 1])
  <2> SUFFICES ASSUME NEW i \in 1..(Len(s) - 1) PROVE Follows(s[i], s[i + 1])
    OBVIOUS
  <2>1. i \in 1..Len(s) /\ i + 1 \in 1..Len(s)
    BY <1>1
  <2>2. CASE i < Len(q)
    <3>1. i \in 1..(Len(q) - 1) /\ s[i] = q[i] /\ s[i + 1] = q[i + 1]
      BY <1>1, <2>1, <2>2
    <3> QED
      BY <3>1 DEF Grouped
  <2>3. CASE i = Len(q)
    <3>1. s[i] = q[Len(q)] /\ s[i + 1] = r[1] /\ Len(q) > 0 /\ Len(r) > 0
      BY <1>1, <2>1, <2>3
    <3>2. q[Len(q)].op \in Ends /\ r[1].op \in Starts
      BY <3>1 DEF Grouped, Whole
    <3> QED
      BY <3>1, <3>2 DEF Follows, Ends
  <2>4. CASE i > Len(q)
    <3>1. /\ i - Len(q) \in 1..(Len(r) - 1)
          /\ s[i] = r[i - Len(q)] /\ s[i + 1] = r[(i - Len(q)) + 1]
      BY <1>1, <2>1, <2>4
    <3> QED
      BY <3>1 DEF Grouped, Whole
  <2> QED
    BY <1>1, <2>1, <2>2, <2>3, <2>4
<1>3. Len(s) > 0 => s[Len(s)].op \in Ends
  <2> SUFFICES ASSUME Len(s) > 0 PROVE s[Len(s)].op \in Ends
    OBVIOUS
  <2>1. CASE Len(r) > 0
    <3>1. s[Len(s)] = r[Len(r)]
      BY <1>1, <2>1
    <3> QED
      BY <2>1, <3>1 DEF Whole, Grouped
  <2>2. CASE Len(r) = 0
    <3>1. s[Len(s)] = q[Len(q)] /\ Len(q) > 0
      BY <1>1, <2>2
    <3> QED
      BY <3>1 DEF Grouped
  <2> QED
    BY <1>1, <2>1, <2>2
<1> QED
  BY <1>2, <1>3 DEF Grouped, s

(* Two lists of whole commands one behind the other.                       *)
LEMMA WholeConcat ==
  ASSUME NEW q \in Seq(Cmds), NEW r \in Seq(Cmds), Whole(q), Whole(r)
  PROVE  Whole(q \o r)
<1> DEFINE s == q \o r
<1>1. Grouped(s)
  BY GroupedConcat DEF Whole
<1>2. /\ s \in Seq(Cmds) /\ Len(s) = Len(q) + Len(r) /\ Len(q) \in Nat /\ Len(r) \in Nat
      /\ \A i \in 1..Len(s) : s[i] = IF i <= Len(q) THEN q[i] ELSE r[i - Len(q)]
  BY ConcatCmds
<1> HIDE DEF s
<1>3. Len(s) > 0 => s[1].op \in Starts
  <2> SUFFICES ASSUME Len(s) > 0 PROVE s[1].op \in Starts
    OBVIOUS
  <2>1. CASE Len(q) > 0
    BY <1>2, <2>1 DEF Whole
  <2>2. CASE Len(q) = 0
    <3>1. s[1] = r[1] /\ Len(r) > 0
      BY <1>2, <2>2
    <3> QED
      BY <3>1 DEF Whole
  <2> QED
    BY <1>2, <2>1, <2>2
<1> QED
  BY <1>1, <1>3 DEF Whole, s

(* The command lists of the API calls and of the SMEMBERS reply.           *)
LEMMA WholeEmpty == Whole(<< >>)
  BY DEF Whole, Grouped

(* A command that is a beginning and an end is a group of its own.         *)
LEMMA WholeSingle ==
  ASSUME NEW c \in Cmds, c.op \in Starts, c.op \in Ends
  PROVE  Whole(<<c>>)
<1>1. Len(<<c>>) = 1 /\ <<c>>[1] = c
  OBVIOUS
<1> QED
  BY <1>1 DEF Whole, Grouped

(* db_delete_single_row: SREM, then DEL of the same row.                   *)
LEMMA WholeDelete ==
  ASSUME NEW k \in Keys, NEW by \in CallNames
  PROVE  Whole(DeleteCmds(k, by))
<1> DEFINE r == DeleteCmds(k, by)
<1>1. /\ Len(r) = 2 /\ r[1] = Cmd("srem", k, NoCol, 0, by) /\ r[2] = Cmd("del", k, NoCol, 0, by)
  BY DEF DeleteCmds
<1> HIDE DEF r
<1>2. Follows(r[1], r[2]) /\ r[2].op \in Ends /\ r[1].op \in Starts
  BY <1>1 DEF Cmd, Follows, Starts, Ends
<1>3. \A i \in 1..(Len(r) - 1) : i = 1
  BY <1>1
<1> QED
  BY <1>1, <1>2, <1>3 DEF Whole, Grouped, r

(* The row reads of a full read are each a group.                          *)
LEMMA WholeRead ==
  ASSUME NEW order \in Seq(Keys)
  PROVE  Whole(ReadCmds(order))
<1> DEFINE r == ReadCmds(order)
<1>1. Len(r) = Len(order) /\ Len(order) \in Nat /\ \A i \in 1..Len(r) : r[i].op = "hgetall"
  BY DEF ReadCmds, Cmd
<1> HIDE DEF r
<1>2. \A i \in 1..(Len(r) - 1) : Follows(r[i], r[i + 1])
  <2> SUFFICES ASSUME NEW i \in 1..(Len(r) - 1) PROVE Follows(r[i], r[i + 1])
    OBVIOUS
  <2>1. r[i].op = "hgetall" /\ r[i + 1].op = "hgetall"
    BY <1>1
  <2> QED
    BY <2>1 DEF Follows, Starts
<1>3. Len(r) > 0 => r[1].op = "hgetall" /\ r[Len(r)].op = "hgetall"
  BY <1>1
<1> QED
  BY <1>2, <1>3 DEF Whole, Grouped, Starts, Ends, r

(* issue_del_row_commands: pairs of SREM and DEL.                          *)
LEMMA WholeDelRow ==
  ASSUME NEW order \in Seq(Keys)
  PROVE  Whole(DelRowCmds(order))
<1> DEFINE n == Len(order)
           r == DelRowCmds(order)
           At(i) == IF i % 2 = 1 THEN Cmd("srem", order[(i + 1) \div 2], NoCol, 0, "deleteAll")
                    ELSE Cmd("del", order[i \div 2], NoCol, 0, "deleteAll")
<1>1. n \in Nat
  OBVIOUS
<1> HIDE DEF n
<1>2. r = [i \in 1..(2 * n) |-> At(i)]
  BY DEF DelRowCmds, n
<1>3. Len(r) = 2 * n /\ \A i \in 1..(2 * n) : r[i] = At(i)
  BY <1>1, <1>2
<1> HIDE DEF r
<1>4. \A i \in 1..(Len(r) - 1) : Follows(r[i], r[i + 1])
  <2> SUFFICES ASSUME NEW i \in 1..(Len(r) - 1) PROVE Follows(r[i], r[i + 1])
    OBVIOUS
  <2>1. r[i] = At(i) /\ r[i + 1] = At(i + 1)
    <3>1. i \in 1..(2 * n) /\ i + 1 \in 1..(2 * n)
      BY <1>1, <1>3
    <3> QED
      BY <1>3, <3>1, Zenon
  <2>2. CASE i % 2 = 1
    <3>1. (i + 1) % 2 # 1
      BY <1>1, <1>3, <2>2
    <3> QED
      BY <2>1, <2>2, <3>1 DEF Cmd, Follows, Ends
  <2>3. CASE i % 2 # 1
    <3>1. (i + 1) % 2 = 1
      BY <1>1, <1>3, <2>3
    <3> QED
      BY <2>1, <2>3, <3>1 DEF Cmd, Follows, Starts
  <2> QED
    BY <2>2, <2>3
<1>5. Len(r) > 0 => r[1].op \in Starts /\ r[Len(r)].op \in Ends
  <2> SUFFICES ASSUME Len(r) > 0 PROVE r[1].op \in Starts /\ r[Len(r)].op \in Ends
    OBVIOUS
  <2>1. 1 \in 1..(2 * n) /\ 2 * n \in 1..(2 * n) /\ 1 % 2 = 1 /\ (2 * n) % 2 # 1
    BY <1>1, <1>3
  <2>2. r[1] = At(1) /\ r[Len(r)] = At(2 * n)
    BY <1>3, <2>1
  <2> QED
    BY <2>1, <2>2 DEF Cmd, Starts, Ends
<1> QED
  BY <1>4, <1>5 DEF Whole, Grouped, r

(* A write is enclosed in its MULTI and EXEC, which carry its number.      *)
LEMMA WholeWrite ==
  ASSUME NEW k \in Keys, NEW shape \in Seq(Cols) \ {<< >>}, NEW w \in Nat,
         NEW by \in CallNames
  PROVE  Whole(WriteCmds(k, shape, w, by))
<1> DEFINE r == WriteCmds(k, shape, w, by)
           n == Len(shape) + 3
<1>1. /\ r \in Seq(Cmds) /\ Len(r) = n /\ Len(shape) >= 1
      /\ \A i \in 1..n :
           r[i] = IF i = 1 THEN Cmd("multi", NoKey, NoCol, w, by)
                  ELSE IF i = 2 THEN Cmd("sadd", k, NoCol, w, by)
                  ELSE IF i = n THEN Cmd("exec", k, NoCol, w, by)
                  ELSE Cmd("hmset", k, shape[i - 2], w, by)
  BY WriteCmdsFacts
<1>2. n \in Nat /\ n >= 4 /\ n = Len(shape) + 3
  BY <1>1
<1> HIDE DEF r, n
<1>3. \A i \in 1..(n - 1) : Follows(r[i], r[i + 1])
  <2> SUFFICES ASSUME NEW i \in 1..(n - 1) PROVE Follows(r[i], r[i + 1])
    OBVIOUS
  <2>0. i \in 1..n /\ i + 1 \in 1..n /\ i # n /\ i + 1 # 1
    BY <1>2
  <2>1. CASE i = 1
    <3>1. r[i] = Cmd("multi", NoKey, NoCol, w, by) /\ r[i + 1] = Cmd("sadd", k, NoCol, w, by)
      BY <1>1, <1>2, <2>0, <2>1
    <3> QED
      BY <3>1 DEF Cmd, Follows, Ends
  <2>2. CASE i = 2
    <3>1. r[i] = Cmd("sadd", k, NoCol, w, by) /\ r[i + 1] = Cmd("hmset", k, shape[1], w, by)
      BY <1>1, <1>2, <2>0, <2>2
    <3> QED
      BY <3>1 DEF Cmd, Follows, Ends
  <2>3. CASE i > 2 /\ i + 1 = n
    <3>1. r[i] = Cmd("hmset", k, shape[i - 2], w, by) /\ r[i + 1] = Cmd("exec", k, NoCol, w, by)
      BY <1>1, <1>2, <2>0, <2>3
    <3>2. shape[i - 2] \in Cols
      BY <1>2, <2>0, <2>3
    <3> QED
      BY <3>1, <3>2 DEF Cmd, Follows, Ends
  <2>4. CASE i > 2 /\ i + 1 # n
    <3>1. /\ r[i] = Cmd("hmset", k, shape[i - 2], w, by)
          /\ r[i + 1] = Cmd("hmset", k, shape[(i + 1) - 2], w, by)
      BY <1>1, <1>2, <2>0, <2>4
    <3>2. shape[i - 2] \in Cols
      BY <1>2, <2>0, <2>4
    <3> QED
      BY <3>1, <3>2 DEF Cmd, Follows, Ends
  <2> QED
    BY <2>0, <2>1, <2>2, <2>3, <2>4
<1>4. r[1].op \in Starts /\ r[n].op \in Ends
  <2>1. r[1] = Cmd("multi", NoKey, NoCol, w, by) /\ r[n] = Cmd("exec", k, NoCol, w, by)
    BY <1>1, <1>2
  <2> QED
    BY <2>1 DEF Cmd, Starts, Ends
<1> QED
  BY <1>1, <1>2, <1>3, <1>4 DEF Whole, Grouped, r

-----------------------------------------------------------------------------
(* The server's position in the queue.                                     *)

(* Commands queued at the end do not change what the server runs next,     *)
(* unless it has run everything: then it is in no transaction, and the new *)
(* commands begin none in the middle.                                      *)
LEMMA PositionConcat ==
  ASSUME NEW q \in Seq(Cmds), NEW r \in Seq(Cmds), NEW p \in 1..(Len(q) + 1), NEW t,
         Position(q, p, t), Whole(r)
  PROVE  Position(q \o r, p, t)
<1> DEFINE s == q \o r
<1>1. /\ s \in Seq(Cmds) /\ Len(s) = Len(q) + Len(r) /\ Len(q) \in Nat /\ Len(r) \in Nat
      /\ \A i \in 1..Len(s) : s[i] = IF i <= Len(q) THEN q[i] ELSE r[i - Len(q)]
  BY ConcatCmds
<1> HIDE DEF s
<1>2. CASE p <= Len(q)
  <2>1. p <= Len(s) /\ s[p] = q[p]
    BY <1>1, <1>2
  <2> QED
    BY <1>2, <2>1 DEF Position, s
<1>3. CASE p = Len(q) + 1 /\ Len(r) > 0
  <2>1. p <= Len(s) /\ s[p] = r[1] /\ ~(p <= Len(q))
    BY <1>1, <1>3
  <2>2. t = NoTxn /\ s[p].op \notin InWrite
    BY <1>3, <2>1 DEF Position, Whole, Starts, InWrite
  <2> QED
    BY <2>1, <2>2 DEF Position, InTxn, s
<1>4. CASE p = Len(q) + 1 /\ Len(r) = 0
  <2>1. ~(p <= Len(s)) /\ ~(p <= Len(q))
    BY <1>1, <1>4
  <2> QED
    BY <2>1 DEF Position, s
<1> QED
  BY <1>1, <1>2, <1>3, <1>4

(* A reply that is delivered pops a command that has been run.             *)
LEMMA PositionTail ==
  ASSUME NEW q \in Seq(Cmds), q # << >>, NEW p \in 2..(Len(q) + 1), NEW t,
         Position(q, p, t)
  PROVE  Position(Tail(q), p - 1, t)
<1> DEFINE s == Tail(q)
<1>1. /\ s \in Seq(Cmds) /\ Len(s) = Len(q) - 1 /\ Len(q) \in Nat
      /\ \A i \in 1..Len(s) : s[i] = q[i + 1]
  BY TailCmds
<1> HIDE DEF s
<1>2. CASE p <= Len(q)
  <2>1. p - 1 \in 1..Len(s) /\ (p - 1) + 1 = p
    BY <1>1, <1>2
  <2>2. s[p - 1] = q[p] /\ p - 1 <= Len(s)
    BY <1>1, <2>1
  <2> QED
    BY <1>2, <2>2 DEF Position, s
<1>3. CASE ~(p <= Len(q))
  <2>1. ~(p - 1 <= Len(s))
    BY <1>1, <1>3
  <2> QED
    BY <1>3, <2>1 DEF Position, s
<1> QED
  BY <1>2, <1>3

(* What comes behind the command at position p.                            *)
LEMMA NextOf ==
  ASSUME NEW q \in Seq(Cmds), Grouped(q), NEW p \in 1..Len(q)
  PROVE  /\ p + 1 <= Len(q) => Follows(q[p], q[p + 1])
         /\ ~(p + 1 <= Len(q)) => q[p].op \in Ends
<1>1. Len(q) \in Nat /\ p \in Nat
  OBVIOUS
<1>2. CASE p + 1 <= Len(q)
  <2>1. p \in 1..(Len(q) - 1)
    BY <1>1, <1>2
  <2> QED
    BY <1>2, <2>1 DEF Grouped
<1>3. CASE ~(p + 1 <= Len(q))
  <2>1. p = Len(q) /\ Len(q) > 0
    BY <1>1, <1>3
  <2> QED
    BY <1>3, <2>1 DEF Grouped
<1> QED
  BY <1>2, <1>3

(* The server runs or refuses a command: MULTI opens a transaction, the    *)
(* commands of the write are kept until its EXEC, and no other command     *)
(* meets an open transaction.                                              *)
LEMMA PositionServe ==
  ASSUME NEW q \in Seq(Cmds), Grouped(q), NEW p \in 1..Len(q), Position(q, p, txn),
         txn \in [open : BOOLEAN, dirty : BOOLEAN, queued : SUBSET Cmds],
         Serve(q[p]) \/ Refuse(q[p])
  PROVE  Position(q, p + 1, txn')
<1> DEFINE c == q[p]
           n == q[p + 1]
<1>0. InTxn(c, txn) /\ c \in Cmds
  BY DEF Position
<1>1. /\ p + 1 <= Len(q) => Follows(c, n)
      /\ ~(p + 1 <= Len(q)) => c.op \in Ends
  BY NextOf
<1>2. c.op \in OpNames
  BY <1>0 DEF Cmds
<1> HIDE DEF c, n
<1>3. ASSUME c.op \in Ends, txn' = NoTxn PROVE Position(q, p + 1, txn')
  <2>1. p + 1 <= Len(q) => n.op \notin InWrite
    BY <1>1, <1>3 DEF Follows, Starts, InWrite
  <2> QED
    BY <1>3, <2>1 DEF Position, InTxn, n
<1>4. CASE c.op = "multi"
  <2>1. ~txn.open /\ txn' = [open |-> TRUE, dirty |-> FALSE, queued |-> {}]
    BY <1>0, <1>4 DEF Serve, ServeMulti, ServeQueued, ServeExec, ServeRead, ServeSrem, ServeDel,
                 ServeFlush, Refuse, NoTxn, c
  <2>2. p + 1 <= Len(q) /\ n.op = "sadd"
    BY <1>1, <1>4 DEF Follows, Ends
  <2>3. InTxn(n, txn')
    BY <2>1, <2>2 DEF InTxn, InWrite
  <2> QED
    BY <2>2, <2>3 DEF Position, n
<1>5. CASE c.op \in {"sadd", "hmset"}
  <2>1. txn.open /\ \/ txn' = [txn EXCEPT !.queued = @ \cup {c}]
                    \/ txn' = [txn EXCEPT !.dirty = TRUE]
    BY <1>0, <1>5 DEF Serve, ServeMulti, ServeQueued, ServeExec, ServeRead, ServeSrem, ServeDel,
                 ServeFlush, Refuse, InTxn, InWrite, c
  <2>2. /\ p + 1 <= Len(q) /\ n.id = c.id /\ n.key = c.key
        /\ n.op \in {"hmset", "exec"} /\ (c.op = "sadd" => n.op = "hmset")
        /\ (c.op = "hmset" => c.col \in Cols) /\ c.key \in Keys
    BY <1>1, <1>5 DEF Follows, Ends
  <2>3. InTxn(n, txn')
    <3>1. CASE txn' = [txn EXCEPT !.queued = @ \cup {c}]
      <4>1. /\ txn'.open = txn.open /\ txn'.dirty = txn.dirty /\ txn'.queued = txn.queued \cup {c}
        BY <3>1
      <4>2. \A s \in txn'.queued : OfWrite(s, n)
        BY <1>0, <1>5, <2>2, <4>1 DEF InTxn, InWrite, OfWrite
      <4>3. ~txn'.dirty => \E s \in txn'.queued : s.op = "sadd"
        BY <1>0, <1>5, <4>1 DEF InTxn, InWrite
      <4>4. n.op = "exec" => \E s \in txn'.queued : s.op = "hmset"
        BY <1>5, <2>2, <4>1
      <4> QED
        BY <2>1, <2>2, <4>1, <4>2, <4>3, <4>4 DEF InTxn, InWrite
    <3>2. CASE txn' = [txn EXCEPT !.dirty = TRUE]
      <4>1. /\ txn'.open = txn.open /\ txn'.dirty /\ txn'.queued = txn.queued
        BY <3>2
      <4>2. \A s \in txn'.queued : OfWrite(s, n)
        BY <1>0, <1>5, <2>2, <4>1 DEF InTxn, InWrite, OfWrite
      <4> QED
        BY <2>1, <2>2, <4>1, <4>2 DEF InTxn, InWrite
    <3> QED
      BY <2>1, <3>1, <3>2
  <2> QED
    BY <2>2, <2>3 DEF Position, n
<1>6. CASE c.op = "exec"
  <2>1. txn' = NoTxn
    BY <1>6 DEF Serve, ServeMulti, ServeQueued, ServeExec, ServeRead, ServeSrem, ServeDel,
                 ServeFlush, Refuse, c
  <2> QED
    BY <1>3, <1>6, <2>1 DEF Ends
<1>7. CASE c.op \in {"srem", "del", "smembers", "hgetall", "flushdb"}
  <2>1. txn = NoTxn
    BY <1>0, <1>7 DEF InTxn, InWrite
  <2>2. txn' = NoTxn
    BY <1>7, <2>1 DEF Serve, ServeMulti, ServeQueued, ServeExec, ServeRead, ServeSrem, ServeDel,
                 ServeFlush, Refuse, NoTxn, serverVars, c
  <2>3. CASE c.op = "srem"
    <3>1. p + 1 <= Len(q) /\ n.op = "del"
      BY <1>1, <2>3 DEF Follows, Ends
    <3> QED
      BY <2>2, <3>1 DEF Position, InTxn, InWrite, n
  <2>4. CASE c.op # "srem"
    BY <1>3, <1>7, <2>2, <2>4 DEF Ends
  <2> QED
    BY <2>3, <2>4
<1> QED
  BY <1>2, <1>4, <1>5, <1>6, <1>7 DEF OpNames

-----------------------------------------------------------------------------
(* What a step may do to the queue and the server.                         *)

(* Every write is one of a whole row (db_write_single_row with all its     *)
(* columns); no connection is lost and no command refused; the server      *)
(* refuses no SREM.                                                        *)
WholeRows ==
  /\ "writeColumn" \notin Ops
  /\ \A shape \in RowShapes : \A c \in Cols : \E i \in 1..Len(shape) : shape[i] = c

Reliable == MaxFaults = 0

SremAccepted == "srem" \notin Refusable \/ Reliable

(* The step is a fault of the environment.                                 *)
Faulty == ~Reliable /\ faults' # 0

(* The EXECs in r are of the write w; a whole row sets every column.       *)
ExecsOf(r, w) ==
  \A i \in 1..Len(r) : r[i].op = "exec" =>
    /\ r[i].id = w
    /\ WholeRows => \A c \in Cols : \E j \in 1..i : r[j].op = "hmset" /\ r[j].id = w /\ r[j].col = c

(* An API call queues r.                                                   *)
Queues(r) ==
  /\ ending = "none" /\ ending' = "none" /\ connState # "closed"
  /\ connState' = "connected" <=> connState = "connected"
  /\ pending' = pending \o r /\ answers' = answers
  /\ calls' = calls + 1 /\ Whole(r) /\ ExecsOf(r, calls + 1)
  /\ UNCHANGED <<ids, rows, txn, applied>>

(* The server runs or refuses the next command.                            *)
Runs ==
  /\ connState = "connected" /\ ending = "none"
  /\ Len(answers) < Len(pending) /\ Len(answers') = Len(answers) + 1
  /\ \/ Serve(pending[Len(answers) + 1])
     \/ /\ pending[Len(answers) + 1].op \in Refusable /\ Faulty
        /\ Refuse(pending[Len(answers) + 1])
  /\ UNCHANGED <<connState, ending, pending, calls>>

(* A reply is delivered, and its callback queues r.                        *)
Pops(r) ==
  /\ connState = "connected" /\ ending = "none"
  /\ answers # << >> /\ answers' = Tail(answers)
  /\ pending # << >> /\ pending' = Tail(pending) \o r
  /\ Whole(r) /\ \A i \in 1..Len(r) : r[i].op # "exec"
  /\ UNCHANGED <<connState, ending, calls, ids, rows, txn, applied>>

(* The connection ends, or the commands that were on it are failed.        *)
Breaks ==
  /\ ending' # "none" /\ (ending' = "drop" => ending = "drop" \/ Faulty)
  /\ pending' = pending \/ (pending # << >> /\ pending' = Tail(pending))
  /\ txn' = NoTxn \/ (ending # "none" /\ txn' = txn)
  /\ calls' \in {calls, calls + 1}
  /\ UNCHANGED <<ids, rows, applied>>

(* The handle changes its state around an unchanged queue.                 *)
Settles ==
  /\ ending' = "none" \/ UNCHANGED <<ending, connState>>
  /\ ending = "none" => ending' = "none"
  /\ connState' # "connected" => connState # "connected" \/ ending # "none"
  /\ ending # "none" /\ ending' = "none" =>
       pending = << >> /\ (ending # "drop" => connState' = "closed")
  /\ connState = "closed" => connState' = "closed"
  /\ Len(answers') = Len(answers)
  /\ UNCHANGED <<pending, calls, ids, rows, txn, applied>>

(* A write queues one EXEC, with its number, behind the columns.           *)
LEMMA ExecsOfWrite ==
  ASSUME NEW k \in Keys, NEW shape \in Seq(Cols) \ {<< >>}, NEW w \in Nat,
         NEW by \in CallNames,
         WholeRows => \A c \in Cols : \E i \in 1..Len(shape) : shape[i] = c
  PROVE  ExecsOf(WriteCmds(k, shape, w, by), w)
<1> DEFINE r == WriteCmds(k, shape, w, by)
           n == Len(shape) + 3
<1>1. /\ r \in Seq(Cmds) /\ Len(r) = n /\ Len(shape) >= 1
      /\ \A i \in 1..n :
           r[i] = IF i = 1 THEN Cmd("multi", NoKey, NoCol, w, by)
                  ELSE IF i = 2 THEN Cmd("sadd", k, NoCol, w, by)
                  ELSE IF i = n THEN Cmd("exec", k, NoCol, w, by)
                  ELSE Cmd("hmset", k, shape[i - 2], w, by)
  BY WriteCmdsFacts
<1>2. n \in Nat /\ n >= 4 /\ n = Len(shape) + 3 /\ Len(shape) \in Nat
  BY <1>1
<1> HIDE DEF r, n
<1>3. \A i \in 1..n : r[i].op = "exec" => i = n
  BY <1>1, <1>2 DEF Cmd
<1>4. r[n].id = w
  BY <1>1, <1>2 DEF Cmd
<1>5. ASSUME WholeRows, NEW c \in Cols
      PROVE  \E j \in 1..n : r[j].op = "hmset" /\ r[j].id = w /\ r[j].col = c
  <2>1. PICK i \in 1..Len(shape) : shape[i] = c
    BY <1>5
  <2>2. i + 2 \in 1..n /\ i + 2 # 1 /\ i + 2 # 2 /\ i + 2 # n /\ (i + 2) - 2 = i
    BY <1>2
  <2>3. r[i + 2] = Cmd("hmset", k, shape[i], w, by)
    BY <1>1, <2>2
  <2> QED
    BY <2>1, <2>2, <2>3 DEF Cmd
<1> QED
  BY <1>1, <1>3, <1>4, <1>5 DEF ExecsOf, r

(* The API calls.                                                          *)
LEMMA ApiCallKind ==
  ASSUME IInv, ApiCall
  PROVE  (\E r \in Seq(Cmds) : Queues(r)) \/ Breaks
<1>0. calls \in Nat /\ calls + 1 \in Nat
  BY DEF IInv, TypeOK
<1>1. ASSUME NEW r \in Seq(Cmds), Whole(r), ExecsOf(r, calls + 1), NEW op, NEW fr, NEW da,
             Call(op), ExecCmds(r), ReturnFrom(fr, da)
      PROVE  Queues(r)
  BY <1>1 DEF Call, MayCall, ExecCmds, ReturnFrom, Queues, serverVars
<1>2. ASSUME NEW r, Plain(r), NEW w PROVE r \in Seq(Cmds) /\ ExecsOf(r, w)
  BY <1>2 DEF Plain, ExecsOf
<1>3. ASSUME NEW k \in Keys, NEW shape \in Seq(Cols) \ {<< >>}, NEW by \in CallNames,
             WholeRows => \A c \in Cols : \E i \in 1..Len(shape) : shape[i] = c,
             SubmitWrite(k, shape, by)
      PROVE  \E r \in Seq(Cmds) : Queues(r)
  <2> DEFINE r == WriteCmds(k, shape, calls + 1, by)
  <2>1. r \in Seq(Cmds) /\ Whole(r) /\ ExecsOf(r, calls + 1)
    BY <1>0, <1>3, WriteCmdsFacts, WholeWrite, ExecsOfWrite
  <2>2. Call(by) /\ ExecCmds(r) /\ ReturnFrom(fullRead, deleteAll)
    BY <1>3 DEF SubmitWrite
  <2> HIDE DEF r
  <2>3. Queues(r)
    BY <1>1, <2>1, <2>2
  <2> QED
    BY <2>1, <2>3
<1>4. CASE WriteSingleRow
  <2>1. PICK k \in Keys, shape \in RowShapes : SubmitWrite(k, shape, "writeRow")
    BY <1>4 DEF WriteSingleRow
  <2>2. shape \in Seq(Cols) \ {<< >>} /\ "writeRow" \in CallNames
    BY ShapesAssumption DEF CallNames
  <2>3. WholeRows => \A c \in Cols : \E i \in 1..Len(shape) : shape[i] = c
    BY DEF WholeRows
  <2> QED
    BY <1>3, <2>1, <2>2, <2>3
<1>5. CASE WriteSingleColumn
  <2>1. PICK k \in Keys, c \in Cols : SubmitWrite(k, <<c>>, "writeColumn")
    BY <1>5 DEF WriteSingleColumn
  <2>2. <<c>> \in Seq(Cols) \ {<< >>} /\ "writeColumn" \in CallNames
    BY DEF CallNames
  <2>3. ~WholeRows
    BY <2>1 DEF WholeRows, SubmitWrite, Call, MayCall
  <2> QED
    BY <1>3, <2>1, <2>2, <2>3
<1>6. CASE DeleteSingleRow
  <2>1. PICK k \in Keys : ExecCmds(DeleteCmds(k, "deleteRow"))
    BY <1>6 DEF DeleteSingleRow
  <2>2. Plain(DeleteCmds(k, "deleteRow")) /\ Whole(DeleteCmds(k, "deleteRow"))
    BY PlainDelete, WholeDelete DEF CallNames
  <2>3. Call("deleteRow") /\ ReturnFrom(fullRead, deleteAll)
    BY <1>6 DEF DeleteSingleRow
  <2> QED
    BY <1>1, <1>2, <2>1, <2>2, <2>3
<1>7. ASSUME NEW op \in {"smembers", "flushdb"}, NEW by \in CallNames, NEW fr, NEW da,
             Call(by), ExecCmds(<<Cmd(op, NoKey, NoCol, 0, by)>>), ReturnFrom(fr, da)
      PROVE  \E r \in Seq(Cmds) : Queues(r)
  <2> DEFINE c == Cmd(op, NoKey, NoCol, 0, by)
  <2>1. c \in Cmds /\ c.op \in Starts /\ c.op \in Ends /\ Plain(<<c>>)
    BY PlainSingle DEF Cmd, Cmds, OpNames, Starts, Ends
  <2> HIDE DEF c
  <2>2. Whole(<<c>>)
    BY <2>1, WholeSingle
  <2>3. Call(by) /\ ExecCmds(<<c>>) /\ ReturnFrom(fr, da)
    BY <1>7 DEF c
  <2>4. <<c>> \in Seq(Cmds) /\ ExecsOf(<<c>>, calls + 1)
    BY <1>2, <2>1
  <2> QED
    BY <1>1, <2>2, <2>3, <2>4
<1>8. CASE DeleteAllRow
  BY <1>7, <1>8 DEF DeleteAllRow, SmembersCmd, CallNames
<1>9. CASE ReadAll
  BY <1>7, <1>9 DEF ReadAll, SmembersCmd, CallNames
<1>10. CASE FlushAll
  BY <1>7, <1>10 DEF FlushAll, CallNames
<1>11. CASE Close
  BY <1>11 DEF Close, ServerForgets, Breaks
<1> QED
  BY <1>4, <1>5, <1>6, <1>8, <1>9, <1>10, <1>11 DEF ApiCall

(* The callbacks of replies.                                               *)
LEMMA CallbackKind ==
  ASSUME IInv, Callback
  PROVE  \E r \in Seq(Cmds) : Pops(r)
<1>0. /\ pending \in Seq(Cmds) /\ wire = pending /\ answers \in Seq(Replies)
      /\ Deliver /\ answers # << >> /\ pending # << >>
  <2>1. Deliver
    BY DEF Callback, ReplySmembers, ReplyHgetall, ReplyDel, ReplyHmset, ReplyExec, ReplyOther,
           ReplyError
  <2> QED
    BY <2>1 DEF IInv, TypeOK, ReplyMatching, Deliver
<1>1. ASSUME NEW r \in Seq(Cmds), Whole(r), \A i \in 1..Len(r) : r[i].op # "exec",
             pending' = Tail(pending) \o r
      PROVE  Pops(r)
  BY <1>0, <1>1 DEF Deliver, Pops, serverVars
<1>2. CASE ReplySmembers
  <2>1. PICK order \in SetToSeqs(Head(answers).listed) :
          LET more == (IF fullRead THEN ReadCmds(order) ELSE << >>)
                        \o (IF deleteAll THEN DelRowCmds(order) ELSE << >>)
          IN  pending' = Tail(pending) \o more
    BY <1>2 DEF ReplySmembers
  <2> DEFINE rd == IF fullRead THEN ReadCmds(order) ELSE << >>
             dl == IF deleteAll THEN DelRowCmds(order) ELSE << >>
  <2>2. order \in Seq(Keys)
    <3>1. Head(answers) \in Replies
      BY <1>0, TailCmds
    <3>2. Head(answers).listed \in SUBSET Keys
      BY <3>1 DEF Replies
    <3> QED
      BY <3>2, OrderIsSeq
  <2>3. Plain(<< >>)
    BY DEF Plain
  <2>4. Plain(rd) /\ Plain(dl) /\ Whole(rd) /\ Whole(dl)
    BY <2>2, <2>3, PlainRead, PlainDelRow, WholeRead, WholeDelRow, WholeEmpty
  <2>5. Plain(rd \o dl)
    BY <2>4, PlainConcat
  <2>6. pending' = Tail(pending) \o (rd \o dl)
    BY <2>1
  <2> HIDE DEF rd, dl
  <2>7. rd \in Seq(Cmds) /\ dl \in Seq(Cmds)
    BY <2>4 DEF Plain
  <2>8. Whole(rd \o dl)
    BY <2>4, <2>7, WholeConcat
  <2>9. rd \o dl \in Seq(Cmds) /\ \A i \in 1..Len(rd \o dl) : (rd \o dl)[i].op # "exec"
    BY <2>5 DEF Plain
  <2> QED
    BY <1>1, <2>6, <2>8, <2>9
<1>3. CASE ~ReplySmembers
  <2>1. Popped
    BY <1>3 DEF Callback, ReplyHgetall, ReplyDel, ReplyHmset, ReplyExec, ReplyOther, ReplyError
  <2>2. pending' = Tail(pending) \o << >>
    BY <1>0, <2>1, PoppedIsTail
  <2>3. << >> \in Seq(Cmds) /\ \A i \in 1..Len(<< >>) : << >>[i].op # "exec"
    OBVIOUS
  <2> QED
    BY <1>1, <2>2, <2>3, WholeEmpty
<1> QED
  BY <1>2, <1>3

(* Every step of the handle, the network and the server.                   *)
LEMMA StepKinds ==
  ASSUME IInv, [Next]_vars
  PROVE  \/ \E r \in Seq(Cmds) : Queues(r)
         \/ Runs
         \/ \E r \in Seq(Cmds) : Pops(r)
         \/ Breaks
         \/ Settles
<1>0. answers \in Seq(Replies) /\ wire \in Seq(Cmds) /\ pending \in Seq(Cmds)
      /\ (connState = "connected" => wire = pending)
      /\ (connState = "connecting" => wire = << >>)
      /\ Len(answers) <= Len(wire)
  BY DEF IInv, TypeOK, ReplyMatching
<1>1. CASE ApiCall
  BY <1>1, ApiCallKind
<1>2. CASE ConnectOk
  <2>1. Len(answers) = 0 /\ answers' = << >>
    BY <1>0, <1>2 DEF ConnectOk
  <2>2. Len(answers') = Len(answers)
    BY <2>1
  <2> QED
    BY <1>2, <2>2 DEF ConnectOk, Settles, callVars, serverVars
<1>3. CASE ConnectFail
  BY <1>3 DEF ConnectFail, Settles, callVars, clientVars, serverVars
<1>4. CASE ConnectionLost
  <2>1. Fault => Faulty
    BY BoundsAssumption DEF Fault, Faulty, Reliable, IInv, TypeOK
  <2> QED
    BY <1>4, <2>1 DEF ConnectionLost, Breaks, ServerForgets, callVars
<1>5. CASE ServerRuns \/ ServerRefusal
  <2>1. /\ connState = "connected" /\ ending = "none" /\ Len(answers) < Len(pending)
        /\ NextServed = pending[Len(answers) + 1]
        /\ ServerRefusal => Faulty
    <3>1. Fault => Faulty
      BY BoundsAssumption DEF Fault, Faulty, Reliable, IInv, TypeOK
    <3> QED
      BY <1>0, <1>5, <3>1 DEF ServerRuns, ServerRefusal, ServerCanRun, NextServed
  <2>2. Len(answers') = Len(answers) + 1
    <3>1. \A a : Len(Append(answers, a)) = Len(answers) + 1
      BY <1>0
    <3> QED
      BY <1>5, <3>1 DEF ServerRuns, ServerRefusal
  <2> QED
    BY <1>5, <2>1, <2>2 DEF ServerRuns, ServerRefusal, Runs, callVars
<1>6. CASE Callback
  BY <1>6, CallbackKind
<1>7. CASE NullReply \/ EmptyCmdQueue
  BY <1>7 DEF NullReply, EmptyCmdQueue, Popped, Breaks, serverVars
<1>8. CASE Ended
  BY <1>8 DEF Ended, Settles, callVars, serverVars, IInv, ReplyMatching
<1>9. CASE Idle \/ UNCHANGED vars
  BY <1>9 DEF Idle, Settles, vars, clientVars, callVars, serverVars
<1> QED
  BY <1>1, <1>2, <1>3, <1>4, <1>5, <1>6, <1>7, <1>8, <1>9 DEF Next, TearDown

-----------------------------------------------------------------------------
(* Transactions are separate.                                              *)

(* Nothing is queued and no MULTI is open when the handle is created.      *)
LEMMA InitTxn == Init => TxnInv
  BY DEF Init, ServerInit, TxnInv, Grouped, Position

(* The position of the server, as numbers.                                 *)
LEMMA PositionType ==
  ASSUME IInv
  PROVE  /\ pending \in Seq(Cmds) /\ answers \in Seq(Replies)
         /\ Len(answers) \in Nat /\ Len(pending) \in Nat
         /\ connState = "connected" => Len(answers) <= Len(pending)
         /\ ending = "none" => Len(answers) <= Len(pending)
<1>1. /\ pending \in Seq(Cmds) /\ answers \in Seq(Replies) /\ wire \in Seq(Cmds)
      /\ Len(answers) <= Len(wire)
      /\ (connState = "connected" => wire = pending)
      /\ (connState # "connected" => wire = << >> \/ ending # "none")
  BY DEF IInv, TypeOK, ReplyMatching
<1>2. Len(answers) \in Nat /\ Len(pending) \in Nat /\ Len(<< >>) = 0
  BY <1>1
<1> QED
  BY <1>1, <1>2

(* Every step keeps the server's MULTI state at its place in the queue.    *)
LEMMA NextTxn == IInv /\ TxnInv /\ [Next]_vars => TxnInv'
<1> SUFFICES ASSUME IInv, TxnInv, [Next]_vars PROVE TxnInv'
  OBVIOUS
<1> DEFINE p == Len(answers) + 1
<1>0. /\ pending \in Seq(Cmds) /\ answers \in Seq(Replies)
      /\ Len(answers) \in Nat /\ Len(pending) \in Nat
      /\ connState = "connected" => Len(answers) <= Len(pending)
      /\ ending = "none" => Len(answers) <= Len(pending)
      /\ txn \in [open : BOOLEAN, dirty : BOOLEAN, queued : SUBSET Cmds]
  BY PositionType DEF IInv, TypeOK
<1>1. /\ Grouped(pending)
      /\ ending = "none" => Position(pending, p, txn) /\ p \in 1..(Len(pending) + 1)
      /\ connState # "connected" \/ ending # "none" => txn = NoTxn
  BY <1>0 DEF TxnInv
<1>2. ASSUME NEW r \in Seq(Cmds), Queues(r) PROVE TxnInv'
  <2>1. Grouped(pending') /\ Position(pending', p, txn)
    BY <1>0, <1>1, <1>2, GroupedConcat, PositionConcat DEF Queues
  <2> QED
    BY <1>1, <1>2, <2>1 DEF Queues, TxnInv
<1>3. CASE Runs
  <2>1. p \in 1..Len(pending)
    BY <1>0, <1>3 DEF Runs
  <2>2. Position(pending, p + 1, txn')
    BY <1>0, <1>1, <1>3, <2>1, PositionServe DEF Runs
  <2> QED
    BY <1>1, <1>3, <2>2 DEF Runs, TxnInv
<1>4. ASSUME NEW r \in Seq(Cmds), Pops(r) PROVE TxnInv'
  <2>1. /\ Tail(pending) \in Seq(Cmds) /\ Len(Tail(pending)) = Len(pending) - 1
        /\ Len(Tail(answers)) = Len(answers) - 1 /\ Len(answers) >= 1
    BY <1>0, <1>4, TailCmds DEF Pops
  <2>2. p \in 2..(Len(pending) + 1) /\ Len(answers') + 1 = p - 1
        /\ p - 1 \in 1..(Len(Tail(pending)) + 1)
    BY <1>0, <1>4, <2>1 DEF Pops
  <2>3. Grouped(Tail(pending)) /\ Position(Tail(pending), p - 1, txn)
    BY <1>0, <1>1, <1>4, <2>2, GroupedTail, PositionTail DEF Pops
  <2>4. Grouped(Tail(pending) \o r) /\ Position(Tail(pending) \o r, p - 1, txn)
    BY <1>4, <2>1, <2>2, <2>3, GroupedConcat, PositionConcat DEF Pops
  <2> QED
    BY <1>1, <1>4, <2>2, <2>4 DEF Pops, TxnInv
<1>5. CASE Breaks
  <2>1. Grouped(pending')
    BY <1>0, <1>1, <1>5, GroupedTail DEF Breaks
  <2> QED
    BY <1>1, <1>5, <2>1 DEF Breaks, TxnInv
<1>6. CASE Settles
  <2>1. ending = "none" \/ ending' # "none" \/ (pending = << >> /\ txn = NoTxn)
    BY <1>1, <1>6 DEF Settles
  <2>2. ending' = "none" => Position(pending, Len(answers') + 1, txn)
    <3>1. CASE ending = "none"
      BY <1>1, <1>6, <3>1 DEF Settles
    <3>2. CASE pending = << >> /\ txn = NoTxn
      <4>1. ~(Len(answers) + 1 <= Len(pending))
        BY <1>0, <3>2
      <4> QED
        BY <1>6, <3>2, <4>1 DEF Settles, Position
    <3> QED
      BY <2>1, <3>1, <3>2
  <2> QED
    BY <1>1, <1>6, <2>2 DEF Settles, TxnInv
<1> QED
  BY <1>2, <1>3, <1>4, <1>5, <1>6, StepKinds

(* The queue is always made of whole groups but for its first, and the     *)
(* MULTI state of the server is that of its place in the queue.            *)
THEOREM TransactionInvariant == Spec => []TxnInv
<1>1. IInv /\ TxnInv /\ [Next]_vars => TxnInv'
  BY NextTxn
<1> QED
  BY <1>1, InitTxn, InductiveInvariant, PTL DEF Spec

(* The MULTI of a write closes over its own commands only, so the server   *)
(* always finds the MULTI state that the commands of db_api.c expect: over *)
(* any number of writes, lost connections, resends and refused commands.   *)
THEOREM TransactionsAreSeparate == Spec => []TransactionsSeparate
<1>1. IInv /\ TxnInv => TransactionsSeparate
  <2> SUFFICES ASSUME IInv, TxnInv, ServerCanRun
               PROVE  txn.open <=> NextServed.op \in {"sadd", "hmset", "exec"}
    BY DEF TransactionsSeparate
  <2>1. /\ wire = pending /\ ending = "none" /\ Len(answers) \in Nat
        /\ Len(answers) + 1 <= Len(pending)
    BY PositionType DEF IInv, ReplyMatching, ServerCanRun
  <2>2. InTxn(NextServed, txn)
    BY <2>1 DEF TxnInv, Position, NextServed
  <2> QED
    BY <2>2 DEF InTxn, InWrite, NoTxn
<1> QED
  BY <1>1, InductiveInvariant, TransactionInvariant, PTL

-----------------------------------------------------------------------------
(* The table.                                                              *)

(* What an EXEC that is not refused does: the row of its write is in the   *)
(* index and has the columns of the queued HMSETs.                         *)
LEMMA ExecEffect ==
  ASSUME TypeOK, NEW c \in Cmds, c.op = "exec", c.id \in Nat \ {0}, InTxn(c, txn), ~txn.dirty,
         ServeExec(c)
  PROVE  /\ c.key \in Keys /\ ids' = ids \cup {c.key} /\ applied' = applied \cup {c.id}
         /\ \A k \in Keys \ {c.key} : rows'[k] = rows[k]
         /\ \A d \in Cols : rows'[c.key][d] =
              IF \E h \in txn.queued : h.op = "hmset" /\ h.col = d THEN c.id ELSE rows[c.key][d]
         /\ \E d \in Cols : \E h \in txn.queued : h.op = "hmset" /\ h.col = d
         /\ rows' \in [Keys -> [Cols -> Nat]]
<1>1. /\ ids' = ids \cup AddedBy(txn.queued) /\ rows' = RowsAfter(txn.queued)
      /\ applied' = applied \cup {c.id}
  BY DEF ServeExec
<1>2. /\ txn.queued \in SUBSET Cmds /\ (\A s \in txn.queued : OfWrite(s, c))
      /\ (\E s \in txn.queued : s.op = "sadd") /\ (\E s \in txn.queued : s.op = "hmset")
      /\ rows \in [Keys -> [Cols -> Nat]]
  BY DEF TypeOK, InTxn, InWrite
<1>3. \A s \in txn.queued : s.op = "hmset" => s.id = c.id
  BY <1>2 DEF OfWrite
<1>4. c.key \in Keys
  BY <1>2 DEF OfWrite
<1>5. AddedBy(txn.queued) = {c.key}
  BY <1>2, <1>4 DEF AddedBy, OfWrite
<1>6. \A k \in Keys, d \in Cols : rows'[k][d] =
        IF \E h \in txn.queued : h.op = "hmset" /\ h.key = k /\ h.col = d THEN c.id ELSE rows[k][d]
  <2> SUFFICES ASSUME NEW k \in Keys, NEW d \in Cols
               PROVE  RowsAfter(txn.queued)[k][d] =
                        IF \E h \in txn.queued : h.op = "hmset" /\ h.key = k /\ h.col = d
                          THEN c.id ELSE rows[k][d]
    BY <1>1
  <2> DEFINE sets == {h \in txn.queued : h.op = "hmset" /\ h.key = k /\ h.col = d}
  <2>1. RowsAfter(txn.queued)[k][d] = IF sets = {} THEN rows[k][d] ELSE (CHOOSE h \in sets : TRUE).id
    BY DEF RowsAfter
  <2>2. CASE sets = {}
    BY <2>1, <2>2
  <2>3. CASE sets # {}
    <3>1. (CHOOSE h \in sets : TRUE) \in sets
      BY <2>3
    <3>2. (CHOOSE h \in sets : TRUE).id = c.id
      BY <1>3, <3>1
    <3> QED
      BY <2>1, <2>3, <3>1, <3>2
  <2> QED
    BY <2>2, <2>3
<1>7. rows' \in [Keys -> [Cols -> Nat]]
  BY <1>1, <1>2, RowsAfterType
<1>8. ASSUME NEW k \in Keys \ {c.key} PROVE rows'[k] = rows[k]
  <2>1. \A d \in Cols : rows'[k][d] = rows[k][d]
    BY <1>2, <1>6, <1>8 DEF OfWrite
  <2>2. rows'[k] \in [Cols -> Nat] /\ rows[k] \in [Cols -> Nat]
    BY <1>2, <1>7, <1>8
  <2> QED
    BY <2>1, <2>2
<1>9. ASSUME NEW d \in Cols
      PROVE  rows'[c.key][d] =
              IF \E h \in txn.queued : h.op = "hmset" /\ h.col = d THEN c.id ELSE rows[c.key][d]
  <2>1. (\E h \in txn.queued : h.op = "hmset" /\ h.key = c.key /\ h.col = d)
          <=> \E h \in txn.queued : h.op = "hmset" /\ h.col = d
    BY <1>2 DEF OfWrite
  <2> QED
    BY <1>4, <1>6, <2>1
<1>10. \E d \in Cols : \E h \in txn.queued : h.op = "hmset" /\ h.col = d
  BY <1>2 DEF OfWrite
<1> QED
  BY <1>1, <1>4, <1>5, <1>7, <1>8, <1>9, <1>10

(* A command that the server runs keeps every indexed row: DEL removes     *)
(* columns only of a row that SREM has taken from the index, and EXEC      *)
(* never indexes a row without writing a column.                           *)
LEMMA IndexServe ==
  ASSUME TypeOK, SremAccepted, NEW q \in Seq(Cmds), Grouped(q), NEW p \in 1..Len(q),
         Position(q, p, txn), IndexedRowsExist, DelAt(q, p),
         q[p].op = "exec" => q[p].id \in Nat \ {0},
         Serve(q[p]) \/ (q[p].op \in Refusable /\ ~Reliable /\ Refuse(q[p]))
  PROVE  IndexedRowsExist' /\ (p + 1 <= Len(q) /\ q[p + 1].op = "del" => q[p + 1].key \notin ids')
<1> DEFINE c == q[p]
           n == q[p + 1]
<1>1. c \in Cmds /\ c.op \in OpNames /\ InTxn(c, txn) /\ (c.op = "del" => c.key \notin ids)
  <2>1. p <= Len(q) /\ c \in Cmds
    OBVIOUS
  <2>2. c.op \in OpNames
    BY <2>1 DEF Cmds
  <2>3. InTxn(c, txn)
    BY <2>1 DEF Position
  <2> QED
    BY <2>1, <2>2, <2>3 DEF DelAt
<1>2. p + 1 <= Len(q) => Follows(c, n)
  BY NextOf
<1>3. (p + 1 <= Len(q) /\ n.op = "del") => c.op = "srem" /\ n.key = c.key
  BY <1>1, <1>2 DEF Follows, Starts, Ends, OpNames
<1>4. /\ c.op = "exec" => c.id \in Nat \ {0}
      /\ Serve(c) \/ (c.op \in Refusable /\ ~Reliable /\ Refuse(c))
  OBVIOUS
<1> HIDE DEF c, n
<1>5. ASSUME UNCHANGED <<ids, rows>> PROVE IndexedRowsExist'
  BY <1>5 DEF IndexedRowsExist
<1>6. CASE c.op = "exec"
  <2>1. c.op # "srem"
    BY <1>6
  <2>2. CASE UNCHANGED <<ids, rows>>
    BY <1>3, <1>5, <2>1, <2>2 DEF n
  <2>3. CASE ServeExec(c) /\ ~txn.dirty
    <3>1. /\ c.key \in Keys /\ ids' = ids \cup {c.key}
          /\ (\A k \in Keys \ {c.key} : rows'[k] = rows[k])
          /\ (\A d \in Cols : rows'[c.key][d] =
                IF \E h \in txn.queued : h.op = "hmset" /\ h.col = d THEN c.id ELSE rows[c.key][d])
          /\ (\E d \in Cols : \E h \in txn.queued : h.op = "hmset" /\ h.col = d)
      BY <1>1, <1>4, <1>6, <2>3, ExecEffect
    <3>2. PICK d \in Cols : \E h \in txn.queued : h.op = "hmset" /\ h.col = d
      BY <3>1
    <3>3. rows'[c.key][d] # 0
      BY <1>4, <1>6, <3>1, <3>2
    <3>4. rows'[c.key] # EmptyRow
      BY <3>3 DEF EmptyRow
    <3>5. ids \subseteq Keys
      BY DEF TypeOK
    <3>6. IndexedRowsExist'
      BY <3>1, <3>4, <3>5 DEF IndexedRowsExist
    <3> QED
      BY <1>3, <2>1, <3>6 DEF n
  <2> QED
    BY <1>4, <1>6, <2>2, <2>3
       DEF Serve, ServeMulti, ServeQueued, ServeExec, ServeRead, ServeSrem, ServeDel, ServeFlush, Refuse
<1>7. CASE c.op \in {"multi", "sadd", "hmset", "smembers", "hgetall"}
  <2>1. UNCHANGED <<ids, rows>>
    BY <1>4, <1>7 DEF Serve, ServeMulti, ServeQueued, ServeExec, ServeRead, ServeSrem, ServeDel,
                      ServeFlush, Refuse, serverVars
  <2> QED
    BY <1>3, <1>5, <1>7, <2>1 DEF n
<1>8. CASE c.op = "srem"
  <2>1. ids' = ids \ {c.key} /\ rows' = rows
    BY <1>4, <1>8 DEF Serve, ServeMulti, ServeQueued, ServeExec, ServeRead, ServeSrem, ServeDel,
                      ServeFlush, SremAccepted
  <2> QED
    BY <1>3, <2>1 DEF IndexedRowsExist, n
<1>9. CASE c.op = "del"
  <2>1. c.op # "srem" /\ ids' = ids
    BY <1>4, <1>9 DEF Serve, ServeMulti, ServeQueued, ServeExec, ServeRead, ServeSrem, ServeDel,
                      ServeFlush, Refuse
  <2>2. \A k \in ids : rows'[k] = rows[k]
    BY <1>1, <1>4, <1>9 DEF Serve, ServeMulti, ServeQueued, ServeExec, ServeRead, ServeSrem,
                      ServeDel, ServeFlush, Refuse, TypeOK
  <2> QED
    BY <1>3, <2>1, <2>2 DEF IndexedRowsExist, n
<1>10. CASE c.op = "flushdb"
  <2>1. c.op # "srem" /\ (ids' = {} \/ UNCHANGED <<ids, rows>>)
    BY <1>4, <1>10 DEF Serve, ServeMulti, ServeQueued, ServeExec, ServeRead, ServeSrem, ServeDel,
                      ServeFlush, Refuse
  <2> QED
    BY <1>3, <1>5, <2>1 DEF IndexedRowsExist, n
<1> QED
  BY <1>1, <1>6, <1>7, <1>8, <1>9, <1>10 DEF OpNames

(* The table is empty when the handle is created.                          *)
LEMMA InitIndex == Init => IndexInv
  BY DEF Init, ServerInit, IndexInv, IndexedRowsExist, DelAt

(* The EXEC the server runs next is that of a write.                       *)
LEMMA ExecNumber ==
  ASSUME IInv, NEW i \in 1..Len(pending), pending[i].op = "exec"
  PROVE  pending[i].id \in 1..calls /\ pending[i].id \in 1..MaxCalls
<1>1. pending[i].id \in 1..calls
  BY DEF IInv, PendingInv, QueueInv, ExecsGuarded
<1> QED
  BY <1>1, BoundsAssumption DEF IInv, TypeOK

(* Every step keeps the columns of the rows in the index.                  *)
LEMMA NextIndex ==
  ASSUME SremAccepted, IInv, TxnInv, IndexInv, [Next]_vars
  PROVE  IndexInv'
<1> DEFINE p == Len(answers) + 1
<1>0. /\ pending \in Seq(Cmds) /\ answers \in Seq(Replies)
      /\ Len(answers) \in Nat /\ Len(pending) \in Nat
      /\ ending = "none" => Len(answers) <= Len(pending)
  BY PositionType
<1>1. IndexedRowsExist /\ (ending = "none" => DelAt(pending, p))
  BY DEF IndexInv
<1>2. ASSUME NEW q \in Seq(Cmds), NEW r \in Seq(Cmds), NEW m \in 1..(Len(q) + 1), DelAt(q, m), Whole(r)
      PROVE  DelAt(q \o r, m)
  <2>1. /\ Len(q \o r) = Len(q) + Len(r) /\ Len(q) \in Nat /\ Len(r) \in Nat
        /\ \A i \in 1..Len(q \o r) : (q \o r)[i] = IF i <= Len(q) THEN q[i] ELSE r[i - Len(q)]
    BY ConcatCmds
  <2>2. CASE m <= Len(q)
    BY <1>2, <2>1, <2>2 DEF DelAt
  <2>3. CASE m = Len(q) + 1
    <3>1. m <= Len(q \o r) => (q \o r)[m] = r[1] /\ Len(r) > 0
      BY <2>1, <2>3
    <3> QED
      BY <1>2, <3>1 DEF DelAt, Whole, Starts
  <2> QED
    BY <2>1, <2>2, <2>3
<1>3. ASSUME NEW r \in Seq(Cmds), Queues(r) PROVE IndexInv'
  <2>1. p \in 1..(Len(pending) + 1)
    BY <1>0, <1>3 DEF Queues
  <2>2. DelAt(pending \o r, p)
    BY <1>0, <1>1, <1>2, <1>3, <2>1 DEF Queues
  <2> QED
    BY <1>1, <1>3, <2>2 DEF Queues, IndexInv, IndexedRowsExist, DelAt
<1>4. CASE Runs
  <2>1. p \in 1..Len(pending) /\ ending = "none" /\ Len(answers') + 1 = p + 1
    BY <1>0, <1>4 DEF Runs
  <2>2. pending[p].op = "exec" => pending[p].id \in Nat \ {0}
    BY <2>1, ExecNumber
  <2>3. Serve(pending[p]) \/ (pending[p].op \in Refusable /\ ~Reliable /\ Refuse(pending[p]))
    BY <1>4 DEF Runs, Faulty
  <2>4. TypeOK /\ Grouped(pending) /\ Position(pending, p, txn)
    BY <2>1 DEF IInv, TxnInv
  <2> HIDE DEF p
  <2>5. IndexedRowsExist' /\ (p + 1 <= Len(pending) /\ pending[p + 1].op = "del"
                                => pending[p + 1].key \notin ids')
    BY <1>0, <1>1, <2>1, <2>2, <2>3, <2>4, IndexServe
  <2> QED
    BY <1>4, <2>1, <2>5 DEF Runs, IndexInv, DelAt
<1>5. ASSUME NEW r \in Seq(Cmds), Pops(r) PROVE IndexInv'
  <2>1. /\ Tail(pending) \in Seq(Cmds) /\ Len(Tail(pending)) = Len(pending) - 1
        /\ (\A i \in 1..Len(Tail(pending)) : Tail(pending)[i] = pending[i + 1])
        /\ Len(Tail(answers)) = Len(answers) - 1 /\ Len(answers) >= 1
    BY <1>0, <1>5, TailCmds DEF Pops
  <2>2. Len(answers') + 1 = p - 1 /\ p - 1 \in 1..(Len(Tail(pending)) + 1)
    BY <1>0, <1>5, <2>1 DEF Pops
  <2>3. DelAt(Tail(pending), p - 1)
    <3>1. p - 1 <= Len(Tail(pending)) => p <= Len(pending) /\ Tail(pending)[p - 1] = pending[p]
      <4>1. p - 1 <= Len(Tail(pending)) => p - 1 \in 1..Len(Tail(pending)) /\ (p - 1) + 1 = p
        BY <1>0, <2>1, <2>2
      <4> QED
        BY <1>0, <2>1, <4>1
    <3> QED
      BY <1>1, <1>5, <3>1 DEF DelAt, Pops
  <2>4. DelAt(Tail(pending) \o r, p - 1)
    BY <1>2, <1>5, <2>1, <2>2, <2>3 DEF Pops
  <2> QED
    BY <1>1, <1>5, <2>2, <2>4 DEF Pops, IndexInv, IndexedRowsExist, DelAt
<1>6. CASE Breaks
  BY <1>1, <1>6 DEF Breaks, IndexInv, IndexedRowsExist
<1>7. CASE Settles
  <2>1. ending # "none" /\ ending' = "none" => ~(Len(answers) + 1 <= Len(pending))
    <3>1. pending = << >> => ~(Len(answers) + 1 <= Len(pending))
      BY <1>0
    <3> QED
      BY <1>7, <3>1 DEF Settles
  <2> QED
    BY <1>1, <1>7, <2>1 DEF Settles, IndexInv, IndexedRowsExist, DelAt
<1> QED
  BY <1>3, <1>4, <1>5, <1>6, <1>7, StepKinds

(* What makes IndexedRowsExist inductive: when a DEL is the next command,  *)
(* its row has left the index already.                                     *)
THEOREM IndexInvariant == SremAccepted => (Spec => []IndexInv)
<1> SUFFICES ASSUME SremAccepted PROVE Spec => []IndexInv
  OBVIOUS
<1>1. IInv /\ TxnInv /\ IndexInv /\ [Next]_vars => IndexInv'
  BY NextIndex
<1> QED
  BY <1>1, InitIndex, InductiveInvariant, TransactionInvariant, PTL DEF Spec

(* The index names no row that is gone, whenever a connection is lost:     *)
(* deletions take the row from the index first (DeleteCmds, DelRowCmds).   *)
(* The server must accept the SREMs, since a refused one does not stop the *)
(* DEL behind it.                                                          *)
THEOREM IndexedRowsAreThere == SremAccepted => (Spec => []IndexedRowsExist)
<1> SUFFICES ASSUME SremAccepted PROVE Spec => []IndexedRowsExist
  OBVIOUS
<1>1. IndexInv => IndexedRowsExist
  BY DEF IndexInv
<1> QED
  BY <1>1, IndexInvariant, PTL

-----------------------------------------------------------------------------
(* What the server has still to apply.                                     *)

(* Position by position: a queue with r behind it, and one without its     *)
(* head.                                                                   *)
LEMMA ConcatAt ==
  ASSUME NEW q \in Seq(Cmds), NEW r \in Seq(Cmds)
  PROVE  /\ Len(q) \in Nat /\ Len(r) \in Nat /\ Len(q \o r) = Len(q) + Len(r)
         /\ \A i \in 1..Len(q) : i \in 1..Len(q \o r) /\ (q \o r)[i] = q[i]
         /\ \A i \in 1..Len(r) : Len(q) + i \in 1..Len(q \o r) /\ (q \o r)[Len(q) + i] = r[i]
         /\ \A i \in 1..Len(q \o r) : i \in 1..Len(q) \/ i - Len(q) \in 1..Len(r)
  BY ConcatCmds

(* The elements of a queue without its head.                               *)
LEMMA TailAt ==
  ASSUME NEW q \in Seq(Cmds), q # << >>
  PROVE  /\ Tail(q) \in Seq(Cmds) /\ Len(q) \in Nat /\ Len(q) >= 1 /\ Len(Tail(q)) = Len(q) - 1
         /\ \A i \in 1..Len(Tail(q)) : i + 1 \in 1..Len(q) /\ Tail(q)[i] = q[i + 1]
  BY TailCmds

(* A new EXEC carries a new number.                                        *)
LEMMA NotYetConcat ==
  ASSUME NEW q \in Seq(Cmds), NEW r \in Seq(Cmds), NEW p \in 1..(Len(q) + 1), NEW w,
         NotYetApplied(q, p), w \notin applied,
         \A i \in 1..Len(r) : r[i].op = "exec" => r[i].id = w
  PROVE  NotYetApplied(q \o r, p)
<1> SUFFICES ASSUME NEW i \in 1..Len(q \o r), i >= p, (q \o r)[i].op = "exec"
             PROVE  (q \o r)[i].id \notin applied
  BY DEF NotYetApplied
<1>1. CASE i \in 1..Len(q)
  BY <1>1, ConcatAt DEF NotYetApplied
<1>2. CASE i - Len(q) \in 1..Len(r)
  <2>1. Len(q) + (i - Len(q)) = i
    BY <1>2, ConcatAt
  <2>2. (q \o r)[i] = r[i - Len(q)]
    BY <1>2, <2>1, ConcatAt
  <2> QED
    BY <1>2, <2>2
<1> QED
  BY <1>1, <1>2, ConcatAt

(* What the server has run may be popped.                                  *)
LEMMA NotYetTail ==
  ASSUME NEW q \in Seq(Cmds), q # << >>, NEW p \in 2..(Len(q) + 1), NotYetApplied(q, p)
  PROVE  NotYetApplied(Tail(q), p - 1)
<1> SUFFICES ASSUME NEW i \in 1..Len(Tail(q)), i >= p - 1, Tail(q)[i].op = "exec"
             PROVE  Tail(q)[i].id \notin applied
  BY DEF NotYetApplied
<1>1. i + 1 \in 1..Len(q) /\ Tail(q)[i] = q[i + 1]
  BY TailAt
<1>2. i + 1 >= p
  BY TailAt
<1> QED
  BY <1>1, <1>2 DEF NotYetApplied

(* Only EXEC applies a write, and no other EXEC has its number.            *)
LEMMA NotYetServe ==
  ASSUME NEW q \in Seq(Cmds), NEW p \in 1..Len(q), NotYetApplied(q, p), ExecsDistinct(q),
         Serve(q[p]) \/ Refuse(q[p])
  PROVE  /\ NotYetApplied(q, p + 1)'
         /\ applied' = applied \/ (q[p].op = "exec" /\ applied' = applied \cup {q[p].id})
<1>1. applied' = applied \/ (q[p].op = "exec" /\ applied' = applied \cup {q[p].id})
  BY DEF Serve, ServeMulti, ServeQueued, ServeExec, ServeRead, ServeSrem, ServeDel, ServeFlush,
         Refuse, serverVars
<1>2. NotYetApplied(q, p + 1)'
  <2> SUFFICES ASSUME NEW i \in 1..Len(q), i >= p + 1, q[i].op = "exec"
               PROVE  q[i].id \notin applied'
    BY DEF NotYetApplied
  <2>1. i >= p /\ i # p
    OBVIOUS
  <2>2. q[i].id \notin applied
    BY <2>1 DEF NotYetApplied
  <2>3. q[p].op = "exec" => q[i].id # q[p].id
    BY <2>1 DEF ExecsDistinct
  <2> QED
    BY <1>1, <2>2, <2>3
<1> QED
  BY <1>1, <1>2

(* A new EXEC comes with its columns.                                      *)
LEMMA CoveredConcat ==
  ASSUME NEW q \in Seq(Cmds), NEW r \in Seq(Cmds), NEW p \in 1..(Len(q) + 1), NEW t, NEW w,
         Covered(q, p, t), WholeRows, ExecsOf(r, w)
  PROVE  Covered(q \o r, p, t)
<1> SUFFICES ASSUME NEW i \in 1..Len(q \o r), i >= p, (q \o r)[i].op = "exec", NEW c \in Cols
             PROVE  ColumnSet(q \o r, p, t, i, c)
  BY DEF Covered
<1>0. Len(q) \in Nat /\ Len(r) \in Nat
  BY ConcatAt
<1>1. CASE i \in 1..Len(q)
  <2>1. (q \o r)[i] = q[i]
    BY <1>1, ConcatAt
  <2>2. ColumnSet(q, p, t, i, c)
    BY <1>1, <2>1 DEF Covered
  <2>3. \A j \in p..i : (q \o r)[j] = q[j]
    <3>1. \A j \in p..i : j \in 1..Len(q)
      BY <1>0, <1>1
    <3> QED
      BY <3>1, ConcatAt
  <2>4. p \in p..i
    BY <1>0, <1>1
  <2>5. (q \o r)[p] = q[p]
    BY <2>3, <2>4
  <2> QED
    BY <2>1, <2>2, <2>3, <2>5 DEF ColumnSet
<1>2. CASE i - Len(q) \in 1..Len(r)
  <2>1. (q \o r)[i] = r[i - Len(q)]
    <3>1. Len(q) + (i - Len(q)) = i
      BY <1>0
    <3> QED
      BY <1>2, <3>1, ConcatAt
  <2>2. PICK j \in 1..(i - Len(q)) : r[j].op = "hmset" /\ r[j].id = w /\ r[j].col = c
    BY <1>2, <2>1 DEF ExecsOf
  <2>3. r[i - Len(q)].id = w
    BY <1>2, <2>1 DEF ExecsOf
  <2>4. j \in 1..Len(r) /\ Len(q) + j \in p..i
    BY <1>0, <1>2
  <2>5. (q \o r)[Len(q) + j] = r[j]
    BY <2>4, ConcatAt
  <2> QED
    BY <2>1, <2>2, <2>3, <2>4, <2>5 DEF ColumnSet
<1> QED
  BY <1>1, <1>2, ConcatAt

(* What the server has run, and keeps in its transaction, may be popped.   *)
LEMMA CoveredTail ==
  ASSUME NEW q \in Seq(Cmds), q # << >>, NEW p \in 2..(Len(q) + 1), NEW t, Covered(q, p, t)
  PROVE  Covered(Tail(q), p - 1, t)
<1> SUFFICES ASSUME NEW i \in 1..Len(Tail(q)), i >= p - 1, Tail(q)[i].op = "exec", NEW c \in Cols
             PROVE  ColumnSet(Tail(q), p - 1, t, i, c)
  BY DEF Covered
<1>0. /\ Len(q) \in Nat /\ Len(Tail(q)) = Len(q) - 1
      /\ i + 1 \in 1..Len(q) /\ i + 1 >= p /\ Tail(q)[i] = q[i + 1]
  BY TailAt
<1>1. ColumnSet(q, p, t, i + 1, c)
  BY <1>0 DEF Covered
<1>2. \A j \in p..(i + 1) : j - 1 \in (p - 1)..i /\ Tail(q)[j - 1] = q[j]
  <2> SUFFICES ASSUME NEW j \in p..(i + 1)
               PROVE  j - 1 \in (p - 1)..i /\ Tail(q)[j - 1] = q[j]
    OBVIOUS
  <2>1. j - 1 \in (p - 1)..i /\ j - 1 \in 1..Len(Tail(q)) /\ (j - 1) + 1 = j
    BY <1>0
  <2> QED
    BY <2>1, TailAt
<1>3. p \in p..(i + 1)
  BY <1>0
<1> QED
  BY <1>0, <1>1, <1>2, <1>3 DEF ColumnSet

(* A column leaves the wire only into the transaction, or with a refusal   *)
(* that dooms it.                                                          *)
LEMMA CoveredServe ==
  ASSUME NEW q \in Seq(Cmds), Grouped(q), NEW p \in 1..Len(q), Position(q, p, txn),
         txn \in [open : BOOLEAN, dirty : BOOLEAN, queued : SUBSET Cmds],
         ExecsDistinct(q), Covered(q, p, txn),
         Serve(q[p]) \/ Refuse(q[p])
  PROVE  Covered(q, p + 1, txn')
<1> SUFFICES ASSUME NEW i \in 1..Len(q), i >= p + 1, q[i].op = "exec", NEW d \in Cols
             PROVE  ColumnSet(q, p + 1, txn', i, d)
  BY DEF Covered
<1> DEFINE c == q[p]
           n == q[p + 1]
<1>0. i >= p /\ i # p /\ p + 1 <= Len(q) /\ p <= Len(q)
  OBVIOUS
<1>1. Follows(c, n) /\ InTxn(c, txn)
  BY <1>0, NextOf DEF Position
<1>2. ColumnSet(q, p, txn, i, d)
  BY <1>0 DEF Covered
<1>3. c.op = "exec" => c.id # q[i].id
  BY <1>0 DEF ExecsDistinct
<1>4. ASSUME c.op \in {"sadd", "hmset"}
      PROVE  /\ n.id = c.id
             /\ \/ txn'.queued = txn.queued \cup {c} /\ txn'.dirty = txn.dirty
                \/ txn'.queued = txn.queued /\ txn'.dirty
  <2>1. txn.open /\ (Serve(c) \/ Refuse(c))
    BY <1>1, <1>4 DEF InTxn, InWrite
  <2>2. \/ txn' = [txn EXCEPT !.queued = @ \cup {c}]
        \/ txn' = [txn EXCEPT !.dirty = txn.open]
    BY <1>4, <2>1 DEF Serve, ServeMulti, ServeQueued, ServeExec, ServeRead, ServeSrem, ServeDel,
                      ServeFlush, Refuse
  <2> QED
    BY <1>1, <1>4, <2>1, <2>2 DEF Follows
<1> HIDE DEF c, n
<1>5. CASE \E j \in p..i : q[j].op = "hmset" /\ q[j].id = q[i].id /\ q[j].col = d
  <2>1. PICK j \in p..i : q[j].op = "hmset" /\ q[j].id = q[i].id /\ q[j].col = d
    BY <1>5
  <2>2. CASE j # p
    <3>1. j \in (p + 1)..i
      BY <2>2
    <3> QED
      BY <2>1, <3>1 DEF ColumnSet
  <2>3. CASE j = p
    BY <1>4, <2>1, <2>3 DEF ColumnSet, c, n
  <2> QED
    BY <2>2, <2>3
<1>6. CASE \E h \in txn.queued : h.op = "hmset" /\ h.id = q[i].id /\ h.col = d
  <2>1. PICK h \in txn.queued : h.op = "hmset" /\ h.id = q[i].id /\ h.col = d
    BY <1>6
  <2>2. c.op \in InWrite /\ h.id = c.id
    BY <1>1, <2>1 DEF InTxn, NoTxn, OfWrite
  <2>3. c.op \in {"sadd", "hmset"}
    BY <1>3, <2>1, <2>2 DEF InWrite
  <2> QED
    BY <1>4, <2>1, <2>3 DEF ColumnSet
<1>7. CASE txn.dirty /\ q[p].id = q[i].id
  <2>1. c.op \in InWrite
    BY <1>1, <1>7 DEF InTxn, NoTxn
  <2>2. c.op \in {"sadd", "hmset"}
    BY <1>3, <1>7, <2>1 DEF InWrite, c
  <2> QED
    BY <1>4, <1>7, <2>2 DEF ColumnSet, c, n
<1> QED
  BY <1>2, <1>5, <1>6, <1>7 DEF ColumnSet

(* The step of each kind, on the position of the server in the queue.      *)
LEMMA PositionAfter ==
  ASSUME IInv, NEW p, p = Len(answers) + 1
  PROVE  /\ pending \in Seq(Cmds) /\ ExecsDistinct(pending)
         /\ txn \in [open : BOOLEAN, dirty : BOOLEAN, queued : SUBSET Cmds]
         /\ ending = "none" => p \in 1..(Len(pending) + 1)
         /\ Runs => p \in 1..Len(pending) /\ Len(answers') + 1 = p + 1
         /\ \A r \in Seq(Cmds) : Pops(r) =>
              /\ p \in 2..(Len(pending) + 1) /\ Len(answers') + 1 = p - 1
              /\ Tail(pending) \in Seq(Cmds) /\ p - 1 \in 1..(Len(Tail(pending)) + 1)
<1>1. /\ pending \in Seq(Cmds) /\ answers \in Seq(Replies)
      /\ Len(answers) \in Nat /\ Len(pending) \in Nat
      /\ ending = "none" => Len(answers) <= Len(pending)
  BY PositionType
<1>2. ASSUME NEW r \in Seq(Cmds), Pops(r)
      PROVE  /\ p \in 2..(Len(pending) + 1) /\ Len(answers') + 1 = p - 1
             /\ Tail(pending) \in Seq(Cmds) /\ p - 1 \in 1..(Len(Tail(pending)) + 1)
  <2>1. /\ Tail(pending) \in Seq(Cmds) /\ Len(Tail(pending)) = Len(pending) - 1
        /\ Len(Tail(answers)) = Len(answers) - 1 /\ Len(answers) >= 1
    BY <1>1, <1>2, TailCmds DEF Pops
  <2> QED
    BY <1>1, <1>2, <2>1 DEF Pops
<1>3. ExecsDistinct(pending) /\ txn \in [open : BOOLEAN, dirty : BOOLEAN, queued : SUBSET Cmds]
  BY DEF IInv, TypeOK, PendingInv, QueueInv
<1>4. ending = "none" => p \in 1..(Len(pending) + 1)
  BY <1>1
<1>5. Runs => p \in 1..Len(pending) /\ Len(answers') + 1 = p + 1
  BY <1>1 DEF Runs
<1> HIDE DEF Pops, Runs
<1> QED
  BY <1>1, <1>2, <1>3, <1>4, <1>5

(* No write is queued or applied when the handle is created.               *)
LEMMA InitApplied == Init => AppliedInv /\ CoverInv
  BY DEF Init, ServerInit, AppliedInv, CoverInv, NotYetApplied, Covered

(* Every step keeps the writes apart that were applied and that will be.   *)
LEMMA NextApplied == IInv /\ AppliedInv /\ [Next]_vars => AppliedInv'
<1> SUFFICES ASSUME IInv, AppliedInv, [Next]_vars PROVE AppliedInv'
  OBVIOUS
<1>0. PICK p : p = Len(answers) + 1
  OBVIOUS
<1>1. /\ applied \subseteq 1..calls /\ calls \in Nat
      /\ ending = "none" => NotYetApplied(pending, p)
  BY <1>0 DEF AppliedInv, IInv, TypeOK
<1>2. ASSUME NEW r \in Seq(Cmds), Queues(r) PROVE AppliedInv'
  <2>1. p \in 1..(Len(pending) + 1) /\ pending \in Seq(Cmds)
    BY <1>0, <1>2, PositionAfter DEF Queues
  <2>2. calls + 1 \notin applied
    BY <1>1
  <2>3. \A i \in 1..Len(r) : r[i].op = "exec" => r[i].id = calls + 1
    BY <1>2 DEF Queues, ExecsOf
  <2>4. NotYetApplied(pending \o r, p)
    BY <1>1, <1>2, <2>1, <2>2, <2>3, NotYetConcat DEF Queues
  <2>5. applied \subseteq 1..(calls + 1)
    BY <1>1
  <2> QED
    BY <1>0, <1>2, <2>4, <2>5 DEF Queues, AppliedInv, NotYetApplied
<1>3. CASE Runs
  <2>1. /\ p \in 1..Len(pending) /\ Len(answers') + 1 = p + 1 /\ pending \in Seq(Cmds)
        /\ ExecsDistinct(pending)
    BY <1>0, <1>3, PositionAfter
  <2>2. Serve(pending[p]) \/ Refuse(pending[p])
    BY <1>0, <1>3 DEF Runs
  <2>3. /\ NotYetApplied(pending, p + 1)'
        /\ applied' = applied \/ (pending[p].op = "exec" /\ applied' = applied \cup {pending[p].id})
    <3>1. NotYetApplied(pending, p) /\ pending' = pending
      BY <1>1, <1>3 DEF Runs
    <3>2. PICK q \in Seq(Cmds) : q = pending
      BY <2>1
    <3>3. /\ NotYetApplied(q, p + 1)'
          /\ applied' = applied \/ (q[p].op = "exec" /\ applied' = applied \cup {q[p].id})
      <4>1. p \in 1..Len(q) /\ NotYetApplied(q, p) /\ ExecsDistinct(q)
        BY <2>1, <3>1, <3>2
      <4>2. Serve(q[p]) \/ Refuse(q[p])
        BY <2>2, <3>2
      <4>3. NotYetApplied(q, p + 1)'
        BY <4>1, <4>2, <2>1, NotYetServe
      <4>4. applied' = applied \/ (q[p].op = "exec" /\ applied' = applied \cup {q[p].id})
        BY <4>1, <4>2, <2>1, NotYetServe
      <4> QED
        BY <4>3, <4>4
    <3> QED
      BY <3>1, <3>2, <3>3 DEF NotYetApplied
  <2>4. pending[p].op = "exec" => pending[p].id \in 1..calls
    BY <2>1, ExecNumber
  <2>5. applied' \subseteq 1..calls
    BY <1>1, <2>3, <2>4
  <2> QED
    BY <1>3, <2>1, <2>3, <2>5 DEF Runs, AppliedInv, NotYetApplied
<1>4. ASSUME NEW r \in Seq(Cmds), Pops(r) PROVE AppliedInv'
  <2>1. /\ p \in 2..(Len(pending) + 1) /\ Len(answers') + 1 = p - 1 /\ pending \in Seq(Cmds)
        /\ Tail(pending) \in Seq(Cmds) /\ p - 1 \in 1..(Len(Tail(pending)) + 1)
    BY <1>0, <1>4, PositionAfter
  <2>2. NotYetApplied(Tail(pending), p - 1)
    BY <1>1, <1>4, <2>1, NotYetTail DEF Pops
  <2>3. calls + 1 \notin applied
    BY <1>1
  <2>4. NotYetApplied(Tail(pending) \o r, p - 1)
    BY <1>4, <2>1, <2>2, <2>3, NotYetConcat DEF Pops
  <2> QED
    BY <1>1, <1>4, <2>1, <2>4 DEF Pops, AppliedInv, NotYetApplied
<1>5. CASE Breaks
  BY <1>1, <1>5 DEF Breaks, AppliedInv
<1>6. CASE Settles
  <2>1. ending # "none" /\ ending' = "none" => \A i \in 1..Len(pending) : FALSE
    <3>1. pending = << >> => \A i \in 1..Len(pending) : FALSE
      OBVIOUS
    <3> QED
      BY <1>6, <3>1 DEF Settles
  <2> QED
    BY <1>0, <1>1, <1>6, <2>1 DEF Settles, AppliedInv, NotYetApplied
<1> QED
  BY <1>2, <1>3, <1>4, <1>5, <1>6, StepKinds

(* Every step keeps the columns of each queued EXEC.                       *)
LEMMA NextCover ==
  ASSUME WholeRows, IInv, TxnInv, CoverInv, [Next]_vars
  PROVE  CoverInv'
<1>0. PICK p : p = Len(answers) + 1
  OBVIOUS
<1>1. ending = "none" => Covered(pending, p, txn)
  BY <1>0 DEF CoverInv
<1>2. ASSUME NEW r \in Seq(Cmds), Queues(r) PROVE CoverInv'
  <2>1. p \in 1..(Len(pending) + 1) /\ pending \in Seq(Cmds)
    BY <1>0, <1>2, PositionAfter DEF Queues
  <2>2. Covered(pending \o r, p, txn)
    BY <1>1, <1>2, <2>1, CoveredConcat DEF Queues
  <2> QED
    BY <1>0, <1>2, <2>2 DEF Queues, CoverInv
<1>3. CASE Runs
  <2>1. /\ p \in 1..Len(pending) /\ Len(answers') + 1 = p + 1 /\ pending \in Seq(Cmds)
        /\ ExecsDistinct(pending)
        /\ txn \in [open : BOOLEAN, dirty : BOOLEAN, queued : SUBSET Cmds]
    BY <1>0, <1>3, PositionAfter
  <2>2. Serve(pending[p]) \/ Refuse(pending[p])
    BY <1>0, <1>3 DEF Runs
  <2>3. Grouped(pending) /\ Position(pending, p, txn) /\ Covered(pending, p, txn)
    BY <1>0, <1>1, <1>3 DEF TxnInv, Runs
  <2>4. Covered(pending, p + 1, txn')
    BY <2>1, <2>2, <2>3, CoveredServe
  <2> QED
    BY <1>3, <2>1, <2>4 DEF Runs, CoverInv
<1>4. ASSUME NEW r \in Seq(Cmds), Pops(r) PROVE CoverInv'
  <2>1. /\ p \in 2..(Len(pending) + 1) /\ Len(answers') + 1 = p - 1 /\ pending \in Seq(Cmds)
        /\ Tail(pending) \in Seq(Cmds) /\ p - 1 \in 1..(Len(Tail(pending)) + 1)
    BY <1>0, <1>4, PositionAfter
  <2>2. Covered(Tail(pending), p - 1, txn)
    BY <1>1, <1>4, <2>1, CoveredTail DEF Pops
  <2>3. ExecsOf(r, 0)
    BY <1>4 DEF Pops, ExecsOf
  <2>4. Covered(Tail(pending) \o r, p - 1, txn)
    BY <1>4, <2>1, <2>2, <2>3, CoveredConcat
  <2> QED
    BY <1>4, <2>1, <2>4 DEF Pops, CoverInv
<1>5. CASE Breaks
  BY <1>5 DEF Breaks, CoverInv
<1>6. CASE Settles
  <2>1. ending # "none" /\ ending' = "none" => \A i \in 1..Len(pending) : FALSE
    <3>1. pending = << >> => \A i \in 1..Len(pending) : FALSE
      OBVIOUS
    <3> QED
      BY <1>6, <3>1 DEF Settles
  <2>2. ending' = "none" => Covered(pending, p, txn)
    BY <1>1, <1>6, <2>1 DEF Settles, Covered
  <2> QED
    BY <1>0, <1>6, <2>2 DEF Settles, CoverInv
<1> QED
  BY <1>2, <1>3, <1>4, <1>5, <1>6, StepKinds

(* Without faults nothing is left of a row that is not in the index: the   *)
(* DEL of a row follows its SREM.                                          *)
LEMMA OrphanServe ==
  ASSUME TypeOK, NEW q \in Seq(Cmds), Grouped(q), NEW p \in 1..Len(q),
         Position(q, p, txn), NoOrphans(q, p),
         q[p].op = "exec" => q[p].id \in Nat \ {0}, Serve(q[p])
  PROVE  NoOrphans(q, p + 1)'
<1> SUFFICES ASSUME NEW k \in Keys, k \notin ids'
             PROVE  rows'[k] = EmptyRow \/ (p + 1 <= Len(q) /\ q[p + 1].op = "del" /\ q[p + 1].key = k)
  BY DEF NoOrphans
<1> DEFINE c == q[p]
           n == q[p + 1]
<1>1. c \in Cmds /\ c.op \in OpNames /\ InTxn(c, txn) /\ p <= Len(q) /\ Serve(c)
  <2>1. p <= Len(q) /\ c \in Cmds
    OBVIOUS
  <2>2. c.op \in OpNames
    BY <2>1 DEF Cmds
  <2>3. InTxn(c, txn)
    BY <2>1 DEF Position
  <2> QED
    BY <2>1, <2>2, <2>3
<1>2. /\ p + 1 <= Len(q) => Follows(c, n)
      /\ ~(p + 1 <= Len(q)) => c.op \in Ends
  BY NextOf
<1>3. k \notin ids => rows[k] = EmptyRow \/ (c.op = "del" /\ c.key = k)
  BY DEF NoOrphans
<1>4. c.op = "exec" => c.id \in Nat \ {0}
  OBVIOUS
<1> HIDE DEF c, n
<1>5. CASE c.op = "exec"
  <2>1. CASE UNCHANGED <<ids, rows>>
    BY <1>3, <1>5, <2>1
  <2>2. CASE ServeExec(c) /\ ~txn.dirty
    <3>1. /\ ids' = ids \cup {c.key}
          /\ \A j \in Keys \ {c.key} : rows'[j] = rows[j]
      BY <1>1, <1>4, <1>5, <2>2, ExecEffect
    <3> QED
      BY <1>3, <1>5, <3>1
  <2> QED
    BY <1>1, <1>5, <2>1, <2>2
       DEF Serve, ServeMulti, ServeQueued, ServeExec, ServeRead, ServeSrem, ServeDel, ServeFlush
<1>6. CASE c.op \in {"multi", "sadd", "hmset", "smembers", "hgetall"}
  <2>1. UNCHANGED <<ids, rows>>
    BY <1>1, <1>6 DEF Serve, ServeMulti, ServeQueued, ServeExec, ServeRead, ServeSrem, ServeDel,
                      ServeFlush, serverVars
  <2> QED
    BY <1>3, <1>6, <2>1
<1>7. CASE c.op = "srem"
  <2>1. ids' = ids \ {c.key} /\ rows' = rows
    BY <1>1, <1>7 DEF Serve, ServeMulti, ServeQueued, ServeExec, ServeRead, ServeSrem, ServeDel,
                      ServeFlush
  <2>2. p + 1 <= Len(q) /\ n.op = "del" /\ n.key = c.key
    BY <1>2, <1>7 DEF Follows, Ends
  <2> QED
    BY <1>3, <1>7, <2>1, <2>2 DEF n
<1>8. CASE c.op = "del"
  <2>1. ids' = ids /\ rows' = [j \in Keys |-> IF j = c.key THEN EmptyRow ELSE rows[j]]
    BY <1>1, <1>8 DEF Serve, ServeMulti, ServeQueued, ServeExec, ServeRead, ServeSrem, ServeDel,
                      ServeFlush
  <2> QED
    BY <1>3, <2>1
<1>9. CASE c.op = "flushdb"
  BY <1>1, <1>9 DEF Serve, ServeMulti, ServeQueued, ServeExec, ServeRead, ServeSrem, ServeDel,
                    ServeFlush, EmptyRows
<1> QED
  BY <1>1, <1>5, <1>6, <1>7, <1>8, <1>9 DEF OpNames

(* No row has columns when the handle is created.                          *)
LEMMA InitOrphan == Init => OrphanInv
  BY DEF Init, ServerInit, OrphanInv, NoOrphans, EmptyRows

(* No step takes a fault back.                                             *)
LEMMA FaultsGrow ==
  ASSUME IInv, [Next]_vars
  PROVE  faults' = 0 => faults = 0
<1>1. faults \in Nat
  BY BoundsAssumption DEF IInv, TypeOK
<1>2. Fault => faults' # 0
  BY <1>1 DEF Fault
<1>3. faults' = faults \/ Fault
  BY DEF Next, ApiCall, Callback, TearDown, WriteSingleRow, WriteSingleColumn, DeleteSingleRow,
         DeleteAllRow, ReadAll, FlushAll, Close, SubmitWrite, Call, ConnectOk, ConnectFail,
         ConnectionLost, ServerRuns, ServerRefusal, ReplySmembers, ReplyHgetall, ReplyDel,
         ReplyHmset, ReplyExec, ReplyOther, ReplyError, Deliver, NullReply, EmptyCmdQueue, Ended,
         Idle, vars
<1> QED
  BY <1>2, <1>3

(* Every step of a handle that met no fault leaves no row behind.          *)
LEMMA NextOrphan ==
  ASSUME faults' = 0, IInv, TxnInv, OrphanInv, [Next]_vars
  PROVE  OrphanInv'
<1>0. PICK p : p = Len(answers) + 1
  OBVIOUS
<1>1. ending # "drop" /\ (ending = "none" /\ connState # "closed" => NoOrphans(pending, p))
  BY <1>0 DEF OrphanInv
<1>2. ASSUME NEW r \in Seq(Cmds), Queues(r) PROVE OrphanInv'
  <2>1. p \in 1..(Len(pending) + 1) /\ pending \in Seq(Cmds)
    BY <1>0, <1>2, PositionAfter DEF Queues
  <2>2. p <= Len(pending) => p <= Len(pending \o r) /\ (pending \o r)[p] = pending[p]
    BY <1>2, <2>1, ConcatAt
  <2>3. NoOrphans(pending \o r, p)
    BY <1>1, <1>2, <2>2 DEF Queues, NoOrphans
  <2> QED
    BY <1>0, <1>2, <2>3 DEF Queues, OrphanInv, NoOrphans
<1>3. CASE Runs
  <2>1. p \in 1..Len(pending) /\ Len(answers') + 1 = p + 1 /\ pending \in Seq(Cmds)
    BY <1>0, <1>3, PositionAfter
  <2>2. Serve(pending[p])
    BY <1>0, <1>3 DEF Runs, Faulty
  <2>3. Grouped(pending) /\ Position(pending, p, txn) /\ NoOrphans(pending, p) /\ TypeOK
    BY <1>0, <1>1, <1>3 DEF TxnInv, Runs, IInv
  <2>4. pending[p].op = "exec" => pending[p].id \in Nat \ {0}
    BY <2>1, ExecNumber
  <2>5. PICK q \in Seq(Cmds) : q = pending
    BY <2>1
  <2>6. NoOrphans(q, p + 1)'
    <3>1. p \in 1..Len(q) /\ Grouped(q) /\ Position(q, p, txn) /\ NoOrphans(q, p) /\ TypeOK
      BY <2>1, <2>3, <2>5
    <3>2. Serve(q[p]) /\ (q[p].op = "exec" => q[p].id \in Nat \ {0})
      BY <2>2, <2>4, <2>5
    <3> QED
      BY <3>1, <3>2, OrphanServe DEF NoOrphans
  <2>7. pending' = pending
    BY <1>3 DEF Runs
  <2> QED
    BY <1>1, <1>3, <2>1, <2>5, <2>6, <2>7 DEF Runs, OrphanInv, NoOrphans
<1>4. ASSUME NEW r \in Seq(Cmds), Pops(r) PROVE OrphanInv'
  <2>1. /\ p \in 2..(Len(pending) + 1) /\ Len(answers') + 1 = p - 1 /\ pending \in Seq(Cmds)
        /\ Tail(pending) \in Seq(Cmds) /\ p - 1 \in 1..(Len(Tail(pending)) + 1)
    BY <1>0, <1>4, PositionAfter
  <2>2. p <= Len(pending) => /\ p - 1 <= Len(Tail(pending) \o r)
                             /\ (Tail(pending) \o r)[p - 1] = pending[p]
    <3>1. SUFFICES ASSUME p <= Len(pending)
                   PROVE  /\ p - 1 <= Len(Tail(pending) \o r)
                          /\ (Tail(pending) \o r)[p - 1] = pending[p]
      OBVIOUS
    <3>2. pending # << >>
      BY <1>4 DEF Pops
    <3>3. p - 1 \in 1..Len(Tail(pending)) /\ (p - 1) + 1 = p
      BY <2>1, <3>1, <3>2, TailAt
    <3>4. Tail(pending)[p - 1] = pending[p]
      BY <2>1, <3>2, <3>3, TailAt
    <3> QED
      BY <1>4, <2>1, <3>3, <3>4, ConcatAt
  <2>3. NoOrphans(Tail(pending) \o r, p - 1)
    BY <1>1, <1>4, <2>2 DEF Pops, NoOrphans
  <2> QED
    BY <1>1, <1>4, <2>1, <2>3 DEF Pops, OrphanInv, NoOrphans
<1>5. CASE Breaks
  BY <1>1, <1>5 DEF Breaks, Faulty, OrphanInv
<1>6. CASE Settles
  <2>1. ending = "none" \/ ending' # "none" \/ connState' = "closed"
    BY <1>1, <1>6 DEF Settles
  <2>2. connState' # "closed" => connState # "closed"
    BY <1>6 DEF Settles
  <2>3. ending' # "drop"
    BY <1>1, <1>6 DEF Settles
  <2>4. ending' = "none" /\ connState' # "closed" => NoOrphans(pending, p)'
    BY <1>0, <1>1, <1>6, <2>1, <2>2 DEF Settles, NoOrphans
  <2> QED
    BY <1>0, <1>6, <2>3, <2>4 DEF Settles, OrphanInv
<1> QED
  BY <1>2, <1>3, <1>4, <1>5, <1>6, StepKinds

(* What the server and the queue have in common: no write is applied       *)
(* twice; a write of a whole row sets every column when it is applied; and *)
(* nothing is left of a row that is not listed when nothing fails.         *)
RowsInv == AppliedInv /\ (WholeRows => CoverInv) /\ (faults = 0 => OrphanInv)

(* No write is applied twice, whole rows are written whole, and nothing is *)
(* left behind when nothing fails.                                         *)
THEOREM RowsInvariant == Spec => []RowsInv
<1>1. Init => RowsInv
  BY InitApplied, InitOrphan DEF RowsInv
<1>2. IInv /\ TxnInv /\ RowsInv /\ [Next]_vars => RowsInv'
  BY NextApplied, NextCover, NextOrphan, FaultsGrow DEF RowsInv
<1> QED
  BY <1>1, <1>2, InductiveInvariant, TransactionInvariant, PTL DEF Spec

-----------------------------------------------------------------------------
(* A delete-all.                                                           *)

(* The SMEMBERS of the delete-all is the last command of the queue, and    *)
(* nothing in front of it lowers the flag or takes it for its own.  Its    *)
(* reply lists all that is in the table.                                   *)
AwaitsScan ==
  LET n == Len(pending)
  IN  /\ deleteAll /\ n > 0 /\ pending[n].op = "smembers"
      /\ \A i \in 1..(n - 1) : pending[i].op \notin {"smembers", "del"}
      /\ Len(answers) = n =>
           /\ answers[n].ok /\ answers[n].listed = ids
           /\ \A k \in Keys \ ids : rows[k] = EmptyRow

(* The server has still to run such a command for the row.                 *)
StillTo(op, k) ==
  \E i \in (Len(answers) + 1)..Len(pending) : pending[i].op = op /\ pending[i].key = k

(* Every row that is left is going to be taken from index and hashes.      *)
Sweeping ==
  /\ \A i \in 1..Len(pending) : pending[i].op \in {"hgetall", "srem", "del"}
  /\ \A k \in ids : StillTo("srem", k)
  /\ \A k \in Keys : rows[k] # EmptyRow => StillTo("del", k)

SweepInv ==
  faults = 0 =>
    /\ connState # "disconnected"
    /\ lastCall = "deleteAll" => ending = "none" /\ (AwaitsScan \/ Sweeping)

(* The SMEMBERS reply names every row of the index.                        *)
LEMMA OrderListsAll ==
  ASSUME NEW S \in SUBSET Keys, NEW order \in SetToSeqs(S)
  PROVE  order \in Seq(Keys) /\ \A k \in S : \E j \in 1..Len(order) : order[j] = k
<1> DEFINE n == Cardinality(S)
<1>1. IsFiniteSet(S)
  BY KeysFinite, FS_Subset
<1>2. n \in Nat
  BY <1>1, FS_CardinalityType
<1>3. IsFiniteSet(1..n) /\ Cardinality(1..n) = n
  BY <1>2, FS_Interval
<1>4. order \in [1..n -> S] /\ \A i, j \in 1..n : i # j => order[i] # order[j]
  BY DEF SetToSeqs
<1>5. order \in Injection(1..n, S)
  BY <1>4 DEF Injection, IsInjective
<1> HIDE DEF n
<1>6. order \in Surjection(1..n, S)
  <2>1. Cardinality(1..n) = Cardinality(S)
    BY <1>3 DEF n
  <2> QED
    BY <1>1, <1>3, <1>5, <2>1, FS_Injection
<1>7. Len(order) = n
  BY <1>2, <1>4
<1> QED
  BY <1>6, <1>7, OrderIsSeq DEF Surjection

(* issue_del_row_commands takes every row of the list from the index and   *)
(* from the hashes.                                                        *)
LEMMA DelRowAll ==
  ASSUME NEW order \in Seq(Keys), NEW j \in 1..Len(order)
  PROVE  \A op \in {"srem", "del"} : \E i \in 1..Len(DelRowCmds(order)) :
           DelRowCmds(order)[i].op = op /\ DelRowCmds(order)[i].key = order[j]
<1> DEFINE n == Len(order)
           r == DelRowCmds(order)
<1>1. n \in Nat /\ j \in 1..n
  OBVIOUS
<1> HIDE DEF n
<1>2. r = [i \in 1..(2 * n) |->
             IF i % 2 = 1 THEN Cmd("srem", order[(i + 1) \div 2], NoCol, 0, "deleteAll")
                          ELSE Cmd("del", order[i \div 2], NoCol, 0, "deleteAll")]
  BY DEF DelRowCmds, n
<1>3. Len(r) = 2 * n
  BY <1>1, <1>2
<1> HIDE DEF r
<1>4. /\ 2 * j \in 1..(2 * n) /\ (2 * j) % 2 # 1 /\ (2 * j) \div 2 = j
      /\ 2 * j - 1 \in 1..(2 * n) /\ (2 * j - 1) % 2 = 1 /\ ((2 * j - 1) + 1) \div 2 = j
  BY <1>1
<1>5. r[2 * j] = Cmd("del", order[j], NoCol, 0, "deleteAll")
  BY <1>2, <1>4
<1>6. r[2 * j - 1] = Cmd("srem", order[j], NoCol, 0, "deleteAll")
  BY <1>2, <1>4
<1>7. \A i : r[i] = Cmd("del", order[j], NoCol, 0, "deleteAll") => r[i].op = "del" /\ r[i].key = order[j]
  BY DEF Cmd
<1>8. \A i : r[i] = Cmd("srem", order[j], NoCol, 0, "deleteAll") => r[i].op = "srem" /\ r[i].key = order[j]
  BY DEF Cmd
<1>9. \E i \in 1..Len(r) : r[i].op = "del" /\ r[i].key = order[j]
  BY <1>3, <1>4, <1>5, <1>7
<1>10. \E i \in 1..Len(r) : r[i].op = "srem" /\ r[i].key = order[j]
  BY <1>3, <1>4, <1>6, <1>8
<1> QED
  BY <1>9, <1>10 DEF r

(* Both commands are those of a deletion.                                  *)
LEMMA DelRowOps ==
  ASSUME NEW order \in Seq(Keys)
  PROVE  \A i \in 1..Len(DelRowCmds(order)) : DelRowCmds(order)[i].op \in {"srem", "del"}
<1> DEFINE n == Len(order)
<1>1. n \in Nat
  OBVIOUS
<1> HIDE DEF n
<1>2. DelRowCmds(order) =
        [i \in 1..(2 * n) |->
             IF i % 2 = 1 THEN Cmd("srem", order[(i + 1) \div 2], NoCol, 0, "deleteAll")
                          ELSE Cmd("del", order[i \div 2], NoCol, 0, "deleteAll")]
  BY DEF DelRowCmds, n
<1>3. Len(DelRowCmds(order)) = 2 * n
  BY <1>1, <1>2
<1>4. \A i \in 1..(2 * n) : DelRowCmds(order)[i].op = IF i % 2 = 1 THEN "srem" ELSE "del"
  <2> TAKE i \in 1..(2 * n)
  <2>1. CASE i % 2 = 1
    <3>1. DelRowCmds(order)[i] = Cmd("srem", order[(i + 1) \div 2], NoCol, 0, "deleteAll")
      BY <1>2, <2>1
    <3> QED
      BY <2>1, <3>1 DEF Cmd
  <2>2. CASE i % 2 # 1
    <3>1. DelRowCmds(order)[i] = Cmd("del", order[i \div 2], NoCol, 0, "deleteAll")
      BY <1>2, <2>2
    <3> QED
      BY <2>2, <3>1 DEF Cmd
  <2> QED
    BY <2>1, <2>2
<1> QED
  BY <1>3, <1>4

(* What is queued behind the SMEMBERS reply takes all rows away.           *)
LEMMA SweepBegins ==
  ASSUME IInv, AwaitsScan, Len(pending) = 1, ReplySmembers
  PROVE  Sweeping'
<1>0. /\ pending \in Seq(Cmds) /\ answers \in Seq(Replies) /\ ids \in SUBSET Keys
      /\ Len(answers) = 1 /\ answers' = Tail(answers) /\ UNCHANGED <<ids, rows>>
  <2>1. pending \in Seq(Cmds) /\ answers \in Seq(Replies) /\ connState = "connected"
        /\ answers # << >> /\ answers' = Tail(answers) /\ UNCHANGED <<ids, rows>>
    BY DEF IInv, TypeOK, ReplySmembers, Deliver, serverVars
  <2>2. Len(answers) <= Len(pending) /\ Len(answers) \in Nat
    BY <2>1, PositionType
  <2>3. Len(answers) # 0
    BY <2>1
  <2> QED
    BY <2>1, <2>2, <2>3 DEF IInv, TypeOK
<1>1. /\ Head(answers).listed = ids /\ deleteAll
      /\ \A k \in Keys \ ids : rows[k] = EmptyRow
  BY <1>0 DEF AwaitsScan
<1>2. PICK order \in SetToSeqs(ids) :
        LET more == (IF fullRead THEN ReadCmds(order) ELSE << >>)
                      \o (IF deleteAll THEN DelRowCmds(order) ELSE << >>)
        IN  pending' = Tail(pending) \o more
  BY <1>1 DEF ReplySmembers
<1> DEFINE a == IF fullRead THEN ReadCmds(order) ELSE << >>
           b == DelRowCmds(order)
<1>3. order \in Seq(Keys) /\ \A k \in ids : \E j \in 1..Len(order) : order[j] = k
  BY <1>0, OrderListsAll
<1>4. a \in Seq(Cmds) /\ \A i \in 1..Len(a) : a[i].op = "hgetall"
  <2>1. ReadCmds(order) \in Seq(Cmds)
    BY <1>3, PlainRead DEF Plain
  <2>2. Len(ReadCmds(order)) = Len(order) /\ \A i \in 1..Len(order) : ReadCmds(order)[i].op = "hgetall"
    BY <1>3 DEF ReadCmds, Cmd
  <2> QED
    BY <2>1, <2>2
<1>5. b \in Seq(Cmds) /\ \A i \in 1..Len(b) : b[i].op \in {"srem", "del"}
  BY <1>3, PlainDelRow, DelRowOps DEF Plain
<1>6. \A k \in ids : \A op \in {"srem", "del"} : \E i \in 1..Len(b) : b[i].op = op /\ b[i].key = k
  BY <1>3, DelRowAll
<1>7. pending' = a \o b
  <2>1. pending' = Tail(pending) \o (a \o b)
    BY <1>1, <1>2
  <2>2. Tail(pending) = << >>
    BY <1>0
  <2> HIDE DEF a, b
  <2>3. a \o b \in Seq(Cmds)
    BY <1>4, <1>5, ConcatCmds
  <2>4. \A q \in Seq(Cmds) : << >> \o q = q
    OBVIOUS
  <2> QED
    BY <2>1, <2>2, <2>3, <2>4
<1>8. Len(answers') = 0
  BY <1>0
<1> HIDE DEF a, b
<1>9. /\ Len(a) \in Nat /\ Len(b) \in Nat /\ Len(pending') = Len(a) + Len(b)
      /\ \A i \in 1..Len(a) : pending'[i] = a[i]
      /\ \A i \in 1..Len(b) : Len(a) + i \in 1..Len(pending') /\ pending'[Len(a) + i] = b[i]
      /\ \A i \in 1..Len(pending') : i \in 1..Len(a) \/ (i - Len(a) \in 1..Len(b) /\ i = Len(a) + (i - Len(a)))
  BY <1>4, <1>5, <1>7, ConcatAt
<1>10. ASSUME NEW i \in 1..Len(pending') PROVE pending'[i].op \in {"hgetall", "srem", "del"}
  <2>1. CASE i \in 1..Len(a)
    BY <1>4, <1>9, <2>1
  <2>2. CASE i - Len(a) \in 1..Len(b) /\ i = Len(a) + (i - Len(a))
    <3>1. pending'[Len(a) + (i - Len(a))] = b[i - Len(a)]
      BY <1>9, <2>2
    <3>2. pending'[i] = b[i - Len(a)]
      BY <2>2, <3>1
    <3> QED
      BY <1>5, <2>2, <3>2
  <2> QED
    BY <1>9, <2>1, <2>2
<1>11. ASSUME NEW k \in ids, NEW op \in {"srem", "del"} PROVE StillTo(op, k)'
  <2>1. PICK i \in 1..Len(b) : b[i].op = op /\ b[i].key = k
    BY <1>6
  <2>2. Len(a) + i \in (Len(answers') + 1)..Len(pending') /\ pending'[Len(a) + i] = b[i]
    BY <1>8, <1>9
  <2> QED
    BY <2>1, <2>2 DEF StillTo
<1>12. \A k \in Keys : rows'[k] # EmptyRow => k \in ids
  BY <1>0, <1>1
<1> QED
  BY <1>0, <1>10, <1>11, <1>12 DEF Sweeping

(* The server runs the SMEMBERS when nothing is left of the rows that it   *)
(* does not list, and each SREM and DEL takes one row away.                *)
LEMMA SweepRuns ==
  ASSUME IInv, OrphanInv, AwaitsScan \/ Sweeping, ServerRuns
  PROVE  (AwaitsScan \/ Sweeping)'
<1> DEFINE p == Len(answers) + 1
           c == pending[p]
<1>0. /\ pending \in Seq(Cmds) /\ answers \in Seq(Replies) /\ Len(answers) \in Nat
      /\ Len(pending) \in Nat /\ p \in 1..Len(pending) /\ wire = pending
      /\ ending = "none" /\ connState = "connected"
  BY PositionType DEF IInv, ReplyMatching, ServerRuns, ServerCanRun
<1>1. /\ Serve(c) /\ answers' = Append(answers, AnswerTo(c)) /\ UNCHANGED <<pending, deleteAll>>
  BY <1>0 DEF ServerRuns, NextServed
<1>2. Len(answers') = p /\ answers'[p] = AnswerTo(c)
  BY <1>0, <1>1
<1>3. ids \in SUBSET Keys /\ rows \in [Keys -> [Cols -> Nat]]
  BY DEF IInv, TypeOK
<1>4. NoOrphans(pending, p)
  BY <1>0 DEF OrphanInv
<1>5. p \in Nat /\ p = Len(answers) + 1
  BY <1>0
<1> HIDE DEF p, c
<1>6. CASE AwaitsScan
  <2>1. CASE p = Len(pending)
    <3>1. c.op = "smembers"
      BY <1>6, <2>1 DEF AwaitsScan, c
    <3>2. UNCHANGED <<ids, rows>>
      BY <1>1, <3>1 DEF Serve, ServeMulti, ServeQueued, ServeExec, ServeRead, ServeSrem, ServeDel,
                        ServeFlush, serverVars
    <3>3. AnswerTo(c).ok /\ AnswerTo(c).listed = ids
      BY <3>1 DEF AnswerTo
    <3>4. \A k \in Keys \ ids : rows[k] = EmptyRow
      BY <1>4, <3>1 DEF NoOrphans, c
    <3> QED
      BY <1>1, <1>2, <1>6, <2>1, <3>2, <3>3, <3>4 DEF AwaitsScan
  <2>2. CASE p # Len(pending)
    BY <1>1, <1>2, <1>6, <2>2 DEF AwaitsScan
  <2> QED
    BY <2>1, <2>2
<1>7. CASE Sweeping
  <2>1. c.op \in {"hgetall", "srem", "del"}
    BY <1>0, <1>7 DEF Sweeping, c, p
  <2>2. ASSUME NEW op, NEW k, StillTo(op, k), ~(c.op = op /\ c.key = k) PROVE StillTo(op, k)'
    <3>1. PICK i \in p..Len(pending) : pending[i].op = op /\ pending[i].key = k
      BY <1>5, <2>2 DEF StillTo
    <3>2. i # p
      BY <2>2, <3>1 DEF c
    <3>3. i \in (p + 1)..Len(pending)
      BY <1>0, <1>5, <3>2
    <3> QED
      BY <1>1, <1>2, <3>1, <3>3 DEF StillTo
  <2>3. CASE c.op = "hgetall"
    <3>1. UNCHANGED <<ids, rows>>
      BY <1>1, <2>3 DEF Serve, ServeMulti, ServeQueued, ServeExec, ServeRead, ServeSrem, ServeDel,
                        ServeFlush, serverVars
    <3>2. \A k : StillTo("srem", k) => StillTo("srem", k)'
      BY <2>2, <2>3
    <3>3. \A k : StillTo("del", k) => StillTo("del", k)'
      BY <2>2, <2>3
    <3> QED
      BY <1>1, <1>7, <3>1, <3>2, <3>3 DEF Sweeping
  <2>4. CASE c.op = "srem"
    <3>1. ids' = ids \ {c.key} /\ rows' = rows
      BY <1>1, <2>4 DEF Serve, ServeMulti, ServeQueued, ServeExec, ServeRead, ServeSrem, ServeDel,
                        ServeFlush
    <3>2. \A k : k # c.key /\ StillTo("srem", k) => StillTo("srem", k)'
      BY <2>2
    <3>3. \A k : StillTo("del", k) => StillTo("del", k)'
      BY <2>2, <2>4
    <3> QED
      BY <1>1, <1>7, <3>1, <3>2, <3>3 DEF Sweeping
  <2>5. CASE c.op = "del"
    <3>1. ids' = ids /\ rows' = [k \in Keys |-> IF k = c.key THEN EmptyRow ELSE rows[k]]
      BY <1>1, <2>5 DEF Serve, ServeMulti, ServeQueued, ServeExec, ServeRead, ServeSrem, ServeDel,
                        ServeFlush
    <3>2. \A k : StillTo("srem", k) => StillTo("srem", k)'
      BY <2>2, <2>5
    <3>3. \A k : k # c.key /\ StillTo("del", k) => StillTo("del", k)'
      BY <2>2
    <3>4. \A k \in Keys : rows'[k] # EmptyRow => k # c.key /\ rows[k] # EmptyRow
      BY <3>1
    <3>5. EmptyRow' = EmptyRow
      BY DEF EmptyRow
    <3> QED
      BY <1>1, <1>7, <3>1, <3>2, <3>3, <3>4, <3>5 DEF Sweeping
  <2> QED
    BY <2>1, <2>3, <2>4, <2>5
<1> QED
  BY <1>6, <1>7

(* Replies in front of that to the SMEMBERS are popped, and so are those   *)
(* to the commands that it queues.                                         *)
LEMMA SweepPops ==
  ASSUME IInv, AwaitsScan \/ Sweeping, Callback
  PROVE  (AwaitsScan \/ Sweeping)'
<1>0. /\ pending \in Seq(Cmds) /\ answers \in Seq(Replies) /\ Len(answers) \in Nat
      /\ Len(pending) \in Nat /\ Len(answers) <= Len(pending)
      /\ answers # << >> /\ pending # << >> /\ answers' = Tail(answers)
      /\ UNCHANGED <<ids, rows>>
  <2>1. Deliver
    BY DEF Callback, ReplySmembers, ReplyHgetall, ReplyDel, ReplyHmset, ReplyExec, ReplyOther,
           ReplyError
  <2> QED
    BY <2>1, PositionType DEF Deliver, serverVars
<1>1. /\ Len(answers') = Len(answers) - 1 /\ Len(answers) >= 1
      /\ (\A i \in 1..Len(answers') : answers'[i] = answers[i + 1])
      /\ Head(answers) = answers[1] /\ Head(pending) = pending[1]
  BY <1>0, TailCmds
<1>2. CASE AwaitsScan /\ Len(pending) = 1
  <2>1. Head(answers).ok /\ Head(pending).op = "smembers"
    <3>1. Len(answers) = 1
      BY <1>0, <1>1, <1>2
    <3> QED
      BY <1>1, <1>2, <3>1 DEF AwaitsScan
  <2>2. ReplySmembers
    BY <2>1 DEF Callback, ReplyHgetall, ReplyDel, ReplyHmset, ReplyExec, ReplyOther, ReplyError
  <2> QED
    BY <1>2, <2>2, SweepBegins
<1>3. CASE Head(pending).op # "smembers"
  <2>1. Popped /\ ~ReplySmembers
    BY <1>3 DEF Callback, ReplySmembers, ReplyHgetall, ReplyDel, ReplyHmset, ReplyExec, ReplyOther,
           ReplyError
  <2>2. /\ Len(pending') = Len(pending) - 1
        /\ \A i \in 1..Len(pending') : i + 1 \in 1..Len(pending) /\ pending'[i] = pending[i + 1]
    BY <1>0, <2>1, TailAt DEF Popped
  <2>3. CASE AwaitsScan
    <3>1. Len(pending) # 1 /\ Head(pending).op # "del"
      BY <1>0, <1>1, <1>3, <2>3 DEF AwaitsScan
    <3>2. deleteAll' = deleteAll
      BY <2>1, <3>1 DEF Callback, ReplyHgetall, ReplyDel, ReplyHmset, ReplyExec, ReplyOther,
           ReplyError
    <3>3. Len(pending') > 0 /\ pending'[Len(pending')] = pending[Len(pending)]
      <4>1. Len(pending') \in 1..Len(pending') /\ Len(pending') + 1 = Len(pending)
        BY <1>0, <2>2, <3>1
      <4> QED
        BY <2>2, <4>1
    <3>4. \A i \in 1..(Len(pending') - 1) : pending'[i].op \notin {"smembers", "del"}
      <4> TAKE i \in 1..(Len(pending') - 1)
      <4>1. i \in 1..Len(pending') /\ i + 1 \in 1..(Len(pending) - 1)
        BY <1>0, <2>2
      <4> QED
        BY <2>2, <2>3, <4>1 DEF AwaitsScan
    <3>5. Len(answers') = Len(pending') =>
            Len(answers) = Len(pending) /\ answers'[Len(pending')] = answers[Len(pending)]
      <4> HAVE Len(answers') = Len(pending')
      <4>1. Len(answers) = Len(pending) /\ Len(pending') \in 1..Len(answers')
            /\ Len(pending') + 1 = Len(pending)
        BY <1>0, <1>1, <2>2, <3>3
      <4> QED
        BY <1>1, <4>1
    <3>6. EmptyRow' = EmptyRow
      BY DEF EmptyRow
    <3> QED
      BY <1>0, <2>3, <3>2, <3>3, <3>4, <3>5, <3>6 DEF AwaitsScan
  <2>4. CASE Sweeping
    <3>1. ASSUME NEW op, NEW k, StillTo(op, k) PROVE StillTo(op, k)'
      <4>1. PICK i \in (Len(answers) + 1)..Len(pending) : pending[i].op = op /\ pending[i].key = k
        BY <3>1 DEF StillTo
      <4>2. /\ i - 1 \in (Len(answers') + 1)..Len(pending') /\ i - 1 \in 1..Len(pending')
            /\ (i - 1) + 1 = i
        BY <1>0, <1>1, <2>2
      <4>3. pending'[i - 1] = pending[i]
        BY <2>2, <4>2
      <4> QED
        BY <4>1, <4>2, <4>3 DEF StillTo
    <3>2. \A i \in 1..Len(pending') : pending'[i].op \in {"hgetall", "srem", "del"}
      BY <2>2, <2>4 DEF Sweeping
    <3>3. EmptyRow' = EmptyRow
      BY DEF EmptyRow
    <3> QED
      BY <1>0, <2>4, <3>1, <3>2, <3>3 DEF Sweeping
  <2> QED
    BY <2>3, <2>4
<1>4. CASE Head(pending).op = "smembers"
  <2>0. Len(pending) \in Nat /\ Len(pending) >= 1
    BY <1>0, TailCmds
  <2>1. /\ 1 \in 1..Len(pending)
        /\ Len(pending) # 1 => 1 \in 1..(Len(pending) - 1)
    <3>1. PICK n \in Nat : n = Len(pending)
      BY <2>0
    <3>2. n >= 1
      BY <2>0, <3>1
    <3>3. 1 \in 1..n /\ (n # 1 => 1 \in 1..(n - 1))
      BY <3>2
    <3> QED
      BY <3>1, <3>3
  <2>2. ~Sweeping
    BY <1>1, <1>4, <2>1 DEF Sweeping
  <2>3. AwaitsScan => Len(pending) = 1
    BY <1>1, <1>4, <2>1 DEF AwaitsScan
  <2> QED
    BY <1>2, <2>2, <2>3
<1> QED
  BY <1>3, <1>4

(* A call is recorded as a delete-all only when its SMEMBERS is the one    *)
(* that the flag is up for.                                                *)
LEMMA SweepCalls ==
  ASSUME IInv, connState # "disconnected", ApiCall, lastCall' = "deleteAll"
  PROVE  ending' = "none" /\ AwaitsScan'
<1>1. DeleteAllRow
  <2>1. ASSUME NEW op, Call(op), op # "deleteAll" PROVE FALSE
    BY <2>1 DEF Call, Recorded
  <2> QED
    BY <2>1 DEF ApiCall, WriteSingleRow, WriteSingleColumn, SubmitWrite, DeleteSingleRow, ReadAll,
           FlushAll, Close
<1>2. /\ Call("deleteAll") /\ ExecCmds(<<SmembersCmd("deleteAll")>>) /\ ReturnFrom(fullRead, TRUE)
  BY <1>1 DEF DeleteAllRow
<1> DEFINE c == SmembersCmd("deleteAll")
<1>3. c \in Cmds /\ c.op = "smembers"
  BY DEF SmembersCmd, Cmd, Cmds, OpNames, CallNames
<1>4. /\ pending' = pending \o <<c>> /\ deleteAll' /\ answers' = answers
      /\ ending = "none" /\ ending' = "none"
  BY <1>2 DEF ExecCmds, ReturnFrom, Call, MayCall
<1>5. \A i \in DOMAIN pending : pending[i].op \notin {"smembers", "del"}
  BY <1>2 DEF Call, Recorded
<1> HIDE DEF c
<1>6. /\ pending \in Seq(Cmds) /\ Len(answers) \in Nat /\ Len(pending) \in Nat
      /\ Len(answers) <= Len(pending) /\ <<c>> \in Seq(Cmds) /\ Len(<<c>>) = 1 /\ <<c>>[1] = c
  BY <1>3, <1>4, PositionType
<1>7. /\ Len(pending') = Len(pending) + 1 /\ pending'[Len(pending) + 1] = c
      /\ \A i \in 1..Len(pending) : pending'[i] = pending[i]
  BY <1>4, <1>6, ConcatAt
<1>8. \A i \in 1..(Len(pending') - 1) : pending'[i].op \notin {"smembers", "del"}
  <2> TAKE i \in 1..(Len(pending') - 1)
  <2>1. i \in 1..Len(pending) /\ i \in DOMAIN pending
    BY <1>6, <1>7
  <2> QED
    BY <1>5, <1>7, <2>1
<1>9. Len(pending') > 0 /\ Len(answers') # Len(pending')
  BY <1>4, <1>6, <1>7
<1> QED
  BY <1>3, <1>4, <1>7, <1>8, <1>9 DEF AwaitsScan

(* Nothing is called, and no connection is lost, when the handle is        *)
(* created.                                                                *)
LEMMA InitSweep == Init => SweepInv
  BY DEF Init, SweepInv

(* Every step of a handle that met no fault brings a delete-all forward.   *)
LEMMA NextSweep ==
  ASSUME IInv, OrphanInv, SweepInv, faults' = 0, [Next]_vars
  PROVE  SweepInv'
<1>1. /\ connState # "disconnected"
      /\ lastCall = "deleteAll" => ending = "none" /\ (AwaitsScan \/ Sweeping)
  BY FaultsGrow DEF SweepInv
<1>2. ~Fault
  BY BoundsAssumption DEF Fault, IInv, TypeOK
<1>3. ASSUME connState' # "disconnected", lastCall' = lastCall, ending' = ending,
             AwaitsScan \/ Sweeping => (AwaitsScan \/ Sweeping)'
      PROVE  SweepInv'
  BY <1>1, <1>3 DEF SweepInv
<1>4. ASSUME UNCHANGED <<pending, answers, deleteAll, ids, rows>>
      PROVE  AwaitsScan \/ Sweeping => (AwaitsScan \/ Sweeping)'
  BY <1>4 DEF AwaitsScan, Sweeping, StillTo, EmptyRow
<1>5. CASE ApiCall
  <2>1. connState' # "disconnected"
    BY <1>1, <1>5 DEF ApiCall, WriteSingleRow, WriteSingleColumn, SubmitWrite, DeleteSingleRow,
                      DeleteAllRow, ReadAll, FlushAll, Close, ReturnFrom
  <2>2. lastCall' = "deleteAll" => ending' = "none" /\ AwaitsScan'
    BY <1>1, <1>5, SweepCalls
  <2> QED
    BY <2>1, <2>2 DEF SweepInv
<1>6. CASE ConnectOk
  <2>1. answers = << >>
    <3>1. wire = << >> /\ Len(answers) <= Len(wire) /\ answers \in Seq(Replies)
      BY <1>6 DEF ConnectOk, IInv, ReplyMatching, TypeOK
    <3> QED
      BY <3>1
  <2> QED
    BY <1>3, <1>4, <1>6, <2>1 DEF ConnectOk, callVars, serverVars
<1>7. CASE ConnectFail \/ ConnectionLost \/ ServerRefusal
  BY <1>2, <1>7 DEF ConnectFail, ConnectionLost, ServerRefusal
<1>8. CASE ServerRuns
  <2>1. UNCHANGED <<connState, lastCall, ending>>
    BY <1>8 DEF ServerRuns, callVars
  <2> QED
    BY <1>1, <1>3, <1>8, <2>1, SweepRuns
<1>9. CASE Callback
  <2>1. UNCHANGED <<connState, lastCall, ending>>
    BY <1>9 DEF Callback, ReplySmembers, ReplyHgetall, ReplyDel, ReplyHmset, ReplyExec, ReplyOther,
                ReplyError, Deliver
  <2> QED
    BY <1>1, <1>3, <1>9, <2>1, SweepPops
<1>10. CASE TearDown
  <2>1. ending # "none" /\ ending # "drop" /\ lastCall # "deleteAll"
    BY <1>1, <1>10 DEF TearDown, NullReply, EmptyCmdQueue, Ended, OrphanInv
  <2>2. lastCall' = lastCall /\ connState' # "disconnected"
    BY <1>1, <1>10, <2>1 DEF TearDown, NullReply, EmptyCmdQueue, Ended, callVars
  <2> QED
    BY <2>1, <2>2 DEF SweepInv
<1>11. CASE Idle \/ UNCHANGED vars
  BY <1>1, <1>3, <1>4, <1>11 DEF Idle, vars, clientVars, callVars, serverVars
<1> QED
  BY <1>5, <1>6, <1>7, <1>8, <1>9, <1>10, <1>11 DEF Next

(* A delete-all leaves an empty table, on a handle that met no fault and   *)
(* if neither another call came behind it nor the SMEMBERS or a DEL of     *)
(* another in front of it: over writes and full reads that are still       *)
(* queued, and whether or not the connection was up when it was called.    *)
THEOREM DeleteAllEmpties == Spec => []DeleteAllEmptiesTable
<1>1. IInv /\ RowsInv /\ SweepInv /\ [Next]_vars => SweepInv'
  <2> SUFFICES ASSUME IInv, RowsInv, SweepInv, [Next]_vars, faults' = 0 PROVE SweepInv'
    BY DEF SweepInv
  <2>1. OrphanInv
    BY FaultsGrow DEF RowsInv
  <2> QED
    BY <2>1, NextSweep
<1>2. IInv /\ SweepInv => DeleteAllEmptiesTable
  <2> SUFFICES ASSUME IInv, SweepInv, lastCall = "deleteAll", faults = 0, pending = << >>
               PROVE  ids = {} /\ rows = EmptyRows
    BY DEF DeleteAllEmptiesTable
  <2>1. Len(pending) = 0 /\ Len(answers) \in Nat
    BY PositionType
  <2>2. Sweeping
    BY <2>1 DEF SweepInv, AwaitsScan
  <2>3. \A op, k : ~StillTo(op, k)
    BY <2>1 DEF StillTo
  <2>4. ids \subseteq Keys /\ rows \in [Keys -> [Cols -> Nat]]
    BY DEF IInv, TypeOK
  <2>5. ids = {} /\ \A k \in Keys : rows[k] = EmptyRow
    BY <2>2, <2>3, <2>4 DEF Sweeping
  <2> QED
    BY <2>4, <2>5 DEF EmptyRows
<1> QED
  BY <1>1, <1>2, InitSweep, InductiveInvariant, RowsInvariant, PTL DEF Spec

=============================================================================
