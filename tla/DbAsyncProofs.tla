--------------------------- MODULE DbAsyncProofs ----------------------------
(***************************************************************************)
(* Safety of the asynchronous handle for every value of the constants.     *)
(*                                                                         *)
(* WriteAnsweredOnce and SuccessMeansApplied are not inductive: whether an *)
(* EXEC reply reports anything depends on the write flag, which only the   *)
(* HMSET in front of it raises; and whether a positive reply means that    *)
(* the write was applied depends on the replies still on their way.  IInv  *)
(* adds both: PendingInv relates the queue, the flag and the outcomes, and *)
(* OkAnswersApplied the replies and the server.                            *)
(***************************************************************************)
EXTENDS DbAsync, SequenceTheorems, FiniteSetTheorems, TLAPS

(* What the concatenation of two sequences is, position by position.       *)
LEMMA ConcatCmds ==
  ASSUME NEW S, NEW q \in Seq(S), NEW r \in Seq(S)
  PROVE  /\ q \o r \in Seq(S)
         /\ Len(q \o r) = Len(q) + Len(r)
         /\ \A i \in 1..Len(q) : (q \o r)[i] = q[i]
         /\ \A i \in 1..Len(r) : (q \o r)[Len(q) + i] = r[i]
         /\ \A i \in 1..Len(q \o r) :
              (q \o r)[i] = IF i <= Len(q) THEN q[i] ELSE r[i - Len(q)]
  BY SMT

(* What is left of a queue when its head is popped.                        *)
LEMMA TailCmds ==
  ASSUME NEW S, NEW q \in Seq(S), q # << >>
  PROVE  /\ Tail(q) \in Seq(S)
         /\ Len(Tail(q)) = Len(q) - 1
         /\ Len(q) >= 1
         /\ \A i \in 1..Len(Tail(q)) : Tail(q)[i] = q[i + 1]
         /\ Head(q) = q[1] /\ Head(q) \in S
  BY SMT

(* A write queues MULTI, SADD, one HMSET for each column, EXEC, in this    *)
(* order (db_write_single_row).                                            *)
LEMMA WriteCmdsFacts ==
  ASSUME NEW k \in Keys, NEW shape \in Seq(Cols) \ {<< >>}, NEW w \in Nat,
         NEW by \in CallNames
  PROVE  /\ WriteCmds(k, shape, w, by) \in Seq(Cmds)
         /\ Len(WriteCmds(k, shape, w, by)) = Len(shape) + 3
         /\ Len(shape) >= 1
         /\ \A i \in 1..(Len(shape) + 3) : 
              WriteCmds(k, shape, w, by)[i] =
                IF i = 1 THEN Cmd("multi", NoKey, NoCol, w, by)
                ELSE IF i = 2 THEN Cmd("sadd", k, NoCol, w, by)
                ELSE IF i = Len(shape) + 3 THEN Cmd("exec", k, NoCol, w, by)
                ELSE Cmd("hmset", k, shape[i - 2], w, by)
<1> DEFINE a == <<Cmd("multi", NoKey, NoCol, w, by), Cmd("sadd", k, NoCol, w, by)>>
           h == [i \in 1..Len(shape) |-> Cmd("hmset", k, shape[i], w, by)]
           e == <<Cmd("exec", k, NoCol, w, by)>>
<1>1. a \in Seq(Cmds) /\ Len(a) = 2 /\ e \in Seq(Cmds) /\ Len(e) = 1
  BY DEF Cmds, Cmd, OpNames
<1>2. h \in Seq(Cmds) /\ Len(h) = Len(shape)
  BY DEF Cmds, Cmd, OpNames
<1>3. (a \o h) \in Seq(Cmds) /\ (a \o h) \o e \in Seq(Cmds)
  BY <1>1, <1>2, ConcatCmds
<1>4. Len(shape) >= 1
  OBVIOUS
<1>5. WriteCmds(k, shape, w, by) = (a \o h) \o e
  BY DEF WriteCmds
<1> QED
  BY <1>1, <1>2, <1>3, <1>4, <1>5, SMT


-----------------------------------------------------------------------------
(* The pending queue q against the write flag and the recorded outcomes,   *)
(* after n calls: every EXEC belongs to one of the calls, is preceded by   *)
(* an HMSET of its write or has its flag up, no two belong to one write,   *)
(* and the writes that are open are those whose EXEC is queued.            *)
ExecsGuarded(q, flag, n) ==
  \A i \in 1..Len(q) : q[i].op = "exec" =>
     /\ q[i].id \in 1..n
     /\ IF i = 1 THEN flag ELSE q[i - 1].op = "hmset"

ExecsDistinct(q) ==
  \A i, j \in 1..Len(q) :
     q[i].op = "exec" /\ q[j].op = "exec" /\ q[i].id = q[j].id => i = j

OpenIffQueued(q, out) ==
  \A w \in 1..MaxCalls :
    /\ out[w] # "twice"
    /\ out[w] = "open" <=> \E i \in 1..Len(q) : q[i].op = "exec" /\ q[i].id = w

NoneAfter(out, n) == \A w \in 1..MaxCalls : w > n => out[w] = "none"

QueueInv(q, flag, out, n) ==
  /\ ExecsGuarded(q, flag, n)
  /\ ExecsDistinct(q)
  /\ OpenIffQueued(q, out)
  /\ NoneAfter(out, n)

Outcomes == {"none", "open", "ok", "failed", "twice"}

(* Commands other than EXEC, queued behind q, leave every write as it      *)
(* was, also if an API call is counted with them.                          *)
LEMMA AppendPlain ==
  ASSUME NEW q \in Seq(Cmds), NEW r \in Seq(Cmds), NEW flag, NEW out, NEW n \in Nat,
         \A i \in 1..Len(r) : r[i].op # "exec",
         QueueInv(q, flag, out, n), NEW m \in Nat, m >= n
  PROVE  QueueInv(q \o r, flag, out, m)
<1> DEFINE s == q \o r
<1>1. /\ s \in Seq(Cmds) /\ Len(s) = Len(q) + Len(r)
      /\ \A i \in 1..Len(s) : s[i] = IF i <= Len(q) THEN q[i] ELSE r[i - Len(q)]
  BY ConcatCmds
<1>2. \A i \in 1..Len(s) : s[i].op = "exec" => i \in 1..Len(q) /\ s[i] = q[i]
  BY <1>1
<1>3. \A i \in 1..Len(q) : i \in 1..Len(s) /\ s[i] = q[i]
  BY <1>1
<1> HIDE DEF s
<1>4. ExecsGuarded(s, flag, m)
  <2> SUFFICES ASSUME NEW i \in 1..Len(s), s[i].op = "exec"
               PROVE  s[i].id \in 1..m /\ (IF i = 1 THEN flag ELSE s[i - 1].op = "hmset")
    BY DEF ExecsGuarded
  <2>1. i \in 1..Len(q) /\ s[i] = q[i]
    BY <1>2
  <2>2. q[i].id \in 1..n /\ (IF i = 1 THEN flag ELSE q[i - 1].op = "hmset")
    BY <2>1 DEF QueueInv, ExecsGuarded
  <2>3. CASE i = 1
    BY <2>1, <2>2, <2>3
  <2>4. CASE i # 1
    <3>1. i - 1 \in 1..Len(q)
      BY <2>1, <2>4
    <3>2. s[i - 1] = q[i - 1]
      BY <3>1, <1>3
    <3>3. s[i].id \in 1..m
      BY <2>1, <2>2
    <3>4. q[i - 1].op = "hmset"
      BY <2>2, <2>4
    <3> QED
      BY <2>4, <3>2, <3>3, <3>4
  <2> QED
    BY <2>3, <2>4
<1>5. ExecsDistinct(s)
  BY <1>2 DEF QueueInv, ExecsDistinct
<1>6. OpenIffQueued(s, out)
  BY <1>2, <1>3 DEF QueueInv, OpenIffQueued
<1>7. NoneAfter(out, m)
  BY DEF QueueInv, NoneAfter
<1> QED
  BY <1>4, <1>5, <1>6, <1>7 DEF QueueInv, s

(* The same when no API call is counted: the commands of a callback.       *)
LEMMA AppendOthers ==
  ASSUME NEW q \in Seq(Cmds), NEW r \in Seq(Cmds), NEW flag, NEW out, NEW n \in Nat,
         \A i \in 1..Len(r) : r[i].op # "exec",
         QueueInv(q, flag, out, n)
  PROVE  QueueInv(q \o r, flag, out, n)
<1>1. n >= n
  OBVIOUS
<1> QED
  BY <1>1, AppendPlain, Zenon

(* Queueing the commands of the next write opens that write and no other:  *)
(* its EXEC is the only one with its number and stands behind an HMSET.    *)
LEMMA AppendWrite ==
  ASSUME NEW q \in Seq(Cmds), NEW flag, NEW n \in Nat, n + 1 \in 1..MaxCalls,
         NEW out \in [1..MaxCalls -> Outcomes],
         NEW k \in Keys, NEW shape \in Seq(Cols) \ {<< >>}, NEW by \in CallNames,
         QueueInv(q, flag, out, n)
  PROVE  QueueInv(q \o WriteCmds(k, shape, n + 1, by), flag,
                  [out EXCEPT ![n + 1] = "open"], n + 1)
<1> DEFINE r == WriteCmds(k, shape, n + 1, by)
           s == q \o r
           out2 == [out EXCEPT ![n + 1] = "open"]
           last == Len(q) + Len(shape) + 3
<1>0. /\ r \in Seq(Cmds) /\ Len(r) = Len(shape) + 3 /\ Len(shape) >= 1
      /\ \A i \in 1..(Len(shape) + 3) :
           r[i] = IF i = 1 THEN Cmd("multi", NoKey, NoCol, n + 1, by)
                  ELSE IF i = 2 THEN Cmd("sadd", k, NoCol, n + 1, by)
                  ELSE IF i = Len(shape) + 3 THEN Cmd("exec", k, NoCol, n + 1, by)
                  ELSE Cmd("hmset", k, shape[i - 2], n + 1, by)
  <2>1. n + 1 \in Nat
    OBVIOUS
  <2> QED
    BY <2>1, WriteCmdsFacts
<1> HIDE DEF r
<1>1. /\ r \in Seq(Cmds) /\ Len(r) = Len(shape) + 3 /\ Len(shape) >= 1
      /\ Len(shape) \in Nat /\ Len(q) \in Nat
      /\ \A i \in 1..Len(r) : r[i].op = "exec" <=> i = Len(r)
      /\ r[Len(r)].id = n + 1 /\ r[Len(r) - 1].op = "hmset"
  <2>1. Len(shape) \in Nat /\ Len(q) \in Nat
    OBVIOUS
  <2>2. r[Len(shape) + 3] = Cmd("exec", k, NoCol, n + 1, by)
    BY <1>0, <2>1
  <2>3. r[Len(shape) + 2] = Cmd("hmset", k, shape[Len(shape)], n + 1, by)
    BY <1>0, <2>1
  <2>4. \A i \in 1..(Len(shape) + 3) : i # Len(shape) + 3 => r[i].op # "exec"
    BY <1>0, <2>1 DEF Cmd
  <2> QED
    BY <1>0, <2>1, <2>2, <2>3, <2>4 DEF Cmd
<1>2. /\ s \in Seq(Cmds) /\ Len(s) = last
      /\ \A i \in 1..Len(s) : s[i] = IF i <= Len(q) THEN q[i] ELSE r[i - Len(q)]
  <2>1. r \in Seq(Cmds)
    BY <1>1
  <2>2. /\ s \in Seq(Cmds) /\ Len(s) = Len(q) + Len(r)
        /\ \A i \in 1..Len(s) : s[i] = IF i <= Len(q) THEN q[i] ELSE r[i - Len(q)]
    BY <2>1, ConcatCmds
  <2> HIDE DEF s
  <2> QED
    BY <1>1, <2>2
<1> HIDE DEF s
<1>a. /\ last \in 1..Len(s) /\ last - 1 \in 1..Len(s) /\ last > Len(q) + 1
      /\ last - Len(q) = Len(r) /\ (last - 1) - Len(q) = Len(r) - 1
  BY <1>1, <1>2
<1>b. \A i \in 1..Len(s) : i > Len(q) =>
        i - Len(q) \in 1..Len(r) /\ (i - Len(q) = Len(r) => i = last)
  BY <1>1, <1>2
<1>c. Len(s) = last /\ last # 1 /\ last \in Nat
  BY <1>1, <1>2
<1> HIDE DEF last
<1>3. /\ Len(q) \in Nat /\ last \in 1..Len(s)
      /\ s[last].op = "exec" /\ s[last].id = n + 1 /\ s[last - 1].op = "hmset"
  <2>a. /\ s[last] = IF last <= Len(q) THEN q[last] ELSE r[last - Len(q)]
        /\ s[last - 1] = IF last - 1 <= Len(q) THEN q[last - 1] ELSE r[(last - 1) - Len(q)]
    BY <1>a, <1>2, Zenon
  <2>b. ~(last <= Len(q)) /\ ~(last - 1 <= Len(q))
    BY <1>1, <1>a, <1>c
  <2>1. s[last] = r[Len(r)]
    BY <2>a, <2>b, <1>a, Zenon
  <2>2. s[last - 1] = r[Len(r) - 1]
    BY <2>a, <2>b, <1>a, Zenon
  <2>3. Len(r) \in 1..Len(r)
    BY <1>1
  <2> QED
    BY <1>1, <1>a, <2>1, <2>2, <2>3
<1>4. \A i \in 1..Len(s) : s[i].op = "exec" =>
        i = last \/ (i \in 1..Len(q) /\ s[i] = q[i])
  <2> SUFFICES ASSUME NEW i \in 1..Len(s), s[i].op = "exec", i # last
               PROVE  i \in 1..Len(q) /\ s[i] = q[i]
    OBVIOUS
  <2>1. ~(i > Len(q))
    <3> SUFFICES ASSUME i > Len(q) PROVE FALSE
      OBVIOUS
    <3>1. s[i] = r[i - Len(q)] /\ i - Len(q) \in 1..Len(r)
      BY <1>1, <1>2, <1>b
    <3> QED
      BY <3>1, <1>1, <1>b
  <2> QED
    BY <2>1, <1>1, <1>2, <1>c
<1>5. \A i \in 1..Len(q) : i \in 1..Len(s) /\ s[i] = q[i] /\ i # last
  BY <1>1, <1>2, <1>a, <1>c
<1>6. \A i \in 1..Len(q) : q[i].op = "exec" => q[i].id \in 1..n
  BY DEF QueueInv, ExecsGuarded
<1>7. ExecsGuarded(s, flag, n + 1)
  <2> SUFFICES ASSUME NEW i \in 1..Len(s), s[i].op = "exec"
               PROVE  s[i].id \in 1..(n + 1) /\ (IF i = 1 THEN flag ELSE s[i - 1].op = "hmset")
    BY DEF ExecsGuarded
  <2>1. CASE i = last
    <3> QED
      BY <2>1, <1>3, <1>c
  <2>2. CASE i # last
    <3>1. i \in 1..Len(q) /\ s[i] = q[i]
      BY <2>2, <1>4
    <3>2. q[i].id \in 1..n /\ (IF i = 1 THEN flag ELSE q[i - 1].op = "hmset")
      BY <3>1 DEF QueueInv, ExecsGuarded
    <3>3. i # 1 => i - 1 \in 1..Len(q)
      BY <3>1
    <3>4. CASE i = 1
      BY <3>1, <3>2, <3>4
    <3>5. CASE i # 1
      <4>1. s[i - 1] = q[i - 1]
        BY <3>3, <3>5, <1>5
      <4>2. q[i - 1].op = "hmset"
        BY <3>2, <3>5
      <4>3. s[i].id \in 1..(n + 1)
        BY <3>1, <3>2
      <4> QED
        BY <3>5, <4>1, <4>2, <4>3
    <3> QED
      BY <3>4, <3>5
  <2> QED
    BY <2>1, <2>2
<1>8. ExecsDistinct(s)
  <2> SUFFICES ASSUME NEW i \in 1..Len(s), NEW j \in 1..Len(s),
                      s[i].op = "exec", s[j].op = "exec", s[i].id = s[j].id
               PROVE  i = j
    BY DEF ExecsDistinct
  <2>1. ASSUME NEW x \in 1..Len(s), s[x].op = "exec", x # last
        PROVE  x \in 1..Len(q) /\ s[x] = q[x] /\ s[x].id # n + 1
    <3>1. x \in 1..Len(q) /\ s[x] = q[x]
      BY <2>1, <1>4
    <3>2. q[x].id \in 1..n
      BY <2>1, <3>1, <1>6
    <3> QED
      BY <3>1, <3>2
  <2>2. s[last].id = n + 1
    BY <1>3
  <2>3. CASE i = last /\ j = last
    BY <2>3
  <2>4. CASE i = last /\ j # last
    BY <2>1, <2>2, <2>4
  <2>5. CASE i # last /\ j = last
    BY <2>1, <2>2, <2>5
  <2>6. CASE i # last /\ j # last
    <3>1. i \in 1..Len(q) /\ s[i] = q[i]
      BY <2>1, <2>6
    <3>2. j \in 1..Len(q) /\ s[j] = q[j]
      BY <2>1, <2>6
    <3>3. ExecsDistinct(q)
      BY DEF QueueInv
    <3> QED
      BY <3>1, <3>2, <3>3 DEF ExecsDistinct
  <2> QED
    BY <2>3, <2>4, <2>5, <2>6
<1>9. OpenIffQueued(s, out2)
  <2> SUFFICES ASSUME NEW w \in 1..MaxCalls
               PROVE  /\ out2[w] # "twice"
                      /\ out2[w] = "open" <=> \E i \in 1..Len(s) : s[i].op = "exec" /\ s[i].id = w
    BY DEF OpenIffQueued
  <2>1. CASE w = n + 1
    BY <2>1, <1>3
  <2>2. CASE w # n + 1
    <3>1. out2[w] = out[w]
      BY <2>2
    <3>2. ASSUME NEW i \in 1..Len(s), s[i].op = "exec", s[i].id = w
          PROVE  \E j \in 1..Len(q) : q[j].op = "exec" /\ q[j].id = w
      BY <3>2, <2>2, <1>3, <1>4
    <3>3. ASSUME NEW i \in 1..Len(q), q[i].op = "exec", q[i].id = w
          PROVE  \E j \in 1..Len(s) : s[j].op = "exec" /\ s[j].id = w
      BY <3>3, <1>5
    <3>4. out[w] # "twice" /\ (out[w] = "open" <=>
             \E i \in 1..Len(q) : q[i].op = "exec" /\ q[i].id = w)
      BY DEF QueueInv, OpenIffQueued
    <3> QED
      BY <3>1, <3>2, <3>3, <3>4
  <2> QED
    BY <2>1, <2>2
<1>10. NoneAfter(out2, n + 1)
  BY DEF QueueInv, NoneAfter
<1> QED
  BY <1>7, <1>8, <1>9, <1>10 DEF QueueInv, s, r

(* A head other than EXEC is popped; if it is an HMSET its callback has    *)
(* raised the write flag (db_cmd_callback_fn, db_cmd_failure).             *)
LEMMA PopPlain ==
  ASSUME NEW q \in Seq(Cmds), q # << >>, NEW flag, NEW flag2, NEW out, NEW n \in Nat,
         QueueInv(q, flag, out, n), Head(q).op # "exec",
         Head(q).op = "hmset" => flag2
  PROVE  QueueInv(Tail(q), flag2, out, n)
<1> DEFINE s == Tail(q)
<1>1. /\ s \in Seq(Cmds) /\ Len(s) = Len(q) - 1 /\ Len(q) >= 1 /\ Len(q) \in Nat
      /\ \A i \in 1..Len(s) : s[i] = q[i + 1]
      /\ Head(q) = q[1]
  BY TailCmds
<1> HIDE DEF s
<1>2. \A i \in 1..Len(s) : i + 1 \in 1..Len(q) /\ s[i] = q[i + 1]
  BY <1>1
<1>3. \A i \in 1..Len(q) : q[i].op = "exec" => i - 1 \in 1..Len(s) /\ s[i - 1] = q[i]
  BY <1>1
<1>4. ExecsGuarded(s, flag2, n)
  <2> SUFFICES ASSUME NEW i \in 1..Len(s), s[i].op = "exec"
               PROVE  s[i].id \in 1..n /\ (IF i = 1 THEN flag2 ELSE s[i - 1].op = "hmset")
    BY DEF ExecsGuarded
  <2>1. q[i + 1].id \in 1..n /\ q[i].op = "hmset"
    BY <1>2 DEF QueueInv, ExecsGuarded
  <2>2. i # 1 => s[i - 1] = q[i]
    BY <1>1
  <2> QED
    BY <2>1, <2>2, <1>1, <1>2
<1>5. ExecsDistinct(s)
  BY <1>2 DEF QueueInv, ExecsDistinct
<1>6. OpenIffQueued(s, out)
  BY <1>2, <1>3 DEF QueueInv, OpenIffQueued
<1> QED
  BY <1>4, <1>5, <1>6 DEF QueueInv, s

(* The head is an EXEC: its write is open and the flag is up, so write_cb  *)
(* is called with the result, and the write is closed for good.            *)
LEMMA PopExec ==
  ASSUME NEW q \in Seq(Cmds), q # << >>, NEW flag, NEW n \in Nat, n <= MaxCalls,
         NEW out \in [1..MaxCalls -> Outcomes], NEW result \in {"ok", "failed"},
         QueueInv(q, flag, out, n), Head(q).op = "exec"
  PROVE  /\ flag
         /\ Head(q).id \in 1..MaxCalls
         /\ out[Head(q).id] = "open"
         /\ QueueInv(Tail(q), FALSE, [out EXCEPT ![Head(q).id] = result], n)
<1> DEFINE s == Tail(q)
           v == q[1].id
           out2 == [out EXCEPT ![v] = result]
<1>1. /\ s \in Seq(Cmds) /\ Len(s) = Len(q) - 1 /\ Len(q) >= 1 /\ Len(q) \in Nat
      /\ \A i \in 1..Len(s) : s[i] = q[i + 1]
      /\ Head(q) = q[1] /\ 1 \in 1..Len(q)
  BY TailCmds
<1>2. flag /\ v \in 1..n
  BY <1>1 DEF QueueInv, ExecsGuarded
<1>3. v \in 1..MaxCalls /\ out[v] = "open"
  BY <1>1, <1>2, BoundsAssumption DEF QueueInv, OpenIffQueued
<1> HIDE DEF s
<1>4. \A i \in 1..Len(s) : i + 1 \in 1..Len(q) /\ s[i] = q[i + 1] /\ i + 1 # 1
  BY <1>1
<1>5. \A i \in 1..Len(q) : i # 1 => i - 1 \in 1..Len(s) /\ s[i - 1] = q[i]
  BY <1>1
<1>6. \A i \in 1..Len(s) : s[i].op = "exec" => s[i].id # v
  BY <1>1, <1>4 DEF QueueInv, ExecsDistinct
<1>7. ExecsGuarded(s, FALSE, n)
  <2> SUFFICES ASSUME NEW i \in 1..Len(s), s[i].op = "exec"
               PROVE  s[i].id \in 1..n /\ (IF i = 1 THEN FALSE ELSE s[i - 1].op = "hmset")
    BY DEF ExecsGuarded
  <2>1. q[i + 1].id \in 1..n /\ q[i].op = "hmset"
    BY <1>4 DEF QueueInv, ExecsGuarded
  <2>2. i # 1
    BY <2>1, <1>1
  <2>3. s[i - 1] = q[i]
    BY <2>2, <1>1
  <2> QED
    BY <2>1, <2>2, <2>3, <1>4
<1>8. ExecsDistinct(s)
  BY <1>4 DEF QueueInv, ExecsDistinct
<1>9. OpenIffQueued(s, out2)
  <2> SUFFICES ASSUME NEW w \in 1..MaxCalls
               PROVE  /\ out2[w] # "twice"
                      /\ out2[w] = "open" <=> \E i \in 1..Len(s) : s[i].op = "exec" /\ s[i].id = w
    BY DEF OpenIffQueued
  <2>1. CASE w = v
    BY <2>1, <1>6
  <2>2. CASE w # v
    <3>1. out2[w] = out[w]
      BY <2>2
    <3>2. ASSUME NEW i \in 1..Len(s), s[i].op = "exec", s[i].id = w
          PROVE  \E j \in 1..Len(q) : q[j].op = "exec" /\ q[j].id = w
      BY <3>2, <1>4
    <3>3. ASSUME NEW i \in 1..Len(q), q[i].op = "exec", q[i].id = w
          PROVE  \E j \in 1..Len(s) : s[j].op = "exec" /\ s[j].id = w
      <4>1. i # 1
        BY <3>3, <2>2, <1>1
      <4>2. i - 1 \in 1..Len(s) /\ s[i - 1] = q[i]
        BY <4>1, <1>5
      <4> QED
        BY <4>2, <3>3
    <3>4. out[w] # "twice" /\ (out[w] = "open" <=>
             \E i \in 1..Len(q) : q[i].op = "exec" /\ q[i].id = w)
      BY DEF QueueInv, OpenIffQueued
    <3> QED
      BY <3>1, <3>2, <3>3, <3>4
  <2> QED
    BY <2>1, <2>2
<1>10. NoneAfter(out2, n)
  BY <1>2 DEF QueueInv, NoneAfter
<1> QED
  BY <1>1, <1>2, <1>3, <1>7, <1>8, <1>9, <1>10 DEF QueueInv, s

-----------------------------------------------------------------------------
(* Commands other than those of a write.                                   *)

Plain(r) == r \in Seq(Cmds) /\ \A i \in 1..Len(r) : r[i].op \notin {"multi", "sadd", "hmset", "exec"}

(* db_delete_single_row queues nothing of a write.                          *)
LEMMA PlainDelete ==
  ASSUME NEW k \in Keys, NEW by \in CallNames PROVE Plain(DeleteCmds(k, by))
<1> DEFINE a == Cmd("srem", k, NoCol, 0, by)
           b == Cmd("del", k, NoCol, 0, by)
<1>1. a \in Cmds /\ a.op = "srem" /\ b \in Cmds /\ b.op = "del"
  BY DEF Cmds, Cmd, OpNames
<1>2. DeleteCmds(k, by) = <<a, b>>
  BY DEF DeleteCmds
<1> HIDE DEF a, b
<1> QED
  BY <1>1, <1>2 DEF Plain

(* The command of db_read_all, db_delete_all_row or db_delete_all is none  *)
(* of a write.                                                             *)
LEMMA PlainSingle ==
  ASSUME NEW by \in CallNames, NEW op \in {"smembers", "flushdb"}
  PROVE  Plain(<<Cmd(op, NoKey, NoCol, 0, by)>>)
  BY DEF Plain, Cmd, Cmds, OpNames

(* issue_read_commands queues nothing of a write.                          *)
LEMMA PlainRead ==
  ASSUME NEW order \in Seq(Keys) PROVE Plain(ReadCmds(order))
  BY DEF Plain, ReadCmds, Cmd, Cmds, OpNames, CallNames

(* issue_del_row_commands queues nothing of a write.                       *)
LEMMA PlainDelRow ==
  ASSUME NEW order \in Seq(Keys) PROVE Plain(DelRowCmds(order))
<1> DEFINE n == Len(order)
           r == DelRowCmds(order)
<1>1. n \in Nat /\ \A j \in 1..n : order[j] \in Keys
  OBVIOUS
<1> HIDE DEF n
<1>2. \A i \in 1..(2 * n) :
        IF i % 2 = 1 THEN (i + 1) \div 2 \in 1..n ELSE i \div 2 \in 1..n
  BY <1>1
<1>3. r = [i \in 1..(2 * n) |->
             IF i % 2 = 1 THEN Cmd("srem", order[(i + 1) \div 2], NoCol, 0, "deleteAll")
                          ELSE Cmd("del", order[i \div 2], NoCol, 0, "deleteAll")]
  BY DEF DelRowCmds, n
<1>4. \A i \in 1..(2 * n) : r[i] \in Cmds /\ r[i].op \in {"srem", "del"}
  <2> SUFFICES ASSUME NEW i \in 1..(2 * n)
               PROVE  r[i] \in Cmds /\ r[i].op \in {"srem", "del"}
    OBVIOUS
  <2>1. CASE i % 2 = 1
    <3>1. order[(i + 1) \div 2] \in Keys
      BY <1>1, <1>2, <2>1
    <3>2. r[i] = Cmd("srem", order[(i + 1) \div 2], NoCol, 0, "deleteAll")
      BY <1>3, <2>1
    <3> QED
      BY <3>1, <3>2 DEF Cmd, Cmds, OpNames, CallNames
  <2>2. CASE i % 2 # 1
    <3>1. order[i \div 2] \in Keys
      BY <1>1, <1>2, <2>2
    <3>2. r[i] = Cmd("del", order[i \div 2], NoCol, 0, "deleteAll")
      BY <1>3, <2>2
    <3> QED
      BY <3>1, <3>2 DEF Cmd, Cmds, OpNames, CallNames
  <2> QED
    BY <2>1, <2>2
<1>5. r \in Seq(Cmds) /\ Len(r) = 2 * n
  BY <1>1, <1>3, <1>4
<1> HIDE DEF r
<1>6. Plain(r)
  BY <1>1, <1>4, <1>5 DEF Plain
<1> QED
  BY <1>6 DEF r

(* Plain command lists are closed under concatenation.                     *)
LEMMA PlainConcat ==
  ASSUME NEW q, NEW r, Plain(q), Plain(r)
  PROVE  Plain(q \o r)
  BY ConcatCmds DEF Plain

(* An order in which SMEMBERS lists the index is a sequence of row keys.   *)
LEMMA OrderIsSeq ==
  ASSUME NEW S \in SUBSET Keys, NEW order \in SetToSeqs(S)
  PROVE  order \in Seq(Keys)
<1>1. IsFiniteSet(S)
  BY KeysFinite, FS_Subset
<1>2. Cardinality(S) \in Nat
  BY <1>1, FS_CardinalityType
<1> QED
  BY <1>2 DEF SetToSeqs

-----------------------------------------------------------------------------
(* The inductive invariant.                                                *)

(* A positive reply to an EXEC exists only once the write is applied.      *)
OkAnswersApplied ==
  \A i \in 1..Len(answers) : wire[i].op = "exec" /\ answers[i].ok => wire[i].id \in applied

PendingInv == QueueInv(pending, writeCb, outcome, calls)

IInv == TypeOK /\ ReplyMatching /\ PendingInv /\ OkAnswersApplied /\ SuccessMeansApplied

(* The handle as db_open leaves it satisfies the invariant.                *)
LEMMA InitIInv == Init => IInv
<1> SUFFICES ASSUME Init PROVE IInv
  OBVIOUS
<1>1. TypeOK
  <2>1. << >> \in Seq(Cmds) /\ << >> \in Seq(Replies)
    OBVIOUS
  <2>2. rows \in [Keys -> [Cols -> Nat]]
    BY DEF Init, ServerInit, EmptyRows, EmptyRow
  <2>3. txn \in [open : BOOLEAN, dirty : BOOLEAN, queued : SUBSET Cmds]
    BY DEF Init, ServerInit, NoTxn
  <2>4. outcome \in [1..MaxCalls -> {"none", "open", "ok", "failed", "twice"}]
    BY DEF Init
  <2>5. calls \in 0..MaxCalls /\ faults \in 0..MaxFaults
    BY BoundsAssumption DEF Init
  <2>6. /\ pending \in Seq(Cmds) /\ wire \in Seq(Cmds) /\ answers \in Seq(Replies)
        /\ rowsLeft \in Int /\ readsDue \in Int
    BY <2>1 DEF Init
  <2>9. fullRead \in BOOLEAN /\ deleteAll \in BOOLEAN /\ writeCb \in BOOLEAN
    BY DEF Init
  <2>7. ids \subseteq Keys /\ applied \subseteq 1..MaxCalls
    BY DEF Init, ServerInit
  <2>8. /\ connState \in {"connecting", "connected", "disconnected", "closed"}
        /\ ending \in {"none", "drop", "close"}
        /\ lastCall \in CallNames \cup {"none", "close", "deleteAllBehind"}
    BY DEF Init
  <2> QED
    BY <2>2, <2>3, <2>4, <2>5, <2>6, <2>7, <2>8, <2>9 DEF TypeOK
<1>2. ReplyMatching
  BY DEF Init, ReplyMatching
<1>3. PendingInv
  BY BoundsAssumption DEF Init, PendingInv, QueueInv, ExecsGuarded, ExecsDistinct, OpenIffQueued, NoneAfter
<1>4. OkAnswersApplied /\ SuccessMeansApplied
  BY DEF Init, OkAnswersApplied, SuccessMeansApplied
<1> QED
  BY <1>1, <1>2, <1>3, <1>4 DEF IInv

(* A call that queues the commands r.                                      *)
LEMMA CallIInv ==
  ASSUME IInv, NEW op \in CallNames, Call(op),
         NEW r \in Seq(Cmds), ExecCmds(r),
         NEW fr \in BOOLEAN, NEW da \in BOOLEAN, ReturnFrom(fr, da),
         outcome' \in [1..MaxCalls -> Outcomes], readsDue' \in Int,
         QueueInv(pending \o r, writeCb, outcome', calls + 1),
         \A w \in 1..MaxCalls : outcome'[w] = "ok" => outcome[w] = "ok"
  PROVE  IInv'
<1> USE DEF Call, MayCall, ExecCmds, ReturnFrom
<1>1. TypeOK'
  <2>1. pending' \in Seq(Cmds) /\ wire' \in Seq(Cmds)
    BY ConcatCmds DEF IInv, TypeOK
  <2>2. calls' \in 0..MaxCalls
    BY BoundsAssumption DEF IInv, TypeOK
  <2> QED
    BY <2>1, <2>2 DEF IInv, TypeOK, serverVars, Outcomes, Recorded
<1>2. Len(wire) \in Nat /\ Len(r) \in Nat /\ Len(wire) <= Len(wire')
      /\ \A i \in 1..Len(wire) : wire'[i] = wire[i]
  <2>1. wire \in Seq(Cmds)
    BY DEF IInv, TypeOK
  <2>2. CASE connState = "connected"
    BY <2>1, <2>2, ConcatCmds
  <2>3. CASE connState # "connected"
    BY <2>1, <2>3
  <2> QED
    BY <2>2, <2>3
<1>3. ReplyMatching'
  <2>1. Len(answers) \in Nat /\ Len(answers) <= Len(wire)
    BY DEF IInv, TypeOK, ReplyMatching
  <2>2. Len(answers') <= Len(wire')
    BY <1>2, <2>1
  <2> QED
    BY <2>2 DEF IInv, TypeOK, ReplyMatching
<1>4. PendingInv'
  BY DEF PendingInv
<1>5. OkAnswersApplied'
  <2>1. \A i \in 1..Len(answers) : i \in 1..Len(wire)
    BY DEF IInv, TypeOK, ReplyMatching
  <2> QED
    BY <1>2, <2>1 DEF IInv, OkAnswersApplied, serverVars
<1>6. SuccessMeansApplied'
  BY DEF IInv, SuccessMeansApplied, serverVars
<1> QED
  BY <1>1, <1>3, <1>4, <1>5, <1>6 DEF IInv

(* An API call that is no write keeps the invariant.                       *)
LEMMA PlainCallIInv ==
  ASSUME IInv, NEW op \in CallNames, Call(op),
         NEW r, Plain(r), ExecCmds(r),
         NEW fr \in BOOLEAN, NEW da \in BOOLEAN, ReturnFrom(fr, da),
         outcome' = outcome, readsDue' \in Int
  PROVE  IInv'
<1>1. r \in Seq(Cmds) /\ \A i \in 1..Len(r) : r[i].op # "exec"
  BY DEF Plain
<1>2. pending \in Seq(Cmds) /\ calls \in Nat /\ outcome \in [1..MaxCalls -> Outcomes]
  BY DEF IInv, TypeOK, Outcomes
<1>3. QueueInv(pending \o r, writeCb, outcome', calls + 1)
  <2>1. QueueInv(pending, writeCb, outcome, calls)
    BY DEF IInv, PendingInv
  <2>2. calls + 1 \in Nat /\ calls + 1 >= calls
    BY <1>2
  <2> QED
    BY <1>1, <1>2, <2>1, <2>2, AppendPlain
<1> QED
  BY <1>1, <1>2, <1>3, CallIInv

(* An API call that writes a row or a column keeps the invariant.          *)
LEMMA WriteIInv ==
  ASSUME IInv, NEW k \in Keys, NEW shape \in Seq(Cols) \ {<< >>},
         NEW by \in CallNames, SubmitWrite(k, shape, by)
  PROVE  IInv'
<1> DEFINE r == WriteCmds(k, shape, calls + 1, by)
<1>1. /\ pending \in Seq(Cmds) /\ calls \in Nat /\ outcome \in [1..MaxCalls -> Outcomes]
      /\ fullRead \in BOOLEAN /\ deleteAll \in BOOLEAN
      /\ QueueInv(pending, writeCb, outcome, calls)
  BY DEF IInv, TypeOK, Outcomes, PendingInv
<1>2. calls + 1 \in 1..MaxCalls /\ calls + 1 \in Nat
  BY <1>1, BoundsAssumption DEF SubmitWrite, Call, MayCall
<1>3. /\ Call(by) /\ ExecCmds(r) /\ ReturnFrom(fullRead, deleteAll)
      /\ outcome' = [outcome EXCEPT ![calls + 1] = "open"] /\ readsDue' \in Int
  BY DEF SubmitWrite, IInv, TypeOK
<1>4. r \in Seq(Cmds)
  BY <1>2, WriteCmdsFacts
<1>5. QueueInv(pending \o r, writeCb, outcome', calls + 1)
  BY <1>1, <1>2, <1>3, AppendWrite
<1>6. outcome' \in [1..MaxCalls -> Outcomes]
  BY <1>1, <1>3 DEF Outcomes
<1>7. \A w \in 1..MaxCalls : outcome'[w] = "ok" => outcome[w] = "ok"
  BY <1>1, <1>3
<1> HIDE DEF r
<1> QED
  BY <1>1, <1>3, <1>4, <1>5, <1>6, <1>7, CallIInv

(* Every API call, db_close included, keeps the invariant.                 *)
LEMMA ApiCallIInv == IInv /\ ApiCall => IInv'
<1> SUFFICES ASSUME IInv, ApiCall PROVE IInv'
  OBVIOUS
<1>0. fullRead \in BOOLEAN /\ deleteAll \in BOOLEAN /\ readsDue \in Int
  BY DEF IInv, TypeOK
<1>1. CASE WriteSingleRow
  <2>1. PICK k \in Keys, shape \in RowShapes : SubmitWrite(k, shape, "writeRow")
    BY <1>1 DEF WriteSingleRow
  <2>2. shape \in Seq(Cols) \ {<< >>}
    BY ShapesAssumption
  <2> QED
    BY <2>1, <2>2, WriteIInv DEF CallNames
<1>2. CASE WriteSingleColumn
  <2>1. PICK k \in Keys, c \in Cols : SubmitWrite(k, <<c>>, "writeColumn")
    BY <1>2 DEF WriteSingleColumn
  <2>2. <<c>> \in Seq(Cols) \ {<< >>}
    OBVIOUS
  <2> QED
    BY <2>1, <2>2, WriteIInv DEF CallNames
<1>3. CASE DeleteSingleRow
  <2>1. PICK k \in Keys : ExecCmds(DeleteCmds(k, "deleteRow"))
    BY <1>3 DEF DeleteSingleRow
  <2> QED
    BY <1>0, <1>3, <2>1, PlainDelete, PlainCallIInv DEF DeleteSingleRow, CallNames
<1>4. CASE DeleteAllRow
  BY <1>0, <1>4, PlainSingle, PlainCallIInv DEF DeleteAllRow, SmembersCmd, CallNames
<1>5. CASE ReadAll
  <2>1. readsDue' \in Int
    BY <1>0, <1>5 DEF ReadAll
  <2> QED
    BY <1>0, <1>5, <2>1, PlainSingle, PlainCallIInv DEF ReadAll, SmembersCmd, CallNames
<1>6. CASE FlushAll
  BY <1>0, <1>6, PlainSingle, PlainCallIInv DEF FlushAll, CallNames
<1>7. CASE Close
  <2>1. TypeOK'
    BY <1>7, BoundsAssumption
       DEF IInv, TypeOK, Close, MayCall, ServerForgets, NoTxn
  <2>2. ReplyMatching'
    BY <1>7 DEF IInv, TypeOK, ReplyMatching, Close, MayCall
  <2>3. PendingInv'
    BY <1>7, BoundsAssumption DEF IInv, TypeOK, PendingInv, Close, MayCall, QueueInv, ExecsGuarded, ExecsDistinct,
                OpenIffQueued, NoneAfter
  <2>4. OkAnswersApplied' /\ SuccessMeansApplied'
    BY <1>7 DEF IInv, OkAnswersApplied, SuccessMeansApplied, Close, ServerForgets
  <2> QED
    BY <2>1, <2>2, <2>3, <2>4 DEF IInv
<1> QED
  BY <1>1, <1>2, <1>3, <1>4, <1>5, <1>6, <1>7 DEF ApiCall

(* The connection, and the server.                                         *)

(* A connection that is made, fails or is lost keeps the invariant: the    *)
(* queue is resent without being popped (db_flush_queued_cmd).             *)
LEMMA ConnectionIInv == IInv /\ (ConnectOk \/ ConnectFail \/ ConnectionLost) => IInv'
<1> SUFFICES ASSUME IInv, ConnectOk \/ ConnectFail \/ ConnectionLost PROVE IInv'
  OBVIOUS
<1> USE DEF callVars, clientVars, serverVars
<1>0. faults' \in 0..MaxFaults
  BY BoundsAssumption DEF IInv, TypeOK, ConnectOk, ConnectFail, ConnectionLost, Fault
<1>1. TypeOK'
  <2>1. CASE ConnectOk
    <3>1. << >> \in Seq(Replies)
      OBVIOUS
    <3> QED
      BY <1>0, <2>1, <3>1 DEF IInv, TypeOK, ConnectOk
  <2>2. CASE ConnectFail
    BY <1>0, <2>2 DEF IInv, TypeOK, ConnectFail
  <2>3. CASE ConnectionLost
    <3>1. << >> \in Seq(Replies) /\ NoTxn \in [open : BOOLEAN, dirty : BOOLEAN, queued : SUBSET Cmds]
      BY DEF NoTxn
    <3> QED
      BY <1>0, <2>3, <3>1 DEF IInv, TypeOK, ConnectionLost, ServerForgets
  <2> QED
    BY <2>1, <2>2, <2>3
<1>2. ReplyMatching'
  BY DEF IInv, TypeOK, ReplyMatching, ConnectOk, ConnectFail, ConnectionLost
<1>3. PendingInv'
  <2>1. pending' = pending /\ writeCb' = writeCb /\ outcome' = outcome /\ calls' = calls
    BY DEF ConnectOk, ConnectFail, ConnectionLost
  <2> QED
    BY <2>1 DEF IInv, PendingInv, QueueInv, ExecsGuarded, ExecsDistinct, OpenIffQueued, NoneAfter
<1>4. OkAnswersApplied' /\ SuccessMeansApplied'
  BY DEF IInv, OkAnswersApplied, SuccessMeansApplied, ConnectOk, ConnectFail, ConnectionLost, ServerForgets
<1> QED
  BY <1>1, <1>2, <1>3, <1>4 DEF IInv

(* The rows after an EXEC are rows.                                        *)
LEMMA RowsAfterType ==
  ASSUME rows \in [Keys -> [Cols -> Nat]], NEW q \in SUBSET Cmds
  PROVE  RowsAfter(q) \in [Keys -> [Cols -> Nat]]
<1> SUFFICES ASSUME NEW k \in Keys, NEW c \in Cols
             PROVE  LET sets == {h \in q : h.op = "hmset" /\ h.key = k /\ h.col = c}
                    IN  (IF sets = {} THEN rows[k][c] ELSE (CHOOSE h \in sets : TRUE).id) \in Nat
  BY DEF RowsAfter
<1> DEFINE sets == {h \in q : h.op = "hmset" /\ h.key = k /\ h.col = c}
<1>1. CASE sets = {}
  BY <1>1
<1>2. CASE sets # {}
  <2>1. (CHOOSE h \in sets : TRUE) \in sets
    BY <1>2
  <2>2. (CHOOSE h \in sets : TRUE) \in Cmds
    BY <2>1
  <2> QED
    BY <1>2, <2>2 DEF Cmds
<1> QED
  BY <1>1, <1>2

(* A command that the server runs leaves a well-formed table and MULTI     *)
(* state, and forgets no write that was applied.                           *)
LEMMA ServeType ==
  ASSUME TypeOK, NEW c \in Cmds, Serve(c) \/ Refuse(c),
         c.op = "exec" => c.id \in 1..MaxCalls
  PROVE  /\ ids' \subseteq Keys
         /\ rows' \in [Keys -> [Cols -> Nat]]
         /\ txn' \in [open : BOOLEAN, dirty : BOOLEAN, queued : SUBSET Cmds]
         /\ applied' \subseteq 1..MaxCalls
         /\ applied \subseteq applied'
         /\ Serve(c) /\ c.op = "exec" /\ AnswerTo(c).ok => c.id \in applied'
<1> USE DEF TypeOK, NoTxn, EmptyRow, EmptyRows, serverVars, AnswerTo
<1>1. CASE ServeMulti(c)
  BY <1>1 DEF ServeMulti
<1>2. CASE ServeQueued(c)
  BY <1>2 DEF ServeQueued
<1>3. CASE ServeExec(c)
  BY <1>3, RowsAfterType DEF ServeExec, AddedBy
<1>4. CASE ServeRead(c)
  BY <1>4 DEF ServeRead
<1>5. CASE ServeSrem(c)
  BY <1>5 DEF ServeSrem
<1>6. CASE ServeDel(c)
  BY <1>6 DEF ServeDel
<1>7. CASE ServeFlush(c)
  BY <1>7 DEF ServeFlush
<1>8. CASE Refuse(c)
  BY <1>8 DEF Refuse
<1> QED
  BY <1>1, <1>2, <1>3, <1>4, <1>5, <1>6, <1>7, <1>8 DEF Serve

(* A command that the server runs or refuses keeps the invariant: it       *)
(* answers EXEC positively only when it applies the write.                 *)
LEMMA ServerIInv == IInv /\ (ServerRuns \/ ServerRefusal) => IInv'
<1> SUFFICES ASSUME IInv, ServerRuns \/ ServerRefusal PROVE IInv'
  OBVIOUS
<1> DEFINE p == Len(answers) + 1
           c == wire[p]
<1>0. /\ connState = "connected" /\ ending = "none"
      /\ wire = pending /\ Len(answers) < Len(wire)
      /\ wire \in Seq(Cmds) /\ answers \in Seq(Replies)
      /\ Len(answers) \in Nat /\ Len(wire) \in Nat
  BY DEF IInv, TypeOK, ReplyMatching, ServerRuns, ServerRefusal, ServerCanRun
<1>1. p \in 1..Len(wire) /\ c \in Cmds /\ NextServed = c
  BY <1>0 DEF NextServed
<1>2. c.op = "exec" => c.id \in 1..MaxCalls
  <2>1. c.op = "exec" => c.id \in 1..calls
    BY <1>0, <1>1 DEF IInv, PendingInv, QueueInv, ExecsGuarded
  <2> QED
    BY <2>1, BoundsAssumption DEF IInv, TypeOK
<1> HIDE DEF c, p
<1>3. PICK a \in Replies :
        /\ answers' = Append(answers, a)
        /\ Serve(c) \/ Refuse(c)
        /\ a.ok => Serve(c) /\ a = AnswerTo(c)
  <2>1. CASE ServerRuns
    <3>1. AnswerTo(c) \in Replies
      BY DEF AnswerTo, Replies, IInv, TypeOK
    <3> QED
      BY <2>1, <3>1, <1>1 DEF ServerRuns
  <2>2. CASE ServerRefusal
    <3>1. ErrorAnswer \in Replies /\ ~ErrorAnswer.ok
      BY DEF ErrorAnswer, Replies
    <3> QED
      BY <2>2, <3>1, <1>1 DEF ServerRefusal
  <2> QED
    BY <2>1, <2>2
<1>4. /\ ids' \subseteq Keys
      /\ rows' \in [Keys -> [Cols -> Nat]]
      /\ txn' \in [open : BOOLEAN, dirty : BOOLEAN, queued : SUBSET Cmds]
      /\ applied' \subseteq 1..MaxCalls
      /\ applied \subseteq applied'
      /\ a.ok /\ c.op = "exec" => c.id \in applied'
  BY <1>1, <1>2, <1>3, ServeType DEF IInv
<1>5. UNCHANGED <<connState, ending, pending, wire, fullRead, deleteAll, rowsLeft,
                  writeCb, calls, lastCall, outcome, readsDue>>
  BY DEF ServerRuns, ServerRefusal, callVars
<1>6. faults' \in 0..MaxFaults
  BY BoundsAssumption DEF IInv, TypeOK, ServerRuns, ServerRefusal, Fault
<1>7. /\ answers' \in Seq(Replies) /\ Len(answers') = p
      /\ \A i \in 1..Len(answers) : answers'[i] = answers[i]
      /\ answers'[p] = a
  BY <1>0, <1>3 DEF p
<1>8. TypeOK'
  BY <1>4, <1>5, <1>6, <1>7 DEF IInv, TypeOK
<1>9. ReplyMatching'
  BY <1>0, <1>1, <1>5, <1>7 DEF IInv, ReplyMatching
<1>10. PendingInv'
  BY <1>5 DEF IInv, PendingInv, QueueInv, ExecsGuarded, ExecsDistinct, OpenIffQueued, NoneAfter
<1>11. OkAnswersApplied'
  <2> SUFFICES ASSUME NEW i \in 1..p, wire[i].op = "exec", answers'[i].ok
               PROVE  wire[i].id \in applied'
    BY <1>5, <1>7 DEF OkAnswersApplied
  <2>1. CASE i = p
    BY <2>1, <1>4, <1>7 DEF c
  <2>2. CASE i # p
    <3>1. i \in 1..Len(answers)
      BY <2>2, <1>0 DEF p
    <3> QED
      BY <3>1, <1>4, <1>7 DEF IInv, OkAnswersApplied
  <2> QED
    BY <2>1, <2>2
<1>12. SuccessMeansApplied'
  BY <1>4, <1>5 DEF IInv, SuccessMeansApplied
<1> QED
  BY <1>8, <1>9, <1>10, <1>11, <1>12 DEF IInv

(* The callbacks.                                                          *)

(* write_cb for the EXEC at the head closes its write.                     *)
LEMMA ReportWriteQueue ==
  ASSUME IInv, pending # << >>, Head(pending).op = "exec",
         NEW result \in {"ok", "failed"}, ReportWrite(Head(pending), result)
  PROVE  /\ writeCb' \in BOOLEAN
         /\ outcome' \in [1..MaxCalls -> Outcomes]
         /\ QueueInv(Tail(pending), writeCb', outcome', calls)
         /\ \A w \in 1..MaxCalls : outcome'[w] = "ok" =>
              outcome[w] = "ok" \/ (result = "ok" /\ w = Head(pending).id)
<1> DEFINE c == Head(pending)
<1>1. /\ pending \in Seq(Cmds) /\ calls \in Nat /\ calls <= MaxCalls
      /\ outcome \in [1..MaxCalls -> Outcomes]
      /\ QueueInv(pending, writeCb, outcome, calls)
  BY BoundsAssumption DEF IInv, TypeOK, PendingInv, Outcomes
<1>2. /\ writeCb /\ c.id \in 1..MaxCalls /\ outcome[c.id] = "open"
      /\ QueueInv(Tail(pending), FALSE, [outcome EXCEPT ![c.id] = result], calls)
  BY <1>1, PopExec
<1>3. writeCb' = FALSE /\ outcome' = [outcome EXCEPT ![c.id] = result]
  BY <1>2 DEF ReportWrite
<1>4. outcome' \in [1..MaxCalls -> Outcomes]
  BY <1>1, <1>3 DEF Outcomes
<1>5. \A w \in 1..MaxCalls : outcome'[w] = "ok" =>
        outcome[w] = "ok" \/ (result = "ok" /\ w = c.id)
  BY <1>1, <1>3
<1> QED
  BY <1>2, <1>3, <1>4, <1>5

(* The callback of another command closes no write.                        *)
LEMMA PopKeepsQueue ==
  ASSUME IInv, pending # << >>, Head(pending).op # "exec",
         Head(pending).op = "hmset" => writeCb', UNCHANGED outcome
  PROVE  QueueInv(Tail(pending), writeCb', outcome', calls)
<1>1. /\ pending \in Seq(Cmds) /\ calls \in Nat
      /\ QueueInv(pending, writeCb, outcome, calls)
  BY DEF IInv, TypeOK, PendingInv
<1> QED
  BY <1>1, PopPlain

(* db_cmd_failure of the head never reports success of a write.            *)
LEMMA FailureQueue ==
  ASSUME IInv, pending # << >>, CmdFailure(Head(pending))
  PROVE  /\ writeCb' \in BOOLEAN /\ fullRead' \in BOOLEAN
         /\ rowsLeft' \in Int /\ readsDue' \in Int
         /\ outcome' \in [1..MaxCalls -> Outcomes]
         /\ QueueInv(Tail(pending), writeCb', outcome', calls)
         /\ \A w \in 1..MaxCalls : outcome'[w] = "ok" => outcome[w] = "ok"
<1>0. /\ writeCb \in BOOLEAN /\ fullRead \in BOOLEAN
      /\ rowsLeft \in Int /\ readsDue \in Int /\ outcome \in [1..MaxCalls -> Outcomes]
  BY DEF IInv, TypeOK, Outcomes
<1>1. CASE Head(pending).op = "exec" /\ FailExec(Head(pending))
  BY <1>0, <1>1, ReportWriteQueue DEF FailExec
<1>2. CASE Head(pending).op = "hmset" /\ FailHmset
  <2>1. writeCb' = TRUE /\ UNCHANGED <<fullRead, rowsLeft, readsDue, outcome>>
    BY <1>2 DEF FailHmset
  <2>2. QueueInv(Tail(pending), writeCb', outcome', calls)
    BY <1>2, <2>1, PopKeepsQueue, Zenon
  <2>3. outcome' \in [1..MaxCalls -> Outcomes]
    BY <1>0, <2>1
  <2> QED
    BY <1>0, <2>1, <2>2, <2>3
<1>3. CASE Head(pending).op = "smembers" /\ FailSmembers
  <2>1. fullRead' = FALSE /\ UNCHANGED <<rowsLeft, writeCb, outcome>>
    BY <1>3 DEF FailSmembers
  <2>2. readsDue' \in Int
    BY <1>0, <1>3 DEF FailSmembers
  <2>3. QueueInv(Tail(pending), writeCb', outcome', calls)
    BY <1>3, <2>1, PopKeepsQueue, Zenon
  <2>4. outcome' \in [1..MaxCalls -> Outcomes]
    BY <1>0, <2>1
  <2> QED
    BY <1>0, <2>1, <2>2, <2>3, <2>4
<1>4. CASE Head(pending).op = "hgetall" /\ FailHgetall
  BY <1>0, <1>4, PopKeepsQueue DEF FailHgetall, CountRow
<1>5. CASE Head(pending).op \notin {"smembers", "hgetall", "hmset", "exec"} /\ FailOther
  BY <1>0, <1>5, PopKeepsQueue DEF FailOther
<1> QED
  BY <1>1, <1>2, <1>3, <1>4, <1>5 DEF CmdFailure

(* A reply is delivered, and the commands more are queued and sent.        *)
LEMMA DeliverIInv ==
  ASSUME IInv, Deliver, NEW more, Plain(more),
         pending' = Tail(pending) \o more, wire' = Tail(wire) \o more,
         QueueInv(Tail(pending), writeCb', outcome', calls),
         outcome' \in [1..MaxCalls -> Outcomes],
         rowsLeft' \in Int, readsDue' \in Int,
         fullRead' \in BOOLEAN, deleteAll' \in BOOLEAN, writeCb' \in BOOLEAN,
         \A w \in 1..MaxCalls : outcome'[w] = "ok" => outcome[w] = "ok" \/ w \in applied
  PROVE  IInv'
<1>0. /\ connState = "connected" /\ ending = "none" /\ wire = pending
      /\ pending \in Seq(Cmds) /\ pending # << >>
      /\ answers \in Seq(Replies) /\ answers # << >>
      /\ Len(answers) <= Len(wire) /\ calls \in Nat
      /\ more \in Seq(Cmds) /\ (\A i \in 1..Len(more) : more[i].op # "exec")
      /\ UNCHANGED <<connState, ending, calls, lastCall, faults, ids, rows, txn, applied>>
      /\ answers' = Tail(answers)
  BY DEF IInv, TypeOK, ReplyMatching, Deliver, Plain, serverVars
<1>1. /\ Tail(pending) \in Seq(Cmds) /\ Len(Tail(pending)) = Len(pending) - 1
      /\ Tail(pending) = Tail(wire)
      /\ (\A i \in 1..Len(Tail(pending)) : Tail(pending)[i] = wire[i + 1])
      /\ answers' \in Seq(Replies) /\ Len(answers') = Len(answers) - 1
      /\ (\A i \in 1..Len(answers') : answers'[i] = answers[i + 1])
      /\ Len(answers) \in Nat /\ Len(pending) \in Nat
  BY <1>0, TailCmds
<1>2. /\ pending' \in Seq(Cmds) /\ wire' = pending'
      /\ Len(pending') = Len(Tail(pending)) + Len(more) /\ Len(more) \in Nat
      /\ \A i \in 1..Len(Tail(pending)) : pending'[i] = Tail(pending)[i]
  BY <1>0, <1>1, ConcatCmds
<1>3. TypeOK'
  BY <1>0, <1>1, <1>2 DEF IInv, TypeOK, Outcomes
<1>4. ReplyMatching'
  <2>1. Len(answers') <= Len(wire')
    BY <1>0, <1>1, <1>2
  <2> QED
    BY <1>0, <1>2, <2>1 DEF ReplyMatching
<1>5. PendingInv'
  <2>1. QueueInv(Tail(pending) \o more, writeCb', outcome', calls)
    BY <1>0, <1>1, AppendOthers, Zenon
  <2> QED
    BY <1>0, <2>1 DEF PendingInv
<1>6. OkAnswersApplied'
  <2> SUFFICES ASSUME NEW i \in 1..Len(answers'), wire'[i].op = "exec", answers'[i].ok
               PROVE  wire'[i].id \in applied
    BY <1>0 DEF OkAnswersApplied
  <2>1. i + 1 \in 1..Len(answers) /\ i \in 1..Len(Tail(pending))
    BY <1>0, <1>1
  <2>2. wire'[i] = wire[i + 1] /\ answers'[i] = answers[i + 1]
    BY <2>1, <1>1, <1>2
  <2> QED
    BY <2>1, <2>2 DEF IInv, OkAnswersApplied
<1>7. SuccessMeansApplied'
  BY <1>0 DEF IInv, SuccessMeansApplied
<1> QED
  BY <1>3, <1>4, <1>5, <1>6, <1>7 DEF IInv

(* A callback that only pops queues the empty command list.                *)
LEMMA PoppedIsTail ==
  ASSUME IInv, Deliver, Popped
  PROVE  /\ Plain(<< >>)
         /\ pending' = Tail(pending) \o << >> /\ wire' = Tail(wire) \o << >>
         /\ pending # << >> /\ Head(pending) \in Cmds
<1>1. pending \in Seq(Cmds) /\ wire \in Seq(Cmds) /\ pending # << >> /\ wire # << >>
  BY DEF IInv, TypeOK, Deliver
<1>2. Tail(pending) \in Seq(Cmds) /\ Tail(wire) \in Seq(Cmds) /\ Head(pending) \in Cmds
  BY <1>1, TailCmds
<1>3. \A q \in Seq(Cmds) : q \o << >> = q
  OBVIOUS
<1> QED
  BY <1>1, <1>2, <1>3 DEF Popped, Plain

(* Every delivered reply keeps the invariant.                              *)
LEMMA CallbackIInv == IInv /\ Callback => IInv'
<1> SUFFICES ASSUME IInv, Callback PROVE IInv'
  OBVIOUS
<1>0. /\ writeCb \in BOOLEAN /\ fullRead \in BOOLEAN /\ deleteAll \in BOOLEAN
      /\ rowsLeft \in Int /\ readsDue \in Int /\ outcome \in [1..MaxCalls -> Outcomes]
  BY DEF IInv, TypeOK, Outcomes
<1>1. CASE ReplySmembers
  <2>1. PICK order \in SetToSeqs(Head(answers).listed) :
          LET more == (IF fullRead THEN ReadCmds(order) ELSE << >>)
                        \o (IF deleteAll THEN DelRowCmds(order) ELSE << >>)
          IN  /\ pending' = Tail(pending) \o more
              /\ wire' = Tail(wire) \o more
              /\ rowsLeft' = IF fullRead /\ order # << >> THEN Len(order) ELSE rowsLeft
              /\ readsDue' = IF fullRead /\ order = << >> THEN readsDue - 1 ELSE readsDue
              /\ deleteAll' = (deleteAll /\ order # << >>)
    BY <1>1 DEF ReplySmembers
  <2> DEFINE rd == IF fullRead THEN ReadCmds(order) ELSE << >>
             dl == IF deleteAll THEN DelRowCmds(order) ELSE << >>
  <2>2. order \in Seq(Keys)
    <3>1. answers \in Seq(Replies) /\ answers # << >>
      BY <1>1 DEF IInv, TypeOK, ReplySmembers, Deliver
    <3>2. Head(answers) \in Replies
      BY <3>1, TailCmds
    <3>3. Head(answers).listed \in SUBSET Keys
      BY <3>2 DEF Replies
    <3> QED
      BY <3>3, OrderIsSeq
  <2>3. Plain(<< >>)
    BY DEF Plain
  <2>4. Plain(rd) /\ Plain(dl)
    BY <2>2, <2>3, PlainRead, PlainDelRow
  <2>5. Plain(rd \o dl)
    BY <2>4, PlainConcat
  <2>6. rowsLeft' \in Int /\ readsDue' \in Int
    <3>1. Len(order) \in Int
      BY <2>2
    <3> QED
      BY <1>0, <2>1, <3>1
  <2>b. fullRead' \in BOOLEAN /\ deleteAll' \in BOOLEAN /\ writeCb' \in BOOLEAN
    <3>1. fullRead' = FALSE /\ writeCb' = writeCb
      BY <1>1 DEF ReplySmembers
    <3>2. deleteAll' \in BOOLEAN
      BY <2>1
    <3> QED
      BY <1>0, <3>1, <3>2
  <2>7. QueueInv(Tail(pending), writeCb', outcome', calls)
    BY <1>1, PopKeepsQueue DEF ReplySmembers, Deliver
  <2>8. Deliver /\ outcome' = outcome
    BY <1>1 DEF ReplySmembers
  <2>9. pending' = Tail(pending) \o (rd \o dl) /\ wire' = Tail(wire) \o (rd \o dl)
    BY <2>1
  <2> HIDE DEF rd, dl
  <2> QED
    BY <1>0, <2>5, <2>6, <2>b, <2>7, <2>8, <2>9, DeliverIInv
<1>2. CASE ReplyHgetall
  <2>1. QueueInv(Tail(pending), writeCb', outcome', calls)
    BY <1>2, PopKeepsQueue DEF ReplyHgetall, Deliver
  <2> QED
    <3>1. Deliver /\ Popped /\ UNCHANGED <<fullRead, deleteAll, writeCb, outcome>>
      BY <1>2 DEF ReplyHgetall
    <3>2. rowsLeft' \in Int /\ readsDue' \in Int
      BY <1>0, <1>2 DEF ReplyHgetall, CountRow
    <3> QED
      BY <1>0, <2>1, <3>1, <3>2, PoppedIsTail, DeliverIInv
<1>3. CASE ReplyDel
  <2>1. QueueInv(Tail(pending), writeCb', outcome', calls)
    BY <1>3, PopKeepsQueue DEF ReplyDel, Deliver
  <2> QED
    BY <1>0, <1>3, <2>1, PoppedIsTail, DeliverIInv DEF ReplyDel
<1>4. CASE ReplyHmset
  <2>1. QueueInv(Tail(pending), writeCb', outcome', calls)
    BY <1>4, PopKeepsQueue DEF ReplyHmset, Deliver
  <2> QED
    BY <1>0, <1>4, <2>1, PoppedIsTail, DeliverIInv DEF ReplyHmset
<1>5. CASE ReplyExec
  <2>1. Deliver /\ Popped /\ pending # << >> /\ Head(pending).op = "exec"
        /\ Head(answers).ok /\ ReportWrite(Head(pending), "ok")
    BY <1>5 DEF ReplyExec, Deliver
  <2>2. /\ writeCb' \in BOOLEAN
        /\ outcome' \in [1..MaxCalls -> Outcomes]
        /\ QueueInv(Tail(pending), writeCb', outcome', calls)
        /\ \A w \in 1..MaxCalls : outcome'[w] = "ok" =>
             outcome[w] = "ok" \/ w = Head(pending).id
    BY <2>1, ReportWriteQueue
  <2>3. Head(pending).id \in applied
    <3>1. /\ wire = pending /\ pending \in Seq(Cmds)
          /\ answers \in Seq(Replies) /\ answers # << >>
      BY <2>1 DEF IInv, TypeOK, ReplyMatching, Deliver
    <3>2. 1 \in 1..Len(answers) /\ Head(answers) = answers[1] /\ Head(pending) = wire[1]
      BY <3>1, <2>1, TailCmds
    <3> QED
      BY <3>2, <2>1 DEF IInv, OkAnswersApplied
  <2> QED
    BY <1>0, <1>5, <2>1, <2>2, <2>3, PoppedIsTail, DeliverIInv DEF ReplyExec
<1>6. CASE ReplyOther
  <2>1. QueueInv(Tail(pending), writeCb', outcome', calls)
    BY <1>6, PopKeepsQueue DEF ReplyOther, Deliver
  <2> QED
    BY <1>0, <1>6, <2>1, PoppedIsTail, DeliverIInv DEF ReplyOther
<1>7. CASE ReplyError
  <2>1. Deliver /\ Popped /\ pending # << >> /\ CmdFailure(Head(pending)) /\ deleteAll' = deleteAll
    BY <1>7 DEF ReplyError, Deliver
  <2> QED
    BY <1>0, <2>1, FailureQueue, PoppedIsTail, DeliverIInv
<1> QED
  BY <1>1, <1>2, <1>3, <1>4, <1>5, <1>6, <1>7 DEF Callback

(* The callbacks of a connection that ends keep the invariant.             *)
LEMMA TearDownIInv == IInv /\ TearDown => IInv'
<1> SUFFICES ASSUME IInv, TearDown PROVE IInv'
  OBVIOUS
<1>0. deleteAll \in BOOLEAN /\ pending \in Seq(Cmds) /\ wire \in Seq(Cmds)
  BY DEF IInv, TypeOK
<1>1. CASE NullReply \/ EmptyCmdQueue
  <2>1. /\ pending # << >> /\ pending' = Tail(pending) /\ CmdFailure(Head(pending))
        /\ ending # "none"
        /\ UNCHANGED <<connState, ending, answers, deleteAll, calls, lastCall, faults,
                       ids, rows, txn, applied>>
        /\ \/ wire # << >> /\ wire' = Tail(wire)
           \/ wire = << >> /\ wire' = wire
    BY <1>1 DEF NullReply, EmptyCmdQueue, Popped, serverVars
  <2>2. pending' \in Seq(Cmds) /\ wire' \in Seq(Cmds) /\ Len(wire') \in Nat
    <3>1. pending' \in Seq(Cmds)
      BY <1>0, <2>1, TailCmds
    <3>2. wire' \in Seq(Cmds)
      <4>1. CASE wire # << >> /\ wire' = Tail(wire)
        BY <1>0, <4>1, TailCmds
      <4>2. CASE wire = << >> /\ wire' = wire
        BY <1>0, <4>2
      <4> QED
        BY <2>1, <4>1, <4>2
    <3> QED
      BY <3>1, <3>2
  <2>3. TypeOK'
    BY <1>0, <2>1, <2>2, FailureQueue DEF IInv, TypeOK, Outcomes
  <2>4. ReplyMatching'
    <3>1. answers' = << >> /\ Len(answers') = 0
      BY <2>1 DEF IInv, ReplyMatching
    <3> QED
      BY <2>1, <2>2, <3>1 DEF IInv, ReplyMatching
  <2>5. PendingInv'
    BY <2>1, FailureQueue DEF PendingInv
  <2>6. OkAnswersApplied'
    <3>1. Len(answers') = 0
      BY <2>1 DEF IInv, ReplyMatching
    <3> QED
      BY <3>1 DEF OkAnswersApplied
  <2>7. SuccessMeansApplied'
    BY <2>1, FailureQueue DEF IInv, SuccessMeansApplied
  <2> QED
    BY <2>3, <2>4, <2>5, <2>6, <2>7 DEF IInv
<1>2. CASE Ended
  <2>1. TypeOK'
    BY <1>2 DEF IInv, TypeOK, Ended, callVars, serverVars
  <2>2. ReplyMatching'
    BY <1>2 DEF IInv, ReplyMatching, Ended
  <2>3. PendingInv'
    BY <1>2 DEF IInv, PendingInv, Ended, callVars, QueueInv, ExecsGuarded, ExecsDistinct,
                OpenIffQueued, NoneAfter
  <2>4. OkAnswersApplied' /\ SuccessMeansApplied'
    BY <1>2 DEF IInv, OkAnswersApplied, SuccessMeansApplied, Ended, callVars, serverVars
  <2> QED
    BY <2>1, <2>2, <2>3, <2>4 DEF IInv
<1> QED
  BY <1>1, <1>2 DEF TearDown

(* A step that changes nothing keeps the invariant.                        *)
LEMMA StutterIInv == IInv /\ UNCHANGED vars => IInv'
  BY DEF IInv, vars, clientVars, callVars, serverVars, TypeOK, ReplyMatching, PendingInv,
         QueueInv, ExecsGuarded, ExecsDistinct, OpenIffQueued, NoneAfter,
         OkAnswersApplied, SuccessMeansApplied

(* The inductive invariant holds in every reachable state, for any keys,   *)
(* columns, row shapes, number of calls and number of faults.              *)
THEOREM InductiveInvariant == Spec => []IInv
<1>1. Init => IInv
  BY InitIInv
<1>2. IInv /\ [Next]_vars => IInv'
  BY ApiCallIInv, ConnectionIInv, ServerIInv, CallbackIInv, TearDownIInv, StutterIInv
     DEF Next, Idle
<1> QED
  BY <1>1, <1>2, PTL DEF Spec

(* Every variable keeps its type: in particular the connection state is    *)
(* one of the four that the code gives it, and the queues hold commands.   *)
THEOREM TypeCorrect == Spec => []TypeOK
<1>1. IInv => TypeOK
  BY DEF IInv
<1> QED
  BY <1>1, InductiveInvariant, PTL

(* Matching replies with the head of pending_cmd_queue                     *)
(* (db_cmd_callback_fn, 451-474) is right: hiredis waits for exactly the   *)
(* queued commands, over any number of lost connections and resends.       *)
THEOREM RepliesMatch == Spec => []ReplyMatching
<1>1. IInv => ReplyMatching
  BY DEF IInv
<1> QED
  BY <1>1, InductiveInvariant, PTL

(* No write is answered twice, and one that is not answered yet has its    *)
(* EXEC in the queue (db_cmd_callback_fn, 576-588; db_cmd_failure,         *)
(* 228-237).                                                               *)
THEOREM WritesAnsweredOnce == Spec => []WriteAnsweredOnce
<1>1. IInv => WriteAnsweredOnce
  <2> SUFFICES ASSUME IInv PROVE WriteAnsweredOnce
    OBVIOUS
  <2>1. DOMAIN pending = 1..Len(pending)
    BY DEF IInv, TypeOK
  <2> QED
    BY <2>1 DEF IInv, PendingInv, QueueInv, OpenIffQueued, WriteAnsweredOnce
<1> QED
  BY <1>1, InductiveInvariant, PTL

(* write_cb(DB_SUCCESS) is called only for a write that the server         *)
(* applied, whatever was lost, refused or resent in between.               *)
THEOREM SuccessIsApplied == Spec => []SuccessMeansApplied
<1>1. IInv => SuccessMeansApplied
  BY DEF IInv
<1> QED
  BY <1>1, InductiveInvariant, PTL

-----------------------------------------------------------------------------
(* Full reads.                                                             *)

(* The only SMEMBERS of q is at s, behind every HGETALL.                   *)
ScanAt(q, s) ==
  /\ s \in 1..Len(q) /\ q[s].op = "smembers"
  /\ \A i \in 1..Len(q) : /\ q[i].op = "smembers" => i = s
                          /\ q[i].op = "hgetall" => i < s

(* The HGETALLs of q are the "left" many from position a on.               *)
RowReadsAt(q, a, left) ==
  /\ a \in Nat \ {0} /\ a + left <= Len(q) + 1
  /\ \A i \in 1..Len(q) : q[i].op = "hgetall" <=> a <= i /\ i < a + left

(* FullReadAccounting in a form that can be followed through the queue:    *)
(* the row reads that are counted stand in one block, and the full read    *)
(* that is in progress has the only SMEMBERS, behind that block.           *)
ReadsInv(q, fr, left, due) ==
  /\ left \in Nat
  /\ \E a \in Nat \ {0} : RowReadsAt(q, a, left)
  /\ due = (IF fr THEN 1 ELSE 0) + (IF left > 0 THEN 1 ELSE 0)
  /\ fr => \E s \in 1..Len(q) : ScanAt(q, s)
  /\ ~fr => \A i \in 1..Len(q) : q[i].op # "smembers"

(* Other commands may be queued behind.                                    *)
LEMMA ReadsOthers ==
  ASSUME NEW q \in Seq(Cmds), NEW r \in Seq(Cmds), NEW fr \in BOOLEAN, NEW left, NEW due,
         ReadsInv(q, fr, left, due),
         \A i \in 1..Len(r) : r[i].op \notin {"smembers", "hgetall"}
  PROVE  ReadsInv(q \o r, fr, left, due)
<1> DEFINE n == Len(q)
           t == q \o r
<1>1. /\ n \in Nat /\ Len(r) \in Nat /\ Len(t) = n + Len(r)
      /\ \A i \in 1..Len(t) : t[i] = IF i <= n THEN q[i] ELSE r[i - n]
  BY ConcatCmds
<1>2. \A i \in 1..Len(t) : ~(i <= n) => t[i].op \notin {"smembers", "hgetall"}
  <2> SUFFICES ASSUME NEW i \in 1..Len(t), ~(i <= n) PROVE t[i].op \notin {"smembers", "hgetall"}
    OBVIOUS
  <2>1. i - n \in 1..Len(r)
    BY <1>1
  <2> QED
    BY <1>1, <2>1
<1>3. \A i \in 1..Len(t) : i <= n => i \in 1..n /\ t[i] = q[i]
  BY <1>1
<1>4. \A i \in 1..n : i \in 1..Len(t) /\ t[i] = q[i]
  BY <1>1
<1> HIDE DEF t
<1>5. left \in Nat /\ due = (IF fr THEN 1 ELSE 0) + (IF left > 0 THEN 1 ELSE 0)
  BY DEF ReadsInv
<1>6. \E a \in Nat \ {0} : RowReadsAt(t, a, left)
  <2>1. PICK a \in Nat \ {0} : RowReadsAt(q, a, left)
    BY DEF ReadsInv
  <2>2. a + left <= Len(t) + 1
    BY <1>1, <1>5, <2>1 DEF RowReadsAt
  <2>3. ASSUME NEW i \in 1..Len(t) PROVE t[i].op = "hgetall" <=> a <= i /\ i < a + left
    <3>1. CASE i <= n
      BY <1>3, <2>1, <3>1 DEF RowReadsAt
    <3>2. CASE ~(i <= n)
      BY <1>1, <1>2, <1>5, <2>1, <3>2 DEF RowReadsAt
    <3> QED
      BY <3>1, <3>2
  <2> QED
    BY <2>2, <2>3 DEF RowReadsAt
<1>7. ASSUME fr PROVE \E s \in 1..Len(t) : ScanAt(t, s)
  <2>1. PICK s \in 1..n : ScanAt(q, s)
    BY <1>7 DEF ReadsInv
  <2>2. s \in 1..Len(t) /\ t[s].op = "smembers"
    BY <1>4, <2>1 DEF ScanAt
  <2>3. ASSUME NEW i \in 1..Len(t)
        PROVE  (t[i].op = "smembers" => i = s) /\ (t[i].op = "hgetall" => i < s)
    BY <1>2, <1>3, <2>1 DEF ScanAt
  <2> QED
    BY <2>2, <2>3 DEF ScanAt
<1>8. ASSUME ~fr, NEW i \in 1..Len(t) PROVE t[i].op # "smembers"
  BY <1>2, <1>3, <1>8 DEF ReadsInv
<1>9. ReadsInv(t, fr, left, due)
  BY <1>5, <1>6, <1>7, <1>8 DEF ReadsInv
<1> QED
  BY <1>9 DEF t

(* db_read_all queues the only SMEMBERS.                                   *)
LEMMA ReadsScan ==
  ASSUME NEW q \in Seq(Cmds), NEW c \in Cmds, c.op = "smembers", NEW left, NEW due,
         ReadsInv(q, FALSE, left, due)
  PROVE  ReadsInv(q \o <<c>>, TRUE, left, due + 1)
<1> DEFINE n == Len(q)
           t == q \o <<c>>
<1>1. /\ n \in Nat /\ Len(t) = n + 1 /\ t[n + 1] = c
      /\ \A i \in 1..Len(t) : i = n + 1 \/ (i \in 1..n /\ t[i] = q[i])
      /\ \A i \in 1..n : t[i] = q[i]
  BY ConcatCmds
<1> HIDE DEF t, n
<1>2. left \in Nat /\ due = (IF left > 0 THEN 1 ELSE 0)
  BY DEF ReadsInv
<1>3. \E a \in Nat \ {0} : RowReadsAt(t, a, left)
  <2>1. PICK a \in Nat \ {0} : RowReadsAt(q, a, left)
    BY DEF ReadsInv
  <2>2. a + left <= n + 1 /\ \A i \in 1..n : q[i].op = "hgetall" <=> a <= i /\ i < a + left
    BY <2>1 DEF RowReadsAt, n
  <2>3. ASSUME NEW i \in 1..Len(t) PROVE t[i].op = "hgetall" <=> a <= i /\ i < a + left
    BY <1>1, <1>2, <2>2
  <2>4. a + left <= Len(t) + 1
    BY <1>1, <1>2, <2>2
  <2>5. RowReadsAt(t, a, left)
    BY <2>3, <2>4 DEF RowReadsAt
  <2> QED
    BY <2>5
<1>4. ScanAt(t, n + 1)
  <2>1. \A i \in 1..n : q[i].op # "smembers"
    BY DEF ReadsInv, n
  <2>2. n + 1 \in 1..Len(t) /\ t[n + 1].op = "smembers"
    BY <1>1
  <2>3. ASSUME NEW i \in 1..Len(t)
        PROVE  (t[i].op = "smembers" => i = n + 1) /\ (t[i].op = "hgetall" => i < n + 1)
    <3>1. CASE i = n + 1
      BY <1>1, <3>1
    <3>2. CASE i \in 1..n /\ t[i] = q[i]
      BY <1>1, <2>1, <3>2
    <3> QED
      BY <1>1, <3>1, <3>2
  <2> QED
    BY <2>2, <2>3 DEF ScanAt
<1>5. n + 1 \in 1..Len(t)
  BY <1>1
<1>6. ReadsInv(t, TRUE, left, due + 1)
  BY <1>2, <1>3, <1>4, <1>5 DEF ReadsInv
<1> QED
  BY <1>6 DEF t

(* The head is popped: an HGETALL is counted, the SMEMBERS ends what it    *)
(* began, and another command leaves the reads alone.                      *)
LEMMA ReadsPop ==
  ASSUME NEW q \in Seq(Cmds), q # << >>, NEW fr \in BOOLEAN, NEW left, NEW due,
         ReadsInv(q, fr, left, due)
  PROVE  /\ Head(q).op \notin {"smembers", "hgetall"} => ReadsInv(Tail(q), fr, left, due)
         /\ Head(q).op = "hgetall" =>
              ReadsInv(Tail(q), fr, left - 1, IF left - 1 <= 0 THEN due - 1 ELSE due)
         /\ Head(q).op = "smembers" => fr /\ left = 0 /\ due = 1 /\ ReadsInv(Tail(q), FALSE, 0, 0)
<1> DEFINE n == Len(q)
           t == Tail(q)
           h == Head(q)
<1>1. /\ n \in Nat /\ n >= 1 /\ Len(t) = n - 1 /\ h = q[1]
      /\ \A i \in 1..Len(t) : i + 1 \in 1..n /\ t[i] = q[i + 1]
  BY TailCmds
<1> HIDE DEF t, h
<1>2. left \in Nat /\ due = (IF fr THEN 1 ELSE 0) + (IF left > 0 THEN 1 ELSE 0)
  BY DEF ReadsInv
<1>3. PICK a \in Nat \ {0} : RowReadsAt(q, a, left)
  BY DEF ReadsInv
<1>4. a + left <= n + 1 /\ \A i \in 1..n : q[i].op = "hgetall" <=> a <= i /\ i < a + left
  BY <1>3 DEF RowReadsAt
<1>5. ASSUME h.op # "smembers", fr PROVE \E s \in 1..Len(t) : ScanAt(t, s)
  <2>1. PICK s \in 1..n : ScanAt(q, s)
    BY <1>5 DEF ReadsInv
  <2>2. s # 1
    BY <1>1, <1>5, <2>1 DEF ScanAt
  <2>3. s - 1 \in 1..Len(t) /\ t[s - 1] = q[s]
    BY <1>1, <2>2
  <2>4. ASSUME NEW i \in 1..Len(t)
        PROVE  (t[i].op = "smembers" => i = s - 1) /\ (t[i].op = "hgetall" => i < s - 1)
    <3>1. i + 1 \in 1..n /\ t[i] = q[i + 1]
      BY <1>1
    <3>2. (q[i + 1].op = "smembers" => i + 1 = s) /\ (q[i + 1].op = "hgetall" => i + 1 < s)
      BY <2>1, <3>1 DEF ScanAt
    <3> QED
      BY <3>1, <3>2
  <2> QED
    BY <2>1, <2>3, <2>4 DEF ScanAt
<1>6. ASSUME ~fr, NEW i \in 1..Len(t) PROVE t[i].op # "smembers"
  BY <1>1, <1>6 DEF ReadsInv
<1>7. ASSUME h.op \notin {"smembers", "hgetall"} PROVE ReadsInv(t, fr, left, due)
  <2> DEFINE b == IF left = 0 THEN 1 ELSE a - 1
  <2>1. left > 0 => a # 1
    BY <1>1, <1>2, <1>4, <1>7
  <2>2. b \in Nat \ {0} /\ b + left <= Len(t) + 1
    BY <1>1, <1>2, <1>4, <2>1
  <2>3. ASSUME NEW i \in 1..Len(t) PROVE t[i].op = "hgetall" <=> b <= i /\ i < b + left
    <3>1. t[i].op = "hgetall" <=> a <= i + 1 /\ i + 1 < a + left
      BY <1>1, <1>4
    <3> QED
      BY <1>1, <1>2, <3>1, <2>1
  <2> HIDE DEF b
  <2>4. RowReadsAt(t, b, left)
    BY <2>2, <2>3 DEF RowReadsAt
  <2> QED
    BY <1>2, <1>5, <1>6, <1>7, <2>2, <2>4 DEF ReadsInv
<1>8. ASSUME h.op = "hgetall"
      PROVE  ReadsInv(t, fr, left - 1, IF left - 1 <= 0 THEN due - 1 ELSE due)
  <2>1. a = 1 /\ left >= 1
    BY <1>1, <1>2, <1>4, <1>8
  <2>2. left - 1 \in Nat /\ 1 + (left - 1) <= Len(t) + 1
    BY <1>1, <1>2, <1>4, <2>1
  <2>3. ASSUME NEW i \in 1..Len(t) PROVE t[i].op = "hgetall" <=> 1 <= i /\ i < 1 + (left - 1)
    <3>1. t[i].op = "hgetall" <=> a <= i + 1 /\ i + 1 < a + left
      BY <1>1, <1>4
    <3> QED
      BY <1>1, <1>2, <3>1, <2>1
  <2>4. RowReadsAt(t, 1, left - 1)
    BY <2>2, <2>3 DEF RowReadsAt
  <2>5. (IF left - 1 <= 0 THEN due - 1 ELSE due)
          = (IF fr THEN 1 ELSE 0) + (IF left - 1 > 0 THEN 1 ELSE 0)
    BY <1>2, <2>1
  <2>6. h.op # "smembers"
    BY <1>8
  <2> QED
    BY <1>5, <1>6, <2>2, <2>4, <2>5, <2>6 DEF ReadsInv
<1>9. ASSUME h.op = "smembers"
      PROVE  fr /\ left = 0 /\ due = 1 /\ ReadsInv(t, FALSE, 0, 0)
  <2>1. 1 \in 1..n /\ q[1].op = "smembers"
    BY <1>1, <1>9
  <2>2. fr
    BY <2>1 DEF ReadsInv
  <2>3. PICK s \in 1..n : ScanAt(q, s)
    BY <2>2 DEF ReadsInv
  <2>4. s = 1
    BY <2>1, <2>3 DEF ScanAt
  <2>5. \A i \in 1..n : i # 1 => q[i].op \notin {"smembers", "hgetall"}
    BY <2>3, <2>4 DEF ScanAt
  <2>6. \A i \in 1..Len(t) : t[i].op \notin {"smembers", "hgetall"}
    <3> SUFFICES ASSUME NEW i \in 1..Len(t) PROVE t[i].op \notin {"smembers", "hgetall"}
      OBVIOUS
    <3>1. i + 1 \in 1..n /\ i + 1 # 1 /\ t[i] = q[i + 1]
      BY <1>1
    <3> QED
      BY <2>5, <3>1
  <2>7. left = 0
    <3>1. SUFFICES ASSUME left > 0 PROVE FALSE
      BY <1>2
    <3>2. a \in 1..n /\ a <= a /\ a < a + left
      BY <1>2, <1>4, <3>1
    <3>3. q[a].op = "hgetall"
      BY <1>4, <3>2
    <3> QED
      BY <2>1, <2>5, <3>2, <3>3
  <2>8. RowReadsAt(t, 1, 0)
    BY <1>1, <2>6 DEF RowReadsAt
  <2> QED
    BY <1>2, <2>2, <2>6, <2>7, <2>8 DEF ReadsInv
<1> QED
  BY <1>7, <1>8, <1>9 DEF t, h

(* issue_read_commands begins a block of row reads when there is none.     *)
LEMMA ReadsRows ==
  ASSUME NEW q \in Seq(Cmds), ReadsInv(q, FALSE, 0, 0), NEW order \in Seq(Keys)
  PROVE  ReadsInv(q \o ReadCmds(order), FALSE, Len(order), IF Len(order) > 0 THEN 1 ELSE 0)
<1> DEFINE n == Len(q)
           r == ReadCmds(order)
           m == Len(order)
           t == q \o r
<1>1. r \in Seq(Cmds) /\ Len(r) = m /\ \A i \in 1..Len(r) : r[i].op = "hgetall"
  <2>1. Plain(r)
    BY PlainRead
  <2> QED
    BY <2>1 DEF Plain, ReadCmds, Cmd
<1> HIDE DEF r
<1>2. /\ n \in Nat /\ m \in Nat /\ Len(t) = n + m
      /\ \A i \in 1..Len(t) : t[i] = IF i <= n THEN q[i] ELSE r[i - n]
  <2>1. n \in Nat /\ m \in Nat
    OBVIOUS
  <2>2. /\ Len(q \o r) = Len(q) + Len(r)
        /\ \A i \in 1..Len(q \o r) : (q \o r)[i] = IF i <= Len(q) THEN q[i] ELSE r[i - Len(q)]
    <3>1. r \in Seq(Cmds)
      BY <1>1
    <3> QED
      BY <3>1, ConcatCmds
  <2> QED
    BY <1>1, <2>1, <2>2
<1>3. \A i \in 1..n : q[i].op \notin {"smembers", "hgetall"}
  <2>1. PICK a \in Nat \ {0} : RowReadsAt(q, a, 0)
    BY DEF ReadsInv
  <2>2. \A i \in 1..n : q[i].op # "hgetall"
    BY <2>1 DEF RowReadsAt
  <2> QED
    BY <2>2 DEF ReadsInv
<1> HIDE DEF t
<1>4. \A i \in 1..Len(t) : t[i].op # "smembers" /\ (t[i].op = "hgetall" <=> n + 1 <= i)
  <2> SUFFICES ASSUME NEW i \in 1..Len(t)
               PROVE  t[i].op # "smembers" /\ (t[i].op = "hgetall" <=> n + 1 <= i)
    OBVIOUS
  <2>1. CASE i <= n
    BY <1>2, <1>3, <2>1
  <2>2. CASE ~(i <= n)
    <3>1. i - n \in 1..Len(r)
      BY <1>1, <1>2, <2>2
    <3>2. t[i].op = "hgetall"
      BY <1>1, <1>2, <2>2, <3>1
    <3> QED
      BY <1>2, <2>2, <3>2
  <2> QED
    BY <2>1, <2>2
<1>5. RowReadsAt(t, n + 1, m)
  BY <1>2, <1>4 DEF RowReadsAt
<1>6. n + 1 \in Nat \ {0} /\ m \in Nat
  BY <1>2
<1>7. ReadsInv(t, FALSE, m, IF m > 0 THEN 1 ELSE 0)
  BY <1>4, <1>5, <1>6 DEF ReadsInv
<1> QED
  BY <1>7 DEF t, r

(* Full reads that do not overlap: no delete-all, whose SMEMBERS a full    *)
(* read would take for its own, and no scan on a disconnected handle.      *)
ReadsApart == "deleteAll" \notin Ops /\ ~ScanWhenDown

ReadInv == ~deleteAll /\ ReadsInv(pending, fullRead, rowsLeft, readsDue)

(* No read has begun when the handle is created.                           *)
LEMMA ReadInitHolds == Init => ReadInv
<1>1. RowReadsAt(<< >>, 1, 0)
  BY DEF RowReadsAt
<1> QED
  BY <1>1 DEF Init, ReadInv, ReadsInv

(* The flag of a full read is down when a handle that is disconnected      *)
(* clears it.                                                              *)
LEMMA ReadFlagDown ==
  ASSUME IInv, ReadInv, connState \in {"disconnected", "closed"} \/ pending = << >>
  PROVE  ~fullRead
<1>1. pending = << >> /\ Len(pending) = 0
  BY DEF IInv, ReplyMatching
<1> QED
  BY <1>1 DEF ReadInv, ReadsInv

(* A call that scans nothing.                                              *)
LEMMA ReadOtherCall ==
  ASSUME IInv, ReadInv, NEW op, Call(op), NEW r \in Seq(Cmds), ExecCmds(r),
         ReturnFrom(fullRead, deleteAll), readsDue' = readsDue,
         \A i \in 1..Len(r) : r[i].op \notin {"smembers", "hgetall"}
  PROVE  ReadInv'
<1>1. /\ pending \in Seq(Cmds) /\ pending' = pending \o r /\ rowsLeft' = rowsLeft
      /\ fullRead \in BOOLEAN
  BY DEF IInv, TypeOK, ExecCmds, Call
<1>2. fullRead' = fullRead /\ deleteAll' = FALSE
  BY ReadFlagDown DEF ReturnFrom, ReadInv, IInv, TypeOK
<1>3. ReadsInv(pending \o r, fullRead, rowsLeft, readsDue)
  BY <1>1, ReadsOthers DEF ReadInv
<1> QED
  BY <1>1, <1>2, <1>3 DEF ReadInv

(* The API calls.                                                          *)
LEMMA ReadCalls ==
  ASSUME ReadsApart, IInv, ReadInv, ApiCall
  PROVE  ReadInv'
<1>0. calls + 1 \in Nat
  BY DEF IInv, TypeOK
<1>1. ASSUME NEW k \in Keys, NEW shape \in Seq(Cols) \ {<< >>}, NEW by \in CallNames,
             SubmitWrite(k, shape, by)
      PROVE  ReadInv'
  <2> DEFINE r == WriteCmds(k, shape, calls + 1, by)
  <2>1. r \in Seq(Cmds) /\ \A i \in 1..Len(r) : r[i].op \notin {"smembers", "hgetall"}
    <3>1. /\ r \in Seq(Cmds) /\ Len(r) = Len(shape) + 3
          /\ \A i \in 1..(Len(shape) + 3) :
               r[i] = IF i = 1 THEN Cmd("multi", NoKey, NoCol, calls + 1, by)
                      ELSE IF i = 2 THEN Cmd("sadd", k, NoCol, calls + 1, by)
                      ELSE IF i = Len(shape) + 3 THEN Cmd("exec", k, NoCol, calls + 1, by)
                      ELSE Cmd("hmset", k, shape[i - 2], calls + 1, by)
      BY <1>0, WriteCmdsFacts
    <3> HIDE DEF r
    <3>2. \A i \in 1..Len(r) : r[i].op \in {"multi", "sadd", "hmset", "exec"}
      BY <3>1 DEF Cmd
    <3> QED
      BY <3>1, <3>2
  <2>2. Call(by) /\ ExecCmds(r) /\ ReturnFrom(fullRead, deleteAll) /\ readsDue' = readsDue
    BY <1>1 DEF SubmitWrite
  <2> HIDE DEF r
  <2> QED
    BY <2>1, <2>2, ReadOtherCall
<1>2. CASE WriteSingleRow
  BY <1>1, <1>2, ShapesAssumption DEF WriteSingleRow, CallNames
<1>3. CASE WriteSingleColumn
  <2>1. PICK k \in Keys, c \in Cols : SubmitWrite(k, <<c>>, "writeColumn")
    BY <1>3 DEF WriteSingleColumn
  <2>2. <<c>> \in Seq(Cols) \ {<< >>} /\ "writeColumn" \in CallNames
    BY DEF CallNames
  <2> QED
    BY <1>1, <2>1, <2>2
<1>4. CASE DeleteSingleRow
  <2>1. PICK k \in Keys : ExecCmds(DeleteCmds(k, "deleteRow"))
    BY <1>4 DEF DeleteSingleRow
  <2> DEFINE r == DeleteCmds(k, "deleteRow")
  <2>2. r \in Seq(Cmds) /\ \A i \in 1..Len(r) : r[i].op \notin {"smembers", "hgetall"}
    <3> DEFINE a == Cmd("srem", k, NoCol, 0, "deleteRow")
               b == Cmd("del", k, NoCol, 0, "deleteRow")
    <3>1. r = <<a, b>> /\ a.op = "srem" /\ b.op = "del"
      BY DEF DeleteCmds, Cmd
    <3>2. r \in Seq(Cmds)
      BY PlainDelete DEF CallNames, Plain
    <3> HIDE DEF a, b, r
    <3> QED
      BY <3>1, <3>2
  <2>3. /\ Call("deleteRow") /\ ExecCmds(r) /\ ReturnFrom(fullRead, deleteAll)
        /\ readsDue' = readsDue
    BY <1>4, <2>1 DEF DeleteSingleRow
  <2> HIDE DEF r
  <2> QED
    BY <2>2, <2>3, ReadOtherCall
<1>5. CASE FlushAll
  <2> DEFINE r == <<Cmd("flushdb", NoKey, NoCol, 0, "flush")>>
  <2>1. r \in Seq(Cmds) /\ \A i \in 1..Len(r) : r[i].op \notin {"smembers", "hgetall"}
    BY PlainSingle DEF CallNames, Plain, Cmd
  <2>2. Call("flush") /\ ExecCmds(r) /\ ReturnFrom(fullRead, deleteAll) /\ readsDue' = readsDue
    BY <1>5 DEF FlushAll
  <2> HIDE DEF r
  <2> QED
    BY <2>1, <2>2, ReadOtherCall
<1>6. CASE ReadAll
  <2> DEFINE c == SmembersCmd("readAll")
  <2>1. c \in Cmds /\ c.op = "smembers"
    BY DEF SmembersCmd, Cmd, Cmds, OpNames, CallNames
  <2>2. /\ ExecCmds(<<c>>) /\ ~fullRead /\ ReturnFrom(TRUE, deleteAll) /\ readsDue' = readsDue + 1
        /\ rowsLeft' = rowsLeft /\ connState # "disconnected"
    BY <1>6 DEF ReadAll, Call, MayScan, ReadsApart
  <2> HIDE DEF c
  <2>3. /\ pending' = pending \o <<c>> /\ fullRead' = TRUE /\ deleteAll' = FALSE
        /\ fullRead = FALSE /\ pending \in Seq(Cmds)
    BY <2>2 DEF ExecCmds, ReturnFrom, ReadInv, IInv, TypeOK
  <2>4. ReadsInv(pending \o <<c>>, TRUE, rowsLeft, readsDue + 1)
    BY <2>1, <2>3, ReadsScan DEF ReadInv
  <2> QED
    BY <2>2, <2>3, <2>4 DEF ReadInv
<1>7. CASE Close
  BY <1>7 DEF Close, ReadInv
<1>8. ~DeleteAllRow
  BY DEF DeleteAllRow, Call, MayCall, ReadsApart
<1> QED
  BY <1>2, <1>3, <1>4, <1>5, <1>6, <1>7, <1>8 DEF ApiCall

(* A callback pops the head and counts it, by its answer or its failure.   *)
LEMMA ReadPops ==
  ASSUME IInv, ReadInv, pending # << >>, pending' = Tail(pending), deleteAll' = FALSE,
         \/ /\ Head(pending).op \notin {"smembers", "hgetall"}
            /\ UNCHANGED <<fullRead, rowsLeft, readsDue>>
         \/ Head(pending).op = "hgetall" /\ CountRow /\ fullRead' = fullRead
         \/ Head(pending).op = "smembers" /\ FailSmembers
  PROVE  ReadInv'
<1>1. /\ pending \in Seq(Cmds) /\ fullRead \in BOOLEAN
      /\ ReadsInv(pending, fullRead, rowsLeft, readsDue)
  BY DEF IInv, TypeOK, ReadInv
<1>2. /\ Head(pending).op \notin {"smembers", "hgetall"} =>
           ReadsInv(Tail(pending), fullRead, rowsLeft, readsDue)
      /\ Head(pending).op = "hgetall" =>
           ReadsInv(Tail(pending), fullRead, rowsLeft - 1,
                    IF rowsLeft - 1 <= 0 THEN readsDue - 1 ELSE readsDue)
      /\ Head(pending).op = "smembers" =>
           fullRead /\ rowsLeft = 0 /\ readsDue = 1 /\ ReadsInv(Tail(pending), FALSE, 0, 0)
  BY <1>1, ReadsPop
<1>3. CASE Head(pending).op \notin {"smembers", "hgetall"} /\ UNCHANGED <<fullRead, rowsLeft, readsDue>>
  BY <1>2, <1>3 DEF ReadInv
<1>4. CASE Head(pending).op = "hgetall" /\ CountRow /\ fullRead' = fullRead
  BY <1>2, <1>4 DEF ReadInv, CountRow
<1>5. CASE Head(pending).op = "smembers" /\ FailSmembers
  <2>1. /\ fullRead' = FALSE /\ rowsLeft' = 0 /\ readsDue' = 0
        /\ ReadsInv(Tail(pending), FALSE, 0, 0)
    <3>1. fullRead /\ rowsLeft = 0 /\ readsDue = 1 /\ ReadsInv(Tail(pending), FALSE, 0, 0)
      BY <1>2, <1>5
    <3>2. fullRead' = FALSE /\ rowsLeft' = rowsLeft /\ readsDue' = readsDue - 1
      BY <1>5, <3>1 DEF FailSmembers
    <3>3. rowsLeft' = 0
      BY <3>1, <3>2
    <3>4. readsDue' = 0
      BY <3>1, <3>2
    <3> QED
      BY <3>1, <3>2, <3>3, <3>4
  <2> QED
    BY <2>1 DEF ReadInv
<1> QED
  BY <1>3, <1>4, <1>5

(* The reply to SMEMBERS: the rows that it lists are asked for.            *)
LEMMA ReadReplySmembers ==
  ASSUME IInv, ReadInv, ReplySmembers
  PROVE  ReadInv'
<1>1. PICK order \in SetToSeqs(Head(answers).listed) :
        LET more == (IF fullRead THEN ReadCmds(order) ELSE << >>)
                      \o (IF deleteAll THEN DelRowCmds(order) ELSE << >>)
        IN  /\ pending' = Tail(pending) \o more
            /\ wire' = Tail(wire) \o more
            /\ rowsLeft' = IF fullRead /\ order # << >> THEN Len(order) ELSE rowsLeft
            /\ readsDue' = IF fullRead /\ order = << >> THEN readsDue - 1 ELSE readsDue
            /\ deleteAll' = (deleteAll /\ order # << >>)
  BY DEF ReplySmembers
<1>2. /\ pending \in Seq(Cmds) /\ pending # << >> /\ fullRead \in BOOLEAN
      /\ Head(pending).op = "smembers" /\ ~deleteAll /\ fullRead' = FALSE
      /\ ReadsInv(pending, fullRead, rowsLeft, readsDue)
  BY DEF IInv, TypeOK, ReadInv, ReplySmembers, Deliver
<1>3. fullRead /\ rowsLeft = 0 /\ readsDue = 1 /\ ReadsInv(Tail(pending), FALSE, 0, 0)
  BY <1>2, ReadsPop
<1>4. order \in Seq(Keys)
  <2>1. answers \in Seq(Replies) /\ answers # << >>
    BY DEF IInv, TypeOK, ReplySmembers, Deliver
  <2>2. Head(answers) \in Replies
    BY <2>1, TailCmds
  <2>3. Head(answers).listed \in SUBSET Keys
    BY <2>2 DEF Replies
  <2> QED
    BY <2>3, OrderIsSeq
<1>5. Tail(pending) \in Seq(Cmds) /\ ReadCmds(order) \in Seq(Cmds)
  BY <1>2, <1>4, TailCmds, PlainRead DEF Plain
<1>6. ReadsInv(Tail(pending) \o ReadCmds(order), FALSE, Len(order),
               IF Len(order) > 0 THEN 1 ELSE 0)
  BY <1>3, <1>4, <1>5, ReadsRows
<1>7. pending' = Tail(pending) \o ReadCmds(order)
  <2>1. pending' = Tail(pending) \o (ReadCmds(order) \o << >>)
    BY <1>1, <1>2, <1>3
  <2>2. ReadCmds(order) \o << >> = ReadCmds(order)
    BY <1>5
  <2> QED
    BY <2>1, <2>2
<1>8. rowsLeft' = Len(order) /\ readsDue' = (IF Len(order) > 0 THEN 1 ELSE 0) /\ deleteAll' = FALSE
  <2>1. order = << >> <=> Len(order) = 0
    BY <1>4
  <2>2. Len(order) \in Nat
    BY <1>4
  <2>3. rowsLeft' = IF order # << >> THEN Len(order) ELSE 0
    BY <1>1, <1>3
  <2>4. readsDue' = IF order = << >> THEN 0 ELSE 1
    BY <1>1, <1>3
  <2>5. deleteAll' = FALSE
    BY <1>1, <1>2
  <2> QED
    BY <2>1, <2>2, <2>3, <2>4, <2>5
<1> QED
  BY <1>2, <1>6, <1>7, <1>8 DEF ReadInv

(* The failure of the head.                                                *)
LEMMA ReadFailure ==
  ASSUME IInv, ReadInv, pending # << >>, pending' = Tail(pending), deleteAll' = deleteAll,
         CmdFailure(Head(pending))
  PROVE  ReadInv'
<1> DEFINE c == Head(pending)
<1>1. deleteAll' = FALSE
  BY DEF ReadInv, IInv, TypeOK
<1>2. \/ c.op = "smembers" /\ FailSmembers
      \/ c.op = "hgetall" /\ CountRow /\ fullRead' = fullRead
      \/ /\ c.op \notin {"smembers", "hgetall"}
         /\ UNCHANGED <<fullRead, rowsLeft, readsDue>>
  BY DEF CmdFailure, FailHgetall, FailHmset, FailExec, FailOther
<1> QED
  BY <1>1, <1>2, ReadPops

(* The callbacks of replies, and those of a connection that ends.          *)
LEMMA ReadCallbacks ==
  ASSUME IInv, ReadInv, Callback \/ TearDown
  PROVE  ReadInv'
<1>0. ~deleteAll /\ deleteAll = FALSE
  BY DEF IInv, TypeOK, ReadInv
<1>1. CASE ReplySmembers
  BY <1>1, ReadReplySmembers
<1>2. CASE ReplyHgetall
  BY <1>0, <1>2, ReadPops DEF ReplyHgetall, Deliver, Popped
<1>3. CASE ReplyDel \/ ReplyHmset \/ ReplyExec \/ ReplyOther
  <2>1. /\ pending # << >> /\ pending' = Tail(pending) /\ deleteAll' = FALSE
        /\ Head(pending).op \notin {"smembers", "hgetall"}
        /\ UNCHANGED <<fullRead, rowsLeft, readsDue>>
    BY <1>0, <1>3 DEF ReplyDel, ReplyHmset, ReplyExec, ReplyOther, Deliver, Popped
  <2> QED
    BY <2>1, ReadPops
<1>4. CASE ReplyError \/ NullReply \/ EmptyCmdQueue
  BY <1>4, ReadFailure DEF ReplyError, NullReply, EmptyCmdQueue, Deliver, Popped
<1>5. CASE Ended
  <2>1. ~fullRead /\ fullRead = FALSE
    BY <1>5, ReadFlagDown DEF Ended, IInv, TypeOK
  <2> QED
    BY <1>0, <1>5, <2>1 DEF Ended, ReadInv, callVars
<1> QED
  BY <1>1, <1>2, <1>3, <1>4, <1>5 DEF Callback, TearDown

(* Every step keeps count of the full reads.                               *)
LEMMA ReadStep ==
  ASSUME ReadsApart, IInv, ReadInv, [Next]_vars
  PROVE  ReadInv'
<1>1. CASE ConnectOk \/ ConnectFail \/ ConnectionLost \/ ServerRuns \/ ServerRefusal \/ Idle
  <2>1. UNCHANGED <<pending, fullRead, deleteAll, rowsLeft, readsDue>>
    BY <1>1 DEF ConnectOk, ConnectFail, ConnectionLost, ServerRuns, ServerRefusal, Idle, vars,
                clientVars, callVars
  <2> QED
    BY <2>1 DEF ReadInv
<1>2. CASE UNCHANGED vars
  BY <1>2 DEF vars, clientVars, callVars, ReadInv
<1> QED
  BY <1>1, <1>2, ReadCalls, ReadCallbacks DEF Next

(* number_of_rows counts the outstanding row reads exactly, and each full  *)
(* read has one read_complete_cb ahead of it (db_api.c 478-516, 556-571),  *)
(* over faults, refusals, row deletions and db_close.  With delete-alls    *)
(* among them, or on a handle that is disconnected, it is false.           *)
THEOREM FullReadsCounted == ReadsApart => (Spec => []FullReadAccounting)
<1> SUFFICES ASSUME ReadsApart PROVE Spec => []FullReadAccounting
  OBVIOUS
<1>1. Init => ReadInv
  BY ReadInitHolds
<1>2. IInv /\ ReadInv /\ [Next]_vars => ReadInv'
  BY ReadStep
<1>3. IInv /\ ReadInv => FullReadAccounting
  <2> SUFFICES ASSUME IInv, ReadInv PROVE FullReadAccounting
    OBVIOUS
  <2> DEFINE rowReads == {i \in DOMAIN pending : pending[i].op = "hgetall"}
  <2>1. /\ pending \in Seq(Cmds) /\ Len(pending) \in Nat /\ DOMAIN pending = 1..Len(pending)
        /\ rowsLeft \in Nat
        /\ readsDue = (IF fullRead THEN 1 ELSE 0) + (IF rowsLeft > 0 THEN 1 ELSE 0)
    BY DEF IInv, TypeOK, ReadInv, ReadsInv
  <2>2. PICK a \in Nat \ {0} : RowReadsAt(pending, a, rowsLeft)
    BY DEF ReadInv, ReadsInv
  <2>3. rowReads = a..(a + rowsLeft - 1)
    BY <2>1, <2>2 DEF RowReadsAt
  <2>4. Cardinality(rowReads) = rowsLeft
    <3>1. a \in Int /\ a + rowsLeft - 1 \in Int
      BY <2>1
    <3>2. Cardinality(a..(a + rowsLeft - 1))
            = IF a > a + rowsLeft - 1 THEN 0 ELSE (a + rowsLeft - 1) - a + 1
      BY <3>1, FS_Interval
    <3>3. (IF a > a + rowsLeft - 1 THEN 0 ELSE (a + rowsLeft - 1) - a + 1) = rowsLeft
      BY <2>1
    <3> QED
      BY <2>3, <3>2, <3>3
  <2>5. rowReads # {} <=> rowsLeft > 0
    BY <2>1, <2>3
  <2> HIDE DEF rowReads
  <2>6. readsDue = (IF fullRead THEN 1 ELSE 0) + (IF rowReads # {} THEN 1 ELSE 0)
    BY <2>1, <2>5
  <2> QED
    BY <2>4, <2>6 DEF FullReadAccounting, rowReads
<1> QED
  BY <1>1, <1>2, <1>3, InductiveInvariant, PTL DEF Spec

=============================================================================
