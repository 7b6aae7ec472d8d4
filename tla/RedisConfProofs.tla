-------------------------- MODULE RedisConfProofs ---------------------------
(***************************************************************************)
(* What TLAPS proves of RedisConf, for every set of addresses, every       *)
(* initial redis.conf of the kind named in the theorem and every number of *)
(* calls.                                                                  *)
(*                                                                         *)
(* The properties speak of the server; what it runs with was in three      *)
(* files before.  ConfInv follows it back: the temporary file of a call is *)
(* the rewritten redis.conf, the file copied from it is the temporary one, *)
(* and redis.conf keeps the lines the loops look for, whoever rewrote it.  *)
(***************************************************************************)
EXTENDS RedisConf, Integers, FiniteSetTheorems, TLAPS

(* A file that the loops of db_slave_of and db_bind_interface find their   *)
(* lines in.                                                               *)
Complete(lines) == (Has(lines, "slaveof") \/ Has(lines, "comment")) /\ Has(lines, "bind")

(* A call between its rewriting of the file and its return.               *)
InProgress ==
  /\ call = [name |-> call.name, ip |-> call.ip, step |-> call.step, done |-> call.done]
  /\ call.name \in Calls /\ call.ip \in Ips
  /\ call.step \in {"copy", "restart", "return"} /\ call.done \in BOOLEAN

(* The call in progress and, until one of its commands fails, what it has  *)
(* written.                                                                *)
CallInv ==
  /\ calls \in Nat
  /\ call = NoCall \/ InProgress
  /\ asked.name # "none" => call = NoCall
  /\ call.step = "copy" => file["temp"] = Rewritten(call.name, file["conf"], call.ip)
  /\ call.step = "restart" /\ call.name # "bind_interface" /\ call.done =>
       file[Target(call.name)] = Rewritten(call.name, file["conf"], call.ip)

(* The lines of redis.conf, and the address of its bind lines.             *)
FileInv ==
  /\ DOMAIN file = Files
  /\ Complete(file["conf"])
  /\ bound \in Ips \cup {NoIp}
  /\ bound # NoIp => Values(file["conf"], "bind") = {bound}

Replicates(ip) ==
  /\ Values(server, "slaveof") = {ip}
  /\ bound # NoIp => Values(server, "bind") = {bound}

(* What the server was last started with.                                  *)
ServerInv ==
  /\ Successful("slave_of") => Replicates(asked.ip)
  /\ call.step = "return" /\ call.name = "slave_of" /\ call.done => Replicates(call.ip)

ConfInv == CallInv /\ FileInv /\ ServerInv

-----------------------------------------------------------------------------
(* What the loops do to the lines.                                         *)

(* db_slave_of leaves one address to replicate from, and the bind lines.   *)
LEMMA DemotedLines ==
  ASSUME NEW lines, NEW ip, Complete(lines)
  PROVE  /\ Values(Demoted(lines, ip), "slaveof") = {ip}
         /\ Values(Demoted(lines, ip), "bind") = Values(lines, "bind")
<1> DEFINE d == Demoted(lines, ip)
<1>1. /\ DOMAIN d = DOMAIN lines
      /\ \A n \in DOMAIN lines :
           d[n] = IF lines[n].kind \in {"slaveof", "comment"} THEN Line("slaveof", ip) ELSE lines[n]
  BY DEF Demoted, Map
<1> HIDE DEF d
<1>2. Values(d, "slaveof") = {ip}
  <2>1. PICK m \in DOMAIN lines : lines[m].kind \in {"slaveof", "comment"}
    BY DEF Complete, Has
  <2>2. d[m].kind = "slaveof" /\ d[m].ip = ip
    BY <1>1, <2>1 DEF Line
  <2>3. \A n \in DOMAIN d : d[n].kind = "slaveof" => d[n].ip = ip
    BY <1>1 DEF Line
  <2> QED
    BY <1>1, <2>2, <2>3 DEF Values
<1>3. Values(d, "bind") = Values(lines, "bind")
  <2>1. \A n \in DOMAIN lines : d[n].kind = "bind" <=> lines[n].kind = "bind"
    BY <1>1 DEF Line
  <2>2. \A n \in DOMAIN lines : d[n].kind = "bind" => d[n] = lines[n]
    BY <1>1 DEF Line
  <2> QED
    BY <1>1, <2>1, <2>2 DEF Values
<1> QED
  BY <1>2, <1>3 DEF d

(* db_bind_interface leaves one address to listen on, and all other lines. *)
LEMMA ReboundLines ==
  ASSUME NEW lines, NEW ip, Complete(lines)
  PROVE  /\ Values(Rebound(lines, ip), "bind") = {ip}
         /\ Complete(Rebound(lines, ip))
         /\ Has(lines, "slaveof") => Has(Rebound(lines, ip), "slaveof")
<1> DEFINE d == Rebound(lines, ip)
<1>1. /\ DOMAIN d = DOMAIN lines
      /\ \A n \in DOMAIN lines :
           d[n] = IF lines[n].kind = "bind" THEN Line("bind", ip) ELSE lines[n]
  BY DEF Rebound, Map, Bind
<1> HIDE DEF d
<1>2. \A n \in DOMAIN lines : d[n].kind = lines[n].kind
  BY <1>1 DEF Line
<1>3. \A kind : Has(lines, kind) => Has(d, kind)
  BY <1>1, <1>2 DEF Has
<1>4. Complete(d)
  BY <1>3 DEF Complete
<1>5. PICK m \in DOMAIN lines : lines[m].kind = "bind"
  BY DEF Complete, Has
<1>6. Values(d, "bind") = {ip}
  BY <1>1, <1>2, <1>5 DEF Values, Line
<1> QED
  BY <1>3, <1>4, <1>6 DEF d

(* db_become_master leaves no directive to replicate.                      *)
LEMMA PromotedLines ==
  ASSUME NEW lines, NEW ip
  PROVE  ~Has(Promoted(lines, ip), "slaveof")
<1> DEFINE kept == Uncommented(lines)
           d == Promoted(lines, ip)
<1>1. d = [n \in DOMAIN kept |-> IF kept[n].kind = "slaveof" THEN Line("comment", NoIp)
                                  ELSE IF kept[n].kind = "bind" THEN Line("bind", ip) ELSE kept[n]]
  BY DEF Promoted, Map, Bind
<1> HIDE DEF kept, d
<1>2. \A n \in DOMAIN d : d[n].kind # "slaveof"
  BY <1>1 DEF Line
<1> QED
  BY <1>2 DEF Has, d

-----------------------------------------------------------------------------
(* The actions preserve the invariant, one lemma each.                     *)

(* redis.conf is what the server starts with.                              *)
LEMMA InitHolds ==
  ASSUME ConfAssumption, \A c \in InitialConfs : Complete(c), Init
  PROVE  ConfInv
BY DEF Init, ConfInv, CallInv, FileInv, ServerInv, Successful, NoCall, Files, Calls

(* The loop writes only the temporary file.                                *)
LEMMA RewriteHolds ==
  ASSUME ConfAssumption, ConfInv, NEW name \in Calls, NEW ip \in Ips, Rewrite(name, ip)
  PROVE  ConfInv'
<1> DEFINE started == [name |-> name, ip |-> ip, step |-> "copy", done |-> TRUE]
<1>1. /\ file'["conf"] = file["conf"] /\ DOMAIN file' = Files
      /\ file'["temp"] = Rewritten(name, file["conf"], ip)
      /\ call = NoCall /\ calls' = calls + 1 /\ UNCHANGED <<server, bound>>
      /\ \/ call' = started /\ asked' = NoCall
         \/ UNCHANGED call /\ asked' = started /\ name = "become_master"
  BY DEF Rewrite, ConfInv, FileInv, Files
<1>2. CallInv'
  <2>1. CASE call' = started /\ asked' = NoCall
    <3>1. InProgress' /\ call'.step = "copy" /\ asked'.name = "none"
      BY <2>1 DEF InProgress, NoCall
    <3>2. call'.name = name /\ call'.ip = ip
      BY <2>1
    <3> QED
      BY <1>1, <3>1, <3>2 DEF ConfInv, CallInv
  <2>2. CASE UNCHANGED call
    BY <1>1, <2>2 DEF ConfInv, CallInv, NoCall
  <2> QED
    BY <1>1, <2>1, <2>2
<1>3. FileInv'
  BY <1>1 DEF ConfInv, FileInv
<1>4. ServerInv'
  BY <1>1 DEF ServerInv, Successful, NoCall
<1> QED
  BY <1>2, <1>3, <1>4 DEF ConfInv

(* A command that fails changes nothing but the call, which is no longer   *)
(* accounted for.                                                          *)
LEMMA FailsHolds ==
  ASSUME ConfInv, NEW next \in {"restart", "return"}, InProgress, Fails(next)
  PROVE  ConfInv'
<1>1. /\ call' = [call EXCEPT !.step = next, !.done = FALSE]
      /\ call'.name = call.name /\ call'.ip = call.ip /\ call'.step = next /\ call'.done = FALSE
      /\ UNCHANGED <<file, server, calls, asked, bound>>
  BY DEF Fails, InProgress
<1>2. InProgress'
  BY <1>1 DEF InProgress
<1>3. call # NoCall
  BY DEF InProgress, NoCall, Calls
<1>4. CallInv'
  BY <1>1, <1>2, <1>3 DEF ConfInv, CallInv
<1>5. FileInv'
  BY <1>1 DEF ConfInv, FileInv
<1>6. ServerInv'
  BY <1>1 DEF ConfInv, ServerInv, Successful, Replicates
<1> QED
  BY <1>4, <1>5, <1>6 DEF ConfInv

(* A step is that of a call in progress.                                   *)
LEMMA StepOfCall ==
  ASSUME ConfInv, call.step # "idle"
  PROVE  InProgress /\ call # NoCall /\ asked.name = "none"
<1>1. call # NoCall
  BY DEF NoCall
<1> QED
  BY <1>1 DEF ConfInv, CallInv

(* Only db_bind_interface copies over redis.conf, and keeps its lines.     *)
LEMMA CopyHolds ==
  ASSUME ConfAssumption, ConfInv, call.step = "copy", Copied
  PROVE  ConfInv'
<1>0. InProgress /\ asked.name = "none"
  BY StepOfCall
<1>1. /\ call.name \in Calls /\ call.ip \in Ips
      /\ call' = [call EXCEPT !.step = "restart"]
      /\ call'.name = call.name /\ call'.ip = call.ip /\ call'.step = "restart"
      /\ call'.done = call.done /\ UNCHANGED <<server, calls, asked>>
      /\ bound' = IF call.name = "bind_interface" THEN call.ip ELSE bound
  BY <1>0 DEF Copied, InProgress
<1>2. /\ DOMAIN file' = Files
      /\ file'[Target(call.name)] = Rewritten(call.name, file["conf"], call.ip)
      /\ call.name # "bind_interface" => file'["conf"] = file["conf"]
  BY <1>1 DEF Copied, ConfInv, CallInv, FileInv, Target, Calls, Files
<1>3. call.name = "bind_interface" =>
        Values(file'["conf"], "bind") = {call.ip} /\ Complete(file'["conf"])
  BY <1>1, <1>2, ReboundLines DEF Target, Rewritten, ConfInv, FileInv
<1>4. InProgress'
  BY <1>0, <1>1 DEF InProgress
<1>5. CallInv'
  BY <1>0, <1>1, <1>2, <1>4 DEF ConfInv, CallInv
<1>6. FileInv'
  BY <1>1, <1>2, <1>3 DEF ConfInv, FileInv
<1>7. ServerInv'
  BY <1>0, <1>1 DEF ServerInv, Successful
<1> QED
  BY <1>5, <1>6, <1>7 DEF ConfInv

(* The server gets the file that was rewritten for the call.               *)
LEMMA RestartHolds ==
  ASSUME ConfAssumption, ConfInv, call.step = "restart", Restarted
  PROVE  ConfInv'
<1>0. InProgress /\ asked.name = "none"
  BY StepOfCall
<1>1. /\ call.name \in Calls /\ call.ip \in Ips
      /\ call' = [call EXCEPT !.step = "return"]
      /\ call'.name = call.name /\ call'.ip = call.ip /\ call'.step = "return"
      /\ call'.done = call.done
      /\ server' = file[Target(call.name)] /\ UNCHANGED <<file, calls, asked, bound>>
  BY <1>0 DEF Restarted, InProgress
<1>2. InProgress'
  BY <1>0, <1>1 DEF InProgress
<1>3. CallInv'
  BY <1>0, <1>1, <1>2 DEF ConfInv, CallInv
<1>4. FileInv'
  BY <1>1 DEF ConfInv, FileInv
<1>5. ServerInv'
  <2>1. ~Successful("slave_of")'
    BY <1>0, <1>1 DEF Successful
  <2>2. ASSUME call.name = "slave_of", call.done PROVE Replicates(call.ip)'
    <3>1. server' = Demoted(file["conf"], call.ip)
      BY <1>1, <2>2 DEF ConfInv, CallInv, Target, Rewritten
    <3> QED
      BY <1>1, <3>1, DemotedLines DEF Replicates, ConfInv, FileInv
  <2> QED
    BY <1>1, <2>1, <2>2 DEF ServerInv
<1> QED
  BY <1>3, <1>4, <1>5 DEF ConfInv

(* What the call asked for is what the server runs with.                   *)
LEMMA ReturnHolds ==
  ASSUME ConfInv, Return
  PROVE  ConfInv'
<1>1. call.step = "return" /\ asked' = call /\ call' = NoCall /\ UNCHANGED <<file, server, calls, bound>>
  BY DEF Return
<1>2. CallInv'
  BY <1>1 DEF ConfInv, CallInv, NoCall
<1>3. FileInv'
  BY <1>1 DEF ConfInv, FileInv
<1>4. ServerInv'
  BY <1>1 DEF ConfInv, ServerInv, Successful, Replicates, NoCall
<1> QED
  BY <1>2, <1>3, <1>4 DEF ConfInv

(* A call cut short counts for nothing.                                    *)
LEMMA DiesHolds ==
  ASSUME ConfInv, Dies
  PROVE  ConfInv'
<1>1. CallInv' /\ FileInv'
  BY DEF Dies, ConfInv, CallInv, FileInv, NoCall
<1>2. ServerInv'
  BY DEF Dies, ConfInv, ServerInv, Successful, Replicates, NoCall
<1> QED
  BY <1>1, <1>2 DEF ConfInv

(* The five actions together.                                              *)
LEMMA ConfStep ==
  ASSUME ConfAssumption, ConfInv, [Next]_vars
  PROVE  ConfInv'
<1>1. CASE UNCHANGED vars
  BY <1>1 DEF vars, ConfInv, CallInv, InProgress, FileInv, ServerInv, Successful, Replicates
<1>2. ASSUME NEW name \in Calls, NEW ip \in Ips, Rewrite(name, ip) PROVE ConfInv'
  BY <1>2, RewriteHolds
<1>3. CASE Copy
  BY <1>3, StepOfCall, CopyHolds, FailsHolds DEF Copy
<1>4. CASE Restart
  BY <1>4, StepOfCall, RestartHolds, FailsHolds DEF Restart
<1> QED
  BY <1>1, <1>2, <1>3, <1>4, ReturnHolds, DiesHolds DEF Next

-----------------------------------------------------------------------------
(* A server told to replicate does so, and from that address only,         *)
(* whatever calls came before, wherever the process died in them and       *)
(* whichever of their commands failed, if no command of the call itself    *)
(* fails and redis.conf of the installation has the lines the loops look   *)
(* for.                                                                    *)
THEOREM ReplicaOfTheMaster ==
  ASSUME \A c \in InitialConfs : Complete(c)
  PROVE  Spec => []ReplicaAfterDemotion
<1>1. Init => ConfInv
  BY InitHolds, ConfAssumption
<1>2. ConfInv /\ [Next]_vars => ConfInv'
  BY ConfStep, ConfAssumption
<1>3. ConfInv => ReplicaAfterDemotion
  BY DEF ConfInv, ServerInv, ReplicaAfterDemotion, Replicates
<1> QED
  BY <1>1, <1>2, <1>3, PTL DEF Spec

(* A replica listens on the address db_bind_interface last wrote to        *)
(* redis.conf: that call alone writes there, and db_slave_of starts from   *)
(* that file.                                                              *)
THEOREM ReplicaOnItsInterface ==
  ASSUME \A c \in InitialConfs : Complete(c)
  PROVE  Spec => []ReplicaKeepsBinding
<1>1. Init => ConfInv
  BY InitHolds, ConfAssumption
<1>2. ConfInv /\ [Next]_vars => ConfInv'
  BY ConfStep, ConfAssumption
<1>3. ConfInv => ReplicaKeepsBinding
  BY DEF ConfInv, ServerInv, ReplicaKeepsBinding, Replicates
<1> QED
  BY <1>1, <1>2, <1>3, PTL DEF Spec

-----------------------------------------------------------------------------
(* db_become_master goes on only if it finds a directive in redis.conf,    *)
(* not if the server replicates: the two agree as long as redis.conf has   *)
(* one, which no call removes because none writes its result there.        *)
PromotionInv ==
  /\ Has(file["conf"], "slaveof")
  /\ Successful("become_master") => ~Has(server, "slaveof")
  /\ call.step = "return" /\ call.name = "become_master" /\ call.done => ~Has(server, "slaveof")

(* Nothing removes the directive from redis.conf.                          *)
LEMMA PromotionStep ==
  ASSUME ConfAssumption, ConfInv, PromotionInv, [Next]_vars
  PROVE  PromotionInv'
<1>1. CASE UNCHANGED vars
  BY <1>1 DEF vars, PromotionInv, Successful
<1>2. ASSUME NEW name \in Calls, NEW ip \in Ips, Rewrite(name, ip) PROVE PromotionInv'
  <2>1. /\ file'["conf"] = file["conf"] /\ UNCHANGED server /\ call = NoCall
        /\ \/ asked' = NoCall /\ call'.step = "copy"
           \/ UNCHANGED call /\ ~Has(file["conf"], "slaveof")
    BY <1>2 DEF Rewrite, ConfInv, FileInv, Files
  <2> QED
    BY <2>1 DEF PromotionInv, Successful, NoCall
<1>3. ASSUME NEW next \in {"restart", "return"}, InProgress, Fails(next) PROVE PromotionInv'
  <2>1. call'.done = FALSE /\ UNCHANGED <<file, server, asked>>
    BY <1>3 DEF Fails, InProgress
  <2> QED
    BY <2>1 DEF PromotionInv, Successful
<1>4. ASSUME call.step = "copy", Copied PROVE PromotionInv'
  <2>0. InProgress
    BY <1>4, StepOfCall
  <2>1. call'.step = "restart" /\ UNCHANGED <<server, asked>>
    BY <1>4, <2>0 DEF Copied, InProgress
  <2>2. Has(file'["conf"], "slaveof")
    <3>1. CASE call.name = "bind_interface"
      <4>1. file'["conf"] = Rebound(file["conf"], call.ip)
        BY <1>4, <3>1 DEF Copied, ConfInv, CallInv, FileInv, Target, Rewritten, Files
      <4> QED
        BY <4>1, ReboundLines DEF PromotionInv, ConfInv, FileInv
    <3>2. CASE call.name # "bind_interface"
      <4>1. file'["conf"] = file["conf"]
        BY <1>4, <2>0, <3>2 DEF Copied, InProgress, ConfInv, FileInv, Target, Calls, Files
      <4> QED
        BY <4>1 DEF PromotionInv
    <3> QED
      BY <3>1, <3>2
  <2> QED
    BY <2>1, <2>2 DEF PromotionInv, Successful
<1>5. ASSUME call.step = "restart", Restarted PROVE PromotionInv'
  <2>0. InProgress /\ asked.name = "none"
    BY <1>5, StepOfCall
  <2>1. /\ call'.name = call.name /\ call'.done = call.done
        /\ server' = file[Target(call.name)] /\ UNCHANGED <<file, asked>>
    BY <1>5, <2>0 DEF Restarted, InProgress
  <2>2. ASSUME call.name = "become_master", call.done PROVE ~Has(server', "slaveof")
    <3>1. server' = Promoted(file["conf"], call.ip)
      BY <1>5, <2>1, <2>2 DEF ConfInv, CallInv, Target, Rewritten
    <3> QED
      BY <3>1, PromotedLines
  <2> QED
    BY <2>0, <2>1, <2>2 DEF PromotionInv, Successful
<1>6. CASE Return
  BY <1>6 DEF Return, PromotionInv, Successful, NoCall
<1>7. CASE Dies
  BY <1>7 DEF Dies, PromotionInv, Successful, NoCall
<1>8. CASE Copy
  BY <1>3, <1>4, <1>8, StepOfCall DEF Copy
<1>9. CASE Restart
  BY <1>3, <1>5, <1>9, StepOfCall DEF Restart
<1> QED
  BY <1>1, <1>2, <1>6, <1>7, <1>8, <1>9 DEF Next

(* After a db_become_master whose commands did not fail the server is no   *)
(* replica, if redis.conf of the installation has a directive.  The        *)
(* hypothesis is needed: the run conf_promotion starts from a file that    *)
(* has the comment instead.                                                *)
THEOREM MasterIsNoReplica ==
  ASSUME \A c \in InitialConfs : Complete(c) /\ Has(c, "slaveof")
  PROVE  Spec => []MasterAfterPromotion
<1>1. Init => ConfInv /\ PromotionInv
  <2>1. Init => ConfInv
    BY InitHolds, ConfAssumption
  <2>2. Init => PromotionInv
    BY DEF Init, PromotionInv, Successful, Files, NoCall
  <2> QED
    BY <2>1, <2>2
<1>2. ConfInv /\ PromotionInv /\ [Next]_vars => ConfInv' /\ PromotionInv'
  BY ConfStep, PromotionStep, ConfAssumption
<1>3. PromotionInv => MasterAfterPromotion
  BY DEF PromotionInv, MasterAfterPromotion
<1> QED
  BY <1>1, <1>2, <1>3, PTL DEF Spec

-----------------------------------------------------------------------------
(* The types, which rest on nothing but the initial files.                 *)

(* A file without an address in a comment.                                 *)
Clean(lines) == lines \in Seq(Lines) /\ Values(lines, "comment") \subseteq {NoIp}

TypeInv ==
  /\ TypeOK /\ \A f \in Files : Clean(file[f])
  /\ call = NoCall \/ InProgress

(* Every place has a line: the ranks of a finite set of numbers are a      *)
(* one-to-one map onto the places.                                         *)
LEMMA RankOnto ==
  ASSUME NEW S \in SUBSET Nat, IsFiniteSet(S)
  PROVE  \A r \in 1..Cardinality(S) : \E n \in S : Rank(S, n) = r
<1> DEFINE Below(n) == {m \in S : m <= n}
           f == [n \in S |-> Rank(S, n)]
           k == Cardinality(S)
<1>1. k \in Nat
  BY FS_CardinalityType
<1>2. ASSUME NEW n \in S
      PROVE  /\ IsFiniteSet(Below(n)) /\ Rank(S, n) = Cardinality(Below(n))
             /\ Rank(S, n) \in 1..k
  <2>1. Below(n) \subseteq S /\ n \in Below(n)
    OBVIOUS
  <2>2. IsFiniteSet(Below(n)) /\ Cardinality(Below(n)) <= k
    BY <2>1, FS_Subset
  <2>3. Cardinality(Below(n)) \in Nat /\ Cardinality(Below(n)) # 0
    BY <2>1, <2>2, FS_CardinalityType, FS_EmptySet
  <2>4. Rank(S, n) = Cardinality(Below(n))
    BY DEF Rank
  <2> QED
    BY <1>1, <2>2, <2>3, <2>4
<1>3. ASSUME NEW n \in S, NEW m \in S, n < m
      PROVE  Rank(S, n) # Rank(S, m)
  <2>0. n \in Nat /\ m \in Nat /\ \A j \in S : j \in Nat
    OBVIOUS
  <2>1. Below(n) \subseteq Below(m) /\ m \notin Below(n) /\ m \in Below(m)
    <3>1. \A j \in S : j <= n => j <= m
      BY <1>3, <2>0
    <3>2. ~(m <= n) /\ m <= m
      BY <1>3, <2>0
    <3> QED
      BY <3>1, <3>2
  <2>2. Below(n) # Below(m)
    BY <2>1
  <2>3. IsFiniteSet(Below(m)) /\ Rank(S, n) = Cardinality(Below(n))
        /\ Rank(S, m) = Cardinality(Below(m))
    BY <1>2
  <2> HIDE DEF Below
  <2>4. Cardinality(Below(m)) = Cardinality(Below(n)) => Below(m) = Below(n)
    BY <2>1, <2>3, FS_Subset
  <2> QED
    BY <2>2, <2>3, <2>4
<1>4. \A n, m \in S : n # m => Rank(S, n) # Rank(S, m)
  <2> TAKE n, m \in S
  <2> HAVE n # m
  <2>1. n < m \/ m < n
    OBVIOUS
  <2> QED
    BY <1>3, <2>1
<1>5. f \in Injection(S, 1..k)
  BY <1>2, <1>4 DEF Injection, IsInjective
<1>6. IsFiniteSet(1..k) /\ Cardinality(1..k) = k
  BY <1>1, FS_Interval
<1>7. f \in Surjection(S, 1..k)
  BY <1>5, <1>6, FS_Injection
<1> QED
  BY <1>7 DEF Surjection

(* Dropping the comments leaves lines of the file that are none.           *)
LEMMA UncommentedLines ==
  ASSUME NEW lines \in Seq(Lines)
  PROVE  /\ Uncommented(lines) \in Seq(Lines)
         /\ \A n \in DOMAIN Uncommented(lines) : Uncommented(lines)[n].kind # "comment"
<1> DEFINE kept == {n \in DOMAIN lines : lines[n].kind # "comment"}
           k == Cardinality(kept)
<1>1. kept \subseteq 1..Len(lines) /\ IsFiniteSet(1..Len(lines))
  BY FS_Interval
<1>2. IsFiniteSet(kept) /\ kept \in SUBSET Nat
  BY <1>1, FS_Subset
<1>3. k \in Nat
  BY <1>2, FS_CardinalityType
<1>4. \A n \in kept : lines[n] \in Lines /\ lines[n].kind # "comment"
  BY <1>1
<1>5. \A r \in 1..k : \E n \in kept : Rank(kept, n) = r
  BY <1>2, RankOnto
<1>6. Uncommented(lines) = [r \in 1..k |-> lines[CHOOSE n \in kept : Rank(kept, n) = r]]
  BY DEF Uncommented
<1> HIDE DEF kept, k
<1>7. \A r \in 1..k :
        LET l == lines[CHOOSE n \in kept : Rank(kept, n) = r]
        IN  l \in Lines /\ l.kind # "comment"
  BY <1>4, <1>5
<1>8. Uncommented(lines) \in [1..k -> Lines]
  BY <1>6, <1>7
<1>9. Uncommented(lines) \in Seq(Lines) /\ DOMAIN Uncommented(lines) = 1..k
  BY <1>3, <1>8
<1> QED
  BY <1>6, <1>7, <1>9

(* A loop over a clean file writes a clean file.                           *)
LEMMA RewrittenLines ==
  ASSUME ConfAssumption, NEW name \in Calls, NEW ip \in Ips, NEW lines, Clean(lines)
  PROVE  Clean(Rewritten(name, lines, ip))
<1> DEFINE T == {"slaveof", "comment", "bind", "other"}
<1>1. lines \in Seq(Lines) /\ \A n \in DOMAIN lines : lines[n].kind = "comment" => lines[n].ip = NoIp
  BY DEF Clean, Values
<1>2. \A l \in Lines : l.kind \in T /\ l.ip \in Ips \cup {NoIp}
  BY DEF Lines
<1>3. \A kind \in T : \A i \in Ips \cup {NoIp} :
        Line(kind, i) \in Lines /\ Line(kind, i).kind = kind /\ Line(kind, i).ip = i
  BY DEF Line, Lines
<1>4. CASE name = "become_master"
  <2> DEFINE kept == Uncommented(lines)
             d == Promoted(lines, ip)
  <2>1. kept \in Seq(Lines)
    BY <1>1, UncommentedLines
  <2>2. d = [n \in DOMAIN kept |-> IF kept[n].kind = "slaveof" THEN Line("comment", NoIp)
                                    ELSE IF kept[n].kind = "bind" THEN Line("bind", ip) ELSE kept[n]]
    BY DEF Promoted, Map, Bind
  <2>3. \A n \in DOMAIN kept : kept[n].kind # "comment" /\ kept[n] \in Lines
    BY <1>1, <2>1, UncommentedLines
  <2> HIDE DEF kept, d
  <2>4. d \in Seq(Lines)
    BY <1>3, <2>1, <2>2, <2>3
  <2>5. \A n \in DOMAIN d : d[n].kind = "comment" => d[n].ip = NoIp
    BY <1>3, <2>2, <2>3
  <2>6. Clean(d)
    BY <2>4, <2>5 DEF Clean, Values
  <2> QED
    BY <1>4, <2>6 DEF d, Rewritten
<1>5. CASE name = "slave_of"
  <2> DEFINE d == Demoted(lines, ip)
  <2>1. d = [n \in DOMAIN lines |-> IF lines[n].kind \in {"slaveof", "comment"}
                                     THEN Line("slaveof", ip) ELSE lines[n]]
    BY DEF Demoted, Map
  <2> HIDE DEF d
  <2>2. d \in Seq(Lines)
    BY <1>1, <1>3, <2>1
  <2>3. \A n \in DOMAIN d : d[n].kind # "comment"
    BY <1>1, <1>3, <2>1
  <2>4. Clean(d)
    BY <2>2, <2>3 DEF Clean, Values
  <2> QED
    BY <1>5, <2>4 DEF d, Rewritten
<1>6. CASE name = "bind_interface"
  <2> DEFINE d == Rebound(lines, ip)
  <2>1. d = [n \in DOMAIN lines |-> IF lines[n].kind = "bind" THEN Line("bind", ip) ELSE lines[n]]
    BY DEF Rebound, Map, Bind
  <2> HIDE DEF d
  <2>2. d \in Seq(Lines)
    BY <1>1, <1>3, <2>1
  <2>3. \A n \in DOMAIN d : d[n].kind = "comment" => d[n].ip = NoIp
    BY <1>1, <1>3, <2>1
  <2>4. Clean(d)
    BY <2>2, <2>3 DEF Clean, Values
  <2> QED
    BY <1>6, <2>4 DEF d, Rewritten
<1> QED
  BY <1>4, <1>5, <1>6 DEF Calls

(* Each action keeps the types and the files clean.                        *)
LEMMA TypeStep ==
  ASSUME ConfAssumption, TypeInv, [Next]_vars
  PROVE  TypeInv'
<1> USE DEF TypeInv
<1>1. CASE UNCHANGED vars
  BY <1>1 DEF vars, TypeOK, InProgress
<1>2. ASSUME NEW name \in Calls, NEW ip \in Ips, Rewrite(name, ip) PROVE TypeInv'
  <2>1. Clean(Rewritten(name, file["conf"], ip))
    BY ConfAssumption, RewrittenLines DEF Files
  <2>2. /\ file' = [file EXCEPT !["temp"] = Rewritten(name, file["conf"], ip)]
        /\ call = NoCall /\ calls < MaxCalls /\ calls' = calls + 1
        /\ UNCHANGED <<server, failures, bound>>
    BY <1>2 DEF Rewrite
  <2>3. \A f \in Files : Clean(file'[f])
    BY <2>1, <2>2 DEF TypeOK, Files
  <2>4. file' \in [Files -> Seq(Lines)]
    BY <2>1, <2>2 DEF TypeOK, Files, Clean
  <2>5. calls' \in 0..MaxCalls
    BY <2>2, ConfAssumption DEF TypeOK
  <2>6. /\ call'.name \in Calls \cup {"none"} /\ call'.step \in {"idle", "copy"}
        /\ call'.done \in BOOLEAN /\ asked'.name \in Calls \cup {"none"}
        /\ call' = NoCall \/ InProgress'
    <3> DEFINE started == [name |-> name, ip |-> ip, step |-> "copy", done |-> TRUE]
    <3>1. CASE call' = started /\ asked' = NoCall
      BY <3>1 DEF NoCall, InProgress
    <3>2. CASE call' = NoCall /\ asked' = started
      BY <3>2 DEF NoCall
    <3> QED
      BY <1>2, <2>2, <3>1, <3>2 DEF Rewrite
  <2>7. server' \in Seq(Lines) /\ bound' \in Ips \cup {NoIp} /\ failures' \in 0..MaxFailures
    BY <2>2 DEF TypeOK
  <2>8. TypeOK'
    BY <2>3, <2>4, <2>5, <2>6, <2>7 DEF TypeOK, Clean, Files
  <2> QED
    BY <2>3, <2>6, <2>8
<1>3. ASSUME call.step # "idle" PROVE InProgress
  BY <1>3 DEF NoCall
<1>4. ASSUME NEW next \in {"restart", "return"}, InProgress, Fails(next) PROVE TypeInv'
  <2>1. /\ call' = [call EXCEPT !.step = next, !.done = FALSE]
        /\ failures < MaxFailures /\ failures' = failures + 1
        /\ UNCHANGED <<file, server, calls, asked, bound>>
    BY <1>4 DEF Fails
  <2>2. InProgress'
    BY <1>4, <2>1 DEF InProgress
  <2>3. TypeOK'
    BY <2>1, <2>2, ConfAssumption DEF TypeOK, InProgress
  <2> QED
    BY <2>1, <2>2, <2>3
<1>5. ASSUME call.step = "copy", Copied PROVE TypeInv'
  <2>1. InProgress
    BY <1>3, <1>5
  <2>2. Target(call.name) \in Files
    BY <2>1 DEF InProgress, Target, Calls, Files
  <2>3. /\ file' = [file EXCEPT ![Target(call.name)] = file["temp"]]
        /\ call' = [call EXCEPT !.step = "restart"]
        /\ bound' \in {call.ip, bound} /\ UNCHANGED <<server, calls, failures, asked>>
    BY <1>5 DEF Copied
  <2>4. \A f \in Files : Clean(file'[f])
    BY <2>2, <2>3 DEF TypeOK, Files
  <2>5. file' \in [Files -> Seq(Lines)]
    BY <2>2, <2>3 DEF TypeOK, Files
  <2>6. InProgress'
    BY <2>1, <2>3 DEF InProgress
  <2>7. TypeOK'
    BY <2>1, <2>3, <2>4, <2>5, <2>6 DEF TypeOK, InProgress, Clean, Files
  <2> QED
    BY <2>4, <2>6, <2>7
<1>6. ASSUME call.step = "restart", Restarted PROVE TypeInv'
  <2>1. InProgress
    BY <1>3, <1>6
  <2>2. Target(call.name) \in Files
    BY <2>1 DEF InProgress, Target, Calls, Files
  <2>3. /\ server' = file[Target(call.name)] /\ call' = [call EXCEPT !.step = "return"]
        /\ UNCHANGED <<file, calls, failures, asked, bound>>
    BY <1>6 DEF Restarted
  <2>4. InProgress'
    BY <2>1, <2>3 DEF InProgress
  <2>5. TypeOK'
    BY <2>2, <2>3, <2>4 DEF TypeOK, InProgress, Files
  <2> QED
    BY <2>3, <2>4, <2>5
<1>7. CASE Return
  <2>1. /\ call.step = "return" /\ asked' = call /\ call' = NoCall
        /\ UNCHANGED <<file, server, calls, failures, bound>>
    BY <1>7 DEF Return
  <2>2. TypeOK'
    BY <2>1 DEF TypeOK, NoCall
  <2> QED
    BY <2>1, <2>2
<1>8. CASE Dies
  <2>1. call' = NoCall /\ UNCHANGED <<file, server, calls, failures, asked, bound>>
    BY <1>8 DEF Dies
  <2>2. TypeOK'
    BY <2>1 DEF TypeOK, NoCall
  <2> QED
    BY <2>1, <2>2
<1>9. CASE Copy
  BY <1>3, <1>4, <1>5, <1>9 DEF Copy
<1>10. CASE Restart
  BY <1>3, <1>4, <1>6, <1>10 DEF Restart
<1> QED
  BY <1>1, <1>2, <1>7, <1>8, <1>9, <1>10 DEF Next

(* Every variable keeps its type, and no file of the server has a comment  *)
(* with an address: db_become_master never writes one, so that db_slave_of *)
(* always replaces a comment of the form it looks for.                     *)
THEOREM TypeCorrect == Spec => []TypeOK
<1>1. Init => TypeInv
  <2> SUFFICES ASSUME Init PROVE TypeInv
    OBVIOUS
  <2>1. PICK conf \in InitialConfs :
          /\ file = [f \in Files |-> IF f = "conf" THEN conf ELSE << >>] /\ server = conf
    BY DEF Init
  <2>2. Clean(conf)
    BY InitialAssumption DEF Clean
  <2>3. Clean(<< >>)
    BY DEF Clean, Values
  <2>4. \A f \in Files : Clean(file[f])
    BY <2>1, <2>2, <2>3
  <2>5. file \in [Files -> Seq(Lines)] /\ server \in Seq(Lines)
    BY <2>1, <2>2, <2>3 DEF Clean
  <2>6. TypeOK
    BY <2>4, <2>5, ConfAssumption DEF Init, TypeOK, NoCall, Clean, Files
  <2> QED
    BY <2>4, <2>6 DEF Init, TypeInv
<1>2. TypeInv /\ [Next]_vars => TypeInv'
  BY TypeStep, ConfAssumption
<1>3. TypeInv => TypeOK
  BY DEF TypeInv
<1> QED
  BY <1>1, <1>2, <1>3, PTL DEF Spec

=============================================================================
