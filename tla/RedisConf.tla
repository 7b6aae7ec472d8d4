----------------------------- MODULE RedisConf ------------------------------
(***************************************************************************)
(* How db_become_master, db_slave_of and db_bind_interface of              *)
(* src/src/db_api.c change the configuration of the local Redis server:    *)
(* each reads /etc/redis.conf line by line, writes /etc/redis.conf.temp,   *)
(* copies it to one of three files and restarts the server with it.        *)
(*                                                                         *)
(* A line is a "slaveof" directive, a "slaveof" in a comment, a "bind"     *)
(* directive, or something else.  The service script is external: it       *)
(* starts the server with the file of the role it is given.  The file is   *)
(* there; without it every call returns DB_ERROR_FILE_OP.                  *)
(*                                                                         *)
(* The code discards the results of system(): a command that fails leaves  *)
(* the file or the server as it was, and the call goes on and returns      *)
(* DB_SUCCESS.  A command that outlives the process is taken to end before *)
(* the process starts again: the death then comes after it.                *)
(***************************************************************************)
EXTENDS Naturals, Sequences, FiniteSets

CONSTANTS
  Ips,            (* addresses                                             *)
  NoIp,           (* the address of a line that has none                   *)
  InitialConfs,   (* what /etc/redis.conf may hold when the process starts *)
  MaxCalls,       (* bound: calls of the API                               *)
  MaxFailures     (* bound: commands given to system() that fail           *)

ASSUME ConfAssumption ==
  NoIp \notin Ips /\ MaxCalls \in Nat /\ MaxFailures \in Nat

Line(kind, ip) == [kind |-> kind, ip |-> ip]
Lines == [kind : {"slaveof", "comment", "bind", "other"}, ip : Ips \cup {NoIp}]
Files == {"conf", "master", "slave", "temp"}
Calls == {"become_master", "slave_of", "bind_interface"}

VARIABLES
  file,        (* the contents of the four files                           *)
  server,      (* the configuration the Redis server runs with             *)
  call,        (* the call in progress: [name, ip, step, done], done until *)
               (* one of its commands fails                                *)
  calls,       (* number of calls made                                     *)
  failures,    (* number of commands that failed                           *)
  asked,       (* history: the last call made, once it returned DB_SUCCESS *)
  bound        (* history: the address db_bind_interface last copied to    *)
               (* redis.conf                                               *)

vars == <<file, server, call, calls, failures, asked, bound>>

NoCall == [name |-> "none", ip |-> NoIp, step |-> "idle", done |-> FALSE]
Has(lines, kind)    == \E n \in DOMAIN lines : lines[n].kind = kind
Values(lines, kind) == {lines[n].ip : n \in {m \in DOMAIN lines : lines[m].kind = kind}}

(* Comments are told apart by what they comment out, not by an address.    *)
ASSUME InitialAssumption ==
  \A conf \in InitialConfs : conf \in Seq(Lines) /\ Values(conf, "comment") \subseteq {NoIp}

(* Every variable keeps its type, and the files of the server hold no      *)
(* comment with an address of their own.                                   *)
TypeOK ==
  /\ file \in [Files -> Seq(Lines)] /\ server \in Seq(Lines)
  /\ call.name \in Calls \cup {"none"} /\ call.step \in {"idle", "copy", "restart", "return"}
  /\ asked.name \in Calls \cup {"none"} /\ bound \in Ips \cup {NoIp}
  /\ call.done \in BOOLEAN /\ calls \in 0..MaxCalls /\ failures \in 0..MaxFailures
  /\ \A f \in {"conf", "master", "slave"} : Values(file[f], "comment") \subseteq {NoIp}

Init ==
  /\ \E conf \in InitialConfs :
       /\ file = [f \in Files |-> IF f = "conf" THEN conf ELSE <<>>]
       /\ server = conf
  /\ call = NoCall /\ calls = 0 /\ failures = 0 /\ asked = NoCall /\ bound = NoIp

-----------------------------------------------------------------------------
(* What the loops make of the lines.                                       *)

Map(lines, F(_)) == [n \in DOMAIN lines |-> F(lines[n])]
Bind(ip, l)      == IF l.kind = "bind" THEN Line("bind", ip) ELSE l

(* The lines without the comments, in their order: the line at place r is  *)
(* the one that r of the kept lines do not lie behind.                     *)
Rank(S, n) == Cardinality({m \in S : m <= n})

Uncommented(lines) ==
  LET kept == {n \in DOMAIN lines : lines[n].kind # "comment"}
  IN  [r \in 1..Cardinality(kept) |-> lines[CHOOSE n \in kept : Rank(kept, n) = r]]

(* Mutant: the replication of the server is left as it is.                 *)
Promoted_KeepsSlaveof(lines, ip) == Map(lines, LAMBDA l : Bind(ip, l))

(* Mutant: the directive is commented out with its address.                *)
Promoted_KeepsIp(lines, ip) ==
  Map(Uncommented(lines), LAMBDA l : IF l.kind = "slaveof" THEN Line("comment", l.ip) ELSE Bind(ip, l))

(* db_become_master: a directive becomes the comment, a comment is dropped.*)
Promoted(lines, ip) ==
  Map(Uncommented(lines), LAMBDA l : IF l.kind = "slaveof" THEN Line("comment", NoIp) ELSE Bind(ip, l))

(* Mutant: only the comment of the shipped file is replaced.               *)
Demoted_Comments(lines, ip) ==
  Map(lines, LAMBDA l : IF l.kind = "comment" THEN Line("slaveof", ip) ELSE l)

(* db_slave_of: directive and comment alike become the directive.          *)
Demoted(lines, ip) ==
  Map(lines, LAMBDA l : IF l.kind \in {"slaveof", "comment"} THEN Line("slaveof", ip) ELSE l)

(* db_bind_interface.                                                      *)
Rebound(lines, ip) == Map(lines, LAMBDA l : Bind(ip, l))

Rewritten(name, lines, ip) ==
  CASE name = "become_master"  -> Promoted(lines, ip)
    [] name = "slave_of"       -> Demoted(lines, ip)
    [] name = "bind_interface" -> Rebound(lines, ip)

(* Mutant: the result of db_become_master goes to /etc/redis.conf.         *)
Target_Conf(name) == IF name = "slave_of" THEN "slave" ELSE "conf"

(* The file a call copies its result to.                                   *)
Target(name) ==
  CASE name = "become_master"  -> "master"
    [] name = "slave_of"       -> "slave"
    [] name = "bind_interface" -> "conf"

-----------------------------------------------------------------------------
(* The calls, and the process that dies in one.                            *)

(* The loop over the lines.  db_become_master goes on only if it found a   *)
(* directive.                                                              *)
Rewrite(name, ip) ==
  /\ call = NoCall /\ calls < MaxCalls /\ calls' = calls + 1
  /\ file' = [file EXCEPT !["temp"] = Rewritten(name, file["conf"], ip)]
  /\ LET started == [name |-> name, ip |-> ip, step |-> "copy", done |-> TRUE]
     IN  IF name # "become_master" \/ Has(file["conf"], "slaveof")
         THEN call' = started /\ asked' = NoCall
         ELSE UNCHANGED call /\ asked' = started
  /\ UNCHANGED <<server, failures, bound>>

(* A command fails, and the call goes on to its next step all the same.    *)
Fails(next) ==
  /\ failures < MaxFailures /\ failures' = failures + 1
  /\ call' = [call EXCEPT !.step = next, !.done = FALSE]
  /\ UNCHANGED <<file, server, calls, asked, bound>>

(* system("cp ...").                                                       *)
Copied ==
  /\ file' = [file EXCEPT ![Target(call.name)] = file["temp"]]
  /\ call' = [call EXCEPT !.step = "restart"]
  /\ bound' = IF call.name = "bind_interface" THEN call.ip ELSE bound
  /\ UNCHANGED <<server, calls, failures, asked>>

Copy == call.step = "copy" /\ (Copied \/ Fails("restart"))

(* system("restart casa-redis ...").                                       *)
Restarted ==
  /\ server' = file[Target(call.name)]
  /\ call' = [call EXCEPT !.step = "return"]
  /\ UNCHANGED <<file, calls, failures, asked, bound>>

Restart == call.step = "restart" /\ (Restarted \/ Fails("return"))

(* The call returns DB_SUCCESS, whatever became of its commands.           *)
Return ==
  /\ call.step = "return"
  /\ asked' = call /\ call' = NoCall
  /\ UNCHANGED <<file, server, calls, failures, bound>>

(* The process dies in a call; what it did to the files and to the server  *)
(* stays.                                                                  *)
Dies ==
  /\ call # NoCall /\ call' = NoCall
  /\ UNCHANGED <<file, server, calls, failures, asked, bound>>

Next ==
  \/ \E name \in Calls, ip \in Ips : Rewrite(name, ip)
  \/ Copy \/ Restart \/ Return \/ Dies

Spec == Init /\ [][Next]_vars

-----------------------------------------------------------------------------
(* Properties.                                                             *)

(* The last call made has returned, and its commands did not fail (of that *)
(* the caller learns nothing: it gets DB_SUCCESS in any case).             *)
Successful(name) == asked.name = name /\ asked.done

(* "Make DB to become master DB" (db_api_sync.h:56): after a               *)
(* db_become_master whose commands did not fail the server is no replica,  *)
(* whatever calls, completed, cut short or with failing commands, came     *)
(* before.                                                                 *)
MasterAfterPromotion ==
  Successful("become_master") => ~Has(server, "slaveof")

(* "Make DB slave to the master DB at addr" (db_api_sync.h:51): after a    *)
(* db_slave_of whose commands did not fail the server replicates from that *)
(* address only, whatever calls came before.                               *)
ReplicaAfterDemotion ==
  Successful("slave_of") => Values(server, "slaveof") = {asked.ip}

(* After such a db_slave_of the replica listens on the address that        *)
(* db_bind_interface last wrote to redis.conf, also when the process died  *)
(* in that call, or the server was a master bound to another address in    *)
(* between.                                                                *)
ReplicaKeepsBinding ==
  Successful("slave_of") /\ bound # NoIp => Values(server, "bind") = {bound}
=============================================================================
