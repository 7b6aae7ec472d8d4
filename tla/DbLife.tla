------------------------------- MODULE DbLife -------------------------------
(***************************************************************************)
(* The life of the asynchronous handles of src/src/db_api.c: db_open,      *)
(* db_open_ex, db_close, the redisAsyncContext each handle owns, the       *)
(* callbacks in which the application runs, the direct reads that go       *)
(* around pending_cmd_queue, and the role changes (db_is_slave,            *)
(* db_is_master, db_new_remote_server_ip) that send "quit" on the contexts *)
(* of the DB_CONNECT_MASTER handles.                                       *)
(*                                                                         *)
(* DbAsync models what the commands mean.  Here a command is "cmd", a      *)
(* direct read "read"; what is kept is which memory is live, which context *)
(* belongs to whom, and what a callback finds when it returns.  hiredis is *)
(* modelled from its use: freeing a context answers what is on its wire    *)
(* with NULL, then calls db_disconnect_fn if it was up; a context freed in *)
(* a callback is freed when the callback returns.                          *)
(***************************************************************************)
EXTENDS Naturals, Sequences, FiniteSets, SequencesExt

CONSTANTS
  Handles,       (* handles of the application                             *)
  MaxCtx,        (* bound: contexts alive at the same time                 *)
  MaxPending,    (* bound: commands queued in a handle                     *)
  MaxCalls,      (* bound: calls of the API after db_open                  *)
  MaxFaults,     (* bound: lost connections and failed connects            *)
  CallIn,        (* places in which the application calls the API          *)
  CloseIn,       (* places in which it closes the handle                   *)
  Careful        (* it reads, and the role changes, only while the handles *)
                 (* concerned are open and have a context: the code checks *)
                 (* nothing of this, and breaks without it                 *)

(* Where the application's code runs: outside any callback, in the         *)
(* callback of a reply, in one that reports a broken connection, in        *)
(* ctrl_cb.                                                                *)
Places == {"loop", "reply", "failure", "ctrl"}

ASSUME BoundsAssumption ==
  /\ {MaxCtx, MaxPending, MaxCalls, MaxFaults} \subseteq Nat
  /\ CallIn \subseteq Places /\ CloseIn \subseteq Places /\ Careful \in BOOLEAN

Ctxs   == 1..MaxCtx
NoCtx  == 0                                               (* NULL *)
Idle   == [kind |-> "none"]
Remotes == {"", "ip1", "ip2"}                             (* remote_server_ip *)

HandleFields ==
  [mem : {"none", "live", "freed"}, queued : BOOLEAN, mode : {"local", "master"},
   conn_state : {"init", "connecting", "connected", "disconnected"},
   redis_ctx : Ctxs \cup {NoCtx}, pending : 0..MaxPending]
CtxFields ==
  [state : {"free", "connecting", "up", "leaving"}, data : Handles,
   wire : Seq({"cmd", "read", "quit"}), stale : BOOLEAN]

VARIABLES
  proc,       (* memory: [handle, ctx, crash]; crash is "no", "uaf" (freed *)
              (* memory used), "null" or "assert"; a context is stale (a   *)
              (* history) when the role changed after it was opened        *)
  task,       (* the callback chain hiredis is in, or Idle                 *)
  local_is_master, remote_server_ip,
  calls, faults

vars == <<proc, task, local_is_master, remote_server_ip, calls, faults>>

Blank   == [mem |-> "none", queued |-> FALSE, mode |-> "local",
            conn_state |-> "init", redis_ctx |-> NoCtx, pending |-> 0]
CtxOf(h, state) == [state |-> state, data |-> h, wire |-> <<>>, stale |-> FALSE]
FreeCtx(h) == CtxOf(h, "free")

Init ==
  /\ proc = [handle |-> [h \in Handles |-> Blank],
             ctx |-> [c \in Ctxs |-> FreeCtx(CHOOSE h \in Handles : TRUE)],
             crash |-> "no"]
  /\ task = Idle
  /\ local_is_master = TRUE /\ remote_server_ip = ""
  /\ calls = 0 /\ faults = 0

-----------------------------------------------------------------------------
(* Operations on memory w.                                                 *)

Live(w)  == {h \in Handles : w.handle[h].mem = "live"}
Room(w)  == \E c \in Ctxs : w.ctx[c].state = "free"

(* Code that goes on with handle h when the callback it made returns.      *)
Touched(w, h) == IF w.handle[h].mem = "freed" THEN [w EXCEPT !.crash = "uaf"] ELSE w

(* Mutant: the handle keeps its conn_state while it dials.                 *)
Dial_KeepsState(w, h) ==
  LET c == CHOOSE x \in Ctxs : w.ctx[x].state = "free"
  IN  [w EXCEPT !.ctx[c] = CtxOf(h, "connecting"), !.handle[h].redis_ctx = c]

(* redisAsyncConnect and the rest of db_init_connect.                      *)
Dial(w, h) ==
  LET c == CHOOSE x \in Ctxs : w.ctx[x].state = "free"
  IN  [w EXCEPT !.ctx[c] = CtxOf(h, "connecting"),
                !.handle[h].redis_ctx = c, !.handle[h].conn_state = "connecting"]

(* db_close_ctx in a callback of the context: redisAsyncFree marks it.     *)
CloseCtx(w, h) ==
  LET c == w.handle[h].redis_ctx
  IN  IF c = NoCtx THEN w
      ELSE [w EXCEPT !.ctx[c].state = "leaving", !.handle[h].redis_ctx = NoCtx]

(* redisAsyncCommand, on a context that takes commands.                    *)
TakesCommands(w, c) == c # NoCtx /\ w.ctx[c].state \in {"connecting", "up"}
OnWire(w, c, what)  == [w EXCEPT !.ctx[c].wire = Append(@, what)]

(* db_state_handle_error.                                                  *)
HandleError(w, h) ==
  CASE w.handle[h].conn_state \in {"init", "connecting"} -> w
    [] w.handle[h].conn_state = "connected"    -> Dial(CloseCtx(w, h), h)
    [] w.handle[h].conn_state = "disconnected" -> Dial(w, h)

Queued(w, h) == [w EXCEPT !.handle[h].pending = @ + 1]
Sendable(w, h) ==
  w.handle[h].conn_state = "connected" /\ TakesCommands(w, w.handle[h].redis_ctx)

(* Mutant: a command that is only queued does not start a connection.      *)
CallApi_NoDial(w, h) ==
  IF Sendable(w, h) THEN OnWire(Queued(w, h), w.handle[h].redis_ctx, "cmd") ELSE Queued(w, h)

(* A write, a deletion or a full read: db_exec_cmd queues the command, and *)
(* sends it if the handle is connected.  A pending or failed command goes  *)
(* to db_state_handle_error.                                               *)
CallApi(w, h) ==
  IF Sendable(w, h) THEN OnWire(Queued(w, h), w.handle[h].redis_ctx, "cmd")
  ELSE HandleError(Queued(w, h), h)

(* db_read_single_row, db_read_single_row_columns, db_get_total_row_number *)
(* use redis_ctx as it is.                                                 *)
ReadApi(w, h) ==
  LET c == w.handle[h].redis_ctx
  IN  CASE c = NoCtx            -> [w EXCEPT !.crash = "null"]
        [] TakesCommands(w, c)  -> OnWire(w, c, "read")
        [] OTHER                -> w

(* The end of db_close; db_handle_queue keeps its pointer to the handle.   *)
Freed(w, h) ==
  [w EXCEPT !.handle[h] = [Blank EXCEPT !.mem = "freed",
     !.queued = w.handle[h].queued, !.mode = w.handle[h].mode]]

(* db_close inside a callback of the handle's context.                     *)
CloseApi(w, h) == Freed(CloseCtx(w, h), h)

(* What the application does in a callback made at place p.                *)
Reactions(p) == {"return"} \cup (IF p \in CallIn THEN {"call", "read"} ELSE {})
                           \cup (IF p \in CloseIn THEN {"close"} ELSE {})

WireRoom(w, c) == c = NoCtx \/ Len(w.ctx[c].wire) <= MaxPending

(* The reactions the bounds allow.                                         *)
Allowed(w, h, r) ==
  /\ r # "return" => calls < MaxCalls /\ Room(w)
  /\ r = "call"   => w.handle[h].pending < MaxPending
  /\ r = "read"   => WireRoom(w, w.handle[h].redis_ctx)

React(w, h, r) ==
  CASE r = "return" -> w
    [] r = "call"   -> CallApi(w, h)
    [] r = "read"   -> ReadApi(w, h)
    [] r = "close"  -> CloseApi(w, h)

(* What the callback of handle h, called at place p on memory w, leaves;   *)
(* its caller goes on with the handle.                                     *)
AppLeaves(w, h, p) ==
  {Touched(React(w, h, r), h) : r \in {x \in Reactions(p) : Allowed(w, h, x)}}

(* The callback made at place p turns w into proc'.                        *)
Callback(w, h, p) ==
  /\ proc' \in AppLeaves(w, h, p)
  /\ calls' = IF proc' = w THEN calls ELSE calls + 1

(* The reply of the head of the wire of c, or NULL for it: the command is  *)
(* the oldest of the queue.                                                *)
Unwired(w, c) == [w EXCEPT !.ctx[c].wire = Tail(@)]
Dequeued(w, h) ==
  [w EXCEPT !.handle[h].pending = IF @ = 0 THEN 0 ELSE @ - 1]

Answered(w, c) ==
  IF Head(w.ctx[c].wire) = "cmd" THEN Dequeued(Unwired(w, c), w.ctx[c].data)
  ELSE Unwired(w, c)

(* Mutant: db_disconnect_fn leaves redis_ctx where it was.                 *)
Detached_KeepsCtx(w, h, c) == [w EXCEPT !.ctx[c] = FreeCtx(h)]

(* The end of db_disconnect_fn, or of db_close_ctx, and of redisAsyncFree. *)
Detached(w, h, c) ==
  [w EXCEPT !.handle[h].redis_ctx = NoCtx, !.ctx[c] = FreeCtx(h)]

-----------------------------------------------------------------------------
(* The application, outside any callback.                                  *)

Running == task = Idle /\ proc.crash = "no"

(* db_open, and db_open_ex unless it returns DB_ERROR.                     *)
Open(h) ==
  /\ Running /\ Room(proc) /\ proc.handle[h].mem = "none"
  /\ \/ proc' = Dial([proc EXCEPT !.handle[h].mem = "live"], h)
     \/ \E mode \in {"local", "master"} :
          /\ ~(~local_is_master /\ mode = "master" /\ remote_server_ip = "")
          /\ proc' = Dial([proc EXCEPT !.handle[h] =
                             [Blank EXCEPT !.mem = "live", !.queued = TRUE, !.mode = mode,
                                           !.conn_state = "disconnected"]], h)
  /\ UNCHANGED <<task, local_is_master, remote_server_ip, calls, faults>>

(* A call of the API on an open handle.                                    *)
Use(h) ==
  /\ Running /\ "loop" \in CallIn /\ calls < MaxCalls /\ h \in Live(proc)
  /\ \/ /\ proc.handle[h].pending < MaxPending /\ Room(proc)
        /\ proc' = CallApi(proc, h)
     \/ /\ Careful => proc.handle[h].redis_ctx # NoCtx
        /\ WireRoom(proc, proc.handle[h].redis_ctx)
        /\ proc' = ReadApi(proc, h)
  /\ calls' = calls + 1
  /\ UNCHANGED <<task, local_is_master, remote_server_ip, faults>>

(* db_close: db_close_ctx frees the context at once.                       *)
Close(h) ==
  /\ Running /\ "loop" \in CloseIn /\ h \in Live(proc)
  /\ LET c == proc.handle[h].redis_ctx
     IN  IF c = NoCtx
         THEN /\ task' = [kind |-> "close", h |-> h, ctx |-> NoCtx, up |-> FALSE, step |-> "rest"]
              /\ UNCHANGED proc
         ELSE /\ task' = [kind |-> "close", h |-> h, ctx |-> c, step |-> "replies",
                          up |-> proc.ctx[c].state = "up"]
              /\ proc' = [proc EXCEPT !.ctx[c].state = "leaving"]
  /\ UNCHANGED <<local_is_master, remote_server_ip, calls, faults>>

-----------------------------------------------------------------------------
(* Changes of role.                                                        *)

Masters == {h \in Handles : proc.handle[h].queued /\ proc.handle[h].mode = "master"}

(* The contexts of an earlier role.                                        *)
Stale(w) == [w EXCEPT !.ctx = [c \in Ctxs |->
  [w.ctx[c] EXCEPT !.stale = @ \/ \E h \in Masters : w.handle[h].redis_ctx = c]]]

(* Mutant: a context that is still connecting is passed over.              *)
QuitAll_OnlyUp(w) ==
  [w EXCEPT !.ctx = [c \in Ctxs |->
     IF \E h \in Masters : w.handle[h].redis_ctx = c /\ w.ctx[c].state = "up"
     THEN [w.ctx[c] EXCEPT !.wire = Append(@, "quit")] ELSE w.ctx[c]]]

(* db_new_status: "quit" on the context of every DB_CONNECT_MASTER handle  *)
(* of db_handle_queue.  A handle that db_open_ex queued stays in the queue *)
(* when it is closed.                                                      *)
QuitAll(w) ==
  CASE \E h \in Masters : w.handle[h].mem = "freed"         -> [w EXCEPT !.crash = "uaf"]
    [] \E h \in Masters : w.handle[h].redis_ctx = NoCtx     -> [w EXCEPT !.crash = "null"]
    [] OTHER -> [w EXCEPT !.ctx = [c \in Ctxs |->
                   IF \E h \in Masters : w.handle[h].redis_ctx = c
                   THEN [w.ctx[c] EXCEPT !.wire = Append(@, "quit")] ELSE w.ctx[c]]]

RoleMayChange ==
  /\ Running /\ calls < MaxCalls /\ calls' = calls + 1
  /\ Careful => \A h \in Masters : h \in Live(proc) /\ proc.handle[h].redis_ctx # NoCtx
  /\ \A c \in Ctxs : WireRoom(proc, c)
  /\ UNCHANGED <<task, faults>>

BecomesSlave ==       (* db_is_slave *)
  /\ RoleMayChange /\ local_is_master
  /\ local_is_master' = FALSE /\ proc' = Stale(QuitAll(proc))
  /\ UNCHANGED remote_server_ip

BecomesMaster ==      (* db_is_master *)
  /\ RoleMayChange /\ ~local_is_master
  /\ local_is_master' = TRUE /\ proc' = Stale(QuitAll(proc))
  /\ UNCHANGED remote_server_ip

NewRemoteServerIp ==  (* db_new_remote_server_ip *)
  /\ RoleMayChange
  /\ \E ip \in Remotes \ {"", remote_server_ip} : remote_server_ip' = ip
  /\ proc' = IF local_is_master THEN proc ELSE Stale(QuitAll(proc))
  /\ UNCHANGED local_is_master

-----------------------------------------------------------------------------
(* What hiredis reports from the event loop.                               *)

(* Mutant: the queue is not sent.                                          *)
Connects_NoFlush(c) ==
  /\ Running /\ proc.ctx[c].state = "connecting"
  /\ LET h == proc.ctx[c].data
     IN  proc' = [proc EXCEPT !.ctx[c].state = "up", !.handle[h].conn_state = "connected"]
  /\ UNCHANGED <<task, local_is_master, remote_server_ip, calls, faults>>

(* db_connect_fn, REDIS_OK: the queue is sent as it stands.                *)
Connects(c) ==
  /\ Running /\ proc.ctx[c].state = "connecting"
  /\ LET h == proc.ctx[c].data
         up == [proc EXCEPT !.ctx[c].state = "up",
                  !.ctx[c].wire = @ \o [i \in 1..proc.handle[h].pending |-> "cmd"],
                  !.handle[h].conn_state = "connected"]
     IN  proc' = CASE proc.handle[h].mem = "freed"    -> [proc EXCEPT !.crash = "uaf"]
                   [] proc.handle[h].redis_ctx # c    -> [proc EXCEPT !.crash = "assert"]
                   [] OTHER                           -> up
  /\ UNCHANGED <<task, local_is_master, remote_server_ip, calls, faults>>

(* A reply of the server: db_cmd_callback_fn or the callback of a direct   *)
(* read.                                                                   *)
Replies(c) ==
  /\ Running /\ proc.ctx[c].state = "up"
  /\ proc.ctx[c].wire # <<>> /\ Head(proc.ctx[c].wire) # "quit"
  /\ Callback(Answered(proc, c), proc.ctx[c].data, "reply")
  /\ UNCHANGED <<task, local_is_master, remote_server_ip, faults>>

Chain(kind, c) == [kind |-> kind, h |-> proc.ctx[c].data, ctx |-> c, up |-> TRUE,
                   step |-> IF kind = "fail" THEN "ctrl" ELSE "replies"]

(* The connection breaks; hiredis answers the rest of the wire with NULL.  *)
Breaks(c) ==
  /\ Running /\ proc.ctx[c].state = "up"
  /\ proc' = [proc EXCEPT !.ctx[c].state = "leaving"]
  /\ task' = Chain("lose", c)
  /\ UNCHANGED <<local_is_master, remote_server_ip, calls>>

Lost(c)         == faults < MaxFaults /\ Breaks(c) /\ faults' = faults + 1
ServerCloses(c) ==
  /\ proc.ctx[c].wire # <<>> /\ Head(proc.ctx[c].wire) = "quit"
  /\ Breaks(c) /\ UNCHANGED faults

(* The connect fails: db_connect_fn, then NULL for the wire.               *)
ConnectFails(c) ==
  /\ Running /\ faults < MaxFaults /\ proc.ctx[c].state = "connecting"
  /\ proc' = [proc EXCEPT !.ctx[c].state = "leaving"]
  /\ task' = Chain("fail", c) /\ faults' = faults + 1
  /\ UNCHANGED <<local_is_master, remote_server_ip, calls>>

-----------------------------------------------------------------------------
(* The callback chain of a context that goes away, one callback at a time. *)

At(step)   == task.kind # "none" /\ proc.crash = "no" /\ task.step = step
Goto(step) == task' = [task EXCEPT !.step = step]
TaskRest   == UNCHANGED <<local_is_master, remote_server_ip, faults>>

(* A NULL reply; after the last one db_disconnect_fn if the context was up *)
(* (in db_close: else redis_ctx is set to NULL and db_close goes on).      *)
NullReply ==
  /\ At("replies") /\ proc.ctx[task.ctx].wire # <<>>
  /\ IF Head(proc.ctx[task.ctx].wire) = "quit"
     THEN proc' = Unwired(proc, task.ctx) /\ UNCHANGED calls
     ELSE Callback(Answered(proc, task.ctx), task.h, "failure")
  /\ UNCHANGED task /\ TaskRest

NoMoreReplies ==
  /\ At("replies") /\ proc.ctx[task.ctx].wire = <<>>
  /\ CASE task.kind = "fail" -> /\ proc' = [proc EXCEPT !.ctx[task.ctx] = FreeCtx(task.h)]
                                /\ task' = Idle
       [] task.kind # "fail" /\ task.up  -> Goto("ctrl") /\ UNCHANGED proc
       [] task.kind # "fail" /\ ~task.up -> /\ proc' = Detached(proc, task.h, task.ctx)
                                            /\ Goto("rest")
  /\ UNCHANGED calls /\ TaskRest

(* ctrl_cb(DB_CONN_FAILED); then DB_DISCONNECTED, and db_connect_fn dials  *)
(* again.                                                                  *)
Ctrl ==
  /\ At("ctrl") /\ Room(proc)
  /\ \E v \in AppLeaves(proc, task.h, "ctrl") :
       LET down == [v EXCEPT !.handle[task.h].conn_state = "disconnected"]
       IN  /\ proc' = IF v.crash # "no" THEN v
                      ELSE IF task.kind = "fail" THEN Dial(down, task.h) ELSE down
           /\ calls' = IF v = proc THEN calls ELSE calls + 1
  /\ Goto(IF task.kind = "fail" THEN "replies" ELSE "drain")
  /\ TaskRest

(* db_empty_cmd_queue in db_disconnect_fn.                                 *)
Drain ==
  /\ At("drain")
  /\ IF proc.handle[task.h].pending > 0
     THEN /\ Callback(Dequeued(proc, task.h), task.h, "failure")
          /\ UNCHANGED task
     ELSE /\ proc' = Detached(proc, task.h, task.ctx)
          /\ IF task.kind = "lose" THEN task' = Idle ELSE Goto("rest")
          /\ UNCHANGED calls
  /\ TaskRest

(* The rest of db_close: db_empty_cmd_queue, then the handle is freed.     *)
Rest ==
  /\ At("rest")
  /\ IF proc.handle[task.h].pending > 0
     THEN Callback(Dequeued(proc, task.h), task.h, "failure") /\ UNCHANGED task
     ELSE /\ proc' = Freed(proc, task.h)
          /\ task' = Idle /\ UNCHANGED calls
  /\ TaskRest

Chained == NullReply \/ NoMoreReplies \/ Ctrl \/ Drain \/ Rest

Next ==
  \/ \E h \in Handles : Open(h) \/ Use(h) \/ Close(h)
  \/ BecomesSlave \/ BecomesMaster \/ NewRemoteServerIp
  \/ \E c \in Ctxs : Connects(c) \/ Replies(c) \/ Lost(c) \/ ServerCloses(c) \/ ConnectFails(c)
  \/ Chained

Spec == Init /\ [][Next]_vars

(* The loop of the process runs (scheduler.c), and a context that nothing  *)
(* breaks connects and is answered.                                        *)
FairSpec ==
  /\ Spec /\ WF_vars(Chained)
  /\ \A c \in Ctxs : WF_vars(Connects(c) \/ Replies(c) \/ ServerCloses(c))
-----------------------------------------------------------------------------
(* Properties.                                                             *)

(* Every variable keeps its type, and no handle points to a context that   *)
(* is gone or that belongs to another handle.                              *)
TypeOK ==
  /\ proc.handle \in [Handles -> HandleFields] /\ proc.ctx \in [Ctxs -> CtxFields]
  /\ proc.crash \in {"no", "uaf", "null", "assert"}
  /\ remote_server_ip \in Remotes /\ local_is_master \in BOOLEAN
  /\ calls \in 0..MaxCalls /\ faults \in 0..MaxFaults
  /\ task.kind \in {"none", "lose", "fail", "close"}
  /\ \A h \in Handles : proc.handle[h].redis_ctx # NoCtx =>
       /\ proc.ctx[proc.handle[h].redis_ctx].state # "free"
       /\ proc.ctx[proc.handle[h].redis_ctx].data = h

(* Between two events a handle is DB_CONNECTING or DB_CONNECTED exactly    *)
(* while it owns a context in that state, and a context that is open is    *)
(* the one its handle uses: db_close, a broken connection, a failed        *)
(* connect and a role change leave no context without a live handle.       *)
HandleOwnsContext ==
  Running =>
    /\ \A h \in Live(proc) :
         LET c == proc.handle[h].redis_ctx
         IN  CASE proc.handle[h].conn_state = "connected"  -> c # NoCtx /\ proc.ctx[c].state = "up"
               [] proc.handle[h].conn_state = "connecting" -> c # NoCtx /\ proc.ctx[c].state = "connecting"
               [] OTHER -> c = NoCtx
    /\ \A c \in Ctxs : proc.ctx[c].state # "free" =>
         LET h == proc.ctx[c].data IN h \in Live(proc) /\ proc.handle[h].redis_ctx = c

(* The commands of pending_cmd_queue are those the wire of a connected     *)
(* handle still owes a reply, whatever direct reads and "quit" stand       *)
(* between them, and a context that is connecting has sent none.           *)
QueueMatchesWire ==
  Running => \A h \in Live(proc) :
    LET c == proc.handle[h].redis_ctx
        sent == Cardinality({i \in DOMAIN proc.ctx[c].wire : proc.ctx[c].wire[i] = "cmd"})
    IN  c # NoCtx => sent = IF proc.ctx[c].state = "up" THEN proc.handle[h].pending ELSE 0

(* No callback of hiredis and no role change uses a handle that db_close   *)
(* freed or a context that is NULL.  The code does not keep this: the run  *)
(* of it is a refutation.                                                  *)
NoCrash == proc.crash \notin {"uaf", "null"}

(* A queued command is answered, or reported as failed, whatever happens   *)
(* to the connection.                                                      *)
PendingServed ==
  \A h \in Handles : proc.handle[h].pending > 0 ~> proc.handle[h].pending = 0

(* After a change of role the connections that DB_CONNECT_MASTER handles   *)
(* had before it end, also those that were only being opened.              *)
OldConnectionsEnd == \A c \in Ctxs : proc.ctx[c].stale ~> ~proc.ctx[c].stale

=============================================================================
