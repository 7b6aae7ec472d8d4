# Verification of the DB API

This directory holds TLA+ models of the DB API, the C library in `src/` that
keeps tables of protobuf records in a Redis server, with the configurations
that check them with TLC and proofs that TLAPS checks.

## 1. The system

A *table* (`db_id`) is a Redis set of row keys (the index, `DBTBLSET_...`) and
one Redis hash per row (`column_id -> record`).  Everything runs on one
libevent thread per process; other processes share the same Redis server.

| Component | Source | State | Operations | Interacts with |
|---|---|---|---|---|
| Asynchronous handle | `src/src/db_api.c` 129-1181 | `pending_cmd_queue`, `conn_state`, `redis_ctx`, `full_read_in_progress`, `delete_all_rows_in_progress`, `number_of_rows`, `write_cmd_cb_received` | `db_open`, `db_open_ex`, `db_close`, write row/column, delete row, delete all rows, flush, read all; reply, connect and disconnect callbacks | hiredis (commands, callbacks), the application (callbacks `write_cb`, `read_cb`, `read_complete_cb`, `ctrl_cb`) |
| Redis server, hiredis | external | index, hashes, MULTI state of a connection; outstanding callbacks | run, refuse, answer; connect, drop, free a context | the handles |
| Direct reads | `db_api.c` 1324-1640 | the request record passed as `privdata` | `db_read_single_row`, `..._columns`, `db_get_total_row_number` | go around the pending queue on the same connection |
| Roles and handle queues | `db_api.c` 1654-1726, 1947-1990 | `db_handle_queue`, `local_is_master`, `remote_server_ip` | `db_is_master`, `db_is_slave`, `db_new_remote_server_ip` | "quit" on the context of every `DB_CONNECT_MASTER` handle |
| Row-change notification | `db_api.c` 1727-1946 | `notify_entry_queue`, `recover_noti_queue` | subscribe, unsubscribe, redo | unreachable: nothing fills the queue |
| Redis configuration | `db_api.c` 1183-1322 | `/etc/redis.conf` and its three copies | become master, slave of, bind interface | files, the service script, the local server |
| Synchronous handle | `src/src/db_api_sync.c` | `redis_ctx`, `start_transaction` | the same operations, blocking; each command is sent up to twice | Redis, other clients |
| Synchronous scan | `db_api_sync.c` 760-925 | ring of SSCAN keys, cursor, `scan_in_progress` | `db_get_next_row_sync` | Redis, concurrent writers |
| Timers, event loop | `src/src/vnf_timer.c`, `scheduler.c` | event, flags, callback; one `event_base` per thread | new, start, stop, free; init, run, deinit | libevent, the application |
| Keys | `src/src/db_api_common.c` | none | hash key and set key of a row | every command |
| Base64 | `src/src/db_api_util.c` | decoding table | encode, decode | not built |
| DB manager | `src/src/dbmgr*.c` | handle per request | count rows, close in `ctrl_cb` | the asynchronous API; not built |

**Hard behaviours.**  Replies carry no identification, so the asynchronous
handle matches them with its queue by position, across reconnects that resend
the queue.  A write is four or more commands whose callbacks must add up to one
`write_cb`.  Full reads and delete-alls are two-phase (list the index, then one
command or two per key) and keep their progress in per-handle flags and one
counter which any other call or a lost connection may disturb.  Application
code runs in callbacks, where it may call the API again or close the handle the
caller goes on with.  A synchronous command whose reply is lost is sent again on
a new connection, where the MULTI in front of it is gone.  A scan reads a table
that changes through a ring that wraps.  A timer may be stopped or freed after
it has expired and before it is called back.  `PROJECT.json` lists each hazard
with the line where it bites.

**What makes it correct.**  Asynchronous handle: the right reply for the right
command; one `write_cb` per write, truthful when it says success; transactions
that enclose one write each; one `read_complete_cb` per full read; a delete-all
that ends and deletes; an index that names existing rows; and, all together, a
table that behaves like a map from keys to rows; contexts and handles that live
and die together.  Synchronous handle: success means one EXEC; no transaction
is left behind; rows are torn only where no transaction protected them.  Scan:
every row that is in the table throughout is returned.  Configuration: the
server restarts with the role and address asked for.  Timers: called exactly
while the application wants it.

## 2. Modules

| Module | What it is |
|---|---|
| `RedisTable` | The server side of one table: index, hashes, MULTI state, and the nine commands that `db_api.c` sends. External, modelled from its use. |
| `RowStore` | Abstract specification: a map from keys to rows, written in one piece, with one truthful answer per write. |
| `DbAsync` | What the commands of the asynchronous handle mean: queue, connection, server (`EXTENDS RedisTable`); `INSTANCE`s `RowStore`. |
| `DbLife` | The life of asynchronous handles: memory, contexts, callback chains, direct reads, roles. |
| `DbSync` | The synchronous handle, its connection and server, and a second client. |
| `DbScan` | `db_get_next_row_sync` on a table that changes. |
| `VTimer` | Timers and the event loop. |
| `RedisConf` | The configuration files and the role of the local server. |
| `MC...` | Constant values for TLC, one module each. |
| `DbAsyncProofs`, `DbAsyncStoreProofs`, `DbAsyncRefineProofs`, `DbLifeProofs`, `DbSyncProofs`, `DbScanProofs`, `VTimerProofs`, `RedisConfProofs` | The theorems and their proofs; each of the three about `DbAsync` extends the one before. |

`DbAsync` and `DbLife` share the asynchronous handle: the first has one handle
whose application returns from its callbacks at once, and keeps data and
replies; the second has several handles and what the application does in
callbacks, and keeps of a command only that the queue or the wire holds it.
They are not composed: nothing in `DbLife` depends on what a command means.

### `DbAsync`

| TLA+ | Code |
|---|---|
| `connState` | `conn_state`; `"closed"` once `db_close` has freed the handle. `DB_INIT` is left before `db_open` returns. |
| `pending` | `pending_cmd_queue`, one record per `db_cmd_data_t` |
| `wire`, `answers` | hiredis: commands whose callback has not run, and the replies that have been produced for the first of them |
| `ending` | hiredis is running the outstanding callbacks with a NULL reply, because the connection was lost (`"drop"`) or by `db_close` (`"close"`) |
| `fullRead`, `deleteAll`, `rowsLeft`, `writeCb` | `full_read_in_progress`, `delete_all_rows_in_progress`, `read_state.number_of_rows`, `write_cmd_cb_received` |
| `outcome`, `readsDue`, `lastCall`, `applied` | history: what the application was told, what it asked last, what the server applied |

Every API call is one action (`WriteSingleRow`, `WriteSingleColumn`,
`DeleteSingleRow`, `DeleteAllRow`, `ReadAll`, `FlushAll`, `Close`): it queues its
commands through `ExecCmds` (`db_exec_cmd`) and ends with `ReturnFrom`
(`db_state_handle_error` when the result was `DB_PENDING`).  Every branch of
`db_cmd_callback_fn` is an action `Reply...`; `db_cmd_failure` is the operator
`CmdFailure`, used for error replies (`ReplyError`), for the NULL replies of a
connection that ends (`NullReply`) and for `db_empty_cmd_queue`
(`EmptyCmdQueue`).  `ConnectOk` and `ConnectFail` are the two branches of
`db_connect_fn`, `Ended` is `db_disconnect_fn`, or the end of `db_close`.
`ServerRuns`, `ServerRefusal` and `ConnectionLost` are the environment.

- A column's payload is the number of the write it comes from, 0 if absent; so
  a mixed or stale row is visible, its encoding is not.
- A key is a model value; the table tag in front of it is left out.
- A command record also carries, as history, the call it was issued for.
- Replies already produced are lost with a connection; the commands that the
  server had received by then are run before the loss. A command that the
  server runs after the client has seen the loss, but before the next
  connection sends anything, gives the same table and the same callbacks.
- No call is made from inside a callback. A call from one that reports a success
  differs from the same call right after it in one place, which is not
  modelled: a `db_delete_all_row` from the `read_complete_cb` of an empty table
  (493) is ended by the next test of the same reply (497).
- The server refuses data commands. That it refuses MULTI or EXEC is left out
  here; the server of `DbSync` refuses MULTI too.
- `batch_cb_start` is written and never read by the code: left out.
- `db_exec_cmd` fails with `DB_ERROR` only when hiredis refuses a command while
  it tears a context down; the application of this model makes no calls then.

### `DbLife`

| TLA+ | Code |
|---|---|
| `proc.handle[h]` | the handle: whether its memory is live, `conn_state`, `redis_ctx`, the length of `pending_cmd_queue`, its place in `db_handle_queue` and its mode |
| `proc.ctx[c]` | a `redisAsyncContext`: its state, the handle in `data`, and its wire of commands (`cmd`), direct reads (`read`) and `quit` |
| `proc.crash` | history: freed memory used, NULL dereferenced, or the `VNF_ASSERT` of `db_connect_fn` failed |
| `task` | the chain of callbacks hiredis is in while a context goes away |
| `local_is_master`, `remote_server_ip` | the same |

`Open`, `Use`, `Close` are calls outside callbacks.  `BecomesSlave`,
`BecomesMaster`, `NewRemoteServerIp` are the role changes.  `Connects`,
`Replies`, `Lost`, `ServerCloses`, `ConnectFails` are what hiredis reports; the
last three start a chain that `NullReply`, `NoMoreReplies`, `Ctrl` and `Drain`
run one callback at a time, and `Close` one that ends in `Rest`.  In each callback
the application returns, calls the API, reads, or closes the handle, as
`CallIn` and `CloseIn` allow; `Touched` is the caller that goes on with the
handle.  `Detached` is the end of `db_disconnect_fn`, and of `db_close_ctx` when
`db_close` frees the context: `redis_ctx` is NULL before the queue is emptied
(`Freed` is what `db_close` does after that).  `ServerCloses` is Redis closing a connection that sent "quit".

### `DbSync`

| TLA+ | Code |
|---|---|
| `status`, `link`, `flag` | the handle is open; `redis_ctx` and its `err`; `start_transaction` |
| `todo`, `mayRetry`, `failed` | the commands the call has still to run, the argument `retry` of `exec_sync_cmd`, the result so far |
| `table`, `session` | server: the table, the MULTI state of the connection |
| `calls`, `applied`, `loose`, `outcome`, `listed` | history |

A call (`Open`, `WriteRow`, `WriteColumn`, `WriteEmpty`, `DeleteRow`,
`DeleteAll`, `ReadRow`, `ReadColumns`, `Close`) puts its commands into `todo`.
Each runs to `Answered`, `Refused`, or `Lost` (before or after the server
served it) and then `Reconnect` or `ReconnectFails`; `Fail` and `Succeed` are
the two ways `exec_sync_cmd` returns. A row write that finds
`start_transaction` up is refused, and discards what was left over on its way
out (`DiscardLeftover`); the other transactional calls are refused
(`RefuseTransaction`), and reads and delete-alls run their commands into the
open MULTI, where they are answered +QUEUED. `NewStatus` is `db_new_status_sync`,
`OtherClient` a transaction of another process. The caller is blocked while a
command is out, so serving it and reading the reply are one step. The columns
that reads return are left out; that the reply has the type the code asserts is
not.

### `DbScan`

`scanning`, `cursor`, `pi`, `ci`, `ring` are `scan_in_progress`, `scan_cursor`,
`scan_replies_pi`, `scan_replies_ci` and `scan_reply_keys`.  One call of
`db_get_next_row_sync` is one step: `NextFromRing`, `EndOfScan`,
`ScanAnswered`, `ScanFails` or `ScanRefused`.  The server keeps the set in a
hash table of `Buckets` buckets; a page is the keys of the first bucket that
has any, in any order, or empty when `Probe` buckets have none.  `RowAdded`,
`RowRemoved` are other clients, `Reopened` is a close and an open.  The hash
table is not resized during a scan.  A `MULTI` that a write left open, which
would have SSCAN answered +QUEUED and the assertion at 853 fail, is not part of
this module; `ScanRefused` ends in the same assertion.

### `VTimer`

`tmr[t]` is the structure of `vnf_timer.c`, `event[t]` the libevent event in
it (not scheduled, waiting, or expired and not yet called back), `inCb` the
timer whose callback runs, `loop` the event base of the thread.  Every function
of the API is an action; `CallbackBegins` and `CallbackEnds` are
`timer_event_cb` before and after the application's callback, in which all
actions of the API are possible.  `RestartsOnce` says whether the application
starts a periodic timer in one-shot mode without stopping it, which the code does
not check.  A callback may free its own timer: `timer_event_cb` then reads the
flags that `vtimer_stop` left in the freed memory.  That the memory is reused
in between, which would be undefined behaviour, is not modelled.

### `RedisConf`

A file is a sequence of lines, each a directive, a comment or anything else,
with an address. `Rewrite` is the loop of a call, `Copy` and `Restart` its two
`system()` calls, each of which may fail and be ignored, and `Return` the end of
the call; `Dies` ends the process between any two of them. A command that
outlives the process is taken to end before the process starts again.

## 3. Runs

| Run | Module | Shows |
|---|---|---|
| `async_store` | `MCDbAsync` | `ImplementsStore`: handle and server refine `RowStore` for rows written whole and every kind of deletion, with faults, refusals and transactions that the server aborts; type invariant, `ReplyMatching`, `TransactionsSeparate`, `IndexedRowsExist`, `DeleteAllEmptiesTable`; `DeleteAllEnds` under fairness |
| `async_reads` | `MCDbAsync` | `WriteAnsweredOnce`, `SuccessMeansApplied` and `FullReadAccounting`, the row counter and the completions of full reads; `WritesAnswered` and `ReadsComplete` under fairness, with faults and refusals |
| `life` | `MCDbLife` | `HandleOwnsContext`, `QueueMatchesWire` with two handles, calls from reply callbacks and role changes; `PendingServed` and `OldConnectionsEnd` under fairness |
| `sync_calls` | `MCDbSync` | `SuccessIsTransaction`, `WholeUnlessLoose`, `NoTransactionLeft`, `DeleteAllDone`, `AssertionsNeedFaults` for all calls but scans |
| `sync_scan` | `MCDbScan` | `ScanComplete`, `RingMatchesOwed`; `ScanEnds` under fairness |
| `timers` | `MCVTimer` | `RunningIffScheduled`; `CalledOnlyIfOn` for an application that stops a periodic timer before it starts it in one-shot mode; `PeriodicKeepsFiring` under fairness |
| `conf_roles` | `MCRedisConf` | `MasterAfterPromotion`, `ReplicaAfterDemotion`, `ReplicaKeepsBinding` on a node set up as a replica, after calls whose own commands did not fail |

Bounds:

| Run | Instance |
|---|---|
| `async_store` | 2 keys, 2 columns, 3 calls (all but single-column writes), 2 faults, SADD and HMSET refusable, scans also when disconnected |
| `async_reads` | 2 keys, 1 column, 3 calls (writes, row deletions, full reads, close), 2 faults, every data command refusable |
| `life` | 2 handles, 3 contexts, 2 queued commands each, 3 calls after opening, 1 fault besides the closes a role change brings |
| `sync_calls` | 2 keys (symmetric), 2 columns, 4 calls, 2 losses, 1 refusal, 1 change by the other client |
| `sync_scan` | 5 keys in 2 of 4 buckets, empty pages after 2 buckets, ring of 3, 2 failures; any number of scans and changes |
| `timers` | 2 timers, 10 calls; any number of expiries |
| `conf_roles` | 2 addresses, 5 calls, 1 failing command, a death possible in each call |

Two keys are enough for every property that relates two rows; two columns make a
row that can be mixed, and one will do where only answers and counters are
checked. Three asynchronous calls are enough for two to be in flight while a
third finds the handle disconnected. The second fault strikes while what the
first one interrupted is sent again. Two handles are enough for one to use what
belongs to the other, and three contexts for each to replace its own. Four
synchronous calls leave room for an open, a call that leaves something behind, a
call that meets it and one more; two losses make a command fail for good. The
second page of a scan fills the ring of three and wraps it. Ten calls create and
start two timers, in either way, and leave at least two for a stop or a restart by
the callback of the other timer, when the event has expired.

`Ops`, `Refusable`, `ScanWhenDown`, `CallIn`, `CloseIn`, `Careful` and
`RestartsOnce` say what the application calls and where, and what the server may
refuse. The passing runs restrict them for what the next two sections list and to
keep the state space small; the code enforces none of these restrictions.

Deadlock is checked, except in the runs of `DbLife` and `RedisConf`, where the
application may simply make no further call once the bound is reached.

### Disagreements found

| Run | What TLC finds |
|---|---|
| `async_read_lost` | `db_read_all` on a disconnected handle: the reconnect clears the flag, the read never completes (`db_api.h:146` guarantees it) |
| `life_close_in_callback` | `db_close` in `ctrl_cb`, which `db_api.h:155` allows: `db_connect_fn` and `db_disconnect_fn` go on with the freed handle |
| `sync_delete_all_queued` | a write of a row without columns whose SADD is refused leaves its MULTI open: a delete-all is answered +QUEUED and returns `DB_SUCCESS` with nothing deleted (`db_api_sync.c:499`) |
| `timers_restart_once` | a periodic timer started in one-shot mode goes on for ever (`vnf_timer.h:60`) |
| `conf_promotion` | on a node with the `redis.conf` that Redis ships, `db_slave_of` and then `db_become_master` leave the server a replica |

Others were met while the models were written. The models contain these
behaviours, the last paragraph of this section says how the properties leave
them out, and no run of its own repeats them:

- `db_delete_all_row` behind a row deletion: the reply to the earlier DEL lowers
  its flag (`db_api.c:512`), and no row is deleted, against `db_api.h:259`;
- a refused SMEMBERS leaves `delete_all_rows_in_progress` up (`db_api.c:603`), and
  every later delete-all of that connection is answered "DB delete all rows is in
  progress" (`db_api.h:98`), which it is not;
- a failure callback that submits its command again, while `db_disconnect_fn`
  empties the queue (`db_api.c:281`), dials a context that `db_disconnect_fn` then
  forgets; when it connects, the assertion at `db_api.c:308` fails;
- a handle is not reconnected after a role change, though the comment at
  `db_api.c:1723` says that it will be: a second role change (1722), or a direct
  read (1433), finds its context NULL;
- after a lost connection nothing reconnects before the next call
  (`db_api.c:278`), though `db_api.h:154` says that the API tries to set the
  connection up again;
- a refused read fails the assertions that a failed command has no reply
  (`db_api_sync.c:525`, 701), because `exec_sync_cmd` keeps the error reply (1032);
- an empty SSCAN page before the end fails the assertion at `db_api_sync.c:873`;
- `db_slave_of` and its siblings return `DB_SUCCESS` although cp or the restart
  failed (`db_api.c:1274`), against `db_api_sync.h:51` ("Make DB slave to the
  master DB").

### What the properties except

Each exception is a hazard in `PROJECT.json`:

- `DeleteAllEmptiesTable` is about a delete-all with no SMEMBERS or DEL queued
  in front (`lastCall` tells the two apart), for the first disagreement above;
- `DeleteAllEnds` is checked with refusals of SADD and HMSET only, for the second;
- `FullReadAccounting` and `ReadsComplete` are about reads made on a handle that
  is not `DB_DISCONNECTED` (`ScanWhenDown`): after a reconnect, overlapping
  reads share one counter and give more completions than reads;
- `IndexedRowsExist` is about servers that do not refuse SREM;
- a loss between SREM and DEL leaves columns that a later column write brings
  back (`db_api.c:1086`): `ImplementsStore` is checked for whole rows, and proved
  for single columns too when nothing fails;
- `DbLife` leaves to `CallIn` and `CloseIn` calls from failure callbacks and closes
  in callbacks, and to `Careful` a direct read on a handle without context, and a
  role change that meets a handle without context or one that was closed and is
  still queued. With those restrictions no crash is reachable; the passing run
  does not claim that as a property, because they are what excludes it;
- `NoTransactionLeft` excepts rows without columns, and servers that refuse
  DISCARD or EXEC;
- `DeleteAllDone` excepts handles that wrote a row without columns: the MULTI it
  may leave open answers every command +QUEUED. `EveryDeleteAllDone` excepts
  nothing, and fails in `sync_delete_all_queued`. As soon as a row write finds
  `start_transaction` up, its way out discards what was left;
- `AssertionsNeedFaults` says only that without faults no assertion fails;
- `ScanComplete` excepts a scan whose first SSCAN fails: the next call reports
  its end;
- `CalledOnlyIfOn` excepts an application that starts a periodic timer in
  one-shot mode without stopping it (`RestartsOnce`), for `timers_restart_once`;
- `PeriodicKeepsFiring` excepts a periodic timer that expires without callback;
- the three properties of `conf_roles` are about a call whose own commands did
  not fail.

### Fairness

- `DbAsync`: weak fairness of `ConnectOk` (a failed attempt is repeated at once
  by `db_connect_fn`, and attempts succeed in the end), `ServerRuns` (the server
  serves what it received), `Callback` and `TearDown` (libevent and hiredis run
  what is ready).
- `DbLife`: weak fairness of the chain in progress, and for each context of
  `Connects`, `Replies` and `ServerCloses` together: the loop runs, and a context
  that nothing breaks connects and is answered.
- `DbScan`: weak fairness of `NextRow`: the application asks until it is told
  that there are no more rows, as `testsync.c` does.
- `VTimer`: strong fairness of `Expires` and `CallbackBegins` of each timer,
  because the callbacks of other timers come in between but the loop looks at
  every timeout in each round and handles all expired events before it looks
  again; weak fairness of `CallbackEnds`: callbacks return.

Nothing is assumed of the application otherwise, nor that a fault happens or
does not.

## 4. Proofs

| Module | Theorem | States |
|---|---|---|
| `DbAsyncProofs` | `InductiveInvariant` | `Spec => []IInv` |
| | `TypeCorrect` | `Spec => []TypeOK` |
| | `RepliesMatch` | `Spec => []ReplyMatching` |
| | `WritesAnsweredOnce` | `Spec => []WriteAnsweredOnce` |
| | `SuccessIsApplied` | `Spec => []SuccessMeansApplied` |
| | `FullReadsCounted` | `ReadsApart => (Spec => []FullReadAccounting)` |
| `DbAsyncStoreProofs` | `TransactionInvariant` | `Spec => []TxnInv` |
| | `TransactionsAreSeparate` | `Spec => []TransactionsSeparate` |
| | `IndexedRowsAreThere` | `SremAccepted => (Spec => []IndexedRowsExist)` |
| | `RowsInvariant` | `Spec => []RowsInv` |
| | `DeleteAllEmpties` | `Spec => []DeleteAllEmptiesTable` |
| `DbAsyncRefineProofs` | `RowStoreImplemented` | `WholeRows \/ Reliable => (Spec => ImplementsStore)` |
| `DbLifeProofs` | `LifeInvariant` | `Orderly => (Spec => []LifeInv)` |
| | `ContextsOwned` | `Orderly => (Spec => []HandleOwnsContext)` |
| | `QueueIsOnTheWire` | `Orderly => (Spec => []QueueMatchesWire)` |
| | `TypeCorrect` | `Orderly => (Spec => []TypeOK)` |
| `DbSyncProofs` | `SuccessMeansOneExec` | `Spec => []SuccessIsTransaction` |
| | `HandleInvariant` | `Spec => [](TxnInv /\ HandleInv /\ TableInv /\ MildInv)` |
| | `TypeCorrect` | `Spec => []TypeOK` |
| | `AssertionsHold` | `Spec => []AssertionsNeedFaults` |
| | `NothingLeftOpen` | `EndsAccepted => (Spec => []NoTransactionLeft)` |
| | `DeleteAllRemoves` | `EndsAccepted => (Spec => []DeleteAllDone)` |
| | `RowsWhole` | `WholeShapes => (Spec => []WholeUnlessLoose)` |
| `DbScanProofs` | `TypeCorrect` | `Spec => []TypeOK` |
| | `RingHoldsTheRest` | `Spec => []RingMatchesOwed` |
| | `NoRowMissed` | `Spec => []ScanComplete` |
| `VTimerProofs` | `TypeCorrect` | `Spec => []TypeOK` |
| | `RunningIsTrue` | `Spec => []RunningIffScheduled` |
| | `NotCalledWhenOff` | `StopsFirst => (Spec => []CalledOnlyIfOn)` |
| `RedisConfProofs` | `ReplicaOfTheMaster` | `Spec => []ReplicaAfterDemotion` |
| | `ReplicaOnItsInterface` | `Spec => []ReplicaKeepsBinding` |
| | `MasterIsNoReplica` | `Spec => []MasterAfterPromotion` |
| | `TypeCorrect` | `Spec => []TypeOK` |

Each holds for all values of the constants that satisfy the named assumptions
of the module, that is for any number of keys, columns, handles, contexts,
timers, addresses, calls and faults. Where a property is false of the code for
some applications or failures (section 3), the theorem names the hypothesis
under which it holds:

| Hypothesis | Means | Without it |
|---|---|---|
| `ReadsApart` | full reads are made on a connected handle, and there are no delete-alls | the flag of a disconnected handle is cleared, or the delete-all takes the SMEMBERS of the read for its own: the counter is wrong |
| `SremAccepted` | the server does not refuse SREM, or refuses nothing | the row is deleted and its key stays in the index |
| `WholeRows` | the application writes rows with every column, and no single columns | a column write after a loss between SREM and DEL brings old columns back |
| `Reliable` | no fault | the same |
| `Orderly` | handles are closed outside callbacks, called outside callbacks or in those of replies, and no direct read or role change meets a handle without context | a crash in the middle of a chain of callbacks (`life_close_in_callback`), a failing assertion or a NULL context (section 3) |
| `EndsAccepted` | the server refuses neither EXEC nor DISCARD (Redis runs both while it loads or is out of memory) | a refused DISCARD leaves a MULTI at the server that the handle believes closed, and the delete-all that follows is answered +QUEUED |
| `StopsFirst` | `~RestartsOnce`: a periodic timer is stopped before it is started in one-shot mode | `timers_restart_once` |
| `WholeShapes` | `db_write_single_row_sync` is given every column; single columns may be written too | a row keeps columns of an older write because the call asked for that |
| `Complete` | `redis.conf` has a `bind` line and a `slaveof` line or comment | the rewriting has no line to replace |

**`DbAsyncProofs`** assumes a finite set of keys, `NoKey` no key, row shapes
that are non-empty column lists, and natural bounds. `IInv` is `TypeOK`,
`ReplyMatching` and three parts:

- `PendingInv`: each queued EXEC belongs to a call made, has an HMSET in front
  of it or, at the head, the write flag up; no two belong to one write; and the
  open writes are those whose EXEC is queued. Without it, `write_cb` could be
  skipped, or a flag left over from one write could answer another.
- `OkAnswersApplied`: a positive reply to an EXEC that is on its way stands for
  a write that the server applied.
- `SuccessMeansApplied` itself.

The lemmas first say what a queue operation does to `PendingInv`
(`AppendWrite`, `AppendPlain`, `AppendOthers`, `PopExec`, `PopPlain`), then there
is one lemma for each group of actions. `FullReadAccounting` speaks of numbers
only; `ReadsInv` adds the places: the row reads that are counted stand in one
block of the queue, and the full read in progress has the only SMEMBERS,
behind that block.

**`DbAsyncStoreProofs`** follows what the server keeps of the commands it has
run. `TxnInv` says that the queue is a row of whole calls of which the first
may be half popped (`Grouped`), and that the MULTI state is the one that the
next command to be run was queued for (`Position`); a command that is refused
inside a MULTI only makes it dirty. `IndexInv` adds to `IndexedRowsExist` that
the row of a DEL that comes next is out of the index already. `RowsInv` says of
each EXEC still to be run that its write is not applied and, if rows are written
whole, that each column has an HMSET to be run or queued; and, if nothing fails,
that no row outside the index has columns, but for the one whose DEL comes next.
`SweepInv` follows a delete-all through the queue: first its SMEMBERS is the last
command and nothing in front of it lowers the flag (`AwaitsScan`), and when the
server runs it `RowsInv` says that the reply lists all there is; then each row
that is left has an SREM and a DEL still to be run (`Sweeping`).

**`DbAsyncRefineProofs`** shows that each step of `DbAsync` is one of `RowStore`
or leaves the store alone: a call is `Begin`, an EXEC `Apply`, a `write_cb`
`Succeed` or `Fail`, and SREM, DEL or FLUSHDB `Remove`. `RowsInv` gives that an
EXEC writes the row that the call asked for and nothing that was deleted before.

**`DbLifeProofs`** proves `LifeInv`. `HandleOwnsContext` and `QueueMatchesWire`
speak of the moments between two events. Outside a chain of callbacks every
handle is `Settled` and every context `Owned`; inside one, all are but the
handle and the context that the chain is about, of which `InChain` says at each
step whether the handle still points to the context (`Held`), has let go of it
(`Left`) or dials on another one (`Replaced`). The operations of the library are
lemmas about the memory (`Sound` in, `Sound` or `InChain` out), and an action is
one or two of them. The lemmas `WireAppend`, `WireTail` and `WireFlush` count the
commands on a wire by the cardinality of the set of their positions.

**`DbSyncProofs`** proves `TxnInv`: as long as a transactional call has not
failed, the commands it has left end in their only EXEC (`Shaped`), and while
the server holds the MULTI, or the MULTI is still to be sent, no command of the
call has taken effect outside. The second half is what a retry threatens: a
command sent again after the session was lost takes effect at once, and then no
MULTI can be open for the EXEC to succeed. A step of a running call is shown
to be an `Advance`, a new call to be a `Starts`, and both to keep `TxnInv`.
`HandleInv` ties the parts of the handle together: a connection that is not up
has no session, `start_transaction` is up whenever the server holds a MULTI, and
then the running call still has an EXEC or DISCARD to send, or is a read or delete-all
that met the MULTI of an earlier call (`MildInv`: it sends neither). The two theorems
with `EndsAccepted` add `PlainInv`, which commands a call has left, and
`SweepInv`: a listed row that a delete-all has not removed still has its SREM and
DEL among them, as long as the handle has written no row without columns
(`NoEmptyRow`): only then is every reply that the sweep rests on one of a command
that ran. `RowsWhole` adds `BodyInv`: the queue of the server followed by
the commands left is one whole transaction, so that the EXEC writes every
column of a row or none. What an EXEC does to the table is defined by the last
command that touches each row and column, not by running the queue: a recursive
definition could not be reasoned about, and the two agree on what TLC reaches.

**`DbScanProofs`** proves `ScanInv`: while a scan is in progress, a row that was
there from its start has been returned, or waits in the ring, or lies in a
bucket that the cursor has not passed. The middle case needs
`RingMatchesOwed`, which in turn needs the assumption `PagesFit`: a page of one
key more would fill the ring and make it look empty. The lemmas `SlotAt`,
`DistanceTo` and `NextSlot` are the arithmetic of the ring.

**`VTimerProofs`** proves of each timer that it is running if and only if it is
scheduled, and, if periodic timers are stopped before they are started in
one-shot mode, that it is scheduled only if wanted, and periodic only if wanted
so. `CalledOnlyIfOn` alone is not inductive, because
`timer_event_cb` decides by `periodic` after the callback.

**`RedisConfProofs`** takes as hypothesis of its first three theorems what the files of the
installation hold: a `bind` line and a `slaveof` line or comment (`Complete`),
and for `MasterIsNoReplica` a directive; `conf_promotion` starts from a file
without one. `ConfInv` follows the lines from `redis.conf` through the
temporary file and its copy to the server, over failing commands and the death
of the process at any step. `TypeCorrect` needs that dropping the comments leaves a sequence of lines:
the ranks of the kept places are a one-to-one map onto the new ones (`RankOnto`),
by the library's theorem on injections between finite sets, in place of an
induction over the file.

Only model-checked: the liveness properties (`DeleteAllEnds`, `WritesAnswered`,
`ReadsComplete`, `PendingServed`, `OldConnectionsEnd`, `ScanEnds`,
`PeriodicKeepsFiring`), since the provers handle neither fairness nor `ENABLED`.
Every invariant of a passing run has a theorem.

## 5. Not modelled

- **Record table and protobuf code**: generated by protoc-c. They are about
  29 000 of the 34 700 lines of the implementation, so the lines the models map
  are a small share of it; of the roughly 5 000 lines written by hand, most
  that keep state are mapped.
- **Row-change notification** (`db_api.c` 1727-1946): nothing in the repository
  puts an entry into `notify_entry_queue`, so no channel is ever subscribed and
  none of the callbacks can run. A model would start from states that the
  program cannot be in.
- **Rows that reads return**: both kinds of handle decode them without state.
- `db_check_slave_initial_replication_sync`, `db_free_read_sync`: they change no
  state of the handle.
- **Keys**: two functions that put a tag of fixed length in front of a key.
- **Base64**, **DB manager**: not built by the Makefile. The `db_close` that the
  DB manager makes in `ctrl_cb` is the subject of `life_close_in_callback`.
- **Logging, stubs, test programs**: no state; the test programs were read for
  how the API is called.
