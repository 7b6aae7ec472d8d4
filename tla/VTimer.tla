------------------------------- MODULE VTimer -------------------------------
(***************************************************************************)
(* The timers of src/src/vnf_timer.c over one libevent loop (scheduler.c). *)
(* A timer is a structure with an embedded event; when the event expires   *)
(* libevent calls timer_event_cb, which calls the application, which may   *)
(* call the timer API on this timer and on others.                         *)
(*                                                                         *)
(* How long a timeout lasts is left out: a pending event expires at some   *)
(* time.  Several events may have expired when their callbacks are run,    *)
(* one after the other, in any order.                                      *)
(***************************************************************************)
EXTENDS Integers

CONSTANTS
  Timers,      (* timer handles                                            *)
  NoTimer,     (* no timer                                                 *)
  MaxCalls,    (* bound: calls of the timer API                            *)
  RestartsOnce (* the application starts in one-shot mode a timer that was *)
               (* periodic, without stopping it: vtimer_start allows it    *)

ASSUME NoTimerAssumption == NoTimer \notin Timers
ASSUME BoundAssumption == MaxCalls \in Nat
ASSUME HabitAssumption == RestartsOnce \in BOOLEAN

VARIABLES
  loop,       (* the loop of the thread: "none", "ready", "running"        *)
  tmr,        (* VNFTimerImpl of each timer                                *)
  event,      (* libevent: "unset", "pending" or "active" (has expired)    *)
  inCb,       (* the timer whose callback runs                             *)
  calls,      (* number of API calls made                                  *)
  mode,       (* history: what the application asked for: "off", "once",   *)
              (* "periodic"                                                *)
  late        (* history: timers called back although they were off        *)

vars == <<loop, tmr, event, inCb, calls, mode, late>>

Fields == [alive : BOOLEAN, cb : BOOLEAN, initialized : BOOLEAN,
           periodic : BOOLEAN, running : BOOLEAN]
Absent == [alive |-> FALSE, cb |-> FALSE, initialized |-> FALSE,
           periodic |-> FALSE, running |-> FALSE]
Fresh  == [Absent EXCEPT !.alive = TRUE]

(* Every variable keeps its type; a timer that does not exist or has no    *)
(* timeout has no event.                                                   *)
TypeOK ==
  /\ loop \in {"none", "ready", "running"} /\ inCb \in Timers \cup {NoTimer}
  /\ tmr \in [Timers -> Fields] /\ event \in [Timers -> {"unset", "pending", "active"}]
  /\ mode \in [Timers -> {"off", "once", "periodic"}]
  /\ \A t \in Timers : event[t] # "unset" => tmr[t].alive /\ tmr[t].initialized
  /\ calls \in 0..MaxCalls /\ late \subseteq Timers

Init ==
  /\ loop = "none" /\ inCb = NoTimer /\ calls = 0
  /\ tmr = [t \in Timers |-> Absent] /\ event = [t \in Timers |-> "unset"]
  /\ mode = [t \in Timers |-> "off"] /\ late = {}

-----------------------------------------------------------------------------
(* The event loop.                                                         *)

(* scheduler_init, called again by db_open, db_open_ex and the like: the   *)
(* base of a thread is made once.                                          *)
SchedulerInit ==
  /\ loop = "none" /\ loop' = "ready"
  /\ UNCHANGED <<tmr, event, inCb, calls, mode, late>>

(* run_scheduler: event_base_dispatch returns when no event is left.       *)
RunScheduler ==
  /\ loop = "ready" /\ \E t \in Timers : event[t] # "unset"
  /\ loop' = "running"
  /\ UNCHANGED <<tmr, event, inCb, calls, mode, late>>

RunReturns ==
  /\ loop = "running" /\ inCb = NoTimer /\ \A t \in Timers : event[t] = "unset"
  /\ loop' = "ready"
  /\ UNCHANGED <<tmr, event, inCb, calls, mode, late>>

(* scheduler_deinit; the application has freed its timers.                 *)
SchedulerDeinit ==
  /\ loop = "ready" /\ \A t \in Timers : ~tmr[t].alive
  /\ loop' = "none"
  /\ UNCHANGED <<tmr, event, inCb, calls, mode, late>>

(* libevent finds that the timeout of t has passed.                        *)
Expires(t) ==
  /\ loop = "running" /\ inCb = NoTimer /\ event[t] = "pending"
  /\ event' = [event EXCEPT ![t] = "active"]
  /\ UNCHANGED <<loop, tmr, inCb, calls, mode, late>>

-----------------------------------------------------------------------------
(* timer_event_cb.                                                         *)

(* Mutant: running is cleared in the branch that has a callback.           *)
CallbackBegins_StaysRunning(t) ==
  /\ loop = "running" /\ inCb = NoTimer /\ event[t] = "active"
  /\ event' = [event EXCEPT ![t] = "unset"]
  /\ tmr' = [tmr EXCEPT ![t].running = @ /\ ~tmr[t].cb]
  /\ inCb' = IF tmr[t].cb THEN t ELSE NoTimer
  /\ mode' = [mode EXCEPT ![t] = IF @ = "once" \/ ~tmr[t].cb THEN "off" ELSE @]
  /\ UNCHANGED <<loop, calls, late>>

(* The callback of t begins: libevent has taken the event from its queue.  *)
(* A timer without callback is over, also a periodic one: it is not        *)
(* started again, and a callback set from now on is not called.            *)
CallbackBegins(t) ==
  /\ loop = "running" /\ inCb = NoTimer /\ event[t] = "active"
  /\ event' = [event EXCEPT ![t] = "unset"]
  /\ tmr' = [tmr EXCEPT ![t].running = FALSE]
  /\ inCb' = IF tmr[t].cb THEN t ELSE NoTimer
  /\ late' = IF tmr[t].cb /\ mode[t] = "off" THEN late \cup {t} ELSE late
  /\ mode' = [mode EXCEPT ![t] = IF @ = "once" \/ ~tmr[t].cb THEN "off" ELSE @]
  /\ UNCHANGED <<loop, calls>>

(* Mutant: whether to go on is decided before the callback is called.      *)
CallbackEnds_Always(t) ==
  /\ inCb = t /\ inCb' = NoTimer
  /\ tmr' = [tmr EXCEPT ![t].running = TRUE]
  /\ event' = [event EXCEPT ![t] = "pending"]
  /\ UNCHANGED <<loop, calls, mode, late>>

(* Mutant: a periodic timer is started again only if it is still running.  *)
CallbackEnds_IfRunning(t) ==
  /\ inCb = t /\ inCb' = NoTimer
  /\ event' = IF tmr[t].periodic /\ tmr[t].running
                THEN [event EXCEPT ![t] = "pending"] ELSE event
  /\ UNCHANGED <<loop, tmr, calls, mode, late>>

(* The callback has returned: its timer is looked at again, and started    *)
(* again if it is periodic by now, also if the callback has freed it.  The *)
(* memory then holds what vtimer_stop left in it, as Absent does: no flag  *)
(* is up.  That the callback reuses the memory for something else is not   *)
(* modelled.                                                               *)
CallbackEnds(t) ==
  /\ inCb = t /\ inCb' = NoTimer
  /\ IF tmr[t].periodic
       THEN /\ tmr' = [tmr EXCEPT ![t].running = TRUE]
            /\ event' = [event EXCEPT ![t] = "pending"]
       ELSE UNCHANGED <<tmr, event>>
  /\ UNCHANGED <<loop, calls, mode, late>>

-----------------------------------------------------------------------------
(* The API, called from the main program before the loop runs, from other  *)
(* event handlers, or from a timer callback.                               *)

Api == /\ loop # "none" /\ calls < MaxCalls /\ calls' = calls + 1
       /\ UNCHANGED <<loop, inCb, late>>

(* vtimer_new and vtimer_new_full.                                         *)
New(t) ==
  /\ Api /\ ~tmr[t].alive /\ event[t] = "unset" /\ inCb # t
  /\ tmr' = [tmr EXCEPT ![t] = Fresh] /\ UNCHANGED <<event, mode>>

NewFull(t) ==
  /\ Api /\ ~tmr[t].alive /\ event[t] = "unset" /\ inCb # t
  /\ tmr' = [tmr EXCEPT ![t] = [Fresh EXCEPT !.cb = TRUE, !.initialized = TRUE]]
  /\ UNCHANGED <<event, mode>>

SetCallback(t) ==
  /\ Api /\ tmr[t].alive
  /\ \E given \in BOOLEAN : tmr' = [tmr EXCEPT ![t].cb = given]
  /\ UNCHANGED <<event, mode>>

(* A pending event keeps its time.                                         *)
SetTimeout(t) ==
  /\ Api /\ tmr[t].alive
  /\ tmr' = [tmr EXCEPT ![t].initialized = TRUE]
  /\ UNCHANGED <<event, mode>>

MayStart(t, p) ==
  tmr[t].alive /\ (~p /\ tmr[t].periodic => RestartsOnce)

(* Mutant: a timer without a timeout is started too.                       *)
Start_Unchecked(t, p) ==
  /\ Api /\ MayStart(t, p)
  /\ event' = [event EXCEPT ![t] = "pending"]
  /\ tmr' = [tmr EXCEPT ![t].running = TRUE, ![t].periodic = @ \/ p]
  /\ mode' = [mode EXCEPT ![t] = IF p THEN "periodic" ELSE "once"]

(* vtimer_start and, with p, vtimer_start_periodic; without a timeout they *)
(* return false.  evtimer_add puts back an event that has expired but has  *)
(* not been handled yet.  vtimer_start does not clear periodic.            *)
Start(t, p) ==
  /\ Api /\ MayStart(t, p)
  /\ IF tmr[t].initialized
       THEN /\ event' = [event EXCEPT ![t] = "pending"]
            /\ tmr' = [tmr EXCEPT ![t].running = TRUE, ![t].periodic = @ \/ p]
            /\ mode' = [mode EXCEPT ![t] = IF p THEN "periodic" ELSE "once"]
       ELSE UNCHANGED <<event, tmr, mode>>

(* evtimer_del takes the event out of every queue of libevent.             *)
Stopped(t) == [event EXCEPT ![t] = "unset"]

Stop(t) ==
  /\ Api /\ tmr[t].alive
  /\ event' = Stopped(t)
  /\ tmr' = [tmr EXCEPT ![t].running = FALSE, ![t].periodic = FALSE]
  /\ mode' = [mode EXCEPT ![t] = "off"]

(* vtimer_free stops the timer first; its own callback may call it.        *)
Free(t) ==
  /\ Api /\ tmr[t].alive
  /\ event' = Stopped(t)
  /\ tmr' = [tmr EXCEPT ![t] = Absent]
  /\ mode' = [mode EXCEPT ![t] = "off"]

Call(t) == \/ New(t) \/ NewFull(t) \/ SetCallback(t) \/ SetTimeout(t)
           \/ Start(t, TRUE) \/ Start(t, FALSE) \/ Stop(t) \/ Free(t)

Loop(t) == Expires(t) \/ CallbackBegins(t) \/ CallbackEnds(t)

Rest == loop # "running" /\ UNCHANGED vars

Next == \/ SchedulerInit \/ RunScheduler \/ RunReturns \/ SchedulerDeinit
        \/ \E t \in Timers : Call(t) \/ Loop(t)
        \/ Rest

Spec == Init /\ [][Next]_vars

(* Callbacks return, and although the callbacks of other timers come in    *)
(* between, the loop looks at every timeout in each of its rounds and      *)
(* handles all events that have expired before it looks again.  The        *)
(* application owes no call.                                               *)
FairSpec == Spec /\ \A t \in Timers : /\ SF_vars(Expires(t))
                                      /\ SF_vars(CallbackBegins(t))
                                      /\ WF_vars(CallbackEnds(t))

-----------------------------------------------------------------------------
(* What should hold.                                                       *)

(* vtimer_is_running tells the truth: a timer is running exactly when      *)
(* libevent holds its event, between any two calls and callbacks.          *)
RunningIffScheduled ==
  \A t \in Timers : tmr[t].running <=> event[t] # "unset"

(* "The callback will not be invoked after the timer is stopped", and a    *)
(* timer started "in one shot mode" is called back once (vnf_timer.h):     *)
(* also when it is stopped or restarted by the callback of another timer,  *)
(* after it has expired, or by its own.  The code keeps this only if the   *)
(* application stops a periodic timer before it starts it in one-shot mode *)
(* (RestartsOnce = FALSE): the run of it with TRUE is a refutation.        *)
CalledOnlyIfOn == late = {}

(* "The timer will be automatically restarted upon expiry" (vnf_timer.h):  *)
(* a periodic timer is called back again and again while the loop runs,    *)
(* as long as it has a callback at each expiry and nobody stops it.        *)
PeriodicKeepsFiring ==
  \A t \in Timers :
    mode[t] = "periodic" /\ tmr[t].cb /\ loop = "running"
      ~> inCb = t \/ mode[t] # "periodic" \/ ~tmr[t].cb \/ loop # "running"

=============================================================================
