---------------------------- MODULE VTimerProofs ----------------------------
(***************************************************************************)
(* What TLAPS proves of VTimer, for every set of timers and every bound:   *)
(* TypeOK and RunningIffScheduled whatever the application does, and       *)
(* CalledOnlyIfOn if it stops a periodic timer before it starts it in      *)
(* one-shot mode (otherwise the run "timers_restart_once" refutes it).     *)
(*                                                                         *)
(* CalledOnlyIfOn is not inductive by itself: it needs to know that a      *)
(* scheduled timer is one that the application wants, and that the         *)
(* periodic flag, which timer_event_cb reads after the callback, still     *)
(* says what the application wants while a callback runs.  Wanted says     *)
(* this of one timer, Good says that it is marked as running when it is:   *)
(* an operation on a timer has to keep both of that timer (OneTimer).      *)
(***************************************************************************)
EXTENDS VTimer, TLAPS

Events == {"unset", "pending", "active"}
Modes  == {"off", "once", "periodic"}

StopsFirst == ~RestartsOnce

(* A timer r with event e, wanted as m; inside says its callback runs.     *)
Wanted(r, e, m, inside) ==
  /\ e # "unset" => m # "off"
  /\ e # "unset" \/ inside => (r.periodic => m = "periodic")

Good(r, e, m, inside) ==
  /\ r.running <=> e # "unset"
  /\ e # "unset" => r.alive /\ r.initialized
  /\ inside /\ r.alive => r.initialized
  /\ r.periodic => r.alive
  /\ StopsFirst => Wanted(r, e, m, inside)

Typed ==
  /\ loop \in {"none", "ready", "running"} /\ inCb \in Timers \cup {NoTimer}
  /\ tmr \in [Timers -> Fields] /\ event \in [Timers -> Events]
  /\ mode \in [Timers -> Modes] /\ calls \in 0..MaxCalls
  /\ late \subseteq Timers

TimerInv ==
  /\ Typed /\ (StopsFirst => late = {})
  /\ \A t \in Timers : Good(tmr[t], event[t], mode[t], inCb = t)

-----------------------------------------------------------------------------

(* The structures of vnf_timer.c and their fields.                         *)
LEMMA AbsentTimer ==
  /\ Absent \in Fields /\ ~Absent.running /\ ~Absent.alive /\ ~Absent.periodic
  BY DEF Absent, Fields

(* A timer that vtimer_new has just allocated does not run.                *)
LEMMA FreshTimer == Fresh \in Fields /\ ~Fresh.running /\ ~Fresh.periodic
  BY DEF Fresh, Absent, Fields

(* What vtimer_new_full returns: a callback, a timeout, not running.       *)
LEMMA FullTimer ==
  LET r == [Fresh EXCEPT !.cb = TRUE, !.initialized = TRUE]
  IN  r \in Fields /\ ~r.running /\ ~r.periodic
  BY DEF Fresh, Absent, Fields

(* Only the mark changes when a timer is started again or has expired.     *)
LEMMA RunningSet ==
  ASSUME NEW r \in Fields, NEW b \in BOOLEAN
  PROVE  LET q == [r EXCEPT !.running = b]
         IN  /\ q \in Fields /\ (q.running <=> b)
             /\ (q.alive <=> r.alive) /\ (q.initialized <=> r.initialized)
             /\ (q.periodic <=> r.periodic)
  BY DEF Fields

(* A start marks the timer, and never takes its periodicity away.          *)
LEMMA Started ==
  ASSUME NEW r \in Fields, NEW p \in BOOLEAN
  PROVE  LET q == [r EXCEPT !.running = TRUE, !.periodic = @ \/ p]
         IN  /\ q \in Fields /\ q.running
             /\ (q.alive <=> r.alive) /\ (q.initialized <=> r.initialized)
             /\ (q.periodic <=> r.periodic \/ p)
  BY DEF Fields

(* A stop clears the mark and the periodicity of a timer.                  *)
LEMMA StoppedTimer ==
  ASSUME NEW r \in Fields
  PROVE  LET q == [r EXCEPT !.running = FALSE, !.periodic = FALSE]
         IN  q \in Fields /\ ~q.running /\ ~q.periodic /\ (q.alive <=> r.alive)
  BY DEF Fields

(* vtimer_set_callback leaves the rest of the timer alone.                 *)
LEMMA FlagSet ==
  ASSUME NEW r \in Fields, NEW b \in BOOLEAN
  PROVE  LET q == [r EXCEPT !.cb = b]
         IN  /\ q \in Fields /\ (q.running <=> r.running)
             /\ (q.alive <=> r.alive) /\ (q.initialized <=> r.initialized)
             /\ (q.periodic <=> r.periodic)
  BY DEF Fields

(* vtimer_set_timeout initialises the timer and changes no more.           *)
LEMMA TimeoutSet ==
  ASSUME NEW r \in Fields
  PROVE  LET q == [r EXCEPT !.initialized = TRUE]
         IN  /\ q \in Fields /\ (q.running <=> r.running)
             /\ (q.alive <=> r.alive) /\ q.initialized
             /\ (q.periodic <=> r.periodic)
  BY DEF Fields

(* A step that changes one timer, and lets no other callback begin, keeps  *)
(* the invariant if it keeps Good of that timer.                           *)
LEMMA OneTimer ==
  ASSUME TimerInv, NEW t \in Timers,
         NEW r \in Fields, NEW e \in Events, NEW m \in Modes,
         tmr' = [tmr EXCEPT ![t] = r], event' = [event EXCEPT ![t] = e],
         mode' = [mode EXCEPT ![t] = m],
         loop' \in {"none", "ready", "running"}, calls' \in 0..MaxCalls,
         late' \subseteq Timers, StopsFirst => late' = late,
         inCb' \in Timers \cup {NoTimer},
         \A u \in Timers \ {t} : inCb' = u => inCb = u,
         Good(r, e, m, inCb' = t)
  PROVE  TimerInv'
<1>1. Typed'
  BY DEF TimerInv, Typed
<1>2. ASSUME NEW u \in Timers
      PROVE  Good(tmr'[u], event'[u], mode'[u], inCb' = u)
  <2>1. CASE u = t
    <3>1. tmr'[u] = r /\ event'[u] = e /\ mode'[u] = m
      BY <2>1 DEF TimerInv, Typed
    <3> QED BY <2>1, <3>1
  <2>2. CASE u # t
    <3>1. tmr'[u] = tmr[u] /\ event'[u] = event[u] /\ mode'[u] = mode[u]
      BY <2>2 DEF TimerInv, Typed
    <3>2. Good(tmr[u], event[u], mode[u], inCb = u) /\ (inCb' = u => inCb = u)
      BY <2>2 DEF TimerInv
    <3> QED BY <3>1, <3>2 DEF Good, Wanted
  <2> QED BY <2>1, <2>2
<1> QED BY <1>1, <1>2 DEF TimerInv

-----------------------------------------------------------------------------

(* Nothing is scheduled, called or freed at the start.                     *)
LEMMA InitTimer == Init => TimerInv
<1> SUFFICES ASSUME Init PROVE TimerInv
  OBVIOUS
<1>1. Typed
  BY AbsentTimer, BoundAssumption DEF Init, Typed, Events, Modes
<1>2. ASSUME NEW t \in Timers PROVE Good(tmr[t], event[t], mode[t], inCb = t)
  <2>1. tmr[t] = Absent /\ event[t] = "unset" /\ inCb # t
    BY NoTimerAssumption DEF Init
  <2> QED BY <2>1, AbsentTimer DEF Good, Wanted
<1> QED BY <1>1, <1>2 DEF Init, TimerInv

(* The steps of the event loop and of timer_event_cb keep the invariant.   *)
LEMMA LoopStep ==
  ASSUME TimerInv, NEW t \in Timers, Loop(t)
  PROVE  TimerInv'
<1> DEFINE r == tmr[t]
<1>0. /\ r \in Fields /\ Good(r, event[t], mode[t], inCb = t)
      /\ event[t] \in Events /\ mode[t] \in Modes /\ Typed
      /\ tmr = [tmr EXCEPT ![t] = r] /\ mode = [mode EXCEPT ![t] = mode[t]]
      /\ event = [event EXCEPT ![t] = event[t]]
  BY DEF TimerInv, Typed
<1>1. CASE Expires(t)
  <2>1. Good(r, "active", mode[t], inCb' = t)
    BY <1>0, <1>1 DEF Expires, Good, Wanted
  <2>2. /\ tmr' = [tmr EXCEPT ![t] = r] /\ event' = [event EXCEPT ![t] = "active"]
        /\ mode' = [mode EXCEPT ![t] = mode[t]] /\ late' = late
        /\ inCb' = inCb /\ loop' = loop /\ calls' = calls
    BY <1>0, <1>1 DEF Expires
  <2>3. "active" \in Events
    BY DEF Events
  <2> HIDE DEF r
  <2> QED BY <1>0, <2>1, <2>2, <2>3, OneTimer DEF Typed
<1>2. CASE CallbackBegins(t)
  <2> DEFINE q == [r EXCEPT !.running = FALSE]
             m == IF mode[t] = "once" \/ ~r.cb THEN "off" ELSE mode[t]
  <2>1. /\ event[t] = "active" /\ inCb = NoTimer /\ r.alive /\ r.initialized
        /\ StopsFirst => mode[t] # "off" /\ (r.periodic => mode[t] = "periodic")
    BY <1>0, <1>2 DEF CallbackBegins, Good, Wanted
  <2>2. /\ tmr' = [tmr EXCEPT ![t] = q] /\ inCb' = (IF r.cb THEN t ELSE NoTimer)
        /\ late' \subseteq Timers /\ (StopsFirst => late' = late)
       
    BY <1>0, <1>2, <2>1 DEF CallbackBegins, Typed
  <2>3. event' = [event EXCEPT ![t] = "unset"] /\ mode' = [mode EXCEPT ![t] = m]
    BY <1>2 DEF CallbackBegins
  <2>4. /\ q \in Fields /\ ~q.running /\ (q.alive <=> r.alive)
        /\ (q.initialized <=> r.initialized) /\ (q.periodic <=> r.periodic)
    BY <1>0, RunningSet
  <2>5. StopsFirst /\ inCb' = t => (r.periodic => m = "periodic")
    BY <2>1, <2>2, NoTimerAssumption
  <2>6. Good(q, "unset", m, inCb' = t)
    <3> HIDE DEF q, m
    <3> QED BY <2>1, <2>4, <2>5 DEF Good, Wanted
  <2>7. m \in Modes /\ "unset" \in Events /\ UNCHANGED <<loop, calls>>
    BY <1>0, <1>2 DEF Modes, Events, CallbackBegins
  <2>8. inCb' \in {t, NoTimer}
    BY <2>2
  <2> HIDE DEF q, m
  <2> QED BY <1>0, <2>2, <2>3, <2>4, <2>6, <2>7, <2>8, OneTimer, NoTimerAssumption DEF Typed
<1>3. CASE CallbackEnds(t)
  <2>1. /\ inCb = t /\ inCb' = NoTimer /\ UNCHANGED <<loop, calls, mode, late>>
        /\ StopsFirst => (r.periodic => mode[t] = "periodic")
    BY <1>0, <1>3 DEF CallbackEnds, Good, Wanted
  <2>0. /\ loop' \in {"none", "ready", "running"} /\ calls' \in 0..MaxCalls
        /\ late' \subseteq Timers /\ late' = late
        /\ inCb' \in Timers \cup {NoTimer}
        /\ \A u \in Timers \ {t} : inCb' = u => inCb = u
    BY <1>0, <2>1, NoTimerAssumption DEF Typed
  <2>3. CASE r.periodic
    <3> DEFINE q == [r EXCEPT !.running = TRUE]
    <3>1. tmr' = [tmr EXCEPT ![t] = q] /\ event' = [event EXCEPT ![t] = "pending"]
      BY <1>3, <2>1, <2>3 DEF CallbackEnds
    <3>2. /\ q \in Fields /\ q.running /\ (q.alive <=> r.alive)
          /\ (q.initialized <=> r.initialized) /\ (q.periodic <=> r.periodic)
      BY <1>0, RunningSet
    <3>3. r.initialized /\ r.alive
      BY <1>0, <2>1, <2>3 DEF Good
    <3>4. Good(q, "pending", mode[t], inCb' = t)
      BY <2>1, <2>3, <3>2, <3>3 DEF Good, Wanted
    <3>5. "pending" \in Events /\ mode' = [mode EXCEPT ![t] = mode[t]]
      BY <1>0, <2>1 DEF Events
    <3> HIDE DEF q, r
    <3> QED BY <1>0, <2>0, <3>1, <3>2, <3>4, <3>5, OneTimer
  <2>4. CASE ~r.periodic
    <3>1. /\ tmr' = [tmr EXCEPT ![t] = r] /\ event' = [event EXCEPT ![t] = event[t]]
          /\ mode' = [mode EXCEPT ![t] = mode[t]]
      BY <1>0, <1>3, <2>1, <2>4 DEF CallbackEnds
    <3>2. Good(r, event[t], mode[t], inCb' = t)
      BY <1>0, <2>1, NoTimerAssumption DEF Good, Wanted
    <3> HIDE DEF r
    <3> QED BY <1>0, <2>0, <3>1, <3>2, OneTimer
  <2> QED BY <2>3, <2>4
<1> QED BY <1>1, <1>2, <1>3 DEF Loop

(* So do the calls of the application, whether from a callback or not.     *)
LEMMA CallStep ==
  ASSUME TimerInv, NEW t \in Timers, Call(t)
  PROVE  TimerInv'
<1> DEFINE r == tmr[t]
<1>0. /\ r \in Fields /\ Good(r, event[t], mode[t], inCb = t)
      /\ event[t] \in Events /\ mode[t] \in Modes /\ Typed
      /\ tmr = [tmr EXCEPT ![t] = r] /\ mode = [mode EXCEPT ![t] = mode[t]]
      /\ event = [event EXCEPT ![t] = event[t]]
      /\ "unset" \in Events /\ "pending" \in Events
      /\ {"off", "once", "periodic"} \subseteq Modes
  BY DEF TimerInv, Typed, Events, Modes
<1>a. Api
  BY DEF Call, New, NewFull, SetCallback, SetTimeout, Start, Stop, Free
<1>b. /\ loop' \in {"none", "ready", "running"} /\ calls' \in 0..MaxCalls
      /\ late' = late /\ late' \subseteq Timers
      /\ inCb' = inCb
      /\ inCb' \in Timers \cup {NoTimer}
      /\ \A u \in Timers \ {t} : inCb' = u => inCb = u
  BY <1>0, <1>a, BoundAssumption DEF Typed, Api
<1>1. ASSUME NEW q \in Fields, ~q.running, ~q.periodic, ~r.alive, event[t] = "unset", inCb # t,
             tmr' = [tmr EXCEPT ![t] = q], UNCHANGED <<event, mode>>
      PROVE  TimerInv'
  <2>1. Good(q, event[t], mode[t], inCb' = t)
    BY <1>1, <1>b DEF Good, Wanted
  <2> QED BY <1>0, <1>1, <1>b, <2>1, OneTimer
<1>2. CASE New(t)
  BY <1>1, <1>2, FreshTimer DEF New
<1>3. CASE NewFull(t)
  BY <1>1, <1>3, FullTimer DEF NewFull
<1>4. ASSUME NEW q \in Fields, q.running <=> r.running, q.alive <=> r.alive,
             r.initialized => q.initialized, q.periodic <=> r.periodic,
             tmr' = [tmr EXCEPT ![t] = q], UNCHANGED <<event, mode>>
      PROVE  TimerInv'
  <2>1. Good(q, event[t], mode[t], inCb' = t)
    BY <1>0, <1>4, <1>b DEF Good, Wanted
  <2> QED BY <1>0, <1>4, <1>b, <2>1, OneTimer
<1>5. CASE SetCallback(t)
  <2>1. PICK b \in BOOLEAN : tmr' = [tmr EXCEPT ![t] = [r EXCEPT !.cb = b]]
    BY <1>5 DEF SetCallback
  <2> DEFINE q == [r EXCEPT !.cb = b]
  <2>2. /\ q \in Fields /\ (q.running <=> r.running) /\ (q.alive <=> r.alive)
        /\ (r.initialized => q.initialized) /\ (q.periodic <=> r.periodic)
    BY <1>0, FlagSet
  <2>3. UNCHANGED <<event, mode>>
    BY <1>5 DEF SetCallback
  <2> HIDE DEF q, r
  <2> QED BY <1>4, <2>1, <2>2, <2>3 DEF q
<1>6. CASE SetTimeout(t)
  <2> DEFINE q == [r EXCEPT !.initialized = TRUE]
  <2>1. tmr' = [tmr EXCEPT ![t] = q] /\ UNCHANGED <<event, mode>>
    BY <1>6 DEF SetTimeout
  <2>2. /\ q \in Fields /\ (q.running <=> r.running) /\ (q.alive <=> r.alive)
        /\ (r.initialized => q.initialized) /\ (q.periodic <=> r.periodic)
    BY <1>0, TimeoutSet
  <2> HIDE DEF q
  <2> QED BY <1>4, <2>1, <2>2
<1>7. ASSUME NEW p \in BOOLEAN, Start(t, p)
      PROVE  TimerInv'
  <2>1. CASE r.initialized
    <3> DEFINE q == [r EXCEPT !.running = TRUE, !.periodic = @ \/ p]
               m == IF p THEN "periodic" ELSE "once"
    <3>1. /\ tmr' = [tmr EXCEPT ![t] = q] /\ event' = [event EXCEPT ![t] = "pending"]
          /\ mode' = [mode EXCEPT ![t] = m]
          /\ r.alive /\ (StopsFirst => (~p => ~r.periodic))
      BY <1>7, <2>1 DEF Start, MayStart, StopsFirst
    <3>2. /\ q \in Fields /\ q.running /\ (q.alive <=> r.alive)
          /\ (q.initialized <=> r.initialized) /\ (q.periodic <=> r.periodic \/ p)
      BY <1>0, Started
    <3>3. m \in Modes /\ m # "off" /\ (p => m = "periodic")
      BY <1>0
    <3> HIDE DEF q, m
    <3>4. StopsFirst => (q.periodic => m = "periodic")
      BY <3>1, <3>2, <3>3, Zenon
    <3>5. Good(q, "pending", m, inCb' = t)
      BY <2>1, <3>1, <3>2, <3>3, <3>4 DEF Good, Wanted
    <3> HIDE DEF r
    <3> QED BY <1>0, <1>b, <3>1, <3>2, <3>3, <3>5, OneTimer
  <2>2. CASE ~r.initialized
    <3>1. /\ tmr' = [tmr EXCEPT ![t] = r] /\ event' = [event EXCEPT ![t] = event[t]]
          /\ mode' = [mode EXCEPT ![t] = mode[t]]
      BY <1>0, <1>7, <2>2 DEF Start
    <3>2. Good(r, event[t], mode[t], inCb' = t)
      BY <1>0, <1>b DEF Good, Wanted
    <3> HIDE DEF r
    <3> QED BY <1>0, <1>b, <3>1, <3>2, OneTimer
  <2> QED BY <2>1, <2>2
<1>8. CASE Stop(t)
  <2> DEFINE q == [r EXCEPT !.running = FALSE, !.periodic = FALSE]
  <2>1. /\ tmr' = [tmr EXCEPT ![t] = q] /\ event' = [event EXCEPT ![t] = "unset"]
        /\ mode' = [mode EXCEPT ![t] = "off"]
    BY <1>8 DEF Stop, Stopped
  <2>2. q \in Fields /\ ~q.running /\ ~q.periodic /\ (q.alive <=> r.alive) /\ r.alive
    BY <1>0, <1>8, StoppedTimer DEF Stop
  <2>3. inCb' = t => q.initialized
    BY <1>0, <1>b, <2>2 DEF Good, Fields
  <2> HIDE DEF q
  <2>4. Good(q, "unset", "off", inCb' = t)
    BY <2>2, <2>3 DEF Good, Wanted
  <2> HIDE DEF r
  <2> QED BY <1>0, <1>b, <2>1, <2>2, <2>4, OneTimer
<1>9. CASE Free(t)
  <2>1. /\ tmr' = [tmr EXCEPT ![t] = Absent] /\ event' = [event EXCEPT ![t] = "unset"]
        /\ mode' = [mode EXCEPT ![t] = "off"]
    BY <1>9 DEF Free, Stopped
  <2>2. Good(Absent, "unset", "off", inCb' = t)
    BY AbsentTimer DEF Good, Wanted
  <2> QED BY <1>0, <1>b, <2>1, <2>2, AbsentTimer, OneTimer
<1> QED BY <1>2, <1>3, <1>5, <1>6, <1>7, <1>8, <1>9 DEF Call

(* And the scheduler's.                                                    *)
LEMMA TimerStep == TimerInv /\ [Next]_vars => TimerInv'
<1> SUFFICES ASSUME TimerInv, [Next]_vars PROVE TimerInv'
  OBVIOUS
<1>1. CASE SchedulerInit    BY <1>1 DEF SchedulerInit, TimerInv, Typed
<1>2. CASE RunScheduler     BY <1>2 DEF RunScheduler, TimerInv, Typed
<1>3. CASE RunReturns       BY <1>3 DEF RunReturns, TimerInv, Typed
<1>4. CASE SchedulerDeinit  BY <1>4 DEF SchedulerDeinit, TimerInv, Typed
<1>5. CASE UNCHANGED vars   BY <1>5 DEF vars, TimerInv, Typed
<1>6. CASE \E t \in Timers : Call(t) \/ Loop(t)
  BY <1>6, CallStep, LoopStep
<1> QED BY <1>1, <1>2, <1>3, <1>4, <1>5, <1>6 DEF Next, Rest

(* TimerInv holds in every reachable state: the theorems follow from it.   *)
LEMMA TimerInvariant == Spec => []TimerInv
  BY InitTimer, TimerStep, PTL DEF Spec

-----------------------------------------------------------------------------

(* Every variable of vnf_timer.c and of the loop keeps its type, and a     *)
(* timer that was freed or has no timeout has no event in libevent.        *)
THEOREM TypeCorrect == Spec => []TypeOK
<1>1. TimerInv => TypeOK
  BY DEF TimerInv, Typed, TypeOK, Good, Events, Modes
<1> QED BY <1>1, TimerInvariant, PTL

(* vtimer_is_running tells whether libevent holds an event of the timer,   *)
(* for any number of timers and whatever their callbacks call.             *)
THEOREM RunningIsTrue == Spec => []RunningIffScheduled
<1>1. TimerInv => RunningIffScheduled
  BY DEF TimerInv, Good, RunningIffScheduled
<1> QED BY <1>1, TimerInvariant, PTL

(* If the application stops a periodic timer before it starts it in        *)
(* one-shot mode, no timer is called back that was stopped, and none that  *)
(* was started in one-shot mode twice, also when the stop comes from a     *)
(* callback after the timer has expired.                                   *)
THEOREM NotCalledWhenOff ==
  ASSUME ~RestartsOnce
  PROVE  Spec => []CalledOnlyIfOn
<1>1. TimerInv => CalledOnlyIfOn
  BY DEF TimerInv, CalledOnlyIfOn, StopsFirst
<1> QED BY <1>1, TimerInvariant, PTL
=============================================================================
