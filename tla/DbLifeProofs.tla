---------------------------- MODULE DbLifeProofs ----------------------------
(***************************************************************************)
(* Safety of the life of the asynchronous handles, for any number of       *)
(* handles, contexts, queued commands, calls and faults.                   *)
(*                                                                         *)
(* HandleOwnsContext and QueueMatchesWire speak of the moments between two *)
(* events and are not inductive: what they say must be carried through the *)
(* callback chain of a context that goes away, in which one handle and one *)
(* context are between two states.  LifeInv says that outside a chain the  *)
(* memory is Sound, and that inside one everything but that handle and     *)
(* that context is, with what holds of these two at each step of the       *)
(* chain.                                                                  *)
(***************************************************************************)
EXTENDS DbLife, FiniteSetTheorems, TLAPS

(* The application for which the properties hold: it closes its handles    *)
(* outside callbacks, calls the API outside callbacks and in those of      *)
(* replies, and does not read, or let the role change, without a context.  *)
(* The code checks none of this, and breaks without it, as the run         *)
(* "life_close_in_callback" shows of the first.  That the program does not *)
(* crash is thus assumed rather than shown, and no theorem says it.  That  *)
(* there is a handle is needed only to give the contexts a first owner.    *)
Orderly ==
  /\ Handles # {} /\ Careful
  /\ CallIn \subseteq {"loop", "reply"} /\ CloseIn \subseteq {"loop"}

(* The values of proc, and those of task inside a chain.                   *)
Memory ==
  [handle : [Handles -> HandleFields], ctx : [Ctxs -> CtxFields],
   crash : {"no", "uaf", "null", "assert"}]
Tasks ==
  [kind : {"lose", "fail", "close"}, h : Handles, ctx : Ctxs \cup {NoCtx},
   up : BOOLEAN, step : {"replies", "ctrl", "drain", "rest"}]

(* What redisAsyncCommand is given, and the commands of the queue among it.*)
Kinds == {"cmd", "read", "quit"}
CmdsIn(q) == {i \in DOMAIN q : q[i] = "cmd"}
Sent(q) == Cardinality(CmdsIn(q))

(* Handle h between two events: it is connected or connecting exactly      *)
(* while it points to a context in that state, which is its own.           *)
Settled(w, h) ==
  LET hd == w.handle[h]
      c  == hd.redis_ctx
  IN  /\ hd.mem # "live" => c = NoCtx
      /\ hd.conn_state = "connected" => c # NoCtx /\ w.ctx[c].state = "up"
      /\ hd.conn_state = "connecting" => c # NoCtx /\ w.ctx[c].state = "connecting"
      /\ hd.conn_state \in {"init", "disconnected"} => c = NoCtx
      /\ c # NoCtx => w.ctx[c].data = h

(* Context c between two events: a live handle points to it, and the       *)
(* commands on its wire are those of that handle's queue, or none.         *)
Owned(w, c) ==
  LET cx == w.ctx[c]
      hd == w.handle[cx.data]
  IN  /\ cx.state # "leaving"
      /\ cx.state # "free" => hd.mem = "live" /\ hd.redis_ctx = c
      /\ cx.state = "connecting" => Sent(cx.wire) = 0
      /\ cx.state = "up" => Sent(cx.wire) = hd.pending

(* Memory that is consistent, but for handle h and context c.              *)
SoundBut(w, h, c) ==
  /\ w \in Memory /\ w.crash = "no"
  /\ \A k \in Handles : k # h => Settled(w, k)
  /\ \A d \in Ctxs : d # c => Owned(w, d)

(* Memory that is consistent.                                              *)
Sound(w) ==
  /\ w \in Memory /\ w.crash = "no"
  /\ \A h \in Handles : Settled(w, h)
  /\ \A c \in Ctxs : Owned(w, c)

(* The handle of a chain still points to the context that goes away ...    *)
Held(w, h, c) ==
  /\ c \in Ctxs /\ w.handle[h].mem = "live" /\ w.handle[h].redis_ctx = c
  /\ w.ctx[c].state = "leaving" /\ w.ctx[c].data = h

(* ... or has let go of it, and it is free ...                             *)
Left(w, h, c) ==
  /\ w.handle[h].mem = "live" /\ w.handle[h].redis_ctx = NoCtx
  /\ c # NoCtx => w.ctx[c].state = "free"

(* ... or already dials on another one.                                    *)
Replaced(w, h, c) ==
  /\ c \in Ctxs /\ w.ctx[c].state = "leaving" /\ w.ctx[c].data = h
  /\ w.handle[h].mem = "live" /\ w.handle[h].conn_state = "connecting"
  /\ Settled(w, h)

(* Which of these holds at each step of chain t.                           *)
InChain(w, t) ==
  /\ t \in Tasks /\ SoundBut(w, t.h, t.ctx) /\ (t.kind = "lose" => t.up)
  /\ \/ t.kind \in {"lose", "close"} /\ t.step \in {"replies", "ctrl"} /\ Held(w, t.h, t.ctx)
     \/ t.kind = "fail" /\ t.step = "ctrl" /\ Held(w, t.h, t.ctx)
     \/ /\ t.kind \in {"lose", "close"} /\ t.step = "drain" /\ Held(w, t.h, t.ctx)
        /\ w.handle[t.h].conn_state = "disconnected"
     \/ t.kind = "close" /\ t.step = "rest" /\ Left(w, t.h, t.ctx)
     \/ t.kind = "fail" /\ t.step = "replies" /\ Replaced(w, t.h, t.ctx)

(* The inductive invariant.                                                *)
LifeInv ==
  /\ local_is_master \in BOOLEAN /\ remote_server_ip \in Remotes
  /\ calls \in 0..MaxCalls /\ faults \in 0..MaxFaults
  /\ (task = Idle /\ Sound(proc)) \/ InChain(proc, task)
-----------------------------------------------------------------------------
(* How many commands a wire owes a reply: none when it is empty.           *)
LEMMA WireEmpty == CmdsIn(<< >>) = {} /\ Sent(<< >>) = 0
  BY FS_EmptySet DEF CmdsIn, Sent

(* It is a number, the positions of a wire being finitely many.            *)
LEMMA WireFinite ==
  ASSUME NEW q \in Seq(Kinds)
  PROVE  IsFiniteSet(CmdsIn(q)) /\ Sent(q) \in Nat
<1>1. CmdsIn(q) \in SUBSET (1..Len(q))
  BY DEF CmdsIn
<1>2. IsFiniteSet(1..Len(q))
  BY FS_Interval
<1>3. IsFiniteSet(CmdsIn(q))
  BY <1>1, <1>2, FS_Subset
<1> QED
  BY <1>3, FS_CardinalityType DEF Sent

(* redisAsyncCommand adds one if it sends a command of the queue.          *)
LEMMA WireAppend ==
  ASSUME NEW q \in Seq(Kinds), NEW x \in Kinds
  PROVE  /\ Append(q, x) \in Seq(Kinds)
         /\ Sent(Append(q, x)) = IF x = "cmd" THEN Sent(q) + 1 ELSE Sent(q)
<1>1. /\ Append(q, x) \in Seq(Kinds) /\ Len(Append(q, x)) = Len(q) + 1
      /\ \A i \in 1..(Len(q) + 1) : Append(q, x)[i] = IF i <= Len(q) THEN q[i] ELSE x
  OBVIOUS
<1>2. CASE x = "cmd"
  <2>1. CmdsIn(Append(q, x)) = CmdsIn(q) \cup {Len(q) + 1}
    BY <1>1, <1>2 DEF CmdsIn
  <2>2. Len(q) + 1 \notin CmdsIn(q)
    BY DEF CmdsIn
  <2> QED
    BY <1>1, <1>2, <2>1, <2>2, WireFinite, FS_AddElement DEF Sent
<1>3. CASE x # "cmd"
  <2>1. CmdsIn(Append(q, x)) = CmdsIn(q)
    BY <1>1, <1>3 DEF CmdsIn
  <2> QED
    BY <1>1, <1>3, <2>1 DEF Sent
<1> QED
  BY <1>2, <1>3

(* A reply takes one off if the head of the wire was such a command.       *)
LEMMA WireTail ==
  ASSUME NEW q \in Seq(Kinds), q # << >>
  PROVE  /\ Tail(q) \in Seq(Kinds) /\ Head(q) \in Kinds
         /\ Sent(Tail(q)) = IF Head(q) = "cmd" THEN Sent(q) - 1 ELSE Sent(q)
<1>1. /\ Tail(q) \in Seq(Kinds) /\ Len(q) >= 1 /\ Len(Tail(q)) = Len(q) - 1
      /\ Head(q) = q[1] /\ Head(q) \in Kinds
      /\ \A i \in 1..(Len(q) - 1) : Tail(q)[i] = q[i + 1]
  BY SMT
<1> DEFINE T == CmdsIn(Tail(q))
           R == CmdsIn(q) \ {1}
           f == [i \in T |-> i + 1]
<1>2. \A i \in T : i \in 1..(Len(q) - 1) /\ q[i + 1] = "cmd"
  BY <1>1 DEF CmdsIn
<1>3. \A j \in R : j \in 2..Len(q) /\ q[j] = "cmd"
  BY <1>1 DEF CmdsIn
<1>4. f \in [T -> R]
  <2>1. \A i \in T : i + 1 \in R
    BY <1>1, <1>2 DEF CmdsIn
  <2> QED
    BY <2>1
<1>5. \A i, j \in T : f[i] = f[j] => i = j
  BY <1>2
<1>6. \A j \in R : \E i \in T : f[i] = j
  <2> TAKE j \in R
  <2>1. j - 1 \in T
    BY <1>1, <1>3 DEF CmdsIn
  <2> QED
    BY <1>3, <2>1
<1>7. ExistsBijection(T, R)
  BY <1>4, <1>5, <1>6 DEF ExistsBijection, Bijection, Injection, Surjection, IsInjective
<1>8. IsFiniteSet(T) /\ IsFiniteSet(CmdsIn(q))
  BY <1>1, WireFinite
<1>9. Cardinality(R) = Cardinality(T)
  BY <1>7, <1>8, FS_Bijection
<1>10. Cardinality(R) = IF 1 \in CmdsIn(q) THEN Sent(q) - 1 ELSE Sent(q)
  BY <1>8, FS_RemoveElement DEF Sent
<1>11. 1 \in CmdsIn(q) <=> Head(q) = "cmd"
  BY <1>1 DEF CmdsIn
<1> QED
  BY <1>1, <1>9, <1>10, <1>11 DEF Sent

(* Sending the whole queue on a wire without commands leaves as many as    *)
(* the queue holds.                                                        *)
LEMMA WireFlush ==
  ASSUME NEW q \in Seq(Kinds), NEW n \in Nat, Sent(q) = 0
  PROVE  /\ q \o [i \in 1..n |-> "cmd"] \in Seq(Kinds)
         /\ Sent(q \o [i \in 1..n |-> "cmd"]) = n
<1> DEFINE r == [i \in 1..n |-> "cmd"]
<1>1. r \in Seq(Kinds) /\ Len(r) = n /\ \A i \in 1..n : r[i] = "cmd"
  BY DEF Kinds
<1> HIDE DEF r
<1>2. /\ q \o r \in Seq(Kinds) /\ Len(q \o r) = Len(q) + n
      /\ \A i \in 1..(Len(q) + n) : (q \o r)[i] = IF i <= Len(q) THEN q[i] ELSE r[i - Len(q)]
  BY <1>1, SMT
<1>3. CmdsIn(q) = {}
  BY WireFinite, FS_EmptySet DEF Sent
<1>4. CmdsIn(q \o r) = (Len(q) + 1)..(Len(q) + n)
  <2>1. \A i \in 1..Len(q) : q[i] # "cmd"
    BY <1>3 DEF CmdsIn
  <2>2. \A i \in (Len(q) + 1)..(Len(q) + n) : r[i - Len(q)] = "cmd"
    BY <1>1
  <2> QED
    BY <1>2, <2>1, <2>2 DEF CmdsIn
<1>5. Cardinality((Len(q) + 1)..(Len(q) + n)) = n
  BY FS_Interval
<1> QED
  BY <1>2, <1>4, <1>5 DEF Sent, r
-----------------------------------------------------------------------------
(* The two elementary writes to memory, to which the operations reduce.    *)
PutHandle(w, h, r) == [w EXCEPT !.handle[h] = r]
PutCtx(w, c, x)    == [w EXCEPT !.ctx[c] = x]

(* Writing one handle leaves the others, and the contexts, alone.          *)
LEMMA HandleChanged ==
  ASSUME NEW w \in Memory, NEW h \in Handles, NEW r \in HandleFields
  PROVE  /\ PutHandle(w, h, r) \in Memory
         /\ PutHandle(w, h, r).crash = w.crash /\ PutHandle(w, h, r).ctx = w.ctx
         /\ PutHandle(w, h, r).handle[h] = r
         /\ \A k \in Handles : k # h => PutHandle(w, h, r).handle[k] = w.handle[k]
  BY DEF Memory, PutHandle

(* Writing one context leaves the others, and the handles, alone.          *)
LEMMA CtxChanged ==
  ASSUME NEW w \in Memory, NEW c \in Ctxs, NEW x \in CtxFields
  PROVE  /\ PutCtx(w, c, x) \in Memory
         /\ PutCtx(w, c, x).crash = w.crash /\ PutCtx(w, c, x).handle = w.handle
         /\ PutCtx(w, c, x).ctx[c] = x
         /\ \A d \in Ctxs : d # c => PutCtx(w, c, x).ctx[d] = w.ctx[d]
  BY DEF Memory, PutCtx

(* The types of the fields of handles and contexts.                        *)
LEMMA MemoryFields ==
  ASSUME NEW w \in Memory
  PROVE  /\ \A h \in Handles :
              /\ w.handle[h] \in HandleFields
              /\ w.handle[h].mem \in {"none", "live", "freed"}
              /\ w.handle[h].conn_state \in {"init", "connecting", "connected", "disconnected"}
              /\ w.handle[h].redis_ctx \in Ctxs \cup {NoCtx}
              /\ w.handle[h].pending \in 0..MaxPending
         /\ \A c \in Ctxs :
              /\ w.ctx[c] \in CtxFields
              /\ w.ctx[c].state \in {"free", "connecting", "up", "leaving"}
              /\ w.ctx[c].data \in Handles
              /\ w.ctx[c].wire \in Seq(Kinds)
         /\ NoCtx \notin Ctxs /\ MaxPending \in Nat /\ MaxCalls \in Nat /\ MaxFaults \in Nat
         /\ MaxCtx \in Nat
  BY BoundsAssumption DEF Memory, HandleFields, CtxFields, Kinds, Ctxs, NoCtx

(* Queueing a command changes the length of that queue only.               *)
LEMMA QueuedFacts ==
  ASSUME NEW w \in Memory, NEW h \in Handles, w.handle[h].pending < MaxPending
  PROVE  /\ Queued(w, h) \in Memory /\ Queued(w, h).crash = w.crash
         /\ Queued(w, h).ctx = w.ctx
         /\ Queued(w, h).handle[h].pending =
              w.handle[h].pending + 1
         /\ Queued(w, h).handle[h].mem = w.handle[h].mem
         /\ Queued(w, h).handle[h].conn_state = w.handle[h].conn_state
         /\ Queued(w, h).handle[h].redis_ctx = w.handle[h].redis_ctx
         /\ \A k \in Handles : k # h => Queued(w, h).handle[k] = w.handle[k]
<1> DEFINE n == w.handle[h].pending + 1
           r == [w.handle[h] EXCEPT !.pending = n]
<1>1. n \in 0..MaxPending /\ w.handle[h] \in HandleFields
  BY MemoryFields
<1>2. Queued(w, h) = PutHandle(w, h, r)
  BY DEF Queued, Memory, PutHandle
<1> HIDE DEF n
<1>3. /\ r \in HandleFields /\ r.pending = n /\ r.mem = w.handle[h].mem
      /\ r.conn_state = w.handle[h].conn_state /\ r.redis_ctx = w.handle[h].redis_ctx
  BY <1>1 DEF HandleFields
<1> HIDE DEF r
<1>4. /\ Queued(w, h) \in Memory /\ Queued(w, h).crash = w.crash /\ Queued(w, h).ctx = w.ctx
      /\ Queued(w, h).handle[h] = r
      /\ \A k \in Handles : k # h => Queued(w, h).handle[k] = w.handle[k]
  BY <1>2, <1>3, HandleChanged
<1> QED
  BY <1>3, <1>4 DEF n

(* So does taking one off, and an empty queue stays empty.                 *)
LEMMA DequeuedFacts ==
  ASSUME NEW w \in Memory, NEW h \in Handles
  PROVE  /\ Dequeued(w, h) \in Memory /\ Dequeued(w, h).crash = w.crash
         /\ Dequeued(w, h).ctx = w.ctx
         /\ Dequeued(w, h).handle[h].pending =
              IF w.handle[h].pending = 0 THEN 0 ELSE w.handle[h].pending - 1
         /\ Dequeued(w, h).handle[h].mem = w.handle[h].mem
         /\ Dequeued(w, h).handle[h].conn_state = w.handle[h].conn_state
         /\ Dequeued(w, h).handle[h].redis_ctx = w.handle[h].redis_ctx
         /\ \A k \in Handles : k # h => Dequeued(w, h).handle[k] = w.handle[k]
<1> DEFINE n == IF w.handle[h].pending = 0 THEN 0 ELSE w.handle[h].pending - 1
           r == [w.handle[h] EXCEPT !.pending = n]
<1>1. n \in 0..MaxPending /\ w.handle[h] \in HandleFields
  BY MemoryFields
<1>2. Dequeued(w, h) = PutHandle(w, h, r)
  BY DEF Dequeued, Memory, PutHandle
<1> HIDE DEF n
<1>3. /\ r \in HandleFields /\ r.pending = n /\ r.mem = w.handle[h].mem
      /\ r.conn_state = w.handle[h].conn_state /\ r.redis_ctx = w.handle[h].redis_ctx
  BY <1>1 DEF HandleFields
<1> HIDE DEF r
<1>4. /\ Dequeued(w, h) \in Memory /\ Dequeued(w, h).crash = w.crash /\ Dequeued(w, h).ctx = w.ctx
      /\ Dequeued(w, h).handle[h] = r
      /\ \A k \in Handles : k # h => Dequeued(w, h).handle[k] = w.handle[k]
  BY <1>2, <1>3, HandleChanged
<1> QED
  BY <1>3, <1>4 DEF n

(* Sending changes the wire of one context only.                           *)
LEMMA OnWireFacts ==
  ASSUME NEW w \in Memory, NEW c \in Ctxs, NEW x \in Kinds
  PROVE  /\ OnWire(w, c, x) \in Memory /\ OnWire(w, c, x).crash = w.crash
         /\ OnWire(w, c, x).handle = w.handle
         /\ OnWire(w, c, x).ctx[c].wire = Append(w.ctx[c].wire, x)
         /\ OnWire(w, c, x).ctx[c].state = w.ctx[c].state
         /\ OnWire(w, c, x).ctx[c].data = w.ctx[c].data
         /\ \A d \in Ctxs : d # c => OnWire(w, c, x).ctx[d] = w.ctx[d]
<1> DEFINE q == Append(w.ctx[c].wire, x)
           r == [w.ctx[c] EXCEPT !.wire = q]
<1>1. q \in Seq(Kinds) /\ w.ctx[c] \in CtxFields
  BY MemoryFields, WireAppend
<1>2. OnWire(w, c, x) = PutCtx(w, c, r)
  BY DEF OnWire, Memory, PutCtx
<1> HIDE DEF q
<1>3. r \in CtxFields /\ r.wire = q /\ r.state = w.ctx[c].state /\ r.data = w.ctx[c].data
  BY <1>1 DEF CtxFields, Kinds
<1> HIDE DEF r
<1>4. /\ PutCtx(w, c, r) \in Memory
      /\ PutCtx(w, c, r).crash = w.crash /\ PutCtx(w, c, r).handle = w.handle
      /\ PutCtx(w, c, r).ctx[c] = r
      /\ \A d \in Ctxs : d # c => PutCtx(w, c, r).ctx[d] = w.ctx[d]
  BY <1>3, CtxChanged
<1> QED
  BY <1>2, <1>3, <1>4 DEF q

(* A reply takes the head off the wire of one context.                     *)
LEMMA UnwiredFacts ==
  ASSUME NEW w \in Memory, NEW c \in Ctxs, w.ctx[c].wire # << >>
  PROVE  /\ Unwired(w, c) \in Memory /\ Unwired(w, c).crash = w.crash
         /\ Unwired(w, c).handle = w.handle
         /\ Unwired(w, c).ctx[c].wire = Tail(w.ctx[c].wire)
         /\ Unwired(w, c).ctx[c].state = w.ctx[c].state
         /\ Unwired(w, c).ctx[c].data = w.ctx[c].data
         /\ \A d \in Ctxs : d # c => Unwired(w, c).ctx[d] = w.ctx[d]
<1> DEFINE q == Tail(w.ctx[c].wire)
           r == [w.ctx[c] EXCEPT !.wire = q]
<1>1. q \in Seq(Kinds) /\ w.ctx[c] \in CtxFields
  BY MemoryFields, WireTail
<1>2. Unwired(w, c) = PutCtx(w, c, r)
  BY DEF Unwired, Memory, PutCtx
<1> HIDE DEF q
<1>3. r \in CtxFields /\ r.wire = q /\ r.state = w.ctx[c].state /\ r.data = w.ctx[c].data
  BY <1>1 DEF CtxFields, Kinds
<1> HIDE DEF r
<1>4. /\ PutCtx(w, c, r) \in Memory
      /\ PutCtx(w, c, r).crash = w.crash /\ PutCtx(w, c, r).handle = w.handle
      /\ PutCtx(w, c, r).ctx[c] = r
      /\ \A d \in Ctxs : d # c => PutCtx(w, c, r).ctx[d] = w.ctx[d]
  BY <1>3, CtxChanged
<1> QED
  BY <1>2, <1>3, <1>4 DEF q

(* Dialling gives the handle a context that was free.                      *)
LEMMA DialFacts ==
  ASSUME NEW w \in Memory, NEW h \in Handles, Room(w)
  PROVE  \E c \in Ctxs :
           /\ w.ctx[c].state = "free"
           /\ Dial(w, h) \in Memory /\ Dial(w, h).crash = w.crash
           /\ Dial(w, h).ctx[c].state = "connecting"
           /\ Dial(w, h).ctx[c].data = h
           /\ Dial(w, h).ctx[c].wire = << >>
           /\ \A d \in Ctxs : d # c => Dial(w, h).ctx[d] = w.ctx[d]
           /\ Dial(w, h).handle[h].redis_ctx = c
           /\ Dial(w, h).handle[h].conn_state = "connecting"
           /\ Dial(w, h).handle[h].mem = w.handle[h].mem
           /\ Dial(w, h).handle[h].pending = w.handle[h].pending
           /\ \A k \in Handles : k # h => Dial(w, h).handle[k] = w.handle[k]
<1> DEFINE c == CHOOSE x \in Ctxs : w.ctx[x].state = "free"
           r == [w.handle[h] EXCEPT !.redis_ctx = c, !.conn_state = "connecting"]
           x == CtxOf(h, "connecting")
           u == PutCtx(w, c, x)
<1>1. c \in Ctxs /\ w.ctx[c].state = "free"
  BY DEF Room
<1>2. Dial(w, h) = PutHandle(u, h, r)
  BY <1>1 DEF Dial, Memory, PutHandle, PutCtx
<1> HIDE DEF c
<1>3. x \in CtxFields /\ x.state = "connecting" /\ x.data = h /\ x.wire = << >>
  BY DEF CtxOf, CtxFields
<1> HIDE DEF x
<1>4. /\ u \in Memory /\ u.crash = w.crash /\ u.handle = w.handle
      /\ u.ctx[c] = x
      /\ \A d \in Ctxs : d # c => u.ctx[d] = w.ctx[d]
  BY <1>1, <1>3, CtxChanged
<1> HIDE DEF u
<1>5. /\ r \in HandleFields /\ r.redis_ctx = c /\ r.conn_state = "connecting"
      /\ r.mem = w.handle[h].mem /\ r.pending = w.handle[h].pending
  <2>1. w.handle[h] \in HandleFields
    BY MemoryFields
  <2> QED
    BY <1>1, <2>1 DEF HandleFields
<1> HIDE DEF r
<1>7. /\ Dial(w, h) \in Memory /\ Dial(w, h).crash = u.crash /\ Dial(w, h).ctx = u.ctx
      /\ Dial(w, h).handle[h] = r
      /\ \A k \in Handles : k # h => Dial(w, h).handle[k] = u.handle[k]
  BY <1>2, <1>4, <1>5, HandleChanged
<1> QED
  BY <1>1, <1>3, <1>4, <1>5, <1>7
-----------------------------------------------------------------------------
(* What two memories have in common when no handle or context changed      *)
(* hands: then a handle that was settled still is.                         *)
SameShape(v, w, h) ==
  /\ v.handle[h].mem = w.handle[h].mem
  /\ v.handle[h].conn_state = w.handle[h].conn_state
  /\ v.handle[h].redis_ctx = w.handle[h].redis_ctx
  /\ w.handle[h].redis_ctx # NoCtx =>
       /\ v.ctx[w.handle[h].redis_ctx].state = w.ctx[w.handle[h].redis_ctx].state
       /\ v.ctx[w.handle[h].redis_ctx].data = w.ctx[w.handle[h].redis_ctx].data

(* Settled looks at nothing else.                                          *)
LEMMA ShapeSettled ==
  ASSUME NEW w, NEW v, NEW h \in Handles, SameShape(v, w, h), Settled(w, h)
  PROVE  Settled(v, h)
  BY DEF SameShape, Settled

(* A context whose own fields and owner are unchanged is owned as before.  *)
LEMMA SameOwned ==
  ASSUME NEW w \in Memory, NEW v, NEW d \in Ctxs, Owned(w, d), v.ctx[d] = w.ctx[d],
         w.ctx[d].state # "free" =>
           v.handle[w.ctx[d].data] = w.handle[w.ctx[d].data]
  PROVE  Owned(v, d)
  BY DEF Owned

(* The owner of a context in use has no other.                             *)
LEMMA OneOwner ==
  ASSUME NEW w \in Memory, NEW d \in Ctxs, Owned(w, d), w.ctx[d].state # "free"
  PROVE  /\ w.ctx[d].data \in Handles /\ w.handle[w.ctx[d].data].mem = "live"
         /\ w.handle[w.ctx[d].data].redis_ctx = d
  BY MemoryFields DEF Owned

(* A command that is only queued, because the handle is not connected,     *)
(* leaves the memory consistent.                                           *)
LEMMA QueueSound ==
  ASSUME NEW w, Sound(w), NEW h \in Handles, w.handle[h].mem = "live",
         w.handle[h].pending < MaxPending, w.handle[h].conn_state # "connected"
  PROVE  Sound(Queued(w, h))
<1> DEFINE v == Queued(w, h)
<1>1. /\ w \in Memory /\ w.crash = "no" /\ \A k \in Handles : Settled(w, k)
      /\ \A c \in Ctxs : Owned(w, c)
  BY DEF Sound
<1>2. /\ v \in Memory /\ v.crash = w.crash /\ v.ctx = w.ctx
      /\ v.handle[h].mem = w.handle[h].mem
      /\ v.handle[h].conn_state = w.handle[h].conn_state
      /\ v.handle[h].redis_ctx = w.handle[h].redis_ctx
      /\ \A k \in Handles : k # h => v.handle[k] = w.handle[k]
  BY <1>1, QueuedFacts
<1> HIDE DEF v
<1>3. ASSUME NEW k \in Handles PROVE Settled(v, k)
  <2>1. SameShape(v, w, k)
    BY <1>2 DEF SameShape
  <2> QED
    BY <1>1, <2>1, ShapeSettled
<1>4. ASSUME NEW d \in Ctxs PROVE Owned(v, d)
  <2>1. CASE w.ctx[d].data # h \/ w.ctx[d].state = "free"
    <3>1. w.ctx[d].data \in Handles
      BY <1>1, MemoryFields
    <3> QED
      BY <1>1, <1>2, <2>1, <3>1, SameOwned
  <2>2. CASE w.ctx[d].data = h /\ w.ctx[d].state # "free"
    <3>1. w.handle[h].redis_ctx = d /\ d # NoCtx
      BY <1>1, <2>2, OneOwner, MemoryFields
    <3>2. w.ctx[d].state # "up"
      BY <1>1, <3>1, MemoryFields DEF Settled
    <3> QED
      BY <1>1, <1>2, <2>2, <3>1, <3>2 DEF Owned
  <2> QED
    BY <2>1, <2>2
<1> QED
  BY <1>1, <1>2, <1>3, <1>4 DEF Sound, v

(* A command that is queued and sent at once does, too.                    *)
LEMMA SendSound ==
  ASSUME NEW w, Sound(w), NEW h \in Handles, w.handle[h].mem = "live",
         w.handle[h].pending < MaxPending, w.handle[h].conn_state = "connected"
  PROVE  /\ Sound(OnWire(Queued(w, h), w.handle[h].redis_ctx, "cmd"))
         /\ OnWire(Queued(w, h), w.handle[h].redis_ctx, "cmd").handle[h].mem = "live"
<1> DEFINE u == Queued(w, h)
           c == w.handle[h].redis_ctx
           v == OnWire(u, c, "cmd")
<1>1. /\ w \in Memory /\ w.crash = "no" /\ \A k \in Handles : Settled(w, k)
      /\ \A d \in Ctxs : Owned(w, d)
  BY DEF Sound
<1>2. /\ u \in Memory /\ u.crash = w.crash /\ u.ctx = w.ctx
      /\ u.handle[h].pending = w.handle[h].pending + 1
      /\ u.handle[h].mem = w.handle[h].mem
      /\ u.handle[h].conn_state = w.handle[h].conn_state
      /\ u.handle[h].redis_ctx = c
      /\ \A k \in Handles : k # h => u.handle[k] = w.handle[k]
  BY <1>1, QueuedFacts
<1> HIDE DEF u
<1>3. c \in Ctxs /\ w.ctx[c].state = "up" /\ w.ctx[c].data = h
  BY <1>1, MemoryFields DEF Settled
<1>4. /\ v \in Memory /\ v.crash = u.crash /\ v.handle = u.handle
      /\ v.ctx[c].wire = Append(w.ctx[c].wire, "cmd")
      /\ v.ctx[c].state = w.ctx[c].state
      /\ v.ctx[c].data = w.ctx[c].data
      /\ \A d \in Ctxs : d # c => v.ctx[d] = w.ctx[d]
  <2> HIDE DEF c
  <2>1. "cmd" \in Kinds
    BY DEF Kinds
  <2>2. /\ v \in Memory /\ v.crash = u.crash /\ v.handle = u.handle
        /\ v.ctx[c].wire = Append(u.ctx[c].wire, "cmd")
        /\ v.ctx[c].state = u.ctx[c].state
        /\ v.ctx[c].data = u.ctx[c].data
        /\ \A d \in Ctxs : d # c => v.ctx[d] = u.ctx[d]
    BY <1>2, <1>3, <2>1, OnWireFacts
  <2> QED
    BY <1>2, <2>2
<1> HIDE DEF v
<1>5. ASSUME NEW k \in Handles PROVE Settled(v, k)
  <2>0. w.handle[k].redis_ctx \in Ctxs \cup {NoCtx}
    BY <1>1, MemoryFields
  <2>1. SameShape(v, w, k)
    BY <1>2, <1>4, <2>0 DEF SameShape
  <2> QED
    BY <1>1, <2>1, ShapeSettled
<1>6. ASSUME NEW d \in Ctxs, d # c PROVE Owned(v, d)
  <2>1. w.ctx[d].state # "free" => w.ctx[d].data \in Handles /\ w.ctx[d].data # h
    BY <1>1, <1>6, OneOwner
  <2> QED
    BY <1>1, <1>2, <1>4, <1>6, <2>1, SameOwned
<1>7. Owned(v, c)
  <2>1. Sent(Append(w.ctx[c].wire, "cmd")) = Sent(w.ctx[c].wire) + 1
    BY <1>1, <1>3, WireAppend, MemoryFields DEF Kinds
  <2>2. Sent(w.ctx[c].wire) = w.handle[h].pending
    BY <1>1, <1>3 DEF Owned
  <2> QED
    BY <1>2, <1>3, <1>4, <2>1, <2>2 DEF Owned
<1>8. Sound(v) /\ v.handle[h].mem = "live"
  BY <1>1, <1>2, <1>4, <1>5, <1>6, <1>7 DEF Sound
<1> QED
  BY <1>8 DEF v, u

(* A handle without a context that dials becomes consistent.               *)
LEMMA DialSound ==
  ASSUME NEW w \in Memory, NEW h \in Handles, w.crash = "no", Room(w),
         w.handle[h].mem = "live", w.handle[h].redis_ctx = NoCtx,
         \A k \in Handles : k # h => Settled(w, k),
         \A d \in Ctxs : Owned(w, d)
  PROVE  Sound(Dial(w, h)) /\ Dial(w, h).handle[h].mem = "live"
<1> DEFINE v == Dial(w, h)
<1>1. PICK c \in Ctxs :
           /\ w.ctx[c].state = "free"
           /\ v \in Memory /\ v.crash = w.crash
           /\ v.ctx[c].state = "connecting"
           /\ v.ctx[c].data = h
           /\ v.ctx[c].wire = << >>
           /\ \A d \in Ctxs : d # c => v.ctx[d] = w.ctx[d]
           /\ v.handle[h].redis_ctx = c
           /\ v.handle[h].conn_state = "connecting"
           /\ v.handle[h].mem = w.handle[h].mem
           /\ v.handle[h].pending = w.handle[h].pending
           /\ \A k \in Handles : k # h => v.handle[k] = w.handle[k]
  BY DialFacts
<1> HIDE DEF v
<1>2. ASSUME NEW k \in Handles, k # h PROVE Settled(v, k)
  <2>1. w.handle[k].redis_ctx # c
    BY <1>1, <1>2, MemoryFields DEF Settled
  <2>2. w.handle[k].redis_ctx \in Ctxs \cup {NoCtx}
    BY MemoryFields
  <2>3. SameShape(v, w, k)
    BY <1>1, <1>2, <2>1, <2>2 DEF SameShape
  <2> QED
    BY <1>2, <2>3, ShapeSettled
<1>3. Settled(v, h)
  BY <1>1, MemoryFields DEF Settled
<1>4. ASSUME NEW d \in Ctxs, d # c PROVE Owned(v, d)
  <2>1. w.ctx[d].state # "free" => w.ctx[d].data \in Handles /\ w.ctx[d].data # h
    BY OneOwner, MemoryFields
  <2> QED
    BY <1>1, <1>4, <2>1, SameOwned
<1>5. Owned(v, c)
  BY <1>1, WireEmpty DEF Owned
<1> QED
  BY <1>1, <1>2, <1>3, <1>4, <1>5 DEF Sound, v
(* Every call of the queued API on a live handle keeps memory consistent.  *)
LEMMA CallSound ==
  ASSUME NEW w, Sound(w), NEW h \in Handles, w.handle[h].mem = "live",
         w.handle[h].pending < MaxPending, Room(w)
  PROVE  Sound(CallApi(w, h)) /\ CallApi(w, h).handle[h].mem = "live"
<1>1. /\ w \in Memory /\ w.crash = "no" /\ \A k \in Handles : Settled(w, k)
      /\ \A d \in Ctxs : Owned(w, d)
  BY DEF Sound
<1>2. w.handle[h].conn_state \in {"init", "connecting", "connected", "disconnected"}
  BY <1>1, MemoryFields
<1>3. CASE w.handle[h].conn_state = "connected"
  <2>1. Sendable(w, h)
    BY <1>1, <1>3 DEF Sendable, TakesCommands, Settled
  <2> QED
    BY <1>3, <2>1, SendSound DEF CallApi
<1>4. CASE w.handle[h].conn_state # "connected"
  <2> DEFINE u == Queued(w, h)
  <2>1. CallApi(w, h) = HandleError(u, h)
    BY <1>4 DEF CallApi, Sendable
  <2>2. Sound(u)
    BY <1>4, QueueSound
  <2>3. /\ u.handle[h].mem = "live" /\ u.ctx = w.ctx
        /\ u.handle[h].conn_state = w.handle[h].conn_state
    BY <1>1, QueuedFacts
  <2> HIDE DEF u
  <2>4. CASE u.handle[h].conn_state \in {"init", "connecting"}
    <3>1. HandleError(u, h) = u
      BY <2>4 DEF HandleError
    <3> QED
      BY <2>1, <2>2, <2>3, <3>1
  <2>5. CASE u.handle[h].conn_state = "disconnected"
    <3>1. HandleError(u, h) = Dial(u, h)
      BY <2>5 DEF HandleError
    <3>2. u.handle[h].redis_ctx = NoCtx
      BY <2>2, <2>5 DEF Sound, Settled
    <3>3. Room(u)
      BY <2>3 DEF Room
    <3>4. u \in Memory /\ u.crash = "no" /\ (\A k \in Handles : Settled(u, k))
      BY <2>2 DEF Sound
    <3>5. \A d \in Ctxs : Owned(u, d)
      BY <2>2 DEF Sound
    <3>6. Sound(Dial(u, h)) /\ Dial(u, h).handle[h].mem = "live"
      BY <2>3, <3>2, <3>3, <3>4, <3>5, DialSound
    <3> QED
      BY <2>1, <3>1, <3>6
  <2> QED
    BY <1>2, <1>4, <2>3, <2>4, <2>5
<1> QED
  BY <1>3, <1>4

(* A direct read on the wire is not taken for a command of the queue.      *)
LEMMA SideSound ==
  ASSUME NEW w, Sound(w), NEW c \in Ctxs
  PROVE  Sound(OnWire(w, c, "read")) /\ OnWire(w, c, "read").handle = w.handle
<1> DEFINE v == OnWire(w, c, "read")
<1>1. /\ w \in Memory /\ w.crash = "no" /\ \A k \in Handles : Settled(w, k)
      /\ \A d \in Ctxs : Owned(w, d)
  BY DEF Sound
<1>2. "read" \in Kinds
  BY DEF Kinds
<1>3. /\ v \in Memory /\ v.crash = w.crash /\ v.handle = w.handle
      /\ v.ctx[c].wire = Append(w.ctx[c].wire, "read")
      /\ v.ctx[c].state = w.ctx[c].state
      /\ v.ctx[c].data = w.ctx[c].data
      /\ \A d \in Ctxs : d # c => v.ctx[d] = w.ctx[d]
  BY <1>1, <1>2, OnWireFacts
<1> HIDE DEF v
<1>4. ASSUME NEW k \in Handles PROVE Settled(v, k)
  <2>1. w.handle[k].redis_ctx \in Ctxs \cup {NoCtx}
    BY <1>1, MemoryFields
  <2>2. SameShape(v, w, k)
    BY <1>3, <2>1 DEF SameShape
  <2> QED
    BY <1>1, <2>2, ShapeSettled
<1>5. ASSUME NEW d \in Ctxs, d # c PROVE Owned(v, d)
  BY <1>1, <1>3, <1>5, SameOwned
<1>6. Owned(v, c)
  <2>1. Sent(Append(w.ctx[c].wire, "read")) = Sent(w.ctx[c].wire)
    BY <1>1, <1>2, WireAppend, MemoryFields
  <2> QED
    BY <1>1, <1>3, <2>1 DEF Owned
<1>7. Sound(v) /\ v.handle = w.handle
  BY <1>1, <1>3, <1>4, <1>5, <1>6 DEF Sound
<1> QED
  BY <1>7 DEF v

(* db_read_single_row and its like, on a handle that has a context.        *)
LEMMA ReadSound ==
  ASSUME NEW w, Sound(w), NEW h \in Handles, w.handle[h].redis_ctx # NoCtx
  PROVE  Sound(ReadApi(w, h)) /\ ReadApi(w, h).handle = w.handle
<1> DEFINE c == w.handle[h].redis_ctx
<1>1. c \in Ctxs
  BY MemoryFields DEF Sound
<1>2. CASE TakesCommands(w, c)
  <2>1. ReadApi(w, h) = OnWire(w, c, "read")
    BY <1>2 DEF ReadApi
  <2> HIDE DEF c
  <2> QED
    BY <1>1, <2>1, SideSound
<1>3. CASE ~TakesCommands(w, c)
  BY <1>3 DEF ReadApi
<1> QED
  BY <1>2, <1>3

(* A reply takes the head off the wire, and off the queue if it was a      *)
(* command of the queue.                                                   *)
LEMMA AnswerSound ==
  ASSUME NEW w, Sound(w), NEW c \in Ctxs, w.ctx[c].state = "up",
         w.ctx[c].wire # << >>
  PROVE  /\ Sound(Answered(w, c)) /\ w.ctx[c].data \in Handles
         /\ Answered(w, c).handle[w.ctx[c].data].mem = "live"
         /\ Answered(w, c).handle[w.ctx[c].data].redis_ctx = c
<1> DEFINE h == w.ctx[c].data
           u == Unwired(w, c)
           v == Answered(w, c)
<1>1. /\ w \in Memory /\ w.crash = "no" /\ \A k \in Handles : Settled(w, k)
      /\ \A d \in Ctxs : Owned(w, d)
  BY DEF Sound
<1>2. h \in Handles /\ w.handle[h].mem = "live" /\ w.handle[h].redis_ctx = c
  BY <1>1, OneOwner
<1>3. /\ u \in Memory /\ u.crash = w.crash /\ u.handle = w.handle
      /\ u.ctx[c].wire = Tail(w.ctx[c].wire)
      /\ u.ctx[c].state = w.ctx[c].state
      /\ u.ctx[c].data = h
      /\ \A d \in Ctxs : d # c => u.ctx[d] = w.ctx[d]
  BY <1>1, UnwiredFacts
<1> HIDE DEF u
<1>4. /\ Sent(Tail(w.ctx[c].wire)) =
           IF Head(w.ctx[c].wire) = "cmd" THEN Sent(w.ctx[c].wire) - 1 ELSE Sent(w.ctx[c].wire)
      /\ Sent(w.ctx[c].wire) \in Nat /\ Sent(Tail(w.ctx[c].wire)) \in Nat
  BY <1>1, MemoryFields, WireTail, WireFinite
<1>5. Sent(w.ctx[c].wire) = w.handle[h].pending
  BY <1>1 DEF Owned
<1>6. /\ v \in Memory /\ v.crash = w.crash /\ v.ctx = u.ctx
      /\ v.handle[h].pending = Sent(Tail(w.ctx[c].wire))
      /\ v.handle[h].mem = w.handle[h].mem
      /\ v.handle[h].conn_state = w.handle[h].conn_state
      /\ v.handle[h].redis_ctx = c
      /\ \A k \in Handles : k # h => v.handle[k] = w.handle[k]
  <2>1. CASE Head(w.ctx[c].wire) = "cmd"
    <3>1. v = Dequeued(u, h)
      BY <2>1 DEF Answered, u
    <3> HIDE DEF h, v
    <3>2. /\ v \in Memory /\ v.crash = u.crash
          /\ v.ctx = u.ctx
          /\ v.handle[h].pending =
               IF u.handle[h].pending = 0 THEN 0 ELSE u.handle[h].pending - 1
          /\ v.handle[h].mem = u.handle[h].mem
          /\ v.handle[h].conn_state = u.handle[h].conn_state
          /\ v.handle[h].redis_ctx = u.handle[h].redis_ctx
          /\ \A k \in Handles : k # h => v.handle[k] = u.handle[k]
      BY <1>2, <1>3, <3>1, DequeuedFacts
    <3>3. w.handle[h].pending # 0 /\ Sent(Tail(w.ctx[c].wire)) = w.handle[h].pending - 1
      BY <1>4, <1>5, <2>1
    <3> QED
      BY <1>2, <1>3, <3>2, <3>3
  <2>2. CASE Head(w.ctx[c].wire) # "cmd"
    <3>1. v = u
      BY <2>2 DEF Answered, u
    <3> HIDE DEF v
    <3>2. Sent(Tail(w.ctx[c].wire)) = w.handle[h].pending
      BY <1>4, <1>5, <2>2
    <3> HIDE DEF h
    <3> QED
      BY <1>2, <1>3, <3>1, <3>2
  <2> QED
    BY <2>1, <2>2
<1> HIDE DEF v
<1>7. ASSUME NEW k \in Handles PROVE Settled(v, k)
  <2>1. w.handle[k].redis_ctx \in Ctxs \cup {NoCtx}
    BY <1>1, MemoryFields
  <2>2. SameShape(v, w, k)
    BY <1>2, <1>3, <1>6, <2>1 DEF SameShape
  <2> QED
    BY <1>1, <2>2, ShapeSettled
<1>8. ASSUME NEW d \in Ctxs, d # c PROVE Owned(v, d)
  <2>1. w.ctx[d].state # "free" => w.ctx[d].data \in Handles /\ w.ctx[d].data # h
    BY <1>1, <1>2, <1>8, OneOwner
  <2> QED
    BY <1>1, <1>3, <1>6, <1>8, <2>1, SameOwned
<1>9. Owned(v, c)
  BY <1>2, <1>3, <1>6 DEF Owned
<1>10. Sound(v) /\ v.handle[h].mem = "live" /\ v.handle[h].redis_ctx = c
  BY <1>1, <1>2, <1>6, <1>7, <1>8, <1>9 DEF Sound
<1> QED
  BY <1>2, <1>10 DEF v
(* An application that does nothing in the callbacks that report a failure *)
(* leaves the memory as it is.                                             *)
LEMMA QuietCallback ==
  ASSUME NEW w \in Memory, NEW h \in Handles, w.handle[h].mem = "live",
         NEW p \in {"failure", "ctrl"}, Orderly
  PROVE  AppLeaves(w, h, p) = {w}
<1>1. Reactions(p) = {"return"}
  BY DEF Reactions, Orderly
<1>2. Allowed(w, h, "return")
  BY DEF Allowed
<1>3. Touched(React(w, h, "return"), h) = w
  BY DEF Touched, React
<1> QED
  BY <1>1, <1>2, <1>3 DEF AppLeaves

(* Nor does one that calls the API in the callback of a reply break what   *)
(* hiredis goes on with.                                                   *)
LEMMA ReplyCallback ==
  ASSUME NEW w, Sound(w), NEW h \in Handles, w.handle[h].mem = "live",
         w.handle[h].redis_ctx # NoCtx, Orderly, NEW v \in AppLeaves(w, h, "reply")
  PROVE  Sound(v) /\ (v = w \/ calls < MaxCalls)
<1>1. PICK r \in Reactions("reply") : Allowed(w, h, r) /\ v = Touched(React(w, h, r), h)
  BY DEF AppLeaves
<1>2. r \in {"return", "call", "read"}
  BY DEF Reactions, Orderly
<1>3. CASE r = "return"
  BY <1>1, <1>3 DEF React, Touched
<1>4. CASE r = "call"
  <2>1. w.handle[h].pending < MaxPending /\ Room(w) /\ calls < MaxCalls
    BY <1>1, <1>4 DEF Allowed
  <2>2. React(w, h, r) = CallApi(w, h)
    BY <1>4 DEF React
  <2>3. Sound(CallApi(w, h)) /\ CallApi(w, h).handle[h].mem = "live"
    BY <2>1, CallSound
  <2> QED
    BY <1>1, <2>1, <2>2, <2>3 DEF Touched
<1>5. CASE r = "read"
  <2>1. calls < MaxCalls
    BY <1>1, <1>5 DEF Allowed
  <2>2. React(w, h, r) = ReadApi(w, h)
    BY <1>5 DEF React
  <2>3. Sound(ReadApi(w, h)) /\ ReadApi(w, h).handle[h].mem = "live"
    BY ReadSound
  <2> QED
    BY <1>1, <2>1, <2>2, <2>3 DEF Touched
<1> QED
  BY <1>2, <1>3, <1>4, <1>5

(* A role change sends "quit" on live contexts and alters nothing else.    *)
LEMMA RoleSound ==
  ASSUME Sound(proc),
         \A h \in Masters : h \in Live(proc) /\ proc.handle[h].redis_ctx # NoCtx
  PROVE  Sound(Stale(QuitAll(proc)))
<1> DEFINE told(c) == \E h \in Masters : proc.handle[h].redis_ctx = c
           wr(c)   == IF told(c) THEN Append(proc.ctx[c].wire, "quit") ELSE proc.ctx[c].wire
           u == QuitAll(proc)
           v == Stale(u)
<1>1. /\ proc \in Memory /\ proc.crash = "no" /\ \A k \in Handles : Settled(proc, k)
      /\ \A d \in Ctxs : Owned(proc, d)
  BY DEF Sound
<1>2. ASSUME NEW c \in Ctxs
      PROVE  wr(c) \in Seq(Kinds) /\ Sent(wr(c)) = Sent(proc.ctx[c].wire)
  <2>1. "quit" \in Kinds /\ proc.ctx[c].wire \in Seq(Kinds)
    BY <1>1, MemoryFields DEF Kinds
  <2> QED
    BY <2>1, WireAppend
<1>3. u = [proc EXCEPT !.ctx = [c \in Ctxs |-> [proc.ctx[c] EXCEPT !.wire = wr(c)]]]
  <2>1. \A h \in Masters : proc.handle[h].mem # "freed"
    BY DEF Live
  <2>2. u = [proc EXCEPT !.ctx = [c \in Ctxs |->
                 IF told(c) THEN [proc.ctx[c] EXCEPT !.wire = Append(@, "quit")]
                 ELSE proc.ctx[c]]]
    BY <2>1 DEF QuitAll
  <2> DEFINE f(c) == IF told(c) THEN [proc.ctx[c] EXCEPT !.wire = Append(@, "quit")]
                     ELSE proc.ctx[c]
             g(c) == [proc.ctx[c] EXCEPT !.wire = wr(c)]
  <2>3. \A c \in Ctxs : f(c) = g(c)
    BY <1>1 DEF Memory, CtxFields
  <2>4. u = [proc EXCEPT !.ctx = [c \in Ctxs |-> f(c)]]
    BY <2>2
  <2> HIDE DEF f, g, u
  <2>5. [c \in Ctxs |-> f(c)] = [c \in Ctxs |-> g(c)]
    BY <2>3
  <2>6. u = [proc EXCEPT !.ctx = [c \in Ctxs |-> g(c)]]
    BY <2>4, <2>5
  <2> QED
    BY <2>6 DEF g
<1>4. /\ u.handle = proc.handle /\ u.crash = proc.crash
      /\ \A c \in Ctxs : /\ u.ctx[c] \in CtxFields
                         /\ u.ctx[c].wire = wr(c)
                         /\ u.ctx[c].state = proc.ctx[c].state
                         /\ u.ctx[c].data = proc.ctx[c].data
  <2> HIDE DEF u, wr
  <2>1. ASSUME NEW c \in Ctxs
        PROVE  LET x == [proc.ctx[c] EXCEPT !.wire = wr(c)]
               IN  /\ x \in CtxFields /\ x.wire = wr(c)
                   /\ x.state = proc.ctx[c].state /\ x.data = proc.ctx[c].data
    BY <1>1, <1>2, MemoryFields DEF CtxFields, Kinds
  <2> QED
    BY <1>1, <1>3, <2>1 DEF Memory
<1>5. u = [handle |-> u.handle, ctx |-> u.ctx, crash |-> u.crash]
      /\ u.ctx \in [Ctxs -> CtxFields] /\ u.handle \in [Handles -> HandleFields]
  <2>1. u.ctx = [c \in Ctxs |-> u.ctx[c]]
    BY <1>1, <1>3 DEF Memory
  <2>2. u.ctx \in [Ctxs -> CtxFields]
    BY <1>4, <2>1
  <2> HIDE DEF u, wr
  <2>3. u = [handle |-> u.handle, ctx |-> u.ctx, crash |-> u.crash]
    BY <1>1, <1>3 DEF Memory
  <2> QED
    BY <1>1, <1>4, <2>2, <2>3 DEF Memory
<1> HIDE DEF u
<1>6. /\ v \in Memory /\ v.handle = proc.handle /\ v.crash = proc.crash
      /\ \A c \in Ctxs : /\ v.ctx[c].wire = wr(c)
                         /\ v.ctx[c].state = proc.ctx[c].state
                         /\ v.ctx[c].data = proc.ctx[c].data
  <2> HIDE DEF wr
  <2> DEFINE x(c) == [u.ctx[c] EXCEPT !.stale = @ \/ \E h \in Masters : u.handle[h].redis_ctx = c]
  <2>1. v = [u EXCEPT !.ctx = [c \in Ctxs |-> x(c)]]
    BY DEF Stale
  <2>2. ASSUME NEW c \in Ctxs
        PROVE  /\ x(c) \in CtxFields /\ x(c).wire = wr(c)
               /\ x(c).state = proc.ctx[c].state /\ x(c).data = proc.ctx[c].data
    <3> DEFINE s == \E h \in Masters : u.handle[h].redis_ctx = c
    <3>1. s \in BOOLEAN
      OBVIOUS
    <3> HIDE DEF s
    <3>2. LET y == [u.ctx[c] EXCEPT !.stale = @ \/ s]
          IN  /\ y \in CtxFields /\ y.wire = wr(c)
              /\ y.state = proc.ctx[c].state /\ y.data = proc.ctx[c].data
      BY <1>4, <3>1 DEF CtxFields
    <3> QED
      BY <3>2 DEF s
  <2> HIDE DEF x
  <2>3. /\ v.handle = u.handle /\ v.crash = u.crash
        /\ v.ctx = [c \in Ctxs |-> x(c)]
        /\ v = [handle |-> v.handle, ctx |-> v.ctx, crash |-> v.crash]
    BY <1>5, <2>1
  <2>4. v.ctx \in [Ctxs -> CtxFields] /\ \A c \in Ctxs : v.ctx[c] = x(c)
    BY <2>2, <2>3
  <2>5. v \in Memory
    BY <1>1, <1>4, <2>3, <2>4 DEF Memory
  <2> QED
    BY <1>4, <2>2, <2>3, <2>4, <2>5
<1> HIDE DEF v, wr
<1>7. ASSUME NEW k \in Handles PROVE Settled(v, k)
  <2>1. proc.handle[k].redis_ctx \in Ctxs \cup {NoCtx}
    BY <1>1, MemoryFields
  <2>2. SameShape(v, proc, k)
    BY <1>6, <2>1 DEF SameShape
  <2> QED
    BY <1>1, <2>2, ShapeSettled
<1>8. ASSUME NEW d \in Ctxs PROVE Owned(v, d)
  BY <1>1, <1>2, <1>6 DEF Owned
<1>9. Sound(v)
  BY <1>1, <1>6, <1>7, <1>8 DEF Sound
<1> QED
  BY <1>9 DEF v, u

(* The memory after the queue of the handle of c was sent.                 *)
Up(w, c) ==
  [w EXCEPT !.ctx[c].state = "up",
            !.ctx[c].wire = @ \o [i \in 1..w.handle[w.ctx[c].data].pending |-> "cmd"],
            !.handle[w.ctx[c].data].conn_state = "connected"]

(* db_connect_fn: the wire of a new connection carries exactly the queue.  *)
LEMMA ConnectSound ==
  ASSUME NEW w, Sound(w), NEW c \in Ctxs, w.ctx[c].state = "connecting"
  PROVE  Sound(Up(w, c))
<1> DEFINE h == w.ctx[c].data
           q == w.ctx[c].wire \o [i \in 1..w.handle[h].pending |-> "cmd"]
           x == [w.ctx[c] EXCEPT !.state = "up", !.wire = q]
           r == [w.handle[h] EXCEPT !.conn_state = "connected"]
           u == PutCtx(w, c, x)
           v == Up(w, c)
<1>1. /\ w \in Memory /\ w.crash = "no" /\ \A k \in Handles : Settled(w, k)
      /\ \A d \in Ctxs : Owned(w, d)
  BY DEF Sound
<1>2. h \in Handles /\ w.handle[h].mem = "live" /\ w.handle[h].redis_ctx = c
  BY <1>1, OneOwner
<1>3. v = PutHandle(u, h, r)
  BY <1>1, <1>2 DEF PutHandle, PutCtx, Memory, Up
<1> HIDE DEF h, v
<1>4. q \in Seq(Kinds) /\ Sent(q) = w.handle[h].pending
  <2>1. Sent(w.ctx[c].wire) = 0 /\ w.ctx[c].wire \in Seq(Kinds)
    BY <1>1, MemoryFields DEF Owned
  <2>2. w.handle[h].pending \in Nat
    BY <1>1, <1>2, MemoryFields
  <2> QED
    BY <2>1, <2>2, WireFlush
<1> HIDE DEF q
<1>5. x \in CtxFields /\ x.state = "up" /\ x.data = h /\ x.wire = q
  <2>1. w.ctx[c] \in CtxFields
    BY <1>1, MemoryFields
  <2> QED
    BY <1>4, <2>1 DEF CtxFields, Kinds, h
<1> HIDE DEF x
<1>6. /\ u \in Memory /\ u.crash = w.crash /\ u.handle = w.handle
      /\ u.ctx[c] = x
      /\ \A d \in Ctxs : d # c => u.ctx[d] = w.ctx[d]
  BY <1>1, <1>5, CtxChanged
<1> HIDE DEF u
<1>7. /\ r \in HandleFields /\ r.conn_state = "connected" /\ r.mem = "live"
      /\ r.redis_ctx = c /\ r.pending = w.handle[h].pending
  <2>1. w.handle[h] \in HandleFields
    BY <1>1, <1>2, MemoryFields
  <2> QED
    BY <1>2, <2>1 DEF HandleFields
<1> HIDE DEF r
<1>8. /\ v \in Memory /\ v.crash = w.crash /\ v.ctx = u.ctx
      /\ v.handle[h] = r
      /\ \A k \in Handles : k # h => v.handle[k] = w.handle[k]
  BY <1>2, <1>3, <1>6, <1>7, HandleChanged
<1>9. ASSUME NEW k \in Handles, k # h PROVE Settled(v, k)
  <2>1. w.handle[k].redis_ctx \in Ctxs \cup {NoCtx}
    BY <1>1, MemoryFields
  <2>2. w.handle[k].redis_ctx # c
    BY <1>1, <1>9, MemoryFields DEF Settled, h
  <2>3. SameShape(v, w, k)
    BY <1>6, <1>8, <1>9, <2>1, <2>2 DEF SameShape
  <2> QED
    BY <1>1, <2>3, ShapeSettled
<1>10. Settled(v, h)
  <2>1. c # NoCtx
    BY <1>1, MemoryFields
  <2> QED
    BY <1>2, <1>5, <1>6, <1>7, <1>8, <2>1 DEF Settled
<1>11. ASSUME NEW d \in Ctxs, d # c PROVE Owned(v, d)
  <2>1. w.ctx[d].state # "free" => w.ctx[d].data \in Handles /\ w.ctx[d].data # h
    BY <1>1, <1>2, <1>11, OneOwner DEF h
  <2> QED
    BY <1>1, <1>6, <1>8, <1>11, <2>1, SameOwned
<1>12. Owned(v, c)
  BY <1>2, <1>4, <1>5, <1>6, <1>7, <1>8 DEF Owned
<1> QED
  BY <1>1, <1>8, <1>9, <1>10, <1>11, <1>12 DEF Sound, v
-----------------------------------------------------------------------------
(* The memory after hiredis began to take context c down.                  *)
Leaves(w, c) == [w EXCEPT !.ctx[c].state = "leaving"]

(* A chain begins with a handle that still points to the context.          *)
LEMMA LeaveHeld ==
  ASSUME NEW w, Sound(w), NEW c \in Ctxs, w.ctx[c].state # "free"
  PROVE  /\ w.ctx[c].data \in Handles
         /\ SoundBut(Leaves(w, c), w.ctx[c].data, c)
         /\ Held(Leaves(w, c), w.ctx[c].data, c)
<1> DEFINE h == w.ctx[c].data
           x == [w.ctx[c] EXCEPT !.state = "leaving"]
           v == Leaves(w, c)
<1>1. /\ w \in Memory /\ w.crash = "no" /\ \A k \in Handles : Settled(w, k)
      /\ \A d \in Ctxs : Owned(w, d)
  BY DEF Sound
<1>2. h \in Handles /\ w.handle[h].mem = "live" /\ w.handle[h].redis_ctx = c
  BY <1>1, OneOwner
<1>3. v = PutCtx(w, c, x)
  BY <1>1 DEF PutCtx, Memory, Leaves
<1>4. x \in CtxFields /\ x.state = "leaving" /\ x.data = h
  <2>1. w.ctx[c] \in CtxFields
    BY <1>1, MemoryFields
  <2> QED
    BY <2>1 DEF CtxFields
<1> HIDE DEF x, v
<1>5. /\ v \in Memory /\ v.crash = w.crash /\ v.handle = w.handle /\ v.ctx[c] = x
      /\ \A d \in Ctxs : d # c => v.ctx[d] = w.ctx[d]
  BY <1>1, <1>3, <1>4, CtxChanged
<1>6. ASSUME NEW k \in Handles, k # h PROVE Settled(v, k)
  <2>1. w.handle[k].redis_ctx \in Ctxs \cup {NoCtx}
    BY <1>1, MemoryFields
  <2>2. w.handle[k].redis_ctx # c
    BY <1>1, <1>6, MemoryFields DEF Settled
  <2>3. SameShape(v, w, k)
    BY <1>5, <2>1, <2>2 DEF SameShape
  <2> QED
    BY <1>1, <2>3, ShapeSettled
<1>7. ASSUME NEW d \in Ctxs, d # c PROVE Owned(v, d)
  BY <1>1, <1>5, <1>7, SameOwned
<1>8. SoundBut(v, h, c) /\ Held(v, h, c)
  BY <1>1, <1>2, <1>4, <1>5, <1>6, <1>7 DEF SoundBut, Held
<1> QED
  BY <1>2, <1>8 DEF v

(* The chain goes on when only the wire of its context has changed.        *)
LEMMA ChainWire ==
  ASSUME NEW w, NEW t, InChain(w, t), t.ctx \in Ctxs, NEW v \in Memory,
         v.crash = w.crash, v.handle = w.handle,
         v.ctx[t.ctx].state = w.ctx[t.ctx].state, v.ctx[t.ctx].data = w.ctx[t.ctx].data,
         \A d \in Ctxs : d # t.ctx => v.ctx[d] = w.ctx[d]
  PROVE  InChain(v, t)
<1>1. w \in Memory /\ w.crash = "no" /\ t \in Tasks /\ t.h \in Handles
  BY DEF InChain, SoundBut, Tasks
<1>2. ASSUME NEW k \in Handles, Settled(w, k) PROVE Settled(v, k)
  <2>1. w.handle[k].redis_ctx \in Ctxs \cup {NoCtx}
    BY <1>1, MemoryFields
  <2>2. SameShape(v, w, k)
    BY <2>1 DEF SameShape
  <2> QED
    BY <1>2, <2>2, ShapeSettled
<1>3. ASSUME NEW d \in Ctxs, d # t.ctx, Owned(w, d) PROVE Owned(v, d)
  BY <1>1, <1>3, SameOwned
<1>4. SoundBut(v, t.h, t.ctx)
  BY <1>1, <1>2, <1>3 DEF InChain, SoundBut
<1>5. Held(w, t.h, t.ctx) => Held(v, t.h, t.ctx)
  BY DEF Held
<1>6. Left(w, t.h, t.ctx) => Left(v, t.h, t.ctx)
  BY DEF Left
<1>7. Replaced(w, t.h, t.ctx) => Replaced(v, t.h, t.ctx)
  BY <1>1, <1>2 DEF Replaced
<1> QED
  BY <1>1, <1>4, <1>5, <1>6, <1>7 DEF InChain

(* Popping the queue of the handle disturbs nothing: its context is not up.*)
LEMMA ChainDequeued ==
  ASSUME NEW w, NEW t, InChain(w, t)
  PROVE  InChain(Dequeued(w, t.h), t)
<1> DEFINE v == Dequeued(w, t.h)
<1>1. /\ w \in Memory /\ w.crash = "no" /\ t \in Tasks /\ t.h \in Handles
      /\ \A k \in Handles : k # t.h => Settled(w, k)
      /\ \A d \in Ctxs : d # t.ctx => Owned(w, d)
  BY DEF InChain, SoundBut, Tasks
<1>2. /\ v \in Memory /\ v.crash = w.crash /\ v.ctx = w.ctx
      /\ v.handle[t.h].mem = w.handle[t.h].mem
      /\ v.handle[t.h].conn_state = w.handle[t.h].conn_state
      /\ v.handle[t.h].redis_ctx = w.handle[t.h].redis_ctx
      /\ \A k \in Handles : k # t.h => v.handle[k] = w.handle[k]
  BY <1>1, DequeuedFacts
<1> HIDE DEF v
<1>3. Held(w, t.h, t.ctx) \/ Left(w, t.h, t.ctx) \/ Replaced(w, t.h, t.ctx)
  BY DEF InChain
<1>4. ASSUME NEW k \in Handles, Settled(w, k) PROVE Settled(v, k)
  <2>1. SameShape(v, w, k)
    BY <1>2 DEF SameShape
  <2> QED
    BY <1>4, <2>1, ShapeSettled
<1>5. ASSUME NEW d \in Ctxs, d # t.ctx PROVE Owned(v, d)
  <2>1. CASE w.ctx[d].state = "free" \/ w.ctx[d].data # t.h
    <3>1. w.ctx[d].data \in Handles
      BY <1>1, MemoryFields
    <3> QED
      BY <1>1, <1>2, <1>5, <2>1, <3>1, SameOwned
  <2>2. CASE w.ctx[d].state # "free" /\ w.ctx[d].data = t.h
    <3>1. w.handle[t.h].redis_ctx = d /\ d # NoCtx
      BY <1>1, <1>5, <2>2, OneOwner, MemoryFields
    <3>2. Replaced(w, t.h, t.ctx)
      BY <1>3, <1>5, <3>1 DEF Held, Left
    <3>3. w.ctx[d].state = "connecting"
      BY <3>1, <3>2 DEF Replaced, Settled
    <3> QED
      BY <1>1, <1>2, <1>5, <2>2, <3>1, <3>3 DEF Owned
  <2> QED
    BY <2>1, <2>2
<1>6. SoundBut(v, t.h, t.ctx)
  BY <1>1, <1>2, <1>4, <1>5 DEF SoundBut
<1>7. Held(w, t.h, t.ctx) => Held(v, t.h, t.ctx)
  BY <1>2 DEF Held
<1>8. Left(w, t.h, t.ctx) => Left(v, t.h, t.ctx)
  BY <1>2 DEF Left
<1>9. Replaced(w, t.h, t.ctx) => Replaced(v, t.h, t.ctx)
  BY <1>1, <1>2, <1>4 DEF Replaced
<1>10. InChain(v, t)
  BY <1>1, <1>2, <1>6, <1>7, <1>8, <1>9 DEF InChain
<1> QED
  BY <1>10 DEF v

(* A NULL reply keeps the chain where it is.                               *)
LEMMA ChainNull ==
  ASSUME NEW w, NEW t, InChain(w, t), t.step = "replies", w.ctx[t.ctx].wire # << >>
  PROVE  /\ InChain(Unwired(w, t.ctx), t) /\ InChain(Answered(w, t.ctx), t)
<1>1. w \in Memory /\ t.ctx \in Ctxs /\ w.ctx[t.ctx].data = t.h
  BY DEF InChain, SoundBut, Held, Replaced
<1> DEFINE u == Unwired(w, t.ctx)
<1>2. /\ u \in Memory /\ u.crash = w.crash /\ u.handle = w.handle
      /\ u.ctx[t.ctx].state = w.ctx[t.ctx].state
      /\ u.ctx[t.ctx].data = w.ctx[t.ctx].data
      /\ \A d \in Ctxs : d # t.ctx => u.ctx[d] = w.ctx[d]
  BY <1>1, UnwiredFacts
<1> HIDE DEF u
<1>3. InChain(u, t)
  BY <1>1, <1>2, ChainWire
<1>4. InChain(Dequeued(u, t.h), t)
  BY <1>3, ChainDequeued
<1>5. Answered(w, t.ctx) \in {u, Dequeued(u, t.h)}
  BY <1>1 DEF Answered, u
<1> QED
  BY <1>3, <1>4, <1>5 DEF u

(* The NULL replies of a failed connect are over: its context is gone.     *)
LEMMA ChainFailed ==
  ASSUME NEW w, NEW t, InChain(w, t), t.step = "replies", t.kind = "fail"
  PROVE  Sound([w EXCEPT !.ctx[t.ctx] = FreeCtx(t.h)])
<1> DEFINE v == PutCtx(w, t.ctx, FreeCtx(t.h))
<1>1. /\ w \in Memory /\ w.crash = "no" /\ t.h \in Handles /\ t.ctx \in Ctxs
      /\ \A k \in Handles : k # t.h => Settled(w, k)
      /\ \A d \in Ctxs : d # t.ctx => Owned(w, d)
      /\ Replaced(w, t.h, t.ctx)
  BY DEF InChain, SoundBut, Tasks, Replaced
<1>2. FreeCtx(t.h) \in CtxFields /\ FreeCtx(t.h).state = "free"
  BY <1>1 DEF FreeCtx, CtxOf, CtxFields
<1>3. /\ v \in Memory /\ v.crash = w.crash /\ v.handle = w.handle
      /\ v.ctx[t.ctx].state = "free"
      /\ \A d \in Ctxs : d # t.ctx => v.ctx[d] = w.ctx[d]
  BY <1>1, <1>2, CtxChanged
<1>4. v = [w EXCEPT !.ctx[t.ctx] = FreeCtx(t.h)]
  BY DEF PutCtx
<1> HIDE DEF v
<1>5. \A k \in Handles : Settled(w, k)
  BY <1>1 DEF Replaced
<1>6. ASSUME NEW k \in Handles PROVE Settled(v, k)
  <2>1. w.handle[k].redis_ctx \in Ctxs \cup {NoCtx}
    BY <1>1, MemoryFields
  <2>2. w.ctx[t.ctx].state = "leaving"
    BY <1>1 DEF Replaced
  <2>3. w.handle[k].redis_ctx # t.ctx
    BY <1>1, <1>5, <2>2, MemoryFields DEF Settled
  <2>4. SameShape(v, w, k)
    BY <1>3, <2>1, <2>3 DEF SameShape
  <2> QED
    BY <1>5, <2>4, ShapeSettled
<1>7. ASSUME NEW d \in Ctxs, d # t.ctx PROVE Owned(v, d)
  BY <1>1, <1>3, <1>7, SameOwned
<1>8. Owned(v, t.ctx)
  BY <1>3 DEF Owned
<1> QED
  BY <1>1, <1>3, <1>4, <1>6, <1>7, <1>8 DEF Sound

(* DB_DISCONNECTED is written in a handle whose context goes away.         *)
Down(w, h) == [w EXCEPT !.handle[h].conn_state = "disconnected"]

(* That changes nothing else, and the handle still points to the context.  *)
LEMMA DownHeld ==
  ASSUME NEW w, NEW h \in Handles, NEW c, SoundBut(w, h, c), Held(w, h, c)
  PROVE  /\ SoundBut(Down(w, h), h, c) /\ Held(Down(w, h), h, c)
         /\ Down(w, h).handle[h].conn_state = "disconnected"
         /\ Down(w, h).ctx = w.ctx
<1> DEFINE r == [w.handle[h] EXCEPT !.conn_state = "disconnected"]
           v == Down(w, h)
<1>1. /\ w \in Memory /\ w.crash = "no"
      /\ \A k \in Handles : k # h => Settled(w, k)
      /\ \A d \in Ctxs : d # c => Owned(w, d)
  BY DEF SoundBut
<1>2. v = PutHandle(w, h, r)
  BY <1>1 DEF Down, PutHandle, Memory
<1>3. /\ r \in HandleFields /\ r.conn_state = "disconnected" /\ r.mem = w.handle[h].mem
      /\ r.redis_ctx = w.handle[h].redis_ctx
  <2>1. w.handle[h] \in HandleFields
    BY <1>1, MemoryFields
  <2> QED
    BY <2>1 DEF HandleFields
<1> HIDE DEF r, v
<1>4. /\ v \in Memory /\ v.crash = w.crash /\ v.ctx = w.ctx /\ v.handle[h] = r
      /\ \A k \in Handles : k # h => v.handle[k] = w.handle[k]
  BY <1>1, <1>2, <1>3, HandleChanged
<1>5. ASSUME NEW k \in Handles, k # h PROVE Settled(v, k)
  <2>1. SameShape(v, w, k)
    BY <1>4, <1>5 DEF SameShape
  <2> QED
    BY <1>1, <1>5, <2>1, ShapeSettled
<1>6. ASSUME NEW d \in Ctxs, d # c PROVE Owned(v, d)
  <2>1. w.ctx[d].state # "free" => w.ctx[d].data \in Handles /\ w.ctx[d].data # h
    BY <1>1, <1>6, OneOwner DEF Held
  <2> QED
    BY <1>1, <1>4, <1>6, <2>1, SameOwned
<1>7. SoundBut(v, h, c) /\ Held(v, h, c)
  BY <1>1, <1>3, <1>4, <1>5, <1>6 DEF SoundBut, Held
<1> QED
  BY <1>3, <1>4, <1>7 DEF v

(* db_connect_fn dials again while the failed context is still there.      *)
LEMMA DialReplaces ==
  ASSUME NEW w, NEW h \in Handles, NEW c, SoundBut(w, h, c), Held(w, h, c), Room(w)
  PROVE  SoundBut(Dial(w, h), h, c) /\ Replaced(Dial(w, h), h, c)
<1> DEFINE v == Dial(w, h)
<1>1. /\ w \in Memory /\ w.crash = "no"
      /\ \A k \in Handles : k # h => Settled(w, k)
      /\ \A d \in Ctxs : d # c => Owned(w, d)
  BY DEF SoundBut
<1>2. PICK b \in Ctxs :
           /\ w.ctx[b].state = "free"
           /\ v \in Memory /\ v.crash = w.crash
           /\ v.ctx[b].state = "connecting"
           /\ v.ctx[b].data = h
           /\ v.ctx[b].wire = << >>
           /\ \A d \in Ctxs : d # b => v.ctx[d] = w.ctx[d]
           /\ v.handle[h].redis_ctx = b
           /\ v.handle[h].conn_state = "connecting"
           /\ v.handle[h].mem = w.handle[h].mem
           /\ v.handle[h].pending = w.handle[h].pending
           /\ \A k \in Handles : k # h => v.handle[k] = w.handle[k]
  BY <1>1, DialFacts
<1> HIDE DEF v
<1>3. b # c /\ c \in Ctxs /\ b # NoCtx
  BY <1>1, <1>2, MemoryFields DEF Held
<1>4. ASSUME NEW k \in Handles, k # h PROVE Settled(v, k)
  <2>1. w.handle[k].redis_ctx # b
    BY <1>1, <1>2, <1>4, MemoryFields DEF Settled
  <2>2. w.handle[k].redis_ctx \in Ctxs \cup {NoCtx}
    BY <1>1, MemoryFields
  <2>3. SameShape(v, w, k)
    BY <1>2, <1>4, <2>1, <2>2 DEF SameShape
  <2> QED
    BY <1>1, <1>4, <2>3, ShapeSettled
<1>5. Settled(v, h)
  BY <1>2, <1>3 DEF Settled, Held
<1>6. ASSUME NEW d \in Ctxs, d # c PROVE Owned(v, d)
  <2>1. CASE d = b
    BY <1>2, <2>1, WireEmpty DEF Owned, Held
  <2>2. CASE d # b
    <3>1. w.ctx[d].state # "free" => w.ctx[d].data \in Handles /\ w.ctx[d].data # h
      BY <1>1, <1>6, OneOwner DEF Held
    <3> QED
      BY <1>1, <1>2, <1>6, <2>2, <3>1, SameOwned
  <2> QED
    BY <2>1, <2>2
<1>7. SoundBut(v, h, c) /\ Replaced(v, h, c)
  BY <1>1, <1>2, <1>3, <1>4, <1>5, <1>6 DEF SoundBut, Replaced, Held
<1> QED
  BY <1>7 DEF v

(* The handle lets go of the context, which is freed.                      *)
LEMMA DetachFacts ==
  ASSUME NEW w, NEW h \in Handles, NEW c, SoundBut(w, h, c), Held(w, h, c)
  PROVE  /\ Detached(w, h, c) \in Memory /\ Detached(w, h, c).crash = "no"
         /\ \A k \in Handles : k # h => Settled(Detached(w, h, c), k)
         /\ \A d \in Ctxs : Owned(Detached(w, h, c), d)
         /\ Detached(w, h, c).handle[h].redis_ctx = NoCtx
         /\ Detached(w, h, c).handle[h].mem = "live"
         /\ Detached(w, h, c).handle[h].conn_state = w.handle[h].conn_state
         /\ Detached(w, h, c).ctx[c].state = "free"
<1> DEFINE r == [w.handle[h] EXCEPT !.redis_ctx = NoCtx]
           x == FreeCtx(h)
           u == PutHandle(w, h, r)
           v == Detached(w, h, c)
<1>1. /\ w \in Memory /\ w.crash = "no" /\ c \in Ctxs
      /\ \A k \in Handles : k # h => Settled(w, k)
      /\ \A d \in Ctxs : d # c => Owned(w, d)
  BY DEF SoundBut, Held
<1>2. v = PutCtx(u, c, x)
  BY <1>1 DEF Detached, PutHandle, PutCtx, Memory
<1>3. /\ r \in HandleFields /\ r.redis_ctx = NoCtx /\ r.mem = "live"
      /\ r.conn_state = w.handle[h].conn_state
  <2>1. w.handle[h] \in HandleFields
    BY <1>1, MemoryFields
  <2> QED
    BY <2>1 DEF HandleFields, Held
<1>4. x \in CtxFields /\ x.state = "free"
  BY DEF FreeCtx, CtxOf, CtxFields
<1> HIDE DEF r, x, v
<1>5. /\ u \in Memory /\ u.crash = w.crash /\ u.ctx = w.ctx /\ u.handle[h] = r
      /\ \A k \in Handles : k # h => u.handle[k] = w.handle[k]
  BY <1>1, <1>3, HandleChanged
<1> HIDE DEF u
<1>6. /\ v \in Memory /\ v.crash = w.crash /\ v.handle = u.handle /\ v.ctx[c] = x
      /\ \A d \in Ctxs : d # c => v.ctx[d] = u.ctx[d]
  BY <1>1, <1>2, <1>4, <1>5, CtxChanged
<1>7. ASSUME NEW k \in Handles, k # h PROVE Settled(v, k)
  <2>1. w.handle[k].redis_ctx \in Ctxs \cup {NoCtx}
    BY <1>1, MemoryFields
  <2>2. w.handle[k].redis_ctx # c
    BY <1>1, <1>7, MemoryFields DEF Settled, Held
  <2>3. SameShape(v, w, k)
    BY <1>5, <1>6, <1>7, <2>1, <2>2 DEF SameShape
  <2> QED
    BY <1>1, <1>7, <2>3, ShapeSettled
<1>8. ASSUME NEW d \in Ctxs, d # c PROVE Owned(v, d)
  <2>1. w.ctx[d].state # "free" => w.ctx[d].data \in Handles /\ w.ctx[d].data # h
    BY <1>1, <1>8, OneOwner DEF Held
  <2>2. v.ctx[d] = w.ctx[d]
    BY <1>5, <1>6, <1>8
  <2>3. w.ctx[d].state # "free" => v.handle[w.ctx[d].data] = w.handle[w.ctx[d].data]
    BY <1>5, <1>6, <2>1
  <2> QED
    BY <1>1, <1>8, <2>2, <2>3, SameOwned
<1>9. Owned(v, c)
  BY <1>4, <1>6 DEF Owned
<1> QED
  BY <1>1, <1>3, <1>4, <1>5, <1>6, <1>7, <1>8, <1>9 DEF v

(* db_close frees a handle that has let go of its context.                 *)
LEMMA CloseSound ==
  ASSUME NEW w \in Memory, w.crash = "no", NEW h \in Handles,
         \A k \in Handles : k # h => Settled(w, k),
         \A d \in Ctxs : Owned(w, d),
         w.handle[h].redis_ctx = NoCtx
  PROVE  Sound(Freed(w, h))
<1> DEFINE r == [Blank EXCEPT !.mem = "freed", !.queued = w.handle[h].queued,
                              !.mode = w.handle[h].mode]
           v == Freed(w, h)
<1>1. v = PutHandle(w, h, r)
  BY DEF Freed, PutHandle, Memory
<1>2. r \in HandleFields /\ r.mem = "freed" /\ r.conn_state = "init" /\ r.redis_ctx = NoCtx
  <2>1. w.handle[h].queued \in BOOLEAN /\ w.handle[h].mode \in {"local", "master"}
    BY DEF Memory, HandleFields
  <2>2. 0 \in 0..MaxPending
    BY MemoryFields
  <2> QED
    BY <2>1, <2>2 DEF Blank, HandleFields
<1> HIDE DEF r, v
<1>3. /\ v \in Memory /\ v.crash = w.crash /\ v.ctx = w.ctx /\ v.handle[h] = r
      /\ \A k \in Handles : k # h => v.handle[k] = w.handle[k]
  BY <1>1, <1>2, HandleChanged
<1>4. ASSUME NEW k \in Handles PROVE Settled(v, k)
  <2>1. CASE k = h
    BY <1>2, <1>3, <2>1 DEF Settled
  <2>2. CASE k # h
    <3>1. SameShape(v, w, k)
      BY <1>3, <2>2 DEF SameShape
    <3> QED
      BY <2>2, <3>1, ShapeSettled
  <2> QED
    BY <2>1, <2>2
<1>5. ASSUME NEW d \in Ctxs PROVE Owned(v, d)
  <2>1. w.ctx[d].state # "free" => w.ctx[d].data \in Handles /\ w.ctx[d].data # h
    BY OneOwner, MemoryFields
  <2> QED
    BY <1>3, <2>1, SameOwned
<1> QED
  BY <1>3, <1>4, <1>5 DEF Sound, v
-----------------------------------------------------------------------------
(* A chain is not Idle.                                                    *)
LEMMA IdleApart == \A t \in Tasks : t # Idle /\ t.kind # "none"
  BY DEF Tasks, Idle

(* What LifeInv says of the other variables.                               *)
Facts ==
  /\ local_is_master \in BOOLEAN /\ remote_server_ip \in Remotes
  /\ calls \in 0..MaxCalls /\ faults \in 0..MaxFaults

(* Between two events memory is consistent.                                *)
LEMMA RunningFacts ==
  ASSUME LifeInv, Running
  PROVE  Sound(proc) /\ Facts
  BY IdleApart DEF LifeInv, Running, InChain, Facts

(* Two ways to arrive at LifeInv: outside a chain ...                      *)
LEMMA InvIdle ==
  ASSUME Facts', task' = Idle, Sound(proc')
  PROVE  LifeInv'
  BY DEF LifeInv, Facts

(* ... and inside one.                                                     *)
LEMMA InvChain ==
  ASSUME Facts', InChain(proc', task')
  PROVE  LifeInv'
  BY DEF LifeInv, Facts

(* A call is counted only below the bound.                                 *)
LEMMA CountsUp ==
  ASSUME Facts, UNCHANGED <<local_is_master, remote_server_ip, faults>>,
         calls' = calls \/ (calls < MaxCalls /\ calls' = calls + 1)
  PROVE  Facts'
  BY BoundsAssumption DEF Facts

(* The steps of the specification keep LifeInv.  A call of the API:        *)
LEMMA StepUse ==
  ASSUME LifeInv, Orderly, NEW h \in Handles, Use(h)
  PROVE  LifeInv'
<1>1. Sound(proc) /\ Facts
  BY RunningFacts DEF Use
<1>2. Facts'
  BY <1>1, CountsUp DEF Use
<1>3. proc.handle[h].mem = "live" /\ task' = Idle
  BY DEF Use, Live, Running
<1>4. Sound(proc')
  <2>1. CASE proc' = CallApi(proc, h) /\ proc.handle[h].pending < MaxPending /\ Room(proc)
    BY <1>1, <1>3, <2>1, CallSound
  <2>2. CASE proc' = ReadApi(proc, h) /\ proc.handle[h].redis_ctx # NoCtx
    BY <1>1, <1>3, <2>2, ReadSound
  <2> QED
    BY <2>1, <2>2 DEF Use, Orderly
<1> QED
  BY <1>2, <1>3, <1>4, InvIdle
(* A handle that db_open or db_open_ex sets up dials at once.              *)
LEMMA OpenSound ==
  ASSUME NEW w, Sound(w), NEW h \in Handles, w.handle[h].mem = "none", Room(w),
         NEW r \in HandleFields, r.mem = "live", r.redis_ctx = NoCtx
  PROVE  Sound(Dial(PutHandle(w, h, r), h))
<1> DEFINE u == PutHandle(w, h, r)
<1>1. /\ w \in Memory /\ w.crash = "no" /\ \A k \in Handles : Settled(w, k)
      /\ \A d \in Ctxs : Owned(w, d)
  BY DEF Sound
<1>2. /\ u \in Memory /\ u.crash = w.crash /\ u.ctx = w.ctx /\ u.handle[h] = r
      /\ \A k \in Handles : k # h => u.handle[k] = w.handle[k]
  BY <1>1, HandleChanged
<1> HIDE DEF u
<1>3. ASSUME NEW k \in Handles, k # h PROVE Settled(u, k)
  <2>1. SameShape(u, w, k)
    BY <1>2, <1>3 DEF SameShape
  <2> QED
    BY <1>1, <2>1, ShapeSettled
<1>4. ASSUME NEW d \in Ctxs PROVE Owned(u, d)
  <2>1. w.ctx[d].state # "free" => w.ctx[d].data \in Handles /\ w.ctx[d].data # h
    BY <1>1, OneOwner
  <2> QED
    BY <1>1, <1>2, <2>1, SameOwned
<1>5. Room(u)
  BY <1>2 DEF Room
<1>6. Sound(Dial(u, h))
  BY <1>1, <1>2, <1>3, <1>4, <1>5, DialSound
<1> QED
  BY <1>6 DEF u

(* db_open and db_open_ex.                                                 *)
LEMMA StepOpen ==
  ASSUME LifeInv, Orderly, NEW h \in Handles, Open(h)
  PROVE  LifeInv'
<1>1. Sound(proc) /\ Facts
  BY RunningFacts DEF Open
<1>2. Facts' /\ task' = Idle
  BY <1>1 DEF Open, Facts, Running
<1>3. proc \in Memory /\ proc.handle[h].mem = "none" /\ Room(proc)
  BY <1>1 DEF Open, Sound
<1>4. CASE proc' = Dial([proc EXCEPT !.handle[h].mem = "live"], h)
  <2> DEFINE r == [proc.handle[h] EXCEPT !.mem = "live"]
  <2>1. [proc EXCEPT !.handle[h].mem = "live"] = PutHandle(proc, h, r)
    BY <1>3 DEF PutHandle, Memory
  <2>2. r \in HandleFields /\ r.mem = "live" /\ r.redis_ctx = NoCtx
    <3>1. proc.handle[h] \in HandleFields
      BY <1>3, MemoryFields
    <3>2. proc.handle[h].redis_ctx = NoCtx
      BY <1>1, <1>3 DEF Sound, Settled
    <3> QED
      BY <3>1, <3>2 DEF HandleFields
  <2> HIDE DEF r
  <2>3. Sound(proc')
    BY <1>1, <1>3, <1>4, <2>1, <2>2, OpenSound
  <2> QED
    BY <1>2, <2>3, InvIdle
<1>5. ASSUME NEW mode \in {"local", "master"},
             proc' = Dial([proc EXCEPT !.handle[h] =
                       [Blank EXCEPT !.mem = "live", !.queued = TRUE, !.mode = mode,
                                     !.conn_state = "disconnected"]], h)
      PROVE  LifeInv'
  <2> DEFINE r == [Blank EXCEPT !.mem = "live", !.queued = TRUE, !.mode = mode,
                                !.conn_state = "disconnected"]
  <2>1. proc' = Dial(PutHandle(proc, h, r), h)
    BY <1>5 DEF PutHandle
  <2>2. r \in HandleFields /\ r.mem = "live" /\ r.redis_ctx = NoCtx
    <3>1. 0 \in 0..MaxPending
      BY <1>3, MemoryFields
    <3> QED
      BY <3>1 DEF HandleFields, Blank
  <2> HIDE DEF r
  <2>3. Sound(proc')
    BY <1>1, <1>3, <2>1, <2>2, OpenSound
  <2> QED
    BY <1>2, <2>3, InvIdle
<1> QED
  BY <1>4, <1>5 DEF Open

(* db_close starts a chain, or goes to its end if there is no context.     *)
LEMMA StepClose ==
  ASSUME LifeInv, Orderly, NEW h \in Handles, Close(h)
  PROVE  LifeInv'
<1> DEFINE c == proc.handle[h].redis_ctx
<1>1. Sound(proc) /\ Facts
  BY RunningFacts DEF Close
<1>2. Facts'
  BY <1>1 DEF Close, Facts
<1>3. proc \in Memory /\ proc.handle[h].mem = "live"
  BY <1>1 DEF Close, Sound, Live
<1>4. c \in Ctxs \cup {NoCtx} /\ NoCtx \notin Ctxs
  BY <1>3, MemoryFields
<1>5. CASE c = NoCtx
  <2>1. /\ task' = [kind |-> "close", h |-> h, ctx |-> NoCtx, up |-> FALSE, step |-> "rest"]
        /\ proc' = proc
    BY <1>5 DEF Close
  <2>2. /\ task' \in Tasks /\ task'.h = h /\ task'.ctx = NoCtx /\ task'.kind = "close"
        /\ task'.step = "rest"
    BY <2>1 DEF Tasks
  <2>3. SoundBut(proc, h, NoCtx) /\ Left(proc, h, NoCtx)
    BY <1>1, <1>3, <1>5 DEF Sound, SoundBut, Left
  <2>4. InChain(proc', task')
    BY <2>1, <2>2, <2>3 DEF InChain
  <2> QED
    BY <1>2, <2>4, InvChain
<1>6. CASE c # NoCtx
  <2>1. /\ task' = [kind |-> "close", h |-> h, ctx |-> c, step |-> "replies",
                    up |-> proc.ctx[c].state = "up"]
        /\ proc' = Leaves(proc, c)
    BY <1>6 DEF Close, Leaves
  <2>2. /\ task' \in Tasks /\ task'.h = h /\ task'.ctx = c /\ task'.kind = "close"
        /\ task'.step = "replies"
    BY <1>4, <2>1 DEF Tasks
  <2>3. c \in Ctxs /\ proc.ctx[c].data = h /\ proc.ctx[c].state # "free"
    <3>1. Settled(proc, h)
      BY <1>1 DEF Sound
    <3>2. proc.handle[h].conn_state \in {"init", "connecting", "connected", "disconnected"}
      BY <1>3, MemoryFields
    <3> QED
      BY <1>4, <1>6, <3>1, <3>2 DEF Settled
  <2>4. SoundBut(Leaves(proc, c), h, c) /\ Held(Leaves(proc, c), h, c)
    BY <1>1, <2>3, LeaveHeld
  <2>5. InChain(proc', task')
    BY <2>1, <2>2, <2>4 DEF InChain
  <2> QED
    BY <1>2, <2>5, InvChain
<1> QED
  BY <1>5, <1>6

(* The three changes of role.                                              *)
LEMMA StepRole ==
  ASSUME LifeInv, Orderly, BecomesSlave \/ BecomesMaster \/ NewRemoteServerIp
  PROVE  LifeInv'
<1>1. RoleMayChange
  BY DEF BecomesSlave, BecomesMaster, NewRemoteServerIp
<1>2. Sound(proc) /\ Facts
  BY <1>1, RunningFacts DEF RoleMayChange
<1>3. Sound(Stale(QuitAll(proc)))
  BY <1>1, <1>2, RoleSound DEF RoleMayChange, Orderly
<1>4. Sound(proc')
  BY <1>2, <1>3 DEF BecomesSlave, BecomesMaster, NewRemoteServerIp
<1>5. task' = Idle
  BY <1>1 DEF RoleMayChange, Running
<1>6. Facts'
  <2>1. calls' \in 0..MaxCalls /\ faults' \in 0..MaxFaults
    BY <1>1, <1>2, BoundsAssumption DEF RoleMayChange, Facts
  <2>2. local_is_master' \in BOOLEAN /\ remote_server_ip' \in Remotes
    BY <1>2 DEF Facts, BecomesSlave, BecomesMaster, NewRemoteServerIp
  <2> QED
    BY <2>1, <2>2 DEF Facts
<1> QED
  BY <1>4, <1>5, <1>6, InvIdle

(* db_connect_fn, REDIS_OK: the assertion in it holds.                     *)
LEMMA StepConnects ==
  ASSUME LifeInv, Orderly, NEW c \in Ctxs, Connects(c)
  PROVE  LifeInv'
<1>1. Sound(proc) /\ Facts
  BY RunningFacts DEF Connects
<1>2. Facts' /\ task' = Idle
  BY <1>1 DEF Connects, Facts, Running
<1> DEFINE h == proc.ctx[c].data
<1>3. proc.ctx[c].state = "connecting"
  BY DEF Connects
<1>4. h \in Handles /\ proc.handle[h].mem = "live" /\ proc.handle[h].redis_ctx = c
  BY <1>1, <1>3, OneOwner DEF Sound
<1>5. proc' = Up(proc, c)
  BY <1>4 DEF Connects, Up
<1>6. Sound(proc')
  BY <1>1, <1>3, <1>5, ConnectSound
<1> QED
  BY <1>2, <1>6, InvIdle

(* A reply of the server, and what the application does in its callback.   *)
LEMMA StepReplies ==
  ASSUME LifeInv, Orderly, NEW c \in Ctxs, Replies(c)
  PROVE  LifeInv'
<1> DEFINE h == proc.ctx[c].data
           w == Answered(proc, c)
<1>1. Sound(proc) /\ Facts /\ task' = Idle
  BY RunningFacts DEF Replies, Running
<1>2. proc.ctx[c].state = "up" /\ proc.ctx[c].wire # << >>
  BY DEF Replies
<1>3. Sound(w) /\ h \in Handles /\ w.handle[h].mem = "live" /\ w.handle[h].redis_ctx = c
  BY <1>1, <1>2, AnswerSound
<1>4. c # NoCtx
  BY <1>1, MemoryFields DEF Sound
<1>5. /\ proc' \in AppLeaves(w, h, "reply")
      /\ calls' = IF proc' = w THEN calls ELSE calls + 1
  BY DEF Replies, Callback
<1> HIDE DEF w, h
<1>6. Sound(proc') /\ (proc' = w \/ calls < MaxCalls)
  BY <1>3, <1>4, <1>5, ReplyCallback
<1>7. Facts'
  BY <1>1, <1>5, <1>6, CountsUp DEF Replies
<1> QED
  BY <1>1, <1>6, <1>7, InvIdle

(* A context begins to go away.                                            *)
LEMMA StepBreaks ==
  ASSUME LifeInv, Orderly, NEW c \in Ctxs, Lost(c) \/ ServerCloses(c) \/ ConnectFails(c)
  PROVE  LifeInv'
<1> DEFINE h == proc.ctx[c].data
<1>1. Sound(proc) /\ Facts
  BY RunningFacts DEF Lost, ServerCloses, ConnectFails, Breaks
<1>2. Facts'
  BY <1>1, BoundsAssumption DEF Facts, Lost, ServerCloses, ConnectFails, Breaks
<1>3. proc.ctx[c].state # "free" /\ proc' = Leaves(proc, c)
  BY DEF Lost, ServerCloses, ConnectFails, Breaks, Leaves
<1>4. h \in Handles /\ SoundBut(Leaves(proc, c), h, c) /\ Held(Leaves(proc, c), h, c)
  BY <1>1, <1>3, LeaveHeld
<1>5. task' \in {Chain("lose", c), Chain("fail", c)}
  BY DEF Lost, ServerCloses, ConnectFails, Breaks
<1>6. /\ task' \in Tasks /\ task'.h = h /\ task'.ctx = c /\ task'.up
      /\ \/ task'.kind = "lose" /\ task'.step = "replies"
         \/ task'.kind = "fail" /\ task'.step = "ctrl"
  <2>1. CASE task' = Chain("lose", c)
    <3>1. task' = [kind |-> "lose", h |-> h, ctx |-> c, up |-> TRUE, step |-> "replies"]
      BY <2>1 DEF Chain
    <3> HIDE DEF h
    <3> QED
      BY <1>4, <3>1 DEF Tasks
  <2>2. CASE task' = Chain("fail", c)
    <3>1. task' = [kind |-> "fail", h |-> h, ctx |-> c, up |-> TRUE, step |-> "ctrl"]
      BY <2>2 DEF Chain
    <3> HIDE DEF h
    <3> QED
      BY <1>4, <3>1 DEF Tasks
  <2> QED
    BY <1>5, <2>1, <2>2
<1> HIDE DEF h
<1>7. InChain(proc', task')
  BY <1>3, <1>4, <1>6 DEF InChain
<1> QED
  BY <1>2, <1>7, InvChain

(* Inside a chain the invariant says where the two stand.                  *)
LEMMA ChainFacts ==
  ASSUME LifeInv, NEW s, At(s)
  PROVE  InChain(proc, task) /\ Facts /\ task.step = s
  BY DEF LifeInv, At, Idle, Facts

(* A NULL reply for what was on the wire.                                  *)
LEMMA StepNullReply ==
  ASSUME LifeInv, Orderly, NullReply
  PROVE  LifeInv'
<1>1. InChain(proc, task) /\ Facts /\ task.step = "replies"
  BY ChainFacts DEF NullReply
<1>2. proc.ctx[task.ctx].wire # << >> /\ task' = task
  BY DEF NullReply
<1>3. InChain(Unwired(proc, task.ctx), task) /\ InChain(Answered(proc, task.ctx), task)
  BY <1>1, <1>2, ChainNull
<1>4. proc' \in {Unwired(proc, task.ctx), Answered(proc, task.ctx)} /\ calls' = calls
  <2>1. CASE Head(proc.ctx[task.ctx].wire) = "quit"
    BY <2>1 DEF NullReply
  <2>2. CASE Head(proc.ctx[task.ctx].wire) # "quit"
    <3> DEFINE w == Answered(proc, task.ctx)
    <3>1. Callback(w, task.h, "failure")
      BY <2>2 DEF NullReply
    <3>2. w \in Memory /\ task.h \in Handles /\ w.handle[task.h].mem = "live"
      BY <1>3 DEF InChain, SoundBut, Tasks, Held, Left, Replaced
    <3> HIDE DEF w
    <3>3. AppLeaves(w, task.h, "failure") = {w}
      BY <3>2, QuietCallback
    <3>4. proc' = w /\ calls' = calls
      BY <3>1, <3>3 DEF Callback
    <3> QED
      BY <3>4 DEF w
  <2> QED
    BY <2>1, <2>2
<1>5. InChain(proc', task')
  BY <1>2, <1>3, <1>4
<1>6. Facts'
  BY <1>1, <1>4 DEF NullReply, TaskRest, Facts
<1> QED
  BY <1>5, <1>6, InvChain

(* The next step of a chain concerns the same handle and context.          *)
LEMMA TaskGoes ==
  ASSUME NEW t \in Tasks, NEW s \in {"replies", "ctrl", "drain", "rest"}, NEW u,
         u = [t EXCEPT !.step = s]
  PROVE  /\ u \in Tasks /\ u.step = s /\ u.kind = t.kind /\ u.h = t.h /\ u.ctx = t.ctx
         /\ u.up = t.up
  BY DEF Tasks

(* The handle has left the context that hiredis has freed.                 *)
LEMMA DetachLeft ==
  ASSUME NEW w, NEW h \in Handles, NEW c, SoundBut(w, h, c), Held(w, h, c)
  PROVE  SoundBut(Detached(w, h, c), h, c) /\ Left(Detached(w, h, c), h, c)
<1> DEFINE v == Detached(w, h, c)
<1>1. /\ v \in Memory /\ v.crash = "no"
      /\ \A k \in Handles : k # h => Settled(v, k)
      /\ \A d \in Ctxs : Owned(v, d)
      /\ v.handle[h].redis_ctx = NoCtx
      /\ v.handle[h].mem = "live"
      /\ v.handle[h].conn_state = w.handle[h].conn_state
      /\ v.ctx[c].state = "free"
  BY DetachFacts, SMTT(60)
<1> HIDE DEF v
<1>2. SoundBut(v, h, c) /\ Left(v, h, c)
  BY <1>1 DEF SoundBut, Left
<1> QED
  BY <1>2 DEF v

(* The wire is empty: a failed connect is over, others go on.              *)
LEMMA StepNoMoreReplies ==
  ASSUME LifeInv, Orderly, NoMoreReplies
  PROVE  LifeInv'
<1>1. InChain(proc, task) /\ Facts /\ task.step = "replies"
  BY ChainFacts DEF NoMoreReplies
<1>2. Facts'
  BY <1>1 DEF NoMoreReplies, TaskRest, Facts
<1>3. task \in Tasks
  BY <1>1 DEF InChain
<1>4. CASE task.kind = "fail"
  <2>1. proc' = [proc EXCEPT !.ctx[task.ctx] = FreeCtx(task.h)] /\ task' = Idle
    BY <1>4 DEF NoMoreReplies
  <2>2. Sound(proc')
    BY <1>1, <1>4, <2>1, ChainFailed
  <2> QED
    BY <1>2, <2>1, <2>2, InvIdle
<1>5. CASE task.kind # "fail"
  <2> DEFINE s == IF task.up THEN "ctrl" ELSE "rest"
             v == Detached(proc, task.h, task.ctx)
  <2>1. /\ task' = [task EXCEPT !.step = s]
        /\ proc' = IF task.up THEN proc ELSE v
    BY <1>3, <1>5 DEF NoMoreReplies, Goto, Tasks
  <2>2. /\ task' \in Tasks /\ task'.step = s /\ task'.kind = task.kind
        /\ task'.h = task.h /\ task'.ctx = task.ctx /\ task'.up = task.up
    BY <1>3, <2>1, TaskGoes
  <2>3. /\ SoundBut(proc, task.h, task.ctx) /\ Held(proc, task.h, task.ctx)
        /\ task.kind \in {"lose", "close"} /\ (task.kind = "lose" => task.up)
    BY <1>1, <1>5 DEF InChain
  <2>4. CASE task.up
    <3>1. proc' = proc /\ s = "ctrl"
      BY <2>1, <2>4
    <3> HIDE DEF s, v
    <3>2. InChain(proc', task')
      BY <2>2, <2>3, <3>1 DEF InChain
    <3> QED
      BY <1>2, <3>2, InvChain
  <2>5. CASE ~task.up
    <3>1. task.h \in Handles
      BY <1>3 DEF Tasks
    <3>2. proc' = v /\ s = "rest" /\ task.kind = "close"
      BY <2>1, <2>3, <2>5
    <3>3. SoundBut(proc, task.h, task.ctx) /\ Held(proc, task.h, task.ctx)
      BY <2>3
    <3>5. SoundBut(v, task.h, task.ctx) /\ Left(v, task.h, task.ctx)
      BY <3>1, <3>3, DetachLeft
    <3> HIDE DEF s, v
    <3>6. InChain(proc', task')
      BY <2>2, <3>2, <3>5 DEF InChain
    <3> QED
      BY <1>2, <3>6, InvChain
  <2> QED
    BY <2>4, <2>5
<1> QED
  BY <1>4, <1>5

(* ctrl_cb, and the new connection after a failed one.                     *)
LEMMA StepCtrl ==
  ASSUME LifeInv, Orderly, Ctrl
  PROVE  LifeInv'
<1> DEFINE down == Down(proc, task.h)
<1>1. InChain(proc, task) /\ Facts /\ task.step = "ctrl" /\ Room(proc)
  BY ChainFacts DEF Ctrl
<1>2. /\ task \in Tasks /\ SoundBut(proc, task.h, task.ctx) /\ task.h \in Handles
      /\ Held(proc, task.h, task.ctx) /\ (task.kind = "lose" => task.up)
  BY <1>1 DEF InChain, Tasks
<1>3. proc \in Memory /\ proc.crash = "no" /\ proc.handle[task.h].mem = "live"
  BY <1>2 DEF SoundBut, Held
<1>4. AppLeaves(proc, task.h, "ctrl") = {proc}
  BY <1>2, <1>3, QuietCallback
<1>5. /\ proc' = IF task.kind = "fail" THEN Dial(down, task.h) ELSE down
      /\ calls' = calls
  BY <1>3, <1>4 DEF Ctrl, Down
<1>6. Facts'
  BY <1>1, <1>5 DEF Ctrl, TaskRest, Facts
<1>7. /\ SoundBut(down, task.h, task.ctx) /\ Held(down, task.h, task.ctx)
      /\ down.handle[task.h].conn_state = "disconnected"
      /\ down.ctx = proc.ctx
  BY <1>2, DownHeld
<1>8. task' = [task EXCEPT !.step = IF task.kind = "fail" THEN "replies" ELSE "drain"]
  BY DEF Ctrl, Goto
<1> HIDE DEF down
<1>9. CASE task.kind = "fail"
  <2>1. /\ task' \in Tasks /\ task'.step = "replies" /\ task'.kind = task.kind
        /\ task'.h = task.h /\ task'.ctx = task.ctx /\ task'.up = task.up
    BY <1>2, <1>8, <1>9, TaskGoes
  <2>2. Room(down)
    BY <1>1, <1>7 DEF Room
  <2>3. SoundBut(proc', task.h, task.ctx) /\ Replaced(proc', task.h, task.ctx)
    BY <1>2, <1>5, <1>7, <1>9, <2>2, DialReplaces
  <2>4. InChain(proc', task')
    BY <1>9, <2>1, <2>3 DEF InChain
  <2> QED
    BY <1>6, <2>4, InvChain
<1>10. CASE task.kind # "fail"
  <2>1. /\ task' \in Tasks /\ task'.step = "drain" /\ task'.kind = task.kind
        /\ task'.h = task.h /\ task'.ctx = task.ctx /\ task'.up = task.up
    BY <1>2, <1>8, <1>10, TaskGoes
  <2>2. task.kind \in {"lose", "close"}
    BY <1>2, <1>10 DEF Tasks
  <2>3. InChain(proc', task')
    BY <1>2, <1>5, <1>7, <1>10, <2>1, <2>2 DEF InChain
  <2> QED
    BY <1>6, <2>3, InvChain
<1> QED
  BY <1>9, <1>10

(* A failure callback in the middle of a drain.                            *)
LEMMA PopStep ==
  ASSUME InChain(proc, task), Facts, Orderly, TaskRest, UNCHANGED task,
         Callback(Dequeued(proc, task.h), task.h, "failure")
  PROVE  LifeInv'
<1> DEFINE w == Dequeued(proc, task.h)
<1>1. InChain(w, task)
  BY ChainDequeued
<1>2. w \in Memory /\ task.h \in Handles /\ w.handle[task.h].mem = "live"
  BY <1>1 DEF InChain, SoundBut, Tasks, Held, Left, Replaced
<1>3. Callback(w, task.h, "failure")
  OBVIOUS
<1> HIDE DEF w
<1>4. AppLeaves(w, task.h, "failure") = {w}
  BY <1>2, QuietCallback
<1>5. proc' = w /\ calls' = calls
  BY <1>3, <1>4 DEF Callback
<1>6. InChain(proc', task')
  BY <1>1, <1>5
<1>7. Facts'
  BY <1>5 DEF TaskRest, Facts
<1> QED
  BY <1>6, <1>7, InvChain

(* db_empty_cmd_queue in db_disconnect_fn, then redisAsyncFree.            *)
LEMMA StepDrain ==
  ASSUME LifeInv, Orderly, Drain
  PROVE  LifeInv'
<1>1. InChain(proc, task) /\ Facts /\ task.step = "drain"
  BY ChainFacts DEF Drain
<1>2. CASE proc.handle[task.h].pending > 0
  BY <1>1, <1>2, PopStep DEF Drain
<1>3. CASE ~(proc.handle[task.h].pending > 0)
  <2> DEFINE v == Detached(proc, task.h, task.ctx)
  <2>1. /\ task \in Tasks /\ task.h \in Handles /\ SoundBut(proc, task.h, task.ctx)
        /\ Held(proc, task.h, task.ctx) /\ task.kind \in {"lose", "close"}
        /\ proc.handle[task.h].conn_state = "disconnected"
    BY <1>1 DEF InChain, Tasks
  <2>2. /\ v \in Memory /\ v.crash = "no"
        /\ \A k \in Handles : k # task.h => Settled(v, k)
        /\ \A d \in Ctxs : Owned(v, d)
        /\ v.handle[task.h].redis_ctx = NoCtx /\ v.handle[task.h].mem = "live"
        /\ v.handle[task.h].conn_state = "disconnected"
        /\ v.ctx[task.ctx].state = "free"
    BY <2>1, DetachFacts
  <2>3. proc' = v /\ calls' = calls
    BY <1>3 DEF Drain
  <2> HIDE DEF v
  <2>4. Facts'
    BY <1>1, <2>3 DEF Drain, TaskRest, Facts
  <2>5. CASE task.kind = "lose"
    <3>1. task' = Idle
      BY <1>3, <2>5 DEF Drain
    <3>2. Settled(v, task.h)
      BY <2>2 DEF Settled
    <3>3. Sound(v)
      BY <2>2, <3>2 DEF Sound
    <3> QED
      BY <2>3, <2>4, <3>1, <3>3, InvIdle
  <2>6. CASE task.kind = "close"
    <3>1. task' = [task EXCEPT !.step = "rest"]
      BY <1>3, <2>6 DEF Drain, Goto
    <3>2. /\ task' \in Tasks /\ task'.step = "rest" /\ task'.kind = task.kind
          /\ task'.h = task.h /\ task'.ctx = task.ctx /\ task'.up = task.up
      BY <2>1, <3>1, TaskGoes
    <3>3. SoundBut(v, task.h, task.ctx) /\ Left(v, task.h, task.ctx)
      BY <2>2 DEF SoundBut, Left
    <3>4. InChain(proc', task')
      BY <2>3, <2>6, <3>2, <3>3 DEF InChain
    <3> QED
      BY <2>4, <3>4, InvChain
  <2> QED
    BY <2>1, <2>5, <2>6
<1> QED
  BY <1>2, <1>3

(* db_close finds the context gone.                                        *)
LEMMA CloseDetached ==
  ASSUME NEW w, NEW h \in Handles, NEW c, SoundBut(w, h, c), Left(w, h, c)
  PROVE  /\ w \in Memory /\ w.crash = "no" /\ w.handle[h].redis_ctx = NoCtx
         /\ \A k \in Handles : k # h => Settled(w, k)
         /\ \A d \in Ctxs : Owned(w, d)
<1>1. w \in Memory /\ NoCtx \notin Ctxs
  BY MemoryFields DEF SoundBut
<1>2. ASSUME NEW d \in Ctxs PROVE Owned(w, d)
  <2>1. CASE d = c
    BY <1>1, <2>1 DEF Left, Owned
  <2>2. CASE d # c
    BY <2>2 DEF SoundBut
  <2> QED
    BY <2>1, <2>2
<1> QED
  BY <1>2 DEF SoundBut, Left

(* The end of db_close.                                                    *)
LEMMA StepRest ==
  ASSUME LifeInv, Orderly, Rest
  PROVE  LifeInv'
<1>1. InChain(proc, task) /\ Facts /\ task.step = "rest"
  BY ChainFacts DEF Rest
<1>2. CASE proc.handle[task.h].pending > 0
  BY <1>1, <1>2, PopStep DEF Rest
<1>3. CASE ~(proc.handle[task.h].pending > 0)
  <2>1. /\ task \in Tasks /\ task.h \in Handles /\ SoundBut(proc, task.h, task.ctx)
        /\ Left(proc, task.h, task.ctx)
    BY <1>1 DEF InChain, Tasks
  <2>2. proc' = Freed(proc, task.h) /\ task' = Idle /\ calls' = calls
    BY <1>3 DEF Rest
  <2>3. /\ proc \in Memory /\ proc.crash = "no"
        /\ \A k \in Handles : k # task.h => Settled(proc, k)
        /\ \A d \in Ctxs : Owned(proc, d)
        /\ proc.handle[task.h].redis_ctx = NoCtx
    BY <2>1, CloseDetached
  <2>4. Sound(proc')
    BY <2>1, <2>2, <2>3, CloseSound
  <2>5. Facts'
    BY <1>1, <2>2 DEF Rest, TaskRest, Facts
  <2> QED
    BY <2>2, <2>4, <2>5, InvIdle
<1> QED
  BY <1>2, <1>3

-----------------------------------------------------------------------------
(* No handle is open at first.                                             *)
LEMMA InitInv ==
  ASSUME Orderly, Init
  PROVE  LifeInv
<1> DEFINE g == CHOOSE h \in Handles : TRUE
<1>1. g \in Handles
  BY DEF Orderly
<1>2. Facts
  <2>1. local_is_master = TRUE /\ remote_server_ip = ""
    BY DEF Init
  <2>2. MaxCalls \in Nat /\ MaxFaults \in Nat /\ calls = 0 /\ faults = 0
    BY BoundsAssumption DEF Init
  <2>3. local_is_master \in BOOLEAN
    BY <2>1
  <2>4. remote_server_ip \in Remotes
    BY <2>1 DEF Remotes
  <2>5. calls \in 0..MaxCalls /\ faults \in 0..MaxFaults
    BY <2>2
  <2> QED
    BY <2>3, <2>4, <2>5 DEF Facts
<1>3. /\ proc.handle = [h \in Handles |-> Blank] /\ proc.ctx = [c \in Ctxs |-> FreeCtx(g)]
      /\ proc.crash = "no" /\ task = Idle
      /\ proc = [handle |-> proc.handle, ctx |-> proc.ctx, crash |-> proc.crash]
  BY DEF Init
<1> HIDE DEF g
<1>4. FreeCtx(g) \in CtxFields /\ FreeCtx(g).state = "free"
  BY <1>1 DEF FreeCtx, CtxOf, CtxFields
<1>5. /\ Blank \in HandleFields /\ Blank.mem = "none" /\ Blank.conn_state = "init"
      /\ Blank.redis_ctx = NoCtx
  BY BoundsAssumption DEF Blank, HandleFields
<1>6. proc \in Memory
  BY <1>3, <1>4, <1>5 DEF Memory
<1>7. \A h \in Handles : Settled(proc, h)
  BY <1>3, <1>5 DEF Settled
<1>8. \A c \in Ctxs : Owned(proc, c)
  BY <1>3, <1>4 DEF Owned
<1>9. Sound(proc)
  BY <1>3, <1>6, <1>7, <1>8 DEF Sound
<1> QED
  BY <1>2, <1>3, <1>9 DEF LifeInv, Facts

(* Every step keeps LifeInv.                                               *)
LEMMA NextInv ==
  ASSUME Orderly, LifeInv, [Next]_vars
  PROVE  LifeInv'
<1>1. ASSUME NEW h \in Handles, Open(h) \/ Use(h) \/ Close(h)
      PROVE  LifeInv'
  BY <1>1, StepOpen, StepUse, StepClose
<1>2. CASE BecomesSlave \/ BecomesMaster \/ NewRemoteServerIp
  BY <1>2, StepRole
<1>3. ASSUME NEW c \in Ctxs,
             Connects(c) \/ Replies(c) \/ Lost(c) \/ ServerCloses(c) \/ ConnectFails(c)
      PROVE  LifeInv'
  BY <1>3, StepConnects, StepReplies, StepBreaks
<1>4. CASE Chained
  BY <1>4, StepNullReply, StepNoMoreReplies, StepCtrl, StepDrain, StepRest DEF Chained
<1>5. CASE UNCHANGED vars
  <2>1. /\ proc' = proc /\ task' = task /\ local_is_master' = local_is_master
        /\ remote_server_ip' = remote_server_ip /\ calls' = calls /\ faults' = faults
    BY <1>5 DEF vars
  <2>2. Facts'
    BY <2>1 DEF LifeInv, Facts
  <2> QED
    BY <2>1, <2>2, InvIdle, InvChain DEF LifeInv
<1> QED
  BY <1>1, <1>2, <1>3, <1>4, <1>5 DEF Next

(* LifeInv holds in every reachable state.                                 *)
THEOREM LifeInvariant == Orderly => (Spec => []LifeInv)
<1> SUFFICES ASSUME Orderly PROVE Spec => []LifeInv
  OBVIOUS
<1>1. Init => LifeInv
  BY InitInv
<1>2. LifeInv /\ [Next]_vars => LifeInv'
  BY NextInv
<1> QED
  BY <1>1, <1>2, PTL DEF Spec

(* Between two events every open context is the one its live handle uses,  *)
(* in the state that the handle says: none is leaked, none is shared.      *)
THEOREM ContextsOwned == Orderly => (Spec => []HandleOwnsContext)
<1> SUFFICES ASSUME Orderly PROVE Spec => []HandleOwnsContext
  OBVIOUS
<1>1. LifeInv => HandleOwnsContext
  <2> SUFFICES ASSUME LifeInv, Running PROVE HandleOwnsContext
    BY DEF HandleOwnsContext
  <2>1. Sound(proc)
    BY RunningFacts
  <2>2. /\ proc \in Memory /\ (\A h \in Handles : Settled(proc, h))
        /\ \A c \in Ctxs : Owned(proc, c)
    BY <2>1 DEF Sound
  <2>3. ASSUME NEW h \in Live(proc)
        PROVE  LET c == proc.handle[h].redis_ctx
               IN  CASE proc.handle[h].conn_state = "connected"  -> c # NoCtx /\ proc.ctx[c].state = "up"
                     [] proc.handle[h].conn_state = "connecting" -> c # NoCtx /\ proc.ctx[c].state = "connecting"
                     [] OTHER -> c = NoCtx
    <3>1. h \in Handles /\ Settled(proc, h)
      BY <2>2 DEF Live
    <3>2. proc.handle[h].conn_state \in {"init", "connecting", "connected", "disconnected"}
      BY <2>2, <3>1, MemoryFields
    <3>3. CASE proc.handle[h].conn_state = "connected"
      BY <3>1, <3>3 DEF Settled
    <3>4. CASE proc.handle[h].conn_state = "connecting"
      BY <3>1, <3>4 DEF Settled
    <3>5. CASE proc.handle[h].conn_state \in {"init", "disconnected"}
      BY <3>1, <3>5 DEF Settled
    <3> QED
      BY <3>2, <3>3, <3>4, <3>5
  <2>4. ASSUME NEW c \in Ctxs, proc.ctx[c].state # "free"
        PROVE  /\ proc.ctx[c].data \in Live(proc)
               /\ proc.handle[proc.ctx[c].data].redis_ctx = c
    BY <2>2, <2>4, OneOwner DEF Live
  <2> QED
    BY <2>3, <2>4 DEF HandleOwnsContext
<1>2. Spec => []LifeInv
  BY LifeInvariant
<1> QED
  BY <1>1, <1>2, PTL

(* The commands on the wire of a connected handle are those of its queue,  *)
(* whatever direct reads and "quit" stand between them; a context that is  *)
(* connecting has sent none.                                               *)
THEOREM QueueIsOnTheWire == Orderly => (Spec => []QueueMatchesWire)
<1> SUFFICES ASSUME Orderly PROVE Spec => []QueueMatchesWire
  OBVIOUS
<1>1. LifeInv => QueueMatchesWire
  <2> SUFFICES ASSUME LifeInv, Running, NEW h \in Live(proc),
                      proc.handle[h].redis_ctx # NoCtx
               PROVE  LET c == proc.handle[h].redis_ctx
                      IN  Sent(proc.ctx[c].wire) =
                            IF proc.ctx[c].state = "up" THEN proc.handle[h].pending ELSE 0
    BY DEF QueueMatchesWire, Sent, CmdsIn
  <2> DEFINE c == proc.handle[h].redis_ctx
  <2>1. Sound(proc)
    BY RunningFacts
  <2>2. /\ proc \in Memory /\ h \in Handles /\ Settled(proc, h)
        /\ \A d \in Ctxs : Owned(proc, d)
    BY <2>1 DEF Sound, Live
  <2>3. c \in Ctxs
    BY <2>2, MemoryFields
  <2>4. proc.ctx[c].data = h
    BY <2>2 DEF Settled
  <2>5. proc.ctx[c].state \in {"connecting", "up"}
    <3>1. proc.handle[h].conn_state \in {"init", "connecting", "connected", "disconnected"}
      BY <2>2, MemoryFields
    <3> QED
      BY <2>2, <3>1 DEF Settled
  <2>6. Owned(proc, c)
    BY <2>2, <2>3
  <2> QED
    BY <2>4, <2>5, <2>6 DEF Owned
<1>2. Spec => []LifeInv
  BY LifeInvariant
<1> QED
  BY <1>1, <1>2, PTL

(* Every variable keeps its type, and no handle points to a context that   *)
(* is gone or that is another's, also in the middle of a chain.            *)
THEOREM TypeCorrect == Orderly => (Spec => []TypeOK)
<1> SUFFICES ASSUME Orderly PROVE Spec => []TypeOK
  OBVIOUS
<1>1. LifeInv => TypeOK
  <2> SUFFICES ASSUME LifeInv PROVE TypeOK
    OBVIOUS
  <2>1. proc \in Memory
    BY DEF LifeInv, Sound, InChain, SoundBut
  <2>2. task.kind \in {"none", "lose", "fail", "close"}
    BY DEF LifeInv, InChain, Tasks, Idle
  <2>3. ASSUME NEW h \in Handles, Settled(proc, h), proc.handle[h].redis_ctx # NoCtx
        PROVE  /\ proc.ctx[proc.handle[h].redis_ctx].state # "free"
               /\ proc.ctx[proc.handle[h].redis_ctx].data = h
    <3>1. proc.handle[h].conn_state \in {"init", "connecting", "connected", "disconnected"}
      BY <2>1, MemoryFields
    <3> QED
      BY <2>3, <3>1 DEF Settled
  <2>4. ASSUME NEW h \in Handles, proc.handle[h].redis_ctx # NoCtx
        PROVE  /\ proc.ctx[proc.handle[h].redis_ctx].state # "free"
               /\ proc.ctx[proc.handle[h].redis_ctx].data = h
    <3>1. CASE Settled(proc, h)
      BY <2>3, <2>4, <3>1
    <3>2. CASE ~Settled(proc, h)
      <4>1. InChain(proc, task) /\ task.h = h
        BY <3>2 DEF LifeInv, Sound, InChain, SoundBut
      <4>2. Held(proc, h, task.ctx)
        BY <2>4, <3>2, <4>1 DEF InChain, Left, Replaced
      <4> QED
        BY <4>2 DEF Held
    <3> QED
      BY <3>1, <3>2
  <2>5. /\ proc.handle \in [Handles -> HandleFields] /\ proc.ctx \in [Ctxs -> CtxFields]
        /\ proc.crash \in {"no", "uaf", "null", "assert"}
    BY <2>1 DEF Memory
  <2> QED
    BY <2>2, <2>4, <2>5 DEF TypeOK, LifeInv
<1>2. Spec => []LifeInv
  BY LifeInvariant
<1> QED
  BY <1>1, <1>2, PTL
=============================================================================
