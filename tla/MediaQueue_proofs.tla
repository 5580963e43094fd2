-------------------------- MODULE MediaQueue_proofs --------------------------
(***************************************************************************)
(* Proofs about MediaQueue, for any number of events and workers and any   *)
(* buffer, with and without --download-media: what a clean end of a sync   *)
(* leaves behind, and when the archive is called fresh.                    *)
(***************************************************************************)
EXTENDS MediaQueue, FiniteSetTheorems, TLAPS

\* Calls under way, jobs on their way into the channel, jobs with a worker.
Calls == {e \in Events : pc[e] \in Inside}
Putting == {e \in Events : pc[e] = "put"}
Busy == {w \in Workers : worker[w] = "busy"}

\* The counters count: handlers, and jobs wherever they are.
CountInv ==
  /\ Media => producers = Cardinality(Calls)
  /\ pending = Cardinality(Putting) + jobs + Cardinality(Busy)
  /\ ctx => made = finished + pending

\* Without --download-media there is no queue.
MediaInv == ~Media =>
  /\ accepting /\ pending = 0 /\ sync \notin {"look", "asleep"}
  /\ \A e \in Events : pc[e] \notin {"count", "put"}
  /\ \A w \in Workers : worker[w] = "idle"

\* Nothing is left behind the fence, and a clean end has passed it.
FenceInv ==
  /\ ~accepting => Calls = {} /\ pending = 0
  /\ sync \in {"check", "check2"} /\ Media => ~accepting
  /\ sync \in {"running", "ended"} => ~clean
  /\ sync \in {"remove", "removing", "workers", "returned"} /\ clean /\ Media => ~accepting
  /\ sync = "check2" /\ Media => queued = {} /\ ~limit

\* What Sync has waited for on its way down.
EndInv ==
  /\ sync \in {"removing", "workers", "returned"} => ~registered
  /\ sync \in {"workers", "returned"} => Calls = {}
  /\ sync = "returned" => WorkersGone

IInv == TypeOK /\ CountInv /\ MediaInv /\ FenceInv /\ EndInv

-----------------------------------------------------------------------------
(* Counting. *)

One(b) == IF b THEN 1 ELSE 0

\* Two sets that differ in one element at most.
LEMMA Moved ==
  ASSUME NEW S, IsFiniteSet(S), NEW T, NEW x, \A y : y # x => (y \in S <=> y \in T)
  PROVE  /\ IsFiniteSet(T) /\ Cardinality(S) \in Nat /\ Cardinality(T) \in Nat
         /\ Cardinality(T) = Cardinality(S) - One(x \in S) + One(x \in T)
<1>1. Cardinality(S) \in Nat  BY FS_CardinalityType
<1>2. CASE x \in S /\ x \notin T
  <2>1. T = S \ {x}  BY <1>2
  <2>2. IsFiniteSet(T) /\ Cardinality(T) = Cardinality(S) - 1  BY <1>2, <2>1, FS_RemoveElement
  <2>3. Cardinality(T) \in Nat  BY <2>2, FS_CardinalityType
  <2>. QED  BY <1>1, <1>2, <2>2, <2>3 DEF One
<1>3. CASE x \notin S /\ x \in T
  <2>1. T = S \cup {x}  BY <1>3
  <2>2. IsFiniteSet(T) /\ Cardinality(T) = Cardinality(S) + 1  BY <1>3, <2>1, FS_AddElement
  <2>. QED  BY <1>1, <1>3, <2>2 DEF One
<1>4. CASE T = S  BY <1>1, <1>4 DEF One
<1>5. (x \in S <=> x \in T) => T = S  OBVIOUS
<1>. QED  BY <1>2, <1>3, <1>4, <1>5

LEMMA Finite ==
  /\ IsFiniteSet(Calls) /\ IsFiniteSet(Putting) /\ IsFiniteSet(Busy)
  /\ Cardinality(Calls) \in Nat /\ Cardinality(Putting) \in Nat /\ Cardinality(Busy) \in Nat
<1>1. Calls \subseteq Events /\ Putting \subseteq Events /\ Busy \subseteq Workers
  BY DEF Calls, Putting, Busy
<1>2. IsFiniteSet(Calls) /\ IsFiniteSet(Putting) /\ IsFiniteSet(Busy)
  BY <1>1, FS_Subset, ConstantsAssumption
<1>. QED  BY <1>2, FS_CardinalityType

\* What a call, and a worker, counts for where it is.
CallsAt(p) == IF p \in Inside THEN 1 ELSE 0
PutsAt(p) == IF p = "put" THEN 1 ELSE 0
BusyAt(p) == IF p = "busy" THEN 1 ELSE 0

LEMMA Weights ==
  /\ \A p \in {"none", "refused", "done"} : CallsAt(p) = 0 /\ PutsAt(p) = 0
  /\ \A p \in {"begun", "count", "end"} : CallsAt(p) = 1 /\ PutsAt(p) = 0
  /\ CallsAt("put") = 1 /\ PutsAt("put") = 1
  /\ BusyAt("idle") = 0 /\ BusyAt("busy") = 1 /\ BusyAt("gone") = 0
BY DEF CallsAt, PutsAt, BusyAt, Inside

\* A call moves, and so does a worker.
LEMMA CallMoves ==
  ASSUME TypeOK, NEW e \in Events, NEW p, pc' = [pc EXCEPT ![e] = p]
  PROVE  /\ Cardinality(Calls') = Cardinality(Calls) - CallsAt(pc[e]) + CallsAt(p)
         /\ Cardinality(Putting') = Cardinality(Putting) - PutsAt(pc[e]) + PutsAt(p)
         /\ Cardinality(Calls') \in Nat /\ Cardinality(Putting') \in Nat
<1>1. pc'[e] = p /\ \A d \in Events : d # e => pc'[d] = pc[d]  BY DEF TypeOK
<1>2. /\ \A y : y # e => (y \in Calls <=> y \in Calls')
      /\ (e \in Calls) = (pc[e] \in Inside) /\ (e \in Calls') = (p \in Inside)
  BY <1>1 DEF Calls
<1>3. /\ \A y : y # e => (y \in Putting <=> y \in Putting')
      /\ (e \in Putting) = (pc[e] = "put") /\ (e \in Putting') = (p = "put")
  BY <1>1 DEF Putting
<1>4. /\ Cardinality(Calls') = Cardinality(Calls) - One(e \in Calls) + One(e \in Calls')
      /\ Cardinality(Calls') \in Nat
  BY <1>2, Finite, Moved
<1>5. /\ Cardinality(Putting') = Cardinality(Putting) - One(e \in Putting) + One(e \in Putting')
      /\ Cardinality(Putting') \in Nat
  BY <1>3, Finite, Moved
<1>. QED  BY <1>2, <1>3, <1>4, <1>5 DEF One, CallsAt, PutsAt

LEMMA WorkerMoves ==
  ASSUME TypeOK, NEW w \in Workers, NEW p, worker' = [worker EXCEPT ![w] = p]
  PROVE  /\ Cardinality(Busy') = Cardinality(Busy) - BusyAt(worker[w]) + BusyAt(p)
         /\ Cardinality(Busy') \in Nat
<1>1. worker'[w] = p /\ \A v \in Workers : v # w => worker'[v] = worker[v]  BY DEF TypeOK
<1>2. /\ \A y : y # w => (y \in Busy <=> y \in Busy')
      /\ (w \in Busy) = (worker[w] = "busy") /\ (w \in Busy') = (p = "busy")
  BY <1>1 DEF Busy
<1>3. /\ Cardinality(Busy') = Cardinality(Busy) - One(w \in Busy) + One(w \in Busy')
      /\ Cardinality(Busy') \in Nat
  BY <1>2, Finite, Moved
<1>. QED  BY <1>2, <1>3 DEF One, BusyAt

\* Who is counted makes the count positive.
LEMMA Some ==
  ASSUME TypeOK, CountInv
  PROVE  /\ pending = 0 => Putting = {} /\ jobs = 0 /\ Busy = {}
         /\ Media /\ producers = 0 => Calls = {}
         /\ \A e \in Events : pc[e] = "put" => pending > 0 /\ Cardinality(Putting) > 0
         /\ \A e \in Events : Media /\ pc[e] \in Inside => producers > 0
         /\ \A w \in Workers : worker[w] = "busy" => pending > 0
<1>1. jobs \in Nat  BY ConstantsAssumption DEF TypeOK
<1>2. /\ Cardinality(Calls) = 0 => Calls = {}
      /\ Cardinality(Putting) = 0 => Putting = {}
      /\ Cardinality(Busy) = 0 => Busy = {}
  BY Finite, FS_EmptySet
<1>3. /\ \A e \in Events : pc[e] = "put" => e \in Putting
      /\ \A e \in Events : pc[e] \in Inside => e \in Calls
      /\ \A w \in Workers : worker[w] = "busy" => w \in Busy
  BY DEF Putting, Calls, Busy
<1>. HIDE DEF Putting, Calls, Busy
<1>4. /\ Media => producers = Cardinality(Calls)
      /\ pending = Cardinality(Putting) + jobs + Cardinality(Busy)
  BY DEF CountInv
<1>5. pending = 0 => Cardinality(Putting) = 0 /\ jobs = 0 /\ Cardinality(Busy) = 0
  BY <1>1, <1>4, Finite
<1>6. ASSUME NEW e \in Events, pc[e] = "put" PROVE pending > 0 /\ Cardinality(Putting) > 0
  BY <1>1, <1>2, <1>3, <1>4, <1>6, Finite
<1>7. ASSUME NEW e \in Events, Media, pc[e] \in Inside PROVE producers > 0
  BY <1>2, <1>3, <1>4, <1>7, Finite
<1>8. ASSUME NEW w \in Workers, worker[w] = "busy" PROVE pending > 0
  BY <1>1, <1>2, <1>3, <1>4, <1>8, Finite
<1>. QED  BY <1>2, <1>4, <1>5, <1>6, <1>7, <1>8

\* The booleans are booleans.
LEMMA Booleans ==
  ASSUME TypeOK
  PROVE  /\ accepting \in BOOLEAN /\ changed \in BOOLEAN /\ ctx \in BOOLEAN /\ wctx \in BOOLEAN
         /\ quiet \in BOOLEAN /\ linked \in BOOLEAN /\ failed \in BOOLEAN /\ limit \in BOOLEAN
         /\ registered \in BOOLEAN /\ fresh \in BOOLEAN /\ clean \in BOOLEAN
BY DEF TypeOK

\* What a look at the limits changes.
LEMMA Outcome ==
  ASSUME TypeOK, NEW e \in Events, StoreMessage(e)
  PROVE  failed' \in BOOLEAN /\ limit' \in BOOLEAN /\ ctx' \in BOOLEAN /\ (ctx' => ctx)
<1>1. PICK out \in StoreOutcomes : failed' = out.failed /\ limit' = out.limit /\ ctx' = (ctx /\ ~out.limit)
  BY DEF StoreMessage
<1>2. \/ out = [failed |-> failed, limit |-> limit]
      \/ out = [failed |-> TRUE, limit |-> limit]
      \/ out = [failed |-> failed, limit |-> TRUE]
  BY DEF StoreOutcomes
<1>3. out.failed \in BOOLEAN /\ out.limit \in BOOLEAN
  <2>1. CASE out = [failed |-> failed, limit |-> limit]  BY <2>1, Booleans
  <2>2. CASE out = [failed |-> TRUE, limit |-> limit]  BY <2>2, Booleans
  <2>3. CASE out = [failed |-> failed, limit |-> TRUE]  BY <2>3, Booleans
  <2>. QED  BY <1>2, <2>1, <2>2, <2>3
<1>4. (ctx /\ ~out.limit) \in BOOLEAN  OBVIOUS
<1>. QED  BY <1>1, <1>3, <1>4

LEMMA NatFacts ==
  ASSUME TypeOK
  PROVE  /\ pending \in Nat /\ producers \in Nat /\ made \in Nat /\ finished \in Nat
         /\ jobs \in Nat /\ jobs <= Buffer /\ Buffer \in Nat
BY ConstantsAssumption DEF TypeOK

-----------------------------------------------------------------------------
(* Types. *)

LEMMA InitInv == Init => IInv
<1>. SUFFICES ASSUME Init PROVE IInv  OBVIOUS
<1>. USE DEF Init
<1>1. TypeOK
  <2>1. {accepting, changed, ctx, wctx, quiet, linked, failed, limit, registered, fresh, clean} \subseteq BOOLEAN
    OBVIOUS
  <2>2. jobs \in 0 .. Buffer  BY ConstantsAssumption
  <2>. QED  BY <2>1, <2>2 DEF TypeOK
<1>2. Calls = {} /\ Putting = {} /\ Busy = {}  BY DEF Calls, Putting, Busy, Inside
<1>3. CountInv  BY <1>2, FS_EmptySet DEF CountInv
<1>4. MediaInv /\ FenceInv /\ EndInv  BY DEF MediaInv, FenceInv, EndInv
<1>. QED  BY <1>1, <1>3, <1>4 DEF IInv

LEMMA TypeStep ==
  ASSUME IInv, [Next]_vars
  PROVE  TypeOK'
<1>. TypeOK /\ CountInv /\ MediaInv  BY DEF IInv
<1>. USE DEF queueVars, workerVars, limitVars, syncVars, syncRest, Goto
<1>1. ASSUME NEW e \in Events, Begin(e) PROVE TypeOK'
  <2>1. (changed \/ Media) \in BOOLEAN  OBVIOUS
  <2>2. changed' \in BOOLEAN /\ quiet' \in BOOLEAN  BY <1>1, <2>1, Booleans DEF Begin
  <2>3. producers' \in Nat  BY <1>1, NatFacts DEF Begin
  <2>4. pc' \in [Events -> Inside \cup {"none", "refused", "done"}]
    BY <1>1 DEF Begin, Inside, TypeOK
  <2>5. UNCHANGED <<queued, pending, accepting, jobs, workerVars, ctx, linked, limitVars, syncVars, made>>
    BY <1>1 DEF Begin
  <2>. QED  BY <2>2, <2>3, <2>4, <2>5 DEF TypeOK
<1>2. ASSUME NEW e \in Events, StoreMessage(e) PROVE TypeOK'
  <2>1. failed' \in BOOLEAN /\ limit' \in BOOLEAN /\ ctx' \in BOOLEAN
    BY <1>2, Outcome
  <2>. QED  BY <1>2, <2>1 DEF StoreMessage, Inside, TypeOK
<1>3. ASSUME NEW e \in Events, QueueAppState(e) \/ PersistAppState(e) PROVE TypeOK'
  BY <1>3 DEF QueueAppState, PersistAppState, Inside, TypeOK
<1>4. ASSUME NEW e \in Events, EnqueueCount(e) PROVE TypeOK'
  BY <1>4, NatFacts DEF EnqueueCount, Inside, TypeOK
<1>5. ASSUME NEW e \in Events, EnqueuePut(e) PROVE TypeOK'
  <2>1. pending > 0  BY <1>5, Some DEF EnqueuePut
  <2>2. pending' \in Nat /\ jobs' \in 0 .. Buffer
    BY <1>5, <2>1, NatFacts DEF EnqueuePut, PutKeepsCount
  <2>3. changed' \in BOOLEAN  BY <1>5, Booleans DEF EnqueuePut
  <2>. QED  BY <1>5, <2>2, <2>3 DEF EnqueuePut, Inside, TypeOK
<1>6. ASSUME NEW e \in Events, End(e) PROVE TypeOK'
  <2>1. Media => producers > 0  BY <1>6, Some DEF End, Inside
  <2>2. producers' \in Nat  BY <1>6, <2>1, NatFacts DEF End
  <2>. QED  BY <1>6, <2>2, ConstantsAssumption DEF End, EndWakes, TypeOK
<1>7. ASSUME NEW w \in Workers, Take(w) \/ Leave(w) PROVE TypeOK'
  <2>1. jobs' \in 0 .. Buffer  BY <1>7, NatFacts DEF Take, Leave
  <2>. QED  BY <1>7, <2>1 DEF Take, Leave, TypeOK
<1>8. ASSUME NEW w \in Workers, Finish(w) PROVE TypeOK'
  <2>1. pending > 0  BY <1>8, Some DEF Finish
  <2>2. pending' \in Nat /\ finished' \in Nat  BY <1>8, <2>1, NatFacts DEF Finish
  <2>. QED  BY <1>8, <2>2 DEF Finish, TypeOK
<1>9. CASE World
  BY <1>9 DEF World, TimePasses, Signal, ConnectionLost, TypeOK
<1>10. CASE Sync
  <2>1. CASE LoopEnds \/ LoopFails \/ Decide
    BY <2>1 DEF LoopEnds, LoopFails, Decide, TypeOK
  <2>2. CASE WaitIdleLook \/ WaitIdleWake
    BY <2>2 DEF WaitIdleLook, WaitIdleWake, TypeOK
  <2>3. CASE CheckPending \/ RecordFreshness
    <3>1. (~limit /\ ctx) \in BOOLEAN /\ (~failed /\ linked) \in BOOLEAN  OBVIOUS
    <3>2. clean' \in BOOLEAN /\ fresh' \in BOOLEAN
      BY <2>3, <3>1, Booleans DEF CheckPending, RecordFreshness
    <3>. QED  BY <2>3, <3>2 DEF CheckPending, RecordFreshness, TypeOK
  <2>4. CASE RemoveHandler \/ HandlerRemoved \/ StopWorkers
    <3>1. /\ (ctx /\ After("removing") # "returned") \in BOOLEAN
          /\ (ctx /\ After("workers") # "returned") \in BOOLEAN
      OBVIOUS
    <3>2. ctx' \in BOOLEAN /\ wctx' \in BOOLEAN /\ registered' \in BOOLEAN
      BY <2>4, <3>1, Booleans DEF RemoveHandler, HandlerRemoved, StopWorkers
    <3>3. After("remove") = "removing" /\ After("removing") = "workers" /\ After("workers") = "returned"
      BY DEF After
    <3>. QED  BY <2>4, <3>2, <3>3 DEF RemoveHandler, HandlerRemoved, StopWorkers, TypeOK
  <2>. QED  BY <1>10, <2>1, <2>2, <2>3, <2>4 DEF Sync
<1>11. CASE UNCHANGED vars  BY <1>11 DEF vars, TypeOK
<1>. QED
  BY <1>1, <1>2, <1>3, <1>4, <1>5, <1>6, <1>7, <1>8, <1>9, <1>10, <1>11
  DEF Next, Handle, Work

-----------------------------------------------------------------------------
(* The counters. *)

LEMMA CountStep ==
  ASSUME IInv, [Next]_vars
  PROVE  CountInv'
<1>. TypeOK /\ CountInv /\ MediaInv /\ FenceInv  BY DEF IInv
<1>. /\ Cardinality(Calls) \in Nat /\ Cardinality(Putting) \in Nat /\ Cardinality(Busy) \in Nat
     /\ pending \in Nat /\ producers \in Nat /\ made \in Nat /\ finished \in Nat /\ jobs \in Nat
  BY Finite, NatFacts
<1>. USE DEF queueVars, workerVars, limitVars, syncVars, syncRest, Goto
<1>. HIDE DEF Calls, Putting, Busy
<1>1. /\ UNCHANGED pc => UNCHANGED <<Calls, Putting>>
      /\ UNCHANGED worker => UNCHANGED Busy
  BY DEF Calls, Putting, Busy
<1>2. CASE UNCHANGED <<pc, worker, queueVars, made, finished>> /\ (ctx' => ctx)
  BY <1>1, <1>2 DEF CountInv
<1>3. ASSUME NEW e \in Events, Begin(e) PROVE CountInv'
  <2>1. PICK p \in {"refused", "begun"} :
          /\ pc[e] = "none" /\ pc' = [pc EXCEPT ![e] = p]
          /\ UNCHANGED <<worker, pending, jobs, made, finished, ctx>>
          /\ Media => producers' = producers + CallsAt(p)
    BY <1>3, Weights DEF Begin
  <2>2. /\ Cardinality(Calls') = Cardinality(Calls) - CallsAt("none") + CallsAt(p)
        /\ Cardinality(Putting') = Cardinality(Putting) - PutsAt("none") + PutsAt(p)
    BY <2>1, CallMoves
  <2>. QED  BY <1>1, <2>1, <2>2, Weights DEF CountInv
<1>4. ASSUME NEW e \in Events, StoreMessage(e) \/ QueueAppState(e) PROVE CountInv'
  <2>1. PICK p \in {"end", "count"} :
          /\ pc[e] = "begun" /\ pc' = [pc EXCEPT ![e] = p]
          /\ UNCHANGED <<worker, queueVars, made, finished>> /\ (ctx' => ctx)
    <3>1. CASE StoreMessage(e)
      <4>1. ctx' => ctx  BY <3>1, Outcome
      <4>2. \E p \in {"end", "count"} : pc' = [pc EXCEPT ![e] = p]  BY <3>1 DEF StoreMessage
      <4>. QED  BY <3>1, <4>1, <4>2 DEF StoreMessage
    <3>2. CASE QueueAppState(e)  BY <3>2 DEF QueueAppState
    <3>. QED  BY <1>4, <3>1, <3>2
  <2>2. /\ Cardinality(Calls') = Cardinality(Calls) - CallsAt("begun") + CallsAt(p)
        /\ Cardinality(Putting') = Cardinality(Putting) - PutsAt("begun") + PutsAt(p)
    BY <2>1, CallMoves
  <2>. QED  BY <1>1, <2>1, <2>2, Weights DEF CountInv
<1>5. ASSUME NEW e \in Events, EnqueueCount(e) PROVE CountInv'
  <2>1. /\ pc[e] = "count" /\ pc' = [pc EXCEPT ![e] = "put"]
        /\ pending' = pending + 1 /\ made' = made + 1
        /\ UNCHANGED <<worker, producers, jobs, finished, ctx>>
    BY <1>5 DEF EnqueueCount
  <2>2. /\ Cardinality(Calls') = Cardinality(Calls) - CallsAt("count") + CallsAt("put")
        /\ Cardinality(Putting') = Cardinality(Putting) - PutsAt("count") + PutsAt("put")
    BY <2>1, CallMoves
  <2>. QED  BY <1>1, <2>1, <2>2, Weights DEF CountInv
<1>6. ASSUME NEW e \in Events, EnqueuePut(e) PROVE CountInv'
  <2>1. PICK p \in {"begun", "end"} :
          /\ pc[e] = "put" /\ pc' = [pc EXCEPT ![e] = p]
          /\ UNCHANGED <<worker, producers, made, finished, ctx>>
          /\ \/ jobs' = jobs + 1 /\ pending' = pending
             \/ ~ctx /\ jobs' = jobs /\ pending' = pending - 1
    BY <1>6 DEF EnqueuePut, PutKeepsCount
  <2>2. /\ Cardinality(Calls') = Cardinality(Calls) - CallsAt("put") + CallsAt(p)
        /\ Cardinality(Putting') = Cardinality(Putting) - PutsAt("put") + PutsAt(p)
    BY <2>1, CallMoves
  <2>. QED  BY <1>1, <2>1, <2>2, Weights DEF CountInv
<1>7. ASSUME NEW e \in Events, End(e) PROVE CountInv'
  <2>1. /\ pc[e] = "end" /\ pc' = [pc EXCEPT ![e] = "done"]
        /\ Media => producers' = producers - 1
        /\ UNCHANGED <<worker, pending, jobs, made, finished, ctx>>
    BY <1>7 DEF End
  <2>2. /\ Cardinality(Calls') = Cardinality(Calls) - CallsAt("end") + CallsAt("done")
        /\ Cardinality(Putting') = Cardinality(Putting) - PutsAt("end") + PutsAt("done")
    BY <2>1, CallMoves
  <2>. QED  BY <1>1, <2>1, <2>2, Weights DEF CountInv
<1>8. ASSUME NEW w \in Workers, Take(w) PROVE CountInv'
  <2>1. /\ worker[w] = "idle" /\ worker' = [worker EXCEPT ![w] = "busy"] /\ jobs' = jobs - 1
        /\ UNCHANGED <<pc, pending, producers, made, finished, ctx>>
    BY <1>8 DEF Take
  <2>2. Cardinality(Busy') = Cardinality(Busy) - BusyAt("idle") + BusyAt("busy")
    BY <2>1, WorkerMoves
  <2>. QED  BY <1>1, <2>1, <2>2, Weights DEF CountInv
<1>9. ASSUME NEW w \in Workers, Finish(w) PROVE CountInv'
  <2>1. /\ worker[w] = "busy" /\ worker' = [worker EXCEPT ![w] = "idle"]
        /\ finished' = finished + 1 /\ pending' = pending - 1
        /\ UNCHANGED <<pc, jobs, producers, made, ctx>>
    BY <1>9 DEF Finish
  <2>2. Cardinality(Busy') = Cardinality(Busy) - BusyAt("busy") + BusyAt("idle")
    BY <2>1, WorkerMoves
  <2>. QED  BY <1>1, <2>1, <2>2, Weights DEF CountInv
<1>10. ASSUME NEW w \in Workers, Leave(w) PROVE CountInv'
  <2>1. /\ worker[w] = "idle" /\ worker' = [worker EXCEPT ![w] = "gone"]
        /\ UNCHANGED <<pc, queueVars, made, finished, ctx>>
    BY <1>10 DEF Leave
  <2>2. Cardinality(Busy') = Cardinality(Busy) - BusyAt("idle") + BusyAt("gone")
    BY <2>1, WorkerMoves
  <2>. QED  BY <1>1, <2>1, <2>2, Weights DEF CountInv
<1>11. CASE Sync \/ World \/ (\E e \in Events : PersistAppState(e)) \/ UNCHANGED vars
  <2>1. UNCHANGED <<pc, worker, pending, producers, jobs, made, finished>> /\ (ctx' => ctx)
    BY <1>11, Booleans
    DEF Sync, World, TimePasses, Signal, ConnectionLost, PersistAppState, LoopEnds, LoopFails, Decide, WaitIdleLook,
        WaitIdleWake, CheckPending, RecordFreshness, RemoveHandler, HandlerRemoved, StopWorkers, vars
  <2>. QED  BY <1>1, <2>1 DEF CountInv
<1>. QED
  BY <1>3, <1>4, <1>5, <1>6, <1>7, <1>8, <1>9, <1>10, <1>11 DEF Next, Handle, Work

-----------------------------------------------------------------------------
(* The fence and the end. *)

\* Behind the fence no call is under way.
LEMMA NobodyBehind ==
  ASSUME TypeOK, FenceInv
  PROVE  /\ ~accepting => \A e \in Events : pc[e] \notin Inside
         /\ sync \in {"workers", "returned"} /\ EndInv => \A e \in Events : pc[e] \notin Inside
BY DEF FenceInv, EndInv, Calls

LEMMA MediaStep ==
  ASSUME IInv, [Next]_vars
  PROVE  MediaInv'
<1>. SUFFICES ASSUME ~Media PROVE MediaInv'  BY DEF MediaInv
<1>. TypeOK /\ CountInv /\ MediaInv  BY DEF IInv
<1>. USE DEF MediaInv, queueVars, workerVars, limitVars, syncVars, syncRest, Goto
<1>1. ASSUME NEW e \in Events, Begin(e) \/ Handle(e) PROVE MediaInv'
  BY <1>1
  DEF Begin, Handle, StoreMessage, QueueAppState, EnqueueCount, EnqueuePut, End, TypeOK
<1>2. CASE Sync
  BY <1>2, Booleans
  DEF Sync, LoopEnds, LoopFails, Decide, NeedsWait, WaitIdleLook, WaitIdleWake, CheckPending, RecordFreshness,
      RemoveHandler, HandlerRemoved, StopWorkers, After
<1>3. CASE \/ World \/ UNCHANGED vars \/ (\E e \in Events : PersistAppState(e)) \/ (\E w \in Workers : Work(w))
  BY <1>3
  DEF World, TimePasses, Signal, ConnectionLost, PersistAppState, Work, Take, Finish, Leave, vars
<1>. QED  BY <1>1, <1>2, <1>3 DEF Next

LEMMA FenceStep ==
  ASSUME IInv, [Next]_vars
  PROVE  FenceInv'
<1>. TypeOK /\ CountInv /\ MediaInv /\ FenceInv  BY DEF IInv
<1>. USE DEF queueVars, workerVars, limitVars, syncVars, syncRest, Goto
<1>1. UNCHANGED pc => UNCHANGED Calls  BY DEF Calls
<1>2. ASSUME NEW e \in Events, Begin(e) PROVE FenceInv'
  <2>1. UNCHANGED <<accepting, pending, sync, clean, queued, limit>>  BY <1>2 DEF Begin
  <2>2. CASE ~accepting
    <3>1. Media  BY <2>2 DEF MediaInv
    <3>2. pc' = [pc EXCEPT ![e] = "refused"]  BY <1>2, <2>2, <3>1 DEF Begin
    <3>3. Calls' = {}  BY <2>2, <3>2 DEF FenceInv, Calls, Inside, TypeOK
    <3>. QED  BY <2>1, <3>3 DEF FenceInv
  <2>3. CASE accepting  BY <2>1, <2>3 DEF FenceInv
  <2>. QED  BY <2>2, <2>3
<1>3. ASSUME NEW e \in Events, Handle(e) PROVE FenceInv'
  <2>1. pc[e] \in Inside /\ UNCHANGED <<accepting, sync, clean>>
    BY <1>3 DEF Handle, StoreMessage, QueueAppState, EnqueueCount, EnqueuePut, End, Inside
  <2>2. accepting  BY <2>1, NobodyBehind
  <2>. QED  BY <2>1, <2>2 DEF FenceInv
<1>4. ASSUME NEW w \in Workers, Work(w) PROVE FenceInv'
  <2>1. UNCHANGED <<pc, accepting, sync, clean, queued, limit>> /\ (UNCHANGED pending \/ worker[w] = "busy")
    BY <1>4 DEF Work, Take, Finish, Leave
  <2>2. ~accepting => UNCHANGED pending  BY <2>1, Some, NatFacts DEF FenceInv
  <2>. QED  BY <1>1, <2>1, <2>2 DEF FenceInv
<1>5. CASE World \/ UNCHANGED vars \/ \E e \in Events : PersistAppState(e)
  <2>1. UNCHANGED <<pc, accepting, pending, sync, clean, limit>> /\ queued' \subseteq queued
    BY <1>5 DEF World, TimePasses, Signal, ConnectionLost, PersistAppState, vars
  <2>. QED  BY <1>1, <2>1 DEF FenceInv
<1>6. CASE WaitIdleLook
  <2>1. Idle /\ Media => Calls = {} /\ pending = 0  BY Some DEF Idle
  <2>2. Media  BY <1>6 DEF WaitIdleLook, MediaInv
  <2>3. /\ sync = "look" /\ accepting' = (accepting /\ ~Idle) /\ sync' = IF Idle THEN "check" ELSE "asleep"
        /\ UNCHANGED <<pc, pending, clean>>
    BY <1>6 DEF WaitIdleLook
  <2>4. CASE Idle  BY <1>1, <2>1, <2>2, <2>3, <2>4 DEF FenceInv
  <2>5. CASE ~Idle  BY <1>1, <2>3, <2>5 DEF FenceInv
  <2>. QED  BY <2>4, <2>5
<1>7. CASE Sync /\ ~WaitIdleLook
  <2>1. UNCHANGED <<pc, queued, pending, accepting, limit>>
    BY <1>7
    DEF Sync, LoopEnds, LoopFails, Decide, WaitIdleWake, CheckPending, RecordFreshness, RemoveHandler, HandlerRemoved,
        StopWorkers
  <2>2. CASE LoopEnds \/ LoopFails \/ Decide
    BY <1>1, <2>1, <2>2 DEF LoopEnds, LoopFails, Decide, NeedsWait, FenceInv
  <2>3. CASE WaitIdleWake \/ CheckPending \/ RecordFreshness
    BY <1>1, <2>1, <2>3 DEF WaitIdleWake, CheckPending, RecordFreshness, FenceInv
  <2>4. CASE RemoveHandler \/ HandlerRemoved \/ StopWorkers
    BY <1>1, <2>1, <2>4 DEF RemoveHandler, HandlerRemoved, StopWorkers, After, FenceInv
  <2>. QED  BY <1>7, <2>2, <2>3, <2>4 DEF Sync
<1>. QED  BY <1>2, <1>3, <1>4, <1>5, <1>6, <1>7 DEF Next

LEMMA EndStep ==
  ASSUME IInv, [Next]_vars
  PROVE  EndInv'
<1>. TypeOK /\ FenceInv /\ EndInv  BY DEF IInv
<1>. USE DEF queueVars, workerVars, limitVars, syncVars, syncRest, Goto
<1>1. UNCHANGED pc => UNCHANGED Calls  BY DEF Calls
<1>2. UNCHANGED worker => UNCHANGED WorkersGone  BY DEF WorkersGone
<1>3. ASSUME NEW e \in Events, Begin(e) \/ Handle(e) PROVE EndInv'
  <2>1. (registered \/ pc[e] \in Inside) /\ UNCHANGED <<sync, registered, worker>>
    BY <1>3 DEF Begin, Handle, StoreMessage, QueueAppState, EnqueueCount, EnqueuePut, End, Inside
  <2>2. sync \notin {"workers", "returned"}  BY <2>1, NobodyBehind DEF EndInv
  <2>. QED  BY <1>2, <2>1, <2>2 DEF EndInv
<1>4. ASSUME NEW w \in Workers, Work(w) PROVE EndInv'
  <2>1. UNCHANGED <<pc, sync, registered>>  BY <1>4 DEF Work, Take, Finish, Leave
  <2>2. WorkersGone => WorkersGone'
    BY <1>4 DEF Work, Take, Finish, Leave, WorkersGone, TypeOK
  <2>. QED  BY <1>1, <2>1, <2>2 DEF EndInv
<1>5. CASE World \/ UNCHANGED vars \/ \E e \in Events : PersistAppState(e)
  <2>1. UNCHANGED <<pc, sync, registered, worker>>
    BY <1>5 DEF World, TimePasses, Signal, ConnectionLost, PersistAppState, vars
  <2>. QED  BY <1>1, <1>2, <2>1 DEF EndInv
<1>6. CASE Sync
  <2>1. UNCHANGED <<pc, worker>>
    BY <1>6
    DEF Sync, LoopEnds, LoopFails, Decide, WaitIdleLook, WaitIdleWake, CheckPending, RecordFreshness, RemoveHandler,
        HandlerRemoved, StopWorkers
  <2>2. CASE HandlerRemoved
    <3>1. Calls = {}  BY <2>2 DEF HandlerRemoved, Calls
    <3>. QED  BY <1>1, <2>1, <2>2, <3>1 DEF HandlerRemoved, After, EndInv
  <2>3. CASE RemoveHandler \/ StopWorkers
    BY <1>1, <1>2, <2>1, <2>3 DEF RemoveHandler, StopWorkers, After, EndInv
  <2>4. CASE LoopEnds \/ LoopFails \/ Decide \/ WaitIdleLook \/ WaitIdleWake \/ CheckPending \/ RecordFreshness
    BY <1>1, <1>2, <2>1, <2>4
    DEF LoopEnds, LoopFails, Decide, WaitIdleLook, WaitIdleWake, CheckPending, RecordFreshness, EndInv
  <2>. QED  BY <1>6, <2>2, <2>3, <2>4 DEF Sync
<1>. QED  BY <1>3, <1>4, <1>5, <1>6 DEF Next

-----------------------------------------------------------------------------
LEMMA StepInv == ASSUME IInv, [Next]_vars PROVE IInv'
BY TypeStep, CountStep, MediaStep, FenceStep, EndStep DEF IInv

\* The inductive invariant holds in every reachable state.
THEOREM Invariance == Spec => []IInv
<1>1. IInv /\ [Next]_vars => IInv'  BY StepInv
<1>. QED  BY InitInv, <1>1, PTL DEF Spec

\* The variables keep their types: the counts of handlers and jobs are never negative
\* and the channel holds no more than its buffer.
THEOREM TypeCorrect == Spec => []TypeOK
<1>1. IInv => TypeOK  BY DEF IInv
<1>. QED  BY <1>1, Invariance, PTL

\* A clean end has passed the fence; behind it no handler runs and no job is left, and
\* once Sync has returned no handler and no worker runs.
THEOREM EndIsQuietAlways == Spec => []EndIsQuiet
<1>1. ASSUME IInv PROVE EndIsQuiet
  <2>. TypeOK /\ CountInv /\ MediaInv /\ FenceInv /\ EndInv  BY <1>1 DEF IInv
  <2>1. ~accepting => jobs = 0 /\ \A w \in Workers : worker[w] # "busy"
    BY Some DEF FenceInv, Busy
  <2>2. ~accepting /\ ctx => finished = made
    BY NatFacts DEF FenceInv, CountInv
  <2>3. FenceIsFinal  BY <2>1, <2>2, NobodyBehind DEF FenceIsFinal, FenceInv
  <2>4. ReturnIsQuiet  BY NobodyBehind DEF ReturnIsQuiet, EndInv, WorkersGone
  <2>. QED  BY <2>3, <2>4 DEF EndIsQuiet
<1>. QED  BY <1>1, Invariance, PTL

\* With --download-media the archive is called fresh only behind the fence: all that was
\* received is stored.
THEOREM FreshIsCompleteAlways == ASSUME Media PROVE Spec => FreshIsComplete
<1>1. ASSUME IInv, [Next]_vars, fresh', ~fresh
      PROVE  (\A e \in Events : pc[e] \notin Inside) /\ queued = {} /\ ~failed /\ ~limit
  <2>. TypeOK /\ FenceInv  BY <1>1 DEF IInv
  <2>1. RecordFreshness
    BY <1>1
    DEF Next, Begin, Handle, StoreMessage, QueueAppState, PersistAppState, EnqueueCount, EnqueuePut, End, Work, Take, Finish,
        Leave, World, TimePasses, Signal, ConnectionLost, Sync, LoopEnds, LoopFails, Decide, WaitIdleLook, WaitIdleWake,
        CheckPending, RemoveHandler, HandlerRemoved, StopWorkers, syncVars, vars
  <2>2. sync = "check2" /\ ~failed  BY <1>1, <2>1 DEF RecordFreshness
  <2>. QED  BY <2>2, NobodyBehind DEF FenceInv
<1>2. IInv /\ [Next]_vars =>
        [fresh' /\ ~fresh => (\A e \in Events : pc[e] \notin Inside) /\ queued = {} /\ ~failed /\ ~limit]_vars
  BY <1>1
<1>. QED  BY <1>2, Invariance, PTL DEF FreshIsComplete, Spec
=============================================================================
