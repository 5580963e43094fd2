-------------------------- MODULE AppStateSequencer --------------------------
(***************************************************************************)
(* appStatePersistenceSequencer (internal/app/app_state.go).               *)
(*                                                                         *)
(* App state reaches the store from live events, manual fetches, primary   *)
(* recovery snapshots and local writes.  Each reserves a ticket when its   *)
(* place in the order is known and completes it with a task later, from    *)
(* any goroutine.  Whoever completes the ticket that is next drains the    *)
(* queue in its own goroutine, up to a frontier fixed under the mutex, and *)
(* hands what became ready behind it to a goroutine.  Each stretch between *)
(* Lock and Unlock is one action.                                          *)
(***************************************************************************)
EXTENDS Naturals, Sequences, FiniteSets

CONSTANTS MaxTickets,   \* bound: tickets reserved over the life of the App
          Kinds         \* the kinds of holders there are

\* live: event handlers (reserveLive, completeOne, no wait).  fetch: manual
\* fetches, whose wait ends with their context.  local: local writes, failed
\* or done, and recoveries, which wait without one.  release: a snapshot's
\* ticket nobody needs (complete with an empty task, no wait).
ASSUME MaxTicketsAssumption == MaxTickets \in Nat
ASSUME KindsAssumption == Kinds \subseteq {"live", "fetch", "local", "release"}

Tickets == 0 .. MaxTickets - 1
\* A drain runs in the goroutine that completed ticket `by`, or in one of its own.
HandedOff == MaxTickets

VARIABLES
  next,      \* next ticket
  serving,   \* ticket whose task runs next
  running,   \* a drain is under way
  changed,   \* which `changed` channel is current: closed channels so far
  task,      \* task[t]: "absent" from the map, "reserved" or "ready"
  kind,      \* kind[t]: who holds the ticket
  pc,        \* pc[t]: what its holder is doing
  frontier,  \* frontier[t]: what complete told the holder to wait for
  seen,      \* seen[t]: the channel the holder sleeps on
  drains,    \* the drainThrough calls under way
  closer,    \* App.Close
  closerSeen,\* the channel Close sleeps on
  ran,       \* history: tickets whose task ran
  arrived    \* history: arrived[t]: live events dispatched right behind t
             \* while its holder was still working

queueVars == <<next, serving, running, task, drains>>
holderVars == <<kind, pc, frontier, seen>>
closeVars == <<closer, closerSeen>>
vars == <<queueVars, holderVars, changed, closeVars, ran, arrived>>

BlocksEarlier(t) == kind[t] = "live"
IncludesSuccessors(t) == kind[t] # "live"
Waits(t) == kind[t] \in {"fetch", "local"}

Init ==
  /\ next = 0 /\ serving = 0 /\ running = FALSE /\ changed = 0
  /\ task = [t \in Tickets |-> "absent"]
  /\ kind = [t \in Tickets |-> "live"]
  /\ pc = [t \in Tickets |-> "none"]
  /\ frontier = [t \in Tickets |-> 0]
  /\ seen = [t \in Tickets |-> 0]
  /\ drains = {}
  /\ closer = "open" /\ closerSeen = 0
  /\ ran = <<>>
  /\ arrived = [t \in Tickets |-> {}]

-----------------------------------------------------------------------------
(* Reserving and completing. *)

\* Events dispatched behind t with only live events in between.
RightBehind(t, k) == k = "live" /\ \A u \in t + 1 .. next - 1 : BlocksEarlier(u)

\* reserveTask.  Nothing is reserved once the store is closed.
Reserve(k) ==
  /\ next < MaxTickets
  /\ closer # "closed"
  /\ next' = next + 1
  /\ task' = [task EXCEPT ![next] = "reserved"]
  /\ kind' = [kind EXCEPT ![next] = k]
  /\ pc' = [pc EXCEPT ![next] = "held"]
  /\ arrived' = [t \in Tickets |->
       IF pc[t] = "held" /\ Waits(t) /\ RightBehind(t, k) THEN arrived[t] \cup {next} ELSE arrived[t]]
  /\ UNCHANGED <<serving, running, drains, frontier, seen, changed, closeVars, ran>>

Ready(u) == task[u] = "ready"

\* Mutant: a wait that does not reach over live events still being persisted.
StopsAtUnready(t, w) ==
  /\ w \in t .. next - 1
  /\ \A u \in t + 1 .. w : Ready(u)
  /\ w + 1 < next => ~Ready(w + 1)
\* The end of the run of tasks right behind t that are ready...
IsDrainFrontier(t, w) ==
  /\ w \in t .. next - 1
  /\ \A u \in t + 1 .. w : Ready(u)
  /\ w + 1 < next => ~Ready(w + 1)
\* ...and of those that are ready or belong to a live event.
IsWaitFrontier(t, w) ==
  IF IncludesSuccessors(t)
  THEN /\ w \in t .. next - 1
       /\ \A u \in t + 1 .. w : Ready(u) \/ BlocksEarlier(u)
       /\ w + 1 < next => ~(Ready(w + 1) \/ BlocksEarlier(w + 1))
  ELSE w = t

StartsDrain(t) == ~running /\ t = serving

\* completeTask, up to its Unlock; drainThrough follows in the same goroutine.
Complete(t) ==
  /\ pc[t] = "held"
  /\ task' = [task EXCEPT ![t] = "ready"]
  /\ \E w \in Tickets : /\ IsWaitFrontier(t, w)
                         /\ frontier' = [frontier EXCEPT ![t] = IF Waits(t) THEN w ELSE @]
  /\ \/ /\ StartsDrain(t)
        /\ running' = TRUE
        /\ \E w \in Tickets :
             /\ IsDrainFrontier(t, w)
             /\ drains' = drains \cup {[by |-> t, at |-> "loop", task |-> t, until |-> w]}
     \/ ~StartsDrain(t) /\ UNCHANGED <<running, drains>>
  /\ pc' = [pc EXCEPT ![t] = IF Waits(t) THEN "wait" ELSE "done"]
  /\ UNCHANGED <<next, serving, kind, seen, changed, closeVars, ran, arrived>>

-----------------------------------------------------------------------------
(* drainThrough. *)

HandsOff == serving < next /\ task[serving] = "ready"

HandOffFrontier == next - 1

\* The frontier is passed: stop, or hand the rest to a goroutine.
DrainEnd(d) ==
  /\ d.at = "loop"
  /\ serving > d.until
  /\ running' = HandsOff
  /\ drains' = (drains \ {d}) \cup
       IF HandsOff THEN {[by |-> HandedOff, at |-> "loop", task |-> serving, until |-> HandOffFrontier]} ELSE {}
  /\ UNCHANGED <<next, serving, task, holderVars, changed, closeVars, ran, arrived>>

\* The next task is not there yet: whoever completes it drains.
DrainStop(d) ==
  /\ d.at = "loop"
  /\ serving <= d.until
  /\ ~Ready(serving)
  /\ running' = FALSE
  /\ drains' = drains \ {d}
  /\ UNCHANGED <<next, serving, task, holderVars, changed, closeVars, ran, arrived>>

\* The drain d, further on in its loop.
Moved(d, where, t) == [by |-> d.by, at |-> where, task |-> t, until |-> d.until]

DrainTake(d) ==
  /\ d.at = "loop"
  /\ serving <= d.until
  /\ Ready(serving)
  /\ drains' = (drains \ {d}) \cup {Moved(d, "run", serving)}
  /\ UNCHANGED <<next, serving, running, task, holderVars, changed, closeVars, ran, arrived>>

\* task.run(), outside the mutex.
DrainRun(d) ==
  /\ d.at = "run"
  /\ ran' = Append(ran, d.task)
  /\ drains' = (drains \ {d}) \cup {Moved(d, "ran", d.task)}
  /\ UNCHANGED <<next, serving, running, task, holderVars, changed, closeVars, arrived>>

\* Mutant: the sleepers are not woken.
WakesNobody == changed
WakesSleepers == changed + 1

DrainAdvance(d) ==
  /\ d.at = "ran"
  /\ task' = [task EXCEPT ![serving] = "absent"]
  /\ serving' = serving + 1
  /\ changed' = WakesSleepers
  /\ drains' = (drains \ {d}) \cup {Moved(d, "loop", d.task)}
  /\ UNCHANGED <<next, running, holderVars, closeVars, ran, arrived>>

DrainStep == \E d \in drains : DrainEnd(d) \/ DrainStop(d) \/ DrainTake(d) \/ DrainRun(d) \/ DrainAdvance(d)

-----------------------------------------------------------------------------
(* waitThrough and waitIdle. *)

Draining(t) == \E d \in drains : d.by = t

\* Mutant: the frontier's own task is not waited for.
PassedEarly(f) == serving >= f
Passed(f) == serving > f

\* waitThrough returns; its locals are gone.
Leave(t, how) ==
  /\ pc' = [pc EXCEPT ![t] = how]
  /\ frontier' = [frontier EXCEPT ![t] = 0]
  /\ seen' = [seen EXCEPT ![t] = 0]

\* waitThrough looks, after the drain in its own goroutine is over.
WaitLook(t) ==
  /\ pc[t] = "wait"
  /\ ~Draining(t)
  /\ \/ /\ Passed(frontier[t])
        /\ Leave(t, "done")
     \/ /\ ~Passed(frontier[t])
        /\ pc' = [pc EXCEPT ![t] = "asleep"]
        /\ seen' = [seen EXCEPT ![t] = changed]
        /\ UNCHANGED frontier
  /\ UNCHANGED <<queueVars, kind, changed, closeVars, ran, arrived>>

WaitWake(t) ==
  /\ pc[t] = "asleep"
  /\ changed # seen[t]
  /\ pc' = [pc EXCEPT ![t] = "wait"]
  /\ seen' = [seen EXCEPT ![t] = 0]
  /\ UNCHANGED <<queueVars, kind, frontier, changed, closeVars, ran, arrived>>

\* The context of a manual fetch ends; the task it handed in stays queued.
WaitCancel(t) ==
  /\ pc[t] = "asleep"
  /\ kind[t] = "fetch"
  /\ Leave(t, "cancelled")
  /\ UNCHANGED <<queueVars, kind, changed, closeVars, ran, arrived>>

Idle == serving = next

CloseBegin ==
  /\ closer = "open"
  /\ closer' = "wait"
  /\ UNCHANGED <<queueVars, holderVars, changed, closerSeen, ran, arrived>>

CloseLook ==
  /\ closer = "wait"
  /\ \/ Idle /\ closer' = "closed" /\ UNCHANGED closerSeen
     \/ ~Idle /\ closer' = "asleep" /\ closerSeen' = changed
  /\ UNCHANGED <<queueVars, holderVars, changed, ran, arrived>>

CloseWake ==
  /\ closer = "asleep"
  /\ changed # closerSeen
  /\ closer' = "wait"
  /\ closerSeen' = 0
  /\ UNCHANGED <<queueVars, holderVars, changed, ran, arrived>>

-----------------------------------------------------------------------------
Holder(t) == Complete(t) \/ WaitLook(t) \/ WaitWake(t)

Next ==
  \/ \E k \in Kinds : Reserve(k)
  \/ \E t \in Tickets : Holder(t) \/ WaitCancel(t)
  \/ DrainStep
  \/ CloseBegin \/ CloseLook \/ CloseWake

Spec == Init /\ [][Next]_vars

\* Goroutines run on a fair scheduler; every holder completes its ticket: an
\* event handler right away, a fetch when it returns, a snapshot's in stop.
Fairness ==
  /\ WF_vars(DrainStep)
  /\ \A t \in Tickets : WF_vars(Holder(t))
  /\ WF_vars(CloseLook \/ CloseWake)
FairSpec == Spec /\ Fairness

-----------------------------------------------------------------------------
(* What the sequencer promises. *)

Drains == [by : Tickets \cup {HandedOff}, at : {"loop", "run", "ran"}, task : Tickets, until : Tickets]

TypeOK ==
  /\ next \in 0 .. MaxTickets /\ serving \in 0 .. MaxTickets /\ changed \in Nat
  /\ running \in BOOLEAN
  /\ task \in [Tickets -> {"absent", "reserved", "ready"}]
  /\ kind \in [Tickets -> Kinds \cup {"live"}]
  /\ pc \in [Tickets -> {"none", "held", "wait", "asleep", "done", "cancelled"}]
  /\ frontier \in [Tickets -> Tickets \cup {0}]
  /\ seen \in [Tickets -> Nat]
  /\ drains \subseteq Drains
  /\ closer \in {"open", "wait", "asleep", "closed"} /\ closerSeen \in Nat
  /\ ran \in Seq(Tickets)
  /\ arrived \in [Tickets -> SUBSET Tickets]

\* There is never a second drain, and `running` says whether there is one:
\* completion, hand-off and stop agree on it across goroutines.
OneDrain ==
  /\ Cardinality(drains) <= 1
  /\ running <=> drains # {}

\* Tasks run once each, in the order their tickets were reserved.
InOrder == \A i \in 1 .. Len(ran) : ran[i] = i - 1

\* No wakeup is lost: a task that is next and ready has a drain on its way.
NoStall == serving < next /\ Ready(serving) => running

\* complete's result is in its channel when waitThrough returns.
ReturnsAfterRun == \A t \in Tickets : pc[t] = "done" /\ Waits(t) => t < Len(ran)

\* A write that returns does not overtake a live event that was dispatched
\* while it was still being prepared.
SeesLiveEvents == \A t \in Tickets : pc[t] = "done" /\ Waits(t) => \A u \in arrived[t] : u < Len(ran)

\* Close lets go of the database only when nothing reserved is still to run.
ClosedIsDrained == closer = "closed" => Len(ran) = next /\ \A d \in drains : d.at = "loop"

\* The abstract promise.
Writes == INSTANCE OrderedWrites WITH
  issued <- next,
  ready <- {t \in Tickets : t < next /\ (t < serving \/ task[t] = "ready")},
  log <- ran,
  returned <- {t \in Tickets : pc[t] = "done" /\ Waits(t)},
  closed <- closer = "closed"
WritesSafety == Writes!Spec

\* A write that waits without a deadline returns: no holder waits for another
\* in a circle, and nothing that is asleep is forgotten.
EveryWaitEnds == \A t \in Tickets : pc[t] = "wait" ~> pc[t] \in {"done", "cancelled"}

\* Close returns.
CloseEnds == closer = "wait" ~> closer = "closed"
=============================================================================
