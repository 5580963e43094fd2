----------------------------- MODULE MediaQueue -----------------------------
(***************************************************************************)
(* The end of a one-shot sync: event handlers, the media download queue    *)
(* (internal/app/media.go), the workers and the way Sync goes down         *)
(* (internal/app/sync.go).                                                 *)
(*                                                                         *)
(* whatsmeow calls the sync's event handler for every event.  A handler    *)
(* stores messages and hands their media to the workers over a bounded     *)
(* channel.  When nothing has happened for a while Sync waits until no     *)
(* handler and no job is left, closes the intake, records that the archive *)
(* is fresh, removes the handler (which waits for the calls under way)     *)
(* and stops the workers.  Limits, a signal or a lost connection may end   *)
(* it at any point.                                                        *)
(***************************************************************************)
EXTENDS Integers, FiniteSets

CONSTANTS Events,    \* calls of the event handler
          Workers,   \* download workers
          Buffer,    \* capacity of the jobs channel
          Media,     \* --download-media
          MaxJobs    \* bound: media in all messages together

ASSUME ConstantsAssumption ==
  /\ IsFiniteSet(Events) /\ IsFiniteSet(Workers)
  /\ Buffer \in Nat \ {0} /\ Media \in BOOLEAN /\ MaxJobs \in Nat

VARIABLES
  pc,         \* pc[e]: where the handler's call for e is
  queued,     \* app state events whose ordered write is still to come
  pending,    \* mediaQueue.pending
  producers,  \* mediaQueue.producers
  accepting,  \* mediaQueue.accepting
  changed,    \* mediaQueue.changed holds a token
  jobs,       \* how many jobs the channel holds
  worker,     \* worker[w]: what worker w does
  ctx,        \* syncCtx has not ended
  wctx,       \* cancelMedia has not been called
  quiet,      \* lastEvent is longer ago than --idle-exit
  linked,     \* connected and logged in
  failed,     \* limits.persistenceFailed
  limit,      \* limits.err is set
  registered, \* the event handler is
  sync,       \* where Sync is
  fresh,      \* the end of this sync recorded a successful sync
  clean,      \* history: the run ended without error, limit or cancellation
  made,       \* history: jobs that handlers made
  finished    \* history: jobs that workers were through with

queueVars == <<pending, producers, accepting, changed, jobs>>
workerVars == <<worker, finished>>
limitVars == <<failed, limit>>
syncVars == <<wctx, registered, sync, fresh, clean>>
vars == <<pc, queued, queueVars, workerVars, ctx, quiet, linked, limitVars, syncVars, made>>

\* Where the call of an event is between its begin and its end.
Inside == {"begun", "count", "put", "end"}

Init ==
  /\ pc = [e \in Events |-> "none"]
  /\ queued = {}
  /\ pending = 0 /\ producers = 0 /\ accepting = TRUE /\ changed = FALSE /\ jobs = 0
  /\ worker = [w \in Workers |-> "idle"]
  /\ ctx = TRUE /\ wctx = TRUE
  /\ quiet = FALSE
  /\ linked = TRUE
  /\ failed = FALSE /\ limit = FALSE
  /\ registered = TRUE
  /\ sync = "running" /\ fresh = FALSE /\ clean = FALSE
  /\ made = 0 /\ finished = 0

-----------------------------------------------------------------------------
(* A call of the event handler. *)

\* beginProducer refuses: the event is dropped.  Else lastEvent is now.
Begin(e) ==
  /\ pc[e] = "none"
  /\ registered
  /\ \/ /\ Media /\ ~accepting
        /\ pc' = [pc EXCEPT ![e] = "refused"]
        /\ UNCHANGED <<producers, changed, quiet>>
     \/ /\ ~Media \/ accepting
        /\ pc' = [pc EXCEPT ![e] = "begun"]
        /\ producers' = IF Media THEN producers + 1 ELSE producers
        /\ changed' = (changed \/ Media)
        /\ quiet' = FALSE
  /\ UNCHANGED <<queued, pending, accepting, jobs, workerVars, ctx, linked, limitVars, syncVars, made>>

\* Before a store and after it the limits are looked at; the first one over
\* ends the sync's context.
StoreOutcomes ==
  {[failed |-> failed, limit |-> limit], [failed |-> TRUE, limit |-> limit], [failed |-> failed, limit |-> TRUE]}

\* A message is stored or not; its media is enqueued either way.
StoreMessage(e) ==
  /\ pc[e] = "begun"
  /\ \E out \in StoreOutcomes : /\ failed' = out.failed
                                /\ limit' = out.limit
                                /\ ctx' = (ctx /\ ~out.limit)
  /\ \/ pc' = [pc EXCEPT ![e] = "end"]
     \/ Media /\ made < MaxJobs /\ pc' = [pc EXCEPT ![e] = "count"]
  /\ quiet' = FALSE
  /\ UNCHANGED <<queued, queueVars, workerVars, linked, syncVars, made>>

\* An app state event is counted and its write handed to the sequencer.
QueueAppState(e) ==
  /\ pc[e] = "begun"
  /\ queued' = queued \cup {e}
  /\ pc' = [pc EXCEPT ![e] = "end"]
  /\ UNCHANGED <<queueVars, workerVars, ctx, quiet, linked, limitVars, syncVars, made>>

\* The ordered write's error is kept before the event is counted down.
PersistAppState(e) ==
  /\ e \in queued
  /\ \E ok \in BOOLEAN : failed' = (failed \/ ~ok)
  /\ queued' = queued \ {e}
  /\ UNCHANGED <<pc, queueVars, workerVars, ctx, quiet, linked, limit, syncVars, made>>

EnqueueCount(e) ==
  /\ pc[e] = "count"
  /\ pending' = pending + 1
  /\ changed' = TRUE
  /\ made' = made + 1
  /\ pc' = [pc EXCEPT ![e] = "put"]
  /\ UNCHANGED <<queued, producers, accepting, jobs, workerVars, ctx, quiet, linked, limitVars, syncVars>>

\* A job stays counted until a worker is through with it.
PutKeepsCount == pending

\* The handler goes on with the next message of a history chunk, or ends.
EnqueuePut(e) ==
  /\ pc[e] = "put"
  /\ \/ /\ jobs < Buffer
        /\ jobs' = jobs + 1
        /\ pending' = PutKeepsCount
        /\ UNCHANGED changed
     \/ /\ ~ctx
        /\ pending' = pending - 1
        /\ changed' = TRUE
        /\ UNCHANGED jobs
  /\ \E next \in {"begun", "end"} : pc' = [pc EXCEPT ![e] = next]
  /\ UNCHANGED <<queued, producers, accepting, workerVars, ctx, quiet, linked, limitVars, syncVars, made>>

\* endProducer notifies.
EndWakes == changed \/ Media

End(e) ==
  /\ pc[e] = "end"
  /\ pc' = [pc EXCEPT ![e] = "done"]
  /\ producers' = IF Media THEN producers - 1 ELSE producers
  /\ changed' = EndWakes
  /\ UNCHANGED <<queued, pending, accepting, jobs, workerVars, ctx, quiet, linked, limitVars, syncVars, made>>

-----------------------------------------------------------------------------
(* A worker. *)

Take(w) ==
  /\ Media /\ worker[w] = "idle"
  /\ jobs > 0
  /\ jobs' = jobs - 1
  /\ worker' = [worker EXCEPT ![w] = "busy"]
  /\ UNCHANGED <<pc, queued, pending, producers, accepting, changed, finished, ctx, quiet, linked, limitVars, syncVars, made>>

\* The download succeeds, fails or panics.
Finish(w) ==
  /\ worker[w] = "busy"
  /\ worker' = [worker EXCEPT ![w] = "idle"]
  /\ finished' = finished + 1
  /\ pending' = pending - 1
  /\ changed' = TRUE
  /\ UNCHANGED <<pc, queued, producers, accepting, jobs, ctx, quiet, linked, limitVars, syncVars, made>>

Leave(w) ==
  /\ Media /\ worker[w] = "idle"
  /\ ~(ctx /\ wctx)
  /\ worker' = [worker EXCEPT ![w] = "gone"]
  /\ UNCHANGED <<pc, queued, queueVars, finished, ctx, quiet, linked, limitVars, syncVars, made>>

-----------------------------------------------------------------------------
(* The world. *)

TimePasses ==
  /\ ~quiet
  /\ quiet' = TRUE
  /\ UNCHANGED <<pc, queued, queueVars, workerVars, ctx, linked, limitVars, syncVars, made>>

Signal ==
  /\ ctx /\ sync # "returned"
  /\ ctx' = FALSE
  /\ UNCHANGED <<pc, queued, queueVars, workerVars, quiet, linked, limitVars, syncVars, made>>

ConnectionLost ==
  /\ linked
  /\ linked' = FALSE
  /\ UNCHANGED <<pc, queued, queueVars, workerVars, ctx, quiet, limitVars, syncVars, made>>

-----------------------------------------------------------------------------
(* Sync. *)

Goto(s) == sync' = s
syncRest == <<pc, queued, workerVars, quiet, linked, limitVars, made>>

\* runSyncUntilIdle returns without an error: idle, logged out or cancelled.
LoopEnds ==
  /\ sync = "running"
  /\ quiet \/ ~linked \/ ~ctx
  /\ Goto("ended")
  /\ UNCHANGED <<syncRest, queueVars, ctx, wctx, registered, fresh, clean>>

\* The reconnect gave up.
LoopFails ==
  /\ sync = "running"
  /\ ~linked
  /\ Goto("remove")
  /\ UNCHANGED <<syncRest, queueVars, ctx, wctx, registered, fresh, clean>>

\* A clean end waits for the downloads.
NeedsWait == Media

Decide ==
  /\ sync = "ended"
  /\ IF limit \/ ~ctx THEN Goto("remove") /\ UNCHANGED clean
     ELSE /\ clean' = TRUE
          /\ Goto(IF NeedsWait THEN "look" ELSE "check")
  /\ UNCHANGED <<syncRest, queueVars, ctx, wctx, registered, fresh>>

\* Mutant: only the jobs are looked at.
IdleNoProducers == pending = 0
\* waitIdle: no job is pending and no handler could add one.
Idle == pending = 0 /\ producers = 0

WaitIdleLook ==
  /\ sync = "look"
  /\ accepting' = (accepting /\ ~Idle)
  /\ Goto(IF Idle THEN "check" ELSE "asleep")
  /\ UNCHANGED <<syncRest, pending, producers, changed, jobs, ctx, wctx, registered, fresh, clean>>

WaitIdleWake ==
  /\ sync = "asleep"
  /\ \/ changed /\ changed' = FALSE /\ Goto("look") /\ UNCHANGED clean
     \/ ~ctx /\ UNCHANGED changed /\ Goto("remove") /\ clean' = FALSE
  /\ UNCHANGED <<syncRest, pending, producers, accepting, jobs, ctx, wctx, registered, fresh>>

\* canRecordFreshness looks at the count first and at the failure then.
CheckPending ==
  /\ sync = "check"
  /\ IF ~limit /\ ctx /\ queued = {} THEN Goto("check2") ELSE Goto("remove")
  /\ clean' = (~limit /\ ctx)
  /\ UNCHANGED <<syncRest, queueVars, ctx, wctx, registered, fresh>>

RecordFreshness ==
  /\ sync = "check2"
  /\ fresh' = (~failed /\ linked)
  /\ Goto("remove")
  /\ UNCHANGED <<syncRest, queueVars, ctx, wctx, registered, clean>>

\* Mutant: the workers are stopped before the handler is removed.
AfterRemoveLast(s) == CASE s = "remove" -> "workers" [] s = "workers" -> "removing" [] s = "removing" -> "returned"
\* The order of Sync's deferred calls.
After(s) == CASE s = "remove" -> "removing" [] s = "removing" -> "workers" [] s = "workers" -> "returned"

\* RemoveEventHandler lets no new call in ...
RemoveHandler ==
  /\ sync = "remove"
  /\ registered' = FALSE
  /\ Goto(After("remove"))
  /\ UNCHANGED <<syncRest, queueVars, ctx, wctx, fresh, clean>>

\* ... and waits for those under way.
HandlerRemoved ==
  /\ sync = "removing"
  /\ \A e \in Events : pc[e] \notin Inside
  /\ Goto(After("removing"))
  /\ ctx' = (ctx /\ After("removing") # "returned")
  /\ UNCHANGED <<syncRest, queueVars, wctx, registered, fresh, clean>>

\* wait returns when no worker is left.
WorkersGone == Media => \A w \in Workers : worker[w] = "gone"

\* cancelMedia; wait.  The sync's own context ends last of all.
StopWorkers ==
  /\ sync = "workers"
  /\ \/ wctx /\ wctx' = FALSE /\ UNCHANGED <<sync, ctx>>
     \/ /\ ~wctx /\ WorkersGone
        /\ Goto(After("workers"))
        /\ ctx' = (ctx /\ After("workers") # "returned")
        /\ UNCHANGED wctx
  /\ UNCHANGED <<syncRest, queueVars, registered, fresh, clean>>

-----------------------------------------------------------------------------
Handle(e) ==
  \/ StoreMessage(e) \/ QueueAppState(e) \/ EnqueueCount(e) \/ EnqueuePut(e) \/ End(e)
Work(w) == Take(w) \/ Finish(w) \/ Leave(w)
Sync ==
  \/ LoopEnds \/ LoopFails \/ Decide \/ WaitIdleLook \/ WaitIdleWake \/ CheckPending
  \/ RecordFreshness \/ RemoveHandler \/ HandlerRemoved \/ StopWorkers
World == TimePasses \/ Signal \/ ConnectionLost

Next ==
  \/ \E e \in Events : Begin(e) \/ Handle(e) \/ PersistAppState(e)
  \/ \E w \in Workers : Work(w)
  \/ Sync
  \/ World

Spec == Init /\ [][Next]_vars

\* Goroutines run, stores and downloads end.  Nothing has to arrive.
Fairness ==
  /\ \A e \in Events : WF_vars(Handle(e)) /\ WF_vars(PersistAppState(e))
  /\ \A w \in Workers : WF_vars(Work(w))
  /\ WF_vars(Sync) /\ WF_vars(TimePasses)
FairSpec == Spec /\ Fairness

-----------------------------------------------------------------------------
(* What the queue and the end of the sync promise. *)

TypeOK ==
  /\ pc \in [Events -> Inside \cup {"none", "refused", "done"}]
  /\ queued \subseteq Events
  /\ pending \in Nat /\ producers \in Nat /\ jobs \in 0 .. Buffer
  /\ {accepting, changed, ctx, wctx, quiet, linked, failed, limit, registered, fresh, clean} \subseteq BOOLEAN
  /\ worker \in [Workers -> {"idle", "busy", "gone"}]
  /\ sync \in {"running", "ended", "look", "asleep", "check", "check2", "remove", "removing", "workers", "returned"}
  /\ made \in Nat /\ finished \in Nat

\* The archive is only called fresh when everything that the sync received has
\* been stored: no call is under way, no write is queued and none has failed.
FreshIsComplete ==
  [][fresh' /\ ~fresh => /\ \A e \in Events : pc[e] \notin Inside
                         /\ queued = {} /\ ~failed /\ ~limit]_vars

\* A sync that has begun to end does end: no wake-up is lost, and no handler
\* is left in front of a full channel.
SyncReturns == sync # "running" ~> sync = "returned"

\* A run that ends clean has passed the fence, and behind it nothing is left to
\* do and nothing comes: no call of the handler, no job in the channel or with a
\* worker, and every job that was ever made has been worked on.
FenceIsFinal ==
  /\ sync = "returned" /\ clean /\ Media => ~accepting
  /\ ~accepting =>
       /\ jobs = 0 /\ \A w \in Workers : worker[w] # "busy"
       /\ \A e \in Events : pc[e] \notin Inside
       /\ ctx => finished = made

\* No handler runs, and no worker, once Sync has returned: the store may close.
ReturnIsQuiet ==
  sync = "returned" => /\ \A e \in Events : pc[e] \notin Inside
                       /\ Media => \A w \in Workers : worker[w] = "gone"

\* What the end of a sync rests on, together.
EndIsQuiet == FenceIsFinal /\ ReturnIsQuiet
=============================================================================
