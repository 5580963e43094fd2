------------------------------- MODULE Webhook -------------------------------
(***************************************************************************)
(* Webhooks of the sync: live messages, receipts and typing notices posted *)
(* to a URL by one background worker.                                      *)
(*                                                                         *)
(* whatsmeow calls the sync's handler for each event; the handler stores   *)
(* a message, and puts what the user selected in a bounded channel without *)
(* ever waiting.  The worker takes one event at a time and posts it; the   *)
(* receiver may answer, refuse, hang or make the worker panic.  When the   *)
(* sync ends its context is cancelled, the handler is removed (calls that  *)
(* run go on), and the stop waits for the worker.                          *)
(***************************************************************************)
EXTENDS Naturals, Sequences, SequencesExt

CONSTANTS Events,     \* live events
          Kind,       \* [Events -> {"message", "receipt", "chat_presence"}]
          NoID,       \* messages without an id: calls and the like
          Refused,    \* events that carry nothing to store or forward
          Selections, \* the values given to --webhook-events
          Cap         \* room in the channel (512)

VARIABLES selected, \* --webhook-events
          pc,       \* where the handler call of each event is
          stored,   \* messages the store took
          jobs,     \* the channel
          worker,   \* what the worker does: "idle", an event, or "gone"
          posted,   \* events the receiver acknowledged
          warned,   \* events a warning names
          ctx,      \* the sync's context: "live" or "done"
          sync      \* "runs", "stops" (it waits for the worker) or "ended"

vars == <<selected, pc, stored, jobs, worker, posted, warned, ctx, sync>>

Kinds == {"message", "receipt", "chat_presence"}

\* An empty list selects messages.
ParseSyncWebhookEvents(list) == IF list = {} THEN {"message"} ELSE list \cap Kinds

Enabled(e) == Kind[e] \in selected

\* Some receipts and notices are never forwarded; a message that holds only a key or a
\* broken secret edit is never stored.
ReceiptEvent(e) == Kind[e] = "receipt" /\ e \notin Refused
ChatPresenceEvent(e) == Kind[e] = "chat_presence" /\ e \notin Refused
MessageEvent(e) == Kind[e] = "message" /\ e \notin Refused

Init ==
  /\ \E list \in Selections : selected = ParseSyncWebhookEvents(list)
  /\ pc = [e \in Events |-> "new"]
  /\ stored = {} /\ jobs = <<>> /\ worker = "idle"
  /\ posted = {} /\ warned = {}
  /\ ctx = "live" /\ sync = "runs"

-----------------------------------------------------------------------------
(* The handler *)

Queued(e) == jobs' = Append(jobs, e) /\ UNCHANGED warned

\* The sync's context is done: the event is left out without a word.
LeftOut == ctx = "done" /\ UNCHANGED <<jobs, warned>>

Dropped(e) == warned' = warned \cup {e} /\ UNCHANGED jobs

\* Mutant: a full channel drops the event, and nothing says so.
EnqueueSilently(e) ==
  IF Len(jobs) < Cap THEN Queued(e) ELSE UNCHANGED <<jobs, warned>>

\* One select: it puts the event in, sees the context done, or warns when neither can be.
Enqueue(e) ==
  \/ Len(jobs) < Cap /\ Queued(e)
  \/ LeftOut
  \/ Len(jobs) = Cap /\ ctx = "live" /\ Dropped(e)

Forward(e) ==
  IF Enabled(e) /\ e \notin NoID THEN Enqueue(e) ELSE UNCHANGED <<jobs, warned>>

\* The call is under way once whatsmeow made it while the handler was there.
Called(e) ==
  /\ pc[e] = "new" /\ sync = "runs"
  /\ pc' = [pc EXCEPT ![e] = "called"]
  /\ UNCHANGED <<selected, stored, jobs, worker, posted, warned, ctx, sync>>

\* A live message: what is not stored is not forwarded.
StoreMessage(e) ==
  /\ pc[e] = "called" /\ Kind[e] = "message"
  /\ \/ /\ MessageEvent(e)
        /\ stored' = stored \cup {e}
        /\ pc' = [pc EXCEPT ![e] = "stored"]
     \/ /\ pc' = [pc EXCEPT ![e] = "returned"]    \* nothing to store, or the store failed
        /\ UNCHANGED stored
  /\ UNCHANGED <<selected, jobs, worker, posted, warned, ctx, sync>>

ForwardMessage(e) ==
  /\ pc[e] = "stored"
  /\ Forward(e)
  /\ pc' = [pc EXCEPT ![e] = "returned"]
  /\ UNCHANGED <<selected, stored, worker, posted, ctx, sync>>

\* Receipts and typing notices are forwarded whether or not anything of them is stored.
ForwardNotice(e) ==
  /\ pc[e] = "called" /\ Kind[e] # "message"
  /\ IF ReceiptEvent(e) \/ ChatPresenceEvent(e) THEN Forward(e) ELSE UNCHANGED <<jobs, warned>>
  /\ pc' = [pc EXCEPT ![e] = "returned"]
  /\ UNCHANGED <<selected, stored, worker, posted, ctx, sync>>

-----------------------------------------------------------------------------
(* The worker *)

TakeJob ==
  /\ worker = "idle" /\ jobs # <<>>
  /\ worker' = Head(jobs) /\ jobs' = Tail(jobs)
  /\ UNCHANGED <<selected, pc, stored, posted, warned, ctx, sync>>

\* The worker's context ends with the sync's, and when the stop is called.
Stopped == ctx = "done" \/ sync # "runs"

WorkerReturns ==
  /\ worker = "idle" /\ Stopped
  /\ worker' = "gone"
  /\ UNCHANGED <<selected, pc, stored, jobs, posted, warned, ctx, sync>>

Busy == worker \notin {"idle", "gone"}

\* A 2xx answer.
PostSucceeds ==
  /\ Busy /\ ~Stopped
  /\ posted' = posted \cup {worker}
  /\ worker' = "idle"
  /\ UNCHANGED <<selected, pc, stored, jobs, warned, ctx, sync>>

\* A fault to compare with: the worker waits for the receiver, which answers or does not.
AwaitsAnswer ==
  /\ Busy /\ ~Stopped
  /\ warned' = warned \cup {worker}
  /\ worker' = "idle"
  /\ UNCHANGED <<selected, pc, stored, jobs, posted, ctx, sync>>

\* A request that is refused, redirected, too slow, or cancelled with the sync, and a
\* panic while the payload is made, end in a warning.
PostFails ==
  /\ Busy
  /\ warned' = warned \cup {worker}
  /\ worker' = "idle"
  /\ UNCHANGED <<selected, pc, stored, jobs, posted, ctx, sync>>

-----------------------------------------------------------------------------
(* The end of the sync *)

\* The user or a storage limit cancels the context before Sync returns.
Cancel ==
  /\ ctx = "live" /\ ctx' = "done"
  /\ UNCHANGED <<selected, pc, stored, jobs, worker, posted, warned, sync>>

\* Sync returns: its deferred calls remove the handler and stop the worker, and the context
\* that the handler calls see is cancelled last.
RemoveHandler ==
  /\ sync = "runs" /\ sync' = "stops"
  /\ UNCHANGED <<selected, pc, stored, jobs, worker, posted, warned, ctx>>

StopWebhook ==
  /\ sync = "stops" /\ worker = "gone"
  /\ sync' = "ended" /\ ctx' = "done"
  /\ UNCHANGED <<selected, pc, stored, jobs, worker, posted, warned>>

Handle(e) == StoreMessage(e) \/ ForwardMessage(e) \/ ForwardNotice(e)

Work == TakeJob \/ PostSucceeds \/ PostFails

Next ==
  \/ \E e \in Events : Called(e) \/ Handle(e)
  \/ Work \/ WorkerReturns
  \/ Cancel \/ RemoveHandler \/ StopWebhook

\* Goroutines run.  A request ends by itself after its timeout or with the context, so
\* PostFails is fair and an answer is not; of two ready cases a select may take either,
\* and it does not take the same for ever.
Fairness ==
  /\ \A e \in Events : WF_vars(Handle(e))
  /\ WF_vars(PostFails) /\ WF_vars(TakeJob) /\ SF_vars(WorkerReturns) /\ WF_vars(StopWebhook)

Spec == Init /\ [][Next]_vars /\ Fairness

-----------------------------------------------------------------------------
(* Properties *)

Eligible(e) ==
  Enabled(e) /\ e \notin NoID \cup Refused /\ (Kind[e] = "message" => e \in stored)

Places(e) ==
  {p \in {"jobs", "worker", "posted", "warned"} :
     \/ p = "jobs" /\ e \in ToSet(jobs)
     \/ p = "worker" /\ worker = e
     \/ p = "posted" /\ e \in posted
     \/ p = "warned" /\ e \in warned}

\* While the sync's context lives, every selected event whose handler returned - a message
\* only once it was stored - is in exactly one place: queued, on its way, acknowledged, or
\* named by a warning; and nothing else is ever posted or warned of (the enqueuer, the
\* worker, handleLiveSyncMessage).
StoredAreAccounted ==
  \A e \in Events :
    /\ Eligible(e) /\ pc[e] = "returned" /\ ctx = "live" => \E p \in Places(e) : Places(e) = {p}
    /\ Places(e) # {} => Eligible(e) /\ pc[e] = "returned"

\* A receiver that hangs stops neither the sync nor its end: every handler call returns,
\* and the stop returns (runSyncWebhookWorker, syncWebhookRequestTimeout).  Each event is
\* handled once, and there is one stop.
NobodyWaits == sync # "stops" /\ \A e \in Events : pc[e] # "called"
SyncGoesOn == []<>NobodyWaits
=============================================================================
