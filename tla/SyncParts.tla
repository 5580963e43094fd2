------------------------------ MODULE SyncParts ------------------------------
(***************************************************************************)
(* What runs beside the event handlers of a sync and must not stall, one   *)
(* part at a time: `part` says which a behaviour is one of, and the others *)
(* rest.  SyncLoop has its own variables; Webhook and Backfill, which      *)
(* share none with it, have those below.                                   *)
(***************************************************************************)
EXTENDS SyncLoop

CONSTANTS Events, Kind, NoID, Refused, Selections, Cap,                   \* Webhook's
          Chats, Names, Filed, Depth, Requests, MaxRuns, MaxReplies       \* Backfill's

\* An event is none of the words the worker uses, and the channel has room.
ASSUME WebhookAssumption == Cap \in Nat \ {0} /\ {"idle", "gone"} \cap Events = {}

VARIABLES part,
          stored,                                                         \* of either
          selected, pc, jobs, worker, posted, warned, hookCtx, sync,      \* Webhook's
          run, channel, prefer, handlers, replies, dispatch, runs, due, lost   \* Backfill's

Hook == INSTANCE Webhook WITH ctx <- hookCtx
Fill == INSTANCE Backfill

hookVars == <<selected, pc, jobs, worker, posted, warned, hookCtx, sync>>
fillVars == <<run, channel, prefer, handlers, replies, dispatch, runs, due, lost>>

HookRests ==
  /\ selected = {} /\ pc = <<>> /\ jobs = <<>> /\ worker = "idle" /\ posted = {} /\ warned = {}
  /\ hookCtx = "live" /\ sync = "-"
FillRests ==
  /\ run = Fill!Off /\ channel = Fill!None /\ prefer = FALSE /\ handlers = <<>> /\ replies = {}
  /\ dispatch = Fill!Quiet /\ runs = 0 /\ due = {} /\ lost = {}

\* How the sync was started does not matter while its loop rests.
LoopRests == mode = CHOOSE m \in Modes : TRUE

SyncInit ==
  /\ Init
  /\ \/ part = "loop" /\ HookRests /\ FillRests /\ stored = {}
     \/ LoopRests /\ part = "webhook" /\ Hook!Init /\ FillRests
     \/ LoopRests /\ part = "backfill" /\ Fill!Init /\ HookRests

SyncNext ==
  \/ part = "loop" /\ Next /\ UNCHANGED <<part, stored, hookVars, fillVars>>
  \/ part = "webhook" /\ Hook!Next /\ UNCHANGED <<part, vars, fillVars>>
  \/ part = "backfill" /\ Fill!Next /\ UNCHANGED <<part, vars, hookVars>>

syncVars == <<part, vars, stored, hookVars, fillVars>>

\* The fairness of the modules that state it, where each is the one.
webhookVars == Hook!vars
LoopFairness ==
  /\ WF_vars(part = "loop" /\ OnLoggedOut) /\ WF_vars(part = "loop" /\ SetUp)
  /\ WF_vars(part = "loop" /\ LogoutCancels) /\ WF_vars(part = "loop" /\ DialCancelled)
  /\ WF_vars(part = "loop" /\ DialDone) /\ WF_vars(part = "loop" /\ (DialFinds \/ DialEnds))
  /\ SF_vars(part = "loop" /\ TakeLoggedOut)
HookFairness ==
  /\ \A e \in Events : WF_webhookVars(part = "webhook" /\ Hook!Handle(e))
  /\ WF_webhookVars(part = "webhook" /\ Hook!PostFails) /\ WF_webhookVars(part = "webhook" /\ Hook!TakeJob)
  /\ SF_webhookVars(part = "webhook" /\ Hook!WorkerReturns)
  /\ WF_webhookVars(part = "webhook" /\ Hook!StopWebhook)

SyncSpec == SyncInit /\ [][SyncNext]_syncVars /\ LoopFairness /\ HookFairness

-----------------------------------------------------------------------------
\* Webhook: every selected event is in exactly one place.
StoredAreAccounted == part = "webhook" => Hook!StoredAreAccounted

\* Webhook: a receiver that hangs stops neither the handlers nor the end of the sync.
SyncGoesOn == []<>(part = "webhook" => Hook!NobodyWaits)

\* Backfill: while a chat's backfill or its grace lasts somebody listens, and
\* progress is judged on what is stored.
RepliesAreKept == part = "backfill" => Fill!RepliesAreKept
=============================================================================
