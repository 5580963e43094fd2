--------------------------- MODULE DelegateServer ---------------------------
(***************************************************************************)
(* The daemon's end of delegated commands (cmd/wacli/send_ipc.go).         *)
(*                                                                         *)
(* A command that finds the store locked writes its request, with the time *)
(* it stops waiting, to the daemon's socket.  The accept loop gives each   *)
(* connection a handler.  Sends share one slot and are spaced; each long   *)
(* kind has a slot of its own; app state writes and reads do not queue.    *)
(* Three clocks race: the caller's deadline, the handler's context, which  *)
(* ends a margin earlier, and the timer that ends it, which may fire late. *)
(* When the sync ends all contexts end; stop then closes the listener and  *)
(* waits for the handlers, but not longer than a grace.                    *)
(***************************************************************************)
EXTENDS Integers, FiniteSets

CONSTANTS Requests,   \* requests made over the life of the server
          Kinds,      \* the kinds of request there are
          Budgets,    \* how long callers are willing to wait
          Margin,     \* sendDelegateReplyMargin
          Share,      \* the share of the budget the margin may take (a tenth)
          Lag,        \* how late timers fire and goroutines run, at most
          MinGap,     \* --send-spacing
          MaxGap,     \* 0 if disabled
          Grace,      \* sendDelegateStopGrace
          MaxTime     \* bound: the clock

Bulk == {"media", "backfill", "repair"}
ASSUME KindsAssumption == Kinds \subseteq Bulk \cup {"send", "appState", "direct"}
ASSUME TimesAssumption ==
  /\ Budgets \subseteq Nat /\ Margin \in Nat /\ Share \in Nat \ {0} /\ Lag \in Nat
  /\ MinGap \in Nat /\ MaxGap \in Nat /\ MinGap <= MaxGap /\ Grace \in Nat /\ MaxTime \in Nat

VARIABLES
  now,       \* the clock
  kind,      \* kind[r]: what is asked
  client,    \* client[r]: what the command knows
  giveUp,    \* giveUp[r]: DeadlineUnixMS, when the command stops waiting
  pc,        \* pc[r]: where the connection's handler is
  due,       \* due[r]: deadline of the handler's context
  live,      \* live[r]: that context, if there is one, has not ended
  wake,      \* wake[r]: when the pacer lets the handler go on
  reply,     \* reply[r]: what the handler is going to answer
  free,      \* slots with their token in the channel
  holds,     \* requests that took a token
  lastEnd,   \* sendPacer.last, -1 before the first send
  syncing,   \* the sync's context has not ended
  stop,      \* where stop is
  graceEnd,  \* when stop gives up on the handlers
  handlers,  \* the wait group
  left,      \* history: left[r]: time its caller had left when r was read
  ran,       \* history: requests execute was called for
  sendOver   \* history: when the last send's execute returned, -1 before

clientVars == <<kind, client, giveUp>>
handlerVars == <<pc, due, live, wake, reply>>
historyVars == <<left, ran, sendOver>>
slotVars == <<free, holds>>
stopVars == <<syncing, stop, graceEnd>>
vars == <<now, clientVars, handlerVars, slotVars, lastEnd, stopVars, handlers, historyVars>>

Slots == Kinds \cap (Bulk \cup {"send"})
Queues(r) == kind[r] \in Slots
\* The handler goroutine of r exists.
Active(r) == pc[r] \in {"decode", "queue", "slot", "pace", "run", "refused", "reply"}

Init ==
  /\ now = 0
  /\ kind \in [Requests -> Kinds]
  /\ client = [r \in Requests |-> "idle"]
  /\ giveUp = [r \in Requests |-> 0]
  /\ pc = [r \in Requests |-> "none"]
  /\ due = [r \in Requests |-> -1]
  /\ live = [r \in Requests |-> TRUE]
  /\ wake = [r \in Requests |-> 0]
  /\ reply = [r \in Requests |-> "none"]
  /\ free = Slots
  /\ holds = {}
  /\ lastEnd = -1
  /\ syncing = TRUE
  /\ stop = "none"
  /\ graceEnd = 0
  /\ handlers = 0
  /\ left = [r \in Requests |-> 0]
  /\ ran = {}
  /\ sendOver = -1

-----------------------------------------------------------------------------
(* Time. *)

\* Mutant: the deadline is looked at with the slot in hand.
GivesUpInTurn(r) == ~live[r] /\ r \in holds
\* What ends the wait for the slot.
GivesUp(r) == ~live[r]

\* A handler that waits and whose timer is due or has fired, or that has a
\* refusal to write, moves at most Lag after its deadline; one that runs owes
\* nothing.
Overdue(r) ==
  /\ now >= due[r] + Lag
  /\ \/ pc[r] \in {"slot", "pace", "refused"}
     \/ pc[r] = "queue" /\ (live[r] \/ GivesUp(r))

Tick ==
  /\ now < MaxTime
  /\ \A r \in Requests : ~Overdue(r)
  /\ now' = now + 1
  /\ UNCHANGED <<clientVars, handlerVars, slotVars, lastEnd, stopVars, handlers, historyVars>>

\* The timer of the handler's context.
TimerFires(r) ==
  /\ Active(r) /\ pc[r] # "decode"
  /\ live[r]
  /\ now >= due[r]
  /\ live' = [live EXCEPT ![r] = FALSE]
  /\ UNCHANGED <<now, clientVars, pc, due, wake, reply, slotVars, lastEnd, stopVars, handlers, historyVars>>

-----------------------------------------------------------------------------
(* The command: delegateSend. *)

\* The listener is open: the connection waits in its backlog.
Dial(r) ==
  /\ client[r] = "idle"
  /\ stop = "none"
  /\ \E b \in Budgets : /\ now + b + Lag <= MaxTime
                        /\ giveUp' = [giveUp EXCEPT ![r] = now + b]
  /\ client' = [client EXCEPT ![r] = "waiting"]
  /\ pc' = [pc EXCEPT ![r] = "dialed"]
  /\ UNCHANGED <<now, kind, due, live, wake, reply, slotVars, lastEnd, stopVars, handlers, historyVars>>

\* The read deadline passes: the request "may still have gone through".
ClientTimesOut(r) ==
  /\ client[r] = "waiting"
  /\ now >= giveUp[r]
  /\ client' = [client EXCEPT ![r] = "timedOut"]
  /\ UNCHANGED <<now, kind, giveUp, handlerVars, slotVars, lastEnd, stopVars, handlers, historyVars>>

\* The command is stopped, or was a probe (sendDelegateAvailable).
HangUp(r) ==
  /\ client[r] = "waiting"
  /\ client' = [client EXCEPT ![r] = "gone"]
  /\ UNCHANGED <<now, kind, giveUp, handlerVars, slotVars, lastEnd, stopVars, handlers, historyVars>>

\* The listener was closed with the connection still in its backlog.
Reset(r) ==
  /\ pc[r] = "dialed"
  /\ stop # "none"
  /\ pc' = [pc EXCEPT ![r] = "closed"]
  /\ client' = [client EXCEPT ![r] = IF @ = "waiting" THEN "reset" ELSE @]
  /\ UNCHANGED <<now, kind, giveUp, due, live, wake, reply, slotVars, lastEnd, stopVars, handlers, historyVars>>

-----------------------------------------------------------------------------
(* The accept loop. *)

\* No connection is between Accept and the start of its handler.
LoopIdle == \A r \in Requests : pc[r] # "accepted"

Accept(r) ==
  /\ pc[r] = "dialed"
  /\ stop = "none"
  /\ LoopIdle
  /\ pc' = [pc EXCEPT ![r] = "accepted"]
  /\ UNCHANGED <<now, clientVars, due, live, wake, reply, slotVars, lastEnd, stopVars, handlers, historyVars>>

\* handlers.Add(1) and the handler's goroutine.
Serve(r) ==
  /\ pc[r] = "accepted"
  /\ pc' = [pc EXCEPT ![r] = "decode"]
  /\ handlers' = handlers + 1
  /\ UNCHANGED <<now, clientVars, due, live, wake, reply, slotVars, lastEnd, stopVars, historyVars>>

-----------------------------------------------------------------------------
(* serveDelegateConn. *)

\* The caller's deadline less a margin for the reply.  The request's own
\* timeout counts from now and is never the earlier one.
Due(r) ==
  LET share == (giveUp[r] - now) \div Share
  IN giveUp[r] - IF now >= giveUp[r] THEN 0 ELSE IF share < Margin THEN share ELSE Margin

Refuse(r) ==
  /\ pc' = [pc EXCEPT ![r] = "refused"]
  /\ reply' = [reply EXCEPT ![r] = "not sent"]

Start(r) ==
  /\ pc' = [pc EXCEPT ![r] = "run"]
  /\ ran' = ran \cup {r}

\* The request arrives and is sorted by its kind.  An app state write looks at
\* its context, a read does not even do that.
Decode(r) ==
  /\ pc[r] = "decode"
  /\ due' = [due EXCEPT ![r] = Due(r)]
  /\ live' = [live EXCEPT ![r] = syncing /\ now < Due(r)]
  /\ left' = [left EXCEPT ![r] = giveUp[r] - now]
  /\ \/ /\ Queues(r)
        /\ pc' = [pc EXCEPT ![r] = "queue"]
        /\ UNCHANGED <<reply, ran>>
     \/ /\ kind[r] = "appState" /\ ~live'[r]
        /\ Refuse(r)
        /\ UNCHANGED ran
     \/ /\ kind[r] = "direct" \/ (kind[r] = "appState" /\ live'[r])
        /\ Start(r)
        /\ UNCHANGED reply
  /\ UNCHANGED <<now, clientVars, wake, slotVars, lastEnd, stopVars, handlers, sendOver>>

\* The peer closed the connection before its request was complete.
DecodeFails(r) ==
  /\ pc[r] = "decode"
  /\ client[r] \in {"gone", "timedOut"}
  /\ pc' = [pc EXCEPT ![r] = "closed"]
  /\ handlers' = handlers - 1
  /\ UNCHANGED <<now, clientVars, due, live, wake, reply, slotVars, lastEnd, stopVars, historyVars>>

\* The reader of a bulk connection sees that the caller is gone.
PeerGone(r) ==
  /\ kind[r] \in Bulk
  /\ pc[r] \in {"queue", "slot", "run"}
  /\ client[r] \in {"gone", "timedOut"}
  /\ live[r]
  /\ live' = [live EXCEPT ![r] = FALSE]
  /\ UNCHANGED <<now, clientVars, pc, due, wake, reply, slotVars, lastEnd, stopVars, handlers, historyVars>>

\* select: the context ended, or at the same moment the slot is free.
QueueRefuse(r) ==
  /\ pc[r] = "queue"
  /\ GivesUp(r)
  /\ Refuse(r)
  /\ UNCHANGED <<now, clientVars, due, live, wake, slotVars, lastEnd, stopVars, handlers, historyVars>>

QueueTake(r) ==
  /\ pc[r] = "queue"
  /\ kind[r] \in free
  /\ free' = free \ {kind[r]}
  /\ holds' = holds \cup {r}
  /\ pc' = [pc EXCEPT ![r] = "slot"]
  /\ UNCHANGED <<now, clientVars, due, live, wake, reply, lastEnd, stopVars, handlers, historyVars>>

\* Mutant: only the context is looked at, whose timer may be late.
InTimeByContext(r) == live[r]
\* What a send is checked for before it may start.
InTime(r) == live[r] /\ now < due[r]
MayStart(r) == IF kind[r] = "send" THEN InTime(r) ELSE live[r]

Paced(r) == kind[r] = "send" /\ MaxGap > 0 /\ lastEnd # -1

\* With the slot: the checks, and the pacer's gap.
SlotRefuse(r) ==
  /\ pc[r] = "slot"
  /\ ~MayStart(r)
  /\ Refuse(r)
  /\ UNCHANGED <<now, clientVars, due, live, wake, slotVars, lastEnd, stopVars, handlers, historyVars>>

SlotPace(r) ==
  /\ pc[r] = "slot"
  /\ MayStart(r) /\ Paced(r)
  /\ \E gap \in MinGap .. MaxGap : wake' = [wake EXCEPT ![r] = lastEnd + gap]
  /\ pc' = [pc EXCEPT ![r] = "pace"]
  /\ UNCHANGED <<now, clientVars, due, live, reply, slotVars, lastEnd, stopVars, handlers, historyVars>>

SlotStart(r) ==
  /\ pc[r] = "slot"
  /\ MayStart(r) /\ ~Paced(r)
  /\ Start(r)
  /\ UNCHANGED <<now, clientVars, due, live, wake, reply, slotVars, lastEnd, stopVars, handlers, left, sendOver>>

\* pacer.wait returns, when the gap is over or the context ended.
PaceEnds(r) ==
  /\ pc[r] = "pace"
  /\ now >= wake[r] \/ ~live[r]
  /\ \/ InTime(r) /\ Start(r) /\ UNCHANGED reply
     \/ ~InTime(r) /\ Refuse(r) /\ UNCHANGED ran
  /\ wake' = [wake EXCEPT ![r] = 0]
  /\ UNCHANGED <<now, clientVars, due, live, slotVars, lastEnd, stopVars, handlers, left, sendOver>>

\* execute returns; an error of a send or an app state write whose context
\* ended is one that "may still have gone through".
Answers(r) ==
  {"ok", IF ~live[r] /\ kind[r] \in {"send", "appState"} THEN "maybe" ELSE "error"}

\* pacer.record.
Records(r, a) == kind[r] = "send" /\ MaxGap > 0

RunEnds(r) ==
  /\ pc[r] = "run"
  /\ \E a \in Answers(r) : /\ reply' = [reply EXCEPT ![r] = a]
                           /\ lastEnd' = IF Records(r, a) THEN now ELSE lastEnd
  /\ pc' = [pc EXCEPT ![r] = "reply"]
  /\ sendOver' = IF kind[r] = "send" THEN now ELSE sendOver
  /\ UNCHANGED <<now, clientVars, due, live, wake, slotVars, stopVars, handlers, left, ran>>

Releases(r) == r \in holds

\* The answer is written, the slot released, the handler returns.
Answer(r) ==
  /\ pc[r] \in {"refused", "reply"}
  /\ pc' = [pc EXCEPT ![r] = "closed"]
  /\ client' = [client EXCEPT ![r] = IF @ = "waiting" THEN reply[r] ELSE @]
  /\ free' = IF Releases(r) THEN free \cup {kind[r]} ELSE free
  /\ holds' = holds \ {r}
  /\ handlers' = handlers - 1
  /\ reply' = [reply EXCEPT ![r] = "none"]
  /\ live' = [live EXCEPT ![r] = TRUE]
  /\ UNCHANGED <<now, kind, giveUp, due, wake, lastEnd, stopVars, historyVars>>

-----------------------------------------------------------------------------
(* The end of the sync, and stop. *)

\* Sync returns and cancels its context; every handler's ends with it.
SyncEnds ==
  /\ syncing
  /\ now + Grace <= MaxTime
  /\ syncing' = FALSE
  /\ live' = [r \in Requests |-> live[r] /\ ~(Active(r) /\ pc[r] # "decode")]
  /\ UNCHANGED <<now, clientVars, pc, due, wake, reply, slotVars, lastEnd, stop, graceEnd, handlers, historyVars>>

StopClose ==
  /\ ~syncing
  /\ stop = "none"
  /\ stop' = "closing"
  /\ UNCHANGED <<now, clientVars, handlerVars, slotVars, lastEnd, syncing, graceEnd, handlers, historyVars>>

\* Mutant: stop does not wait for the accept loop.
LoopEndedAnyway == TRUE
\* The loop has seen that the listener is closed.
LoopEnded == LoopIdle

StopWait ==
  /\ stop = "closing"
  /\ LoopEnded
  /\ stop' = "draining"
  /\ graceEnd' = IF now + Grace < MaxTime THEN now + Grace ELSE MaxTime
  /\ UNCHANGED <<now, clientVars, handlerVars, slotVars, lastEnd, syncing, handlers, historyVars>>

GraceOver == now >= graceEnd

\* stop returns; the database is closed next.
StopReturns ==
  /\ stop = "draining"
  /\ \/ handlers = 0 /\ stop' = "drained"
     \/ handlers > 0 /\ GraceOver /\ stop' = "expired"
  /\ UNCHANGED <<now, clientVars, handlerVars, slotVars, lastEnd, syncing, graceEnd, handlers, historyVars>>

-----------------------------------------------------------------------------
Command(r) == Dial(r) \/ ClientTimesOut(r) \/ HangUp(r) \/ Reset(r)

\* What a handler does without being asked to by its caller or by WhatsApp.
Handler(r) ==
  \/ TimerFires(r) \/ PeerGone(r) \/ QueueRefuse(r) \/ QueueTake(r)
  \/ SlotRefuse(r) \/ SlotPace(r) \/ SlotStart(r) \/ PaceEnds(r) \/ Answer(r)

Server(r) == Accept(r) \/ Serve(r) \/ Decode(r) \/ DecodeFails(r) \/ Handler(r) \/ RunEnds(r)

Stopping == StopClose \/ StopWait \/ StopReturns

Next == Tick \/ (\E r \in Requests : Command(r) \/ Server(r)) \/ SyncEnds \/ Stopping

Spec == Init /\ [][Next]_vars

-----------------------------------------------------------------------------
(* What the server promises. *)

Clock == 0 .. MaxTime
TypeOK ==
  /\ now \in Clock
  /\ kind \in [Requests -> Kinds]
  /\ client \in [Requests -> {"idle", "waiting", "timedOut", "gone", "reset", "not sent", "ok", "maybe", "error"}]
  /\ giveUp \in [Requests -> Clock]
  /\ pc \in [Requests -> {"none", "dialed", "accepted", "decode", "queue", "slot", "pace", "run", "refused", "reply", "closed"}]
  /\ due \in [Requests -> Clock \cup {-1}]
  /\ live \in [Requests -> BOOLEAN]
  /\ wake \in [Requests -> Nat]
  /\ reply \in [Requests -> {"none", "not sent", "ok", "maybe", "error"}]
  /\ free \subseteq Slots
  /\ holds \subseteq Requests
  /\ lastEnd \in Clock \cup {-1}
  /\ syncing \in BOOLEAN
  /\ stop \in {"none", "closing", "draining", "drained", "expired"}
  /\ graceEnd \in Nat
  /\ handlers \in Nat
  /\ left \in [Requests -> Int]
  /\ ran \subseteq Requests
  /\ sendOver \in Clock \cup {-1}

\* No path through a handler loses a slot's token or takes one twice: a kind
\* can be served again, and is served one request at a time.
SlotsKept ==
  /\ \A s \in Slots : s \in free <=> \A r \in holds : kind[r] # s
  /\ \A r, q \in holds : kind[r] = kind[q] => r = q

Starts(r) == pc[r] # "run" /\ pc'[r] = "run"

\* The caller had left enough, and the margin is long enough, for what timers
\* and goroutines may be late.
Covered(r) == left[r] >= Share * (Lag + 1) /\ Margin > Lag

\* What the command believes about its request is true: "not sent" is final,
\* and one that was left without an answer was started, so "may still have gone
\* through" is not said of a request that sat in the queue.
CommandsKnow ==
  \A r \in Requests :
    /\ client[r] \in {"not sent", "reset"} => r \notin ran
    /\ client[r] = "timedOut" /\ Covered(r) => r \in ran

\* Nothing that queues is started for a caller who gave up, or after the sync
\* ended: not with a late timer, nor after the pacer's wait.
AllInTime ==
  \A r \in Requests : Starts(r) /\ kind[r] # "direct" =>
    /\ syncing
    /\ (kind[r] \in Bulk /\ ~Covered(r)) \/ client[r] # "timedOut"

\* Two sends never overlap, and the second starts no sooner than the gap after
\* the end of the first, however that one ended.
AllSpaced ==
  \A r \in Requests : Starts(r) /\ kind[r] = "send" =>
    /\ \A q \in Requests : kind[q] = "send" => pc[q] # "run"
    /\ MaxGap > 0 /\ sendOver # -1 => now >= sendOver + MinGap

\* What each command may count on: its slot, the time it starts at, and that
\* what it is told is true.
RequestsAreKnown == SlotsKept /\ CommandsKnow
StartsAreDue == [][AllInTime /\ AllSpaced]_vars

\* When stop returns before its grace is over, no handler is left that could
\* use the database.
StopIsQuiet == stop = "drained" => \A r \in Requests : ~Active(r) /\ pc[r] # "accepted"
=============================================================================
