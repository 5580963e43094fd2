-------------------------- MODULE AppStateRecovery --------------------------
(***************************************************************************)
(* Recovery of one app state collection (internal/app/chat_state.go,       *)
(* sync_recovery.go, internal/store/app_state.go).                         *)
(*                                                                         *)
(* whatsmeow keeps a cursor into the server's list of mutations and hands  *)
(* each mutation to this program once.  A mutation that is handed over and *)
(* not written to the store would be lost for ever, since the cursor is    *)
(* past it: that is what the durable recovery intents are for.  A command  *)
(* that writes to the collection repairs it first, a recovery worker does  *)
(* when whatsmeow reports a mismatch or an intent is found at startup, and *)
(* a snapshot of the primary device may come long after the attempt that   *)
(* asked for it has given up.                                              *)
(*                                                                         *)
(* Store writes go through the sequencer: here they are a queue that is    *)
(* served in the order of the tickets, which AppStateSequencer is shown to *)
(* do.                                                                     *)
(***************************************************************************)
EXTENDS Naturals, Sequences, FiniteSets, SequencesExt, FiniteSetsExt

CONSTANTS Chats,      \* chats whose state is in the collection
          MaxLog,     \* bound: mutations on the server
          MaxIds,     \* bound: intents
          MaxFails,   \* bound: store operations that fail
          MaxAsked,   \* bound: snapshots asked for and not answered
          Beyond      \* bound: whether what follows exposure is explored (DebtKept)

VARIABLES
  log,      \* the server's mutations: the chat that each one is about
  cursor,   \* whatsmeow's version of the collection (0: none), durable
  outbox,   \* events of live fetches and snapshots that whatsmeow is to dispatch
  batch,    \* the same for the goroutine of an own send
  saved,    \* the mutations that have been written to the store, durable
  intents,  \* app_state_recovery_intents, by id, durable
  broken,   \* app_state_full_sync_broken, durable
  queue,    \* reserved tickets not yet served
  holder,   \* the attempt that holds chatStateSync, or Nobody
  capture,  \* its capture of a snapshot, or NoCapture
  late,     \* the registered continuation: its capture and generation
  owed,     \* generations that continuations are about to clear
  asked,    \* snapshot requests that the primary has not answered
  fails,    \* how many store operations have failed
  exposed   \* history: see DebtKept

serverVars == <<log, cursor, outbox, batch>>
lateVars == <<late, owed>>
storeVars == <<saved, intents, broken, fails>>
vars == <<serverVars, storeVars, queue, holder, capture, lateVars, asked, exposed>>

Mutations == 1 .. Len(log)
\* The state of the collection at version v: its last mutation of each chat.
Latest(c, v) == Max({0} \cup {i \in 1 .. v : log[i] = c})
StateAt(v) == {Latest(c, v) : c \in Chats} \ {0}
Behind == cursor + 1 .. Len(log)
InOrder(events) ==
  [k \in 1 .. Cardinality(events) |-> CHOOSE e \in events : Cardinality({f \in events : f <= e}) = k]

Sentinel == 0
Nobody == [who |-> "nobody"]
NoCapture == [on |-> FALSE, events |-> {}, done |-> FALSE]
NoLate == [g |-> 0, capture |-> NoCapture]

Init ==
  /\ log = <<>> /\ cursor = 0 /\ outbox = <<>> /\ batch = <<>>
  /\ saved = {} /\ intents = {} /\ broken = FALSE /\ fails = 0
  /\ queue = <<>> /\ holder = Nobody /\ capture = NoCapture
  /\ late = NoLate /\ owed = {} /\ asked = 0
  /\ exposed = FALSE

-----------------------------------------------------------------------------
(* Intents.  The column counts up for ever; since ids are only compared     *)
(* with one another, it is enough that a new one is above all still known.  *)

Known ==
  intents \cup owed \cup {late.g, IF holder = Nobody \/ holder.how = "send" THEN 0 ELSE holder.g}
    \cup UNION {{queue[i].g} \cup queue[i].tells : i \in DOMAIN queue}
NewId == 1 + Max(Known)
Marks == intents' = intents \cup {NewId}

\* Room for n intents besides those of events under way.
Room(n) == Max(Known) + Len(SelectSeq(outbox \o batch, LAMBDA e : e # Sentinel)) + n <= MaxIds

\* What ClearAppStateRecoveryGeneration leaves.
After(g) == {i \in intents : i > g}

-----------------------------------------------------------------------------
(* The server, whatsmeow and the primary device. *)

OtherDeviceWrites ==
  /\ Len(log) < MaxLog
  /\ \E c \in Chats : log' = Append(log, c)
  /\ UNCHANGED <<cursor, outbox, batch, storeVars, queue, holder, capture, lateVars, asked, exposed>>

\* whatsmeow dispatches what it has fetched before it fetches again.
Dispatched == outbox = <<>> /\ batch = <<>>

\* A notification: the next mutations are fetched and dispatched.
LiveFetch ==
  /\ Dispatched
  /\ Behind # {} /\ Room(Cardinality(Behind))
  /\ cursor' = Len(log)
  /\ outbox' = InOrder(Behind)
  /\ UNCHANGED <<log, batch, storeVars, queue, holder, capture, lateVars, asked, exposed>>

\* The primary answers; whatsmeow adopts a snapshot that is newer than the local
\* state, dispatches its events, and AppStateSyncComplete after them.
PrimaryAnswers ==
  /\ Dispatched
  /\ asked > 0
  /\ asked' = asked - 1
  /\ \/ UNCHANGED <<cursor, outbox>>
     \/ \E s \in Behind :
          /\ Room(Cardinality(StateAt(s)))
          /\ cursor' = s /\ outbox' = Append(InOrder(StateAt(s)), Sentinel)
  /\ UNCHANGED <<log, batch, storeVars, queue, holder, capture, lateVars, exposed>>

-----------------------------------------------------------------------------
(* Tickets.                                                                  *)

Ticket(by) == [by |-> by, ready |-> FALSE, events |-> {}, g |-> 0, awaited |-> FALSE, tells |-> {}]
Live(e, g) == [Ticket("live") EXCEPT !.ready = TRUE, !.events = {e}, !.g = g]
At(by) == {i \in DOMAIN queue : queue[i].by = by /\ ~queue[i].ready}

\* The ticket up to which complete tells its caller to wait: the last of those
\* that are ready after its own.
Frontier(q, i) == Max({j \in i .. Len(q) : \A k \in i + 1 .. j : q[k].ready})

\* The queue when the open ticket of by, if it has one, has nothing to do, and
\* when that of a passes to b.
Released(by) == [i \in DOMAIN queue |-> IF i \in At(by) THEN [queue[i] EXCEPT !.ready = TRUE] ELSE queue[i]]
Passed(q, a, b) == [i \in DOMAIN q |-> IF q[i].by = a THEN [q[i] EXCEPT !.by = b] ELSE q[i]]

-----------------------------------------------------------------------------
(* Events that whatsmeow dispatches. *)

NextEvent == Head(IF outbox # <<>> THEN outbox ELSE batch)
Handed == IF outbox # <<>> THEN outbox' = Tail(outbox) /\ UNCHANGED batch
          ELSE batch' = Tail(batch) /\ UNCHANGED outbox

\* Open captures hear the event as well.
Hears(c) == IF c.on /\ ~c.done THEN [c EXCEPT !.events = @ \cup {NextEvent}] ELSE c
CapturesHear ==
  /\ capture' = Hears(capture)
  /\ late' = [late EXCEPT !.capture = Hears(@)]

HandlerMarks ==
  /\ ~Dispatched /\ NextEvent # Sentinel
  /\ Marks
  /\ queue' = Append(queue, Live(NextEvent, NewId))
  /\ CapturesHear /\ Handed
  /\ UNCHANGED <<log, cursor, saved, broken, fails, holder, owed, asked, exposed>>

\* The intent could not be stored: the event is written at once, the intent is
\* tried again, and the write in its turn is made all the same.
HandlerUnmarked ==
  /\ ~Dispatched /\ NextEvent # Sentinel
  /\ \E wrote, marked \in BOOLEAN :
       /\ fails' = fails + Cardinality({i \in 1 .. 3 : <<FALSE, wrote, marked>>[i] = FALSE})
       /\ saved' = IF wrote THEN saved \cup {NextEvent} ELSE saved
       /\ IF marked THEN Marks ELSE UNCHANGED intents
       /\ queue' = Append(queue, Live(NextEvent, IF marked THEN NewId ELSE 0))
       /\ exposed' = (exposed \/ ~(wrote \/ marked))
  /\ fails' <= MaxFails
  /\ CapturesHear /\ Handed
  /\ UNCHANGED <<log, cursor, broken, holder, owed, asked>>

\* The sentinel closes the captures, and they reserve their tickets here.
Closed(c) == IF c.on THEN [c EXCEPT !.done = TRUE] ELSE c
Closes(c, by) == IF c.on /\ ~c.done THEN <<Ticket(by)>> ELSE <<>>

HandlerCompletes ==
  /\ ~Dispatched /\ NextEvent = Sentinel
  /\ capture' = Closed(capture)
  /\ late' = [late EXCEPT !.capture = Closed(@)]
  /\ queue' = queue \o Closes(late.capture, "late") \o Closes(capture, "capture")
  /\ Handed
  /\ UNCHANGED <<log, cursor, storeVars, holder, owed, asked, exposed>>

-----------------------------------------------------------------------------
(* Tasks of the sequencer. *)

\* A live event's task that has written clears its own intent, and makes one
\* after it has failed without.  The others tell those that wait.
Serve(works) ==
  /\ queue # <<>> /\ Head(queue).ready
  /\ LET e == Head(queue) IN
       /\ IF works THEN saved' = saved \cup e.events /\ UNCHANGED fails
          ELSE e.events # {} /\ fails < MaxFails /\ fails' = fails + 1 /\ UNCHANGED saved
       /\ CASE e.by = "live" /\ works -> intents' = intents \ {e.g}
            [] e.by = "live" /\ ~works /\ e.g = 0 -> Room(1) /\ Marks
            [] OTHER -> UNCHANGED intents
       /\ queue' = [i \in 1 .. Len(queue) - 1 |->
            IF e.by = "late" /\ ~works THEN [queue[i + 1] EXCEPT !.tells = @ \ {e.g}] ELSE queue[i + 1]]
       /\ owed' = owed \cup (IF e.by = "late" /\ ~works THEN e.tells \ {e.g} ELSE e.tells)
       /\ holder' = IF holder = Nobody THEN Nobody
            ELSE [holder EXCEPT !.phase = IF e.awaited THEN "done" ELSE @,
                                !.res = IF e.by = "holder" /\ ~works THEN "unsaved" ELSE @]
  /\ UNCHANGED <<serverVars, broken, capture, late, asked, exposed>>

-----------------------------------------------------------------------------
(* The attempt that holds chatStateSync. *)

Holds(how, phase) == holder # Nobody /\ holder.how \in how /\ holder.phase = phase
Goes(how, last, phase) ==
  holder' = [holder EXCEPT !.how = how, !.last = last, !.phase = phase, !.res = "ok"]
\* Its ticket, which At("holder") is, is completed and the wait begins.
Waits(q, events, res) ==
  \E i \in At("holder") :
    /\ queue' = [[q EXCEPT ![i].ready = TRUE, ![i].events = events] EXCEPT ![Frontier(q, i)].awaited = TRUE]
    /\ holder' = [holder EXCEPT !.phase = "queued", !.res = res]
Ends == holder' = Nobody

Incremental == {"incremental", "degraded"}
Full == {"replay", "full"}

Attempt(who, how) ==
  [who |-> who, how |-> how, last |-> FALSE, phase |-> "start", g |-> NewId, res |-> "ok"]

\* Earlier intents ask for a replay, or for an incremental fetch when full
\* syncs of the collection do not verify and there is local state.
CommandBegins ==
  /\ holder = Nobody /\ Room(1)
  /\ Marks
  /\ holder' = Attempt("command",
       IF intents = {} THEN "incremental" ELSE IF broken /\ cursor > 0 THEN "degraded" ELSE "replay")
  /\ UNCHANGED <<serverVars, saved, broken, fails, queue, capture, lateVars, asked, exposed>>

\* A mismatch asks the primary first, an intent found at startup and an empty
\* key the server.
WorkerBegins ==
  /\ holder = Nobody /\ Room(1)
  /\ Marks
  /\ \E how \in {"snapshot", "full"} : holder' = Attempt("worker", how)
  /\ UNCHANGED <<serverVars, saved, broken, fails, queue, capture, lateVars, asked, exposed>>

\* Every step reserves its ticket first.
Reserves ==
  /\ holder # Nobody /\ holder.phase = "start"
  /\ queue' = Append(queue, Ticket("holder"))
  /\ holder' = [holder EXCEPT !.phase = "out"]
  /\ UNCHANGED <<serverVars, storeVars, capture, lateVars, asked, exposed>>

Failures == {"mismatch", "emptyKey", "noKey", "error"}

FetchSucceeds ==
  /\ Dispatched
  /\ cursor' = Len(log)
  /\ \/ Holds(Incremental, "out") /\ Waits(queue, Behind, "ok") /\ UNCHANGED broken
     \/ Holds(Full, "out") /\ Waits(queue, StateAt(Len(log)), "ok") /\ broken' = FALSE
  /\ UNCHANGED <<log, outbox, batch, saved, intents, fails, capture, lateVars, asked, exposed>>

\* A full sync deletes the stored version before it decodes.
FetchFails(res) ==
  /\ Dispatched
  /\ \/ Holds(Incremental, "out") /\ UNCHANGED <<cursor, broken>>
     \/ /\ Holds(Full, "out")
        /\ cursor' = 0 \/ (res = "error" /\ UNCHANGED cursor)
        /\ broken' = (broken \/ res = "mismatch")
  /\ Waits(queue, {}, res)
  /\ UNCHANGED <<log, outbox, batch, saved, intents, fails, capture, lateVars, asked, exposed>>

\* The queue without the waiter.
Abandoned == [i \in DOMAIN queue |-> [Passed(queue, "holder", "orphan")[i] EXCEPT !.awaited = FALSE]]

\* The wait for a fetch's own writes ends with its context, the writes do not.
FetchAbandoned ==
  /\ Holds(Incremental \cup Full, "queued")
  /\ queue' = Abandoned
  /\ Ends
  /\ UNCHANGED <<serverVars, storeVars, capture, lateVars, asked, exposed>>

\* recoverMismatchingAppState: a capture and a request.
SnapshotRequested ==
  /\ Holds({"snapshot"}, "out") /\ asked < MaxAsked
  /\ capture' = [NoCapture EXCEPT !.on = TRUE]
  /\ asked' = asked + 1
  /\ holder' = [holder EXCEPT !.phase = "asking"]
  /\ exposed' = (exposed \/ Sentinel \in ToSet(outbox))
  /\ UNCHANGED <<serverVars, storeVars, queue, lateVars>>

RequestFails ==
  /\ Holds({"snapshot"}, "out")
  /\ Waits(queue, {}, "error")
  /\ UNCHANGED <<serverVars, storeVars, capture, lateVars, asked, exposed>>

\* Mutant: the ticket that was taken at the sentinel is kept.
TimelyReleasesNot == queue

\* The waiter writes under its own ticket, from before the request.
TimelyReleases == Released("capture")

SnapshotArrives ==
  /\ Holds({"snapshot"}, "asking") /\ capture.done
  /\ Waits(TimelyReleases, capture.events, "ok")
  /\ capture' = NoCapture
  /\ UNCHANGED <<serverVars, storeVars, lateVars, asked, exposed>>

\* The capture is handed to a continuation, which supersedes an earlier one.
\* The earlier one gives its ticket back.
SnapshotTimesOut ==
  /\ Holds({"snapshot"}, "asking")
  /\ Waits(Passed(Released("late"), "capture", "late"), {}, "error")
  /\ late' = [g |-> holder.g, capture |-> capture]
  /\ capture' = NoCapture
  /\ UNCHANGED <<serverVars, storeVars, owed, asked, exposed>>

Succeeds == IF holder.who = "command" THEN Goes("send", TRUE, "mark") ELSE Ends

\* clearCompletedAppStateRecovery; an intent made since is looked at again.
Clears ==
  /\ Holds(Full \cup {"incremental", "snapshot"}, "done") /\ holder.res = "ok"
  /\ intents' = After(holder.g)
  /\ IF intents' = {} THEN Succeeds ELSE holder' = [holder EXCEPT !.phase = "recheck"]
  /\ UNCHANGED <<serverVars, saved, broken, fails, queue, capture, lateVars, asked, exposed>>

ClearsRechecked ==
  /\ holder # Nobody /\ holder.phase = "recheck"
  /\ IF intents = {} THEN Succeeds ELSE holder' = [holder EXCEPT !.phase = "done", !.res = "error"]
  /\ UNCHANGED <<serverVars, storeVars, queue, capture, lateVars, asked, exposed>>

\* Mutant: older intents go as well, though nothing has been replayed.
DegradedLeavesNewer(g) == After(g)
\* Only this attempt's own intent goes: an incremental fetch replays nothing.
DegradedLeaves(g) == intents \ {g}

\* A background request may be due.
DegradedProceeds ==
  /\ Holds({"degraded"}, "done") /\ holder.res = "ok"
  /\ intents' = DegradedLeaves(holder.g)
  /\ Goes("send", TRUE, "mark")
  /\ UNCHANGED asked \/ (asked < MaxAsked /\ asked' = asked + 1)
  /\ UNCHANGED <<serverVars, saved, broken, fails, queue, capture, lateVars, exposed>>

\* The intent of attempt g is gone, or a continuation is there that clears it.
LosesIntent(g) ==
  g \notin intents \/ late.g = g \/ g \in owed \/ \E i \in DOMAIN queue : g \in queue[i].tells

\* The next step after one that failed, but for a failed write.
FallsBack ==
  /\ holder # Nobody /\ holder.phase = "done" /\ holder.res \in Failures
  /\ \/ /\ holder.how = "incremental" /\ holder.res = "mismatch"
        /\ Goes("snapshot", FALSE, "start")
     \/ /\ holder.how = "incremental" /\ holder.res \in {"emptyKey", "noKey"}
        /\ Goes("replay", TRUE, "start")
     \/ /\ holder.how = "degraded"
        /\ Goes("replay", TRUE, "start")
     \/ /\ holder.how = "replay" /\ holder.res \in {"mismatch", "emptyKey"}
        /\ Goes("snapshot", TRUE, "start")
     \/ /\ holder.how = "replay" /\ holder.res = "noKey"
        /\ Goes("replay", TRUE, "start")
     \/ /\ holder.how = "snapshot" /\ ~holder.last
        /\ Goes(IF holder.who = "command" THEN "replay" ELSE "full", TRUE, "start")
     \/ /\ holder.how = "full" /\ ~holder.last
        /\ Goes("snapshot", TRUE, "start")
  /\ exposed' = (exposed \/ LosesIntent(holder.g))
  /\ UNCHANGED <<serverVars, storeVars, queue, capture, lateVars, asked>>

\* There is no other step, or the context has ended.
GivesUp ==
  /\ holder # Nobody /\ holder.phase = "done"
  /\ holder.res # "ok" \/ holder.how = "send"
  /\ Ends
  /\ UNCHANGED <<serverVars, storeVars, queue, capture, lateVars, asked, exposed>>

-----------------------------------------------------------------------------
(* The command's own write. *)

\* beginLocalAppStateWrite
SendMarks ==
  /\ Holds({"send"}, "mark")
  /\ \/ Room(1) /\ Marks /\ holder' = [holder EXCEPT !.phase = "start"]
     \/ UNCHANGED intents /\ Ends
  /\ UNCHANGED <<serverVars, saved, broken, fails, queue, capture, lateVars, asked, exposed>>

\* whatsmeow's cursor is past the mutation when the send returns; its events
\* are dispatched by a goroutine.
SendSucceeds ==
  /\ Holds({"send"}, "out")
  /\ Dispatched /\ Behind = {} /\ Len(log) < MaxLog /\ Room(1)
  /\ \E c \in Chats : log' = Append(log, c)
  /\ cursor' = Len(log') /\ batch' = <<Len(log')>>
  /\ Waits(queue, {Len(log')}, "ok")
  /\ UNCHANGED <<outbox, storeVars, capture, lateVars, asked, exposed>>

\* Whether the server has it or not.
SendFails ==
  /\ Holds({"send"}, "out")
  /\ UNCHANGED log \/ (Len(log) < MaxLog /\ \E c \in Chats : log' = Append(log, c))
  /\ Waits(queue, {}, "error")
  /\ UNCHANGED <<cursor, outbox, batch, storeVars, capture, lateVars, asked, exposed>>

-----------------------------------------------------------------------------
(* The continuation of an attempt that timed out. *)

LateArrives ==
  /\ late.g # 0
  /\ \E i \in At("late") :
       queue' = [[queue EXCEPT ![i].ready = TRUE, ![i].events = late.capture.events, ![i].g = late.g]
                   EXCEPT ![Frontier(queue, i)].tells = @ \cup {late.g}]
  /\ late' = NoLate
  /\ UNCHANGED <<serverVars, storeVars, holder, capture, owed, asked, exposed>>

\* After 24 hours.
LateExpires ==
  /\ late.g # 0
  /\ queue' = Released("late")
  /\ late' = NoLate
  /\ UNCHANGED <<serverVars, storeVars, holder, capture, owed, asked, exposed>>

LateClears ==
  \E g \in owed :
    /\ owed' = owed \ {g}
    /\ intents' = After(g)
    /\ UNCHANGED <<serverVars, saved, broken, fails, queue, holder, capture, late, asked, exposed>>

\* The process dies and another one starts.  What whatsmeow has fetched on its
\* own account it has dispatched by then, what it dispatches for a send may be lost.
Crash ==
  /\ outbox = <<>>
  /\ batch' = <<>> /\ queue' = <<>> /\ holder' = Nobody /\ capture' = NoCapture
  /\ late' = NoLate /\ owed' = {}
  /\ UNCHANGED <<log, cursor, outbox, storeVars, asked, exposed>>

-----------------------------------------------------------------------------
Server == OtherDeviceWrites \/ LiveFetch \/ PrimaryAnswers
Handler == HandlerMarks \/ HandlerUnmarked \/ HandlerCompletes
Sequencer == \E works \in BOOLEAN : Serve(works)
Fetch == FetchSucceeds \/ (\E res \in Failures : FetchFails(res)) \/ FetchAbandoned
Snapshot == SnapshotRequested \/ RequestFails \/ SnapshotArrives \/ SnapshotTimesOut
Ladder == Reserves \/ CommandBegins \/ WorkerBegins \/ Clears \/ ClearsRechecked \/ DegradedProceeds \/ FallsBack \/ GivesUp
Send == SendMarks \/ SendSucceeds \/ SendFails
Late == LateArrives \/ LateExpires \/ LateClears

Next ==
  /\ exposed => Beyond
  /\ Server \/ Handler \/ Sequencer \/ Ladder \/ Fetch \/ Snapshot \/ Send \/ Late \/ Crash

Spec == Init /\ [][Next]_vars

-----------------------------------------------------------------------------
(* What the recovery promises. *)

Captures == [on : BOOLEAN, events : SUBSET Mutations, done : BOOLEAN]
Ids == 0 .. MaxIds
TypeOK ==
  /\ log \in Seq(Chats) /\ cursor \in 0 .. Len(log)
  /\ outbox \in Seq(0 .. Len(log)) /\ batch \in Seq(Mutations)
  /\ saved \subseteq Mutations /\ intents \subseteq Ids \ {0}
  /\ queue \in Seq([by : {"live", "holder", "orphan", "capture", "late"}, ready : BOOLEAN,
                    events : SUBSET Mutations, g : Ids, awaited : BOOLEAN, tells : SUBSET Ids])
  /\ holder # Nobody =>
       /\ holder.g \in Ids \ {0}
       /\ holder.phase = "queued" <=> \E i \in DOMAIN queue : queue[i].awaited
  /\ {capture, late.capture} \subseteq Captures /\ late.g \in Ids /\ owed \subseteq Ids \ {0}
  /\ {broken, exposed} \subseteq BOOLEAN
  /\ asked \in 0 .. MaxAsked /\ fails \in 0 .. MaxFails

\* No mutation is forgotten: what whatsmeow has handed over and will not hand
\* over again has been written to the store at some time, or has been replaced
\* on the server, or an intent says that it is owed.  It holds at every moment,
\* so that a process that dies leaves one that knows.
Owed == {c \in Chats : Latest(c, cursor) \notin saved \cup {0}}
DebtAlwaysKept == Owed # {} => intents # {} \/ outbox # <<>>

\* The same but for three cases that break it: an attempt that goes on to its next
\* step after its intent has gone, or while the continuation of its own snapshot
\* may take it; a capture that begins in the middle of another snapshot; a live
\* event for which three store calls in a row have failed.
DebtKept == exposed \/ DebtAlwaysKept

\* A ticket that is not ready has someone who will complete it, or every later
\* store write would wait for ever.
TicketsOwned ==
  \A i \in DOMAIN queue :
    ~queue[i].ready => CASE queue[i].by = "holder" -> holder # Nobody /\ holder.phase \in {"out", "asking"}
                         [] queue[i].by = "capture" -> capture.done
                         [] queue[i].by = "late" -> late.capture.done
                         [] OTHER -> FALSE
=============================================================================
