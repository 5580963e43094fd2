----------------------------- MODULE SendGuard -----------------------------
(***************************************************************************)
(* The retry guard of `wacli send ... --id ID`.                            *)
(*                                                                         *)
(* An attempt is one request to send one message under a caller-chosen id. *)
(* It runs in its own process, which then holds the store lock, or inside  *)
(* the sync daemon, which holds the lock and serves one send at a time.    *)
(* Both paths run the same guard (delegate_idempotent.go): look the id up  *)
(* among the stored messages, write a pending_sends row, send from a       *)
(* goroutine of its own (send_helpers.go), store the message, close the    *)
(* row.  The guard has to hold when the context ends while the goroutine   *)
(* still runs, when a process dies between any two steps, when the ack is  *)
(* lost and when a write to the store fails.                               *)
(*                                                                         *)
(* The network and the server are modelled from how the code uses them: a  *)
(* frame that was written is accepted, rejected or lost at any later time, *)
(* also after the process that wrote it is gone; whatsmeow writes no frame *)
(* for a context that has ended; a failed device lookup precedes the frame.*)
(***************************************************************************)
EXTENDS Naturals

CONSTANTS Attempts,     \* requests made over the life of the store
          Ids,          \* the values callers pass as --id
          Texts,        \* message texts, "" is the empty one
          Msgs          \* the messages: [kind |-> ..., text |-> ...]

Kinds == {"text", "file", "voice", "sticker", "location", "poll", "react", "forward"}

ASSUME MsgsAssumption == /\ "" \in Texts
                         /\ Msgs \subseteq [kind : Kinds, text : Texts]
ASSUME AttemptsAssumption == {"none", "daemon"} \cap Attempts = {}

VARIABLES
  req,        \* req[a]: the id and the message the caller asks for
  path,       \* path[a]: "local" process or "daemon", once decided
  pc,         \* pc[a]: where the handler of the request is
  err,        \* err[a]: sendErr as the deferred finish sees it
  warn,       \* warn[a]: a store warning reaches finish
  retried,    \* retried[a]: the one reconnect has been used
  answer,     \* answer[a]: what the caller is told
  op,         \* op[a]: the goroutine of runSendAttempt
  res,        \* res[a]: what that goroutine put in its channel
  dispatched, \* dispatched[a]: wa.SendPhase
  live,       \* live[a]: the attempt's context has not ended
  net,        \* net[a]: the frame of this attempt, on the network
  sent,       \* sent[a]: frames of this attempt the server accepted
  lock,       \* holder of the store lock
  slot,       \* the attempt that holds the daemon's one send slot
  row,        \* row[id]: the pending_sends row
  stored,     \* stored[id]: the messages row with from_me = 1
  released    \* ids whose record was removed on purpose

mainVars  == <<path, pc, err, warn, retried, answer>>
opVars    == <<op, res, dispatched, live>>
netVars   == <<net, sent>>
storeVars == <<row, stored, released>>
heldVars  == <<lock, slot>>
vars == <<req, mainVars, opVars, netVars, heldVars, storeVars>>

-----------------------------------------------------------------------------
(* What the store remembers of a message. *)

\* store.ContentHash, collision-free: the kind and the text it is taken of.
ContentHash(kind, text) == [kind |-> kind, text |-> text]

\* requestContentHash: the text each path puts in the fields that are hashed.
\* A delegated reaction has its emoji in a field that is not, a local location
\* passes no text, the other three carry none.
requestContentHash(m, p) ==
  ContentHash(m.kind,
    IF \/ m.kind \in {"forward", "voice", "sticker"}
       \/ m.kind = "react" /\ p = "daemon"
       \/ m.kind = "location" /\ p = "local"
    THEN "" ELSE m.text)

Hashes   == [kind : Kinds, text : Texts]
Rows     == [state : {"none", "in_flight", "sent", "done"}, hash : Hashes, old : BOOLEAN]
Messages == [media : {"none", "", "file", "location"}, prefix : {"", "Poll: "}, text : Texts]
NoRow == [state |-> "none", hash |-> ContentHash("text", ""), old |-> FALSE]
NoMessage == [media |-> "none", prefix |-> "", text |-> ""]

\* The messages row each kind of send leaves behind, as FindOwnMessageRef reads it.
StoredMedia(m) == IF m.kind \in {"file", "voice", "sticker"} THEN "file"
                  ELSE IF m.kind = "location" THEN "location" ELSE ""
StoredPrefix(m) == IF m.kind = "poll" THEN "Poll: " ELSE ""
StoredText(m) == IF m.kind \in {"react", "location"} THEN "" ELSE m.text
StoredForm(m) == [media |-> StoredMedia(m), prefix |-> StoredPrefix(m), text |-> StoredText(m)]

\* reusedForAnotherMessage: only a text request is compared.
reusedForAnotherMessage(m, ref) ==
  /\ m.kind = "text"
  /\ \/ ref.media # ""
     \/ <<ref.prefix, ref.text>> # <<"", m.text>>

\* The kinds whose store write happens inside the send goroutine (sendFile).
PersistsInOp(m) == m.kind \in {"file", "voice", "sticker"}

-----------------------------------------------------------------------------
Id(a)  == req[a].id
Msg(a) == req[a].msg
Hash(a) == requestContentHash(Msg(a), path[a])

\* Between the stored-message check and the end of the handler.
Running(a) == pc[a] \in {"check", "begin", "prepare", "await", "reconnect", "persist", "finish"}
\* The attempt wrote the pending row and has not closed it yet.
Owns(a) == pc[a] \in {"prepare", "await", "reconnect", "persist", "finish"}
Ended(a) == pc[a] \in {"done", "dead"}

Init ==
  /\ req \in [Attempts -> [id : Ids, msg : Msgs]]
  /\ path = [a \in Attempts |-> "none"]
  /\ pc = [a \in Attempts |-> "idle"]
  /\ err = [a \in Attempts |-> "nil"]
  /\ warn = [a \in Attempts |-> FALSE]
  /\ retried = [a \in Attempts |-> FALSE]
  /\ answer = [a \in Attempts |-> "none"]
  /\ op = [a \in Attempts |-> "none"]
  /\ res = [a \in Attempts |-> "none"]
  /\ dispatched = [a \in Attempts |-> FALSE]
  /\ live = [a \in Attempts |-> TRUE]
  /\ net = [a \in Attempts |-> "none"]
  /\ sent = [a \in Attempts |-> 0]
  /\ lock = "none"
  /\ slot = "none"
  /\ row = [i \in Ids |-> NoRow]
  /\ stored = [i \in Ids |-> NoMessage]
  /\ released = {}

-----------------------------------------------------------------------------
(* Who runs the request. *)

\* newApp takes the lock: the command sends on its own connection.
StartLocal(a) ==
  /\ pc[a] = "idle"
  /\ lock = "none"
  /\ lock' = a
  /\ path' = [path EXCEPT ![a] = "local"]
  /\ pc' = [pc EXCEPT ![a] = "check"]
  /\ UNCHANGED <<req, err, warn, retried, answer, opVars, netVars, slot, storeVars>>

\* The lock is held by the daemon: the request goes to its socket and queues.
StartDelegated(a) ==
  /\ pc[a] = "idle"
  /\ lock = "daemon"
  /\ path' = [path EXCEPT ![a] = "daemon"]
  /\ pc' = [pc EXCEPT ![a] = "queued"]
  /\ UNCHANGED <<req, err, warn, retried, answer, opVars, netVars, heldVars, storeVars>>

\* Another command holds the lock and no daemon listens.
StartRefused(a) ==
  /\ pc[a] = "idle"
  /\ lock \in Attempts
  /\ pc' = [pc EXCEPT ![a] = "done"]
  /\ answer' = [answer EXCEPT ![a] = "error"]
  /\ UNCHANGED <<req, path, err, warn, retried, opVars, netVars, heldVars, storeVars>>

SlotFree == slot = "none"

\* serveDelegateConn: the send slot is free and the deadline has not passed.
TakeSlot(a) ==
  /\ pc[a] = "queued"
  /\ SlotFree
  /\ live[a]
  /\ slot' = a
  /\ pc' = [pc EXCEPT ![a] = "check"]
  /\ UNCHANGED <<req, path, err, warn, retried, answer, opVars, netVars, lock, storeVars>>

\* serveDelegateConn, refuse: the deadline passed in the queue.
QueueRefuse(a) ==
  /\ pc[a] = "queued"
  /\ ~live[a]
  /\ pc' = [pc EXCEPT ![a] = "done"]
  /\ answer' = [answer EXCEPT ![a] = "error"]
  /\ UNCHANGED <<req, path, err, warn, retried, opVars, netVars, heldVars, storeVars>>

\* What a handler knew is gone once it has returned or died.
LocalsGone(S) ==
  /\ err' = [a \in Attempts |-> IF a \in S THEN "nil" ELSE err[a]]
  /\ warn' = [a \in Attempts |-> IF a \in S THEN FALSE ELSE warn[a]]
  /\ retried' = [a \in Attempts |-> IF a \in S THEN FALSE ELSE retried[a]]
  /\ dispatched' = [a \in Attempts |-> IF a \in S THEN FALSE ELSE dispatched[a]]
  /\ res' = [a \in Attempts |-> IF a \in S THEN "none" ELSE res[a]]

\* The handler returns: a command releases the lock and exits, and its
\* goroutine dies with it; the daemon frees the slot and cancels the context,
\* and a goroutine still in flight lives on.
Return(a, what) ==
  /\ pc' = [pc EXCEPT ![a] = "done"]
  /\ answer' = [answer EXCEPT ![a] = what]
  /\ LocalsGone({a})
  /\ lock' = IF lock = a THEN "none" ELSE lock
  /\ slot' = IF slot = a THEN "none" ELSE slot
  /\ live' = [live EXCEPT ![a] = FALSE]
  /\ op' = [op EXCEPT ![a] = IF path[a] = "local" THEN "gone" ELSE @]

-----------------------------------------------------------------------------
(* The guard before the send. *)

\* FindOwnMessageRef finds a row.
HasMessage(i) == stored[i].media # "none"

\* alreadySentResponse and pendingSentResponse.
Found(a) == HasMessage(Id(a))
StoredAnswer(a) == IF reusedForAnotherMessage(Msg(a), stored[Id(a)])
                   THEN "id_reused" ELSE "already_sent"

\* Mutant: a finished row is taken for proof that the message went out.
WentOutDoneToo(r) == r.state \in {"sent", "done"}
\* Only a row in state "sent" proves it without a stored message.
WentOut(r) == r.state = "sent"
PendingAnswer(a) == IF row[Id(a)].hash # Hash(a) THEN "id_reused" ELSE "already_sent"

alreadySentResponse(a) ==
  /\ pc[a] = "check"
  /\ \/ Found(a) /\ Return(a, StoredAnswer(a))
     \/ ~Found(a) /\ WentOut(row[Id(a)]) /\ Return(a, PendingAnswer(a))
     \/ Return(a, "error")            \* the lookup itself fails
     \/ /\ ~Found(a) /\ ~WentOut(row[Id(a)])
        /\ pc' = [pc EXCEPT ![a] = "begin"]
        /\ UNCHANGED <<err, warn, retried, answer, opVars, heldVars>>
  /\ UNCHANGED <<req, path, netVars, storeVars>>

\* BeginPendingSend's DELETE of the rows past the retention; its error is ignored.
Purged(drop) == [i \in Ids |-> IF drop /\ row[i].old THEN NoRow ELSE row[i]]

\* The row BeginPendingSend inserts.
InFlight(a) == [state |-> "in_flight", hash |-> Hash(a), old |-> FALSE]

\* Mutant: a row left by an attempt that never finished is replaced as well.
StartsOverAny(r) == r.state \in {"done", "in_flight"}
\* A finished send whose stored message is gone proves nothing.
StartsOver(r) == r.state = "done"

\* beginIDSend: insert the row, or start over on a "done" row (whose DELETE may
\* fail too), or answer from the row that is there.
beginIDSend(a) ==
  /\ pc[a] = "begin"
  /\ \E drop \in BOOLEAN, replaced \in BOOLEAN :
       LET kept == Purged(drop)
           old  == kept[Id(a)]
       IN /\ released' = released \cup {i \in Ids : drop /\ row[i].old}
          /\ \/ /\ old.state = "none" \/ (StartsOver(old) /\ replaced)
                /\ row' = [kept EXCEPT ![Id(a)] = InFlight(a)]
                /\ pc' = [pc EXCEPT ![a] = "prepare"]
                /\ UNCHANGED <<err, warn, retried, answer, opVars, heldVars>>
             \/ /\ old.state # "none" /\ ~(StartsOver(old) /\ replaced)
                /\ row' = kept
                /\ Return(a, IF old.hash # Hash(a) THEN "id_reused" ELSE "resultado_incerto")
             \/ /\ row' = kept        \* the INSERT fails
                /\ Return(a, "error")
  /\ UNCHANGED <<req, path, netVars, stored>>

-----------------------------------------------------------------------------
(* The send. *)

\* runSendAttempt starts the goroutine and waits for it.
Spawn(a) ==
  /\ pc' = [pc EXCEPT ![a] = "await"]
  /\ op' = [op EXCEPT ![a] = "prep"]
  /\ res' = [res EXCEPT ![a] = "none"]

Fail(a, e) ==
  /\ pc' = [pc EXCEPT ![a] = "finish"]
  /\ err' = [err EXCEPT ![a] = e]
  /\ answer' = [answer EXCEPT ![a] = "error"]

\* The error finish sees when a step before the send fails.  The commands that
\* call localIDGuard return without assigning sendErr; callKind (forward) and
\* the daemon pass the error on.
EarlyErr(a) == IF path[a] = "local" /\ Msg(a).kind # "forward" THEN "nil" ELSE "other"

\* Resolve the recipient, connect, warn about rapid sends.
Prepare(a) ==
  /\ pc[a] = "prepare"
  /\ \/ Spawn(a) /\ UNCHANGED <<err, answer>>
     \/ Fail(a, EarlyErr(a)) /\ UNCHANGED <<op, res>>
  /\ UNCHANGED <<req, path, warn, retried, dispatched, live, netVars, heldVars, storeVars>>

\* The goroutine ends; its result is only there for a handler that still waits.
OpReturn(a, r) ==
  /\ op' = [op EXCEPT ![a] = IF pc[a] = "await" THEN "ret" ELSE "gone"]
  /\ res' = [res EXCEPT ![a] = IF pc[a] = "await" THEN r ELSE @]

\* Upload fails, not connected, context ended: an error before the mark.
OpFailEarly(a) ==
  /\ op[a] = "prep"
  /\ \E r \in {"other", "lookup"} : OpReturn(a, r)
  /\ UNCHANGED <<req, mainVars, dispatched, live, netVars, heldVars, storeVars>>

\* markDispatched, right before the client's SendMessage.
OpMark(a) ==
  /\ op[a] = "prep"
  /\ op' = [op EXCEPT ![a] = "marked"]
  /\ dispatched' = [dispatched EXCEPT ![a] = TRUE]
  /\ UNCHANGED <<req, mainVars, res, live, netVars, heldVars, storeVars>>

\* SendMessage fails before it writes: a device lookup, or the context ended.
OpFailMarked(a) ==
  /\ op[a] = "marked"
  /\ \E r \in {"other", "lookup"} : OpReturn(a, r)
  /\ UNCHANGED <<req, mainVars, dispatched, live, netVars, heldVars, storeVars>>

\* SendMessage writes the frame.
OpWrite(a) ==
  /\ op[a] = "marked"
  /\ live[a]
  /\ op' = [op EXCEPT ![a] = "wire"]
  /\ net' = [net EXCEPT ![a] = "flying"]
  /\ UNCHANGED <<req, mainVars, res, dispatched, live, sent, heldVars, storeVars>>

\* The server takes the frame, refuses it, or never sees it.
ServerTakes(a) ==
  /\ net[a] = "flying"
  /\ \/ /\ net' = [net EXCEPT ![a] = "accepted"]
        /\ sent' = [sent EXCEPT ![a] = @ + 1]
     \/ /\ \E n \in {"rejected", "lost"} : net' = [net EXCEPT ![a] = n]
        /\ UNCHANGED sent
  /\ UNCHANGED <<req, mainVars, opVars, heldVars, storeVars>>

\* SendMessage returns: the ack, the server's error, or no answer at all (a
\* dropped socket, a timeout, an ended context).
OpAnswer(a) ==
  /\ op[a] = "wire"
  /\ \/ net[a] = "accepted" /\ PersistsInOp(Msg(a)) /\ op' = [op EXCEPT ![a] = "acked"] /\ UNCHANGED res
     \/ net[a] = "accepted" /\ ~PersistsInOp(Msg(a)) /\ OpReturn(a, "ok")
     \/ net[a] = "rejected" /\ OpReturn(a, "server")
     \/ OpReturn(a, "other")
  /\ UNCHANGED <<req, mainVars, dispatched, live, netVars, heldVars, storeVars>>

\* The store write after an acknowledged send: the chat and the message are
\* upserted one by one, and a failure of either only becomes a warning.
StoreWrite(a) ==
  \E chatOK, messageOK \in BOOLEAN :
    /\ stored' = IF messageOK THEN [stored EXCEPT ![Id(a)] = StoredForm(Msg(a))] ELSE stored
    /\ warn' = [warn EXCEPT ![a] = Running(a) /\ ~(chatOK /\ messageOK)]

\* sendFile stores the message itself, inside the goroutine.  A goroutine left
\* behind still stores; nobody reads its warning.
OpPersist(a) ==
  /\ op[a] = "acked"
  /\ StoreWrite(a)
  /\ OpReturn(a, "ok")
  /\ UNCHANGED <<req, path, pc, err, retried, answer, dispatched, live, netVars, heldVars, row, released>>

\* isRetryableSendError: only failures that precede the frame.
Retryable(r) == r = "lookup"

\* The error a failed attempt returns: a lookup's may or may not be an IQ error.
Errors(r) == IF r = "lookup" THEN {"other", "server"} ELSE {r}

CanRetry(a) == Retryable(res[a]) /\ ~retried[a] /\ live[a]

\* runSendAttempt receives the result; a retryable error is retried once.
AwaitResult(a) ==
  /\ pc[a] = "await"
  /\ op[a] = "ret"
  /\ \/ /\ res[a] = "ok"
        /\ pc' = [pc EXCEPT ![a] = IF PersistsInOp(Msg(a)) THEN "finish" ELSE "persist"]
        /\ answer' = [answer EXCEPT ![a] = "sent"]
        /\ UNCHANGED <<err, retried>>
     \/ /\ res[a] # "ok" /\ CanRetry(a)
        /\ pc' = [pc EXCEPT ![a] = "reconnect"]
        /\ retried' = [retried EXCEPT ![a] = TRUE]
        /\ UNCHANGED <<err, answer>>
     \/ /\ res[a] # "ok" /\ ~CanRetry(a)
        /\ \E e \in Errors(res[a]) : Fail(a, e)
        /\ UNCHANGED retried
  /\ UNCHANGED <<req, path, warn, opVars, netVars, heldVars, storeVars>>

\* Mutant: the handler waits for the goroutine to come back.
GivesUpLate(a) == ~live[a] /\ op[a] \in {"ret", "gone"}
GivesUp(a) == ~live[a]

\* runSendAttempt: the context ended first (or at the same time); the goroutine
\* is left running.
AwaitTimeout(a) ==
  /\ pc[a] = "await"
  /\ GivesUp(a)
  /\ Fail(a, "other")
  /\ UNCHANGED <<req, path, warn, retried, opVars, netVars, heldVars, storeVars>>

\* reconnectForSend, then the second runSendAttempt.  When it fails the
\* lookup's error is returned, which may or may not be an IQ error.
Reconnect(a) ==
  /\ pc[a] = "reconnect"
  /\ \/ Spawn(a) /\ UNCHANGED <<err, answer>>
     \/ \E e \in {"other", "server"} : Fail(a, e) /\ UNCHANGED <<op, res>>
  /\ UNCHANGED <<req, path, warn, retried, dispatched, live, netVars, heldVars, storeVars>>

\* persistOutbound...: the handler stores the message after the ack.
Persist(a) ==
  /\ pc[a] = "persist"
  /\ StoreWrite(a)
  /\ pc' = [pc EXCEPT ![a] = "finish"]
  /\ UNCHANGED <<req, path, err, retried, answer, opVars, netVars, heldVars, row, released>>

\* The warning as finish gets it: resultResponse drops the one of a forward.
WarnSeen(a) == warn[a] /\ ~(path[a] = "daemon" /\ Msg(a).kind = "forward")

\* Mutant: an error past the point of no return is taken for definite.
FinishedRowForgets(a) ==
  LET r == row[Id(a)] IN
  IF r.state = "none" THEN r
  ELSE IF err[a] = "nil" THEN [r EXCEPT !.state = IF WarnSeen(a) THEN "sent" ELSE "done"]
  ELSE NoRow
\* What finish makes of the row.
FinishedRow(a) ==
  LET r == row[Id(a)] IN
  IF r.state = "none" THEN r
  ELSE IF err[a] = "nil" THEN [r EXCEPT !.state = IF WarnSeen(a) THEN "sent" ELSE "done"]
  ELSE IF dispatched[a] /\ err[a] # "server" THEN r
  ELSE NoRow

\* The deferred finish, the answer and the end of the handler.  A failed write
\* is ignored and leaves the row as it is.
Finish(a) ==
  /\ pc[a] = "finish"
  /\ \/ row' = [row EXCEPT ![Id(a)] = FinishedRow(a)]
     \/ UNCHANGED row
  /\ Return(a, answer[a])
  /\ UNCHANGED <<req, path, netVars, stored, released>>

-----------------------------------------------------------------------------
(* The world around the handlers. *)

\* A deadline passes or a signal arrives.
CtxEnd(a) ==
  /\ pc[a] = "queued" \/ Running(a)
  /\ live[a]
  /\ live' = [live EXCEPT ![a] = FALSE]
  /\ UNCHANGED <<req, mainVars, op, res, dispatched, netVars, heldVars, storeVars>>

\* A sending command dies; the operating system drops its lock.
LocalCrash(a) ==
  /\ Running(a)
  /\ lock = a
  /\ lock' = "none"
  /\ pc' = [pc EXCEPT ![a] = "dead"]
  /\ op' = [op EXCEPT ![a] = "gone"]
  /\ live' = [live EXCEPT ![a] = FALSE]
  /\ LocalsGone({a})
  /\ UNCHANGED <<req, path, answer, netVars, slot, storeVars>>

\* `wacli sync --follow` takes the lock and serves requests.
DaemonStart ==
  /\ lock = "none"
  /\ lock' = "daemon"
  /\ UNCHANGED <<req, mainVars, opVars, netVars, slot, storeVars>>

\* The daemon exits or dies, with every request and goroutine in it.
DaemonExit ==
  /\ lock = "daemon"
  /\ lock' = "none"
  /\ slot' = "none"
  /\ pc' = [a \in Attempts |-> IF path[a] = "daemon" /\ pc[a] # "done" THEN "dead" ELSE pc[a]]
  /\ op' = [a \in Attempts |-> IF path[a] = "daemon" THEN "gone" ELSE op[a]]
  /\ live' = [a \in Attempts |-> IF path[a] = "daemon" THEN FALSE ELSE live[a]]
  /\ LocalsGone({a \in Attempts : path[a] = "daemon"})
  /\ UNCHANGED <<req, path, answer, netVars, storeVars>>

\* The daemon stores a message of this account that the server reports back
\* (a history sync).
SyncStores(a) ==
  /\ lock = "daemon"
  /\ net[a] = "accepted"
  /\ ~Found(a)
  /\ stored' = [stored EXCEPT ![Id(a)] = StoredForm(Msg(a))]
  /\ UNCHANGED <<req, mainVars, opVars, netVars, heldVars, row, released>>

\* `wacli pending-sends clear`, a maintenance command that holds the lock.
PendingSendsClear(i) ==
  /\ lock = "none"
  /\ row[i] # NoRow
  /\ row' = [row EXCEPT ![i] = NoRow]
  /\ released' = released \cup {i}
  /\ UNCHANGED <<req, mainVars, opVars, netVars, heldVars, stored>>

\* Seven days pass over a row; no request lives that long.
RowAges(i) ==
  /\ row[i] # NoRow /\ ~row[i].old
  /\ \A a \in Attempts : Owns(a) => Id(a) # i
  /\ row' = [row EXCEPT ![i].old = TRUE]
  /\ UNCHANGED <<req, mainVars, opVars, netVars, heldVars, stored, released>>

\* A stored message changes under its id: an edit, made here or on the phone,
\* gives it another text; a purge blanks what it said.  The row stays.
ChangedForm(ref) == {[ref EXCEPT !.prefix = "", !.text = t] : t \in Texts}
                      \cup {[media |-> "", prefix |-> "", text |-> ""]}
StoredChanges(i) ==
  /\ lock \in {"none", "daemon"}
  /\ HasMessage(i)
  /\ \E ref \in ChangedForm(stored[i]) : stored' = [stored EXCEPT ![i] = ref]
  /\ UNCHANGED <<req, mainVars, opVars, netVars, heldVars, row, released>>

\* The store directory is rebuilt from nothing while no process uses it.
StoreRebuilt ==
  /\ lock = "none"
  /\ row' = [i \in Ids |-> NoRow]
  /\ stored' = [i \in Ids |-> NoMessage]
  /\ released' = Ids
  /\ UNCHANGED <<req, mainVars, opVars, netVars, heldVars>>

-----------------------------------------------------------------------------
\* The steps of the handler that serves the request.
Handler(a) ==
  \/ TakeSlot(a) \/ QueueRefuse(a)
  \/ alreadySentResponse(a) \/ beginIDSend(a) \/ Prepare(a)
  \/ AwaitResult(a) \/ AwaitTimeout(a) \/ Reconnect(a)
  \/ Persist(a) \/ Finish(a)

\* The steps of the send goroutine.
Goroutine(a) ==
  \/ OpFailEarly(a) \/ OpMark(a) \/ OpFailMarked(a) \/ OpWrite(a)
  \/ OpAnswer(a) \/ OpPersist(a)

Start(a) == StartLocal(a) \/ StartDelegated(a) \/ StartRefused(a)

Next ==
  \/ \E a \in Attempts : \/ Start(a) \/ Handler(a) \/ Goroutine(a)
                         \/ ServerTakes(a) \/ CtxEnd(a) \/ LocalCrash(a) \/ SyncStores(a)
  \/ DaemonStart \/ DaemonExit \/ StoreRebuilt
  \/ \E i \in Ids : PendingSendsClear(i) \/ RowAges(i) \/ StoredChanges(i)

Spec == Init /\ [][Next]_vars

\* Every context has a deadline and the handlers run on a fair scheduler; the
\* network, the store and the send goroutine owe nothing.
Fairness == \A a \in Attempts : WF_vars(Handler(a)) /\ WF_vars(CtxEnd(a))
FairSpec == Spec /\ Fairness
-----------------------------------------------------------------------------
(* What the guard promises. *)

MainTypeOK ==
  /\ path \in [Attempts -> {"none", "local", "daemon"}]
  /\ pc \in [Attempts -> {"idle", "queued", "check", "begin", "prepare", "await", "reconnect",
                          "persist", "finish", "done", "dead"}]
  /\ err \in [Attempts -> {"nil", "other", "server"}]
  /\ warn \in [Attempts -> BOOLEAN]
  /\ retried \in [Attempts -> BOOLEAN]
  /\ answer \in [Attempts -> {"none", "sent", "error", "already_sent", "id_reused", "resultado_incerto"}]
OpTypeOK ==
  /\ op \in [Attempts -> {"none", "prep", "marked", "wire", "acked", "ret", "gone"}]
  /\ res \in [Attempts -> {"none", "ok", "other", "server", "lookup"}]
  /\ dispatched \in [Attempts -> BOOLEAN]
  /\ live \in [Attempts -> BOOLEAN]
NetTypeOK ==
  /\ net \in [Attempts -> {"none", "flying", "accepted", "rejected", "lost"}]
  /\ sent \in [Attempts -> Nat]
HeldTypeOK ==
  /\ lock \in Attempts \cup {"none", "daemon"}
  /\ slot \in Attempts \cup {"none"}
StoreTypeOK ==
  /\ row \in [Ids -> Rows]
  /\ stored \in [Ids -> Messages]
  /\ released \in SUBSET Ids

TypeOK ==
  /\ req \in [Attempts -> [id : Ids, msg : Msgs]]
  /\ MainTypeOK /\ OpTypeOK /\ NetTypeOK /\ HeldTypeOK /\ StoreTypeOK

\* A frame of the attempt is with the server or may still get there.
FrameOut(a) == sent[a] > 0 \/ net[a] = "flying"

\* A delegated forward is outside the promise: its store warning never reaches
\* the guard (see ForwardSentOnce).
Unguarded(a) == path[a] = "daemon" /\ Msg(a).kind = "forward"

\* The id is still under the guard's promise: nobody removed its record.
Promised(i) == /\ i \notin released
               /\ \A a \in Attempts : Id(a) = i => ~Unguarded(a)

\* A retry that finds this will not send.
Remembered(i) == HasMessage(i) \/ row[i].state \in {"in_flight", "sent"}

\* Whatever fails or dies, a frame the recipient may receive leaves a trace in
\* the store that stops the next attempt under its id.
DeliveredIsRemembered ==
  \A a \in Attempts : FrameOut(a) /\ Promised(Id(a)) => Remembered(Id(a))

\* One id puts at most one message in the chat: an attempt never gets two
\* frames accepted, and two attempts under one id never one each.
AtMostOnce ==
  /\ \A a \in Attempts : sent[a] <= 1
  /\ \A a, b \in Attempts :
       a # b /\ Id(a) = Id(b) /\ sent[a] > 0 /\ sent[b] > 0 => ~Promised(Id(a))

\* An answer that ends the caller's retries is true: "sent" was accepted from
\* this attempt, "already_sent" from some attempt under the id.
AnswersAreTrue ==
  \A a \in Attempts :
    /\ answer[a] = "sent" => sent[a] > 0
    /\ answer[a] = "already_sent" => \E b \in Attempts : Id(b) = Id(a) /\ sent[b] > 0

\* Handlers exclude each other: the lock among processes, the slot in the
\* daemon.  (Goroutines left behind are not handlers.)
OneHandler == \A a, b \in Attempts : Running(a) /\ Running(b) => a = b

\* An in_flight row is closed by the handler that wrote it, or let go on
\* purpose; a later request never settles somebody else's unknown outcome.
InFlightIsOwned ==
  [][\A i \in Ids : row[i].state = "in_flight" /\ row'[i].state # "in_flight" =>
       i \in released' \/ \E a \in Attempts : Id(a) = i /\ pc[a] = "finish" /\ pc'[a] = "done"]_vars

\* Every accepted request ends, whatever the network and the send goroutine do.
EveryRequestEnds == \A a \in Attempts : (pc[a] = "queued" \/ Running(a)) ~> Ended(a)

-----------------------------------------------------------------------------
(* What the documents say and the code does not do; a run refutes each. *)

\* docs/sync.md:145: a forward whose store write failed is remembered like any
\* other message, so its retry does not send again.
ForwardSentOnce ==
  \A a, b \in Attempts :
    a # b /\ Id(a) = Id(b) /\ sent[a] > 0 /\ sent[b] > 0 => Id(a) \in released
=============================================================================
