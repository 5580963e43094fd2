------------------------------ MODULE Backfill ------------------------------
(***************************************************************************)
(* history backfill: the sync daemon asks the phone for messages older     *)
(* than the oldest one it stores, one chat after another.  The phone sends *)
(* replies as blobs that carry no request ID; it files a chat under one of *)
(* its two names and answers requests under that name only, if at all, and *)
(* at any later time.  Every handler that listens downloads each blob,     *)
(* stores it and deletes it from the server.  A finished backfill leaves   *)
(* its handler listening for a while, for a reply that comes late.         *)
(*                                                                         *)
(* The messages of a chat are numbered from the newest back: depth d means *)
(* that batches 1 .. d are stored, and a reply brings the batch next to    *)
(* its anchor.                                                             *)
(***************************************************************************)
EXTENDS Integers, FiniteSets, SequencesExt

CONSTANTS Chats,
          Names,      \* [Chats -> the names a chat can be asked by, in order]
          Filed,      \* [Chats -> the name the phone answers]
          Depth,      \* batches the phone has of each chat
          Requests,   \* batches one backfill asks for (--requests)
          MaxRuns,    \* bound: backfills
          MaxReplies  \* bound: replies on their way

VARIABLES
  stored,    \* [Chats -> depth]
  run,       \* the backfill at work, or Off: bulk requests run one at a time
  channel,   \* waitCh: the response waiting there (None: empty)
  prefer,    \* the runner's preferPN
  handlers,  \* in the order they were added: [chat, tail]
  replies,   \* blobs on their way: [chat, batch]
  dispatch,  \* the blob being dispatched, and the handlers still to see it
  runs,      \* backfills begun
  due,       \* history: chats asked, whose grace has not run out
  lost       \* history: chats a write of a blob failed for

vars == <<stored, run, channel, prefer, handlers, replies, dispatch, runs, due, lost>>

Off == [at |-> "off"]
None == [batch |-> -1]
Quiet == [at |-> "quiet"]

Init ==
  /\ stored = [c \in Chats |-> 0]
  /\ run = Off /\ channel = None /\ prefer = FALSE
  /\ handlers = <<>> /\ replies = {} /\ dispatch = Quiet
  /\ runs = 0 /\ due = {} /\ lost = {}

-----------------------------------------------------------------------------
(* Handlers are added and removed between dispatches. *)

Tails(c) == {i \in DOMAIN handlers : handlers[i] = [chat |-> c, tail |-> TRUE]}

\* A chat has one tail at most: backfillTails holds one per chat.
Without(c) == IF Tails(c) = {} THEN handlers ELSE RemoveAt(handlers, CHOOSE i \in Tails(c) : TRUE)

\* Mutant: the tail of the chat goes first.
BeginBySwap(c) ==
  /\ handlers' = Without(c)
  /\ run' = [at |-> "swap", chat |-> c]
\* newBackfillRunner: the new handler is added before the old one goes.
BeginHandler(c) ==
  /\ handlers' = Append(handlers, [chat |-> c, tail |-> FALSE])
  /\ run' = [at |-> "swap", chat |-> c]

Begin(c) ==
  /\ run = Off /\ dispatch = Quiet /\ runs < MaxRuns
  /\ runs' = runs + 1
  /\ BeginHandler(c)
  /\ prefer' = FALSE /\ channel' = None
  /\ UNCHANGED <<stored, replies, dispatch, due, lost>>

\* endBackfillTail of the same chat.
EndTail ==
  /\ run.at = "swap" /\ dispatch = Quiet
  /\ handlers' = IF [chat |-> run.chat, tail |-> FALSE] \in ToSet(handlers)
                 THEN Without(run.chat)
                 ELSE Append(handlers, [chat |-> run.chat, tail |-> FALSE])
  /\ run' = [at |-> "oldest", chat |-> run.chat, batches |-> 0]
  /\ UNCHANGED <<stored, channel, prefer, replies, dispatch, runs, due, lost>>

\* The timer of a tail: lateOnDemandGrace.
TailEnds(c) ==
  /\ Tails(c) # {} /\ dispatch = Quiet
  /\ handlers' = Without(c)
  /\ due' = IF run # Off /\ run.chat = c THEN due ELSE due \ {c}
  /\ UNCHANGED <<stored, run, channel, prefer, replies, dispatch, runs, lost>>

\* The deferred cleanup: the handler stays as a tail.
Finish ==
  /\ run.at = "end" /\ dispatch = Quiet
  /\ handlers' = [i \in DOMAIN handlers |->
       IF handlers[i] = [chat |-> run.chat, tail |-> FALSE] THEN [handlers[i] EXCEPT !.tail = TRUE] ELSE handlers[i]]
  /\ run' = Off
  /\ UNCHANGED <<stored, channel, prefer, replies, dispatch, runs, due, lost>>

-----------------------------------------------------------------------------
(* The request loop. *)

\* requestIdentities.
Identities(c) == IF prefer /\ Len(Names[c]) = 2 THEN Reverse(Names[c]) ELSE Names[c]
Asking(anchor, k) == [run EXCEPT !.at = "ask", !.anchor = anchor, !.k = k]
End(why) == [at |-> "end", chat |-> run.chat, why |-> why]

Oldest ==
  /\ run.at = "oldest"
  /\ run' = [at |-> "ask", chat |-> run.chat, batches |-> run.batches,
             oldest |-> stored[run.chat], anchor |-> stored[run.chat], k |-> 1]
  /\ UNCHANGED <<stored, channel, prefer, handlers, replies, dispatch, runs, due, lost>>

\* request: the channel is opened, then the phone is asked.  It answers when
\* it files the chat under that name, or never does.
Request ==
  /\ run.at = "ask"
  /\ channel' = None
  /\ run' = [run EXCEPT !.at = "wait"]
  /\ due' = due \cup {run.chat}
  /\ \/ UNCHANGED replies
     \/ /\ Identities(run.chat)[run.k] = Filed[run.chat]
        /\ Cardinality(replies) < MaxReplies
        /\ replies' = replies \cup {[chat |-> run.chat, batch |-> IF run.anchor < Depth THEN run.anchor + 1 ELSE 0]}
  /\ UNCHANGED <<stored, prefer, handlers, dispatch, runs, lost>>

RequestFails ==
  /\ run.at = "ask"
  /\ run' = End("failed")
  /\ UNCHANGED <<stored, channel, prefer, handlers, replies, dispatch, runs, due, lost>>

Response ==
  /\ run.at = "wait" /\ channel # None
  /\ run' = [at |-> "check", chat |-> run.chat, batches |-> run.batches, oldest |-> run.oldest, batch |-> channel.batch]
  /\ prefer' = IF run.k = 2 THEN Identities(run.chat)[2] = "pn" ELSE prefer
  /\ channel' = None
  /\ UNCHANGED <<stored, handlers, replies, dispatch, runs, due, lost>>

\* requestAnchor: the other name; then, once, the next newer message as anchor.
NextTry == IF run.k < Len(Names[run.chat]) THEN Asking(run.anchor, run.k + 1)
           ELSE IF run.anchor = run.oldest /\ run.oldest > 0 THEN Asking(run.anchor - 1, 1)
           ELSE End("silent")

TimeOut ==
  /\ run.at = "wait"
  /\ run' = NextTry
  /\ UNCHANGED <<stored, channel, prefer, handlers, replies, dispatch, runs, due, lost>>

\* After a response: go on only past the oldest message there was.
Progress ==
  /\ run.at = "check"
  /\ run' = CASE stored[run.chat] = run.oldest -> End("no_older_messages_added")
              [] run.batch = 0 -> End("no_messages_returned")
              [] run.batch = Depth -> End("start_of_history_reached")
              [] run.batches + 1 >= Requests -> End("done")
              [] OTHER -> [at |-> "oldest", chat |-> run.chat, batches |-> run.batches + 1]
  /\ UNCHANGED <<stored, channel, prefer, handlers, replies, dispatch, runs, due, lost>>

-----------------------------------------------------------------------------
(* A blob arrives and every handler sees it in turn. *)

Deliver(r) ==
  /\ dispatch = Quiet
  /\ replies' = replies \ {r}
  /\ dispatch' = [at |-> "download", reply |-> r, rest |-> handlers]
  /\ UNCHANGED <<stored, run, channel, prefer, handlers, runs, due, lost>>

\* DownloadHistorySync, handleHistorySync, DeleteHistorySyncMedia.  The
\* download or a write may fail; a blob that was deleted may still be served.
Download ==
  /\ dispatch.at = "download" /\ dispatch.rest # <<>>
  /\ \/ /\ \/ /\ stored' = [stored EXCEPT ![dispatch.reply.chat] = IF dispatch.reply.batch = @ + 1 THEN @ + 1 ELSE @]
              /\ UNCHANGED lost
           \/ lost' = lost \cup {dispatch.reply.chat} /\ UNCHANGED stored   \* the write fails
        /\ dispatch' = [dispatch EXCEPT !.at = "signal"]
     \/ dispatch' = [dispatch EXCEPT !.rest = Tail(@)] /\ UNCHANGED <<stored, lost>>
  /\ UNCHANGED <<run, channel, prefer, handlers, replies, runs, due>>

\* handleOnDemand: the waiter of the chat, if any, gets the response.
Signal ==
  /\ dispatch.at = "signal"
  /\ LET h == Head(dispatch.rest)
     IN channel' = IF /\ ~h.tail /\ h.chat = dispatch.reply.chat
                      /\ run.at = "wait" /\ run.chat = h.chat /\ channel = None
                   THEN [batch |-> dispatch.reply.batch] ELSE channel
  /\ dispatch' = [dispatch EXCEPT !.at = "download", !.rest = Tail(@)]
  /\ UNCHANGED <<stored, run, prefer, handlers, replies, runs, due, lost>>

Dispatched ==
  /\ dispatch.at = "download" /\ dispatch.rest = <<>>
  /\ dispatch' = Quiet
  /\ UNCHANGED <<stored, run, channel, prefer, handlers, replies, runs, due, lost>>

-----------------------------------------------------------------------------
Loop == EndTail \/ Oldest \/ Request \/ Response \/ Progress \/ Finish
Dispatching == Download \/ Signal \/ Dispatched

Next ==
  \/ \E c \in Chats : Begin(c) \/ TailEnds(c)
  \/ Loop \/ RequestFails \/ TimeOut
  \/ \E r \in replies : Deliver(r)
  \/ Dispatching

Spec == Init /\ [][Next]_vars

-----------------------------------------------------------------------------
\* While a chat's backfill runs and until the grace after it is over somebody
\* listens: a late reply is seen by a handler, also while one runner follows
\* another.
LateRepliesAreSeen == \A c \in due : \E i \in DOMAIN handlers : handlers[i].chat = c

\* A backfill judges its progress after the response was stored, also when the
\* response answers an earlier request: what it counts is there, unless a write
\* failed.
ResponsesAreStored ==
  run.at = "check" => run.batch <= stored[run.chat] \/ run.chat \in lost

\* Nothing that the phone sends for a backfill is overlooked.
RepliesAreKept == LateRepliesAreSeen /\ ResponsesAreStored
=============================================================================
