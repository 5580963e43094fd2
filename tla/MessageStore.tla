---------------------------- MODULE MessageStore ----------------------------
(***************************************************************************)
(* What becomes of one message in the store while copies of it arrive in   *)
(* any order, the user edits and deletes it through the sync daemon, and   *)
(* maintenance commands purge it or clean its chat up.                     *)
(*                                                                         *)
(* Live messages, history chunks and app state events are handled by       *)
(* goroutines of one process and delegated commands by others; each store  *)
(* call is one SQLite statement or transaction, and what a handler read    *)
(* before it waits for the network may be stale when it writes.  Purge and *)
(* clean-up take the store lock and so only run while no sync does.        *)
(* Rows of different messages do not touch each other: one is enough.      *)
(***************************************************************************)
EXTENDS MessageRow

CONSTANTS Originals,     \* texts of the copies that are not edits, "" for the
                         \* placeholder of a message nobody could decrypt
          Edits,         \* edits made elsewhere: [text, ts]
          FromMe,        \* the message is this account's own
          EditTexts,     \* texts the user edits the message to
          OriginalTime,  \* when the message was sent; all unedited copies say so
          MaxTime        \* bound: the clock, in seconds

ASSUME TimesAssumption ==
  /\ OriginalTime \in Nat \ {0} /\ MaxTime \in Nat /\ OriginalTime <= MaxTime
  /\ \A e \in Edits : e.ts \in OriginalTime .. MaxTime /\ e.text # ""
ASSUME TextsAssumption == FromMe \in BOOLEAN /\ "" \notin EditTexts

Times == 0 .. MaxTime
Texts == Originals \cup {e.text : e \in Edits} \cup EditTexts \cup {""}

\* The tables keyed by the message that hold more of its payload.
Side == {"poll", "vote", "location"}

VARIABLES
  mode,     \* "sync": a process syncs; "off": none does
  now,      \* the clock
  row,      \* the messages row
  ledger,   \* message_payload_purges has the message
  side,     \* the tables of Side that have rows for it
  live,     \* original texts of live copies past the check of handleLiveSyncMessage
  cmd,      \* the edit or revocation in the send slot
  forMe,    \* a deletion for me, and what it loaded
  got       \* history: the content merged into the row since it was inserted

storeVars == <<row, ledger, side>>
vars == <<mode, now, storeVars, live, cmd, forMe, got>>

NoCmd == [kind |-> "none", at |-> "idle", text |-> ""]

\* Content as the history variable knows it: `ts` is the time the store was
\* given: for an edit of the user the time of the store call.
Content(text, edited, ts) == [text |-> text, edited |-> edited, ts |-> ts]

Init ==
  /\ mode = "off"
  /\ now = OriginalTime
  /\ row = NoRow
  /\ ledger = FALSE
  /\ side = {}
  /\ live = {}
  /\ cmd = NoCmd
  /\ forMe = "idle"
  /\ got = {}

-----------------------------------------------------------------------------
(* The process. *)

Tick ==
  /\ now < MaxTime
  /\ now' = now + 1
  /\ UNCHANGED <<mode, storeVars, live, cmd, forMe, got>>

StartSync ==
  /\ mode = "off"
  /\ mode' = "sync"
  /\ UNCHANGED <<now, storeVars, live, cmd, forMe, got>>

\* The sync stops or dies; what its handlers had in hand is gone.
StopSync ==
  /\ mode = "sync"
  /\ mode' = "off"
  /\ live' = {}
  /\ cmd' = NoCmd
  /\ forMe' = "idle"
  /\ UNCHANGED <<now, storeVars, got>>

-----------------------------------------------------------------------------
(* Copies that arrive: storeParsedMessage. *)

\* Mutant: side tables are written whether the message was purged or not.
AddedUnguarded(tables) == side \cup tables
\* UpsertPoll, UpsertPollVote and UpsertMessageLocation look at the ledger.
Added(tables) == IF ledger THEN side ELSE side \cup tables

Merge(c, tables, content) ==
  /\ row' = Upsert(row, c, ledger)
  /\ side' = Added(tables)
  /\ got' = IF row' = row /\ ~row.here THEN got ELSE got \cup content
  /\ UNCHANGED ledger

Original(text) == Copy(text, TRUE, "", "", FALSE, FALSE, FALSE, OriginalTime)
MergeOriginal(text) ==
  Merge(Original(text), IF text = "" THEN {} ELSE {"poll", "location"},
        {Content(text, FALSE, OriginalTime)})

\* handleLiveSyncMessage drops an empty copy of a row that is not a placeholder.
KeepsPayload(text) ==
  text = "" /\ row.here /\ (FromMe \/ row.text # "" \/ ~row.shown \/ row.edited \/ Deleted(row))

LiveCheck(text) ==
  /\ mode = "sync"
  /\ text \notin live
  /\ ~KeepsPayload(text)
  /\ live' = live \cup {text}
  /\ UNCHANGED <<mode, now, storeVars, cmd, forMe, got>>

LiveStore(text) ==
  /\ text \in live
  /\ live' = live \ {text}
  /\ MergeOriginal(text)
  /\ UNCHANGED <<mode, now, cmd, forMe>>

\* handleHistorySync stores without that check.
HistoryStore(text) ==
  /\ mode = "sync"
  /\ MergeOriginal(text)
  /\ UNCHANGED <<mode, now, live, cmd, forMe>>

\* An edit made on another device, live or from history; never before it was made.
EditArrives(e) ==
  /\ mode = "sync"
  /\ e.ts <= now
  /\ Merge(Copy(e.text, TRUE, "", "", TRUE, FALSE, FALSE, e.ts), {}, {Content(e.text, TRUE, e.ts)})
  /\ UNCHANGED <<mode, now, live, cmd, forMe>>

\* The sender deletes it for everyone.
RevokeArrives ==
  /\ mode = "sync"
  /\ \E t \in OriginalTime .. now : Merge(Copy("", FALSE, "", "", FALSE, TRUE, FALSE, t), {}, {})
  /\ UNCHANGED <<mode, now, live, cmd, forMe>>

\* handleDeleteForMeEvent: another device of this account deletes it.
DeleteForMeArrives ==
  /\ mode = "sync"
  /\ \E t \in OriginalTime .. now : row' = MarkDeletedForMe(row, t, ledger)
  /\ UNCHANGED <<mode, now, ledger, side, live, cmd, forMe, got>>

\* handlePollVote: a vote, a message of its own that names this one; a vote
\* for nothing withdraws it.  GetPoll does not find a deleted message's poll.
VoteArrives ==
  /\ mode = "sync"
  /\ "poll" \in side /\ ~Deleted(row) /\ ~ledger
  /\ side' = Added({"vote"}) \/ side' = side \ {"vote"}
  /\ UNCHANGED <<mode, now, row, ledger, live, cmd, forMe, got>>

-----------------------------------------------------------------------------
(* Commands, served by the daemon or run on a connection of their own. *)

\* executeDelegatedEdit: validateMessageCanEdit.
EditLoad ==
  /\ mode = "sync"
  /\ cmd = NoCmd
  /\ row.here /\ FromMe /\ ~row.revoked /\ ~row.forMe
  /\ row.media = "" /\ (row.text # "" \/ row.shown)
  /\ \E t \in EditTexts : cmd' = [kind |-> "edit", at |-> "loaded", text |-> t]
  /\ UNCHANGED <<mode, now, storeVars, live, forMe, got>>

\* revokeMessage: a row that is not there is no obstacle.
RevokeLoad ==
  /\ mode = "sync"
  /\ cmd = NoCmd
  /\ row.here => FromMe /\ ~row.revoked /\ ~row.forMe
  /\ cmd' = [kind |-> IF row.here THEN "revoke" ELSE "revokeUnknown", at |-> "loaded", text |-> ""]
  /\ UNCHANGED <<mode, now, storeVars, live, forMe, got>>

\* The server takes it, or the command fails and stores nothing.
CommandSend ==
  /\ cmd.at = "loaded"
  /\ \/ cmd' = [cmd EXCEPT !.at = "sent"]
     \/ cmd' = NoCmd
  /\ UNCHANGED <<mode, now, storeVars, live, forMe, got>>

\* The store call after the ack; no row to change is an error the caller sees.
CommandStore ==
  /\ cmd.at = "sent"
  /\ cmd' = NoCmd
  /\ CASE cmd.kind = "edit" ->
            /\ row' = UpdateText(row, cmd.text, now)
            /\ got' = IF Visible(row) THEN got \cup {Content(cmd.text, TRUE, now)} ELSE got
       [] cmd.kind = "revoke" -> row' = MarkRevoked(row, now) /\ UNCHANGED got
       [] cmd.kind = "revokeUnknown" -> UNCHANGED <<row, got>>
  /\ UNCHANGED <<mode, now, ledger, side, live, forMe>>

\* deleteMessageForMe: load and validate, change the app state, write.
DeleteForMeLoad ==
  /\ mode = "sync"
  /\ forMe = "idle"
  /\ row.here /\ ~row.revoked /\ ~row.forMe
  /\ forMe' = "loaded"
  /\ UNCHANGED <<mode, now, storeVars, live, cmd, got>>

DeleteForMeStore ==
  /\ forMe = "loaded"
  /\ forMe' = "idle"
  /\ \/ row' = MarkDeletedForMe(row, now, ledger)
     \/ row' = row \/ row' = MarkDeletedForMePreserveMedia(row, now)
  /\ UNCHANGED <<mode, now, ledger, side, live, cmd, got>>

-----------------------------------------------------------------------------
(* Maintenance, under the store lock. *)

\* PurgeMessage, one transaction.
PurgeMessage ==
  /\ mode = "off"
  /\ row.here /\ Deleted(row)
  /\ row' = Purged(row)
  /\ ledger' = TRUE
  /\ side' = {}
  /\ UNCHANGED <<mode, now, live, cmd, forMe, got>>

\* DeleteChat: the rows go with their chat, the ledger stays.
DeleteChat ==
  /\ mode = "off"
  /\ row' = NoRow
  /\ side' = {}
  /\ got' = {}
  /\ UNCHANGED <<mode, now, ledger, live, cmd, forMe>>

-----------------------------------------------------------------------------
Arrival ==
  \/ \E t \in Originals : LiveCheck(t) \/ LiveStore(t) \/ HistoryStore(t)
  \/ \E e \in Edits : EditArrives(e)
  \/ RevokeArrives \/ DeleteForMeArrives \/ VoteArrives
Command == EditLoad \/ RevokeLoad \/ CommandSend \/ CommandStore \/ DeleteForMeLoad \/ DeleteForMeStore

Next == Tick \/ StartSync \/ StopSync \/ Arrival \/ Command \/ PurgeMessage \/ DeleteChat

Spec == Init /\ [][Next]_vars

-----------------------------------------------------------------------------
(* What the store promises. *)

Contents == [text : Texts, edited : BOOLEAN, ts : Times]
Commands == [kind : {"none", "edit", "revoke", "revokeUnknown"}, at : {"idle", "loaded", "sent"},
             text : EditTexts \cup {""}]

\* Types; a row that is not there is empty, and every kind of deletion has a time.
TypeOK ==
  /\ mode \in {"sync", "off"}
  /\ now \in OriginalTime .. MaxTime
  /\ row \in RowsOf(Times, Texts, {""}, {""})
  /\ row.here \/ row = NoRow
  /\ row.revoked \/ row.forMe \/ row.purged => Deleted(row)
  /\ ledger \in BOOLEAN
  /\ side \subseteq Side
  /\ live \subseteq Originals
  /\ cmd \in Commands
  /\ forMe \in {"idle", "loaded"}
  /\ got \subseteq Contents

\* A visible row shows the newest content it was given, in whatever order the
\* original, its edits, a local edit and their repetitions were stored.
Newer(d, c) == \/ d.edited /\ ~c.edited
               \/ d.edited = c.edited /\ d.ts > c.ts
ShowsNewest ==
  Visible(row) => \E c \in got : row.text = c.text /\ \A d \in got : ~Newer(d, c)

\* Once the original is known, a visible row stands at the time it was sent:
\* no edit moves a message, also not one that was stored before its original.
StandsAtOriginalTime ==
  Visible(row) /\ (\E c \in got : ~c.edited) => row.ts = OriginalTime

\* A tombstone keeps content until it is purged, if any copy ever brought some
\* and none was empty; also a tombstone that came before the message.
Unblanked == \A c \in got : c.text # ""
TombstoneKeepsContent ==
  row.here /\ ~row.purged /\ got # {} /\ Unblanked => row.text # ""

\* What was purged never returns: not with history, a late vote or edit, nor
\* after the chat was cleaned up and imported again.
PurgeIsFinal ==
  ledger => /\ side = {}
            /\ row.here => row.purged /\ row.text = ""

\* A deletion is never undone, moved or weakened while the row exists, and
\* only maintenance removes a row.
DeletionIsFinal ==
  [][row.here => \/ mode = "off" /\ row' = NoRow
                 \/ /\ row'.here
                    /\ Deleted(row) => row'.deletedAt = row.deletedAt
                    /\ row.revoked => row'.revoked
                    /\ row.forMe => row'.forMe]_vars

\* Deleting keeps the content that was shown; so does every copy that arrives
\* at a tombstone.
DeletionKeepsContent ==
  [][row.here /\ row'.here /\ Deleted(row') /\ ~row'.purged /\ row.text # "" => row'.text = row.text]_vars
=============================================================================
