------------------------------ MODULE ReadState ------------------------------
(***************************************************************************)
(* What one chat shows as unread: the rows of its messages, the counter    *)
(* and the marker of its chats row.  Live messages raise the counter in a  *)
(* statement of their own after the row is stored; history reports set it; *)
(* reads on another device, `chats mark-read` and `mark-read --receipts`   *)
(* lower it through a position among the rows.  The commands pick their    *)
(* position first, talk to WhatsApp, and write afterwards.  The live       *)
(* handler looks at a row before it stores an empty copy over it; history  *)
(* does not.  (Edited rows, which no empty copy empties, are left out.)    *)
(*                                                                         *)
(* A position is a second and a row: within one second the rows are        *)
(* ordered by when they were stored.                                       *)
(***************************************************************************)
EXTENDS Integers, FiniteSets

CONSTANTS M,          \* incoming messages of the chat
          Ts,         \* [M -> seconds]
          ReceiptCap, \* maxReadReceiptMessages
          Reported,   \* bound: the counts a history report may carry
          MaxCount    \* bound: the count at which no further arrival is counted

VARIABLES
  rows,     \* [M -> rowid, the place in the order of insertion; 0: not stored]
  content,  \* [M -> "no", "bare" (a placeholder), "text" or "gone"]
  count,    \* chats.unread_count
  marked,   \* chats.unread
  live,     \* the handler of live messages: what it is about to write
  cmd,      \* the command at work
  owed,     \* history: arrived live, and no read or report since reached it or
            \* found it without content
  flagged   \* history: marked unread, and not read through the last readable row since

vars == <<rows, content, count, marked, live, cmd, owed, flagged>>

Free == [at |-> "idle"]

Init ==
  /\ rows = [m \in M |-> 0]
  /\ content = [m \in M |-> "no"]
  /\ count = 0 /\ marked = FALSE
  /\ live = Free /\ cmd = Free
  /\ owed = {} /\ flagged = FALSE

-----------------------------------------------------------------------------
(* Rows and positions. *)

Present == {m \in M : rows[m] # 0}
Stored(m) == IF m \in Present THEN rows ELSE [rows EXCEPT ![m] = Cardinality(Present) + 1]
Readable == {m \in M : content[m] = "text"}

\* ORDER BY ts, rowid.
Before(m, n) == Ts[m] < Ts[n] \/ (Ts[m] = Ts[n] /\ rows[m] < rows[n])

NewestOf(S) == CHOOSE m \in S : \A n \in S : ~Before(m, n)

\* A boundary second, and the messages named at it (none: the whole second
\* stays unread).
Position(ts, ids) == [ts |-> ts, ids |-> ids]

\* Mutant: what was stored later in the boundary second counts as read.
BeyondTheSecond(pos) == {m \in M : Ts[m] > pos.ts}
\* The rows clearChatUnreadThrough counts as remaining, readable or not.
Beyond(pos) ==
  {m \in M : \/ Ts[m] > pos.ts
             \/ Ts[m] = pos.ts /\ \A i \in pos.ids : Ts[i] = pos.ts => rows[m] > rows[i]}

-----------------------------------------------------------------------------
(* Lowering the counter. *)

Lesser(a, b) == IF a < b THEN a ELSE b

\* clearChatUnreadThrough.
Through(pos, preserve) ==
  LET remaining == Cardinality(Readable \cap Beyond(pos))
      kept == preserve /\ count = 0 /\ marked /\ remaining > 0
  IN /\ count' = Lesser(count, remaining)
     /\ marked' = (kept \/ Lesser(count, remaining) > 0)

\* The rows up to a position.
Reached(pos) ==
  {m \in M : Ts[m] < pos.ts \/ (Ts[m] = pos.ts /\ \E i \in pos.ids : Ts[i] = pos.ts /\ rows[m] <= rows[i])}
\* What the read reaches, or finds without content, is no longer owed; a marker is
\* no longer due once the read reaches the last readable row, or need not preserve it.
Covered(pos, preserve) ==
  /\ owed' = (owed \cap Readable) \ Reached(pos)
  /\ flagged' = (flagged /\ preserve /\ ~(Readable \subseteq Reached(pos)))

-----------------------------------------------------------------------------
(* Arrivals. *)

\* handleLiveSyncMessage: whether it is counted is decided before it is stored.
\* A message without content is dropped if the row it sees is useful.
LiveLoad(m, c) ==
  /\ live = Free
  /\ c = "bare" => content[m] \in {"no", "bare"}
  /\ live' = [at |-> "store", m |-> m, c |-> c, counts |-> c = "text" /\ content[m] \in {"no", "bare"}]
  /\ live'.counts => count < MaxCount
  /\ UNCHANGED <<rows, content, count, marked, cmd, owed, flagged>>

\* UpsertMessage: a tombstone stays; a copy of the same second replaces text and
\* display_text whatever it carries, an empty one too.
Upserted(m, c) == IF content[m] = "gone" THEN "gone" ELSE c

LiveStore ==
  /\ live.at = "store"
  /\ rows' = Stored(live.m)
  /\ content' = [content EXCEPT ![live.m] = Upserted(live.m, live.c)]
  /\ live' = IF live.counts THEN [at |-> "count"] ELSE Free
  /\ owed' = IF live.counts THEN owed \cup {live.m} ELSE owed
  /\ UNCHANGED <<count, marked, cmd, flagged>>

\* IncrementChatUnread.
LiveCount ==
  /\ live.at = "count"
  /\ count' = count + 1 /\ marked' = TRUE
  /\ live' = Free
  /\ UNCHANGED <<rows, content, cmd, owed, flagged>>

\* handleHistorySync stores every copy, also one without content.
HistoryStore(m, c) ==
  /\ rows' = Stored(m)
  /\ content' = [content EXCEPT ![m] = Upserted(m, c)]
  /\ UNCHANGED <<count, marked, live, cmd, owed, flagged>>

\* storeHistoryUnreadCount: the phone's report replaces what is stored.
HistoryCount(n, mark) ==
  /\ count' = IF n = 0 /\ mark THEN count ELSE n
  /\ marked' = (n > 0 \/ mark)
  /\ owed' = IF n = 0 /\ mark THEN owed ELSE {}
  /\ flagged' = (flagged /\ marked')
  /\ UNCHANGED <<rows, content, live, cmd>>

\* A revocation or a deletion; the counter is left alone.
Revoke(m) ==
  /\ content[m] # "gone"
  /\ rows' = Stored(m)
  /\ content' = [content EXCEPT ![m] = "gone"]
  /\ UNCHANGED <<count, marked, live, cmd, owed, flagged>>

-----------------------------------------------------------------------------
(* Reads on another device, and the echoes of one's own. *)

\* clearChatUnreadFromEvent.
ClearFromEvent(pos) == Through(pos, pos.ids # {}) /\ Covered(pos, pos.ids # {})

\* markChatAsReadPosition, receiptReadPosition: the message need not be stored.
PhoneRead(m) ==
  /\ ClearFromEvent(Position(Ts[m], {m}))
  /\ UNCHANGED <<rows, content, live, cmd>>

PhoneReadUntil(ts) ==
  /\ ClearFromEvent(Position(ts, {}))
  /\ UNCHANGED <<rows, content, live, cmd>>

-----------------------------------------------------------------------------
(* chats mark-unread, mark-read [--through-message-id]. *)

MarkUnread ==
  /\ marked' = TRUE
  /\ flagged' = TRUE
  /\ UNCHANGED <<rows, content, count, live, cmd, owed>>

Unread == UNCHANGED <<rows, content, count, marked, live, owed, flagged>>

\* latestMessageRange; the row may be one that is not readable.
MarkReadCapture ==
  /\ cmd = Free
  /\ cmd' = IF Present = {} THEN [at |-> "blind"]
            ELSE LET last == NewestOf(Present)
                 IN [at |-> "read", pos |-> Position(Ts[last], {last}), preserve |-> FALSE]
  /\ Unread

\* ReadBoundary: a readable message, fixed before anything is waited for.
MarkReadThrough(m) ==
  /\ cmd = Free /\ m \in Readable
  /\ cmd' = [at |-> "read", pos |-> Position(Ts[m], {m}), preserve |-> TRUE]
  /\ Unread

\* WhatsApp took the read, or all the receipts.
MarkReadApply ==
  /\ cmd.at = "read"
  /\ Through(cmd.pos, cmd.preserve) /\ Covered(cmd.pos, cmd.preserve)
  /\ cmd' = Free
  /\ UNCHANGED <<rows, content, live>>

\* No message was stored when the position was captured: SetChatUnread clears
\* all there is by now.
MarkReadBlind ==
  /\ cmd.at = "blind"
  /\ count' = 0 /\ marked' = FALSE /\ owed' = {} /\ flagged' = FALSE
  /\ cmd' = Free
  /\ UNCHANGED <<rows, content, live>>

MarkReadFail ==
  /\ cmd.at \in {"read", "blind"}
  /\ cmd' = Free
  /\ Unread

-----------------------------------------------------------------------------
(* chats mark-read --receipts [--through-message-id]. *)

\* The n last of a set of messages, and its n first.
LastN(n, S) == {m \in S : Cardinality({k \in S : Before(m, k)}) < n}
FirstN(n, S) == {m \in S : Cardinality({k \in S : Before(k, m)}) < n}

\* readReceiptCandidates, one snapshot: the unread suffix, up to the anchors
\* (none: all of it), the oldest ReceiptCap of it.
Candidates(anchors) ==
  IF count = 0 /\ ~marked THEN {}
  ELSE LET suffix == LastN(IF count = 0 THEN 1 ELSE count, Readable)
       IN FirstN(ReceiptCap, {m \in suffix : \A b \in anchors : ~Before(b, m)})

\* The receipts go out, and the chat is cleared through the newest of them (all
\* are named, and that one bounds its second): MarkReadApply.  When one fails
\* nothing is cleared: MarkReadFail.
ReceiptsSelect(anchors) ==
  /\ cmd = Free
  /\ anchors \subseteq Readable
  /\ (count > 0 \/ marked) => ~(count > Cardinality(Readable) /\ Readable # {})
  /\ LET sel == Candidates(anchors)
         last == NewestOf(sel)
     IN cmd' = CASE sel # {} -> [at |-> "read", pos |-> Position(Ts[last], {last}), preserve |-> anchors # {}]
                 [] sel = {} /\ anchors = {} -> [at |-> "marker"]
                 [] OTHER -> Free
  /\ Unread

\* ClearChatUnreadMarker: nothing to acknowledge, checked again.
NothingReadable == Readable = {}
ReceiptsMarker ==
  /\ cmd.at = "marker"
  /\ IF NothingReadable
     THEN count' = 0 /\ marked' = FALSE /\ owed' = {} /\ flagged' = FALSE
     ELSE UNCHANGED <<count, marked, owed, flagged>>
  /\ cmd' = Free
  /\ UNCHANGED <<rows, content, live>>

-----------------------------------------------------------------------------
Next ==
  \/ \E m \in M, c \in {"text", "bare"} : LiveLoad(m, c) \/ HistoryStore(m, c)
  \/ LiveStore \/ LiveCount
  \/ \E m \in M : Revoke(m) \/ PhoneRead(m) \/ MarkReadThrough(m)
  \/ \E n \in Reported, mark \in BOOLEAN : HistoryCount(n, mark)
  \/ \E ts \in {Ts[m] : m \in M} : PhoneReadUntil(ts)
  \/ MarkUnread \/ MarkReadCapture \/ MarkReadApply \/ MarkReadBlind \/ MarkReadFail
  \/ ReceiptsSelect({}) \/ \E m \in M : ReceiptsSelect({m})
  \/ ReceiptsMarker

Spec == Init /\ [][Next]_vars

-----------------------------------------------------------------------------
\* A message that arrived live and that no read has reached is counted, however
\* reads, commands and their echoes interleave with its arrival: what arrives
\* beyond a boundary, also in its second, stays unread, and so does a message that
\* history empties and fills again, unless a read finds it empty.  (A history
\* report replaces the counter, and a mark-read that found no message clears it.)
ArrivalsStayUnread ==
  live.at # "count" =>
    /\ count >= Cardinality(owed)
    /\ count > 0 => marked

\* A chat marked unread stays marked until a read reaches its last readable
\* message, or one without message IDs clears it; replayed ranges do not.
MarkerKept == flagged => marked

\* What the list of unread chats shows, together.
UnreadIsKept == ArrivalsStayUnread /\ MarkerKept
=============================================================================
