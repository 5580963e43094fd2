---------------------------- MODULE ChangeJournal ----------------------------
(***************************************************************************)
(* The journal of message changes that SQLite triggers write, and a        *)
(* consumer that mirrors the archive from it the way docs/messages.md says:*)
(* take a checkpoint, export every page, then replay what was recorded     *)
(* since.  Entries carry no content; the consumer fetches the current row. *)
(*                                                                         *)
(* One message that is stored under the two names of one person, the       *)
(* hidden LID and the phone number PN, until MigrateLIDToPN merges them.   *)
(* A row is a content, a tombstone, a purged tombstone or absent.  Every   *)
(* store call is one transaction, with the triggers it fires.              *)
(***************************************************************************)
EXTENDS Integers, FiniteSetsExt

CONSTANTS Contents,   \* what a visible row shows
          Cap,        \* entries the journal keeps (100000 in the code)
          PageSize,   \* entries of one page of messages changes
          CleansPurged, \* chats cleanup also meets chats with a purged message
          MaxSeq      \* bound: entries ever recorded

Names == {"lid", "pn"}

VARIABLES
  row,       \* per name: the messages row
  ledger,    \* the names message_payload_purges has the message under
  journal,   \* message_changes and change_state
  aged,      \* entries up to this one are older than the retention
  revised,   \* retrieval_state.revision has moved since the consumer's first page
  reader     \* the consumer

storeVars == <<row, ledger, journal>>
vars == <<storeVars, aged, revised, reader>>

Shown(k) == IF row[k] \in Contents THEN row[k] ELSE "absent"

-----------------------------------------------------------------------------
(* The journal and its triggers. *)

Numbers(j) == {e.n : e \in j.entries}

\* ORDER BY sequence LIMIT k.
First(S, k) == {n \in S : Cardinality({m \in S : m <= n}) <= k}

\* DELETE FROM message_changes and its trigger changes_removed.
Removed(j, S) == [seq |-> j.seq, floor |-> Max(S \cup {j.floor}),
                  entries |-> {e \in j.entries : e.n \notin S}]

\* changeCleanupSQL: what is too old, then the oldest beyond the cap.
Trimmed(j) ==
  LET young == Removed(j, {n \in Numbers(j) : n <= aged})
  IN Removed(young, First(Numbers(young), Cardinality(Numbers(young)) - Cap))

\* INSERT INTO message_changes and its trigger changes_added.
Recorded(j, op, key, to) ==
  Trimmed([seq |-> j.seq + 1, floor |-> j.floor,
           entries |-> j.entries \cup {[n |-> j.seq + 1, op |-> op, key |-> key, to |-> to]}])

\* The INSERT, UPDATE and DELETE triggers on messages; UPDATE WHEN changed.
RowChanged(j, k, old, new) ==
  IF old = new THEN j
  ELSE Recorded(j, IF new \in Contents THEN "upsert" ELSE "delete", k, k)

\* changes_payload_purge: fires for a new ledger row only.
LedgerAdded(j, k) ==
  IF k \in ledger THEN j
  ELSE Removed(j, {e.n : e \in {x \in j.entries : x.key = k}})

-----------------------------------------------------------------------------
(* The store's writers. *)

Room(k) == journal.seq + k <= MaxSeq

\* One transaction that gives row k the state s.
Write(k, s) ==
  /\ row' = [row EXCEPT ![k] = s]
  /\ journal' = RowChanged(journal, k, row[k], s)
  /\ revised' = (revised \/ row[k] # s)
  /\ UNCHANGED <<ledger, aged, reader>>

\* A copy or an edit arrives; a name in the ledger takes none.
UpsertMessage(k, c) ==
  /\ Room(1)
  /\ k \notin ledger
  /\ row[k] \in Contents \cup {"absent"}
  /\ Write(k, c)

\* A deletion arrives, for everyone or for me, also before its message.
DeleteMessage(k) ==
  /\ Room(1)
  /\ k \notin ledger
  /\ row[k] \in Contents \cup {"absent"}
  /\ Write(k, "tombstone")

\* Ledger, then the row: the order of the transaction.
PurgeMessage(k) ==
  /\ Room(1)
  /\ row[k] = "tombstone"
  /\ ledger' = ledger \cup {k}
  /\ row' = [row EXCEPT ![k] = "purged"]
  /\ journal' = RowChanged(LedgerAdded(journal, k), k, "tombstone", "purged")
  /\ revised' = TRUE
  /\ UNCHANGED <<aged, reader>>

DeleteChat(k) ==
  /\ CleansPurged \/ k \notin ledger
  /\ Room(1)
  /\ row[k] # "absent"
  /\ Write(k, "absent")

\* What the merge of both rows may leave under PN: the ledger of either name
\* wins, then a deletion, then the content of one of them.
MergedRow ==
  IF ledger # {} /\ row["pn"] # "absent" THEN {"purged"}
  ELSE IF ledger # {} THEN IF row["lid"] = "purged" THEN {"purged"} ELSE {"absent"}
  ELSE IF row["lid"] = "absent" THEN {row["pn"]}
  ELSE IF row["pn"] = "absent" THEN {row["lid"]}
  ELSE IF "tombstone" \in {row["lid"], row["pn"]} THEN {"tombstone"}
  ELSE {row["lid"], row["pn"]}

\* Mutant: the move is not recorded, and the triggers are off.
MovedSilently == journal
\* The identity_move entries, written before the triggers are turned off.
Moved == IF row["lid"] = "absent" THEN journal
         ELSE Recorded(journal, "identity_move", "lid", "pn")

\* MigrateLIDToPN, one transaction; its writes to messages leave no entries.
MigrateLIDToPN ==
  /\ Room(1)
  /\ row["lid"] # "absent" \/ "lid" \in ledger
  /\ \E merged \in MergedRow : row' = [lid |-> "absent", pn |-> merged]
  /\ ledger' = IF ledger = {} THEN {} ELSE {"pn"}
  /\ journal' = IF "lid" \in ledger THEN LedgerAdded(Moved, "pn") ELSE Moved
  /\ revised' = TRUE
  /\ UNCHANGED <<aged, reader>>

\* Thirty days pass for some of the entries.
Age ==
  /\ aged < journal.seq
  /\ \E n \in aged + 1 .. journal.seq : aged' = n
  /\ UNCHANGED <<storeVars, revised, reader>>

\* cleanupChanges, at every writable open.
OpenWritable ==
  /\ journal' = Trimmed(journal)
  /\ UNCHANGED <<row, ledger, aged, revised, reader>>

-----------------------------------------------------------------------------
(* The consumer.  `at` is what it does next, `pos` its saved checkpoint,   *)
(* `bound` the boundary in it (0: none), `page` the changes it got and has *)
(* not processed, `next` the checkpoint it saves after them.               *)

\* One row a page, in this order.
Page(i) == IF i = 0 THEN "lid" ELSE "pn"
Nothing == [k \in Names |-> "absent"]
NoPage == [entries |-> {}, pos |-> 0, bound |-> 0]

\* Mutant: a cursor survives a change of the archive.
ExportPageUnchecked ==
  /\ reader.at = "export"
  /\ LET k == Page(reader.exported)
     IN reader' = [reader EXCEPT !.exported = @ + 1, !.mirror[k] = Shown(k),
                     !.at = IF k = "pn" THEN "replay" ELSE @]
  /\ UNCHANGED <<storeVars, aged, revised>>
\* readMessagePage: one row a page; a moved revision rejects the cursor.
ExportPage ==
  /\ reader.at = "export"
  /\ IF reader.exported > 0 /\ revised
     THEN /\ reader' = [reader EXCEPT !.exported = 0, !.mirror = Nothing]
          /\ UNCHANGED revised
     ELSE LET k == Page(reader.exported)
          IN /\ reader' = [reader EXCEPT !.exported = @ + 1, !.mirror[k] = Shown(k),
                             !.at = IF k = "pn" THEN "replay" ELSE @]
             /\ revised' = (revised /\ reader.exported > 0)
  /\ UNCHANGED <<storeVars, aged>>

\* messages changes --checkpoint, or --since beginning with an empty mirror.
Start ==
  /\ reader.at = "start"
  /\ reader' \in {[reader EXCEPT !.at = "export", !.pos = journal.seq, !.exported = 0, !.mirror = Nothing],
                  [reader EXCEPT !.at = "replay", !.pos = 0, !.exported = 0, !.mirror = Nothing]}
  /\ UNCHANGED <<storeVars, aged, revised>>

\* The floor MessageChanges compares with: removed, or too old to be served.
Floor == Max({journal.floor} \cup {n \in Numbers(journal) : n <= aged})

\* MessageChanges: refuse, or serve a page up to the boundary.
ReadChanges ==
  /\ reader.at = "replay"
  /\ reader.pos < journal.seq \/ reader.bound # 0
  /\ IF reader.pos < Floor
     THEN reader' = [reader EXCEPT !.at = "start", !.bound = 0]
     ELSE LET high == IF reader.bound = 0 THEN journal.seq ELSE reader.bound
              due == {n \in Numbers(journal) : reader.pos < n /\ n <= high}
              more == Cardinality(due) > PageSize
              page == First(due, PageSize)
          IN reader' = [reader EXCEPT !.at = "process",
                !.page = [entries |-> {e \in journal.entries : e.n \in page},
                          pos |-> IF more THEN Max(page) ELSE high,
                          bound |-> IF more THEN high ELSE 0]]
  /\ UNCHANGED <<storeVars, aged, revised>>

Earliest(S) == CHOOSE e \in S : \A d \in S : e.n <= d.n

\* What a change does to the mirror, against the row as it is now.
Applied(e, mirror, k) ==
  IF e.op # "delete" /\ e.to = k THEN Shown(k)
  ELSE IF e.op # "upsert" /\ e.key = k THEN "absent"
  ELSE mirror[k]

ProcessChange ==
  /\ reader.at = "process" /\ reader.page.entries # {}
  /\ LET e == Earliest(reader.page.entries)
     IN reader' = [reader EXCEPT !.mirror = [k \in Names |-> Applied(e, reader.mirror, k)],
                                 !.page.entries = @ \ {e}]
  /\ UNCHANGED <<storeVars, aged, revised>>

\* The checkpoint is saved after the whole page, or the consumer dies and
\* reads it again from the last one.
SaveCheckpoint ==
  /\ reader.at = "process" /\ reader.page.entries = {}
  /\ reader' = [reader EXCEPT !.at = "replay", !.pos = reader.page.pos,
                              !.bound = reader.page.bound, !.page = NoPage]
  /\ UNCHANGED <<storeVars, aged, revised>>

ConsumerDies ==
  /\ reader.at = "process"
  /\ reader' = [reader EXCEPT !.at = "replay", !.page = NoPage]
  /\ UNCHANGED <<storeVars, aged, revised>>

-----------------------------------------------------------------------------
NewReader == [at |-> "start", pos |-> 0, bound |-> 0, page |-> NoPage, exported |-> 0, mirror |-> Nothing]

\* migrateChanges: the journal of a store that already has rows starts with
\* one entry for each, tombstones included.
Empty == [seq |-> 0, floor |-> 0, entries |-> {}]
Seeded ==
  LET seed(j, k) == IF row[k] = "absent" THEN j ELSE Recorded(j, "upsert", k, k)
  IN seed(seed(Empty, "lid"), "pn")

Init ==
  /\ row \in [Names -> Contents \cup {"absent", "tombstone"}]
  /\ ledger = {}
  /\ aged = 0
  /\ journal = Seeded
  /\ revised = FALSE
  /\ reader = NewReader

Writer ==
  \/ \E k \in Names : \/ \E c \in Contents : UpsertMessage(k, c)
                      \/ DeleteMessage(k) \/ PurgeMessage(k) \/ DeleteChat(k)
  \/ MigrateLIDToPN \/ Age \/ OpenWritable
Consumer == Start \/ ExportPage \/ ReadChanges \/ ProcessChange \/ SaveCheckpoint

Next == Writer \/ Consumer \/ ConsumerDies

Spec == Init /\ [][Next]_vars

-----------------------------------------------------------------------------
\* Nothing is left for the consumer to read.
Drained == reader.at = "replay" /\ reader.bound = 0 /\ reader.pos = journal.seq

\* A consumer that has replayed everything mirrors what the store shows, in
\* spite of purges, of identity moves, of retention and of its own restarts:
\* what it cannot replay is refused, never skipped.
DrainedMirrorsStore ==
  Drained /\ reader.pos >= Floor => \A k \in Names : reader.mirror[k] = Shown(k)

\* A completed export is one state of the archive, not a mixture of two.
CompletesExact ==
  reader.at = "export" /\ reader'.at = "replay" => \A k \in Names : reader'.mirror[k] = Shown(k)
ExportIsOneState == [][CompletesExact]_vars
=============================================================================
