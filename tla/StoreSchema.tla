----------------------------- MODULE StoreSchema -----------------------------
(***************************************************************************)
(* The schema of wacli.db: the numbered migrations with their statements,  *)
(* the guards behind them, what the commands of this build need, the       *)
(* stores that earlier releases left behind, and the program of an open.   *)
(*                                                                         *)
(* A store is the tables and columns it has (indexes and triggers are left *)
(* out), its migration rows, and the contents that a migration moves: the  *)
(* unread state of a chat, the recovery markers, whether the old messages  *)
(* are in the search index, the identity and the journal.                  *)
(***************************************************************************)
EXTENDS Naturals, FiniteSets, Sequences, SequencesExt

-----------------------------------------------------------------------------
(* Statements *)

Item(op, x, when) == [op |-> op, x |-> x, when |-> when]

\* CREATE TABLE IF NOT EXISTS.
Create(t) == Item("create", t, "")

\* tableHasColumn, and ALTER TABLE ADD COLUMN when it is missing.
Column(t, c) == Item("check", <<t, c>>, "")

\* The same behind tableExists: nothing is done while the table is missing.
Guarded(t, c) == Item("check", <<t, c>>, t)

Exec(name) == Item("exec", name, "")
ExecOn(t, name) == Item("exec", name, t)
Record(v, name) == Item("record", <<v, name>>, "")

MessageColumns ==
  {"display_text", "is_forwarded", "forwarding_score", "reaction_to_id", "reaction_emoji",
   "revoked", "deleted_for_me", "buttons", "edited", "edited_ts", "quoted_msg_id",
   "quoted_sender_jid", "media_unavailable_at", "deleted_at", "deletion_reason",
   "payload_purged_at"}

\* The columns a table is created with, of those that older stores lack.
Created(t) ==
  {t} \X CASE t = "messages" -> MessageColumns
           [] t = "chats" -> {"archived", "pinned", "muted_until", "unread", "unread_count"}
           [] t = "groups" -> {"left_at", "is_parent", "linked_parent_jid"}
           [] t = "contacts" -> {"system_name"}
           [] t = "status_messages" -> {"sender_jid", "media_key"}
           [] t = "pending_sends" -> {"typed_to", "kind", "content_hash"}
           [] OTHER -> {}

BaseTables == {"chats", "contacts", "groups", "messages"}

-----------------------------------------------------------------------------
(* Migrations *)

StatusMediaColumns == <<Column("status_messages", "sender_jid"), Column("status_messages", "media_key")>>

StatusMessages == <<Create("status_messages")>> \o StatusMediaColumns

CoreSchema ==
  <<Create("chats"), Create("contacts"), Create("groups"), Create("messages"),
    Create("message_receipts"), Create("message_payload_purges"),
    Create("message_local_media_aliases"), Create("status_messages"), Create("call_events"),
    Create("starred"), Create("polls"), Create("message_locations")>> \o StatusMediaColumns

MessagesDisplayText == <<Column("messages", "display_text")>>

\* Whether the index has to be filled is decided by whether this run created it.
MessagesFTS == <<Exec("fts")>>

GroupsLeftAt == <<Column("groups", "left_at")>>

MessagesForwarded == <<Column("messages", "is_forwarded"), Column("messages", "forwarding_score")>>

MessagesReaction == <<Column("messages", "reaction_to_id"), Column("messages", "reaction_emoji")>>

Starred == <<Create("starred")>>

MessagesRevoked == <<Column("messages", "revoked")>> \o MessagesFTS

MessagesDeletedForMe == <<Column("messages", "deleted_for_me")>> \o MessagesFTS

ChatState ==
  <<Column("chats", "archived"), Column("chats", "pinned"), Column("chats", "muted_until"),
    Column("chats", "unread")>>

GroupHierarchy == <<Column("groups", "is_parent"), Column("groups", "linked_parent_jid")>>

ContactsSystemName == <<Guarded("contacts", "system_name")>>

MessagesButtons == <<Guarded("messages", "buttons")>>

PollTables == <<Create("polls")>>

CallEvents == <<Create("call_events")>>

MessagesEdited == <<Guarded("messages", "edited"), Guarded("messages", "edited_ts")>>

\* The counts move only if this run adds the column.
ChatUnreadCount == <<ExecOn("chats", "count")>>

MessagesQuoted == <<Guarded("messages", "quoted_msg_id"), Guarded("messages", "quoted_sender_jid")>>

MediaUnavailable == <<Guarded("messages", "media_unavailable_at")>>

TombstoneColumns ==
  <<Guarded("messages", "deleted_at"), Guarded("messages", "deletion_reason"),
    Guarded("messages", "payload_purged_at")>>

PayloadPurges == <<Create("message_payload_purges")>>

TombstoneMetadata ==
  TombstoneColumns \o <<Item("create", "message_payload_purges", "messages"),
                        ExecOn("messages", "fts")>>

LocalMediaAliases == <<Create("message_local_media_aliases")>>

RecoveryMarkers == <<Create("app_state_recovery_required")>>

RecoveryIntentsTable == <<Create("app_state_recovery_intents")>>

\* Pre-release builds recorded other migrations under 21 and 22.
ReconcileAppState == <<Exec("reconcile 21"), Exec("reconcile 22")>>

RecoveryIntents ==
  ReconcileAppState \o RecoveryMarkers \o RecoveryIntentsTable \o <<Exec("handoff")>>

MessageLocations == <<Create("message_locations")>>

IdentityIndexes == <<ExecOn("messages", "fts")>>

PlaceholderActivity == <<Exec("activity")>>

UnavailableKeys == <<Create("unavailable_app_state_keys")>>

Receipts == <<Create("message_receipts")>>

Retrieval == <<Exec("retrieval")>>

Changes == <<ExecOn("messages", "changes")>>

ReceiptRetrieval == <<Exec("receipt triggers")>>

OwnMessageIndex == <<ExecOn("messages", "own index")>>

PendingSends == <<Create("pending_sends")>>

PendingSendsColumns ==
  PendingSends \o <<Column("pending_sends", "typed_to"), Column("pending_sends", "kind"),
                    Column("pending_sends", "content_hash")>>

FullSyncBroken == <<Create("app_state_full_sync_broken")>>

Mig(v, name, items) == [v |-> v, name |-> name, items |-> items]

SchemaMigrations ==
  <<Mig(1, "core schema", CoreSchema),
    Mig(2, "messages display_text column", MessagesDisplayText),
    Mig(3, "messages fts", MessagesFTS),
    Mig(4, "groups left_at column", GroupsLeftAt),
    Mig(5, "messages forwarded columns", MessagesForwarded),
    Mig(6, "messages reaction columns", MessagesReaction),
    Mig(7, "starred messages", Starred),
    Mig(8, "messages revoked column", MessagesRevoked),
    Mig(9, "messages deleted_for_me column", MessagesDeletedForMe),
    Mig(10, "chat state columns", ChatState),
    Mig(11, "group hierarchy columns", GroupHierarchy),
    Mig(12, "contacts system_name column", ContactsSystemName),
    Mig(13, "messages buttons column", MessagesButtons),
    Mig(14, "polls and poll_votes", PollTables),
    Mig(15, "call events", CallEvents),
    Mig(16, "messages edited columns", MessagesEdited),
    Mig(17, "status messages", StatusMessages),
    Mig(18, "chat unread count column", ChatUnreadCount),
    Mig(19, "messages quoted columns", MessagesQuoted),
    Mig(20, "messages media_unavailable_at column", MediaUnavailable),
    Mig(21, "message tombstone metadata", TombstoneMetadata),
    Mig(22, "message local media aliases", LocalMediaAliases),
    Mig(23, "app state recovery markers", RecoveryMarkers),
    Mig(24, "app state recovery intents", RecoveryIntents),
    Mig(25, "message locations", MessageLocations),
    Mig(26, "message identity indexes and selective fts updates", IdentityIndexes),
    Mig(27, "repair placeholder chat activity", PlaceholderActivity),
    Mig(28, "unavailable app state keys", UnavailableKeys),
    Mig(29, "message receipts", Receipts),
    Mig(30, "retrieval identity, revision and sync state", Retrieval),
    Mig(31, "content-free message change journal", Changes),
    Mig(32, "message receipt retrieval revisions", ReceiptRetrieval),
    Mig(1001, "fork: own message id lookup index", OwnMessageIndex),
    Mig(1002, "fork: pending sends", PendingSends)>>

\* The guards behind the migrations, for rows whose object is missing.
CurrentSchema ==
  PollTables \o OwnMessageIndex \o PendingSendsColumns \o CallEvents \o MessagesEdited
    \o StatusMessages \o ChatUnreadCount \o MessagesQuoted \o MediaUnavailable
    \o TombstoneColumns \o PayloadPurges \o LocalMediaAliases \o RecoveryIntentsTable
    \o FullSyncBroken \o MessageLocations \o UnavailableKeys

\* What the commands of this build read and write.
RequiredTables ==
  BaseTables \cup
    {"starred", "message_receipts", "message_payload_purges", "message_local_media_aliases",
     "status_messages", "call_events", "polls", "message_locations",
     "app_state_recovery_intents", "unavailable_app_state_keys", "app_state_full_sync_broken",
     "retrieval_state", "change_state", "pending_sends"}

RequiredColumns == UNION {Created(t) : t \in RequiredTables}

-----------------------------------------------------------------------------
(* Stores *)

NoStore ==
  [tables |-> {}, cols |-> {}, rows |-> {}, unread |-> 0, count |-> 0,
   marks |-> {}, intents |-> {}, old |-> FALSE, indexed |-> TRUE,
   identity |-> 0, journal |-> FALSE]

Upto(k) == SelectSeq(SchemaMigrations, LAMBDA m : m.v <= k)

\* A store an earlier release left behind: migrations 1..k done, a chat with two
\* unread messages, a recovery of collection "c" still owed, and an old message.
Released(k) ==
  LET items == FlattenSeq([i \in 1..Len(Upto(k)) |-> Upto(k)[i].items])
      its(op) == {items[i].x : i \in {j \in 1..Len(items) : items[j].op = op}}
      late == {"message_receipts", "message_payload_purges", "message_local_media_aliases",
               "status_messages", "call_events", "polls", "message_locations"}
      made == {items[i].x : i \in {j \in (Len(CoreSchema) + 1)..Len(items) : items[j].op = "create"}}
      special == (IF k >= 3 THEN {"messages_fts"} ELSE {})
                   \cup (IF k >= 30 THEN {"retrieval_state"} ELSE {})
                   \cup (IF k >= 31 THEN {"change_state"} ELSE {})
      tables == (BaseTables \cup made \cup special)
                  \ (IF k >= 24 THEN {"app_state_recovery_required"} ELSE {})
      cols == (its("check") \cup (IF k >= 18 THEN {<<"chats", "unread_count">>} ELSE {}))
                \cup UNION {Created(t) : t \in tables \cap late}
  IN [tables |-> tables, cols |-> {c \in cols : c[1] \in tables},
      rows |-> {<<Upto(k)[i].v, Upto(k)[i].name>> : i \in 1..Len(Upto(k))},
      unread |-> IF k >= 18 THEN 1 ELSE 2, count |-> IF k >= 18 THEN 2 ELSE 0,
      marks |-> IF k = 23 THEN {"c"} ELSE {}, intents |-> IF k >= 24 THEN {"c"} ELSE {},
      old |-> TRUE, indexed |-> k >= 3,
      identity |-> IF k >= 30 THEN 1 ELSE 0, journal |-> k >= 31]

-----------------------------------------------------------------------------
(* The program of an open *)

\* A fault to compare with: the migration is recorded before it has run.
StatementsAfterRecord(m) == <<Record(m.v, m.name)>> \o m.items

Statements(m) == Append(m.items, Record(m.v, m.name))

\* All migrations with their records, then the guards (v = 0: always run).
Program ==
  FlattenSeq([i \in 1..Len(SchemaMigrations) |->
     [j \in 1..Len(Statements(SchemaMigrations[i])) |->
        [v |-> SchemaMigrations[i].v, item |-> Statements(SchemaMigrations[i])[j]]]])
    \o [j \in 1..Len(CurrentSchema) |-> [v |-> 0, item |-> CurrentSchema[j]]]
=============================================================================
