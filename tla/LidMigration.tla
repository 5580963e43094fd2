---------------------------- MODULE LidMigration ----------------------------
(***************************************************************************)
(* One message stored under two names of the same person.  Until whatsmeow *)
(* learns which phone number belongs to a hidden identity, copies of the   *)
(* message, its deletion, its purge and its media land under the name that *)
(* was known at the time; migrateHistoricalLIDs later merges both.         *)
(*                                                                         *)
(* The migration runs after the sync has connected, so live events and     *)
(* media workers run between its steps.  It removes the files of a message *)
(* that is purged under either name, and then merges in one transaction,   *)
(* whose statements are the operators below.  Purge and clean-up hold the  *)
(* store lock and run only while no sync does.  The side table of a name   *)
(* stands for message_locations; polls are in Polls.                       *)
(***************************************************************************)
EXTENDS MessageRow, FiniteSets

CONSTANTS Originals,    \* texts of unedited copies; "" is the placeholder
          Edits,        \* edits: [text, ts]
          OriginalTime, \* when the message was sent
          MaxTime       \* bound: the latest time of an edit or deletion

Names == {"lid", "pn"}

VARIABLES
  mode,      \* "sync": a process syncs; "off": none does
  row,       \* per name: the messages row
  path,      \* per name: local_path, named for the name it was stored under, or ""
  aliases,   \* message_local_media_aliases: <<name, path>>
  ledger,    \* the names message_payload_purges has the message under
  side,      \* the names that have a location
  files,     \* the files on disk
  worker,    \* per name: a download, "idle", "loading" or "written"
  mig,       \* the migration: what it does next, and the media it still removes
  got,       \* history: per name, the contents merged into the row
  purged,    \* history: the message was purged, under some name
  left       \* history: files the code itself gave up

tables == <<row, path, aliases, ledger, side>>
vars == <<mode, tables, files, worker, mig, got, purged, left>>

Paths(n) == ({path[n]} \ {""}) \cup {a[2] : a \in {x \in aliases : x[1] = n}}
Content(text, edited, ts) == [text |-> text, edited |-> edited, ts |-> ts]
NoMigration == [at |-> "idle", media |-> {}]

Init ==
  /\ mode = "off"
  /\ row = [n \in Names |-> NoRow]
  /\ path = [n \in Names |-> ""]
  /\ aliases = {} /\ ledger = {} /\ side = {} /\ files = {}
  /\ worker = [n \in Names |-> "idle"]
  /\ mig = NoMigration
  /\ got = [n \in Names |-> {}]
  /\ purged = FALSE
  /\ left = {}

-----------------------------------------------------------------------------
(* The sync: its event handlers and media workers. *)

StartSync ==
  /\ mode = "off"
  /\ mode' = "sync"
  /\ UNCHANGED <<tables, files, worker, mig, got, purged, left>>

\* It stops or dies; a file that was written and not recorded stays behind.
Stopped ==
  /\ mode' = "off"
  /\ worker' = [n \in Names |-> "idle"]
  /\ mig' = NoMigration
  /\ left' = left \cup {n \in Names : worker[n] = "written"}
StopSync ==
  /\ mode = "sync"
  /\ Stopped
  /\ UNCHANGED <<tables, files, got, purged>>

\* storeParsedMessage under the name canonicalStoreJID knows.
Store(n, c, contents, locates) ==
  /\ mode = "sync"
  /\ row' = [row EXCEPT ![n] = Upsert(@, c, n \in ledger)]
  /\ side' = IF locates /\ n \notin ledger THEN side \cup {n} ELSE side
  /\ got' = IF n \in ledger \/ row[n].purged THEN got ELSE [got EXCEPT ![n] = @ \cup contents]
  /\ UNCHANGED <<mode, path, aliases, ledger, files, worker, mig, purged, left>>

StoreOriginal(n, text) ==
  LET media == IF text = "" THEN "" ELSE "image"
  IN Store(n, Copy(text, TRUE, media, media, FALSE, FALSE, FALSE, OriginalTime),
           {Content(text, FALSE, OriginalTime)}, text # "")
StoreEdit(n, e) ==
  Store(n, Copy(e.text, TRUE, "", "", TRUE, FALSE, FALSE, e.ts), {Content(e.text, TRUE, e.ts)}, FALSE)
StoreRevoke(n) ==
  Store(n, Copy("", FALSE, "", "", FALSE, TRUE, FALSE, MaxTime), {}, FALSE)

\* downloadMediaJob: read the row, fetch the file, record its path.
DownloadLoad(n) ==
  /\ mode = "sync" /\ worker[n] = "idle"
  /\ row[n].here /\ row[n].media # "" /\ row[n].direct # "" /\ path[n] = ""
  /\ worker' = [worker EXCEPT ![n] = "loading"]
  /\ UNCHANGED <<mode, tables, files, mig, got, purged, left>>

DownloadWrite(n) ==
  /\ worker[n] = "loading"
  /\ \/ worker' = [worker EXCEPT ![n] = "idle"] /\ UNCHANGED files
     \/ worker' = [worker EXCEPT ![n] = "written"] /\ files' = files \cup {n}
  /\ UNCHANGED <<mode, tables, mig, got, purged, left>>

\* MarkMediaDownloaded: an UPDATE by key, whatever the row has become.
DownloadMark(n) ==
  /\ worker[n] = "written"
  /\ worker' = [worker EXCEPT ![n] = "idle"]
  /\ path' = IF row[n].here THEN [path EXCEPT ![n] = n] ELSE path
  /\ left' = IF row[n].here /\ ~row[n].purged THEN (left \ {n}) \cup ({path[n]} \ {"", n})
             ELSE left \cup {n}
  /\ UNCHANGED <<mode, row, aliases, ledger, side, files, mig, got, purged>>

-----------------------------------------------------------------------------
(* The transaction of MigrateLIDToPN.  `s` is the store in it. *)

Tables == [row |-> row, path |-> path, aliases |-> aliases, ledger |-> ledger, side |-> side]

\* LIDMigrationPurgedMedia: media under either name of a message purged
\* under either name.
PurgedMedia == IF ledger = {} THEN {} ELSE UNION {{<<n, p>> : p \in Paths(n)} : n \in Names}

LedgerMerged(s) == [s EXCEPT !.ledger = IF "lid" \in @ THEN @ \cup {"pn"} ELSE @]

\* The row of PN keeps its own file; the other becomes an alias.
DisplacedKept(s) ==
  IF /\ s.row["lid"].here /\ s.row["pn"].here /\ s.ledger = {}
     /\ s.path["lid"] # "" /\ s.path["pn"] # "" /\ s.path["lid"] # s.path["pn"]
  THEN [s EXCEPT !.aliases = @ \cup {<<"pn", s.path["lid"]>>}]
  ELSE s

JoinedText(d, s) ==
  IF Deleted(d) \/ Deleted(s) THEN First(d.text, s.text)
  ELSE IF s.edited /\ (~d.edited \/ s.editedTs > d.editedTs) THEN s.text
  ELSE IF d.edited /\ ~s.edited THEN d.text
  ELSE First(d.text, s.text)

\* ON CONFLICT DO UPDATE of the merge: row `s` into the row `d` of PN.
Joined(d, s) ==
  LET hidden == Deleted(d) \/ Deleted(s)
  IN [d EXCEPT
        !.ts = IF hidden \/ s.edited THEN d.ts
               ELSE IF d.edited \/ s.ts > d.ts THEN s.ts ELSE d.ts,
        !.text = JoinedText(d, s),
        !.shown = d.shown \/ s.shown,
        !.media = First(@, s.media),
        !.direct = First(@, s.direct),
        !.revoked = @ \/ s.revoked,
        !.forMe = @ \/ s.forMe,
        !.deletedAt = IF Deleted(d) THEN @ ELSE s.deletedAt,
        !.purged = @ \/ s.purged,
        !.edited = ~hidden /\ (d.edited \/ s.edited),
        !.editedTs = IF hidden THEN 0 ELSE IF d.editedTs > s.editedTs THEN @ ELSE s.editedTs]

\* INSERT ... SELECT: a purged PN has no use for an unpurged source, and a
\* purged row of PN stays as it is.  media_unavailable_at is not copied.
RowMerged(s) ==
  LET src == s.row["lid"]
      dst == s.row["pn"]
  IN IF ~src.here \/ ("pn" \in s.ledger /\ ~src.purged) \/ dst.purged THEN s
     ELSE [s EXCEPT !.row["pn"] = IF dst.here THEN Joined(dst, src) ELSE src,
                    !.path["pn"] = First(@, s.path["lid"])]

AliasesMoved(s) ==
  [s EXCEPT !.aliases = @ \cup {<<"pn", a[2]>> : a \in {x \in @ : x[1] = "lid"}}]

\* A row that the purge of the other name reaches.
Blanked(r) == [Purged(r) EXCEPT !.deletedAt = IF Deleted(r) THEN @ ELSE MaxTime]

\* Mutant: rows are blanked by their own mark only, not by the ledger.
LedgerIgnored(s) == s
\* The ledger of PN marks its row, and a marked row is blanked.
LedgerApplied(s) ==
  IF "pn" \in s.ledger /\ s.row["pn"].here
  THEN [s EXCEPT !.row["pn"] = Blanked(@), !.path["pn"] = ""]
  ELSE s

\* DELETE of the rows (their aliases cascade) and of the ledger of LID.
LidRowsDeleted(s) ==
  [s EXCEPT !.row["lid"] = NoRow, !.path["lid"] = "", !.ledger = @ \ {"lid"},
            !.aliases = {a \in @ : a[1] # "lid"}]

\* migrateLIDMessageLocationsToPN.
LocationMoved(s) ==
  [s EXCEPT !.side = IF s.ledger # {} THEN {} ELSE IF "lid" \in @ THEN {"pn"} ELSE @]

MessagesMigrated(s) ==
  LidRowsDeleted(LedgerApplied(AliasesMoved(RowMerged(DisplacedKept(LedgerMerged(s))))))
Migrated(s) == LocationMoved(MessagesMigrated(s))

-----------------------------------------------------------------------------
(* migrateHistoricalLIDs. *)

\* HistoricalLIDJIDs: a trace of LID in some table.
LidKnown == row["lid"].here \/ "lid" \in ledger \cup side

\* The LID resolves; the media of its purged messages is listed once.
MigrateStart ==
  /\ mode = "sync" /\ mig.at = "idle" /\ LidKnown
  /\ mig' = [at |-> "media", media |-> PurgedMedia]
  /\ UNCHANGED <<mode, tables, files, worker, got, purged, left>>

\* os.Remove of the files of one name.
MigrateRemove(n) ==
  /\ mig.at = "media"
  /\ \E m \in mig.media : m[1] = n
  /\ files' = files \ {m[2] : m \in {x \in mig.media : x[1] = n}}
  /\ mig' = [mig EXCEPT !.at = n]
  /\ UNCHANGED <<mode, tables, worker, got, purged, left>>

\* ClearMessageLocalMedia.
MigrateClear(n) ==
  /\ mig.at = n
  /\ path' = [path EXCEPT ![n] = ""]
  /\ aliases' = {a \in aliases : a[1] # n}
  /\ mig' = [at |-> "media", media |-> {m \in mig.media : m[1] # n}]
  /\ UNCHANGED <<mode, row, ledger, side, files, worker, got, purged, left>>

\* MigrateLIDToPN looks again before its transaction, and fails the sync.
MigrateRefused ==
  /\ mig = [at |-> "media", media |-> {}]
  /\ PurgedMedia # {}
  /\ Stopped
  /\ UNCHANGED <<tables, files, got, purged>>

\* The check passed; what the workers do before the transaction is not seen.
MigrateCheck ==
  /\ mig = [at |-> "media", media |-> {}]
  /\ PurgedMedia = {}
  /\ mig' = [mig EXCEPT !.at = "merge"]
  /\ UNCHANGED <<mode, tables, files, worker, got, purged, left>>

MigrateMerge ==
  /\ mig.at = "merge"
  /\ LET s == Migrated(Tables)
     IN /\ row' = s.row /\ path' = s.path /\ aliases' = s.aliases
        /\ ledger' = s.ledger /\ side' = s.side
  /\ got' = [lid |-> {}, pn |-> got["lid"] \cup got["pn"]]
  /\ left' = IF ledger = {} THEN left ELSE left \cup (files \cap UNION {Paths(n) : n \in Names})
  /\ mig' = NoMigration
  /\ UNCHANGED <<mode, files, worker, purged>>

-----------------------------------------------------------------------------
(* Maintenance, under the store lock. *)

\* messages purge: the files, then the rows.
PurgeMessage(n) ==
  /\ mode = "off"
  /\ row[n].here /\ Deleted(row[n])
  /\ files' = files \ Paths(n)
  /\ row' = [row EXCEPT ![n] = Purged(@)]
  /\ path' = [path EXCEPT ![n] = ""]
  /\ aliases' = {a \in aliases : a[1] # n}
  /\ ledger' = ledger \cup {n}
  /\ side' = side \ {n}
  /\ purged' = TRUE
  /\ left' = left \ Paths(n)
  /\ UNCHANGED <<mode, worker, mig, got>>

\* DeleteChat: rows and aliases go, the ledger and the files stay.
DeleteChat(n) ==
  /\ mode = "off"
  /\ row[n].here
  /\ row' = [row EXCEPT ![n] = NoRow]
  /\ path' = [path EXCEPT ![n] = ""]
  /\ aliases' = {a \in aliases : a[1] # n}
  /\ side' = side \ {n}
  /\ left' = left \cup (files \cap Paths(n))
  /\ got' = [got EXCEPT ![n] = {}]
  /\ UNCHANGED <<mode, ledger, files, worker, mig, purged>>

-----------------------------------------------------------------------------
Next ==
  \/ StartSync \/ StopSync
  \/ \E n \in Names :
       \/ \E t \in Originals : StoreOriginal(n, t)
       \/ \E e \in Edits : StoreEdit(n, e)
       \/ StoreRevoke(n)
       \/ DownloadLoad(n) \/ DownloadWrite(n) \/ DownloadMark(n)
       \/ MigrateRemove(n) \/ MigrateClear(n)
       \/ PurgeMessage(n) \/ DeleteChat(n)
  \/ MigrateStart \/ MigrateRefused \/ MigrateCheck \/ MigrateMerge

Spec == Init /\ [][Next]_vars

-----------------------------------------------------------------------------
\* Once the hidden name is gone, a purge under either name holds: the payload
\* is in no table, whatever copies arrived under the other name before.
PurgeFollowsPerson ==
  purged /\ ~LidKnown =>
    /\ row["pn"].here => row["pn"].purged /\ row["pn"].text = ""
    /\ "pn" \notin side

Newer(d, c) == \/ d.edited /\ ~c.edited
               \/ d.edited = c.edited /\ d.ts > c.ts

\* The merged row shows the newest content either name was given, and some
\* content if either was given some.
MergeShowsNewest ==
  \A n \in Names :
    /\ Visible(row[n]) => \E c \in got[n] : row[n].text = c.text /\ \A d \in got[n] : ~Newer(d, c)
    /\ row[n].here /\ ~row[n].purged /\ got[n] # {} /\ (\A c \in got[n] : c.text # "") => row[n].text # ""

\* Every file on disk is the recorded media of a message that is not purged,
\* so that purging the message finds it.  The exceptions are the files that a
\* clean-up, a stopped sync or a download across a migration leave behind.
FilesAreKnown ==
  \A f \in files \ left :
    \/ \E n \in Names : f \in Paths(n) /\ ~row[n].purged
    \/ worker[f] = "written"
    \/ mig.at \in Names \cup {"media"} /\ ledger # {}

\* What a person with two names may rely on, together.
MergeKeeps == PurgeFollowsPerson /\ MergeShowsNewest /\ FilesAreKnown
=============================================================================
