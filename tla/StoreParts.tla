----------------------------- MODULE StoreParts -----------------------------
(***************************************************************************)
(* What the store keeps of messages, one part at a time: `part` says which *)
(* of Parts a behaviour is one of, and the others rest.  MessageStore has  *)
(* its own variables; LidMigration, ReadState, ChangeJournal, Polls and    *)
(* StoreOpen have those below, and the first two use mode, live and cmd,   *)
(* which no promise of MessageStore is about.                              *)
(***************************************************************************)
EXTENDS MessageStore, FiniteSets

CONSTANTS Parts,                                     \* of {"messages", "lid", "unread", "journal", "polls", "open"}
          Copied,                                    \* LidMigration's Originals
          M, Ts, ReceiptCap, Reported, MaxCount,     \* ReadState's
          Bodies, JournalCap, PageSize, MaxSeq,      \* ChangeJournal's
          Events, Offered, Option, Ballots, Purgeable, MaxPurges,  \* Polls'
          Script, Processes, Casts                   \* StoreOpen's

ASSUME ReadAssumption == IsFiniteSet(M) /\ Ts \in [M -> Nat] /\ Reported \subseteq Nat

ASSUME JournalAssumption ==
  Bodies \cap {"absent", "tombstone", "purged"} = {} /\ JournalCap \in Nat /\ PageSize \in Nat \ {0}

\* The messages of ballots are neither the poll's nor none.
ASSUME PollAssumption ==
  /\ \A b \in Ballots : b.ts \in Nat /\ b.msg \notin {"", "poll"}
  /\ Purgeable \cap {"", "poll"} = {}

StoreFields == {"tables", "cols", "rows", "unread", "count", "marks", "intents", "old", "indexed",
                "identity", "journal"}

\* The stores that are opened have the fields of a store.
ASSUME OpenAssumption == \A c \in Casts : c.store = [f \in StoreFields |-> c.store[f]]

VARIABLES part,
          copies, path, aliases, purges, located, files, worker, mig, given, purged, left,   \* LidMigration's
          rows, content, count, marked, owed, flagged,                                       \* ReadState's
          archive, barred, journal, aged, revised, reader,                                   \* ChangeJournal's
          resolved, poll, votes, gone, banned, work, cast, withdrawn, raced,                 \* Polls'
          disk, lock, pc, place, sub, seen, fts, alone, team                                    \* StoreOpen's

Lid == INSTANCE LidMigration
         WITH Originals <- Copied, row <- copies, ledger <- purges, side <- located, got <- given
Read == INSTANCE ReadState
Journal == INSTANCE ChangeJournal
             WITH Contents <- Bodies, Cap <- JournalCap, CleansPurged <- FALSE, row <- archive, ledger <- barred
Poll == INSTANCE Polls WITH ledger <- banned
Open == INSTANCE StoreOpen WITH cast <- team, at <- place

lidVars == <<copies, path, aliases, purges, located, files, worker, mig, given, purged, left>>
readVars == <<rows, content, count, marked, owed, flagged>>
journalVars == <<archive, barred, journal, aged, revised, reader>>
pollVars == <<resolved, poll, votes, gone, banned, work, cast, withdrawn, raced>>
openVars == <<disk, lock, pc, place, sub, seen, fts, alone, team>>

LidRests ==
  /\ copies = "-" /\ path = "-" /\ aliases = "-" /\ purges = "-" /\ located = "-" /\ files = "-"
  /\ worker = "-" /\ mig = "-" /\ given = "-" /\ purged = "-" /\ left = "-"
ReadRests ==
  rows = "-" /\ content = "-" /\ count = "-" /\ marked = "-" /\ owed = "-" /\ flagged = "-"
JournalRests ==
  archive = "-" /\ barred = "-" /\ journal = "-" /\ aged = "-" /\ revised = "-" /\ reader = "-"
PollRests ==
  /\ resolved = "-" /\ poll = "-" /\ votes = "-" /\ gone = "-" /\ banned = "-" /\ work = "-"
  /\ cast = "-" /\ withdrawn = "-" /\ raced = "-"
OpenRests ==
  /\ disk = "-" /\ lock = "-" /\ pc = "-" /\ place = "-" /\ sub = "-" /\ seen = "-" /\ fts = "-"
  /\ alone = "-" /\ team = "-"

RowRests == now = OriginalTime /\ row = NoRow /\ ledger = FALSE /\ side = {} /\ forMe = "idle" /\ got = {}
HandlersRest == live = {} /\ cmd = NoCmd

MessagesRest == RowRests /\ HandlersRest /\ mode = "off"

StoreInit ==
  /\ part \in Parts
  /\ \/ /\ part = "messages" /\ Init
        /\ LidRests /\ ReadRests /\ JournalRests /\ PollRests /\ OpenRests
     \/ /\ part = "lid" /\ Lid!Init /\ RowRests /\ HandlersRest
        /\ ReadRests /\ JournalRests /\ PollRests /\ OpenRests
     \/ /\ part = "unread" /\ Read!Init /\ RowRests /\ mode = "off"
        /\ LidRests /\ JournalRests /\ PollRests /\ OpenRests
     \/ /\ part = "journal" /\ Journal!Init /\ MessagesRest
        /\ LidRests /\ ReadRests /\ PollRests /\ OpenRests
     \/ /\ part = "polls" /\ Poll!Init /\ MessagesRest
        /\ LidRests /\ ReadRests /\ JournalRests /\ OpenRests
     \/ /\ part = "open" /\ Open!Init /\ MessagesRest
        /\ LidRests /\ ReadRests /\ JournalRests /\ PollRests

restVars == <<now, storeVars, forMe, got>>

StoreNext ==
  \/ /\ part = "messages" /\ Next
     /\ UNCHANGED <<part, lidVars, readVars, journalVars, pollVars, openVars>>
  \/ /\ part = "lid" /\ Lid!Next
     /\ UNCHANGED <<part, restVars, live, cmd, readVars, journalVars, pollVars, openVars>>
  \/ /\ part = "unread" /\ Read!Next
     /\ UNCHANGED <<part, restVars, mode, lidVars, journalVars, pollVars, openVars>>
  \/ /\ part = "journal" /\ Journal!Next
     /\ UNCHANGED <<part, vars, lidVars, readVars, pollVars, openVars>>
  \/ /\ part = "polls" /\ Poll!Next
     /\ UNCHANGED <<part, vars, lidVars, readVars, journalVars, openVars>>
  \/ /\ part = "open" /\ Open!Next
     /\ UNCHANGED <<part, vars, lidVars, readVars, journalVars, pollVars>>

partsVars == <<part, vars, lidVars, readVars, journalVars, pollVars, openVars>>

StoreSpec == StoreInit /\ [][StoreNext]_partsVars

-----------------------------------------------------------------------------
\* LidMigration: once the names are merged, a purge under either holds, the
\* newest content shows, and no file is forgotten.
MergeKeeps == part = "lid" => Lid!MergeKeeps

\* ReadState: an arrival that no read reached stays counted, and a marker stays
\* until a read reaches the last readable message.
UnreadIsKept == part = "unread" => Read!UnreadIsKept

\* ChangeJournal: a consumer that replayed everything mirrors the store.
DrainedMirrorsStore == part = "journal" => Journal!DrainedMirrorsStore

\* ChangeJournal: a completed export is one state of the archive.
ExportIsOneState == [][part = "journal" => Journal!CompletesExact]_partsVars

\* Polls: the newest ballot counts, for options of the poll, in whatever order the
\* ballots came, and what is purged does not come back.
TallyIsRight == part = "polls" => Poll!TallyIsRight

\* StoreOpen: what opens is complete, and an open with none beside it does not fail.
OpensComplete == part = "open" => Open!OpensComplete

\* StoreOpen: owed recoveries are never lost, and a store keeps its identity.
UpgradeKeepsDebts == [][part = "open" => Open!KeepsDebts]_partsVars
=============================================================================
