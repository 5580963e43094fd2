------------------------------ MODULE StoreOpen ------------------------------
(***************************************************************************)
(* Opening wacli.db: the numbered migrations, the rows that record them,   *)
(* the reconciliation of stores written by pre-release builds, and the     *)
(* idempotent guards after them.                                           *)
(*                                                                         *)
(* A migration is a sequence of SQL statements.  Each statement commits on *)
(* its own unless the code opens a transaction, and the row that records   *)
(* the migration is one statement more: a process may die between any two. *)
(* Commands that only read the archive open the store without the store    *)
(* lock and still run the migrations, so two processes may migrate at the  *)
(* same time; the commands that write hold the lock while they do.         *)
(***************************************************************************)
EXTENDS StoreSchema

CONSTANTS Script,      \* what an open runs behind the reconciliation: StoreSchema's Program
          Processes,   \* processes that open the store
          Casts        \* the store at first, who opens it, and how many may die meanwhile

VARIABLES disk,   \* the file
          lock,   \* who holds the store lock, or "free"
          pc,     \* what each process does
          at,     \* how far its open is in the script
          sub,    \* the statements it has to run before it goes on there
          seen,   \* the versions it found recorded before the migrations
          fts,    \* ftsEnabled
          alone,  \* whether no other process opened the store meanwhile
          cast    \* who may still act, and how many may still die

vars == <<disk, lock, pc, at, sub, seen, fts, alone, cast>>

-----------------------------------------------------------------------------
(* The course of an open *)

\* The first statement behind i whose migration was not recorded before.
Following(i, recorded) ==
  LET left == {j \in (i + 1)..Len(Script) : Script[j].v \notin recorded}
  IN IF left = {} THEN Len(Script) + 1 ELSE CHOOSE j \in left : \A k \in left : j <= k

Reconciliation == <<Exec("reconcile retrieval"), Exec("fork 33"), Exec("fork 34"), Exec("load")>>

Running(p) == pc[p] = "opening" /\ (sub[p] # <<>> \/ at[p] <= Len(Script))
Current(p) == IF sub[p] # <<>> THEN Head(sub[p]) ELSE Script[at[p]].item

\* p goes on behind its current statement, after the statements of first.
Advance(p, first) ==
  IF sub[p] # <<>>
  THEN sub' = [sub EXCEPT ![p] = first \o Tail(@)] /\ UNCHANGED at
  ELSE /\ at' = [at EXCEPT ![p] = Following(@, seen[p])]
       /\ sub' = [sub EXCEPT ![p] = first]

\* What an open keeps in memory goes with it.
Forget(p) ==
  /\ at' = [at EXCEPT ![p] = 0]
  /\ sub' = [sub EXCEPT ![p] = <<>>]
  /\ seen' = [seen EXCEPT ![p] = {}]

\* A statement fails: Open returns its error.
Fails(p) ==
  /\ pc' = [pc EXCEPT ![p] = "failed"]
  /\ Forget(p)
  /\ UNCHANGED <<disk, lock, fts, alone, cast>>

Commits(p, d, first) ==
  /\ disk' = d
  /\ Advance(p, first)
  /\ UNCHANGED <<lock, pc, seen, fts, alone, cast>>

\* The table a statement asks for first is not there: it is left out.
Skip(p) ==
  /\ Running(p)
  /\ Current(p).when # "" /\ Current(p).when \notin disk.tables
  /\ Commits(p, disk, <<>>)

At(p, op) ==
  /\ Running(p) /\ Current(p).op = op
  /\ Current(p).when = "" \/ Current(p).when \in disk.tables

AtExec(p, names) == At(p, "exec") /\ Current(p).x \in names

-----------------------------------------------------------------------------
(* Statements that any migration may have *)

CreateTable(p) ==
  /\ At(p, "create")
  /\ LET t == Current(p).x IN
       Commits(p, IF t \in disk.tables THEN disk
                  ELSE [disk EXCEPT !.tables = @ \cup {t}, !.cols = @ \cup Created(t)], <<>>)

\* tableHasColumn: what another process adds after it is not seen any more.
CheckColumn(p) ==
  /\ At(p, "check")
  /\ LET c == Current(p).x IN
       Commits(p, disk, IF c \in disk.cols THEN <<>> ELSE <<Item("alter", c, "")>>)

AlterTable(p) ==
  /\ At(p, "alter")
  /\ LET c == Current(p).x IN
       IF c[1] \notin disk.tables \/ c \in disk.cols
       THEN Fails(p)
       ELSE Commits(p, [disk EXCEPT !.cols = @ \cup {c}], <<>>)

\* The version is the primary key of schema_migrations.
RecordMigration(p) ==
  /\ At(p, "record")
  /\ LET row == Current(p).x IN
       IF \E r \in disk.rows : r[1] = row[1]
       THEN Fails(p)
       ELSE Commits(p, [disk EXCEPT !.rows = @ \cup {row}], <<>>)

-----------------------------------------------------------------------------
(* Statements of single migrations *)

Name(d, v) == {r[2] : r \in {q \in d.rows : q[1] = v}}

PreRelease ==
  [from : {29}, to : {30}, name : {"retrieval identity, revision and sync state"}] \cup
  [from : {30}, to : {31}, name : {"content-free message change journal"}]

\* One transaction: the markers of prerelease builds move to the numbers that
\* upstream gave them, and receipts take their own.
ReconcileRetrieval(p) ==
  LET legacy == {l \in PreRelease : <<l.from, l.name>> \in disk.rows}
      left == disk.rows \ {<<l.from, l.name>> : l \in legacy}
      moved == {<<l.to, l.name>> : l \in legacy}
      known == [v \in {29, 30, 31} |->
                  IF v = 29 THEN {"message receipts", "retrieval identity, revision and sync state"}
                  ELSE IF v = 30 THEN {l.name : l \in PreRelease}
                  ELSE {"content-free message change journal"}]
      free(rows, v) == ~\E r \in rows : r[1] = v
      rows == left \cup {m \in moved : free(left, m[1])}
  IN /\ AtExec(p, {"reconcile retrieval"})
     /\ IF legacy = {} THEN Commits(p, disk, <<>>)
        ELSE IF \E v \in DOMAIN known : ~(Name(disk, v) \subseteq known[v]) THEN Fails(p)
        ELSE Commits(p, [disk EXCEPT
                           !.tables = @ \cup {"message_receipts"},
                           !.rows = IF free(rows, 29) THEN rows \cup {<<29, "message receipts">>}
                                    ELSE rows], <<>>)

ForkRow(x) ==
  IF x \in {"fork 33", "insert 33", "delete 33"}
  THEN [old |-> <<33, "own message id lookup index">>, new |-> <<1001, "fork: own message id lookup index">>]
  ELSE [old |-> <<34, "pending sends">>, new |-> <<1002, "fork: pending sends">>]

\* Only a row with the fork's name is renumbered, in two statements.
ReconcileFork(p) ==
  \/ /\ AtExec(p, {"fork 33", "fork 34"})
     /\ LET n == IF Current(p).x = "fork 33" THEN "33" ELSE "34" IN
          Commits(p, disk, IF ForkRow(Current(p).x).old \in disk.rows
                           THEN <<Exec("insert " \o n), Exec("delete " \o n)>> ELSE <<>>)
  \/ /\ AtExec(p, {"insert 33", "insert 34"})
     /\ LET f == ForkRow(Current(p).x) IN
          Commits(p, IF \E r \in disk.rows : r[1] = f.new[1] THEN disk
                     ELSE [disk EXCEPT !.rows = @ \cup {f.new}], <<>>)
  \/ /\ AtExec(p, {"delete 33", "delete 34"})
     /\ Commits(p, [disk EXCEPT !.rows = @ \ {ForkRow(Current(p).x).old}], <<>>)

LoadApplied(p) ==
  /\ AtExec(p, {"load"})
  /\ seen' = [seen EXCEPT ![p] = {r[1] : r \in disk.rows}]
  /\ at' = [at EXCEPT ![p] = Following(0, seen'[p])]
  /\ sub' = [sub EXCEPT ![p] = <<>>]
  /\ UNCHANGED <<disk, lock, pc, fts, alone, cast>>

\* migrateMessagesFTS: the old messages go in only if this run made the table.
SearchIndex(p) ==
  \/ /\ AtExec(p, {"fts"})
     /\ Commits(p, disk, IF "messages_fts" \in disk.tables THEN <<Exec("fts triggers")>>
                         ELSE <<Exec("fts create"), Exec("fts triggers"), Exec("fts fill")>>)
  \/ /\ AtExec(p, {"fts create"})
     /\ Commits(p, [disk EXCEPT !.tables = @ \cup {"messages_fts"},
                               !.indexed = (@ /\ "messages_fts" \in disk.tables) \/ ~disk.old], <<>>)
  \/ /\ AtExec(p, {"fts triggers"})
     /\ Commits(p, disk, <<>>)
  \/ /\ AtExec(p, {"fts fill"})
     /\ Commits(p, [disk EXCEPT !.indexed = TRUE], <<>>)

\* migrateChatUnreadCountColumn.
UnreadCount(p) ==
  \/ /\ AtExec(p, {"count"})
     /\ Commits(p, disk, IF <<"chats", "unread_count">> \in disk.cols THEN <<>>
                         ELSE <<Item("alter", <<"chats", "unread_count">>, ""),
                                Exec("count fill"), Exec("mark fill")>>)
  \/ /\ AtExec(p, {"count fill"})
     /\ Commits(p, [disk EXCEPT !.count = disk.unread], <<>>)
  \/ /\ AtExec(p, {"mark fill"})
     /\ Commits(p, [disk EXCEPT !.unread = IF @ # 0 THEN 1 ELSE 0], <<>>)

RecoveryNames == {"app state recovery markers", "app state recovery intents"}

ReconcileMarkers(p) ==
  \/ /\ AtExec(p, {"reconcile 21"})
     /\ Commits(p, disk, IF Name(disk, 21) = {"app state recovery markers"}
                         THEN TombstoneMetadata ELSE <<>>)
  \/ /\ AtExec(p, {"reconcile 22"})
     /\ Commits(p, disk, IF Name(disk, 22) \cap RecoveryNames # {}
                         THEN LocalMediaAliases ELSE <<>>)

\* One transaction: the markers become intents, and their table goes.
HandOff(p) ==
  /\ AtExec(p, {"handoff"})
  /\ IF "app_state_recovery_required" \notin disk.tables THEN Fails(p)
     ELSE Commits(p, [disk EXCEPT !.intents = @ \cup disk.marks, !.marks = {},
                                  !.tables = @ \ {"app_state_recovery_required"}], <<>>)

\* A fault to compare with: a repeated migration gives the store a new identity.
RetrievalReseeds(p) ==
  /\ AtExec(p, {"retrieval"})
  /\ Commits(p, [disk EXCEPT !.tables = @ \cup {"retrieval_state"}, !.identity = @ + 1], <<>>)

\* One transaction; a store that has an identity keeps it.
RetrievalState(p) ==
  /\ AtExec(p, {"retrieval"})
  /\ Commits(p, [disk EXCEPT !.tables = @ \cup {"retrieval_state"},
                             !.identity = IF @ = 0 THEN 1 ELSE @], <<>>)

\* One transaction: the journal starts with one entry for each stored message.
ChangeState(p) ==
  /\ AtExec(p, {"changes"})
  /\ Commits(p, IF "change_state" \in disk.tables THEN disk
                ELSE [disk EXCEPT !.tables = @ \cup {"change_state"}, !.journal = TRUE], <<>>)

ReceiptTriggers(p) ==
  /\ AtExec(p, {"receipt triggers"})
  /\ IF "message_receipts" \notin disk.tables THEN Fails(p) ELSE Commits(p, disk, <<>>)

\* Statements whose effect is not part of a store here.
OtherStatement(p) == AtExec(p, {"own index", "activity"}) /\ Commits(p, disk, <<>>)

-----------------------------------------------------------------------------
(* Processes *)

\* A command that writes takes the store lock first, one that reads does not.
AcquireLock(p) ==
  /\ pc[p] = "idle" /\ lock = "free"
  /\ lock' = p
  /\ pc' = [pc EXCEPT ![p] = "locked"]
  /\ UNCHANGED <<disk, at, sub, seen, fts, alone, cast>>

Opening == {p \in Processes : pc[p] = "opening"}

Begin(p) ==
  /\ pc[p] \in {"idle", "locked"}
  /\ pc' = [pc EXCEPT ![p] = "opening"]
  /\ at' = [at EXCEPT ![p] = 0]
  /\ sub' = [sub EXCEPT ![p] = Reconciliation]
  /\ seen' = [seen EXCEPT ![p] = {}]
  /\ fts' = [fts EXCEPT ![p] = FALSE]
  /\ alone' = [q \in Processes |-> IF q = p THEN Opening = {}
                                   ELSE alone[q] /\ pc[q] # "opening"]
  /\ UNCHANGED <<disk, lock, cast>>

\* init: the index is in use if the table is there.
Opened(p) ==
  /\ pc[p] = "opening" /\ sub[p] = <<>> /\ at[p] = Len(Script) + 1
  /\ pc' = [pc EXCEPT ![p] = "open"]
  /\ fts' = [fts EXCEPT ![p] = "messages_fts" \in disk.tables]
  /\ Forget(p)
  /\ UNCHANGED <<disk, lock, alone, cast>>

ReleaseLock(p) == lock' = IF lock = p THEN "free" ELSE lock

Close(p) ==
  /\ pc[p] \in {"open", "failed"}
  /\ pc' = [pc EXCEPT ![p] = "idle"]
  /\ ReleaseLock(p)
  /\ fts' = [fts EXCEPT ![p] = FALSE]
  /\ alone' = [alone EXCEPT ![p] = TRUE]
  /\ UNCHANGED <<disk, at, sub, seen, cast>>

\* The process dies; the system drops its lock.
Crash(p) ==
  /\ pc[p] = "opening" /\ cast.faults > 0
  /\ cast' = [cast EXCEPT !.faults = @ - 1]
  /\ pc' = [pc EXCEPT ![p] = "idle"]
  /\ ReleaseLock(p)
  /\ Forget(p)
  /\ alone' = [alone EXCEPT ![p] = TRUE]
  /\ UNCHANGED <<disk, fts>>

Init ==
  /\ \E c \in Casts : disk = c.store /\ cast = [who |-> c.who, faults |-> c.faults]
  /\ lock = "free"
  /\ pc = [p \in Processes |-> "idle"]
  /\ at = [p \in Processes |-> 0]
  /\ sub = [p \in Processes |-> <<>>]
  /\ seen = [p \in Processes |-> {}]
  /\ fts = [p \in Processes |-> FALSE]
  /\ alone = [p \in Processes |-> TRUE]

Statement(p) ==
  \/ Skip(p) \/ CreateTable(p) \/ CheckColumn(p) \/ AlterTable(p) \/ RecordMigration(p)
  \/ ReconcileRetrieval(p) \/ ReconcileFork(p) \/ LoadApplied(p) \/ SearchIndex(p)
  \/ UnreadCount(p) \/ ReconcileMarkers(p) \/ HandOff(p) \/ RetrievalState(p)
  \/ ChangeState(p) \/ ReceiptTriggers(p) \/ OtherStatement(p)

Next ==
  \E p \in cast.who :
    \/ AcquireLock(p) \/ Begin(p) \/ Statement(p) \/ Opened(p) \/ Close(p) \/ Crash(p)

Spec == Init /\ [][Next]_vars

-----------------------------------------------------------------------------
(* Properties *)

Complete(d) ==
  /\ RequiredTables \subseteq d.tables
  /\ RequiredColumns \subseteq d.cols
  /\ \A i \in 1..Len(SchemaMigrations) : Name(d, SchemaMigrations[i].v) # {}

\* A store that opened has every table and column of this build, whatever release
\* wrote it, wherever earlier opens of it died, and whoever migrated it meanwhile;
\* and an open with no other beside it does not fail, so no death and no
\* pre-release numbering leaves a store that cannot be opened again.
OpensComplete ==
  \A p \in Processes :
    /\ pc[p] = "open" => Complete(disk)
    /\ pc[p] = "failed" => ~alone[p]

\* A recovery that an old store owes is never lost on the way from the markers
\* to the intents, and the identity that readers' cursors rest on, once given,
\* never changes.
KeepsDebts ==
  /\ disk.marks \cup disk.intents \subseteq disk'.marks \cup disk'.intents
  /\ disk.identity # 0 => disk'.identity = disk.identity
UpgradeKeepsDebts == [][KeepsDebts]_vars
=============================================================================
