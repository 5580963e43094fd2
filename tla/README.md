# wacli: verification project

TLA+ models of the parts of wacli where ordering, failure and concurrency decide
whether the program keeps its promises, TLC configurations that check them on
small instances, and TLAPS proofs for every value of the constants. Each
definition names the code it stands for in `PROJECT.json` ("map").

wacli is a WhatsApp command line client on top of the whatsmeow library. One
process at a time owns a store directory (`internal/lock`): either a command
that connects for itself, or the sync daemon (`wacli sync --follow`), which
serves the other commands' requests on a Unix socket. Two SQLite databases live
in the directory: whatsmeow's session and wacli's own store (`internal/store`).

## 1. Inventory

### Components

| Component | State | Operations | Talks to |
|---|---|---|---|
| Retry guard of sends with `--id` (`cmd/wacli/delegate_idempotent.go`, `send_helpers.go`, `store/pending_sends.go`) | `pending_sends` rows, the stored message, the send goroutine's result and phase | check, begin, send with one retry, store, finish; clear and expiry of rows | store, WhatsApp, delegation server |
| Delegation server (`cmd/wacli/send_ipc.go`, `delegate_kinds.go`, `send_spacing.go`) | listener, one send slot, one slot per bulk kind, pacing state, deadlines | accept, queue, refuse, execute, cancel, stop | client commands, retry guard, sync loop |
| Delegated actions (`delegate_messages.go`, `delegate_groups.go`, ...) | none of their own | load, call WhatsApp, store the answer | store, app state recovery |
| Sync loop (`app/sync.go`, `sync_idle.go`, `sync_limits.go`) | connection, channels for disconnect, logout and stale connections, idle timer, stop causes | follow, once, reconnect, limits, stop | WhatsApp events, media queue, presence, webhooks |
| Event handlers (`app/sync_events.go`, `sync_edits.go`, `sync_polls.go`) | what they read before they write | live message, history chunk, edit, revoke, vote, receipt, app state event | message store, media queue, sequencer |
| Message store (`store/messages.go`, `sqlc/queries.sql`) | `messages` row, purge ledger, polls, votes, locations, stars, search index | upsert, revoke, delete for me, edit, purge, star, delete chat | event handlers, delegated actions, clean-up |
| App state write sequencer (`app/app_state.go`) | tickets, tasks, the running drain, the condition channel | reserve, complete, drain, hand off, wait, wait for idle | live events, fetches, recoveries, local writes, `App.Close` |
| App state recovery and chat state commands (`app/chat_state.go`, `sync_recovery.go`, `store/app_state.go`) | recovery generations, write intents, the broken full sync flag | mark, begin, capture, recover from the primary, adopt late, clear, local write | sequencer, store, WhatsApp |
| Media queue (`app/media.go`) | jobs channel, pending and producer counts, intake | enqueue, download, fence, retry over a reconnect | event handlers, store, sync loop |
| Media retry, history backfill (`app/media_retry.go`, `backfill.go`) | outstanding requests to the phone | request, match an answer, stop at the tail | event handlers, store |
| Presence (`app/presence.go`) | the watched list, one renewal goroutine | subscribe, renew, stop | sync loop, delegation server |
| Webhooks (`app/webhook.go`) | bounded queue, worker | enqueue or drop, post, stop | event handlers |
| Session state (`app/session_state.go`, `app.go`) | session record, revoked marker | observe, confirm, reject | sync loop, every command that connects |
| LID migration (`app/lid_migration.go`, `store/lid_migration.go`) | rows under two names of one chat | merge | message store |
| Change journal (`store/changes.go`) | journal rows, cursors | record, read, prune | every write of the store |
| Read state, receipts, calls, contacts, groups, labels | one upsert rule each | upsert, list | event handlers, commands |
| Store lock, pin and socket (`internal/lock`, `cmd/wacli/root.go`, `internal/config`) | the lock file, the pin, the socket file | acquire, wait, release, dial, refuse | every command, the daemon |
| Store clean-up (`cmd/wacli/store_cleanup.go`) | none | select, delete chats, purge | store lock, message store |
| Schema and migrations (`store/migrations.go`) | tables, columns, migration rows | open, migrate, reconcile, guard | every command that opens the store |
| Search, configuration, output, release scripts | | | not protocols: see section 8 |

### How they interact

* A command first tries the lock. If it gets it, it opens the store and the
  session itself; if not, it dials the daemon's socket, and if nobody listens
  it reports who holds the lock.
* Inside the daemon, event handlers, media workers, the recovery worker, the
  presence renewal and the handlers of delegated requests run as goroutines of
  one process over one SQLite connection pool. Each store call is one statement
  or transaction; between two calls anything may happen.
* App state (archive, pin, mute, read marks, stars, deletions for me) comes
  from live events, fetches, snapshots of the primary device and this
  program's own writes. The sequencer puts their store writes in one order.

### Hard behaviours, and what makes each component correct

* *Outcome unknown.* A send whose answer never comes may have been delivered.
  Correct: an id never sends twice while its record was kept, and an answer that
  ends the caller's retries is true.
* *Order of arrival.* Original, edits, revocation, history replays and late
  app state reach the store in any order. Correct: a visible row shows the newest
  content, deletions stay, purged content never returns.
* *Order of persistence.* Fetches overtake live events. Correct: writes are
  applied in the order reserved, a writer that returns has been applied, Close
  loses nothing, nobody sleeps for ever.
* *Deadlines.* A request waits for a slot, for pacing and for the network, each
  racing the caller's deadline. Correct: what was refused is never sent.
* *Shutdown.* Sync ends by signal, logout, limit, idleness or a lost connection,
  while handlers, workers and requests are under way. Correct: each job that was
  accepted is finished or handed over, and a revoked session is not dialled again.
* *Crash.* A process can die between any two store calls, and between any two statements
  of a migration; the store lock goes with it, the rows and the socket file stay. Correct:
  the next process finds what it needs in the rows.
* *Two names.* WhatsApp knows a contact by a hidden LID and by a phone number, and learns
  late that they are one. Correct: after the merge what was purged stays purged under
  both, and the newest content and the newest ballot count.
* *Answers without a request id.* The phone answers history and media requests late, twice,
  under the other name or never. Correct: an answer finds a listener, and nothing is given
  up that somebody still has.
* *Read and then write.* Unread counters, group snapshots and presence are read from
  WhatsApp or from the store and written later. Correct: what came in between survives.

`PROJECT.json` "hazards" has each of these at its line with the properties that
cover it, or the reason why none does.

## 2. Order of work

In this order, the most important behaviour first. All are done.

1. `SendGuard` with `SendGuard_proofs`: the retry guard, on both paths.
2. `OrderedWrites` (abstract) and `AppStateSequencer` with
   `AppStateSequencer_proofs`: safety, liveness, refinement.
3. `MessageRow` (the statements as operators on one row), `MessageStore` with
   `MessageStore_proofs`: one message under every interleaving.
4. `DelegateServer`, `MediaQueue`, `SyncLoop`, each with its `_proofs` module: requests,
   downloads and the connection of a running sync, and how each of them ends.
5. `AppStateRecovery` with `AppStateRecovery_proofs`, on top of the sequencer: generations,
   intents, snapshots that come late.
6. `LidMigration` (on `MessageRow`), `ChangeJournal`, `Polls`: what happens to rows when two
   names turn out to be one person, and what a reader of the journal sees of it.
7. `ReadState`, `GroupInfo`, `MessageMedia`, `Backfill`: what is asked for and written later.
8. `StoreOpen`: migrations as statements, with deaths in between.
9. `Session`, `Presence`, `Webhook`: what hangs on one connection.
10. `StoreAccess` with `StoreAccess_proofs`: which process owns the store, and where a call runs.

11. `SyncParts`, `RequestsParts` and `StoreParts`, which put the modules of one run together, and
    with them the theorems about what each module promises: in `SyncLoop_proofs`,
    `StoreAccess_proofs` and `MessageStore_proofs`.

What would come next: `OpensComplete` for the schema's own script, which needs an invariant on
how far each store is in it; the merge of live and history call logs (`store/calls.go`).

## 3. Modules and the code

### SendGuard

One *attempt* is one request under a caller-chosen id. `pc[a]` follows the
handler: `alreadySentResponse`, `beginIDSend` and `Finish` are the functions of
`delegate_idempotent.go`, `Prepare` everything a command does before it sends,
`AwaitResult`, `AwaitTimeout` and `Reconnect` the loop of `runSendAttempt` and
`runSendWithReconnect`, `Persist` the store writes after an ack. `op[a]` is the
goroutine `runSendAttempt` starts and may leave behind. `net[a]` is the frame.
The whatsmeow client and the server are modelled from how the code uses them: a
frame is accepted, rejected or lost, at any time, also after its process is gone.
The two paths differ as in the code: which fields are hashed, which errors reach
`finish`, which warnings do, and whether the goroutine outlives the handler.
The daemon's queue is one slot here; its deadlines and pacing are the
delegation server's.

### OrderedWrites and AppStateSequencer

`AppStateSequencer` has one action for each stretch between `Lock` and `Unlock`
of `app_state.go`. Kinds of holders stand for the callers: `live` for
event handlers, `fetch` for manual fetches whose wait can be cancelled, `local`
for local writes and recoveries, `release` for a snapshot's ticket that is given
back. `running` is the field; `drains` are the `drainThrough` calls under way,
kept apart from it so that the two can disagree. The closed `changed` channels
are counted, and a sleeper remembers which one it sleeps on. `OrderedWrites`
is the promise alone; the refinement mapping is `Writes` in `AppStateSequencer`.

### MessageRow and MessageStore

`MessageRow` has one operator per statement of `sqlc/queries.sql` that writes a
`messages` row: `Inserted` and `Merged` are the two halves of `UpsertMessage`,
`MarkRevoked`, `MarkDeletedForMe`, `MarkDeletedForMePreserveMedia`, `UpdateText`
and `Purged` the updates. Columns with the same rule are one field (see its
header). `MessageStore` runs them as the handlers do: the live handler looks at
the row (`LiveCheck`) and stores later (`LiveStore`), history stores at once, an
edit or a revocation made here is loaded, sent and stored in three steps, a
deletion for me in two, and the purge and the chat clean-up run only while
no process syncs. `got` is a history variable: what was merged into the row.
Rows of different messages do not touch each other in any of these statements,
so one message is enough. The media columns have rules and actors of their own, in
`MessageMedia` and `LidMigration`.

### DelegateServer

`pc[r]` is where the connection of request `r` is: in the listener's backlog,
between `Accept` and its handler, and then the waits of `serveDelegateConn`
one after another: reading the request, the queue, the checks with the slot in hand, the
pacer, `execute`, the answer. The clock is discrete. A timer fires, and a
goroutine that may move does move, at most `Lag` after its time (`Overdue` holds the clock
back); `execute` may take any time and end in any way. `live[r]` is the state of
the request's context, apart from its deadline `due[r]`, since the code looks at
both. `client[r]` is what the command has been told. The pacer's random gap is
any number between `MinGap` and `MaxGap`. `SyncEnds` cancels every context, and only then
does `stop` run, as `newSyncCmd` defers it.

### MediaQueue

`pc[e]` is where the handler's call for event `e` is: it begins (`beginProducer`), stores
its message, counts and puts a download into the channel, and ends. `worker[w]` is what a
worker does, `jobs` how many jobs the channel holds; `pending`, `producers`, `accepting` and
`changed` are the fields of `mediaQueue`. `sync` follows the end of `Sync` line by line: the
loop's last step, `waitIdle` (`WaitIdleLook`, `WaitIdleWake`), the freshness record and then
the deferred calls in their reverse order (`After`). A sync without `--download-media`
(`Media`) has no queue and no fence. App state writes are the second thing that the end
asks for (`CheckPending`); their own order is the sequencer's.

### SyncLoop

The three channels of `sync.go` that hold one token each are `disconnected`,
`loggedOut` and `staleReconnect`; `calls` and `reports` are callbacks of whatsmeow
that are under way. `loop` is where `runSyncFollow` or `runSyncUntilIdle` is, `dial`
the goroutine of `reconnectWhileWatchingLogout`. `socket` is the connection as
`IsConnected` sees it: "half" and "closing" still look connected. Times are
reduced to what the loop asks of them: `since` of a report and `proved` of a
connection say whether the last keepalive is not before `connectionEpoch`. One
assumption about time is in `KeepAliveFails`: a dial looks for an existing
connection at once, and no keepalive succeeds and then fails for a second before
that. A logout between `loggedOutPending` and the start of the dial counts as one during the
dial, where the code looks at the same channel.

### AppStateRecovery

One collection. `log` is what the server has, `cursor` whatsmeow's stored version: a mutation
at or below it is never handed over again. `outbox` and `batch` are events that whatsmeow
has fetched and not yet dispatched, `batch` those of the goroutine of an own send. `saved`
has every mutation that a store write has ever reached, `intents` and `broken` are the two
tables of `store/app_state.go`. The sequencer is a queue of tickets here, served in order;
`Frontier` is what `complete` returns. `holder` is the attempt that has `chatStateSync`: the
two ladders of repair steps (`syncChatStateBeforeWrite` with `replayRequiredAppState` and
`degradedAppStateReplay`; `recoverAppStateCollection`) differ only in where they begin
(`CommandBegins`, `WorkerBegins`), which step follows a failed one (`FallsBack`), and in the
command's own write at the end. `capture` is the open `appStateRecoveryCapture` of the
holder, `late` the one registered continuation of an earlier attempt, `owed` the generations
that continuations have still to clear after their wait. A live event reserves its ticket,
marks its intent and completes in one action: the handler does so inside one call, and what
another goroutine could put between only delays the event. Only the order of intents' ids matters, so `NewId` is
one above all that are still known and `MaxIds` bounds those.

### LidMigration, ChangeJournal, Polls

`LidMigration` has the row of each name with its file, aliases, ledger entry and location;
`MigrateMerge` is the transaction of `MigrateLIDToPN`, composed of one operator per statement
(`LedgerApplied`, `Joined`, `DisplacedKept`, ...), and the steps around it (which files are
removed first, what a download writes meanwhile) are actions of their own, since the migration
runs after the sync has connected. `ChangeJournal` has the journal with its triggers: each store
call is one action that appends what its triggers append, or nothing where the code suppresses
them; `reader` is a consumer that does what `docs/messages.md` tells it to: checkpoint, export,
replay. `Polls` follows an event from what it reads of the poll to what it writes of the vote,
under both names, while the merge and the purge run.

### ReadState, GroupInfo, MessageMedia, Backfill

`ReadState`: `content` says what a row shows, and an upsert replaces it, also by nothing, unless
the row is a tombstone (`Upserted`; all copies of a message have its second). `live` is the handler
between its look at the row, the store and the increment; only it drops a copy without content
over a useful row, and history (`HistoryStore`) never looks. `cmd` is a mark-read, with
receipts or without, between its position and the write; a position is a second and a row, as in the code. `owed` is a history
variable: the messages that arrived live and that no read or report since has reached, or found
without content. `GroupInfo`: `answers` are the `groupInfoAnswer` objects by identity, `current` is the one in
the map, `worker[w]` is where a goroutine is in `cachedGroupInfo` and the store after it,
`cmd` the command in the server's queue and the one beside it. `MessageMedia`: `worker`, `retry`,
`removal` and `copy` are the download, `media retry`, `delete --delete-media` and the read-only
copy, each between its file and its row; `served` and `held` say who still has the media.
`Backfill`: `run` is where `backfillOneChat` is, `handlers` the event handlers it and its
predecessor's tail have registered, `channel` the one place of `waitCh`.

### StoreSchema and StoreOpen

`StoreSchema` is the text of the schema, without state: `SchemaMigrations` lists every numbered
migration as its statements, `CurrentSchema` the guards after them, `Program` both in the order of
`ensureSchema`, `Released` the stores of earlier releases. `StoreOpen` runs a `Script` of such
statements (the runs give it `Program`; the theorem holds for any). A process takes one statement at a
time (`at`, and `sub` for the statements a check leads to), and may die between any two. A store
is its tables, columns, migration rows and the contents that a migration moves.

### Session, Presence, Webhook

`Session`: `obs` is `sessionObservation` without its channel, `token` that channel, `gate` the
`connectGate`, `pc` the requests in `App.Connect`; `calls` are whatsmeow's events that are under
way, each of the device it was sent for. `Presence`: `call` is where each callback is inside
`syncPresence`, `mu` its mutex, `renewal` the goroutine that `renewPresenceWatches` starts and
`stopRenewal` waits for. `Webhook`: `pc` is where the handler of each event is, `jobs` the
channel, `worker` what `runSyncWebhookWorker` does, `sync` the deferred stop.

### StoreAccess

`pc[p]` is where a run of wacli is: before its first dial (`StartKind`), at the pin
(`StoreIsDelegateOnly`, `OpenPinned`), at the lock, connecting, serving, at its own work, or
waiting for the daemon's answer. `path` is the socket file: a name, which the stop of one
daemon and the start of the next both remove without asking whose it is. `Kill` ends a process
anywhere; its lock and connection go with it and its socket file stays. `ran` counts how often a
call's request was executed, on either side. That the operator re-pairs with `auth`, or moves
the pin, is a step of its own.

## 4. Runs

Some configurations check one module each, with an MC module of its own or none; `sync`, `store`,
`tables` and `requests` use compositions, which `SyncParts` (`SyncLoop`, `Webhook`, `Backfill`),
`StoreParts` (`MessageStore`, `LidMigration`, `ReadState`, `ChangeJournal`, `Polls`, `StoreOpen`) and
`RequestsParts` (`StoreAccess`, `Session`, `MessageMedia`, `Presence`, `GroupInfo`) put together. There
`part` says which module a behaviour is one of: it is chosen initially and never changes, the
variables of the other modules rest, and a property says `part = "..." =>` where the module is an
INSTANCE. The modules share no state there, so such a run is the union of the runs of its modules,
no product. (`mode`, `live` and `cmd` of `MessageStore` serve `LidMigration` and `ReadState` as well,
whose variables of these names play the same role.) `StoreParts` has a constant `Parts`, by which
`store` takes the first three modules, with symmetry, and `tables` the last three. The
theorems are about these compositions and about each module by itself, so that the runs check the
very definitions that the theorems state.

| Run | Question | Result |
|---|---|---|
| `guard` | at most one delivery per id, records, true answers; every accepted request ends | holds |
| `guard_forward` | is a delegated forward with a failed store write remembered? (`docs/sync.md:145`) | no: `resultResponse` drops the warning; the retry sends again |
| `sequencer` | implements `OrderedWrites` (order, no lost task, what a wait and Close promise); a local write sees the live events behind it; every wait ends, Close returns | holds |
| `server` | nothing starts for a caller that gave up, sends keep their gap, slots are given back, the command's belief is true | holds |
| `server_stop` | requests while the sync ends: a stop that drained leaves nobody behind | holds |
| `media_queue` | the fence passes only when nothing is left, nobody works after the return, "fresh" is complete, the sync returns | holds |
| `sync` | `SyncLoop`: never waits without a connection, closes none for an older one's report, a logout wins and ends it; `Webhook`: every event accounted for, nobody waits for the receiver; `Backfill`: replies find a listener and count when stored | holds |
| `recovery` | no mutation behind whatsmeow's cursor is forgotten, at any moment and through crashes; every ticket of the sequencer has somebody to complete it | holds, but for the case below |
| `store` | `MessageStore`: newest content, purge, deletions keep content; `LidMigration`: purge, newest content and files survive the merge; `ReadState`: what no read has reached, or found without content, is counted, and a marker stays until the last readable message is read | holds |
| `tables` | `StoreOpen`: what opens is complete, a lone open never fails, debts and identity survive; `Polls`: the tally; `ChangeJournal`: a consumer that replayed everything shows what the store shows, an export is one state | holds |
| `requests` | `GroupInfo`, `MessageMedia`, `Session`, `Presence`, `StoreAccess`: see the properties' comments | holds |
| `journal_purged` | does a consumer that is up to date mirror the store when the LID chat of a purged message was cleaned up? (`docs/messages.md:69`, `:77`) | no: the merge blanks the row and tells nobody |

Some properties name several promises of one module that one mutant of the code can break
(`RequestsAreKnown`, `EndIsQuiet`, `MergeKeeps`, `TallyIsRight`, `ReconnectsAreDue`, ...): their
conjuncts are named definitions with comments of their own in the module.

The two "no" answers are listed under "findings" with the line that says otherwise.

The exception in `recovery` is the history variable `exposed`. It is set at three steps:
when an attempt goes on to its next step although its intent is gone or its own continuation
may still clear it; when a capture begins while another snapshot's completion is not
dispatched yet (`handle` does not compare the request, so the capture takes it for its own); and
when a live event's intent cannot be stored, its write fails and the second try of the intent
fails too, which is three failing store calls and out of the run's reach (not the proof's). From
then on `DebtKept` says nothing, and the run does not look further (`Beyond`); up to then it
holds in every state. The history variables `raced` (`GroupInfo`, `Polls`), `withdrawn` (`Polls`) and
`alone` (`StoreOpen`) play the same part for the differences listed below.

### Differences without a run

Found while modelling, each a counterexample TLC gives when the property is
stated, or read off the model:

*Sync and app state*

* Without `--download-media` the end of a one-shot sync looks at app state writes
  and at failures so far, not at handlers under way (`sync.go:272`). A handler that works
  longer than `--idle-exit` is overtaken: success is recorded, and its write may fail after that.
  `retrieval_cli_test.go:458`: "A failed canonical message write cannot establish successful
  freshness."
* With `--stale-threshold`, a connection lost just after its keepalive failed leaves two
  tokens. For the second the loop stores `connectionEpoch` again (`sync_idle.go:71`) though the
  new socket is in place; if the peer goes away before its first keepalive, every report is
  dropped as an old one (`sync_idle.go:46`). `docs/sync.md:65` says that sync then reconnects.
* A snapshot step that times out leaves a continuation under the attempt's own generation
  (`chat_state.go:505`), and the attempt goes on to a full sync. If the snapshot comes
  meanwhile, the continuation clears the generation (`chat_state.go:705`), the only intent of
  the full sync, whose mutations are past whatsmeow's cursor: a crash loses them.
  `docs/sync.md:57`: "interrupted work is replayed at the next startup".
* The ticket of a snapshot is reserved when its last event is dispatched, so that it is never
  written after a newer live event (`chat_state.go:545`). A fetch reserves its ticket before it
  fetches (`chat_state.go:724`): a live event dispatched between the two takes a later
  ticket, and overwrites the newer state that the fetch brings.
* The comment at `chat_state.go:848` explains why an own write keeps its intent:
  whatsmeow dispatches the write's events after the send has returned. `StarMessage`,
  `DeleteMessageForMe` and `DeleteChatRemote` (`chat_state.go:111-157`) send without one.

*Sends*

* `pending_sends.go:21` calls a row in state `done` a stored message. A command
  that fails between the guard and the send (`send.go:124`) closes its row as
  `done` too: nothing was sent, and the retry sends, but the row says otherwise.
* `docs/sync.md:144` says that `id_reused` means another message. The daemon
  and the direct path hash different fields (`delegate_idempotent.go:35`), so the
  retry of the same request over the other path is refused as another message.
* The same line says that `already_sent` means the same message. Only text
  requests are compared with the stored message (`delegate_idempotent.go:119`).

*Messages, polls and the journal*

* `docs/messages.md:74` speaks of an edit-order timestamp. An own edit is stamped when it is
  stored (`messages.go:264`), an edit from another device with the time it was sent, so an
  own edit that was sent first and stored last hides the later one for good.
* `CHANGELOG.md:32` says that an empty copy leaves a message's content alone. The
  live handler checks that (`sync_events.go:619`) before it stores; history (`sync_events.go:774`)
  does not, and may also store between the handler's check and its own store. The
  retry of a counted message that history emptied is counted again, and the code's own comment
  (`sync_events.go:614`) means to prevent that. If a read of earlier
  messages finds it empty, the counter is lowered past it, and when history fills the row again it
  is readable, unread and not counted: `ArrivalsStayUnread` exempts it (`Covered`), although
  `docs/chats.md:32` says that arrivals beyond a boundary remain unread.
* A withdrawn vote leaves no time behind (`polls.go:267`): an older ballot that arrives later (a
  history sync, the row of the other name) is counted. `polls.go:25` calls the row the voter's
  latest vote.
* FTS: a death between `CREATE messages_fts` and its fill leaves the old messages out of the
  search index for good (`migrations.go:1020`). `docs/spec.md:50` says that the index has
  every message's text.
* A death between adding `chats.unread_count` and filling it loses the legacy counts
  (`migrations.go:778`); `schema_test.go:327` tests the migration that is not interrupted.
* Commands that only read open the store without the lock (`root.go:196`) and still migrate, so
  an open beside another one may fail. It can be repeated (`OpensComplete`).

*Read state, groups, media*

* `mark-read --receipts` takes the newest `unread_count` rows for the unread ones
  (`read_receipts.go:88`); after an older message was stored live, the clear covers messages no
  receipt was sent for. `docs/chats.md:57`: "unsent messages and arrivals during dispatch remain
  unread". Mark-read of a chat with no stored row clears what arrives meanwhile
  (`docs/chats.md:32`).
* A groups refresh that fetched before `groups leave` shows the group again
  (`delegate_groups.go:374`, `docs/groups.md:37`).
* A download renames its file into place (`wa/media.go:117`) before its row names it
  (`app/media.go:255`). Published before a crash, or while a deletion lists the files
  (`delegate_messages.go:247`, `:258`), the file is named by no row, and the purge
  (`messages_purge.go:69`, `docs/messages.md:173`) leaves it; a row may also keep a path to a
  file that is gone, or both a path and `media_unavailable_at`.
* A media retry whose second receipt fails overwrites a notification that came meanwhile
  (`media_retry.go:279`).
* The handler of a backfill stores and deletes every on-demand blob, also those another chat's
  backfill asked for while this one's tail lasts (`backfill.go:141`). The comment at
  `backfill.go:167` means to prevent that for one chat.

*Connections*

* A delegated presence subscribe may go out after the sync has shown the device as unavailable,
  since the server stops later (`sync.go:207`, `cmd/wacli/sync.go:97`). A subscribe on one
  connection that is remembered after the next connection's renewal has listed the users
  is not renewed on it (`docs/presence.md:23`).
* A `Disconnected` callback delivered after the next connection's `Connected` un-confirms it, a
  delayed `Connected` of an earlier connection confirms a new one early; a marker that cannot
  be written leaves a stale session that is reported as authenticated.
* At the end of a sync, events that are still in the webhook's channel are lost without a
  warning (`docs/sync.md:45` warns of a full queue).
* The comment at `delegate_kinds.go:193` says that the daemon answers if it started after the
  first dial. While it holds the lock and has no socket yet, the call is refused.

### Bounds

* `SendGuard`: two attempts under one id. A third attempt meets the
  same records as the second, which is why the proofs need no bound at all. Two
  messages that differ in kind: a text and a file, whose store write is inside the
  goroutine. Everything else (crashes, restarts, row ageing, clears, changes of the
  stored message) is unbounded.
* `AppStateSequencer`: three tickets of all four kinds. A drain, a hand-off
  behind it and a wait that reaches over a live event fit into three; safety is
  proved for any number.
* `MessageStore`: two seconds, an edit in the first and one in the second, one own
  edit, an original with and without content. Equal, earlier and later
  times all occur; every copy may be repeated for ever. `FromMe` is TRUE, since
  commands only touch own messages; the handlers' other case only allows
  more empty copies to pass, which history already does.
* `DelegateServer`: two requests, which is one that holds and one that waits; two budgets,
  one whose margin covers the lag of timers and one whose margin does not (for
  that one the late start of a bulk request is allowed, sends have a check of the
  clock). `Share` is a tenth in the code, and a half here, so that both
  branches of the minimum occur with small times. The clock ends at `MaxTime`; a
  request is only made if its deadline lies before it, and the grace of the stop is cut there.
  In `server` the grace is longer than the clock, so the sync does not end; its
  requests are a send, a bulk one and one without a slot. `server_stop` has a send and an app
  state request, one budget and a short clock.
* `MediaQueue`: two events, two workers, a channel of one, two jobs. A handler stands
  in front of the full channel while another one ends and a worker is gone.
* `AppStateRecovery`: two chats and two mutations, so that one mutation may replace the other
  or not; three intents known at once (an earlier one, the attempt's, and a live event's); one
  unanswered request; two failing store calls. A live event whose intent cannot be stored, whose
  second try fails too and whose write then fails as well would need three.
* `LidMigration`: the two names of one message, one original, an edit in
  its second and one in a later second, its purge under either name. `ChangeJournal`: one message under two names, two contents, a journal that keeps
  two entries and pages of one, so that a reader falls behind and an export has several
  pages; four entries ever in `tables`, five in `journal_purged`; none of them is in the theorems. `CleansPurged = FALSE` keeps the chat clean-up away from chats with a
  purged message: `journal_purged` is the same module without that bound.
* `Polls`: the contact's ballot, its change for an option added later, and an own vote, which is
  sent once (every vote is a message with an ID of its own).
* `ReadState`: two messages of one second and a later one, reports of none and one. One receipt at a
  time: the limit leaves unread messages beyond the one that is acknowledged. `MaxCount`, two: an
  arrival is counted up to there, since messages that are emptied and retried would raise the
  counter for ever. Two messages are owed at once, within one second or beside a later one, and a
  third waits; the theorem holds for any bound.
  `GroupInfo`: two goroutines (live, history), two versions of the group, one
  disturbance besides. `MessageMedia`: two messages in batches of one; the retry command
  alone, and the daemon's actors in the pairs that share a row or a file (`Casts`), because
  with all of them the states are too many and a third only repeats what one of the pair does.
  `Backfill`: a chat with two names of which the phone answers the second, and a group; two batches, two
  runs, two replies under way.
* `StoreOpen`: an empty store, stores of five releases, three pre-release forms and one with
  tables lost, each opened by one process that may die twice; and by two processes where most
  migrations are done, so that every pair of the remaining statements meets (`Casts`).
* `Session`: two pairings, two requests, three processes, one lost connection and one failed
  write of the marker. `Presence`: two requests, two connections and a push name, two
  remembered users besides an earlier one, one loss. `Webhook`: five events that differ in
  kind, id and selection, a channel of one.
* `StoreAccess`: two daemons with two other processes, in the groups whose paths meet
  (`Casts`), one change of the pin and one kill. Safety is proved for any number of all.
* `SyncLoop`: one callback of each kind under way at a time, besides the token
  it may already have left; reports are not bounded (they differ in two bits).

## 5. Fairness

* `SendGuard`: weak fairness of each handler and of the end of each context: a
  command's context has a timeout, the server gives every request a deadline.
  The network, the server and the send goroutine are owed nothing; `AwaitTimeout`
  alone must carry the property.
* `AppStateSequencer`: weak fairness of the drain, of every holder and of
  Close: goroutines of a running process, and each holder completes its
  ticket (an event handler right away, a fetch when its context ends at the
  latest, a snapshot when `stop` releases it).
* `DelegateServer`: time passes, the accept loop, `stop` and the handlers run. A
  handler owes nothing while it reads its request or executes it, and a client
  nothing at all.
* `MediaQueue`: goroutines run, a store call and a download end (a download's context
  ends with the workers'), and time passes. No event has to arrive.
* `SyncLoop`: callbacks and the loop run, a dial whose context has ended returns,
  and a `select` that finds a channel ready again and again takes from it (strong
  fairness of `TakeLoggedOut`: Go chooses among ready cases at random). The
  network owes nothing.
* `Webhook`: handlers return, the worker takes jobs and a post ends by its own timeout
  (`PostFails`), the stop runs; the worker's return is strongly fair, because a `select` that
  finds the context done again and again takes it. The receiver owes nothing.
* `MCSync` states the fairness of `SyncLoop` and `Webhook` for the part that runs.
* `AppStateRecovery` states invariants only: that a repair ends well is the phone's to say.
* `MessageStore`, `LidMigration`, `ChangeJournal`, `Polls`, `ReadState`, `GroupInfo`, `MessageMedia`,
  `Backfill`, `StoreOpen`, `Session`, `Presence` and `StoreAccess` have safety only: what would have
  to happen is the operator's, the network's or the phone's to do.

## 6. Proofs

All proofs are by TLAPS for every value of the constants, under the named
assumptions in the modules. Each component has one inductive invariant, `IInv` in the first
module of a `_proofs` module and one named after the part (`LidInv`, `PollInv`, ...) for the modules
proved beside it; the listed theorems follow from it. The parts that were not obvious were checked
by TLC first. A theorem about a part has two halves: the module's own `Spec` keeps the promise, and
so does the composition that the run checks (a step of it is a step of the part, or leaves it).

* `SendGuard_proofs`. `IInv` is types, *who holds what* (a running handler has the
  lock or the slot, and only one can), *what a goroutine's place says about its
  frame*, *what the handler's place says about its row* and *memory*: for each id
  that is still promised, a frame that is out implies a record, and if no
  attempt is between row and finish then the record is a final one. Without
  the third part `DeliveredIsRemembered` is not inductive: `Finish` removes rows,
  and has to know that no frame is behind them. Assumptions: "" is a text, messages have a
  known kind, "none" and "daemon" are not names of attempts.
* `AppStateSequencer_proofs`. `IInv` is types, at most one drain and what its
  place says, the task map against `serving` and `next`, the log against
  `serving`, no stall, and the waiters' frontiers: a frontier lies in front of everything
  dispatched while the waiter's own task was prepared, which gives `SeesLiveEvents`. The
  refinement of `OrderedWrites` is proved step by step: completions hand in, `DrainRun`
  applies, `WaitLook` returns, `CloseLook` closes, all else stutters. Assumptions: the number of
  tickets is a natural number, the kinds of holders are the four.
* `MessageStore_proofs`. `IInv` says the row is *good* for the content merged into
  it: a visible row shows an edit iff there is one, and then the latest; without
  one it shows an original at its own time; a tombstone has content
  unless none came. Each statement of `MessageRow` preserves *good*, for all rows
  and copies; the steps of the system only pick the statement. The two action
  properties follow from what one statement can do to a row (`StatementFinal`,
  `StatementKeepsContent`). Assumptions: edits are not empty and not before the original.
* `StoreAccess_proofs`. `IInv` is types, *who has taken the lock and not given it back is its
  holder*, *who is connected is between its connect and its disconnect*, *a daemon that serves has
  the socket*, and for each call how often it ran against where it is (`CallsCount`). The first
  two give one connection; with the first, no other daemon is between its sweep and its last
  removal, which is what keeps the socket. `CallRunsOnce` needs `CallsCount`: what the caller is
  told only follows from where it stood. Assumption: "none" and "stale" name no process.
* `DelegateServer_proofs`. `IInv` is types, *what the command was told against where its handler
  is* (`AnswerInv`), *the deadline against the caller's patience* (`TimeInv`), the contexts
  (`LiveInv`), slots and the gap behind the last send (`SlotInv`, `GapInv`), and the wait group,
  which counts the handlers (`CountInv`). `TimeInv` carries `RequestsAreKnown`: a handler that waits
  moves at most `Lag` after its deadline, and for a budget whose margin covers that (`Covered`) the
  caller still listens. `StartsAreDue` is about one step and needs the gap and the contexts as they
  are before it. Assumptions: the kinds are the known ones, times are natural numbers, the
  smallest gap is not above the largest.
* `MediaQueue_proofs`. `IInv` is types, *the counters are the cardinalities of what they count*
  (`CountInv`), *no jobs without `--download-media`* (`MediaInv`), *nothing is left behind the fence,
  and a clean end has passed it* (`FenceInv`) and what is over after the return (`EndInv`). The
  counters are why the fence may look at two numbers instead of at the handlers.
  `FreshIsComplete` is proved for `Media` only; without it, section 4 has the
  counterexample. Assumptions: finitely many events and workers, a channel with a place.
* `SyncLoop_proofs`. `IInv` is types, `WakeInv` (where the loop waits without a connection, a token
  is there or a callback or whatsmeow's own redial is under way; a replaced stream is open only
  while its callback is) and `FreshInv` (a report that is not from before the epoch is about
  the connection that is there). `NeverAsleepDisconnected` is the first half of `WakeInv`;
  `ReconnectsAreDue` needs `FreshInv` for the stale reports. Assumption: `MaxCalls` is a number.
* `AppStateRecovery_proofs`. No assumptions, and no step uses the module's bounds. `IInv` is
  types without bounds, the existence of a next id, *owners* (who waits for which ticket,
  which attempt a capture belongs to, at most one open ticket for each owner), *order* (an attempt is
  newer than every continuation), *the late snapshot*, and `Debts`, which is the argument for
  `DebtKept`. `DebtKept` itself speaks of the present and says nothing of the next clearing of
  intents. A *threat* is a generation by which a continuation, a capture or an attempt may yet
  clear every older intent. `ThreatsHeld`: for each threat, the last mutation of every chat behind the
  cursor is saved, will be dispatched, or is remembered by a younger intent, which a live event's
  task clears only with the mutation written. `FetchedHeld` and `DegradedHeld` say the same of an
  attempt that has fetched, and count what its own queued task will write. `AttemptFree` and `SendFree` say that an attempt's and a send's own intent is
  newer than every threat: a fetch moves the cursor past all mutations at once, and from then on
  that intent alone remembers them. All of `Debts` holds under `~exposed`; the three steps that set
  it are exactly those at which one of the parts would break.

Beside `SyncLoop`, in `SyncLoop_proofs`:

* `Webhook` (`HookInv`): no event has two places among channel, worker, posted and warned; a handler
  forwards only what it stored, and after its return an eligible event has a place while the
  context lives. Assumptions: the channel has a place, "idle" and "gone" name no event.
* `Backfill` (`FillInv`): somebody listens for every chat that is due (`ListenInv`), and what a waiter
  is told of a reply is stored (`BatchInv`): replies are at most one batch ahead of the rows. Without
  the second, progress could be judged on what was never written.

Beside `StoreAccess`, in `StoreAccess_proofs`:

* `Session` (`LoginInv`): a `Connected` event that may still clear the marker is of a device whose
  logout nobody recorded (`LogoutsHold`), and a waiter whose answer is there has a token (`OneWaits`).
  Assumption, here and for `Presence`: "free" names nobody.
* `MessageMedia` (`MediaInv`): an answer "not found", on its way or noted, is only about media the phone
  does not hold.
* `Presence` (`WatchInv`): who is past the look at `cleanupStarted` holds the mutex, and the cleanup
  found it free; a renewal that nobody refers to is over or waited for.
* `GroupInfo` (`GroupInv`): the answer in the cache, or fetched for it, is no older than the last notice
  heard. Assumption: finitely many goroutines, so that a free answer can be found.

Beside `MessageStore`, in `MessageStore_proofs`:

* `ReadState` (`ReadInv`): what is owed is counted, but for one message whose handler is between
  the store and the increment (`OwedIsCounted`). A read may only lower the counter to the readable
  rows beyond it, so what it finds without content is owed no more. The counting is about cardinalities of any finite `M`.
* `LidMigration` (`LidInv`): ledger, rows, paths, aliases and the files on disk agree between any two
  steps of the migration, of downloads and of purges; each row is *good* as in `MessageStore`, with
  media and without an original at its own time. The kinds of rows (`Own`, `Other`) are parameters
  of *good*, so that both modules use the same lemmas about `MessageRow`.
* `ChangeJournal` (`JournalInv`): for each name the consumer's mirror is right, or an entry behind its
  position makes it look again, or the floor has passed it (`Mirrors`); a page read earlier may
  have been removed from the journal since, and then lies below the floor (`Processing`); and
  whatever the archive shows was recorded after every entry that would clear it (`ShownAreRecorded`).
  The last is false if clean-ups meet purged chats, which is the finding of `journal_purged`, and
  the theorems say `CleansPurged <- FALSE`. Trimming is by numbers, so the proof needs that a finite set
  of numbers has a greatest one; the cap, page size and number of entries are arbitrary.
  Assumptions: contents are none of the row's marks, a page has an entry.
* `StoreOpen` (`IsStore`): a store keeps its fields. That no statement forgets a debt or changes the
  identity is then a fact about each statement, for any script, any number of processes and any
  point of death. Assumption: stores are records with these fields.
* `Polls` (`PollInv`): under each name, also before the merge, a purge holds (`PollPurgesHold`), a
  contact's choice is among the options it will be looked up in (`ChoicesAreOffered`: under the LID
  those of either name, since the merge joins them), a stored vote was cast, and the newest cast
  ballot is stored under some name or was withdrawn (`NewestIsKept`), unless one of them was purged.
  `TallyIsRight` speaks of the merged state only; the merge shows why it needs the rest.
  Assumptions: times are natural numbers, ballots' messages are neither the poll's nor none.

The type invariants (`TypeOK`; `AppStateRecovery` without its bounds) are theorems or parts of `IInv`, and not repeated in
the runs.

## 7. Only model-checked

* `OpensComplete`. It is about the very list of statements in `StoreSchema`: an induction over
  that list, which the provers do not do, while TLC runs it from every store of `Casts`, with a
  death after any statement.
* Liveness (`EveryRequestEnds`, `EveryWaitEnds`, `CloseEnds`, `SyncReturns`, `LogoutEnds`,
  `SyncGoesOn`), since the prover does not treat fairness.
* The negative answers, which are counterexamples.

Every other property of the runs is stated by a theorem.

## 8. Left out, and why

* In the modelled parts: edits from elsewhere with empty text (WhatsApp does not
  make them); clocks of two devices that disagree; two unedited copies of one
  message with different times (each carries the server's); the 20 minute edit
  window; stars, which carry no content; requests of older
  clients that send no deadline of their own; in `MediaQueue`, reconnects (a lost
  connection stays lost, reconnecting is `SyncLoop`'s) and the freshness record of
  `OfflineSyncCompleted`; in `SyncLoop`, bans and outdated clients (whatsmeow
  reports them by events that this code has no handler for).
* In `AppStateRecovery`: stars, deletions for me and remote chat deletions; several
  collections (they share the sequencer only); a failing deletion of an intent, which leaves
  one too many; a task that writes half of its events (it counts as failed); the delays
  between attempts. `App.Close` is `LateExpires` followed by `Crash`. Assumed of whatsmeow:
  it dispatches what it has fetched before it fetches again. Assumed of a crash: it
  does not fall between whatsmeow's step of the cursor and the handler's intent, which no code
  of this repository could close.
* A consequence of the fence, by design: an event that arrives after it is acknowledged
  to WhatsApp and not stored.
* In the newer modules: several groups, chats or polls at a time, where one does not touch
  another's rows; indexes and triggers as objects of a store (`StoreOpen`); the retention's
  clock (`aged` of `ChangeJournal` is any prefix); presence of others, which is printed and not
  stored; the QR code and the pairing handshake; what the receiver of a webhook does with it;
  which rows `media retry` and `media backfill` select; `auth --follow`, which is refused on a pinned
  store and is a daemon without a socket elsewhere.
* Calls (`store/calls.go`): upserts keyed by call that nothing else reads or waits for. Contacts,
  channels, labels, receipts of own messages: one upsert each.
* Not modelled: command parsing, output, configuration files, path handling,
  search and statistics queries, the parsing of protocol
  messages and the release scripts: pure functions, single writers or I/O, where
  a unit test says all there is to say. whatsmeow and the WhatsApp server are external and
  appear only as the choices their users have to cope with.
* The generated query code (`storedb/queries.sql.go`), the command files (`send*.go`, `poll_cmd.go`) and
  the client wrapper are the largest part of the source that no definition stands for: most of
  their lines are scanning of columns, flags and calls with one outcome.
