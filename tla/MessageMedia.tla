---------------------------- MODULE MessageMedia ----------------------------
(***************************************************************************)
(* The media of stored messages: the row (local_path, media_unavailable_at,*)
(* deleted_at), the file under the store's media directory, the server     *)
(* that serves the stored path for a limited time and the phone that can   *)
(* upload the media again for as long as it holds it.                      *)
(*                                                                         *)
(* One process owns the store: the sync daemon, with a download worker,    *)
(* the exact download and the deletion of messages, or a command (media    *)
(* retry, messages purge) alone.  A read-only download needs no lock and   *)
(* copies a recorded file while anyone changes it.  Every file appears     *)
(* whole, by a rename; its row is updated after that, in a statement of    *)
(* its own, whatever the row has become.                                   *)
(***************************************************************************)
EXTENDS Integers, FiniteSets

CONSTANTS Msgs,
          Casts,      \* bound: the sets of actors that act together, out of
                      \* "worker", "exact", "retry", "removal" and "copy"
          Batch,      \* --batch
          MaxAnswers, \* bound: answers of the phone on their way
          MaxRuns,    \* bound: retries and exact downloads
          MaxDamage   \* bound: files somebody else damages

VARIABLES
  row,      \* [Msgs -> [path, gone, deleted, purged: BOOLEAN]]
  file,     \* [Msgs -> "none", "whole" or "bad"]
  served,   \* the messages whose stored path the server still serves
  held,     \* the messages whose media the phone holds
  owner,    \* who holds the lock: "sync" or "command"
  jobs,     \* the messages queued for the worker
  worker,   \* the download at work, or Off
  retry,    \* retryMedia at work, or Off
  notifs,   \* its notification map: [Msgs -> an answer or "none"]
  answers,  \* the phone's answers on their way: <<message, answer>>
  removal,  \* a delete-for-me --delete-media, or a purge, at work, or Off
  copy,     \* the read-only download at work, or Off
  out,      \* [Msgs -> the caller's own output: "theirs", "whole" or "bad"]
  runs, damage,
  cast      \* the actors of this behaviour

store == <<row, file>>
world == <<served, held, answers>>
vars == <<row, file, served, held, owner, jobs, worker, retry, notifs, answers,
          removal, copy, out, runs, damage, cast>>

Off == [at |-> "off"]
NoAnswers == [m \in Msgs |-> "none"]
Fresh == [path |-> FALSE, gone |-> FALSE, deleted |-> FALSE, purged |-> FALSE]

Init ==
  /\ row = [m \in Msgs |-> Fresh] /\ file = [m \in Msgs |-> "none"]
  /\ served = Msgs /\ held = Msgs /\ answers = {}
  /\ owner \in {"sync", "command"}
  /\ jobs = {} /\ worker = Off /\ retry = Off /\ removal = Off /\ copy = Off
  /\ notifs = NoAnswers
  /\ out = [m \in Msgs |-> "theirs"]
  /\ runs = 0 /\ damage = 0 /\ cast \in Casts

-----------------------------------------------------------------------------
(* Files and rows. *)

\* The rename of a verified temporary file: readers of the old one keep it.
Publish(m) ==
  /\ file' = [file EXCEPT ![m] = "whole"]
  /\ copy' = IF copy # Off /\ copy.msg = m THEN [copy EXCEPT !.linked = FALSE] ELSE copy

Remove(m) ==
  /\ file' = [file EXCEPT ![m] = "none"]
  /\ copy' = IF copy # Off /\ copy.msg = m THEN [copy EXCEPT !.linked = FALSE] ELSE copy

\* DownloadMediaToFile from the stored path, DownloadRetriedMediaToFile from a
\* new one: what does not decrypt to the message's digest is not published.
FetchStored(m) == m \in served /\ Publish(m)
FetchUploaded(m) == Publish(m)
FetchFails == UNCHANGED <<file, copy>>     \* network, digest or size limit

\* Each by key alone, whatever was read before.
MarkMediaDownloaded(m) == row' = [row EXCEPT ![m].path = TRUE, ![m].gone = FALSE]
MarkMediaUnavailable(m) == row' = [row EXCEPT ![m].gone = TRUE]
ClearMessageLocalMedia(m) == row' = [row EXCEPT ![m].path = FALSE]
MarkMessageDeletedForMe(m) == row' = [row EXCEPT ![m].deleted = TRUE]
PurgeMessage(m) == row' = [row EXCEPT ![m] = [path |-> FALSE, gone |-> FALSE, deleted |-> TRUE, purged |-> TRUE]]

\* ListPendingMediaDownloads, ListPendingMediaBefore: what has metadata and no
\* copy, is not deleted and not known to be gone.
Pending == {m \in Msgs : ~row[m].path /\ ~row[m].deleted /\ ~row[m].gone}
HasMetadata(m) == ~row[m].purged

-----------------------------------------------------------------------------
(* The sync daemon's worker: live media, and media backfill. *)

Enqueue(m) ==
  /\ "worker" \in cast /\ owner = "sync" /\ m \notin jobs
  /\ jobs' = jobs \cup {m}
  /\ UNCHANGED <<store, world, owner, worker, retry, notifs, removal, copy, out, runs, damage, cast>>

\* downloadMediaJob: looks at the copy and the metadata, not at the deletion.
TakeJob(m) ==
  /\ owner = "sync" /\ worker = Off /\ m \in jobs
  /\ jobs' = jobs \ {m}
  /\ worker' = IF row[m].path \/ ~HasMetadata(m) THEN Off ELSE [at |-> "fetch", msg |-> m]
  /\ UNCHANGED <<store, world, owner, retry, notifs, removal, copy, out, runs, damage, cast>>

JobFetches ==
  /\ worker.at = "fetch"
  /\ \/ FetchStored(worker.msg) /\ worker' = [worker EXCEPT !.at = "record"]
     \/ FetchFails /\ worker' = Off
  /\ UNCHANGED <<row, world, owner, jobs, retry, notifs, removal, out, runs, damage, cast>>

JobRecords ==
  /\ worker.at = "record"
  /\ MarkMediaDownloaded(worker.msg)
  /\ worker' = Off
  /\ UNCHANGED <<file, world, owner, jobs, retry, notifs, removal, copy, out, runs, damage, cast>>

-----------------------------------------------------------------------------
(* The exact download, --retry-on-phone, in the daemon. *)

\* executeExactMediaDownload: a verified copy is the answer.
ExactDownload(m) ==
  /\ "exact" \in cast /\ owner = "sync" /\ retry = Off /\ runs < MaxRuns
  /\ runs' = runs + 1
  /\ ~(row[m].path /\ file[m] = "whole") /\ HasMetadata(m)
  /\ retry' = [at |-> "server", keys |-> {m}, rest |-> {}, todo |-> {}, batch |-> {m}, again |-> FALSE]
  /\ UNCHANGED <<store, world, owner, jobs, worker, notifs, removal, copy, out, damage, cast>>

ExactServer ==
  /\ retry.at = "server"
  /\ \E m \in retry.batch :
       \/ /\ FetchStored(m)
          /\ retry' = [retry EXCEPT !.at = "record"]
       \/ /\ m \notin served                  \* 403, 404 or 410: ask the phone
          /\ retry' = [retry EXCEPT !.at = "send", !.todo = {m}]
          /\ FetchFails
       \/ retry' = Off /\ FetchFails
  /\ UNCHANGED <<row, world, owner, jobs, worker, notifs, removal, out, runs, damage, cast>>

ExactRecords ==
  /\ retry.at = "record"
  /\ \E m \in retry.batch : MarkMediaDownloaded(m)
  /\ retry' = Off
  /\ UNCHANGED <<file, world, owner, jobs, worker, notifs, removal, copy, out, runs, damage, cast>>

-----------------------------------------------------------------------------
(* media retry: retryMedia. *)

Exact == owner = "sync"
Missing(keys) == {m \in keys : notifs[m] = "none"}

\* retryMedia returns, and its notifications go with it.
RetryReturns == retry' = Off /\ notifs' = NoAnswers

\* What cannot be addressed (a group without info, a lost sender) is dropped.
Addressable(pending) == SUBSET pending \ {{}}

RetryMedia ==
  /\ "retry" \in cast /\ owner = "command" /\ retry = Off /\ removal = Off /\ runs < MaxRuns
  /\ runs' = runs + 1
  /\ \E keys \in Addressable(Pending) :
          retry' = [at |-> "batch", keys |-> keys, rest |-> keys, todo |-> {}, batch |-> {}, again |-> FALSE]
  /\ UNCHANGED <<store, world, owner, jobs, worker, notifs, removal, copy, out, damage, cast>>

NextBatch ==
  /\ retry.at = "batch"
  /\ IF retry.rest = {} THEN RetryReturns
     ELSE /\ \E batch \in SUBSET retry.rest :
               /\ batch # {} /\ Cardinality(batch) <= Batch
               /\ Cardinality(batch) = Batch \/ batch = retry.rest
               /\ retry' = [retry EXCEPT !.at = "send", !.rest = @ \ batch,
                                         !.todo = batch, !.batch = batch, !.again = FALSE]
          /\ UNCHANGED notifs
  /\ UNCHANGED <<store, world, owner, jobs, worker, removal, copy, out, runs, damage, cast>>

\* sendReceipt.  A receipt that cannot be sent counts as a notification, in
\* the place of one that came meanwhile.
SendReceipt(m) ==
  /\ retry.at = "send" /\ m \in retry.todo
  /\ retry' = [retry EXCEPT !.todo = @ \ {m}]
  /\ \/ /\ Cardinality(answers) < MaxAnswers
        /\ \E a \in {"refused", IF m \in held THEN "uploaded" ELSE "not_found"} :
             answers' = answers \cup {<<m, a>>}
        /\ UNCHANGED notifs
     \/ UNCHANGED <<answers, notifs>>         \* a silent phone
     \/ notifs' = [notifs EXCEPT ![m] = "failed"] /\ UNCHANGED answers
  /\ UNCHANGED <<store, served, held, owner, jobs, worker, removal, copy, out, runs, damage, cast>>

Sent ==
  /\ retry.at = "send" /\ retry.todo = {}
  /\ retry' = [retry EXCEPT !.at = "wait"]
  /\ UNCHANGED <<store, world, owner, jobs, worker, notifs, removal, copy, out, runs, damage, cast>>

\* The event handler: the first notification for a message of this run.
Notified(a) ==
  /\ answers' = answers \ {a}
  /\ notifs' = IF /\ retry # Off /\ retry.at \notin {"server", "record"}
                  /\ a[1] \in retry.keys /\ notifs[a[1]] = "none"
               THEN [notifs EXCEPT ![a[1]] = a[2]] ELSE notifs
  /\ UNCHANGED <<store, served, held, owner, jobs, worker, retry, removal, copy, out, runs, damage, cast>>

\* One second attempt for those who did not answer, none for an exact one.
AskAgain == ~Exact /\ ~retry.again

\* waitForBatch returns: everybody answered, or --wait is over.
WaitEnds ==
  /\ retry.at = "wait"
  /\ retry' = IF Missing(retry.batch) # {} /\ AskAgain
              THEN [retry EXCEPT !.at = "send", !.todo = Missing(retry.batch), !.again = TRUE]
              ELSE [retry EXCEPT !.at = "classify", !.todo = retry.batch]
  /\ UNCHANGED <<store, world, owner, jobs, worker, notifs, removal, copy, out, runs, damage, cast>>

\* Mutant: any failed download of the stored path will do.
LostOnAnyError(m) == TRUE
\* isExpiredMediaDownload.
Expired(m) == m \notin served

Classified(m) == retry' = [retry EXCEPT !.todo = @ \ {m}]

\* classifyRetry: no answer, an error or a refusal change nothing; without a
\* copy on the phone the stored path is tried before the row is given up.
Classify(m) ==
  /\ retry.at = "classify" /\ m \in retry.todo
  /\ \/ /\ notifs[m] \in {"none", "failed", "refused"}
        /\ Classified(m) /\ UNCHANGED <<row, file, copy>>
     \/ /\ \/ notifs[m] = "uploaded" /\ FetchUploaded(m)
           \/ notifs[m] = "not_found" /\ FetchStored(m)
        /\ retry' = [retry EXCEPT !.at = "publish", !.todo = @ \ {m}, !.batch = {m}]
        /\ UNCHANGED row
     \/ /\ notifs[m] = "not_found" /\ Expired(m)
        /\ MarkMediaUnavailable(m)
        /\ Classified(m) /\ UNCHANGED <<file, copy>>
     \/ /\ notifs[m] \in {"uploaded", "not_found"}
        /\ Classified(m) /\ FetchFails /\ UNCHANGED row
  /\ UNCHANGED <<world, owner, jobs, worker, notifs, removal, out, runs, damage, cast>>

\* downloadMediaWithDirectPath records what it published.
RecordRetried ==
  /\ retry.at = "publish"
  /\ \E m \in retry.batch : MarkMediaDownloaded(m)
  /\ retry' = [retry EXCEPT !.at = "classify"]
  /\ UNCHANGED <<file, world, owner, jobs, worker, notifs, removal, copy, out, runs, damage, cast>>

BatchEnds ==
  /\ retry.at = "classify" /\ retry.todo = {}
  /\ IF Exact THEN RetryReturns
     ELSE retry' = [retry EXCEPT !.at = "batch", !.batch = {}] /\ UNCHANGED notifs
  /\ UNCHANGED <<store, world, owner, jobs, worker, removal, copy, out, runs, damage, cast>>

\* The context ends: what is being done is not finished.
RetryCancelled ==
  /\ retry # Off
  /\ RetryReturns
  /\ UNCHANGED <<store, world, owner, jobs, worker, removal, copy, out, runs, damage, cast>>

-----------------------------------------------------------------------------
(* messages delete --for-me --delete-media, and messages purge. *)

\* The row is loaded, then the app state is written: `had` is what was loaded.
DeleteForMe(m) ==
  /\ "removal" \in cast /\ owner = "sync" /\ removal = Off /\ ~row[m].deleted
  /\ removal' = [at |-> "list", msg |-> m, purge |-> FALSE, had |-> row[m].path]
  /\ UNCHANGED <<store, world, owner, jobs, worker, retry, notifs, copy, out, runs, damage, cast>>

Purge(m) ==
  /\ "removal" \in cast /\ owner = "command" /\ retry = Off /\ removal = Off /\ row[m].deleted
  /\ removal' = [at |-> "list", msg |-> m, purge |-> TRUE, had |-> row[m].path]
  /\ UNCHANGED <<store, world, owner, jobs, worker, retry, notifs, copy, out, runs, damage, cast>>

\* MessageLocalMediaPaths.
ListPaths ==
  /\ removal.at = "list"
  /\ removal' = [removal EXCEPT !.at = IF row[removal.msg].path THEN "unlink" ELSE "clear"]
  /\ UNCHANGED <<store, world, owner, jobs, worker, retry, notifs, copy, out, runs, damage, cast>>

\* deleteLocalMediaPathsIfRequested.  When it fails the row keeps its path and
\* is deleted (MarkMessageDeletedForMePreserveMedia), or is not purged.
Unlink ==
  /\ removal.at = "unlink"
  /\ \/ Remove(removal.msg) /\ removal' = [removal EXCEPT !.at = "clear"] /\ UNCHANGED row
     \/ /\ IF removal.purge THEN UNCHANGED row ELSE MarkMessageDeletedForMe(removal.msg)
        /\ removal' = Off /\ UNCHANGED <<file, copy>>
  /\ UNCHANGED <<world, owner, jobs, worker, retry, notifs, out, runs, damage, cast>>

Clear ==
  /\ removal.at = "clear"
  /\ IF removal.had /\ ~removal.purge THEN ClearMessageLocalMedia(removal.msg) ELSE UNCHANGED row
  /\ removal' = [removal EXCEPT !.at = "mark"]
  /\ UNCHANGED <<file, world, owner, jobs, worker, retry, notifs, copy, out, runs, damage, cast>>

Mark ==
  /\ removal.at = "mark"
  /\ IF removal.purge THEN PurgeMessage(removal.msg) ELSE MarkMessageDeletedForMe(removal.msg)
  /\ removal' = Off
  /\ UNCHANGED <<file, world, owner, jobs, worker, retry, notifs, copy, out, runs, damage, cast>>

\* The account's other devices delete too: handleDeleteForMeEvent.
DeletedElsewhere(m) ==
  /\ "removal" \in cast /\ owner = "sync" /\ ~row[m].deleted
  /\ MarkMessageDeletedForMe(m)
  /\ UNCHANGED <<file, world, owner, jobs, worker, retry, notifs, removal, copy, out, runs, damage, cast>>

-----------------------------------------------------------------------------
(* A read-only download to the caller's own output: CopyVerifiedMediaCache. *)

\* A miss is fetched from the server, into the output itself.
Direct(m) == [at |-> "direct", msg |-> m, source |-> "none", temp |-> "none", linked |-> FALSE]
CopyMiss == copy' = Direct(copy.msg)

\* The recorded file is opened, if there is one, and scanned first.
CopyBegins(m) ==
  /\ "copy" \in cast /\ copy = Off
  /\ copy' = IF row[m].path /\ file[m] # "none"
             THEN [at |-> "scan", msg |-> m, source |-> file[m], temp |-> "none", linked |-> TRUE]
             ELSE Direct(m)
  /\ UNCHANGED <<store, world, owner, jobs, worker, retry, notifs, removal, out, runs, damage, cast>>

Scan ==
  /\ copy.at = "scan"
  /\ IF copy.source = "whole" THEN copy' = [copy EXCEPT !.at = "copy"] ELSE CopyMiss
  /\ UNCHANGED <<store, world, owner, jobs, worker, retry, notifs, removal, out, runs, damage, cast>>

CopyOut ==
  /\ copy.at = "copy"
  /\ \/ copy' = [copy EXCEPT !.at = "check", !.temp = copy.source]
     \/ CopyMiss
  /\ UNCHANGED <<store, world, owner, jobs, worker, retry, notifs, removal, out, runs, damage, cast>>

\* Mutant: the first scan is trusted.
TrustScan == TRUE
\* What was written is read back.
ReadBack == copy.temp = "whole"

PublishCopy ==
  /\ copy.at = "check"
  /\ IF ReadBack THEN copy' = Off /\ out' = [out EXCEPT ![copy.msg] = copy.temp]
                 ELSE CopyMiss /\ UNCHANGED out
  /\ UNCHANGED <<store, world, owner, jobs, worker, retry, notifs, removal, runs, damage, cast>>

\* DownloadMediaDirectToFile.
DirectFetch ==
  /\ copy.at = "direct"
  /\ \/ copy.msg \in served /\ HasMetadata(copy.msg) /\ out' = [out EXCEPT ![copy.msg] = "whole"]
     \/ UNCHANGED out
  /\ copy' = Off
  /\ UNCHANGED <<store, world, owner, jobs, worker, retry, notifs, removal, runs, damage, cast>>

-----------------------------------------------------------------------------
(* The world. *)

Expires(m) == served' = served \ {m} /\ UNCHANGED <<store, held, answers, owner, jobs, worker, retry, notifs, removal, copy, out, runs, damage, cast>>
PhoneLoses(m) == held' = held \ {m} /\ UNCHANGED <<store, served, answers, owner, jobs, worker, retry, notifs, removal, copy, out, runs, damage, cast>>

\* Somebody writes into a file, or removes it.
Damaged(m) ==
  /\ "copy" \in cast /\ damage < MaxDamage /\ file[m] = "whole"
  /\ damage' = damage + 1
  /\ \/ /\ file' = [file EXCEPT ![m] = "bad"]
        /\ copy' = IF copy # Off /\ copy.msg = m /\ copy.linked THEN [copy EXCEPT !.source = "bad"] ELSE copy
     \/ Remove(m)
  /\ UNCHANGED <<row, world, owner, jobs, worker, retry, notifs, removal, out, runs, cast>>

\* The owner stops or crashes at any point and another one takes the store.
NextOwner(o) ==
  /\ owner' = o
  /\ jobs' = {} /\ worker' = Off /\ RetryReturns /\ removal' = Off
  /\ UNCHANGED <<store, world, copy, out, runs, damage, cast>>

-----------------------------------------------------------------------------
RetryStep ==
  \/ ExactServer \/ ExactRecords \/ NextBatch \/ Sent \/ WaitEnds \/ RecordRetried \/ BatchEnds
  \/ \E m \in Msgs : SendReceipt(m) \/ Classify(m)

Next ==
  \/ \E m \in Msgs :
       \/ Enqueue(m) \/ TakeJob(m) \/ ExactDownload(m)
       \/ DeleteForMe(m) \/ Purge(m) \/ DeletedElsewhere(m) \/ CopyBegins(m)
       \/ Expires(m) \/ PhoneLoses(m) \/ Damaged(m)
  \/ JobFetches \/ JobRecords
  \/ RetryMedia \/ RetryStep \/ RetryCancelled
  \/ \E a \in answers : Notified(a)
  \/ ListPaths \/ Unlink \/ Clear \/ Mark
  \/ Scan \/ CopyOut \/ PublishCopy \/ DirectFetch
  \/ \E o \in {"sync", "command"} : NextOwner(o)

Spec == Init /\ [][Next]_vars

-----------------------------------------------------------------------------
\* media retry gives a message up for good (media_unavailable_at) only when the
\* phone has no copy and the server no longer serves it: a timeout, a refusal, a
\* network error and an answer to an earlier request never do (docs/media.md).
GoneIsConfirmed == \A m \in Msgs : row[m].gone => m \notin served /\ m \notin held

\* A read-only download, which takes no lock, publishes whole media or nothing,
\* whatever happens to the recorded file between its checks.
OutputsAreVerified == \A m \in Msgs : out[m] # "bad"
=============================================================================
