----------------------------- MODULE MessageRow -----------------------------
(***************************************************************************)
(* One row of the messages table and what each statement of internal/store *)
(* does to it.  Several copies of one message reach the store: live, from  *)
(* history, edited, revoked, asked again from the phone.  The upsert has   *)
(* to merge them in whatever order they come.                              *)
(*                                                                         *)
(* Columns that follow the same rule are one field: `text` stands for the  *)
(* content that is replaced as a whole (text, caption, buttons), `direct`  *)
(* for what a copy without it leaves alone (direct_path, keys, hashes).    *)
(* `shown` says that display_text is more than a deletion mark; a copy     *)
(* without content has the placeholder "(message)" there.  "" is NULL or   *)
(* empty, a time of 0 is NULL.  local_path and media_unavailable_at are in    *)
(* MessageMedia and LidMigration.                                          *)
(***************************************************************************)
EXTENDS Integers

\* What a copy brings: UpsertMessageParams.
Copy(text, shown, media, direct, edited, revoked, forMe, ts) ==
  [text |-> text, shown |-> shown, media |-> media, direct |-> direct, edited |-> edited,
   revoked |-> revoked, forMe |-> forMe, ts |-> ts]

NoRow == [here |-> FALSE, ts |-> 0, edited |-> FALSE, editedTs |-> 0, text |-> "",
          shown |-> FALSE, media |-> "", direct |-> "",
          revoked |-> FALSE, forMe |-> FALSE, deletedAt |-> 0, purged |-> FALSE]

RowsOf(Times, Texts, Medias, Directs) ==
  [here : BOOLEAN, ts : Times, edited : BOOLEAN, editedTs : Times, text : Texts,
   shown : BOOLEAN, media : Medias, direct : Directs,
   revoked : BOOLEAN, forMe : BOOLEAN, deletedAt : Times, purged : BOOLEAN]

Deleted(r) == r.deletedAt # 0
Visible(r) == r.here /\ ~Deleted(r)
First(a, b) == IF a # "" THEN a ELSE b

\* UpsertMessage: a deletion without a time of its own takes the copy's.
DeletesAt(c) == IF c.revoked \/ c.forMe THEN c.ts ELSE 0

\* The row a first copy inserts.
Inserted(c) ==
  [here |-> TRUE, ts |-> c.ts, edited |-> c.edited, editedTs |-> IF c.edited THEN c.ts ELSE 0,
   text |-> c.text, shown |-> c.shown, media |-> c.media, direct |-> c.direct,
   revoked |-> c.revoked, forMe |-> c.forMe, deletedAt |-> DeletesAt(c), purged |-> FALSE]

\* Mutant: an edit is compared with nothing.
OlderNoEdits(r, c) ==
  \/ r.edited /\ ~c.edited
  \/ ~r.edited /\ ~c.edited /\ c.ts < r.ts
\* The copy is older than what a visible row shows.
Older(r, c) ==
  \/ r.edited /\ ~c.edited
  \/ r.edited /\ c.edited /\ c.ts < r.editedTs
  \/ ~r.edited /\ ~c.edited /\ c.ts < r.ts

\* A tombstone that was stored before any payload.
Bare(r) == r.text = "" /\ ~r.shown /\ r.media = ""

MergedTs(r, c) ==
  IF Deleted(r) \/ DeletesAt(c) # 0
  THEN IF Deleted(r) /\ DeletesAt(c) = 0 /\ Bare(r) THEN c.ts ELSE r.ts
  ELSE IF c.edited \/ (~r.edited /\ c.ts < r.ts) THEN r.ts ELSE c.ts

MergedDeletedAt(r, c) == IF Deleted(r) THEN r.deletedAt ELSE DeletesAt(c)

\* A tombstone keeps the first content it finds, a visible row the newest.
MergedText(r, c) ==
  IF Deleted(r) \/ DeletesAt(c) # 0 THEN First(r.text, c.text)
  ELSE IF Older(r, c) THEN r.text ELSE c.text

\* ON CONFLICT DO UPDATE of UpsertMessage.
Merged(r, c) ==
  LET hides == DeletesAt(c) # 0
      hidden == Deleted(r) \/ hides
      older == Older(r, c)
  IN [here |-> TRUE,
      ts |-> MergedTs(r, c),
      edited |-> IF Deleted(r) THEN r.edited ELSE ~hides /\ (c.edited \/ r.edited),
      editedTs |-> IF Deleted(r) THEN r.editedTs ELSE IF hides THEN 0
                   ELSE IF c.edited /\ (~r.edited \/ c.ts > r.editedTs) THEN c.ts
                   ELSE IF r.edited THEN r.editedTs ELSE 0,
      text |-> MergedText(r, c),
      shown |-> r.shown \/ (c.shown /\ (hidden \/ ~older)),
      media |-> IF hidden THEN First(r.media, c.media) ELSE IF older THEN r.media ELSE c.media,
      direct |-> IF hidden THEN First(r.direct, c.direct) ELSE IF older THEN r.direct
                 ELSE First(c.direct, r.direct),
      revoked |-> r.revoked \/ c.revoked,
      forMe |-> r.forMe \/ c.forMe,
      deletedAt |-> MergedDeletedAt(r, c),
      purged |-> r.purged]

\* UpsertMessage, given whether the purge ledger has the message.
Upsert(r, c, ledger) ==
  IF ledger \/ r.purged THEN r
  ELSE IF r.here THEN Merged(r, c) ELSE Inserted(c)

\* UPDATE ... SET deleted_at = COALESCE(deleted_at, ?), edited = 0.
Tombstone(r, at) == [r EXCEPT !.deletedAt = IF Deleted(r) THEN @ ELSE at,
                              !.edited = FALSE, !.editedTs = 0]

\* MarkMessageRevoked: nothing when there is no row.
MarkRevoked(r, at) == IF r.here THEN [Tombstone(r, at) EXCEPT !.revoked = TRUE] ELSE r

\* MarkMessageDeletedForMe: update, or insert a bare tombstone.
MarkDeletedForMe(r, at, ledger) ==
  IF r.here THEN [Tombstone(r, at) EXCEPT !.forMe = TRUE]
  ELSE Upsert(r, Copy("", FALSE, "", "", FALSE, FALSE, TRUE, at), ledger)

\* MarkMessageDeletedForMePreserveMedia: as above, the edit marks stay.
MarkDeletedForMePreserveMedia(r, at) ==
  [r EXCEPT !.deletedAt = IF Deleted(r) THEN @ ELSE at, !.forMe = TRUE]

\* Mutant: the statement lost its deleted_at condition.
UpdateTextDeletedToo(r, text, at) ==
  IF r.here
  THEN [r EXCEPT !.text = text, !.shown = TRUE, !.media = "", !.direct = "",
                 !.edited = TRUE, !.editedTs = at]
  ELSE r
\* UpdateMessageText: the content of a visible row is replaced, its media forgotten.
UpdateText(r, text, at) ==
  IF Visible(r)
  THEN [r EXCEPT !.text = text, !.shown = TRUE, !.media = "", !.direct = "",
                 !.edited = TRUE, !.editedTs = at]
  ELSE r

\* The UPDATE of PurgeMessage: the tombstone is all that stays.
Purged(r) == [r EXCEPT !.text = "", !.shown = FALSE, !.media = "", !.direct = "",
                       !.edited = FALSE, !.editedTs = 0, !.purged = TRUE]

=============================================================================
