------------------------ MODULE MessageStore_proofs ------------------------
(***************************************************************************)
(* The promises of the modules that StoreParts puts together: MessageStore *)
(* for every set of copies, texts and edits, then ReadState, LidMigration, *)
(* ChangeJournal, StoreOpen and Polls, each by an inductive invariant of   *)
(* its own. What a part's module promises, the store promises of the part. *)
(*                                                                         *)
(* The inductive invariant of MessageStore is about a row r and the        *)
(* content g that was merged into it: a visible row shows an edit iff g    *)
(* has one, and then the latest; without one it shows an original at its   *)
(* time. Each statement of MessageRow preserves it, which is a lemma of    *)
(* its own; the steps of the system only have to be matched with these,    *)
(* and so have those of LidMigration, whose two rows are merged into one.  *)
(***************************************************************************)
EXTENDS StoreParts, FiniteSetTheorems, WellFoundedInduction, TLAPS

\* K is the kind of row: its texts and medias, and whether it stands alone or may be
\* merged with the row of another name.
Own == [texts |-> Texts, medias |-> {""}, alone |-> TRUE]
Apt(K) == "" \in K.texts /\ "" \in K.medias

Rows(K) == RowsOf(Times, K.texts, K.medias, K.medias)
Copies(K) == [text : K.texts, shown : BOOLEAN, media : K.medias, direct : K.medias, edited : BOOLEAN,
              revoked : BOOLEAN, forMe : BOOLEAN, ts : OriginalTime .. MaxTime]
ContentsOf(K) == [text : K.texts, edited : BOOLEAN, ts : Times]

RowOK(r, K) ==
  /\ r \in Rows(K)
  /\ r.here \/ r = NoRow
  /\ r.revoked \/ r.forMe \/ r.purged => Deleted(r)
  /\ r.purged => r.text = ""

\* Content has the times its kind can have.
Plausible(g, t, K) ==
  /\ g \subseteq ContentsOf(K)
  /\ \A c \in g : IF c.edited THEN c.ts \in OriginalTime .. t ELSE c.ts = OriginalTime

\* A visible row shows the latest edit, or an original.
ShowsEdit(r, g) ==
  /\ \E c \in g : c.edited /\ c.ts = r.editedTs /\ c.text = r.text
  /\ \A d \in g : d.edited => d.ts <= r.editedTs
ShowsOriginal(r, g) ==
  /\ r.ts = OriginalTime
  /\ \E c \in g : ~c.edited /\ c.text = r.text
  /\ \A d \in g : ~d.edited
Shows(r, g, K) ==
  Visible(r) => /\ IF r.edited THEN ShowsEdit(r, g) ELSE ShowsOriginal(r, g)
                /\ K.alone /\ (\E c \in g : ~c.edited) => r.ts = OriginalTime

\* What is not blank is kept.
Kept(r, g) ==
  r.here /\ ~r.purged /\ g # {} /\ (\A c \in g : c.text # "") => r.text # ""

Good(r, g, t, K) ==
  /\ RowOK(r, K)
  /\ ~r.here => g = {}
  /\ Plausible(g, t, K)
  /\ Shows(r, g, K)
  /\ Kept(r, g)

-----------------------------------------------------------------------------
(* What the statements do to a good row. *)

\* The sets of times and texts.
LEMMA TimesFacts ==
  /\ OriginalTime \in Times /\ 0 \in Times /\ OriginalTime # 0
  /\ \A t \in OriginalTime .. MaxTime : t \in Times /\ t # 0
  /\ OriginalTime \in Nat /\ \A t \in Times : t \in Nat
<1>1. OriginalTime \in Nat /\ OriginalTime # 0 /\ MaxTime \in Nat /\ OriginalTime <= MaxTime
  BY TimesAssumption
<1> QED BY <1>1 DEF Times
\* Times between the original and another one.
LEMMA IntervalFacts ==
  /\ OriginalTime \in OriginalTime .. MaxTime /\ MaxTime \in Nat /\ OriginalTime \in Nat
  /\ \A n \in OriginalTime .. MaxTime : n \in Nat /\ OriginalTime <= n /\ OriginalTime .. n \subseteq OriginalTime .. MaxTime
<1>1. OriginalTime \in Nat /\ MaxTime \in Nat /\ OriginalTime <= MaxTime
  BY TimesAssumption
<1> QED BY <1>1
LEMMA OwnFacts ==
  /\ Own.texts = Texts /\ Own.medias = {""} /\ Own.alone
  /\ "" \in Own.texts /\ Apt(Own)
  BY DEF Own, Texts, Apt

\* The empty row is well formed.
LEMMA NoRowOK ==
  ASSUME NEW K, Apt(K)
  PROVE  RowOK(NoRow, K) /\ ~NoRow.here
<1>1. NoRow \in Rows(K)
  BY TimesFacts DEF Apt, Rows, RowsOf, NoRow
<1> QED BY <1>1 DEF RowOK, NoRow

\* The upsert keeps a row well formed.
LEMMA UpsertOK ==
  ASSUME NEW K, Apt(K), NEW r, RowOK(r, K), NEW c \in Copies(K), NEW l \in BOOLEAN
  PROVE  RowOK(Upsert(r, c, l), K)
<1>1. CASE l \/ r.purged
  BY <1>1 DEF Upsert
<1>2. CASE ~(l \/ r.purged) /\ ~r.here
  <2>1. Upsert(r, c, l) = Inserted(c)
    BY <1>2 DEF Upsert
  <2>2. Inserted(c) \in Rows(K) /\ Inserted(c).here /\ ~Inserted(c).purged
    BY TimesFacts DEF Apt, Inserted, Rows, RowsOf, Copies, DeletesAt
  <2>3. Inserted(c).revoked \/ Inserted(c).forMe => Deleted(Inserted(c))
    BY TimesFacts DEF Inserted, Copies, Deleted, DeletesAt
  <2> QED BY <2>1, <2>2, <2>3 DEF RowOK
<1>3. CASE ~(l \/ r.purged) /\ r.here
  <2>1. Upsert(r, c, l) = Merged(r, c)
    BY <1>3 DEF Upsert
  <2>2. Merged(r, c) \in Rows(K)
    BY TimesFacts DEF Apt, RowOK, Merged, MergedTs, MergedText, MergedDeletedAt, First, Rows, RowsOf, Copies,
               DeletesAt
  <2>3. Merged(r, c).here /\ ~Merged(r, c).purged
    BY <1>3 DEF Merged, RowOK, Rows, RowsOf
  <2>4. Merged(r, c).revoked \/ Merged(r, c).forMe => Deleted(Merged(r, c))
    BY TimesFacts DEF RowOK, Rows, RowsOf, Merged, MergedDeletedAt, Copies, Deleted, DeletesAt
  <2> QED BY <2>1, <2>2, <2>3, <2>4 DEF RowOK
<1> QED BY <1>1, <1>2, <1>3

\* A merge into a row that is visible or a plain tombstone.
LEMMA MergedFacts ==
  ASSUME NEW K, Apt(K), NEW r, RowOK(r, K), NEW c \in Copies(K), NEW l \in BOOLEAN, r.here, ~l, ~r.purged
  PROVE  /\ Upsert(r, c, l) = Merged(r, c)
         /\ Merged(r, c).here /\ ~Merged(r, c).purged
         /\ Merged(r, c).deletedAt = MergedDeletedAt(r, c)
         /\ Merged(r, c).ts = MergedTs(r, c)
         /\ Merged(r, c).text = MergedText(r, c)
         /\ Merged(r, c).edited = IF Deleted(r) THEN r.edited
                                  ELSE DeletesAt(c) = 0 /\ (c.edited \/ r.edited)
         /\ ~Deleted(r) /\ DeletesAt(c) = 0 =>
              Merged(r, c).editedTs = IF c.edited /\ (~r.edited \/ c.ts > r.editedTs) THEN c.ts
                                      ELSE IF r.edited THEN r.editedTs ELSE 0
<1>1. Upsert(r, c, l) = Merged(r, c)
  BY DEF Upsert
<1>2. Merged(r, c).here /\ ~Merged(r, c).purged
  BY DEF Merged
<1> QED BY <1>1, <1>2 DEF Merged

\* A copy with content, an original or an edit, leaves a good row good.
LEMMA ContentGood ==
  ASSUME NEW K, Apt(K), NEW r, NEW g, NEW t \in OriginalTime .. MaxTime, Good(r, g, t, K), NEW l \in BOOLEAN,
         l /\ r.here => r.purged,
         NEW c \in Copies(K), ~c.revoked, ~c.forMe,
         IF c.edited THEN c.ts \in OriginalTime .. t ELSE c.ts = OriginalTime,
         NEW x, x = Content(c.text, c.edited, c.ts)
  PROVE  Good(Upsert(r, c, l), IF Upsert(r, c, l) = r /\ ~r.here THEN g ELSE g \cup {x}, t, K)
<1> DEFINE q == Upsert(r, c, l)
           h == IF q = r /\ ~r.here THEN g ELSE g \cup {x}
<1> HIDE DEF q, h
<1>1. RowOK(r, K) /\ (~r.here => g = {}) /\ Plausible(g, t, K) /\ Shows(r, g, K) /\ Kept(r, g)
  BY DEF Good
<1>2. RowOK(q, K)
  BY <1>1, UpsertOK DEF q
<1>3. DeletesAt(c) = 0
  BY DEF DeletesAt
<1>4. x \in ContentsOf(K) /\ (x.edited <=> c.edited) /\ x.text = c.text /\ x.ts = c.ts
  BY TimesFacts DEF Content, ContentsOf, Copies
<1>0. c.ts \in Nat /\ c.edited \in BOOLEAN
  BY TimesFacts DEF Copies
<1>01. x.ts \in Nat /\ x.ts <= x.ts
  <2>1. \A n \in Nat : n <= n
    OBVIOUS
  <2> QED BY <2>1, <1>0, <1>4
<1>5. Plausible(g \cup {x}, t, K)
  BY <1>1, <1>4 DEF Plausible
<1>6. CASE ~r.here
  <2>1. r = NoRow
    BY <1>1, <1>6 DEF RowOK
  <2>2. ~r.purged /\ g = {}
    BY <2>1, <1>1, <1>6 DEF NoRow
  <2>3. CASE l
    <3>1. q = r /\ h = g
      BY <1>6, <2>3 DEF q, h, Upsert
    <3> QED BY <3>1 DEF Good, q, h
  <2>4. CASE ~l
    <3>1. q = Inserted(c)
      BY <1>6, <2>2, <2>4 DEF q, Upsert
    <3>2. q.here /\ (q.edited <=> c.edited) /\ q.text = c.text /\ q.ts = c.ts
          /\ (c.edited => q.editedTs = c.ts)
      BY <3>1 DEF Inserted
    <3>3. h = {x}
      BY <3>2, <1>6, <2>2 DEF h
    <3>4. Shows(q, {x}, K)
      <4>1. CASE c.edited
        <5>1. x.edited /\ x.ts = q.editedTs /\ x.text = q.text /\ q.edited
          BY <4>1, <3>2, <1>4
        <5>2. ShowsEdit(q, {x})
          BY <5>1, <1>01 DEF ShowsEdit
        <5> QED BY <5>1, <5>2 DEF Shows
      <4>2. CASE ~c.edited
        BY <4>2, <3>2, <1>4 DEF Shows, ShowsOriginal
      <4> QED BY <4>1, <4>2
    <3>5. Kept(q, {x})
      BY <3>2, <1>4 DEF Kept
    <3>6. Plausible({x}, t, K)
      BY <1>5, <2>2
    <3> QED BY <1>2, <3>2, <3>3, <3>4, <3>5, <3>6 DEF Good, q, h
  <2> QED BY <2>3, <2>4
<1>7. CASE r.here /\ r.purged
  <2>1. q = r /\ h = g \cup {x}
    BY <1>7 DEF q, h, Upsert
  <2>2. ~Visible(r)
    BY <1>1, <1>7 DEF RowOK, Visible
  <2> QED BY <2>1, <2>2, <1>1, <1>5, <1>7 DEF Good, Shows, Kept, q, h
<1>8. CASE r.here /\ ~r.purged
  <2>1. ~l
    BY <1>8
  <2>2. q = Merged(r, c)
    BY <2>1, <1>8, <1>1, MergedFacts DEF q
  <2>3. q.here /\ ~q.purged /\ q.deletedAt = MergedDeletedAt(r, c) /\ q.text = MergedText(r, c)
        /\ q.ts = MergedTs(r, c)
    BY <2>1, <2>2, <1>8, <1>1, MergedFacts
  <2>4. h = g \cup {x}
    BY <1>8 DEF h
  <2>5. CASE Deleted(r)
    <3>1. ~Visible(q)
      BY <2>3, <2>5 DEF Visible, Deleted, MergedDeletedAt
    <3>2. q.text = IF r.text # "" THEN r.text ELSE c.text
      BY <2>3, <2>5 DEF MergedText, First
    <3>3. Kept(q, h)
      BY <3>2, <2>3, <2>4, <1>4 DEF Kept
    <3> QED BY <3>1, <3>3, <2>3, <2>4, <1>2, <1>5 DEF Good, Shows, q, h
  <2>6. CASE ~Deleted(r)
    <3>1. ~Deleted(q) /\ Visible(r)
      BY <2>3, <2>6, <1>3, <1>8 DEF Visible, Deleted, MergedDeletedAt
    <3>2. /\ q.edited <=> c.edited \/ r.edited
          /\ q.editedTs = IF c.edited /\ (~r.edited \/ c.ts > r.editedTs) THEN c.ts
                          ELSE IF r.edited THEN r.editedTs ELSE 0
      <4>1. /\ q.edited = IF Deleted(r) THEN r.edited ELSE DeletesAt(c) = 0 /\ (c.edited \/ r.edited)
            /\ ~Deleted(r) /\ DeletesAt(c) = 0 =>
                 q.editedTs = IF c.edited /\ (~r.edited \/ c.ts > r.editedTs) THEN c.ts
                              ELSE IF r.edited THEN r.editedTs ELSE 0
        BY <2>2 DEF Merged
      <4> QED BY <4>1, <2>6, <1>3
    <3>3. q.text = IF Older(r, c) THEN r.text ELSE c.text
      BY <2>3, <2>6, <1>3 DEF MergedText
    <3>4. q.ts = IF c.edited \/ (~r.edited /\ c.ts < r.ts) THEN r.ts ELSE c.ts
      BY <2>3, <2>6, <1>3 DEF MergedTs
    <3>5. r.editedTs \in Nat /\ c.ts \in Nat /\ r.ts \in Nat /\ r.edited \in BOOLEAN /\ c.edited \in BOOLEAN
      BY <1>0, <1>1, TimesFacts DEF RowOK, Rows, RowsOf
    <3>6. IF r.edited THEN ShowsEdit(r, g) ELSE ShowsOriginal(r, g)
      BY <1>1, <3>1 DEF Shows
    <3>7. Kept(q, h)
      <4>1. g # {} /\ r.here
        BY <3>6, <1>8 DEF ShowsEdit, ShowsOriginal
      <4>2. (\A d \in h : d.text # "") => r.text # "" /\ c.text # ""
        BY <4>1, <1>1, <1>4, <1>8, <2>4 DEF Kept
      <4> QED BY <4>2, <3>3 DEF Kept
    <3>8. IF q.edited THEN ShowsEdit(q, h) ELSE ShowsOriginal(q, h)
      <4>1. CASE c.edited /\ ~r.edited
        <5>1. q.edited /\ q.editedTs = c.ts /\ q.text = c.text
          BY <4>1, <3>2, <3>3 DEF Older
        <5>2. \A d \in g : ~d.edited
          BY <4>1, <3>6 DEF ShowsOriginal
        <5>4. x.edited /\ x.ts = q.editedTs /\ x.text = q.text
          BY <5>1, <4>1, <1>4
        <5>3. ShowsEdit(q, h)
          BY <5>4, <5>2, <2>4, <1>01 DEF ShowsEdit
        <5> QED BY <5>1, <5>3
      <4>2. CASE c.edited /\ r.edited /\ c.ts < r.editedTs
        <5>1. q.edited /\ q.editedTs = r.editedTs /\ q.text = r.text
          BY <4>2, <3>2, <3>3, <3>5 DEF Older
        <5>2. ShowsEdit(r, g)
          BY <4>2, <3>6
        <5>4. x.ts <= q.editedTs
          <6>1. \A m \in Nat, n \in Nat : m < n => m <= n
            OBVIOUS
          <6> QED BY <6>1, <5>1, <4>2, <1>4, <3>5
        <5>3. ShowsEdit(q, h)
          BY <5>1, <5>2, <5>4, <2>4 DEF ShowsEdit
        <5> QED BY <5>1, <5>3
      <4>3. CASE c.edited /\ r.edited /\ ~(c.ts < r.editedTs)
        <5>1. q.edited /\ q.text = c.text
          BY <4>3, <3>2, <3>3, <3>5 DEF Older
        <5>2. q.editedTs = c.ts
          BY <4>3, <3>2, <3>5
        <5>3. \A d \in g : d.edited => d.ts <= r.editedTs
          BY <4>3, <3>6 DEF ShowsEdit
        <5>4. \A d \in g : d.edited => d.ts \in Nat
          BY <1>1, TimesFacts DEF Plausible
        <5>5. \A d \in g : d.edited => d.ts <= c.ts
          BY <5>3, <5>4, <4>3, <3>5
        <5>7. x.edited /\ x.ts = q.editedTs /\ x.text = q.text
          BY <5>1, <5>2, <4>3, <1>4
        <5>6. ShowsEdit(q, h)
          BY <5>2, <5>5, <5>7, <1>4, <1>01, <2>4 DEF ShowsEdit
        <5> QED BY <5>1, <5>6
      <4>4. CASE ~c.edited /\ r.edited
        <5>1. q.edited /\ q.editedTs = r.editedTs /\ q.text = r.text
          BY <4>4, <3>2, <3>3 DEF Older
        <5>2. ShowsEdit(q, h)
          BY <5>1, <4>4, <3>6, <1>4, <2>4 DEF ShowsEdit
        <5> QED BY <5>1, <5>2
      <4>5. CASE ~c.edited /\ ~r.edited
        <5>1. r.ts = OriginalTime /\ c.ts = OriginalTime /\ \A d \in g : ~d.edited
          BY <4>5, <3>6 DEF ShowsOriginal
        <5>2. ~q.edited /\ q.ts = OriginalTime /\ q.text = c.text
          BY <4>5, <5>1, <3>2, <3>3, <3>4, <3>5 DEF Older
        <5>3. ShowsOriginal(q, h)
          BY <5>1, <5>2, <4>5, <1>4, <2>4 DEF ShowsOriginal
        <5> QED BY <5>2, <5>3
      <4> QED BY <4>1, <4>2, <4>3, <4>4, <4>5
    <3>9. K.alone /\ (\E d \in h : ~d.edited) => q.ts = OriginalTime
      <4>1. CASE c.edited
        <5>1. q.ts = r.ts
          BY <4>1, <3>4
        <5> QED BY <5>1, <4>1, <1>1, <1>4, <2>4, <3>1 DEF Shows
      <4>2. CASE ~c.edited
        <5>1. c.ts = OriginalTime
          BY <4>2
        <5>2. ~r.edited => r.ts = OriginalTime
          BY <3>6 DEF ShowsOriginal
        <5> QED BY <5>1, <5>2, <4>2, <3>4
      <4> QED BY <4>1, <4>2
    <3> QED BY <3>7, <3>8, <3>9, <2>3, <2>4, <1>2, <1>5 DEF Good, Shows, q, h
  <2> QED BY <2>5, <2>6
<1> QED BY <1>6, <1>7, <1>8

\* A statement that hides the row, or changes nothing a hidden row is judged by.
LEMMA HiddenGood ==
  ASSUME NEW K, Apt(K), NEW r, NEW g, NEW t, Good(r, g, t, K), NEW q, RowOK(q, K), ~Visible(q),
         ~q.here => ~r.here,
         q.here /\ ~q.purged => ~r.here \/ (~r.purged /\ q.text = r.text)
  PROVE  Good(q, g, t, K)
<1>1. ~q.here => g = {}
  BY DEF Good
<1>2. Kept(q, g)
  BY DEF Good, Kept
<1> QED BY <1>1, <1>2 DEF Good, Shows

\* The tombstone of a revocation or a deletion.
LEMMA TombstoneOK ==
  ASSUME NEW K, Apt(K), NEW r, RowOK(r, K), r.here, NEW at \in OriginalTime .. MaxTime
  PROVE  /\ LET q == [Tombstone(r, at) EXCEPT !.revoked = TRUE]
            IN  RowOK(q, K) /\ ~Visible(q) /\ q.here /\ q.purged = r.purged /\ q.text = r.text
         /\ LET q == [Tombstone(r, at) EXCEPT !.forMe = TRUE]
            IN  RowOK(q, K) /\ ~Visible(q) /\ q.here /\ q.purged = r.purged /\ q.text = r.text
         /\ LET q == MarkDeletedForMePreserveMedia(r, at)
            IN  RowOK(q, K) /\ ~Visible(q) /\ q.here /\ q.purged = r.purged /\ q.text = r.text
<1> DEFINE d == IF Deleted(r) THEN r.deletedAt ELSE at
<1>1. d \in Times /\ d # 0
  BY TimesFacts DEF RowOK, Rows, RowsOf, Deleted
<1>2. r \in Rows(K)
  BY DEF RowOK
<1>3. ASSUME NEW q \in Rows(K), q.deletedAt = d, q.here = r.here, q.purged = r.purged, q.text = r.text
      PROVE  RowOK(q, K) /\ ~Visible(q)
  BY <1>1, <1>3 DEF RowOK, Visible, Deleted
<1>4. Tombstone(r, at) = [r EXCEPT !.deletedAt = d, !.edited = FALSE, !.editedTs = 0]
  BY DEF Tombstone
<1> HIDE DEF d
<1>5. /\ [Tombstone(r, at) EXCEPT !.revoked = TRUE] \in Rows(K)
      /\ [Tombstone(r, at) EXCEPT !.forMe = TRUE] \in Rows(K)
  BY <1>1, <1>2, <1>4, TimesFacts DEF Rows, RowsOf
<1>6. MarkDeletedForMePreserveMedia(r, at) \in Rows(K)
  BY <1>1, <1>2 DEF MarkDeletedForMePreserveMedia, Rows, RowsOf, d
<1>7. LET q == [Tombstone(r, at) EXCEPT !.revoked = TRUE]
      IN  q.deletedAt = d /\ q.here = r.here /\ q.purged = r.purged /\ q.text = r.text
  BY <1>2, <1>4 DEF Rows, RowsOf
<1>8. LET q == [Tombstone(r, at) EXCEPT !.forMe = TRUE]
      IN  q.deletedAt = d /\ q.here = r.here /\ q.purged = r.purged /\ q.text = r.text
  BY <1>2, <1>4 DEF Rows, RowsOf
<1>9. LET q == MarkDeletedForMePreserveMedia(r, at)
      IN  q.deletedAt = d /\ q.here = r.here /\ q.purged = r.purged /\ q.text = r.text
  BY <1>2 DEF Rows, RowsOf, MarkDeletedForMePreserveMedia, d
<1> QED BY <1>3, <1>5, <1>6, <1>7, <1>8, <1>9

\* The same of the second, for a row that has a name.
ForMeTombstone(r, at) == [Tombstone(r, at) EXCEPT !.forMe = TRUE]
LEMMA ForMeTombstoneOK ==
  ASSUME NEW K, Apt(K), NEW r, RowOK(r, K), r.here, NEW at \in OriginalTime .. MaxTime
  PROVE  LET q == ForMeTombstone(r, at)
         IN  RowOK(q, K) /\ ~Visible(q) /\ q.here /\ q.purged = r.purged /\ q.text = r.text
<1>1. LET z == [Tombstone(r, at) EXCEPT !.forMe = TRUE]
      IN  RowOK(z, K) /\ ~Visible(z) /\ z.here /\ z.purged = r.purged /\ z.text = r.text
  BY TombstoneOK
<1> QED BY <1>1, Zenon DEF ForMeTombstone

\* A revocation or a deletion for me that arrives as a copy.
LEMMA HidingGood ==
  ASSUME NEW K, Apt(K), NEW r, NEW g, NEW t \in OriginalTime .. MaxTime, Good(r, g, t, K), NEW l \in BOOLEAN,
         NEW c \in Copies(K), c.revoked \/ c.forMe, c.text = ""
  PROVE  Good(Upsert(r, c, l), g, t, K)
<1>1. RowOK(r, K)
  BY DEF Good
<1>2. DeletesAt(c) # 0
  BY TimesFacts DEF DeletesAt, Copies
<1>3. RowOK(Upsert(r, c, l), K)
  BY <1>1, UpsertOK
<1>4. CASE l \/ r.purged
  BY <1>4 DEF Upsert
<1>5. CASE ~(l \/ r.purged) /\ ~r.here
  <2>1. Upsert(r, c, l) = Inserted(c)
    BY <1>5 DEF Upsert
  <2>2. ~Visible(Inserted(c)) /\ Inserted(c).here
    BY <1>2 DEF Inserted, Visible, Deleted
  <2> QED BY <2>1, <2>2, <1>3, <1>5, HiddenGood
<1>6. CASE ~(l \/ r.purged) /\ r.here
  <2>1. Upsert(r, c, l) = Merged(r, c)
    BY <1>6 DEF Upsert
  <2>2. Merged(r, c).here /\ Merged(r, c).deletedAt = MergedDeletedAt(r, c) /\ Merged(r, c).text = MergedText(r, c)
    BY DEF Merged
  <2>3. ~Visible(Merged(r, c))
    BY <2>2, <1>2 DEF Visible, Deleted, MergedDeletedAt
  <2>4. Merged(r, c).text = r.text
    BY <2>2, <1>2 DEF MergedText, First
  <2> QED BY <2>1, <2>2, <2>3, <2>4, <1>3, <1>6, HiddenGood
<1> QED BY <1>4, <1>5, <1>6

\* Marking a row revoked.
LEMMA MarkRevokedGood ==
  ASSUME NEW K, Apt(K), NEW r, NEW g, NEW t, Good(r, g, t, K), NEW at \in OriginalTime .. MaxTime
  PROVE  Good(MarkRevoked(r, at), g, t, K)
<1>1. RowOK(r, K)
  BY DEF Good
<1>2. CASE r.here
  <2>1. MarkRevoked(r, at) = [Tombstone(r, at) EXCEPT !.revoked = TRUE]
    BY <1>2 DEF MarkRevoked
  <2>2. /\ RowOK(MarkRevoked(r, at), K) /\ ~Visible(MarkRevoked(r, at)) /\ MarkRevoked(r, at).here
        /\ MarkRevoked(r, at).purged = r.purged /\ MarkRevoked(r, at).text = r.text
    <3>1. LET q == [Tombstone(r, at) EXCEPT !.revoked = TRUE]
          IN  RowOK(q, K) /\ ~Visible(q) /\ q.here /\ q.purged = r.purged /\ q.text = r.text
      BY <1>1, <1>2, TombstoneOK
    <3>. QED  BY <2>1, <3>1
  <2> QED BY <1>2, <2>2, HiddenGood
<1>3. CASE ~r.here
  BY <1>3 DEF MarkRevoked
<1> QED BY <1>2, <1>3

\* Deleting for me, with the row or without it.
LEMMA MarkForMeGood ==
  ASSUME NEW K, Apt(K), NEW r, NEW g, NEW t \in OriginalTime .. MaxTime, Good(r, g, t, K), NEW at \in OriginalTime .. MaxTime,
         NEW l \in BOOLEAN
  PROVE  /\ Good(MarkDeletedForMe(r, at, l), g, t, K)
         /\ r.here => Good(MarkDeletedForMePreserveMedia(r, at), g, t, K)
<1>1. RowOK(r, K)
  BY DEF Good
<1>2. CASE r.here
  <2>1. MarkDeletedForMe(r, at, l) = ForMeTombstone(r, at)
    BY <1>2 DEF MarkDeletedForMe, ForMeTombstone
  <2>0. PICK q : q = MarkDeletedForMe(r, at, l)
    OBVIOUS
  <2>2. RowOK(q, K) /\ ~Visible(q) /\ q.here /\ q.purged = r.purged /\ q.text = r.text
    <3>1. q = ForMeTombstone(r, at)
      BY <2>0, <2>1
    <3> QED BY <1>1, <1>2, <3>1, ForMeTombstoneOK
  <2> DEFINE p == MarkDeletedForMePreserveMedia(r, at)
  <2>3. RowOK(p, K) /\ ~Visible(p) /\ p.here /\ p.purged = r.purged /\ p.text = r.text
    BY <1>1, <1>2, TombstoneOK
  <2> HIDE DEF p
  <2>4. Good(q, g, t, K)
    BY <1>2, <2>2, HiddenGood
  <2>5. Good(p, g, t, K)
    BY <1>2, <2>3, HiddenGood
  <2> QED BY <2>0, <2>4, <2>5 DEF p
<1>3. CASE ~r.here
  <2> DEFINE c == Copy("", FALSE, "", "", FALSE, FALSE, TRUE, at)
  <2>1. MarkDeletedForMe(r, at, l) = Upsert(r, c, l)
    BY <1>3 DEF MarkDeletedForMe
  <2>2. c \in Copies(K) /\ c.forMe /\ c.text = ""
    BY DEF Apt, Copy, Copies
  <2> QED BY <2>1, <2>2, <1>3, HidingGood
<1> QED BY <1>2, <1>3

\* The user's edit, stored at time t.
LEMMA UpdateTextGood ==
  ASSUME NEW K, Apt(K), NEW r, NEW g, NEW t \in OriginalTime .. MaxTime, Good(r, g, t, K),
         NEW text \in K.texts,
         NEW x, x = Content(text, TRUE, t)
  PROVE  Good(UpdateText(r, text, t), IF Visible(r) THEN g \cup {x} ELSE g, t, K)
<1>1. CASE ~Visible(r)
  BY <1>1 DEF UpdateText
<1>2. CASE Visible(r)
  <2> DEFINE q == UpdateText(r, text, t)
             h == g \cup {x}
  <2>1. r \in Rows(K) /\ ~Deleted(r) /\ r.here
    BY <1>2 DEF Good, RowOK, Visible
  <2>2. /\ q \in Rows(K) /\ q.here /\ q.deletedAt = r.deletedAt /\ q.text = text /\ q.edited /\ q.editedTs = t
        /\ q.revoked = r.revoked /\ q.forMe = r.forMe /\ q.purged = r.purged /\ q.ts = r.ts
    <3>1. q = [r EXCEPT !.text = text, !.shown = TRUE, !.media = "", !.direct = "", !.edited = TRUE,
                        !.editedTs = t]
      BY <1>2 DEF UpdateText
    <3>2. t \in Times /\ "" \in K.medias
      BY TimesFacts DEF Apt
    <3>3. q \in Rows(K)
      BY <2>1, <3>1, <3>2 DEF Rows, RowsOf
    <3> QED BY <2>1, <3>1, <3>3 DEF Rows, RowsOf
  <2>3. x \in ContentsOf(K) /\ x.edited /\ x.text = text /\ x.ts = t
    BY TimesFacts DEF ContentsOf, Content
  <2>4. t \in OriginalTime .. t
    BY TimesFacts
  <2>5. Plausible(h, t, K)
    BY <2>3, <2>4 DEF Good, Plausible
  <2>6. ~r.purged /\ ~q.purged /\ RowOK(q, K)
    BY <2>1, <2>2 DEF Good, RowOK, Deleted
  <2>7. \A d \in h : d.edited => d.ts <= t
    <3>1. \A n \in OriginalTime .. t : n <= t
      BY TimesFacts
    <3> QED BY <3>1, <2>5 DEF Plausible
  <2>8. ShowsEdit(q, h)
    BY <2>2, <2>3, <2>7 DEF ShowsEdit
  <2>9. K.alone /\ (\E d \in h : ~d.edited) => q.ts = OriginalTime
    BY <1>2, <2>2, <2>3 DEF Good, Shows
  <2>10. Shows(q, h, K)
    BY <2>2, <2>8, <2>9 DEF Shows
  <2>11. Kept(q, h)
    BY <2>2, <2>3 DEF Kept
  <2> QED BY <1>2, <2>2, <2>5, <2>6, <2>10, <2>11 DEF Good
<1> QED BY <1>1, <1>2

\* The purge of a tombstone.
LEMMA PurgedGood ==
  ASSUME NEW K, Apt(K), NEW r, NEW g, NEW t, Good(r, g, t, K), r.here, Deleted(r)
  PROVE  Good(Purged(r), g, t, K) /\ Purged(r).here /\ Purged(r).purged
<1>1. r \in Rows(K)
  BY DEF Good, RowOK
<1>2. Purged(r) \in Rows(K)
  BY <1>1, TimesFacts DEF Apt, Purged, Rows, RowsOf
<1>3. Purged(r).here /\ Purged(r).purged /\ Purged(r).text = "" /\ Purged(r).deletedAt = r.deletedAt
  BY <1>1 DEF Purged, Rows, RowsOf
<1>4. RowOK(Purged(r), K) /\ ~Visible(Purged(r))
  BY <1>2, <1>3 DEF RowOK, Deleted, Visible
<1> QED BY <1>3, <1>4, HiddenGood

-----------------------------------------------------------------------------
(* The system. *)

RowInv ==
  /\ now \in OriginalTime .. MaxTime
  /\ ledger \in BOOLEAN
  /\ side \subseteq Side
  /\ Good(row, got, now, Own)
  /\ ledger => side = {} /\ (row.here => row.purged)

HandInv ==
  /\ mode \in {"sync", "off"}
  /\ live \subseteq Originals
  /\ cmd \in Commands
  /\ cmd.kind = "none" => cmd.at = "idle"
  /\ forMe \in {"idle", "loaded"}
  /\ forMe = "loaded" => mode = "sync" /\ row.here

IInv == RowInv /\ HandInv

\* A copy with content, merged as the handlers merge it.
LEMMA CopyKeeps ==
  ASSUME RowInv, NEW c \in Copies(Own), ~c.revoked, ~c.forMe,
         IF c.edited THEN c.ts \in OriginalTime .. now ELSE c.ts = OriginalTime,
         NEW tables \in SUBSET Side,
         Merge(c, tables, {Content(c.text, c.edited, c.ts)}), now' = now
  PROVE  RowInv'
<1>1. row' = Upsert(row, c, ledger) /\ side' = Added(tables) /\ ledger' = ledger
      /\ got' = IF row' = row /\ ~row.here THEN got ELSE got \cup {Content(c.text, c.edited, c.ts)}
  BY DEF Merge
<1>2. /\ now \in OriginalTime .. MaxTime /\ Good(row, got, now, Own) /\ ledger \in BOOLEAN /\ side \subseteq Side
      /\ ledger => side = {} /\ (row.here => row.purged)
  BY DEF RowInv
<1>3. Good(Upsert(row, c, ledger),
           IF Upsert(row, c, ledger) = row /\ ~row.here THEN got
           ELSE got \cup {Content(c.text, c.edited, c.ts)}, now, Own)
  BY <1>2, OwnFacts, ContentGood
<1>4. Good(row', got', now', Own)
  BY <1>1, <1>3
<1>5. side' \subseteq Side /\ (ledger' => side' = {} /\ (row'.here => row'.purged))
  BY <1>1, <1>2 DEF Added, Upsert
<1> QED BY <1>1, <1>2, <1>4, <1>5 DEF RowInv

\* The initial state.
LEMMA InitKeeps == Init => IInv
<1> SUFFICES ASSUME Init PROVE IInv
  OBVIOUS
<1>1. OriginalTime \in OriginalTime .. MaxTime /\ 0 \in Times
  BY IntervalFacts, TimesFacts
<1>2. Good(NoRow, {}, OriginalTime, Own)
  BY OwnFacts, NoRowOK DEF Good, Plausible, Shows, Kept, Visible
<1>3. RowInv
  BY <1>1, <1>2 DEF Init, RowInv
<1>4. HandInv
  BY <1>1 DEF Init, HandInv, NoCmd, Commands
<1> QED BY <1>3, <1>4 DEF IInv

\* Nothing a row is judged by changed, but the clock may have moved on.
LEMMA RowStays ==
  ASSUME RowInv, UNCHANGED <<row, ledger, side, got>>,
         now' = now \/ (now < MaxTime /\ now' = now + 1)
  PROVE  RowInv'
<1>1. now' \in OriginalTime .. MaxTime /\ OriginalTime .. now \subseteq OriginalTime .. now'
  BY IntervalFacts DEF RowInv
<1>2. Good(row, got, now', Own)
  BY <1>1 DEF RowInv, Good, Plausible
<1> QED BY <1>1, <1>2 DEF RowInv

\* A statement that adds no content and leaves the ledger alone.
LEMMA StatementKeeps ==
  ASSUME RowInv, Good(row', got', now, Own), now' = now, ledger' = ledger,
         side' = side \/ side' = Added({"vote"}) \/ side' = Added({}) \/ side' = side \ {"vote"},
         ledger /\ row'.here => row.here /\ row'.purged = row.purged
  PROVE  RowInv'
<1>1. side' \subseteq Side /\ (ledger' => side' = {})
  BY DEF RowInv, Added, Side
<1>2. ledger' => (row'.here => row'.purged)
  BY DEF RowInv
<1> QED BY <1>1, <1>2 DEF RowInv

\* An upsert changes nothing of a row whose message is in the ledger.
LEMMA LedgerUpsert == \A r, c : Upsert(r, c, TRUE) = r
  BY DEF Upsert

\* The original that is merged is a copy of the message.
LEMMA OriginalKeeps ==
  ASSUME RowInv, NEW text \in Originals, MergeOriginal(text), now' = now
  PROVE  RowInv'
<1> DEFINE tables == IF text = "" THEN {} ELSE {"poll", "location"}
<1>1. PICK c : c = Original(text)
  OBVIOUS
<1>2. text \in Texts
  BY DEF Texts
<1>3. /\ c \in Copies(Own) /\ ~c.revoked /\ ~c.forMe /\ ~c.edited
      /\ c.ts = OriginalTime /\ c.text = text /\ c.edited = FALSE
  BY <1>1, <1>2, IntervalFacts, OwnFacts DEF Original, Copy, Copies
<1>4. tables \in SUBSET Side
  BY DEF Side
<1>5. Merge(c, tables, {Content(c.text, c.edited, c.ts)})
  BY <1>1, <1>3 DEF MergeOriginal
<1> HIDE DEF tables
<1> QED BY <1>3, <1>4, <1>5, CopyKeeps

\* So is an edit.
LEMMA EditKeeps ==
  ASSUME RowInv, NEW e \in Edits, EditArrives(e)
  PROVE  RowInv'
<1>1. PICK c : c = Copy(e.text, TRUE, "", "", TRUE, FALSE, FALSE, e.ts)
  OBVIOUS
<1>2. e.text \in Texts /\ e.ts \in OriginalTime .. MaxTime /\ e.ts <= now
  BY TimesAssumption DEF Texts, EditArrives
<1>3. /\ c \in Copies(Own) /\ ~c.revoked /\ ~c.forMe /\ c.edited
      /\ c.ts = e.ts /\ c.text = e.text /\ c.edited = TRUE
  BY <1>1, <1>2, OwnFacts DEF Copy, Copies
<1>4. c.ts \in OriginalTime .. now
  BY <1>2, <1>3, IntervalFacts DEF RowInv
<1>5. Merge(c, {}, {Content(c.text, c.edited, c.ts)}) /\ now' = now
  BY <1>1, <1>3 DEF EditArrives
<1>6. {} \in SUBSET Side
  OBVIOUS
<1> QED BY <1>3, <1>4, <1>5, <1>6, CopyKeeps

\* A revocation that arrives.
LEMMA RevokeKeeps ==
  ASSUME RowInv, RevokeArrives
  PROVE  RowInv'
<1>1. PICK t \in OriginalTime .. now : Merge(Copy("", FALSE, "", "", FALSE, TRUE, FALSE, t), {}, {})
  BY DEF RevokeArrives
<1>2. t \in OriginalTime .. MaxTime /\ now \in OriginalTime .. MaxTime /\ ledger \in BOOLEAN /\ Good(row, got, now, Own)
  BY IntervalFacts DEF RowInv
<1>3. PICK c : c = Copy("", FALSE, "", "", FALSE, TRUE, FALSE, t)
  OBVIOUS
<1>4. c \in Copies(Own) /\ c.revoked /\ c.text = ""
  BY <1>2, <1>3, OwnFacts DEF Copy, Copies
<1>5. row' = Upsert(row, c, ledger) /\ side' = Added({}) /\ got' = got /\ ledger' = ledger /\ now' = now
  BY <1>1, <1>3 DEF Merge, RevokeArrives
<1>6. Good(Upsert(row, c, ledger), got, now, Own)
  BY <1>2, <1>4, OwnFacts, HidingGood
<1>7. ledger => row' = row
  BY <1>5, <1>2, LedgerUpsert
<1> QED BY <1>5, <1>6, <1>7, StatementKeeps

\* A deletion for me, that arrives or is written by the command.
LEMMA ForMeKeeps ==
  ASSUME RowInv, NEW at \in OriginalTime .. MaxTime,
         \/ row' = MarkDeletedForMe(row, at, ledger)
         \/ row' = row
         \/ row' = MarkDeletedForMePreserveMedia(row, at) /\ row.here,
         now' = now, UNCHANGED <<ledger, side, got>>
  PROVE  RowInv'
<1>1. now \in OriginalTime .. MaxTime /\ ledger \in BOOLEAN /\ Good(row, got, now, Own) /\ RowOK(row, Own)
  BY DEF RowInv, Good
<1>2. Good(row', got', now, Own)
  BY <1>1, OwnFacts, MarkForMeGood
<1>3. ledger /\ row'.here => row.here /\ row'.purged = row.purged
  <2>1. CASE row.here
    <3>1. row' = row \/ row' = ForMeTombstone(row, at) \/ row' = MarkDeletedForMePreserveMedia(row, at)
      BY <2>1 DEF MarkDeletedForMe, ForMeTombstone
    <3>2. PICK q : q = row'
      OBVIOUS
    <3>3. CASE q = ForMeTombstone(row, at)
      <4>1. q.purged = row.purged
        BY <3>3, <2>1, <1>1, OwnFacts, ForMeTombstoneOK
      <4> QED BY <4>1, <3>2, <2>1
    <3>4. CASE q = MarkDeletedForMePreserveMedia(row, at)
      <4>1. q.purged = row.purged
        BY <3>4, <1>1 DEF MarkDeletedForMePreserveMedia, RowOK, Rows, RowsOf
      <4> QED BY <4>1, <3>2, <2>1
    <3> QED BY <3>1, <3>2, <3>3, <3>4, <2>1
  <2>2. CASE ~row.here /\ ledger
    BY <2>2, LedgerUpsert DEF MarkDeletedForMe
  <2> QED BY <2>1, <2>2
<1> QED BY <1>2, <1>3, StatementKeeps

\* The edit or revocation is stored after the server took it.
LEMMA CommandKeeps ==
  ASSUME RowInv, cmd \in Commands, cmd.kind # "none", CommandStore
  PROVE  RowInv'
<1>1. now \in OriginalTime .. MaxTime /\ Good(row, got, now, Own)
  BY DEF RowInv
<1>2. now' = now /\ ledger' = ledger /\ side' = side
  BY DEF CommandStore
<1>3. cmd.text \in Texts
  BY OwnFacts DEF Commands, Texts
<1>4. CASE cmd.kind = "edit"
  <2>1. PICK x : x = Content(cmd.text, TRUE, now)
    OBVIOUS
  <2>2. row' = UpdateText(row, cmd.text, now) /\ got' = IF Visible(row) THEN got \cup {x} ELSE got
    BY <1>4, <2>1 DEF CommandStore
  <2>3. Good(UpdateText(row, cmd.text, now), IF Visible(row) THEN got \cup {x} ELSE got, now, Own)
    BY <1>1, <1>3, <2>1, OwnFacts, UpdateTextGood
  <2>4. row'.here => row.here /\ row'.purged = row.purged
    BY <1>1, <2>2 DEF UpdateText, Visible, Good, RowOK, Rows, RowsOf
  <2> QED BY <1>2, <2>2, <2>3, <2>4, StatementKeeps
<1>5. CASE cmd.kind = "revoke"
  <2>1. row' = MarkRevoked(row, now) /\ got' = got
    BY <1>5 DEF CommandStore
  <2>2. Good(MarkRevoked(row, now), got, now, Own)
    BY <1>1, OwnFacts, MarkRevokedGood
  <2>3. row'.here => row.here /\ row'.purged = row.purged
    BY <1>1, <2>1 DEF MarkRevoked, Tombstone, Good, RowOK, Rows, RowsOf
  <2> QED BY <1>2, <2>1, <2>2, <2>3, StatementKeeps
<1>6. CASE cmd.kind = "revokeUnknown"
  <2>1. row' = row /\ got' = got
    BY <1>6 DEF CommandStore
  <2> QED BY <1>2, <2>1, RowStays
<1> QED BY <1>4, <1>5, <1>6 DEF Commands

\* Purging leaves a tombstone of a purged message, and its name in the ledger.
LEMMA PurgeKeeps ==
  ASSUME RowInv, PurgeMessage
  PROVE  RowInv'
<1>1. Good(row, got, now, Own) /\ row.here /\ Deleted(row)
  BY DEF RowInv, PurgeMessage
<1>2. Good(Purged(row), got, now, Own) /\ Purged(row).purged
  BY <1>1, OwnFacts, PurgedGood
<1>3. row' = Purged(row) /\ ledger' = TRUE /\ side' = {} /\ now' = now /\ got' = got
  BY DEF PurgeMessage
<1> QED BY <1>2, <1>3 DEF RowInv

\* Without its chat there is no row, and nothing that was merged into it.
LEMMA DeleteChatKeeps ==
  ASSUME RowInv, DeleteChat
  PROVE  RowInv'
<1>1. row' = NoRow /\ side' = {} /\ got' = {} /\ ledger' = ledger /\ now' = now
  BY DEF DeleteChat
<1>2. Plausible({}, now, Own)
  BY DEF Plausible
<1>3. Good(NoRow, {}, now, Own)
  BY <1>2, OwnFacts, NoRowOK DEF Good, Shows, Kept, Visible
<1> QED BY <1>1, <1>3, OwnFacts, NoRowOK DEF RowInv

\* Every step keeps the row good.
LEMMA RowKeeps ==
  ASSUME RowInv, HandInv, [Next]_vars
  PROVE  RowInv'
<1>1. CASE Tick \/ StartSync \/ StopSync \/ EditLoad \/ RevokeLoad \/ CommandSend \/ DeleteForMeLoad
  BY <1>1, RowStays DEF Tick, StartSync, StopSync, EditLoad, RevokeLoad, CommandSend, DeleteForMeLoad, storeVars
<1>2. ASSUME NEW t \in Originals, LiveCheck(t) PROVE RowInv'
  BY <1>2, RowStays DEF LiveCheck, storeVars
<1>3. ASSUME NEW t \in Originals, LiveStore(t) PROVE RowInv'
  BY <1>3, OriginalKeeps DEF LiveStore
<1>4. ASSUME NEW t \in Originals, HistoryStore(t) PROVE RowInv'
  BY <1>4, OriginalKeeps DEF HistoryStore
<1>5. ASSUME NEW e \in Edits, EditArrives(e) PROVE RowInv'
  BY <1>5, EditKeeps
<1>6. CASE RevokeArrives
  BY <1>6, RevokeKeeps
<1>7. CASE DeleteForMeArrives
  <2>1. PICK t \in OriginalTime .. now : row' = MarkDeletedForMe(row, t, ledger)
    BY <1>7 DEF DeleteForMeArrives
  <2>2. t \in OriginalTime .. MaxTime
    BY IntervalFacts DEF RowInv
  <2> QED BY <1>7, <2>1, <2>2, ForMeKeeps DEF DeleteForMeArrives
<1>8. CASE VoteArrives
  <2>1. row' = row /\ got' = got /\ now' = now /\ ledger' = ledger /\ (side' = Added({"vote"}) \/ side' = side \ {"vote"})
    BY <1>8 DEF VoteArrives
  <2> QED BY <2>1, StatementKeeps DEF RowInv
<1>9. CASE CommandStore
  BY <1>9, CommandKeeps DEF HandInv, CommandStore
<1>10. CASE DeleteForMeStore
  <2>1. row.here /\ now \in OriginalTime .. MaxTime
    BY <1>10 DEF DeleteForMeStore, HandInv, RowInv
  <2> QED BY <1>10, <2>1, ForMeKeeps DEF DeleteForMeStore
<1>11. CASE PurgeMessage
  BY <1>11, PurgeKeeps
<1>12. CASE DeleteChat
  BY <1>12, DeleteChatKeeps
<1>13. CASE UNCHANGED vars
  BY <1>13, RowStays DEF vars, storeVars
<1> QED
  BY <1>1, <1>2, <1>3, <1>4, <1>5, <1>6, <1>7, <1>8, <1>9, <1>10, <1>11, <1>12, <1>13 DEF Next, Arrival, Command

\* What a statement may do to a row that is there.
Statement(r, q, l) ==
  \/ q = r
  \/ \E c : q = Upsert(r, c, l)
  \/ \E at : q = MarkDeletedForMe(r, at, l)
  \/ \E at : q = MarkDeletedForMePreserveMedia(r, at)
  \/ \E at : q = MarkRevoked(r, at)
  \/ \E text, at : q = UpdateText(r, text, at)
  \/ q = Purged(r)

\* Every step is one statement at most, or removes the row with its chat.
LEMMA OneStatement ==
  ASSUME HandInv, [Next]_vars
  PROVE  Statement(row, row', ledger) \/ (mode = "off" /\ row' = NoRow)
<1>1. CASE Tick \/ StartSync \/ StopSync \/ EditLoad \/ RevokeLoad \/ CommandSend \/ DeleteForMeLoad \/ VoteArrives
           \/ UNCHANGED vars
  BY <1>1
  DEF Tick, StartSync, StopSync, EditLoad, RevokeLoad, CommandSend, DeleteForMeLoad, VoteArrives, storeVars, vars,
      Statement
<1>2. CASE Arrival /\ ~VoteArrives
  BY <1>2
  DEF Arrival, LiveCheck, LiveStore, HistoryStore, MergeOriginal, Merge, EditArrives, RevokeArrives, DeleteForMeArrives,
      storeVars, Statement
<1>3. CASE CommandStore
  <2>1. cmd.kind \in {"edit", "revoke", "revokeUnknown"}
    BY <1>3 DEF CommandStore, HandInv, Commands
  <2>2. row' = row \/ row' = UpdateText(row, cmd.text, now) \/ row' = MarkRevoked(row, now)
    BY <1>3, <2>1 DEF CommandStore
  <2> QED BY <2>2 DEF Statement
<1>4. CASE DeleteForMeStore
  BY <1>4 DEF DeleteForMeStore, Statement
<1>5. CASE PurgeMessage \/ DeleteChat
  BY <1>5 DEF PurgeMessage, DeleteChat, Statement
<1> QED BY <1>1, <1>2, <1>3, <1>4, <1>5 DEF Next, Command

\* No statement removes a row, moves a deletion or takes a mark of one back.
LEMMA StatementFinal ==
  ASSUME NEW r \in Rows(Own), r.here, NEW q, NEW l, Statement(r, q, l)
  PROVE  /\ q.here
         /\ Deleted(r) => q.deletedAt = r.deletedAt
         /\ r.revoked => q.revoked
         /\ r.forMe => q.forMe
<1>1. ASSUME NEW c, q = Upsert(r, c, l), q # r PROVE q.here /\ (Deleted(r) => q.deletedAt = r.deletedAt)
                                                 /\ (r.revoked => q.revoked) /\ (r.forMe => q.forMe)
  <2>1. q = Merged(r, c)
    BY <1>1 DEF Upsert
  <2> QED BY <2>1 DEF Merged, MergedDeletedAt
<1>2. ASSUME NEW at, q = MarkDeletedForMe(r, at, l)
      PROVE  q.here /\ (Deleted(r) => q.deletedAt = r.deletedAt) /\ (r.revoked => q.revoked) /\ q.forMe
  BY <1>2 DEF MarkDeletedForMe, Tombstone, Rows, RowsOf
<1>3. ASSUME NEW at, q = MarkDeletedForMePreserveMedia(r, at)
      PROVE  q.here /\ (Deleted(r) => q.deletedAt = r.deletedAt) /\ (r.revoked => q.revoked) /\ q.forMe
  BY <1>3 DEF MarkDeletedForMePreserveMedia, Rows, RowsOf
<1>4. ASSUME NEW at, q = MarkRevoked(r, at)
      PROVE  q.here /\ (Deleted(r) => q.deletedAt = r.deletedAt) /\ q.revoked /\ (r.forMe => q.forMe)
  BY <1>4 DEF MarkRevoked, Tombstone, Rows, RowsOf
<1>5. ASSUME NEW text, NEW at, q = UpdateText(r, text, at)
      PROVE  q.here /\ q.deletedAt = r.deletedAt /\ (r.revoked => q.revoked) /\ (r.forMe => q.forMe)
  BY <1>5 DEF UpdateText, Rows, RowsOf
<1>6. ASSUME q = Purged(r)
      PROVE  q.here /\ q.deletedAt = r.deletedAt /\ (r.revoked => q.revoked) /\ (r.forMe => q.forMe)
  BY <1>6 DEF Purged, Rows, RowsOf
<1> QED BY <1>1, <1>2, <1>3, <1>4, <1>5, <1>6 DEF Statement

\* A row that a statement leaves or makes a tombstone keeps its content.
LEMMA StatementKeepsContent ==
  ASSUME NEW r \in Rows(Own), r.here, r.text # "", NEW q, NEW l, Statement(r, q, l), Deleted(q), ~q.purged
  PROVE  q.text = r.text
<1>1. ASSUME NEW c, q = Upsert(r, c, l), q # r PROVE q.text = r.text
  <2>1. q = Merged(r, c)
    BY <1>1 DEF Upsert
  <2>2. q.deletedAt = MergedDeletedAt(r, c) /\ q.text = MergedText(r, c)
    BY <2>1 DEF Merged
  <2>3. Deleted(r) \/ DeletesAt(c) # 0
    BY <2>2 DEF Deleted, MergedDeletedAt
  <2> QED BY <2>2, <2>3 DEF MergedText, First
<1>2. ASSUME NEW at, q = MarkDeletedForMe(r, at, l) PROVE q.text = r.text
  BY <1>2 DEF MarkDeletedForMe, Tombstone, Rows, RowsOf
<1>3. ASSUME NEW at, q = MarkDeletedForMePreserveMedia(r, at) PROVE q.text = r.text
  BY <1>3 DEF MarkDeletedForMePreserveMedia, Rows, RowsOf
<1>4. ASSUME NEW at, q = MarkRevoked(r, at) PROVE q.text = r.text
  BY <1>4 DEF MarkRevoked, Tombstone, Rows, RowsOf
<1>5. ASSUME NEW text, NEW at, q = UpdateText(r, text, at) PROVE q.text = r.text
  <2>1. q # r => q.deletedAt = r.deletedAt /\ ~Deleted(r)
    BY <1>5 DEF UpdateText, Visible, Rows, RowsOf
  <2> QED BY <2>1 DEF Deleted
<1>6. q # Purged(r)
  BY DEF Purged, Rows, RowsOf
<1> QED BY <1>1, <1>2, <1>3, <1>4, <1>5, <1>6 DEF Statement

\* The statements of a sync never remove the row.
LEMMA RowRemains ==
  ASSUME RowInv, HandInv, [Next]_vars, row.here
  PROVE  row'.here \/ (mode = "off" /\ row' = NoRow)
<1>1. row \in Rows(Own)
  BY DEF RowInv, Good, RowOK
<1> QED BY <1>1, OneStatement, StatementFinal

\* What the handlers have in hand stays what they loaded.
LEMMA HandKeeps ==
  ASSUME RowInv, HandInv, [Next]_vars
  PROVE  HandInv'
<1>1. now \in Times
  BY TimesFacts DEF RowInv
<1>2. CASE Tick \/ StartSync \/ UNCHANGED vars
  BY <1>2 DEF Tick, StartSync, vars, storeVars, HandInv
<1>3. CASE StopSync
  BY <1>3, TimesFacts DEF StopSync, storeVars, HandInv, NoCmd, Commands
<1>4. ASSUME NEW t \in Originals, LiveCheck(t) \/ LiveStore(t) \/ HistoryStore(t)
      PROVE  HandInv'
  <2>1. forMe = "loaded" => row'.here
    BY RowRemains DEF HandInv
  <2>2. live' \subseteq Originals /\ UNCHANGED <<mode, cmd, forMe>>
    BY <1>4 DEF HandInv, LiveCheck, LiveStore, HistoryStore
  <2> QED BY <2>1, <2>2 DEF HandInv
<1>5. CASE (\E e \in Edits : EditArrives(e)) \/ RevokeArrives \/ DeleteForMeArrives \/ VoteArrives
  <2>1. mode = "sync" /\ UNCHANGED <<mode, live, cmd, forMe>>
    BY <1>5 DEF EditArrives, RevokeArrives, DeleteForMeArrives, VoteArrives
  <2>2. row.here => row'.here
    BY <2>1, RowRemains
  <2> QED BY <2>1, <2>2 DEF HandInv
<1>6. CASE EditLoad \/ RevokeLoad
  <2>1. cmd' \in Commands /\ cmd'.kind # "none"
    <3>1. ASSUME NEW k \in {"edit", "revoke", "revokeUnknown"}, NEW t \in EditTexts \cup {""},
                 cmd' = [kind |-> k, at |-> "loaded", text |-> t]
          PROVE  cmd' \in Commands /\ cmd'.kind # "none"
      BY <3>1, TimesFacts DEF Commands
    <3>2. CASE EditLoad
      BY <3>1, <3>2 DEF EditLoad
    <3>3. CASE RevokeLoad
      BY <3>1, <3>3 DEF RevokeLoad
    <3> QED BY <1>6, <3>2, <3>3
  <2>2. UNCHANGED <<mode, row, live, forMe>>
    BY <1>6 DEF EditLoad, RevokeLoad, storeVars
  <2> QED BY <2>1, <2>2 DEF HandInv
<1>7. CASE CommandSend
  <2>1. cmd' \in Commands /\ (cmd'.kind = "none" => cmd'.at = "idle")
    <3>1. NoCmd \in Commands /\ NoCmd.at = "idle"
      BY TimesFacts DEF NoCmd, Commands
    <3>2. CASE cmd.at = "loaded" /\ cmd' = [cmd EXCEPT !.at = "sent"]
      BY <3>2, <1>1 DEF HandInv, Commands
    <3> QED BY <1>7, <3>1, <3>2 DEF CommandSend
  <2>2. UNCHANGED <<mode, row, live, forMe>>
    BY <1>7 DEF CommandSend, storeVars
  <2> QED BY <2>1, <2>2 DEF HandInv
<1>8. CASE CommandStore
  <2>1. cmd' \in Commands /\ cmd'.at = "idle"
    BY <1>8, TimesFacts DEF CommandStore, Commands, NoCmd
  <2>2. UNCHANGED <<mode, live, forMe>>
    BY <1>8 DEF CommandStore
  <2>3. forMe = "loaded" => row'.here
    BY RowRemains DEF HandInv
  <2> QED BY <2>1, <2>2, <2>3 DEF HandInv
<1>9. CASE DeleteForMeLoad \/ DeleteForMeStore
  BY <1>9 DEF DeleteForMeLoad, DeleteForMeStore, storeVars, HandInv
<1>10. CASE PurgeMessage \/ DeleteChat
  BY <1>10 DEF PurgeMessage, DeleteChat, HandInv
<1> QED BY <1>2, <1>3, <1>4, <1>5, <1>6, <1>7, <1>8, <1>9, <1>10 DEF Next, Arrival, Command

-----------------------------------------------------------------------------
(* The theorems. *)

\* The inductive invariant holds in every state.
THEOREM Invariance == Spec => []IInv
<1>1. IInv /\ [Next]_vars => IInv'
  BY RowKeeps, HandKeeps DEF IInv
<1> QED BY InitKeeps, <1>1, PTL DEF Spec

\* Every variable has its type, a row that is not there is empty, and every
\* kind of deletion has a time: the columns the upsert writes stay consistent.
THEOREM TypeCorrect == Spec => []TypeOK
<1>1. IInv => TypeOK
  BY OwnFacts DEF IInv, RowInv, HandInv, Good, RowOK, Rows, Plausible, Contents, ContentsOf, TypeOK
<1> QED BY Invariance, <1>1, PTL

\* In whatever order original, edits from elsewhere, edits of the user and their
\* repetitions are merged, the row that is seen shows the newest content.
THEOREM NewestShown == Spec => []ShowsNewest
<1>1. IInv => ShowsNewest
  <2> SUFFICES ASSUME IInv, Visible(row) PROVE \E c \in got : row.text = c.text /\ \A d \in got : ~Newer(d, c)
    BY DEF ShowsNewest
  <2>1. Plausible(got, now, Own) /\ (IF row.edited THEN ShowsEdit(row, got) ELSE ShowsOriginal(row, got))
    BY DEF IInv, RowInv, Good, Shows
  <2>2. \A d \in got : d.ts \in Nat /\ (~d.edited => d.ts = OriginalTime) /\ d.edited \in BOOLEAN
    BY <2>1, TimesFacts DEF Plausible, ContentsOf
  <2>3. CASE row.edited
    <3>1. PICK c \in got : c.edited /\ c.ts = row.editedTs /\ c.text = row.text
      BY <2>1, <2>3 DEF ShowsEdit
    <3>2. \A d \in got : d.edited => d.ts <= c.ts
      BY <2>1, <2>3, <3>1 DEF ShowsEdit
    <3>3. \A d \in got : d.edited => ~(d.ts > c.ts)
      BY <3>2, <2>2, <3>1
    <3>4. \A d \in got : ~Newer(d, c)
      BY <3>1, <3>3 DEF Newer
    <3> QED BY <3>1, <3>4
  <2>4. CASE ~row.edited
    <3>1. PICK c \in got : ~c.edited /\ c.text = row.text
      BY <2>1, <2>4 DEF ShowsOriginal
    <3>2. \A d \in got : ~d.edited /\ d.ts = c.ts /\ d.ts \in Nat
      BY <2>1, <2>2, <2>4, <3>1 DEF ShowsOriginal
    <3>3. \A d \in got : ~(d.ts > c.ts)
      BY <3>2
    <3>4. \A d \in got : ~Newer(d, c)
      BY <3>1, <3>2, <3>3 DEF Newer
    <3> QED BY <3>1, <3>4
  <2> QED BY <2>3, <2>4
<1> QED BY Invariance, <1>1, PTL

\* An edit that overtook its message does not keep the message at the edit's time.
THEOREM OriginalTimeKept == Spec => []StandsAtOriginalTime
<1>1. IInv => StandsAtOriginalTime
  BY OwnFacts DEF IInv, RowInv, Good, Shows, StandsAtOriginalTime
<1> QED BY Invariance, <1>1, PTL

\* A tombstone has content if its message ever had, until it is purged.
THEOREM TombstoneHasContent == Spec => []TombstoneKeepsContent
<1>1. IInv => TombstoneKeepsContent
  BY DEF IInv, RowInv, Good, Kept, TombstoneKeepsContent, Unblanked
<1> QED BY Invariance, <1>1, PTL

\* No copy, edit or vote brings back what PurgeMessage removed, also not after
\* DeleteChat.
THEOREM PurgeHolds == Spec => []PurgeIsFinal
<1>1. IInv => PurgeIsFinal
  BY DEF IInv, RowInv, Good, RowOK, PurgeIsFinal
<1> QED BY Invariance, <1>1, PTL

\* A deletion that is stored is never undone, moved to another time or weakened
\* by a copy, a command or a late answer; only DeleteChat removes the row.
THEOREM DeletionHolds == Spec => DeletionIsFinal
<1>1. IInv /\ [Next]_vars =>
        (row.here => \/ mode = "off" /\ row' = NoRow
                     \/ /\ row'.here
                        /\ Deleted(row) => row'.deletedAt = row.deletedAt
                        /\ row.revoked => row'.revoked
                        /\ row.forMe => row'.forMe)
  <2>1. IInv => row \in Rows(Own)
    BY DEF IInv, RowInv, Good, RowOK
  <2> QED BY <2>1, OneStatement, StatementFinal DEF IInv
<1> QED BY Invariance, <1>1, PTL DEF Spec, DeletionIsFinal

\* Deleting a message keeps what was shown, and so does every copy that arrives
\* at the tombstone.
THEOREM DeletionIsLossless == Spec => DeletionKeepsContent
<1>1. IInv /\ [Next]_vars =>
        (row.here /\ row'.here /\ Deleted(row') /\ ~row'.purged /\ row.text # "" => row'.text = row.text)
  <2>1. IInv => row \in Rows(Own)
    BY DEF IInv, RowInv, Good, RowOK
  <2>2. ~NoRow.here
    BY OwnFacts, NoRowOK
  <2> QED BY <2>1, <2>2, OneStatement, StatementKeepsContent DEF IInv
<1> QED BY Invariance, <1>1, PTL DEF Spec, DeletionKeepsContent

-----------------------------------------------------------------------------
(* ReadState: what arrived and is not read stays counted.                    *)

LiveStates ==
  [at : {"idle", "count"}] \cup [at : {"store"}, m : M, c : {"text", "bare"}, counts : BOOLEAN]
Positions == [ts : Nat, ids : SUBSET M]
ReadCommands ==
  [at : {"idle", "blind", "marker"}] \cup [at : {"read"}, pos : Positions, preserve : BOOLEAN]

ReadTypes ==
  /\ rows \in [M -> Nat] /\ content \in [M -> {"no", "bare", "text", "gone"}]
  /\ count \in Nat /\ marked \in BOOLEAN /\ owed \subseteq M /\ flagged \in BOOLEAN
  /\ live \in LiveStates /\ cmd \in ReadCommands

\* What is owed is counted, but for the one about to be.
OwedIsCounted == Cardinality(owed) <= count + (IF live.at = "count" THEN 1 ELSE 0)

ReadInv == ReadTypes /\ OwedIsCounted /\ (count > 0 => marked) /\ Read!MarkerKept

LEMMA SameCardinality == \A S : Read!Cardinality(S) = Cardinality(S)
  BY Zenon DEF Read!Cardinality, Cardinality

LEMMA LiveFacts ==
  ASSUME NEW l \in LiveStates
  PROVE  /\ l.at \in {"idle", "store", "count"}
         /\ l.at = "store" => l.m \in M /\ l.c \in {"text", "bare"} /\ l.counts \in BOOLEAN
  BY DEF LiveStates

LEMMA ReadCommandFacts ==
  ASSUME NEW c \in ReadCommands
  PROVE  /\ c.at \in {"idle", "blind", "marker", "read"}
         /\ c.at = "read" => c.pos \in Positions /\ c.preserve \in BOOLEAN
<1>1. CASE c \in [at : {"idle", "blind", "marker"}]  BY <1>1
<1>2. CASE c \in [at : {"read"}, pos : Positions, preserve : BOOLEAN]  BY <1>2
<1>. QED  BY <1>1, <1>2 DEF ReadCommands

LEMMA ReadStarts == Read!Init => ReadInv
<1>. SUFFICES ASSUME Read!Init PROVE ReadInv  OBVIOUS
<1>1. ReadTypes  BY DEF Read!Init, Read!Free, ReadTypes, LiveStates, ReadCommands
<1>2. OwedIsCounted  BY FS_EmptySet DEF Read!Init, Read!Free, OwedIsCounted
<1>. QED  BY <1>1, <1>2 DEF Read!Init, ReadInv, Read!MarkerKept

\* A set of rows has a newest one: the fewer follow it, the later a row is.
LEMMA NewestExists ==
  ASSUME ReadTypes, NEW S \in SUBSET M, S # {}
  PROVE  Read!NewestOf(S) \in S
<1>. DEFINE After(m) == {k \in S : Read!Before(m, k)}
            D == {Cardinality(After(m)) : m \in S}
<1>1. IsFiniteSet(S)  BY ReadAssumption, FS_Subset
<1>2. \A m \in S : IsFiniteSet(After(m)) /\ Cardinality(After(m)) \in Nat
  BY <1>1, FS_Subset, FS_CardinalityType
<1>3. D \subseteq Nat /\ D # {}  BY <1>2
<1>4. PICK d \in D : \A e \in D : ~ (<<e, d>> \in OpToRel(<, Nat))
  <2>. HIDE DEF D
  <2>. QED  BY <1>3, WFMin, NatLessThanWellFounded, Zenon
<1>5. PICK m \in S : d = Cardinality(After(m))  OBVIOUS
<1>6. \A k \in S : ~Read!Before(m, k)
  <2>1. SUFFICES ASSUME NEW k \in S, Read!Before(m, k) PROVE FALSE  OBVIOUS
  <2>2. After(k) \subseteq After(m) /\ k \in After(m) /\ k \notin After(k)
    BY <2>1, ReadAssumption DEF Read!Before, ReadTypes
  <2>3. Cardinality(After(k)) < Cardinality(After(m))
    <3>. HIDE DEF After
    <3>. QED  BY <1>2, <2>2, FS_Subset
  <2>4. Cardinality(After(k)) \in D  OBVIOUS
  <2>. QED  BY <1>2, <1>4, <1>5, <2>3, <2>4 DEF OpToRel
<1>. QED  BY <1>6 DEF Read!NewestOf

\* A row that a read does not reach remains.
LEMMA RestRemains ==
  ASSUME ReadTypes, NEW pos \in Positions
  PROVE  M \ Read!Reached(pos) \subseteq Read!Beyond(pos)
  BY ReadAssumption DEF ReadTypes, Positions, Read!Reached, Read!Beyond

\* Lowering the counter to what remains keeps what is not reached, and the marker.
LEMMA ReadKeeps ==
  ASSUME ReadInv, NEW pos \in Positions, NEW preserve \in BOOLEAN,
         Read!Through(pos, preserve), Read!Covered(pos, preserve), UNCHANGED <<rows, content, live>>
  PROVE  /\ count' \in Nat /\ marked' \in BOOLEAN /\ owed' \subseteq M /\ flagged' \in BOOLEAN
         /\ OwedIsCounted' /\ (count' > 0 => marked') /\ (flagged' => marked')
<1>. DEFINE rest == Read!Readable \cap Read!Beyond(pos)
            due == (owed \cap Read!Readable) \ Read!Reached(pos)
<1>1. /\ count \in Nat /\ marked \in BOOLEAN /\ owed \subseteq M /\ flagged \in BOOLEAN
      /\ OwedIsCounted /\ (count > 0 => marked) /\ (flagged => marked)
  BY DEF ReadInv, ReadTypes, Read!MarkerKept
<1>2. rest \subseteq M /\ IsFiniteSet(rest) /\ Cardinality(rest) \in Nat
  <2>1. rest \subseteq M  BY DEF Read!Readable
  <2>. HIDE DEF rest
  <2>. QED  BY <2>1, ReadAssumption, FS_Subset, FS_CardinalityType
<1>3. /\ count' = Read!Lesser(count, Cardinality(rest))
      /\ marked' = ((preserve /\ count = 0 /\ marked /\ Cardinality(rest) > 0)
                      \/ Read!Lesser(count, Cardinality(rest)) > 0)
  BY SameCardinality, Zenon DEF Read!Through
<1>4. owed' = due /\ flagged' = (flagged /\ preserve /\ ~(Read!Readable \subseteq Read!Reached(pos)))
  BY DEF Read!Covered
<1>5. M \ Read!Reached(pos) \subseteq Read!Beyond(pos)  BY RestRemains DEF ReadInv
<1>6. due \subseteq rest /\ due \subseteq owed  BY <1>1, <1>5 DEF Read!Readable
<1>7. /\ Cardinality(due) <= Cardinality(rest) /\ Cardinality(due) <= Cardinality(owed)
      /\ Cardinality(due) \in Nat /\ Cardinality(owed) \in Nat
  <2>1. IsFiniteSet(owed)  BY <1>1, ReadAssumption, FS_Subset
  <2>. HIDE DEF due, rest
  <2>. QED  BY <1>2, <1>6, <2>1, FS_Subset, FS_CardinalityType
<1>9. OwedIsCounted'
  <2>. HIDE DEF due, rest
  <2>. QED  BY <1>1, <1>2, <1>3, <1>4, <1>7 DEF Read!Lesser, OwedIsCounted
<1>10. flagged' => Cardinality(rest) > 0
  <2>1. SUFFICES ASSUME flagged' PROVE Cardinality(rest) > 0  OBVIOUS
  <2>2. rest # {}  BY <1>4, <1>5, <2>1 DEF Read!Readable
  <2>. HIDE DEF rest
  <2>. QED  BY <1>2, <2>2, FS_EmptySet
<1>. HIDE DEF rest
<1>. QED  BY <1>1, <1>2, <1>3, <1>4, <1>9, <1>10 DEF Read!Lesser

\* A row that is stored keeps its place; a new one comes last.
LEMMA RowsStay ==
  ASSUME ReadTypes, NEW m \in M
  PROVE  Read!Stored(m) \in [M -> Nat]
<1>1. Read!Present \subseteq M  BY DEF Read!Present
<1>2. Cardinality(Read!Present) \in Nat  BY <1>1, ReadAssumption, FS_Subset, FS_CardinalityType
<1>3. Read!Stored(m) = IF m \in Read!Present THEN rows ELSE [rows EXCEPT ![m] = Cardinality(Read!Present) + 1]
  BY SameCardinality, Zenon DEF Read!Stored
<1>. QED  BY <1>2, <1>3 DEF ReadTypes

\* Fewer rows, or fewer that count, are owed no more.
LEMMA OwedShrinks ==
  ASSUME ReadTypes, NEW S \in SUBSET M, NEW T \in SUBSET M, S \subseteq T
  PROVE  Cardinality(S) <= Cardinality(T) /\ Cardinality(S) \in Nat /\ Cardinality(T) \in Nat
<1>1. IsFiniteSet(T)  BY ReadAssumption, FS_Subset
<1>. QED  BY <1>1, FS_Subset, FS_CardinalityType

\* Arrivals.
LEMMA LiveKeeps ==
  ASSUME ReadInv, (\E m \in M, c \in {"text", "bare"} : Read!LiveLoad(m, c)) \/ Read!LiveStore \/ Read!LiveCount
  PROVE  ReadInv'
<1>1. ReadTypes /\ OwedIsCounted /\ (count > 0 => marked) /\ (flagged => marked)  BY DEF ReadInv, Read!MarkerKept
<1>2. owed \in SUBSET M /\ Cardinality(owed) \in Nat /\ count \in Nat
  BY <1>1, OwedShrinks DEF ReadTypes
<1>3. Positions' = Positions /\ ReadCommands' = ReadCommands /\ LiveStates' = LiveStates
  BY DEF Positions, ReadCommands, LiveStates
<1>4. ASSUME NEW m \in M, NEW c \in {"text", "bare"}, Read!LiveLoad(m, c) PROVE ReadInv'
  <2>1. live' = [at |-> "store", m |-> m, c |-> c, counts |-> c = "text" /\ content[m] \in {"no", "bare"}]
        /\ UNCHANGED <<rows, content, count, marked, cmd, owed, flagged>> /\ live.at = "idle"
    BY <1>4 DEF Read!LiveLoad, Read!Free
  <2>2. live' \in LiveStates  BY <2>1 DEF LiveStates
  <2>3. ReadTypes'  BY <1>1, <1>3, <2>1, <2>2 DEF ReadTypes
  <2>4. OwedIsCounted'
    <3>1. live'.at = "store"  BY <2>1
    <3>. QED  BY <1>1, <2>1, <3>1 DEF OwedIsCounted
  <2>. QED  BY <1>1, <2>1, <2>3, <2>4 DEF ReadInv, Read!MarkerKept
<1>5. CASE Read!LiveStore
  <2>1. /\ live.at = "store" /\ live.m \in M /\ live.c \in {"text", "bare"} /\ live.counts \in BOOLEAN
    BY <1>1, <1>5, LiveFacts DEF Read!LiveStore, ReadTypes
  <2>2. /\ rows' = Read!Stored(live.m)
        /\ content' = [content EXCEPT ![live.m] = Read!Upserted(live.m, live.c)]
        /\ live' = IF live.counts THEN [at |-> "count"] ELSE Read!Free
        /\ owed' = IF live.counts THEN owed \cup {live.m} ELSE owed
        /\ UNCHANGED <<count, marked, cmd, flagged>>
    BY <1>5 DEF Read!LiveStore
  <2>3. ReadTypes'
    <3>1. rows' \in [M -> Nat]  BY <1>1, <2>1, <2>2, RowsStay
    <3>2. content' \in [M -> {"no", "bare", "text", "gone"}]  BY <1>1, <2>1, <2>2 DEF ReadTypes, Read!Upserted
    <3>3. live' \in LiveStates  BY <2>2 DEF LiveStates, Read!Free
    <3>4. owed' \subseteq M  BY <1>1, <2>1, <2>2 DEF ReadTypes
    <3>. QED  BY <1>1, <1>3, <2>2, <3>1, <3>2, <3>3, <3>4 DEF ReadTypes
  <2>4. OwedIsCounted'
    <3>1. CASE live.counts
      <4>1. live'.at = "count" /\ owed' = owed \cup {live.m}  BY <2>1, <2>2, <3>1
      <4>2. Cardinality(owed \cup {live.m}) <= Cardinality(owed) + 1
        <5>1. IsFiniteSet(owed)  BY <1>2, ReadAssumption, FS_Subset
        <5>. QED  BY <1>2, <5>1, FS_AddElement
      <4>3. Cardinality(owed \cup {live.m}) \in Nat
        <5>1. owed \cup {live.m} \in SUBSET M  BY <1>2, <2>1
        <5>. QED  BY <1>1, <5>1, OwedShrinks
      <4>. QED  BY <1>1, <1>2, <2>1, <2>2, <4>1, <4>2, <4>3 DEF OwedIsCounted
    <3>2. CASE ~live.counts
      <4>1. owed' = owed /\ live'.at = "idle"  BY <2>2, <3>2 DEF Read!Free
      <4>. QED  BY <1>1, <2>1, <2>2, <4>1 DEF OwedIsCounted
    <3>. QED  BY <3>1, <3>2
  <2>. QED  BY <1>1, <2>2, <2>3, <2>4 DEF ReadInv, Read!MarkerKept
<1>6. CASE Read!LiveCount
  <2>1. live.at = "count" /\ count' = count + 1 /\ marked' = TRUE /\ live' = [at |-> "idle"]
        /\ UNCHANGED <<rows, content, cmd, owed, flagged>>
    BY <1>6 DEF Read!LiveCount, Read!Free
  <2>2. ReadTypes'  BY <1>1, <1>3, <2>1 DEF ReadTypes, LiveStates
  <2>3. OwedIsCounted'  BY <1>1, <1>2, <2>1 DEF OwedIsCounted
  <2>. QED  BY <1>1, <2>1, <2>2, <2>3 DEF ReadInv, Read!MarkerKept
<1>. QED  BY <1>4, <1>5, <1>6

\* What history stores and the phone reports, and revocations.
LEMMA ReportKeeps ==
  ASSUME ReadInv,
         \/ \E m \in M, c \in {"text", "bare"} : Read!HistoryStore(m, c)
         \/ \E m \in M : Read!Revoke(m)
         \/ \E n \in Reported, mark \in BOOLEAN : Read!HistoryCount(n, mark)
  PROVE  ReadInv'
<1>1. ReadTypes /\ OwedIsCounted /\ (count > 0 => marked) /\ (flagged => marked)  BY DEF ReadInv, Read!MarkerKept
<1>2. Positions' = Positions /\ ReadCommands' = ReadCommands /\ LiveStates' = LiveStates
  BY DEF Positions, ReadCommands, LiveStates
<1>3. ASSUME NEW m \in M, NEW c \in {"bare", "text", "gone"}, rows' = Read!Stored(m),
             content' = [content EXCEPT ![m] = c], UNCHANGED <<count, marked, live, cmd, owed, flagged>>
      PROVE  ReadInv'
  <2>1. rows' \in [M -> Nat]  BY <1>1, <1>3, RowsStay
  <2>2. content' \in [M -> {"no", "bare", "text", "gone"}]  BY <1>1, <1>3 DEF ReadTypes
  <2>3. ReadTypes'  BY <1>1, <1>2, <1>3, <2>1, <2>2 DEF ReadTypes
  <2>. QED  BY <1>1, <1>3, <2>3 DEF ReadInv, OwedIsCounted, Read!MarkerKept
<1>4. ASSUME NEW m \in M, NEW c \in {"text", "bare"}, Read!HistoryStore(m, c) PROVE ReadInv'
  <2>1. Read!Upserted(m, c) \in {"bare", "text", "gone"}  BY DEF Read!Upserted
  <2>. QED  BY <1>3, <1>4, <2>1 DEF Read!HistoryStore
<1>5. ASSUME NEW m \in M, Read!Revoke(m) PROVE ReadInv'
  BY <1>3, <1>5 DEF Read!Revoke
<1>6. ASSUME NEW n \in Reported, NEW mark \in BOOLEAN, Read!HistoryCount(n, mark) PROVE ReadInv'
  <2>1. /\ count' = IF n = 0 /\ mark THEN count ELSE n
        /\ marked' = (n > 0 \/ mark)
        /\ owed' = IF n = 0 /\ mark THEN owed ELSE {}
        /\ flagged' = (flagged /\ marked')
        /\ UNCHANGED <<rows, content, live, cmd>>
    BY <1>6 DEF Read!HistoryCount
  <2>2. n \in Nat  BY ReadAssumption
  <2>3. ReadTypes'  BY <1>1, <1>2, <2>1, <2>2 DEF ReadTypes
  <2>4. OwedIsCounted'
    <3>1. CASE n = 0 /\ mark  BY <1>1, <2>1, <3>1 DEF OwedIsCounted
    <3>2. CASE ~(n = 0 /\ mark)
      <4>1. owed' = {} /\ count' = n  BY <2>1, <3>2
      <4>. QED  BY <2>1, <2>2, <4>1, FS_EmptySet DEF OwedIsCounted
    <3>. QED  BY <3>1, <3>2
  <2>. QED  BY <1>1, <2>1, <2>2, <2>3, <2>4 DEF ReadInv, Read!MarkerKept
<1>. QED  BY <1>4, <1>5, <1>6

\* What a command picks is a second and rows of the chat.
LEMMA PickKeeps ==
  ASSUME ReadInv,
         \/ Read!MarkReadCapture \/ Read!MarkReadFail
         \/ \E m \in M : Read!MarkReadThrough(m) \/ Read!ReceiptsSelect({m})
         \/ Read!ReceiptsSelect({})
  PROVE  ReadInv'
<1>1. ReadTypes /\ OwedIsCounted /\ (count > 0 => marked) /\ (flagged => marked)  BY DEF ReadInv, Read!MarkerKept
<1>2. Positions' = Positions /\ ReadCommands' = ReadCommands /\ LiveStates' = LiveStates
  BY DEF Positions, ReadCommands, LiveStates
<1>3. Read!Unread /\ cmd' \in ReadCommands => ReadInv'
  <2>1. SUFFICES ASSUME Read!Unread, cmd' \in ReadCommands PROVE ReadInv'  OBVIOUS
  <2>2. UNCHANGED <<rows, content, count, marked, live, owed, flagged>>  BY <2>1 DEF Read!Unread
  <2>3. ReadTypes'  BY <1>1, <1>2, <2>1, <2>2 DEF ReadTypes
  <2>4. OwedIsCounted'  BY <1>1, <2>2 DEF OwedIsCounted
  <2>. QED  BY <1>1, <2>2, <2>3, <2>4 DEF ReadInv, Read!MarkerKept
<1>4. Read!Free \in ReadCommands  BY DEF Read!Free, ReadCommands
<1>5. \A m \in M, ids \in SUBSET M, p \in BOOLEAN :
        [at |-> "read", pos |-> Read!Position(Ts[m], ids), preserve |-> p] \in ReadCommands
  <2>1. \A m \in M, ids \in SUBSET M : Read!Position(Ts[m], ids) \in Positions
    BY ReadAssumption DEF Read!Position, Positions
  <2>. QED  BY <2>1 DEF ReadCommands
<1>6. ASSUME Read!MarkReadCapture PROVE ReadInv'
  <2>1. Read!Unread  BY <1>6 DEF Read!MarkReadCapture
  <2>2. CASE Read!Present = {}
    <3>1. cmd' = [at |-> "blind"]  BY <1>6, <2>2 DEF Read!MarkReadCapture
    <3>2. cmd' \in ReadCommands  BY <3>1 DEF ReadCommands
    <3>. QED  BY <1>3, <2>1, <3>2
  <2>3. CASE Read!Present # {}
    <3>. DEFINE last == Read!NewestOf(Read!Present)
    <3>1. last \in M
      <4>1. Read!Present \in SUBSET M  BY DEF Read!Present
      <4>. QED  BY <1>1, <2>3, <4>1, NewestExists
    <3>2. cmd' = [at |-> "read", pos |-> Read!Position(Ts[last], {last}), preserve |-> FALSE]
      BY <1>6, <2>3, Zenon DEF Read!MarkReadCapture
    <3>. HIDE DEF last
    <3>3. cmd' \in ReadCommands  BY <1>5, <3>1, <3>2
    <3>. QED  BY <1>3, <2>1, <3>3
  <2>. QED  BY <2>2, <2>3
<1>7. ASSUME Read!MarkReadFail PROVE ReadInv'
  BY <1>3, <1>4, <1>7 DEF Read!MarkReadFail
<1>8. ASSUME NEW m \in M, Read!MarkReadThrough(m) PROVE ReadInv'
  <2>1. cmd' \in ReadCommands  BY <1>5, <1>8 DEF Read!MarkReadThrough
  <2>. QED  BY <1>3, <1>8, <2>1 DEF Read!MarkReadThrough
<1>9. ASSUME NEW anchors, Read!ReceiptsSelect(anchors) PROVE ReadInv'
  <2>. DEFINE sel == Read!Candidates(anchors)
              last == Read!NewestOf(sel)
              read == [at |-> "read", pos |-> Read!Position(Ts[last], {last}), preserve |-> anchors # {}]
  <2>1. sel \in SUBSET M
    BY DEF Read!Candidates, Read!LastN, Read!FirstN, Read!Readable
  <2>2. Read!Unread  BY <1>9, Zenon DEF Read!ReceiptsSelect
  <2>3. \/ sel # {} /\ cmd' = read
        \/ cmd' = [at |-> "marker"] \/ cmd' = Read!Free
    <3>1. cmd' = CASE sel # {} -> read
                   [] sel = {} /\ anchors = {} -> [at |-> "marker"]
                   [] OTHER -> Read!Free
      BY <1>9 DEF Read!ReceiptsSelect
    <3>. HIDE DEF sel, read
    <3>. QED  BY <3>1
  <2>4. sel # {} => read \in ReadCommands
    <3>. HIDE DEF sel
    <3>1. sel # {} => last \in M  BY <1>1, <2>1, NewestExists
    <3>. HIDE DEF last
    <3>. QED  BY <1>5, <3>1
  <2>5. cmd' \in ReadCommands
    <3>. HIDE DEF sel, read
    <3>1. [at |-> "marker"] \in ReadCommands  BY DEF ReadCommands
    <3>. QED  BY <1>4, <2>3, <2>4, <3>1
  <2>. QED  BY <1>3, <2>2, <2>5
<1>. QED  BY <1>6, <1>7, <1>8, <1>9

\* The reads, and the marks.
LEMMA ReadingKeeps ==
  ASSUME ReadInv,
         \/ \E m \in M : Read!PhoneRead(m)
         \/ \E ts \in {Ts[m] : m \in M} : Read!PhoneReadUntil(ts)
         \/ Read!MarkReadApply
  PROVE  ReadInv'
<1>1. ReadTypes /\ OwedIsCounted /\ (count > 0 => marked) /\ (flagged => marked)  BY DEF ReadInv, Read!MarkerKept
<1>2. Positions' = Positions /\ ReadCommands' = ReadCommands /\ LiveStates' = LiveStates
  BY DEF Positions, ReadCommands, LiveStates
<1>3. ASSUME NEW pos \in Positions, NEW p \in BOOLEAN, Read!Through(pos, p), Read!Covered(pos, p),
             UNCHANGED <<rows, content, live>>, cmd' \in ReadCommands
      PROVE  ReadInv'
  <2>1. /\ count' \in Nat /\ marked' \in BOOLEAN /\ owed' \subseteq M /\ flagged' \in BOOLEAN
        /\ OwedIsCounted' /\ (count' > 0 => marked') /\ (flagged' => marked')
    BY <1>3, ReadKeeps
  <2>. QED  BY <1>1, <1>2, <1>3, <2>1 DEF ReadInv, ReadTypes, Read!MarkerKept
<1>4. \A m \in M, ids \in SUBSET M : Read!Position(Ts[m], ids) \in Positions
  BY ReadAssumption DEF Read!Position, Positions
<1>5. Read!Free \in ReadCommands /\ cmd \in ReadCommands  BY <1>1 DEF Read!Free, ReadCommands, ReadTypes
<1>6. ASSUME NEW m \in M, Read!PhoneRead(m) PROVE ReadInv'
  <2>. DEFINE pos == Read!Position(Ts[m], {m})
  <2>1. pos \in Positions /\ (pos.ids # {}) \in BOOLEAN  BY <1>4
  <2>2. Read!Through(pos, pos.ids # {}) /\ Read!Covered(pos, pos.ids # {}) /\ UNCHANGED <<rows, content, live, cmd>>
    BY <1>6, Zenon DEF Read!PhoneRead, Read!ClearFromEvent
  <2>. HIDE DEF pos
  <2>. QED  BY <1>3, <1>5, <2>1, <2>2
<1>7. ASSUME NEW ts \in {Ts[m] : m \in M}, Read!PhoneReadUntil(ts) PROVE ReadInv'
  <2>. DEFINE pos == Read!Position(ts, {})
  <2>1. pos \in Positions /\ (pos.ids # {}) \in BOOLEAN  BY <1>4
  <2>2. Read!Through(pos, pos.ids # {}) /\ Read!Covered(pos, pos.ids # {}) /\ UNCHANGED <<rows, content, live, cmd>>
    BY <1>7, Zenon DEF Read!PhoneReadUntil, Read!ClearFromEvent
  <2>. HIDE DEF pos
  <2>. QED  BY <1>3, <1>5, <2>1, <2>2
<1>8. CASE Read!MarkReadApply
  <2>1. cmd.pos \in Positions /\ cmd.preserve \in BOOLEAN  BY <1>5, <1>8, ReadCommandFacts DEF Read!MarkReadApply
  <2>. QED  BY <1>3, <1>5, <1>8, <2>1 DEF Read!MarkReadApply
<1>. QED  BY <1>6, <1>7, <1>8

LEMMA MarkKeeps ==
  ASSUME ReadInv, Read!MarkUnread \/ Read!MarkReadBlind \/ Read!ReceiptsMarker
  PROVE  ReadInv'
<1>1. ReadTypes /\ OwedIsCounted /\ (count > 0 => marked) /\ (flagged => marked)  BY DEF ReadInv, Read!MarkerKept
<1>2. Positions' = Positions /\ ReadCommands' = ReadCommands /\ LiveStates' = LiveStates
  BY DEF Positions, ReadCommands, LiveStates
<1>3. UNCHANGED <<rows, content, live>>  BY DEF Read!MarkUnread, Read!MarkReadBlind, Read!ReceiptsMarker
<1>4. Read!Free \in ReadCommands  BY DEF Read!Free, ReadCommands
<1>5. owed' = {} /\ count' = 0 => OwedIsCounted'
  <2>1. live'.at = live.at  BY <1>3
  <2>. QED  BY <2>1, FS_EmptySet DEF OwedIsCounted
<1>6. CASE Read!MarkUnread
  <2>1. marked' = TRUE /\ flagged' = TRUE /\ UNCHANGED <<count, cmd, owed>>  BY <1>6 DEF Read!MarkUnread
  <2>2. ReadTypes'  BY <1>1, <1>2, <1>3, <2>1 DEF ReadTypes
  <2>3. OwedIsCounted'  BY <1>1, <1>3, <2>1 DEF OwedIsCounted
  <2>. QED  BY <2>1, <2>2, <2>3 DEF ReadInv, Read!MarkerKept
<1>7. ASSUME count' = 0, marked' = FALSE, owed' = {}, flagged' = FALSE, cmd' = Read!Free PROVE ReadInv'
  <2>1. ReadTypes'  BY <1>1, <1>2, <1>3, <1>4, <1>7 DEF ReadTypes
  <2>. QED  BY <1>5, <1>7, <2>1 DEF ReadInv, Read!MarkerKept
<1>8. CASE Read!MarkReadBlind  BY <1>7, <1>8 DEF Read!MarkReadBlind
<1>9. CASE Read!ReceiptsMarker
  <2>1. cmd' = Read!Free  BY <1>9 DEF Read!ReceiptsMarker
  <2>2. CASE Read!NothingReadable  BY <1>7, <1>9, <2>2 DEF Read!ReceiptsMarker
  <2>3. CASE ~Read!NothingReadable
    <3>1. UNCHANGED <<count, marked, owed, flagged>>  BY <1>9, <2>3 DEF Read!ReceiptsMarker
    <3>2. ReadTypes'  BY <1>1, <1>2, <1>3, <1>4, <2>1, <3>1 DEF ReadTypes
    <3>3. OwedIsCounted'  BY <1>1, <1>3, <3>1 DEF OwedIsCounted
    <3>. QED  BY <1>1, <3>1, <3>2, <3>3 DEF ReadInv, Read!MarkerKept
  <2>. QED  BY <2>2, <2>3
<1>. QED  BY <1>6, <1>8, <1>9

LEMMA ReadStepKeeps == ReadInv /\ [Read!Next]_(Read!vars) => ReadInv'
<1>. SUFFICES ASSUME ReadInv, [Read!Next]_(Read!vars) PROVE ReadInv'  OBVIOUS
<1>1. CASE UNCHANGED Read!vars
  <2>1. UNCHANGED <<rows, content, count, marked, live, cmd, owed, flagged>>  BY <1>1 DEF Read!vars
  <2>2. ReadTypes'  BY <2>1 DEF ReadInv, ReadTypes, LiveStates, ReadCommands, Positions
  <2>. QED  BY <2>1, <2>2 DEF ReadInv, OwedIsCounted, Read!MarkerKept
<1>2. CASE Read!Next
  BY <1>2, LiveKeeps, ReportKeeps, PickKeeps, ReadingKeeps, MarkKeeps, Zenon DEF Read!Next
<1>. QED  BY <1>1, <1>2

LEMMA ReadSaysSo == ReadInv => Read!UnreadIsKept
<1>. SUFFICES ASSUME ReadInv, live.at # "count" PROVE count >= Cardinality(owed)
  BY SameCardinality DEF ReadInv, Read!UnreadIsKept, Read!ArrivalsStayUnread
<1>1. count \in Nat /\ owed \in SUBSET M  BY DEF ReadInv, ReadTypes
<1>2. Cardinality(owed) \in Nat  BY <1>1, OwedShrinks DEF ReadInv
<1>. QED  BY <1>1, <1>2 DEF ReadInv, OwedIsCounted

\* A message that arrived live, and that no read reached or found without content, is
\* counted, and a chat marked unread stays marked until its last readable message is
\* read, however live handlers, history (also copies without content), reads on other
\* devices and the commands interleave.
THEOREM UnreadIsKeptAlways == (Read!Spec => []Read!UnreadIsKept) /\ (StoreSpec => []UnreadIsKept)
<1>. DEFINE Part == part = "unread" => ReadInv
<1>1. StoreInit => Part  BY ReadStarts DEF StoreInit
<1>2. [StoreNext]_partsVars => part' = part /\ (part = "unread" => [Read!Next]_(Read!vars))
  BY DEF StoreNext, partsVars, vars, readVars, Read!vars
<1>3. Part /\ [StoreNext]_partsVars => Part'  BY <1>2, ReadStepKeeps
<1>4. Part => UnreadIsKept  BY ReadSaysSo DEF UnreadIsKept
<1>5. Read!Spec => []Read!UnreadIsKept  BY ReadStarts, ReadStepKeeps, ReadSaysSo, PTL DEF Read!Spec
<1>. HIDE DEF Part
<1>6. StoreSpec => []UnreadIsKept  BY <1>1, <1>3, <1>4, PTL DEF StoreSpec
<1>. QED  BY <1>5, <1>6

-----------------------------------------------------------------------------
(* LidMigration: one message under two names. *)

\* The statements of MessageRow are the same for both modules.
LEMMA SameRow ==
  /\ Lid!NoRow = NoRow
  /\ \A r : Lid!Deleted(r) = Deleted(r) /\ Lid!Visible(r) = Visible(r) /\ Lid!Purged(r) = Purged(r)
  /\ \A a, b : Lid!First(a, b) = First(a, b)
<1>1. Lid!NoRow = NoRow  BY Zenon DEF Lid!NoRow, NoRow
<1>2. ASSUME NEW r
      PROVE  Lid!Deleted(r) = Deleted(r) /\ Lid!Visible(r) = Visible(r) /\ Lid!Purged(r) = Purged(r)
  BY Zenon DEF Lid!Deleted, Deleted, Lid!Visible, Visible, Lid!Purged, Purged
<1>3. ASSUME NEW a, NEW b PROVE Lid!First(a, b) = First(a, b)  BY Zenon DEF Lid!First, First
<1>. QED  BY <1>1, <1>2, <1>3

LEMMA SameUpsert ==
  \A r, c, l : Lid!Upsert(r, c, l) = Upsert(r, c, l)
<1>. SUFFICES ASSUME NEW r, NEW c, NEW l PROVE Lid!Upsert(r, c, l) = Upsert(r, c, l)  OBVIOUS
<1>1. Lid!DeletesAt(c) = DeletesAt(c)  BY Zenon DEF Lid!DeletesAt, DeletesAt
<1>2. Lid!Older(r, c) = Older(r, c)  BY Zenon DEF Lid!Older, Older
<1>3. Lid!Bare(r) = Bare(r)  BY Zenon DEF Lid!Bare, Bare
<1>4. Lid!MergedTs(r, c) = MergedTs(r, c)
  BY <1>1, <1>3, SameRow, Zenon DEF Lid!MergedTs, MergedTs
<1>5. Lid!MergedDeletedAt(r, c) = MergedDeletedAt(r, c)
  BY <1>1, SameRow, Zenon DEF Lid!MergedDeletedAt, MergedDeletedAt
<1>6. Lid!MergedText(r, c) = MergedText(r, c)
  BY <1>1, <1>2, SameRow, Zenon DEF Lid!MergedText, MergedText
<1>7. Lid!Merged(r, c) = Merged(r, c)
  BY <1>1, <1>2, <1>4, <1>5, <1>6, SameRow, Zenon DEF Lid!Merged, Merged
<1>8. Lid!Inserted(c) = Inserted(c)  BY <1>1, Zenon DEF Lid!Inserted, Inserted
<1>. QED  BY <1>7, <1>8, Zenon DEF Lid!Upsert, Upsert
LEMMA SameCopy ==
  \A a, b, c, d, e, f, g, h : Lid!Copy(a, b, c, d, e, f, g, h) = Copy(a, b, c, d, e, f, g, h)
  BY Zenon DEF Lid!Copy, Copy

\* The rows of the two names, and the contents merged into one.
Other == [texts |-> Copied \cup {e.text : e \in Edits} \cup {""}, medias |-> {"", "image"}, alone |-> FALSE]
LEMMA OtherFacts ==
  /\ Apt(Other) /\ ~Other.alone /\ Other.medias = {"", "image"}
  /\ Copied \subseteq Other.texts /\ \A e \in Edits : e.text \in Other.texts
  BY DEF Other, Apt

LEMMA LastTime == MaxTime \in OriginalTime .. MaxTime
<1>1. OriginalTime \in Nat /\ MaxTime \in Nat /\ OriginalTime <= MaxTime  BY TimesAssumption
<1>2. \A m, n \in Nat : m <= n => n \in m .. n  OBVIOUS
<1>. QED  BY <1>1, <1>2

\* An edit has a text; what was never edited has no time of an edit.
LidGood(r, g, l) ==
  /\ RowOK(r, Other) /\ Plausible(g, MaxTime, Other)
  /\ \A c \in g : c.edited => c.text # ""
  /\ ~r.edited => r.editedTs = 0
  /\ (l /\ r = NoRow) \/ Good(r, g, MaxTime, Other)

LEMMA LidNone == \A l : LidGood(NoRow, {}, l)
<1>1. RowOK(NoRow, Other) /\ ~NoRow.here  BY NoRowOK, OtherFacts
<1>2. Plausible({}, MaxTime, Other)  BY DEF Plausible
<1>3. Good(NoRow, {}, MaxTime, Other)  BY <1>1, <1>2 DEF Good, Shows, Kept, Visible
<1>4. NoRow.editedTs = 0  BY DEF NoRow
<1>. QED  BY <1>1, <1>2, <1>3, <1>4 DEF LidGood

\* Rows that the upsert leaves alone.
LEMMA UpsertNotes ==
  ASSUME NEW r, RowOK(r, Other), ~r.edited => r.editedTs = 0, NEW c \in Copies(Other), NEW l \in BOOLEAN
  PROVE  /\ ~Upsert(r, c, l).edited => Upsert(r, c, l).editedTs = 0
         /\ l \/ r.purged => Upsert(r, c, l) = r
         /\ ~(l \/ r.purged) => Upsert(r, c, l).here /\ ~Upsert(r, c, l).purged
<1>1. r.edited \in BOOLEAN /\ c.edited \in BOOLEAN /\ (r.here => r.purged \in BOOLEAN)
  BY DEF RowOK, Rows, RowsOf, Copies
<1>2. CASE l \/ r.purged  BY <1>2 DEF Upsert
<1>3. CASE ~(l \/ r.purged) /\ ~r.here
  <2>1. Upsert(r, c, l) = Inserted(c)  BY <1>3 DEF Upsert
  <2>. QED  BY <1>1, <1>3, <2>1 DEF Inserted
<1>4. CASE ~(l \/ r.purged) /\ r.here
  <2>1. Upsert(r, c, l) = Merged(r, c)  BY <1>4 DEF Upsert
  <2>2. Merged(r, c).here /\ Merged(r, c).purged = r.purged  BY DEF Merged
  <2>3. ~Merged(r, c).edited => Merged(r, c).editedTs = 0  BY <1>1 DEF Merged
  <2>. QED  BY <1>4, <2>1, <2>2, <2>3
<1>. QED  BY <1>2, <1>3, <1>4

LEMMA LidContent ==
  ASSUME NEW r, NEW g, NEW l \in BOOLEAN, LidGood(r, g, l), l /\ r.here => r.purged,
         NEW c \in Copies(Other), ~c.revoked, ~c.forMe, c.edited => c.text # "",
         IF c.edited THEN c.ts \in OriginalTime .. MaxTime ELSE c.ts = OriginalTime,
         NEW x, x = Content(c.text, c.edited, c.ts)
  PROVE  LidGood(Upsert(r, c, l), IF l \/ r.purged THEN g ELSE g \cup {x}, l)
<1>1. Apt(Other) /\ RowOK(r, Other) /\ (~r.edited => r.editedTs = 0)  BY OtherFacts DEF LidGood
<1>2. CASE l \/ r.purged  BY <1>1, <1>2, UpsertNotes
<1>3. CASE ~(l \/ r.purged)
  <2>1. Good(r, g, MaxTime, Other) /\ (\A d \in g : d.edited => d.text # "")  BY <1>3 DEF LidGood
  <2>2. MaxTime \in OriginalTime .. MaxTime  BY LastTime
  <2>. DEFINE q == Upsert(r, c, l)
  <2>3. q.here /\ (~q.edited => q.editedTs = 0)  BY <1>1, <1>3, UpsertNotes
  <2>4. Good(q, IF q = r /\ ~r.here THEN g ELSE g \cup {x}, MaxTime, Other)
    BY <1>1, <2>1, <2>2, ContentGood
  <2>. HIDE DEF q
  <2>5. Good(q, g \cup {x}, MaxTime, Other)  BY <2>3, <2>4
  <2>6. x.edited => x.text # ""  BY DEF Content
  <2>7. LidGood(q, g \cup {x}, l)  BY <2>1, <2>3, <2>5, <2>6 DEF LidGood, Good
  <2>. QED  BY <1>3, <2>7 DEF q
<1>. QED  BY <1>2, <1>3

LEMMA LidHiding ==
  ASSUME NEW r, NEW g, NEW l \in BOOLEAN, LidGood(r, g, l),
         NEW c \in Copies(Other), c.revoked \/ c.forMe, c.text = ""
  PROVE  LidGood(Upsert(r, c, l), g, l)
<1>1. Apt(Other) /\ RowOK(r, Other) /\ (~r.edited => r.editedTs = 0)  BY OtherFacts DEF LidGood
<1>2. CASE l  BY <1>1, <1>2, UpsertNotes
<1>3. CASE ~l
  <2>1. Good(r, g, MaxTime, Other) /\ (\A d \in g : d.edited => d.text # "")  BY <1>3 DEF LidGood
  <2>2. MaxTime \in OriginalTime .. MaxTime  BY LastTime
  <2>. DEFINE q == Upsert(r, c, l)
  <2>3. ~q.edited => q.editedTs = 0  BY <1>1, UpsertNotes
  <2>4. Good(q, g, MaxTime, Other)  BY <1>1, <2>1, <2>2, HidingGood
  <2>. HIDE DEF q
  <2>5. LidGood(q, g, l)  BY <2>1, <2>3, <2>4 DEF LidGood, Good
  <2>. QED  BY <2>5 DEF q
<1>. QED  BY <1>2, <1>3

LEMMA LidPurge ==
  ASSUME NEW r, NEW g, NEW l, LidGood(r, g, l), r.here, Deleted(r)
  PROVE  /\ LidGood(Purged(r), g, TRUE) /\ Purged(r).here /\ Purged(r).purged
         /\ Purged(r).text = "" /\ Purged(r).media = "" /\ Purged(r) \in Rows(Other)
<1>1. r # NoRow  BY NoRowOK, OtherFacts
<1>2. Good(r, g, MaxTime, Other) /\ Apt(Other)  BY <1>1, OtherFacts DEF LidGood
<1>3. Good(Purged(r), g, MaxTime, Other) /\ Purged(r).here /\ Purged(r).purged  BY <1>2, PurgedGood
<1>4. Purged(r).editedTs = 0 /\ Purged(r).text = "" /\ Purged(r).media = ""
  BY <1>2 DEF Purged, Good, RowOK, Rows, RowsOf
<1>. QED  BY <1>3, <1>4 DEF LidGood, Good, RowOK

LEMMA LidBlank ==
  ASSUME NEW r \in Rows(Other), r.here, NEW g, Plausible(g, MaxTime, Other), \A c \in g : c.edited => c.text # ""
  PROVE  /\ LidGood(Lid!Blanked(r), g, TRUE) /\ Lid!Blanked(r).here /\ Lid!Blanked(r).purged
         /\ Lid!Blanked(r).text = "" /\ Lid!Blanked(r).media = "" /\ Lid!Blanked(r) \in Rows(Other)
<1>. DEFINE p == Purged(r)
            at == IF p.deletedAt = 0 THEN MaxTime ELSE p.deletedAt
            q == Lid!Blanked(r)
<1>1. p \in Rows(Other) /\ p.here = r.here /\ p.purged /\ p.text = "" /\ p.media = "" /\ ~p.edited /\ p.editedTs = 0
  BY OtherFacts, TimesFacts DEF Apt, Purged, Rows, RowsOf
<1>2. MaxTime \in Times /\ MaxTime # 0  BY LastTime, TimesFacts
<1>3. at \in Times /\ at # 0  BY <1>1, <1>2 DEF Rows, RowsOf
<1>4. q = [p EXCEPT !.deletedAt = at]
  <2>1. p.deletedAt = r.deletedAt  BY DEF Purged, Rows, RowsOf
  <2>. QED  BY <2>1, SameRow DEF Lid!Blanked, Deleted
<1>. HIDE DEF p, at, q
<1>5. q \in Rows(Other)  BY <1>1, <1>3, <1>4 DEF Rows, RowsOf
<1>6. /\ q.here = r.here /\ q.purged /\ q.text = "" /\ q.media = "" /\ ~q.edited /\ q.editedTs = 0
      /\ q.deletedAt = at
  BY <1>1, <1>4 DEF Rows, RowsOf
<1>7. RowOK(q, Other) /\ ~Visible(q)  BY <1>3, <1>5, <1>6 DEF RowOK, Deleted, Visible
<1>8. Good(q, g, MaxTime, Other)  BY <1>6, <1>7 DEF Good, Shows, Kept
<1>. QED  BY <1>5, <1>6, <1>7, <1>8 DEF LidGood, q

\* What the merge writes into the row of PN.
LEMMA JoinedFacts ==
  ASSUME NEW d \in Rows(Other), NEW s \in Rows(Other)
  PROVE  LET q == Lid!Joined(d, s)
             hidden == Deleted(d) \/ Deleted(s)
         IN  /\ q \in Rows(Other) /\ q.here = d.here
             /\ q.ts = IF hidden \/ s.edited THEN d.ts ELSE IF d.edited \/ s.ts > d.ts THEN s.ts ELSE d.ts
             /\ q.text = Lid!JoinedText(d, s)
             /\ q.revoked = (d.revoked \/ s.revoked) /\ q.forMe = (d.forMe \/ s.forMe)
             /\ q.deletedAt = IF Deleted(d) THEN d.deletedAt ELSE s.deletedAt
             /\ q.purged = (d.purged \/ s.purged)
             /\ q.edited = (~hidden /\ (d.edited \/ s.edited))
             /\ q.editedTs = IF hidden THEN 0 ELSE IF d.editedTs > s.editedTs THEN d.editedTs ELSE s.editedTs
<1>. DEFINE hidden == Deleted(d) \/ Deleted(s)
            ts == IF hidden \/ s.edited THEN d.ts ELSE IF d.edited \/ s.ts > d.ts THEN s.ts ELSE d.ts
            text == Lid!JoinedText(d, s)
            media == First(d.media, s.media)
            direct == First(d.direct, s.direct)
            at == IF Deleted(d) THEN d.deletedAt ELSE s.deletedAt
            edited == ~hidden /\ (d.edited \/ s.edited)
            editedTs == IF hidden THEN 0 ELSE IF d.editedTs > s.editedTs THEN d.editedTs ELSE s.editedTs
            shown == d.shown \/ s.shown
            revoked == d.revoked \/ s.revoked
            mine == d.forMe \/ s.forMe
            purge == d.purged \/ s.purged
            q == [d EXCEPT !.ts = ts, !.text = text, !.shown = shown, !.media = media,
                           !.direct = direct, !.revoked = revoked, !.forMe = mine,
                           !.deletedAt = at, !.purged = purge, !.edited = edited,
                           !.editedTs = editedTs]
<1>1. Lid!Joined(d, s) = q
  <2>1. /\ Lid!Deleted(d) = Deleted(d) /\ Lid!Deleted(s) = Deleted(s)
        /\ Lid!First(d.media, s.media) = First(d.media, s.media)
        /\ Lid!First(d.direct, s.direct) = First(d.direct, s.direct)
    BY SameRow
  <2>. QED  BY <2>1, SMT DEF Lid!Joined
<1>2. /\ d.ts \in Times /\ s.ts \in Times /\ d.deletedAt \in Times /\ s.deletedAt \in Times
      /\ d.editedTs \in Times /\ s.editedTs \in Times
  BY DEF Rows, RowsOf
<1>3. ts \in Times /\ at \in Times /\ editedTs \in Times  BY <1>2, TimesFacts
<1>4. /\ edited \in BOOLEAN /\ shown \in BOOLEAN /\ revoked \in BOOLEAN /\ mine \in BOOLEAN /\ purge \in BOOLEAN
  BY DEF Rows, RowsOf
<1>5. /\ text \in Other.texts /\ media \in Other.medias /\ direct \in Other.medias
  <2>1. /\ d.text \in Other.texts /\ s.text \in Other.texts /\ d.media \in Other.medias /\ s.media \in Other.medias
        /\ d.direct \in Other.medias /\ s.direct \in Other.medias
    BY DEF Rows, RowsOf
  <2>2. text \in {d.text, s.text}  BY SameRow DEF First, Lid!JoinedText
  <2>. QED  BY <2>1, <2>2 DEF First
<1>. HIDE DEF hidden, ts, text, media, direct, at, edited, editedTs, shown, revoked, mine, purge
<1>6. q \in Rows(Other)  BY <1>3, <1>4, <1>5 DEF Rows, RowsOf
<1>7. /\ q.here = d.here /\ q.ts = ts /\ q.text = text /\ q.revoked = revoked
      /\ q.forMe = mine /\ q.deletedAt = at /\ q.purged = purge
      /\ q.edited = edited /\ q.editedTs = editedTs
  BY DEF Rows, RowsOf
<1>. HIDE DEF q
<1>. QED  BY <1>1, <1>6, <1>7, Zenon DEF hidden, ts, text, at, edited, editedTs, revoked, mine, purge

\* Two rows that are not purged: the newest of both stays.
LEMMA LidJoin ==
  ASSUME NEW d, NEW s, NEW gd, NEW gs, LidGood(d, gd, FALSE), LidGood(s, gs, FALSE), d.here, s.here, ~d.purged, ~s.purged
  PROVE  /\ LidGood(Lid!Joined(d, s), gd \cup gs, FALSE)
         /\ Lid!Joined(d, s).here /\ ~Lid!Joined(d, s).purged
<1>. DEFINE q == Lid!Joined(d, s)
            hidden == Deleted(d) \/ Deleted(s)
            g == gd \cup gs
<1>1. /\ Good(d, gd, MaxTime, Other) /\ Good(s, gs, MaxTime, Other)
      /\ (~d.edited => d.editedTs = 0) /\ (~s.edited => s.editedTs = 0)
      /\ (\A c \in g : c.edited => c.text # "")
  BY DEF LidGood
<1>2. d \in Rows(Other) /\ s \in Rows(Other) /\ RowOK(d, Other) /\ RowOK(s, Other)  BY <1>1 DEF Good, RowOK
<1>3. /\ d.edited \in BOOLEAN /\ s.edited \in BOOLEAN /\ d.ts \in Nat /\ s.ts \in Nat
      /\ d.editedTs \in Nat /\ s.editedTs \in Nat
  BY <1>2, TimesFacts DEF Rows, RowsOf
<1>4. /\ q \in Rows(Other) /\ q.here = d.here
      /\ q.ts = IF hidden \/ s.edited THEN d.ts ELSE IF d.edited \/ s.ts > d.ts THEN s.ts ELSE d.ts
      /\ q.text = Lid!JoinedText(d, s)
      /\ q.revoked = (d.revoked \/ s.revoked) /\ q.forMe = (d.forMe \/ s.forMe)
      /\ q.deletedAt = IF Deleted(d) THEN d.deletedAt ELSE s.deletedAt
      /\ q.purged = (d.purged \/ s.purged)
      /\ q.edited = (~hidden /\ (d.edited \/ s.edited))
      /\ q.editedTs = IF hidden THEN 0 ELSE IF d.editedTs > s.editedTs THEN d.editedTs ELSE s.editedTs
  BY <1>2, JoinedFacts, Zenon
<1>5. q.text = IF hidden THEN First(d.text, s.text)
               ELSE IF s.edited /\ (~d.edited \/ s.editedTs > d.editedTs) THEN s.text
               ELSE IF d.edited /\ ~s.edited THEN d.text
               ELSE First(d.text, s.text)
  BY <1>4, SameRow, Zenon DEF Lid!JoinedText
<1>. HIDE DEF q
<1>6. q.here /\ ~q.purged /\ Deleted(q) = hidden  BY <1>4 DEF Deleted
<1>7. RowOK(q, Other)  BY <1>2, <1>4, <1>6 DEF RowOK
<1>8. ~q.edited => q.editedTs = 0  BY <1>1, <1>3, <1>4
<1>9. Plausible(g, MaxTime, Other)  BY <1>1 DEF Good, Plausible
<1>10. CASE hidden
  <2>1. ~Visible(q)  BY <1>6, <1>10 DEF Visible
  <2>2. g # {} /\ (\A c \in g : c.text # "") => d.text # "" \/ s.text # ""  BY <1>1 DEF Good, Kept
  <2>3. Kept(q, g)  BY <1>5, <1>10, <2>2 DEF Kept, First
  <2>4. Good(q, g, MaxTime, Other)  BY <1>6, <1>7, <1>9, <2>1, <2>3 DEF Good, Shows
  <2>. QED  BY <1>1, <1>6, <1>7, <1>8, <1>9, <2>4 DEF LidGood, q
<1>11. CASE ~hidden
  <2>1. /\ IF d.edited THEN ShowsEdit(d, gd) ELSE ShowsOriginal(d, gd)
        /\ IF s.edited THEN ShowsEdit(s, gs) ELSE ShowsOriginal(s, gs)
    BY <1>1, <1>11 DEF Good, Shows, Visible
  <2>2. /\ \A c \in g : c.ts \in Nat
        /\ \A c \in g : c.edited => c.ts > 0
    BY <1>9, IntervalFacts, TimesFacts DEF Plausible
  <2>3. /\ d.edited => d.editedTs > 0 /\ d.text # ""
        /\ s.edited => s.editedTs > 0 /\ s.text # ""
    BY <1>1, <2>1, <2>2 DEF ShowsEdit
  <2>4. IF q.edited THEN ShowsEdit(q, g) ELSE ShowsOriginal(q, g)
    <3>1. CASE s.edited /\ (~d.edited \/ s.editedTs > d.editedTs)
      <4>1. q.edited /\ q.text = s.text /\ q.editedTs = s.editedTs
        <5>1. q.edited /\ q.text = s.text  BY <1>3, <1>4, <1>5, <1>11, <3>1
        <5>2. q.editedTs = IF d.editedTs > s.editedTs THEN d.editedTs ELSE s.editedTs  BY <1>4, <1>11
        <5>3. ~(d.editedTs > s.editedTs)
          <6>1. CASE d.edited  BY <1>3, <3>1, <6>1
          <6>2. CASE ~d.edited
            <7>1. d.editedTs = 0 /\ s.editedTs > 0  BY <1>1, <2>3, <3>1, <6>2
            <7>. QED  BY <1>3, <7>1
          <6>. QED  BY <6>1, <6>2
        <5>. QED  BY <5>1, <5>2, <5>3
      <4>2. \A c \in gd : c.edited => c.ts <= s.editedTs
        BY <1>3, <2>1, <2>2, <3>1 DEF ShowsEdit, ShowsOriginal
      <4>3. ShowsEdit(q, g)  BY <2>1, <3>1, <4>1, <4>2 DEF ShowsEdit
      <4>. QED  BY <4>1, <4>3
    <3>2. CASE d.edited /\ (~s.edited \/ ~(s.editedTs > d.editedTs))
      <4>1. q.edited /\ q.text = d.text /\ q.editedTs = d.editedTs
        <5>1. q.edited  BY <1>3, <1>4, <1>11, <3>2
        <5>2. q.text = d.text  BY <1>3, <1>5, <1>11, <2>3, <3>2 DEF First
        <5>3. q.editedTs = IF d.editedTs > s.editedTs THEN d.editedTs ELSE s.editedTs  BY <1>4, <1>11
        <5>4. d.editedTs > s.editedTs \/ d.editedTs = s.editedTs
          <6>1. CASE s.edited  BY <1>3, <3>2, <6>1
          <6>2. CASE ~s.edited
            <7>1. s.editedTs = 0 /\ d.editedTs > 0  BY <1>1, <2>3, <3>2, <6>2
            <7>. QED  BY <7>1
          <6>. QED  BY <6>1, <6>2
        <5>. QED  BY <5>1, <5>2, <5>3, <5>4
      <4>2. \A c \in gs : c.edited => c.ts <= d.editedTs
        BY <1>3, <2>1, <2>2, <3>2 DEF ShowsEdit, ShowsOriginal
      <4>3. ShowsEdit(q, g)  BY <2>1, <3>2, <4>1, <4>2 DEF ShowsEdit
      <4>. QED  BY <4>1, <4>3
    <3>3. CASE ~d.edited /\ ~s.edited
      <4>1. ~q.edited /\ (q.text = s.text \/ q.text = d.text)  BY <1>4, <1>5, <1>11, <3>3 DEF First
      <4>2. q.ts = OriginalTime  BY <1>4, <1>11, <2>1, <3>3 DEF ShowsOriginal
      <4>3. ShowsOriginal(q, g)  BY <2>1, <3>3, <4>1, <4>2 DEF ShowsOriginal
      <4>. QED  BY <4>1, <4>3
    <3>. QED  BY <1>3, <3>1, <3>2, <3>3
  <2>5. \E c \in g : c.text = q.text  BY <2>4 DEF ShowsEdit, ShowsOriginal
  <2>6. Kept(q, g)  BY <2>5 DEF Kept
  <2>7. Shows(q, g, Other)  BY <2>4, OtherFacts DEF Shows
  <2>8. Good(q, g, MaxTime, Other)  BY <1>6, <1>7, <1>9, <2>6, <2>7 DEF Good
  <2>. QED  BY <1>1, <1>6, <1>7, <1>8, <1>9, <2>8 DEF LidGood, q
<1>. QED  BY <1>10, <1>11

-----------------------------------------------------------------------------
Busy(n) == worker[n] # "idle"
\* The file is one of the row's.
Has(n, p) == p # "" /\ (path[n] = p \/ <<n, p>> \in aliases)

\* Files are named for the row that downloaded them, and only PN takes over another.
LidTypes ==
  /\ mode \in {"sync", "off"}
  /\ copies \in [Lid!Names -> Rows(Other)]
  /\ path \in [Lid!Names -> {"", "lid", "pn"}] /\ path["lid"] # "pn"
  /\ aliases \subseteq {<<"pn", "lid">>}
  /\ purges \subseteq Lid!Names /\ located \subseteq Lid!Names
  /\ files \subseteq Lid!Names /\ left \subseteq Lid!Names
  /\ worker \in [Lid!Names -> {"idle", "loading", "written"}]
  /\ mig \in [at : {"idle", "media", "lid", "pn", "merge"}, media : SUBSET (Lid!Names \X Lid!Names)]
  /\ given \in [Lid!Names -> SUBSET ContentsOf(Other)]

\* The ledger and the marks of the rows agree, and nothing of a purged message is left.
PurgesHold ==
  /\ \A n \in Lid!Names :
       /\ n \in purges => n \notin located /\ (copies[n].here => copies[n].purged)
       /\ copies[n].purged => n \in purges /\ copies[n].text = "" /\ copies[n].media = ""
  /\ purged => purges # {}
OffIsQuiet == mode = "off" => mig.at = "idle" /\ \A n \in Lid!Names : ~Busy(n)
PathsHaveRows ==
  /\ \A n \in Lid!Names : path[n] # "" => copies[n].here
  /\ aliases # {} => path["pn"] # ""
  /\ "pn" \in purges => aliases = {} /\ path["pn"] # "lid"
\* Once something is purged, a download runs only for a row that has no file, and
\* writes one that no row has.
WorkersApart ==
  /\ "lid" \in purges => ~Busy("lid")
  /\ purges # {} => \A n \in Lid!Names : Busy(n) => \A p : ~Has(n, p) /\ \A k \in Lid!Names : ~Has(k, n)
\* Media the migration still removes are all the media of their row.
MigrationKnows ==
  /\ mig.at \in {"idle", "merge"} => mig.media = {}
  /\ mig.media # {} => purges # {}
  /\ mig.at = "merge" /\ purges # {} => aliases = {}
  /\ \A m \in mig.media : ~Busy(m[1]) /\ path[m[1]] # "" /\ \A p : Has(m[1], p) => <<m[1], p>> \in mig.media
  /\ mig.at \in Lid!Names => (\E m \in mig.media : m[1] = mig.at) /\ \A p \in files : ~Has(mig.at, p)
Recorded ==
  \A f \in files \ left : (\E n \in Lid!Names : Has(n, f) /\ ~copies[n].purged) \/ worker[f] = "written"
AllGood == \A n \in Lid!Names : LidGood(copies[n], given[n], n \in purges)

LidInv == LidTypes /\ PurgesHold /\ OffIsQuiet /\ PathsHaveRows /\ WorkersApart /\ MigrationKnows /\ Recorded /\ AllGood

LEMMA HasFacts ==
  ASSUME LidTypes
  PROVE  \A n, p : p \in Lid!Paths(n) <=> Has(n, p)
<1>. SUFFICES ASSUME NEW n, NEW p PROVE p \in Lid!Paths(n) <=> Has(n, p)  OBVIOUS
<1>0. \A x \in aliases : x = <<"pn", "lid">>  BY DEF LidTypes
<1>1. \A x \in aliases : x[1] = "pn" /\ x[2] = "lid"  BY <1>0
<1>2. <<n, p>> \in aliases => n = "pn" /\ p = "lid"  BY DEF LidTypes
<1>3. p \in {a[2] : a \in {x \in aliases : x[1] = n}} <=> <<n, p>> \in aliases
  BY <1>0, <1>1, <1>2
<1>4. p \in {path[n]} \ {""} <=> p # "" /\ path[n] = p  OBVIOUS
<1>5. <<n, p>> \in aliases => p # ""  BY <1>2
<1>. QED  BY <1>3, <1>4, <1>5 DEF Lid!Paths, Has

LEMMA HasTypes ==
  ASSUME LidTypes
  PROVE  /\ \A n \in Lid!Names : \A p : Has(n, p) => p \in Lid!Names
         /\ \A n, p : <<n, p>> \in aliases => n = "pn" /\ p = "lid"
         /\ ~Has("lid", "pn")
  BY DEF LidTypes, Has, Lid!Names

\* The statements that leave rows, contents and the ledger alone.
LEMMA GoodStays ==
  ASSUME AllGood, UNCHANGED <<copies, given, purges>>
  PROVE  AllGood'
  BY DEF AllGood, Lid!Names

LEMMA LidStarts == Lid!Init => LidInv
<1>. SUFFICES ASSUME Lid!Init PROVE LidInv  OBVIOUS
<1>1. copies = [n \in Lid!Names |-> NoRow]  BY SameRow DEF Lid!Init
<1>2. NoRow \in Rows(Other) /\ ~NoRow.here /\ ~NoRow.purged  BY NoRowOK, OtherFacts DEF RowOK, NoRow
<1>3. LidTypes  BY <1>1, <1>2 DEF Lid!Init, LidTypes, Lid!NoMigration, Lid!Names
<1>4. AllGood  BY <1>1, LidNone DEF Lid!Init, AllGood
<1>5. PurgesHold /\ OffIsQuiet /\ PathsHaveRows
  BY <1>1, <1>2 DEF Lid!Init, PurgesHold, OffIsQuiet, PathsHaveRows, Lid!NoMigration, Busy
<1>6. WorkersApart /\ MigrationKnows /\ Recorded
  BY DEF Lid!Init, WorkersApart, MigrationKnows, Recorded, Lid!NoMigration, Busy, Lid!Names
<1>. QED  BY <1>3, <1>4, <1>5, <1>6 DEF LidInv

LEMMA StoppedKeeps ==
  ASSUME LidInv, Lid!StartSync \/ Lid!StopSync \/ Lid!MigrateRefused
  PROVE  LidInv'
<1>1. UNCHANGED <<copies, path, aliases, purges, located, files, given, purged>>
  BY DEF Lid!StartSync, Lid!StopSync, Lid!MigrateRefused, Lid!tables
<1>2. \A n, p : Has(n, p)' = Has(n, p)  BY <1>1 DEF Has
<1>3. AllGood' /\ PurgesHold' /\ PathsHaveRows'  BY <1>1, GoodStays DEF LidInv, PurgesHold, PathsHaveRows
<1>4. CASE Lid!StartSync
  <2>1. mode' = "sync" /\ UNCHANGED <<worker, mig, left>>  BY <1>4 DEF Lid!StartSync
  <2>2. LidTypes' /\ OffIsQuiet'  BY <1>1, <2>1 DEF LidInv, LidTypes, OffIsQuiet
  <2>3. WorkersApart' /\ MigrationKnows' /\ Recorded'
    BY <1>1, <1>2, <2>1 DEF LidInv, WorkersApart, MigrationKnows, Recorded, Busy
  <2>. QED  BY <1>3, <2>2, <2>3 DEF LidInv
<1>5. CASE Lid!StopSync \/ Lid!MigrateRefused
  <2>1. /\ mode' = "off" /\ worker' = [n \in Lid!Names |-> "idle"] /\ mig' = [at |-> "idle", media |-> {}]
        /\ left' = left \cup {n \in Lid!Names : worker[n] = "written"}
    BY <1>5 DEF Lid!StopSync, Lid!MigrateRefused, Lid!Stopped, Lid!NoMigration
  <2>2. LidTypes' /\ OffIsQuiet'  BY <1>1, <2>1 DEF LidInv, LidTypes, OffIsQuiet, Busy
  <2>3. WorkersApart' /\ MigrationKnows'  BY <1>1, <2>1 DEF WorkersApart, MigrationKnows, Busy, Lid!Names
  <2>4. Recorded'  BY <1>1, <1>2, <2>1 DEF LidInv, LidTypes, Recorded
  <2>. QED  BY <1>3, <2>2, <2>3, <2>4 DEF LidInv
<1>. QED  BY <1>4, <1>5

\* A copy that arrives under one name.
LEMMA StoreKeeps ==
  ASSUME LidInv, NEW n \in Lid!Names, NEW c \in Copies(Other), NEW x \in SUBSET ContentsOf(Other), NEW b \in BOOLEAN,
         Lid!Store(n, c, x, b),
         LidGood(Upsert(copies[n], c, n \in purges),
                 IF n \in purges \/ copies[n].purged THEN given[n] ELSE given[n] \cup x, n \in purges)
  PROVE  LidInv'
<1>. DEFINE q == Upsert(copies[n], c, n \in purges)
            l == n \in purges
<1>1. /\ copies' = [copies EXCEPT ![n] = q]
      /\ located' = IF b /\ n \notin purges THEN located \cup {n} ELSE located
      /\ given' = IF n \in purges \/ copies[n].purged THEN given ELSE [given EXCEPT ![n] = given[n] \cup x]
      /\ UNCHANGED <<mode, path, aliases, purges, files, worker, mig, purged, left>>
  BY SameUpsert DEF Lid!Store
<1>2. LidTypes /\ PurgesHold  BY DEF LidInv
<1>3. LidGood(copies[n], given[n], n \in purges)  BY DEF LidInv, AllGood
<1>4. RowOK(q, Other) /\ q \in Rows(Other)  BY DEF LidGood, RowOK
<1>5. /\ n \in purges => q = copies[n]
      /\ copies[n].purged => n \in purges
      /\ n \notin purges => q.here /\ ~q.purged
  <2>1. RowOK(copies[n], Other) /\ (~copies[n].edited => copies[n].editedTs = 0)
    BY <1>3 DEF LidGood
  <2>0. (n \in purges) \in BOOLEAN  OBVIOUS
  <2>2. copies[n].purged => n \in purges  BY <1>2 DEF PurgesHold
  <2>. QED  BY <2>0, <2>1, <2>2, UpsertNotes, Zenon
<1>. HIDE DEF q
<1>6. LidTypes'  BY <1>1, <1>2, <1>4 DEF LidTypes
<1>7. copies'[n] = q /\ \A k \in Lid!Names \ {n} : copies'[k] = copies[k]  BY <1>1, <1>2 DEF LidTypes
<1>8. given'[n] = (IF n \in purges \/ copies[n].purged THEN given[n] ELSE given[n] \cup x)
      /\ \A k \in Lid!Names \ {n} : given'[k] = given[k]
  BY <1>1, <1>2 DEF LidTypes
<1>9. AllGood'
  <2>1. LidGood(copies'[n], given'[n], n \in purges')  BY <1>1, <1>7, <1>8 DEF q
  <2>2. ASSUME NEW k \in Lid!Names \ {n} PROVE LidGood(copies'[k], given'[k], k \in purges')
    BY <1>1, <1>7, <1>8 DEF LidInv, AllGood
  <2>. QED  BY <2>1, <2>2 DEF AllGood
<1>10. PurgesHold'  BY <1>1, <1>2, <1>5, <1>7 DEF PurgesHold
<1>11. \A k, p : Has(k, p)' = Has(k, p)  BY <1>1 DEF Has
<1>12. \A k \in Lid!Names : (copies[k].here => copies'[k].here) /\ (~copies[k].purged => ~copies'[k].purged)
  BY <1>5, <1>7
<1>13. PathsHaveRows' /\ OffIsQuiet'  BY <1>1, <1>12 DEF LidInv, PathsHaveRows, OffIsQuiet, Busy
<1>14. WorkersApart' /\ MigrationKnows'  BY <1>1, <1>11 DEF LidInv, WorkersApart, MigrationKnows, Busy
<1>15. Recorded'  BY <1>1, <1>11, <1>12 DEF LidInv, Recorded
<1>. QED  BY <1>6, <1>9, <1>10, <1>13, <1>14, <1>15 DEF LidInv

LEMMA CopyArrives ==
  ASSUME LidInv, NEW n \in Lid!Names,
         \/ \E t \in Copied : Lid!StoreOriginal(n, t)
         \/ \E e \in Edits : Lid!StoreEdit(n, e)
         \/ Lid!StoreRevoke(n)
  PROVE  LidInv'
<1>0. (n \in purges) \in BOOLEAN  OBVIOUS
<1>1. LidGood(copies[n], given[n], n \in purges) /\ (n \in purges /\ copies[n].here => copies[n].purged)
  BY DEF LidInv, AllGood, PurgesHold
<1>2. ASSUME NEW t \in Copied, Lid!StoreOriginal(n, t) PROVE LidInv'
  <2>. DEFINE media == IF t = "" THEN "" ELSE "image"
              c == Copy(t, TRUE, media, media, FALSE, FALSE, FALSE, OriginalTime)
              x == Content(t, FALSE, OriginalTime)
  <2>1. t \in Other.texts /\ media \in Other.medias /\ OriginalTime \in OriginalTime .. MaxTime /\ OriginalTime \in Times
    BY OtherFacts, IntervalFacts, TimesFacts
  <2>2. Lid!Store(n, c, {x}, t # "")
    BY <1>2, SameCopy, Zenon DEF Lid!StoreOriginal, Lid!Content, Content
  <2>. HIDE DEF media
  <2>3. c \in Copies(Other) /\ ~c.revoked /\ ~c.forMe /\ ~c.edited /\ c.ts = OriginalTime /\ c.text = t
    BY <2>1 DEF Copy, Copies
  <2>4. x \in ContentsOf(Other)  BY <2>1 DEF Content, ContentsOf
  <2>. HIDE DEF c
  <2>5. x = Content(c.text, c.edited, c.ts)  BY <2>3 DEF Content, c, Copy
  <2>. HIDE DEF x
  <2>6. LidGood(Upsert(copies[n], c, n \in purges),
                IF n \in purges \/ copies[n].purged THEN given[n] ELSE given[n] \cup {x}, n \in purges)
    BY <1>0, <1>1, <2>3, <2>5, LidContent
  <2>7. {x} \in SUBSET ContentsOf(Other) /\ (t # "") \in BOOLEAN  BY <2>4
  <2>. QED  BY <2>2, <2>3, <2>6, <2>7, StoreKeeps
<1>3. ASSUME NEW e \in Edits, Lid!StoreEdit(n, e) PROVE LidInv'
  <2>. DEFINE c == Copy(e.text, TRUE, "", "", TRUE, FALSE, FALSE, e.ts)
              x == Content(e.text, TRUE, e.ts)
  <2>1. e.text \in Other.texts /\ "" \in Other.medias /\ e.ts \in OriginalTime .. MaxTime /\ e.ts \in Times /\ e.text # ""
    BY OtherFacts, TimesFacts, TimesAssumption DEF Apt
  <2>2. Lid!Store(n, c, {x}, FALSE)
    BY <1>3, SameCopy, Zenon DEF Lid!StoreEdit, Lid!Content, Content
  <2>3. c \in Copies(Other) /\ ~c.revoked /\ ~c.forMe /\ c.edited /\ c.ts = e.ts /\ c.text = e.text
    BY <2>1 DEF Copy, Copies
  <2>4. x \in ContentsOf(Other)  BY <2>1 DEF Content, ContentsOf
  <2>. HIDE DEF c
  <2>5. x = Content(c.text, c.edited, c.ts)  BY <2>3 DEF Content, c, Copy
  <2>. HIDE DEF x
  <2>6. LidGood(Upsert(copies[n], c, n \in purges),
                IF n \in purges \/ copies[n].purged THEN given[n] ELSE given[n] \cup {x}, n \in purges)
    BY <1>0, <1>1, <2>1, <2>3, <2>5, LidContent
  <2>7. {x} \in SUBSET ContentsOf(Other)  BY <2>4
  <2>. QED  BY <2>2, <2>3, <2>6, <2>7, StoreKeeps
<1>4. CASE Lid!StoreRevoke(n)
  <2>. DEFINE c == Copy("", FALSE, "", "", FALSE, TRUE, FALSE, MaxTime)
  <2>1. Lid!Store(n, c, {}, FALSE)  BY <1>4, SameCopy, Zenon DEF Lid!StoreRevoke
  <2>2. c \in Copies(Other) /\ c.revoked /\ c.text = ""  BY OtherFacts, LastTime DEF Apt, Copy, Copies
  <2>. HIDE DEF c
  <2>3. LidGood(Upsert(copies[n], c, n \in purges), given[n], n \in purges)  BY <1>0, <1>1, <2>2, LidHiding
  <2>4. (IF n \in purges \/ copies[n].purged THEN given[n] ELSE given[n] \cup {}) = given[n]  OBVIOUS
  <2>. QED  BY <2>1, <2>2, <2>3, <2>4, StoreKeeps
<1>. QED  BY <1>2, <1>3, <1>4

\* A download reads the row, writes the file and records it.
LEMMA LoadKeeps ==
  ASSUME LidInv, NEW n \in Lid!Names, Lid!DownloadLoad(n)
  PROVE  LidInv'
<1>1. /\ mode = "sync" /\ copies[n].here /\ copies[n].media # "" /\ path[n] = ""
      /\ worker' = [worker EXCEPT ![n] = "loading"]
      /\ UNCHANGED <<mode, copies, path, aliases, purges, located, files, mig, given, purged, left>>
  BY DEF Lid!DownloadLoad, Lid!tables
<1>2. LidTypes /\ PurgesHold /\ PathsHaveRows /\ WorkersApart /\ MigrationKnows /\ Recorded  BY DEF LidInv
<1>3. LidTypes'  BY <1>1, <1>2 DEF LidTypes
<1>4. worker[n] = "idle"  BY DEF Lid!DownloadLoad
<1>5. worker'[n] = "loading" /\ \A k \in Lid!Names \ {n} : worker'[k] = worker[k]  BY <1>1, <1>2 DEF LidTypes
<1>6. AllGood' /\ PurgesHold' /\ PathsHaveRows'  BY <1>1, GoodStays DEF LidInv, PurgesHold, PathsHaveRows
<1>7. \A k, p : Has(k, p)' = Has(k, p)  BY <1>1 DEF Has
<1>8. OffIsQuiet'  BY <1>1 DEF OffIsQuiet
<1>9. n \notin purges  BY <1>1, <1>2 DEF PurgesHold
<1>10. WorkersApart'
  <2>1. CASE purges = {}  BY <1>1, <2>1 DEF WorkersApart
  <2>2. CASE purges # {}
    <3>1. "lid" \in purges' => ~Busy("lid")'  BY <1>1, <1>2, <1>5, <1>9 DEF WorkersApart, Busy, Lid!Names
    <3>2. aliases = {} \/ n = "lid"
      BY <1>1, <1>2 DEF PathsHaveRows, Lid!Names
    <3>3. ASSUME NEW p PROVE ~Has(n, p)  BY <1>1, <1>2, <3>2, HasTypes DEF Has
    <3>4. ASSUME NEW k \in Lid!Names PROVE ~Has(k, n)
      <4>1. CASE n = "lid"
        <5>1. "pn" \in purges  BY <1>2, <1>9, <2>2, <4>1 DEF LidTypes, Lid!Names
        <5>2. aliases = {} /\ path["pn"] # "lid"  BY <1>2, <5>1 DEF PathsHaveRows
        <5>. QED  BY <1>1, <4>1, <5>2 DEF Has, Lid!Names
      <4>2. CASE n = "pn"  BY <1>1, <1>2, <4>2 DEF LidTypes, Has, Lid!Names
      <4>. QED  BY <4>1, <4>2 DEF Lid!Names
    <3>. QED  BY <1>1, <1>2, <1>5, <1>7, <3>1, <3>3, <3>4 DEF WorkersApart, Busy
  <2>. QED  BY <2>1, <2>2
<1>11. MigrationKnows'
  <2>1. \A m \in mig.media : m[1] # n  BY <1>1, <1>2 DEF MigrationKnows
  <2>2. \A m \in mig.media : m[1] \in Lid!Names  BY <1>2 DEF LidTypes
  <2>. QED  BY <1>1, <1>2, <1>5, <1>7, <2>1, <2>2 DEF MigrationKnows, Busy
<1>12. Recorded'
  <2>1. \A f \in files \ left : f \in Lid!Names  BY <1>2 DEF LidTypes
  <2>2. \A f \in Lid!Names : worker[f] = "written" => worker'[f] = "written"  BY <1>4, <1>5
  <2>. QED  BY <1>1, <1>2, <1>7, <2>1, <2>2 DEF Recorded
<1>. QED  BY <1>3, <1>6, <1>8, <1>10, <1>11, <1>12 DEF LidInv

LEMMA WriteKeeps ==
  ASSUME LidInv, NEW n \in Lid!Names, Lid!DownloadWrite(n)
  PROVE  LidInv'
<1>1. /\ worker[n] = "loading"
      /\ \/ worker' = [worker EXCEPT ![n] = "idle"] /\ UNCHANGED files
         \/ worker' = [worker EXCEPT ![n] = "written"] /\ files' = files \cup {n}
      /\ UNCHANGED <<mode, copies, path, aliases, purges, located, mig, given, purged, left>>
  BY DEF Lid!DownloadWrite, Lid!tables
<1>2. LidTypes /\ OffIsQuiet /\ WorkersApart /\ MigrationKnows /\ Recorded  BY DEF LidInv
<1>3. LidTypes'  BY <1>1, <1>2 DEF LidTypes
<1>4. \A k \in Lid!Names \ {n} : worker'[k] = worker[k]  BY <1>1, <1>2 DEF LidTypes
<1>5. AllGood' /\ PurgesHold' /\ PathsHaveRows'  BY <1>1, GoodStays DEF LidInv, PurgesHold, PathsHaveRows
<1>6. \A k, p : Has(k, p)' = Has(k, p)  BY <1>1 DEF Has
<1>7. \A k \in Lid!Names : Busy(k)' => Busy(k)  BY <1>1, <1>4 DEF Busy
<1>8. mode # "off"  BY <1>1, <1>2 DEF OffIsQuiet, Busy
<1>9. OffIsQuiet'  BY <1>1, <1>8 DEF OffIsQuiet
<1>10. WorkersApart'  BY <1>1, <1>2, <1>6, <1>7 DEF WorkersApart, Lid!Names
<1>11. MigrationKnows'
  <2>1. \A m \in mig.media : m[1] \in Lid!Names  BY <1>2 DEF LidTypes
  <2>2. mig.at \in Lid!Names => ~Has(mig.at, n)
    <3>1. CASE mig.at \in Lid!Names
      <4>1. purges # {}  BY <1>2, <3>1 DEF MigrationKnows
      <4>. QED  BY <1>1, <1>2, <3>1, <4>1 DEF WorkersApart, Busy
    <3>. QED  BY <3>1
  <2>3. mig.at \in Lid!Names => \A p \in files' : ~Has(mig.at, p)  BY <1>1, <1>2, <2>2 DEF MigrationKnows
  <2>. QED  BY <1>1, <1>2, <1>6, <1>7, <2>1, <2>3 DEF MigrationKnows
<1>12. Recorded'
  <2>1. \A f \in files' \ left : f \in Lid!Names  BY <1>1, <1>3 DEF LidTypes
  <2>2. \A f \in files' \ left : worker'[f] = "written" \/ (f \in files \ left /\ worker[f] # "written") \/ f # n
    <3>1. worker'[n] = "written" \/ files' = files  BY <1>1, <1>2 DEF LidTypes
    <3>2. worker[n] # "written"  BY <1>1
    <3>. QED  BY <3>1, <3>2
  <2>3. \A f \in files' : f # n => f \in files /\ worker'[f] = worker[f]  BY <1>1, <1>3, <1>4 DEF LidTypes
  <2>. QED  BY <1>1, <1>2, <1>6, <2>1, <2>2, <2>3 DEF Recorded
<1>. QED  BY <1>3, <1>5, <1>9, <1>10, <1>11, <1>12 DEF LidInv

LEMMA MarkKnown ==
  ASSUME LidInv, NEW n \in Lid!Names, Lid!DownloadMark(n)
  PROVE  LidInv'
<1>1. /\ worker[n] = "written"
      /\ worker' = [worker EXCEPT ![n] = "idle"]
      /\ path' = IF copies[n].here THEN [path EXCEPT ![n] = n] ELSE path
      /\ left' = IF copies[n].here /\ ~copies[n].purged THEN (left \ {n}) \cup ({path[n]} \ {"", n})
                 ELSE left \cup {n}
      /\ UNCHANGED <<mode, copies, aliases, purges, located, files, mig, given, purged>>
  BY DEF Lid!DownloadMark
<1>2. LidTypes /\ PurgesHold /\ OffIsQuiet /\ PathsHaveRows /\ WorkersApart /\ MigrationKnows /\ Recorded
  BY DEF LidInv
<1>3. n = "lid" \/ n = "pn"  BY DEF Lid!Names
<1>4. LidTypes'  BY <1>1, <1>2, <1>3 DEF LidTypes, Lid!Names
<1>5. AllGood' /\ PurgesHold'  BY <1>1, GoodStays DEF LidInv, PurgesHold
<1>6. worker'[n] = "idle" /\ \A k \in Lid!Names \ {n} : worker'[k] = worker[k]  BY <1>1, <1>2 DEF LidTypes
<1>7. \A k \in Lid!Names : Busy(k)' => k # n /\ Busy(k)  BY <1>6 DEF Busy
<1>8. \A k \in Lid!Names \ {n} : path'[k] = path[k]  BY <1>1, <1>2 DEF LidTypes
<1>9. path'[n] = IF copies[n].here THEN n ELSE path[n]  BY <1>1, <1>2 DEF LidTypes
<1>10. \A k \in Lid!Names \ {n} : \A p : Has(k, p)' <=> Has(k, p)  BY <1>1, <1>8 DEF Has
<1>11. \A p : p # n => (Has(n, p)' => Has(n, p))  BY <1>1, <1>9 DEF Has
<1>12. OffIsQuiet'  BY <1>1, <1>2, <1>7 DEF OffIsQuiet
<1>13. PathsHaveRows'
  <2>1. \A k \in Lid!Names : path'[k] # "" => copies'[k].here  BY <1>1, <1>2, <1>8, <1>9 DEF PathsHaveRows
  <2>2. aliases' # {} => path'["pn"] # ""  BY <1>1, <1>2, <1>3, <1>8, <1>9 DEF PathsHaveRows, Lid!Names
  <2>3. "pn" \in purges' => aliases' = {} /\ path'["pn"] # "lid"
    BY <1>1, <1>2, <1>3, <1>8, <1>9 DEF PathsHaveRows, Lid!Names
  <2>. QED  BY <2>1, <2>2, <2>3 DEF PathsHaveRows
<1>14. WorkersApart'
  <2>1. "lid" \in purges' => ~Busy("lid")'  BY <1>1, <1>2, <1>7 DEF WorkersApart, Lid!Names
  <2>2. ASSUME purges # {}, NEW k \in Lid!Names, Busy(k)', NEW p PROVE ~Has(k, p)'
    BY <1>2, <1>7, <1>10, <2>2 DEF WorkersApart
  <2>3. ASSUME purges # {}, NEW k \in Lid!Names, Busy(k)', NEW j \in Lid!Names PROVE ~Has(j, k)'
    BY <1>2, <1>7, <1>10, <1>11, <2>3 DEF WorkersApart
  <2>. QED  BY <1>1, <2>1, <2>2, <2>3 DEF WorkersApart
<1>15. MigrationKnows'
  <2>1. \A m \in mig.media : m[1] \in Lid!Names /\ m[1] # n  BY <1>1, <1>2 DEF LidTypes, MigrationKnows, Busy
  <2>2. mig.at # n
    <3>1. CASE mig.at = n
      <4>1. PICK m \in mig.media : m[1] = n  BY <1>2, <3>1 DEF MigrationKnows
      <4>. QED  BY <2>1, <4>1
    <3>. QED  BY <3>1
  <2>3. \A m \in mig.media : ~Busy(m[1])' /\ path'[m[1]] # "" /\ \A p : Has(m[1], p)' => <<m[1], p>> \in mig.media
    BY <1>2, <1>7, <1>8, <1>10, <2>1 DEF MigrationKnows
  <2>4. mig.at \in Lid!Names => (\E m \in mig.media : m[1] = mig.at) /\ \A p \in files : ~Has(mig.at, p)'
    BY <1>1, <1>2, <1>10, <2>2 DEF MigrationKnows
  <2>. QED  BY <1>1, <1>2, <2>3, <2>4 DEF MigrationKnows
<1>16. Recorded'
  <2>. SUFFICES ASSUME NEW f \in files' \ left'
                PROVE  (\E k \in Lid!Names : Has(k, f)' /\ ~copies'[k].purged) \/ worker'[f] = "written"
    BY DEF Recorded
  <2>0. f \in Lid!Names /\ f \in files /\ f # ""  BY <1>1, <1>2 DEF LidTypes, Lid!Names
  <2>1. CASE f = n
    <3>1. copies[n].here /\ ~copies[n].purged  BY <1>1, <2>1
    <3>2. Has(n, f)'  BY <1>9, <2>0, <2>1, <3>1 DEF Has
    <3>. QED  BY <1>1, <3>1, <3>2
  <2>2. CASE f # n
    <3>1. f \notin left  BY <1>1, <2>2
    <3>2. CASE worker[f] = "written"  BY <1>6, <2>0, <2>2, <3>2
    <3>3. CASE \E k \in Lid!Names : Has(k, f) /\ ~copies[k].purged
      <4>1. PICK k \in Lid!Names : Has(k, f) /\ ~copies[k].purged  BY <3>3
      <4>2. CASE k # n  BY <1>1, <1>10, <4>1, <4>2
      <4>3. CASE k = n
        <5>1. CASE copies[n].here
          <6>1. path[n] # f  BY <1>1, <2>0, <2>2, <4>1, <4>3, <5>1
          <6>2. <<n, f>> \in aliases  BY <4>1, <4>3, <6>1 DEF Has
          <6>. QED  BY <1>1, <2>0, <4>1, <4>3, <6>2 DEF Has
        <5>2. CASE ~copies[n].here
          <6>1. Has(n, f)'  BY <1>1, <1>9, <4>1, <4>3, <5>2 DEF Has
          <6>. QED  BY <1>1, <4>1, <4>3, <6>1
        <5>. QED  BY <5>1, <5>2
      <4>. QED  BY <4>2, <4>3
    <3>. QED  BY <1>2, <2>0, <3>1, <3>2, <3>3 DEF Recorded
  <2>. QED  BY <2>1, <2>2
<1>. QED  BY <1>4, <1>5, <1>12, <1>13, <1>14, <1>15, <1>16 DEF LidInv

\* The migration lists the media of purged messages, removes it and looks again.
LEMMA MigrationKeeps ==
  ASSUME LidInv, Lid!MigrateStart \/ Lid!MigrateCheck
  PROVE  LidInv'
<1>1. /\ mode' = mode /\ UNCHANGED <<copies, path, aliases, purges, located, files, worker, given, purged, left>>
  BY DEF Lid!MigrateStart, Lid!MigrateCheck, Lid!tables
<1>2. LidTypes /\ OffIsQuiet /\ PathsHaveRows /\ WorkersApart /\ MigrationKnows  BY DEF LidInv
<1>3. \A k, p : Has(k, p)' = Has(k, p)  BY <1>1 DEF Has
<1>4. \A k \in Lid!Names : Busy(k)' = Busy(k)  BY <1>1 DEF Busy
<1>5. AllGood' /\ PurgesHold' /\ PathsHaveRows' /\ WorkersApart' /\ Recorded'
  BY <1>1, <1>3, <1>4, GoodStays DEF LidInv, PurgesHold, PathsHaveRows, WorkersApart, Recorded, Lid!Names
<1>6. \A n \in Lid!Names : \A p : <<n, p>> \in Lid!PurgedMedia <=> purges # {} /\ Has(n, p)
  BY <1>2, HasFacts DEF Lid!PurgedMedia
<1>7. \A m \in Lid!PurgedMedia : \E n, p \in Lid!Names : m = <<n, p>> /\ purges # {} /\ Has(n, p)
  BY <1>2, HasFacts, HasTypes DEF Lid!PurgedMedia
<1>8. Lid!PurgedMedia \subseteq Lid!Names \X Lid!Names  BY <1>7
<1>9. CASE Lid!MigrateStart
  <2>1. mode = "sync" /\ mig' = [at |-> "media", media |-> Lid!PurgedMedia]  BY <1>9 DEF Lid!MigrateStart
  <2>2. LidTypes' /\ OffIsQuiet'  BY <1>1, <1>2, <1>8, <2>1 DEF LidTypes, OffIsQuiet
  <2>3. mig'.media = Lid!PurgedMedia /\ mig'.at = "media"  BY <2>1
  <2>4. ASSUME NEW m \in mig'.media
        PROVE  ~Busy(m[1])' /\ path'[m[1]] # "" /\ (\A p : Has(m[1], p)' => <<m[1], p>> \in mig'.media) /\ purges' # {}
    <3>1. PICK n, p \in Lid!Names : m = <<n, p>> /\ purges # {} /\ Has(n, p)  BY <1>7, <2>3
    <3>2. m[1] = n  BY <3>1
    <3>3. ~Busy(n)  BY <1>2, <3>1 DEF WorkersApart
    <3>4. path[n] # ""  BY <1>2, <3>1 DEF Has, PathsHaveRows, LidTypes
    <3>5. \A z : Has(n, z) => <<n, z>> \in Lid!PurgedMedia  BY <1>6, <3>1
    <3>. QED  BY <1>1, <1>3, <1>4, <2>3, <3>1, <3>2, <3>3, <3>4, <3>5
  <2>5. MigrationKnows'  BY <2>3, <2>4 DEF MigrationKnows, Lid!Names
  <2>. QED  BY <1>5, <2>2, <2>5 DEF LidInv
<1>10. CASE Lid!MigrateCheck
  <2>1. mig.at = "media" /\ mig.media = {} /\ mig' = [mig EXCEPT !.at = "merge"] /\ Lid!PurgedMedia = {}
    BY <1>10 DEF Lid!MigrateCheck
  <2>2. LidTypes'  BY <1>1, <1>2, <2>1 DEF LidTypes
  <2>3. mig'.at = "merge" /\ mig'.media = {}  BY <1>2, <2>1 DEF LidTypes
  <2>4. OffIsQuiet'  BY <1>1, <1>2, <2>1 DEF OffIsQuiet
  <2>5. purges # {} => aliases = {}
    <3>1. ASSUME purges # {}, NEW x \in aliases PROVE FALSE
      <4>1. x = <<"pn", "lid">>  BY <1>2 DEF LidTypes
      <4>2. Has("pn", "lid") /\ "pn" \in Lid!Names  BY <4>1 DEF Has, Lid!Names
      <4>. QED  BY <1>6, <2>1, <3>1, <4>2
    <3>. QED  BY <3>1
  <2>6. MigrationKnows'  BY <1>1, <2>3, <2>5 DEF MigrationKnows, Lid!Names
  <2>. QED  BY <1>5, <2>2, <2>4, <2>6 DEF LidInv
<1>. QED  BY <1>9, <1>10

LEMMA RemoveKeeps ==
  ASSUME LidInv, NEW n \in Lid!Names, Lid!MigrateRemove(n)
  PROVE  LidInv'
<1>1. /\ mig.at = "media" /\ (\E m \in mig.media : m[1] = n)
      /\ files' = files \ {m[2] : m \in {x \in mig.media : x[1] = n}}
      /\ mig' = [mig EXCEPT !.at = n]
      /\ UNCHANGED <<mode, copies, path, aliases, purges, located, worker, given, purged, left>>
  BY DEF Lid!MigrateRemove, Lid!tables
<1>2. LidTypes /\ OffIsQuiet /\ MigrationKnows /\ Recorded  BY DEF LidInv
<1>3. \A k, p : Has(k, p)' = Has(k, p)  BY <1>1 DEF Has
<1>4. \A k \in Lid!Names : Busy(k)' = Busy(k)  BY <1>1 DEF Busy
<1>5. AllGood' /\ PurgesHold' /\ PathsHaveRows' /\ WorkersApart'
  BY <1>1, <1>3, <1>4, GoodStays DEF LidInv, PurgesHold, PathsHaveRows, WorkersApart, Lid!Names
<1>6. LidTypes'  BY <1>1, <1>2 DEF LidTypes, Lid!Names
<1>7. mig'.at = n /\ mig'.media = mig.media  BY <1>1, <1>2 DEF LidTypes
<1>8. OffIsQuiet'  BY <1>1, <1>2 DEF OffIsQuiet
<1>9. files' \subseteq files  BY <1>1
<1>10. Recorded'  BY <1>1, <1>2, <1>3, <1>9 DEF Recorded
<1>11. ASSUME NEW p \in files', Has(n, p) PROVE FALSE
  <2>1. <<n, p>> \in mig.media  BY <1>1, <1>2, <1>11 DEF MigrationKnows
  <2>2. <<n, p>>[1] = n /\ <<n, p>>[2] = p  OBVIOUS
  <2>. QED  BY <1>1, <1>11, <2>1, <2>2
<1>12. MigrationKnows'
  <2>1. n # "idle" /\ n # "merge"  BY DEF Lid!Names
  <2>2. \A m \in mig.media : m[1] \in Lid!Names  BY <1>2 DEF LidTypes
  <2>. QED  BY <1>1, <1>2, <1>3, <1>4, <1>7, <1>11, <2>1, <2>2 DEF MigrationKnows
<1>. QED  BY <1>5, <1>6, <1>8, <1>10, <1>12 DEF LidInv

LEMMA ClearKeeps ==
  ASSUME LidInv, NEW n \in Lid!Names, Lid!MigrateClear(n)
  PROVE  LidInv'
<1>1. /\ mig.at = n
      /\ path' = [path EXCEPT ![n] = ""]
      /\ aliases' = {a \in aliases : a[1] # n}
      /\ mig' = [at |-> "media", media |-> {m \in mig.media : m[1] # n}]
      /\ UNCHANGED <<mode, copies, purges, located, files, worker, given, purged, left>>
  BY DEF Lid!MigrateClear
<1>2. LidTypes /\ OffIsQuiet /\ PathsHaveRows /\ WorkersApart /\ MigrationKnows /\ Recorded  BY DEF LidInv
<1>3. path'[n] = "" /\ \A k \in Lid!Names \ {n} : path'[k] = path[k]  BY <1>1, <1>2 DEF LidTypes
<1>4. \A x \in aliases : x = <<"pn", "lid">>  BY <1>2 DEF LidTypes
<1>5. \A k, p : <<k, p>> \in aliases' <=> <<k, p>> \in aliases /\ k # n
  <2>1. \A k, p : <<k, p>>[1] = k  OBVIOUS
  <2>. QED  BY <1>1, <2>1
<1>6. \A p : ~Has(n, p)'  BY <1>3, <1>5 DEF Has
<1>7. \A k \in Lid!Names \ {n} : \A p : Has(k, p)' <=> Has(k, p)  BY <1>3, <1>5 DEF Has
<1>8. \A k \in Lid!Names : Busy(k)' = Busy(k)  BY <1>1 DEF Busy
<1>9. AllGood' /\ PurgesHold'  BY <1>1, GoodStays DEF LidInv, PurgesHold
<1>10. mig'.at = "media" /\ mig'.media = {m \in mig.media : m[1] # n}  BY <1>1
<1>11. LidTypes'
  <2>1. path' \in [Lid!Names -> {"", "lid", "pn"}]  BY <1>1, <1>2 DEF LidTypes
  <2>0. path'["lid"] # "pn"  BY <1>2, <1>3 DEF LidTypes, Lid!Names
  <2>2. mig' \in [at : {"idle", "media", "lid", "pn", "merge"}, media : SUBSET (Lid!Names \X Lid!Names)]
    BY <1>1, <1>2 DEF LidTypes
  <2>. QED  BY <1>1, <1>2, <2>0, <2>1, <2>2 DEF LidTypes
<1>12. OffIsQuiet'
  <2>1. mode # "off"  BY <1>1, <1>2 DEF OffIsQuiet, Lid!Names
  <2>. QED  BY <1>1, <2>1 DEF OffIsQuiet
<1>13. purges # {}
  BY <1>1, <1>2 DEF MigrationKnows
<1>14. PathsHaveRows'
  <2>1. aliases' # {} => path'["pn"] # ""
    <3>1. ASSUME NEW x \in aliases' PROVE n # "pn" /\ aliases # {}
      <4>1. x \in aliases /\ x[1] # n  BY <1>1
      <4>2. x = <<"pn", "lid">>  BY <1>4, <4>1
      <4>. QED  BY <4>1, <4>2
    <3>. QED  BY <1>2, <1>3, <3>1 DEF PathsHaveRows, Lid!Names
  <2>2. "pn" \in purges' => aliases' = {} /\ path'["pn"] # "lid"
    BY <1>1, <1>2, <1>3 DEF PathsHaveRows, Lid!Names
  <2>3. \A k \in Lid!Names : path'[k] # "" => copies'[k].here  BY <1>1, <1>2, <1>3 DEF PathsHaveRows
  <2>. QED  BY <2>1, <2>2, <2>3 DEF PathsHaveRows
<1>15. WorkersApart'
  <2>1. \A k \in Lid!Names : \A p : Has(k, p)' => Has(k, p)  BY <1>6, <1>7
  <2>. QED  BY <1>1, <1>2, <1>8, <2>1 DEF WorkersApart, Lid!Names
<1>16. MigrationKnows'
  <2>1. \A m \in mig'.media : m \in mig.media /\ m[1] \in Lid!Names \ {n}  BY <1>2, <1>10 DEF LidTypes
  <2>2. \A k, p : k # n /\ <<k, p>> \in mig.media => <<k, p>> \in mig'.media
    <3>1. \A k, p : <<k, p>>[1] = k  OBVIOUS
    <3>. QED  BY <1>10, <3>1
  <2>3. ASSUME NEW m \in mig'.media
        PROVE  ~Busy(m[1])' /\ path'[m[1]] # "" /\ \A p : Has(m[1], p)' => <<m[1], p>> \in mig'.media
    BY <1>2, <1>3, <1>7, <1>8, <2>1, <2>2 DEF MigrationKnows
  <2>. QED  BY <1>1, <1>10, <1>13, <2>3 DEF MigrationKnows, Lid!Names
<1>17. Recorded'
  <2>1. \A f \in files : ~Has(n, f)  BY <1>1, <1>2 DEF MigrationKnows
  <2>2. \A f \in files, k \in Lid!Names : Has(k, f) => Has(k, f)'  BY <1>7, <2>1
  <2>. QED  BY <1>1, <1>2, <2>2 DEF Recorded
<1>. QED  BY <1>9, <1>11, <1>12, <1>14, <1>15, <1>16, <1>17 DEF LidInv

\* The transaction, statement by statement: what each table becomes.
AllPurges == IF "lid" \in purges THEN purges \cup {"pn"} ELSE purges
Displaces == /\ copies["lid"].here /\ copies["pn"].here /\ AllPurges = {}
             /\ path["lid"] # "" /\ path["pn"] # "" /\ path["lid"] # path["pn"]
AllAliases == IF Displaces THEN aliases \cup {<<"pn", path["lid"]>>} ELSE aliases
StaysApart == ~copies["lid"].here \/ ("pn" \in AllPurges /\ ~copies["lid"].purged) \/ copies["pn"].purged
OneRow == IF StaysApart THEN copies["pn"]
          ELSE IF copies["pn"].here THEN Lid!Joined(copies["pn"], copies["lid"]) ELSE copies["lid"]
OnePath == IF StaysApart THEN path["pn"] ELSE First(path["pn"], path["lid"])
Blanks == "pn" \in AllPurges /\ OneRow.here

StoreOf(r, p, a, l, o) == [row |-> r, path |-> p, aliases |-> a, ledger |-> l, side |-> o]
LEMMA StoreFacts ==
  \A r, p, a, l, o : /\ StoreOf(r, p, a, l, o).row = r /\ StoreOf(r, p, a, l, o).path = p
                     /\ StoreOf(r, p, a, l, o).aliases = a /\ StoreOf(r, p, a, l, o).ledger = l
                     /\ StoreOf(r, p, a, l, o).side = o
  BY DEF StoreOf
NoPath == ""
At(f, k, x) == [f EXCEPT ![k] = x]
Put(s, k, x, y) == [s EXCEPT !.row[k] = x, !.path[k] = y]
LEMMA RowAndPath ==
  ASSUME NEW r, NEW p, NEW a, NEW l, NEW o, NEW k, NEW x, NEW y
  PROVE  Put(StoreOf(r, p, a, l, o), k, x, y) = StoreOf(At(r, k, x), At(p, k, y), a, l, o)
<1>. DEFINE s == StoreOf(r, p, a, l, o)
            R == At(r, k, x)
<1>1. [s EXCEPT !.row[k] = x] = StoreOf(R, p, a, l, o)  BY DEF StoreOf, At
<1>. HIDE DEF s
<1>2. Put(s, k, x, y) = [[s EXCEPT !.row[k] = x] EXCEPT !.path[k] = y]  BY DEF Put
<1>. HIDE DEF R
<1>3. [StoreOf(R, p, a, l, o) EXCEPT !.path[k] = y] = StoreOf(R, At(p, k, y), a, l, o)
  BY DEF StoreOf, At
<1>. QED  BY <1>1, <1>2, <1>3, Zenon DEF s, R
Wipe(s, k, x, y, v, w) == [s EXCEPT !.row[k] = x, !.path[k] = y, !.ledger = v, !.aliases = w]
LEMMA AllFour ==
  ASSUME NEW r, NEW p, NEW a, NEW l, NEW o, NEW k, NEW x, NEW y, NEW v, NEW w
  PROVE  Wipe(StoreOf(r, p, a, l, o), k, x, y, v, w) = StoreOf(At(r, k, x), At(p, k, y), w, v, o)
<1>. DEFINE s == StoreOf(r, p, a, l, o)
            R == At(r, k, x)
            P == At(p, k, y)
<1>1. Put(s, k, x, y) = StoreOf(R, P, a, l, o)  BY RowAndPath
<1>. HIDE DEF s
<1>2. Wipe(s, k, x, y, v, w) = [[Put(s, k, x, y) EXCEPT !.ledger = v] EXCEPT !.aliases = w]
  BY DEF Wipe, Put
<1>. HIDE DEF R, P
<1>3. [StoreOf(R, P, a, l, o) EXCEPT !.ledger = v] = StoreOf(R, P, a, v, o)  BY DEF StoreOf
<1>4. [StoreOf(R, P, a, v, o) EXCEPT !.aliases = w] = StoreOf(R, P, w, v, o)  BY DEF StoreOf
<1>. QED  BY <1>1, <1>2, <1>3, <1>4, Zenon DEF s, R, P

LEMMA MergeSteps ==
  ASSUME LidTypes
  PROVE  Lid!Migrated(Lid!Tables) =
           StoreOf(At(At(copies, "pn", IF Blanks THEN Lid!Blanked(OneRow) ELSE OneRow), "lid", NoRow),
                   At(At(path, "pn", IF Blanks THEN NoPath ELSE OnePath), "lid", NoPath),
                   {a \in AllAliases \cup {<<"pn", a[2]>> : a \in {x \in AllAliases : x[1] = "lid"}} : a[1] # "lid"},
                   AllPurges \ {"lid"},
                   IF AllPurges \ {"lid"} # {} THEN {} ELSE IF "lid" \in located THEN {"pn"} ELSE located)
<1>1. Lid!Tables = StoreOf(copies, path, aliases, purges, located)  BY DEF Lid!Tables, StoreOf
<1>2. Lid!LedgerMerged(Lid!Tables) = StoreOf(copies, path, aliases, AllPurges, located)
  BY <1>1 DEF Lid!LedgerMerged, AllPurges, StoreOf
<1>3. Lid!DisplacedKept(StoreOf(copies, path, aliases, AllPurges, located))
        = StoreOf(copies, path, AllAliases, AllPurges, located)
  BY DEF Lid!DisplacedKept, AllAliases, Displaces, StoreOf
<1>. DEFINE C == At(copies, "pn", OneRow)
            P == At(path, "pn", OnePath)
            C2 == At(copies, "pn", IF Blanks THEN Lid!Blanked(OneRow) ELSE OneRow)
            P2 == At(path, "pn", IF Blanks THEN NoPath ELSE OnePath)
            A == AllAliases \cup {<<"pn", a[2]>> : a \in {x \in AllAliases : x[1] = "lid"}}
<1>4. copies = [n \in Lid!Names |-> copies[n]] /\ path = [n \in Lid!Names |-> path[n]] /\ "pn" \in Lid!Names
  BY DEF LidTypes, Lid!Names
<1>5. Lid!RowMerged(StoreOf(copies, path, AllAliases, AllPurges, located))
        = StoreOf(C, P, AllAliases, AllPurges, located)
  <2>1. CASE StaysApart
    <3>1. C = copies /\ P = path  BY <1>4, <2>1 DEF OneRow, OnePath, At
    <3>. HIDE DEF C, P
    <3>. QED  BY <2>1, <3>1, StoreFacts DEF Lid!RowMerged, StaysApart
  <2>2. CASE ~StaysApart
    <3>1. /\ OneRow = IF copies["pn"].here THEN Lid!Joined(copies["pn"], copies["lid"]) ELSE copies["lid"]
          /\ OnePath = Lid!First(path["pn"], path["lid"])
      BY <2>2, SameRow DEF OneRow, OnePath
    <3>2. Lid!RowMerged(StoreOf(copies, path, AllAliases, AllPurges, located))
            = Put(StoreOf(copies, path, AllAliases, AllPurges, located), "pn", OneRow, OnePath)
      <4>. DEFINE s == StoreOf(copies, path, AllAliases, AllPurges, located)
      <4>1. s.row = copies /\ s.path = path /\ s.ledger = AllPurges  BY StoreFacts
      <4>. HIDE DEF s
      <4>2. Lid!RowMerged(s) = [s EXCEPT !.row["pn"] = OneRow, !.path["pn"] = Lid!First(@, s.path["lid"])]
        BY <2>2, <3>1, <4>1 DEF Lid!RowMerged, StaysApart
      <4>3. Lid!First(s.path["pn"], s.path["lid"]) = OnePath  BY <3>1, <4>1
      <4>. QED  BY <4>2, <4>3 DEF Put, s
    <3>. QED  BY <3>2, RowAndPath
  <2>. QED  BY <2>1, <2>2
<1>6. C["pn"] = OneRow /\ P["pn"] = OnePath  BY <1>4 DEF At
<1>7. C2 = At(C, "pn", IF Blanks THEN Lid!Blanked(OneRow) ELSE OneRow)
      /\ P2 = At(P, "pn", IF Blanks THEN NoPath ELSE OnePath)
  BY <1>4 DEF At
<1>8. Lid!AliasesMoved(StoreOf(C, P, AllAliases, AllPurges, located)) = StoreOf(C, P, A, AllPurges, located)
  <2>. HIDE DEF C, P
  <2>. QED  BY DEF Lid!AliasesMoved, StoreOf
<1>9. Lid!LedgerApplied(StoreOf(C, P, A, AllPurges, located)) = StoreOf(C2, P2, A, AllPurges, located)
  <2>1. CASE Blanks
    <3>1. C2 = At(C, "pn", Lid!Blanked(OneRow)) /\ P2 = At(P, "pn", NoPath)  BY <1>7, <2>1
    <3>. HIDE DEF C, P, A, C2, P2
    <3>2. Lid!LedgerApplied(StoreOf(C, P, A, AllPurges, located))
            = Put(StoreOf(C, P, A, AllPurges, located), "pn", Lid!Blanked(OneRow), NoPath)
      <4>. DEFINE s == StoreOf(C, P, A, AllPurges, located)
      <4>1. s.row = C /\ s.path = P /\ s.ledger = AllPurges  BY StoreFacts
      <4>. HIDE DEF s
      <4>2. Lid!LedgerApplied(s) = [s EXCEPT !.row["pn"] = Lid!Blanked(@), !.path["pn"] = ""]
        BY <1>6, <2>1, <4>1 DEF Lid!LedgerApplied, Blanks
      <4>3. Lid!Blanked(s.row["pn"]) = Lid!Blanked(OneRow)  BY <1>6, <4>1
      <4>. QED  BY <4>2, <4>3 DEF Put, s, NoPath
    <3>3. Put(StoreOf(C, P, A, AllPurges, located), "pn", Lid!Blanked(OneRow), NoPath)
            = StoreOf(At(C, "pn", Lid!Blanked(OneRow)), At(P, "pn", NoPath), A, AllPurges, located)
      BY RowAndPath
    <3>. QED  BY <3>1, <3>2, <3>3
  <2>2. CASE ~Blanks
    <3>1. C2 = C /\ P2 = P  BY <2>2
    <3>. HIDE DEF C, P, A, C2, P2
    <3>. QED  BY <1>6, <2>2, <3>1, StoreFacts DEF Lid!LedgerApplied, Blanks
  <2>. QED  BY <2>1, <2>2
<1>10. Lid!LidRowsDeleted(StoreOf(C2, P2, A, AllPurges, located))
         = StoreOf(At(C2, "lid", NoRow), At(P2, "lid", NoPath), {a \in A : a[1] # "lid"},
                   AllPurges \ {"lid"}, located)
  <2>. DEFINE L == AllPurges \ {"lid"}
              B == {a \in A : a[1] # "lid"}
  <2>. HIDE DEF A, C2, P2
  <2>1. Lid!LidRowsDeleted(StoreOf(C2, P2, A, AllPurges, located))
          = Wipe(StoreOf(C2, P2, A, AllPurges, located), "lid", NoRow, NoPath, L, B)
    <3>. DEFINE s == StoreOf(C2, P2, A, AllPurges, located)
    <3>1. s.aliases = A /\ s.ledger = AllPurges /\ Lid!NoRow = NoRow  BY StoreFacts, SameRow
    <3>. HIDE DEF s
    <3>2. Lid!LidRowsDeleted(s) = [s EXCEPT !.row["lid"] = NoRow, !.path["lid"] = "", !.ledger = s.ledger \ {"lid"},
                                            !.aliases = {a \in s.aliases : a[1] # "lid"}]
      BY <3>1 DEF Lid!LidRowsDeleted
    <3>. QED  BY <3>1, <3>2, Zenon DEF Wipe, s, NoPath
  <2>. HIDE DEF L, B
  <2>2. Wipe(StoreOf(C2, P2, A, AllPurges, located), "lid", NoRow, NoPath, L, B)
          = StoreOf(At(C2, "lid", NoRow), At(P2, "lid", NoPath), B, L, located)
    BY AllFour
  <2>. QED  BY <2>1, <2>2, Zenon DEF L, B
<1>. HIDE DEF A, C2, P2
<1>11. Lid!MessagesMigrated(Lid!Tables)
         = StoreOf(At(C2, "lid", NoRow), At(P2, "lid", NoPath), {a \in A : a[1] # "lid"},
                   AllPurges \ {"lid"}, located)
  BY <1>2, <1>3, <1>5, <1>8, <1>9, <1>10, Zenon DEF Lid!MessagesMigrated
<1>12. Lid!Migrated(Lid!Tables)
         = StoreOf(At(C2, "lid", NoRow), At(P2, "lid", NoPath), {a \in A : a[1] # "lid"},
                   AllPurges \ {"lid"},
                   IF AllPurges \ {"lid"} # {} THEN {} ELSE IF "lid" \in located THEN {"pn"} ELSE located)
  <2>. DEFINE R == At(C2, "lid", NoRow)
              Q == At(P2, "lid", NoPath)
              B == {a \in A : a[1] # "lid"}
              L == AllPurges \ {"lid"}
  <2>. HIDE DEF R, Q, B, L
  <2>1. Lid!LocationMoved(StoreOf(R, Q, B, L, located))
          = StoreOf(R, Q, B, L, IF L # {} THEN {} ELSE IF "lid" \in located THEN {"pn"} ELSE located)
    BY DEF Lid!LocationMoved, StoreOf
  <2>. QED  BY <1>11, <2>1, Zenon DEF Lid!Migrated, R, Q, B, L
<1>. QED  BY <1>12, Zenon DEF A, C2, P2

\* What the merge leaves, as the two cases that the invariant tells apart.
LEMMA MergeFacts ==
  ASSUME LidInv, Lid!MigrateMerge
  PROVE  /\ copies' \in [Lid!Names -> Rows(Other)] /\ path' \in [Lid!Names -> {"", "lid", "pn"}]
         /\ copies'["lid"] = NoRow /\ path'["lid"] = ""
         /\ copies'["pn"] = IF Blanks THEN Lid!Blanked(OneRow) ELSE OneRow
         /\ path'["pn"] = IF Blanks THEN "" ELSE OnePath
         /\ aliases' = AllAliases /\ aliases' \subseteq {<<"pn", "lid">>}
         /\ purges' = IF purges = {} THEN {} ELSE {"pn"}
         /\ located' = IF purges # {} THEN {} ELSE IF "lid" \in located THEN {"pn"} ELSE located
         /\ "pn" \in AllPurges <=> purges # {}
         /\ OneRow \in Rows(Other)
<1>1. LidTypes /\ AllGood  BY DEF LidInv
<1>2. /\ copies \in [Lid!Names -> Rows(Other)] /\ path \in [Lid!Names -> {"", "lid", "pn"}]
      /\ aliases \subseteq {<<"pn", "lid">>} /\ purges \subseteq Lid!Names /\ path["lid"] # "pn"
  BY <1>1 DEF LidTypes
<1>3. "lid" \in Lid!Names /\ "pn" \in Lid!Names /\ "lid" # "pn"  BY DEF Lid!Names
<1>4. copies["lid"] \in Rows(Other) /\ copies["pn"] \in Rows(Other)  BY <1>2, <1>3
<1>5. OneRow \in Rows(Other)  BY <1>4, JoinedFacts DEF OneRow
<1>6. Blanks => Lid!Blanked(OneRow) \in Rows(Other)
  <2>1. Plausible({}, MaxTime, Other)  BY DEF Plausible
  <2>2. PICK g : g = {}  OBVIOUS
  <2>3. Plausible(g, MaxTime, Other) /\ \A c \in g : c.edited => c.text # ""  BY <2>1, <2>2
  <2>. QED  BY <1>5, <2>3, LidBlank DEF Blanks
<1>7. OnePath \in {"", "lid", "pn"}  BY <1>2, <1>3 DEF OnePath, First
<1>8. /\ AllPurges \ {"lid"} = (IF purges = {} THEN {} ELSE {"pn"})
      /\ "pn" \in AllPurges <=> purges # {}
  <2>1. CASE "lid" \in purges  BY <1>2, <2>1 DEF AllPurges, Lid!Names
  <2>2. CASE "lid" \notin purges  BY <1>2, <2>2 DEF AllPurges, Lid!Names
  <2>. QED  BY <2>1, <2>2
<1>9. AllAliases \subseteq {<<"pn", "lid">>}  BY <1>2, <1>3 DEF AllAliases, Displaces
<1>10. {a \in AllAliases \cup {<<"pn", a[2]>> : a \in {x \in AllAliases : x[1] = "lid"}} : a[1] # "lid"} = AllAliases
  <2>1. \A a \in AllAliases : a = <<"pn", "lid">>  BY <1>9
  <2>2. \A a \in AllAliases : a[1] = "pn"  BY <2>1
  <2>3. {x \in AllAliases : x[1] = "lid"} = {}  BY <2>2
  <2>. QED  BY <2>2, <2>3
<1>. DEFINE row1 == IF Blanks THEN Lid!Blanked(OneRow) ELSE OneRow
            path1 == IF Blanks THEN NoPath ELSE OnePath
<1>11. row1 \in Rows(Other) /\ path1 \in {"", "lid", "pn"} /\ NoRow \in Rows(Other)
  BY <1>5, <1>6, <1>7, NoRowOK, OtherFacts DEF RowOK, NoPath
<1>12. /\ copies' = At(At(copies, "pn", row1), "lid", NoRow)
       /\ path' = At(At(path, "pn", path1), "lid", NoPath)
       /\ aliases' = AllAliases /\ purges' = AllPurges \ {"lid"}
       /\ located' = IF AllPurges \ {"lid"} # {} THEN {} ELSE IF "lid" \in located THEN {"pn"} ELSE located
  <2>. DEFINE R == At(At(copies, "pn", row1), "lid", NoRow)
              P == At(At(path, "pn", path1), "lid", NoPath)
              L == AllPurges \ {"lid"}
              O == IF AllPurges \ {"lid"} # {} THEN {} ELSE IF "lid" \in located THEN {"pn"} ELSE located
  <2>1. Lid!Migrated(Lid!Tables) = StoreOf(R, P, AllAliases, L, O)  BY <1>1, <1>10, MergeSteps, Zenon
  <2>. HIDE DEF R, P, L, O
  <2>2. copies' = R /\ path' = P /\ aliases' = AllAliases /\ purges' = L /\ located' = O
    BY <2>1, StoreFacts DEF Lid!MigrateMerge
  <2>. QED  BY <2>2 DEF R, P, L, O
<1>. HIDE DEF row1, path1
<1>13. /\ copies' \in [Lid!Names -> Rows(Other)] /\ copies'["lid"] = NoRow /\ copies'["pn"] = row1
  BY <1>2, <1>3, <1>11, <1>12 DEF At
<1>14. /\ path' \in [Lid!Names -> {"", "lid", "pn"}] /\ path'["lid"] = "" /\ path'["pn"] = path1
  BY <1>2, <1>3, <1>11, <1>12 DEF At, NoPath
<1>. QED  BY <1>5, <1>8, <1>9, <1>12, <1>13, <1>14 DEF row1, path1, NoPath

\* The row that is left is good: as it was, joined, or blanked.
LEMMA OneRowGood ==
  ASSUME LidInv, Lid!MigrateMerge
  PROVE  /\ LidGood(copies'["pn"], given["lid"] \cup given["pn"], purges # {})
         /\ purges # {} /\ copies'["pn"].here => copies'["pn"].purged
         /\ copies'["pn"].purged => purges # {} /\ copies'["pn"].text = "" /\ copies'["pn"].media = ""
         /\ purges = {} => ~copies["lid"].purged /\ ~copies["pn"].purged /\ ~copies'["pn"].purged
<1>. DEFINE d == copies["pn"]
            s == copies["lid"]
            g == given["lid"] \cup given["pn"]
<1>1. LidGood(d, given["pn"], "pn" \in purges) /\ LidGood(s, given["lid"], "lid" \in purges)
  BY DEF LidInv, AllGood, Lid!Names
<1>2. (s.purged => "lid" \in purges) /\ (d.purged => "pn" \in purges)  BY DEF LidInv, PurgesHold, Lid!Names
<1>3. /\ copies'["pn"] = IF Blanks THEN Lid!Blanked(OneRow) ELSE OneRow
      /\ "pn" \in AllPurges <=> purges # {}
      /\ OneRow \in Rows(Other)
  BY MergeFacts
<1>4. RowOK(s, Other) /\ RowOK(d, Other)  BY <1>1 DEF LidGood
<1>5. Plausible(g, MaxTime, Other) /\ \A c \in g : c.edited => c.text # ""  BY <1>1 DEF LidGood, Plausible
<1>6. CASE purges = {}
  <2>1. ~s.purged /\ ~d.purged /\ ~Blanks  BY <1>2, <1>3, <1>6 DEF Blanks
  <2>2. LidGood(d, given["pn"], FALSE) /\ LidGood(s, given["lid"], FALSE)
    <3>1. ("pn" \in purges) = FALSE /\ ("lid" \in purges) = FALSE  BY <1>6
    <3>. QED  BY <1>1, <3>1
  <2>3. StaysApart <=> ~s.here  BY <1>3, <1>6, <2>1 DEF StaysApart
  <2>4. LidGood(OneRow, g, FALSE) /\ ~OneRow.purged
    <3>1. CASE ~s.here
      <4>1. given["lid"] = {}  BY <2>2, <3>1 DEF LidGood, Good
      <4>2. OneRow = d /\ g = given["pn"]  BY <2>3, <3>1, <4>1 DEF OneRow
      <4>. QED  BY <2>1, <2>2, <4>2
    <3>2. CASE s.here /\ ~d.here
      <4>1. given["pn"] = {}  BY <2>2, <3>2 DEF LidGood, Good
      <4>2. OneRow = s /\ g = given["lid"]  BY <2>3, <3>2, <4>1 DEF OneRow
      <4>. QED  BY <2>1, <2>2, <4>2
    <3>3. CASE s.here /\ d.here
      <4>1. OneRow = Lid!Joined(d, s)  BY <2>3, <3>3 DEF OneRow
      <4>2. g = given["pn"] \cup given["lid"]  OBVIOUS
      <4>3. LidGood(Lid!Joined(d, s), given["pn"] \cup given["lid"], FALSE) /\ ~Lid!Joined(d, s).purged
        BY <2>1, <2>2, <3>3, LidJoin
      <4>. QED  BY <4>1, <4>2, <4>3
    <3>. QED  BY <3>1, <3>2, <3>3
  <2>5. copies'["pn"] = OneRow  BY <1>3, <2>1
  <2>6. (purges # {}) = FALSE  BY <1>6
  <2>. QED  BY <1>6, <2>1, <2>4, <2>5, <2>6
<1>7. CASE purges # {} /\ OneRow.here
  <2>1. copies'["pn"] = Lid!Blanked(OneRow)  BY <1>3, <1>7 DEF Blanks
  <2>2. LidGood(Lid!Blanked(OneRow), g, TRUE) /\ Lid!Blanked(OneRow).purged
        /\ Lid!Blanked(OneRow).text = "" /\ Lid!Blanked(OneRow).media = ""
    BY <1>3, <1>5, <1>7, LidBlank
  <2>3. (purges # {}) = TRUE  BY <1>7
  <2>. QED  BY <1>7, <2>1, <2>2, <2>3
<1>8. CASE purges # {} /\ ~OneRow.here
  <2>1. copies'["pn"] = OneRow  BY <1>3, <1>8 DEF Blanks
  <2>2. OneRow = d
    <3>1. CASE StaysApart  BY <3>1 DEF OneRow
    <3>2. CASE ~StaysApart /\ d.here
      <4>1. d \in Rows(Other) /\ s \in Rows(Other)  BY <1>4 DEF RowOK
      <4>2. OneRow.here = d.here  BY <3>2, <4>1, JoinedFacts DEF OneRow
      <4>. QED  BY <1>8, <3>2, <4>2
    <3>3. CASE ~StaysApart /\ ~d.here  BY <1>8, <3>3 DEF StaysApart, OneRow
    <3>. QED  BY <3>1, <3>2, <3>3
  <2>3. OneRow = NoRow  BY <1>4, <1>8, <2>2 DEF RowOK
  <2>4. ~NoRow.purged /\ ~NoRow.here /\ NoRow.editedTs = 0  BY DEF NoRow
  <2>5. LidGood(OneRow, g, TRUE)  BY <1>4, <1>5, <2>2, <2>3, <2>4 DEF LidGood
  <2>6. (purges # {}) = TRUE  BY <1>8
  <2>. QED  BY <1>8, <2>1, <2>3, <2>4, <2>5, <2>6
<1>. QED  BY <1>6, <1>7, <1>8

LEMMA MergeStepKeeps ==
  ASSUME LidInv, Lid!MigrateMerge
  PROVE  LidInv'
<1>1. LidTypes /\ PurgesHold /\ OffIsQuiet /\ PathsHaveRows /\ WorkersApart /\ MigrationKnows /\ Recorded
  BY DEF LidInv
<1>2. /\ copies' \in [Lid!Names -> Rows(Other)] /\ path' \in [Lid!Names -> {"", "lid", "pn"}]
      /\ copies'["lid"] = NoRow /\ path'["lid"] = ""
      /\ copies'["pn"] = IF Blanks THEN Lid!Blanked(OneRow) ELSE OneRow
      /\ path'["pn"] = IF Blanks THEN "" ELSE OnePath
      /\ aliases' = AllAliases /\ aliases' \subseteq {<<"pn", "lid">>}
      /\ purges' = IF purges = {} THEN {} ELSE {"pn"}
      /\ located' = IF purges # {} THEN {} ELSE IF "lid" \in located THEN {"pn"} ELSE located
      /\ "pn" \in AllPurges <=> purges # {}
  BY MergeFacts
<1>3. /\ LidGood(copies'["pn"], given["lid"] \cup given["pn"], purges # {})
      /\ purges # {} /\ copies'["pn"].here => copies'["pn"].purged
      /\ copies'["pn"].purged => purges # {} /\ copies'["pn"].text = "" /\ copies'["pn"].media = ""
      /\ purges = {} => ~copies["lid"].purged /\ ~copies["pn"].purged /\ ~copies'["pn"].purged
  BY OneRowGood
<1>4. /\ mig.at = "merge" /\ mig' = [at |-> "idle", media |-> {}]
      /\ given' = [lid |-> {}, pn |-> given["lid"] \cup given["pn"]]
      /\ left' = IF purges = {} THEN left ELSE left \cup (files \cap UNION {Lid!Paths(n) : n \in Lid!Names})
      /\ UNCHANGED <<mode, files, worker, purged>>
  BY DEF Lid!MigrateMerge, Lid!NoMigration
<1>5. "lid" \in Lid!Names /\ "pn" \in Lid!Names /\ \A n \in Lid!Names : n = "lid" \/ n = "pn"  BY DEF Lid!Names
<1>6. ~NoRow.here /\ ~NoRow.purged  BY DEF NoRow
<1>7. given'["lid"] = {} /\ given'["pn"] = given["lid"] \cup given["pn"]
      /\ given' \in [Lid!Names -> SUBSET ContentsOf(Other)]
  <2>1. given["lid"] \in SUBSET ContentsOf(Other) /\ given["pn"] \in SUBSET ContentsOf(Other)
    BY <1>1, <1>5 DEF LidTypes
  <2>. QED  BY <1>4, <2>1 DEF Lid!Names
<1>8. LidTypes'
  <2>1. left' \subseteq Lid!Names  BY <1>1, <1>4 DEF LidTypes
  <2>2. mig' \in [at : {"idle", "media", "lid", "pn", "merge"}, media : SUBSET (Lid!Names \X Lid!Names)]
    BY <1>4
  <2>3. located' \subseteq Lid!Names /\ purges' \subseteq Lid!Names  BY <1>1, <1>2, <1>5 DEF LidTypes
  <2>. QED  BY <1>1, <1>2, <1>4, <1>7, <2>1, <2>2, <2>3 DEF LidTypes
<1>9. AllGood'
  <2>1. LidGood(copies'["lid"], given'["lid"], "lid" \in purges')  BY <1>2, <1>7, LidNone
  <2>2. ("pn" \in purges') = (purges # {})
    <3>1. purges' = IF purges = {} THEN {} ELSE {"pn"}  BY <1>2
    <3>2. "pn" \in purges' <=> purges # {}  BY <3>1
    <3>. QED  BY <3>2
  <2>3. LidGood(copies'["pn"], given'["pn"], "pn" \in purges')  BY <1>3, <1>7, <2>2
  <2>. QED  BY <1>5, <2>1, <2>3 DEF AllGood
<1>10. PurgesHold'
  <2>1. purged' => purges' # {}  BY <1>1, <1>2, <1>4 DEF PurgesHold
  <2>2. "lid" \notin purges' /\ ~copies'["lid"].purged  BY <1>2, <1>6
  <2>3. "pn" \in purges' => "pn" \notin located' /\ (copies'["pn"].here => copies'["pn"].purged)  BY <1>2, <1>3
  <2>4. copies'["pn"].purged => "pn" \in purges' /\ copies'["pn"].text = "" /\ copies'["pn"].media = ""
    BY <1>2, <1>3
  <2>. QED  BY <1>5, <2>1, <2>2, <2>3, <2>4 DEF PurgesHold
<1>11. OffIsQuiet'
  <2>1. mode # "off"  BY <1>1, <1>4 DEF OffIsQuiet
  <2>. QED  BY <1>4, <2>1 DEF OffIsQuiet
<1>12. path'["pn"] # "" => copies'["pn"].here
  <2>1. CASE Blanks  BY <1>2, <2>1
  <2>2. CASE ~Blanks
    <3>1. path'["pn"] = OnePath /\ copies'["pn"] = OneRow  BY <1>2, <2>2
    <3>2. CASE StaysApart
      <4>1. OnePath = path["pn"] /\ OneRow = copies["pn"]  BY <3>2 DEF OnePath, OneRow
      <4>. QED  BY <1>1, <1>5, <3>1, <4>1 DEF PathsHaveRows
    <3>3. CASE ~StaysApart
      <4>1. copies["lid"].here  BY <3>3 DEF StaysApart
      <4>2. copies["lid"] \in Rows(Other) /\ copies["pn"] \in Rows(Other)  BY <1>1, <1>5 DEF LidTypes
      <4>3. OneRow.here  BY <3>3, <4>1, <4>2, JoinedFacts DEF OneRow
      <4>. QED  BY <3>1, <4>3
    <3>. QED  BY <3>2, <3>3
  <2>. QED  BY <2>1, <2>2
\* After a purge neither a path nor an alias is left.
<1>13. purges # {} => aliases' = {} /\ path'["pn"] = ""
  <2>. SUFFICES ASSUME purges # {} PROVE aliases' = {} /\ path'["pn"] = ""  OBVIOUS
  <2>1. aliases = {}  BY <1>1, <1>4 DEF MigrationKnows
  <2>2. AllPurges # {}  BY <1>2
  <2>3. aliases' = {}  BY <1>2, <2>1, <2>2 DEF AllAliases, Displaces
  <2>4. CASE Blanks  BY <1>2, <2>3, <2>4
  <2>5. CASE ~Blanks
    <3>1. ~OneRow.here /\ copies'["pn"] = OneRow  BY <1>2, <2>5 DEF Blanks
    <3>. QED  BY <1>12, <2>3, <3>1
  <2>. QED  BY <2>4, <2>5
<1>14. PathsHaveRows'
  <2>1. aliases' # {} => path'["pn"] # ""
    <3>1. CASE purges # {}  BY <1>13, <3>1
    <3>2. CASE purges = {}
      <4>1. ~Blanks  BY <1>2, <3>2 DEF Blanks
      <4>2. OnePath = "" => path["pn"] = ""  BY DEF OnePath, First
      <4>3. path["pn"] = "" => aliases = {} /\ ~Displaces  BY <1>1 DEF PathsHaveRows, Displaces
      <4>. QED  BY <1>2, <4>1, <4>2, <4>3 DEF AllAliases
    <3>. QED  BY <3>1, <3>2
  <2>2. "pn" \in purges' => aliases' = {} /\ path'["pn"] # "lid"  BY <1>2, <1>13
  <2>. QED  BY <1>2, <1>5, <1>12, <2>1, <2>2 DEF PathsHaveRows
<1>15. purges # {} => \A n \in Lid!Names : \A p : ~Has(n, p)'
  BY <1>2, <1>5, <1>13 DEF Has
<1>16. WorkersApart'
  <2>1. purges' # {} => purges # {} /\ "lid" \notin purges'  BY <1>2
  <2>2. "lid" \notin purges'  BY <1>2
  <2>. QED  BY <1>15, <2>1, <2>2 DEF WorkersApart
<1>17. MigrationKnows'
  <2>1. mig'.at = "idle" /\ mig'.media = {}  BY <1>4
  <2>. QED  BY <1>5, <2>1 DEF MigrationKnows, Lid!Names
<1>18. Recorded'
  <2>. SUFFICES ASSUME NEW f \in files' \ left'
                PROVE  (\E k \in Lid!Names : Has(k, f)' /\ ~copies'[k].purged) \/ worker'[f] = "written"
    BY DEF Recorded
  <2>1. f \in files /\ f \notin left /\ f # "" /\ f \in Lid!Names  BY <1>1, <1>4 DEF LidTypes, Lid!Names
  <2>2. CASE worker[f] = "written"  BY <1>4, <2>2
  <2>3. CASE worker[f] # "written"
    <3>1. PICK k \in Lid!Names : Has(k, f) /\ ~copies[k].purged  BY <1>1, <2>1, <2>3 DEF Recorded
    <3>2. purges = {}
      <4>1. f \in Lid!Paths(k)  BY <1>1, <3>1, HasFacts
      <4>. QED  BY <1>4, <2>1, <4>1
    <3>3. ~copies'["pn"].purged /\ ~copies["pn"].purged /\ AllPurges = {}  BY <1>3, <3>2 DEF AllPurges
    <3>4. path'["pn"] = OnePath /\ aliases' = AllAliases  BY <1>2, <3>2 DEF Blanks
    <3>5. Has("pn", f)'
      <4>1. CASE <<k, f>> \in aliases
        <5>1. k = "pn"  BY <1>1, <4>1, HasTypes
        <5>2. <<"pn", f>> \in aliases'  BY <3>4, <4>1, <5>1 DEF AllAliases
        <5>. QED  BY <2>1, <5>2 DEF Has
      <4>2. CASE k = "pn" /\ path["pn"] = f
        <5>1. OnePath = f  BY <2>1, <4>2 DEF OnePath, First
        <5>. QED  BY <2>1, <3>4, <5>1 DEF Has
      <4>3. CASE k = "lid" /\ path["lid"] = f
        <5>1. copies["lid"].here  BY <1>1, <1>5, <2>1, <4>3 DEF PathsHaveRows
        <5>2. ~StaysApart  BY <3>3, <5>1 DEF StaysApart
        <5>3. OnePath = IF path["pn"] # "" THEN path["pn"] ELSE f  BY <4>3, <5>2 DEF OnePath, First
        <5>4. CASE path["pn"] = "" \/ path["pn"] = f
          <6>1. OnePath = f  BY <5>3, <5>4
          <6>. QED  BY <2>1, <3>4, <6>1 DEF Has
        <5>5. CASE path["pn"] # "" /\ path["pn"] # f
          <6>1. copies["pn"].here  BY <1>1, <1>5, <5>5 DEF PathsHaveRows
          <6>2. Displaces  BY <2>1, <3>3, <4>3, <5>1, <5>5, <6>1 DEF Displaces
          <6>3. <<"pn", f>> \in aliases'  BY <3>4, <4>3, <6>2 DEF AllAliases
          <6>. QED  BY <2>1, <6>3 DEF Has
        <5>. QED  BY <5>4, <5>5
      <4>. QED  BY <1>5, <3>1, <4>1, <4>2, <4>3 DEF Has
    <3>. QED  BY <1>5, <3>3, <3>5
  <2>. QED  BY <2>2, <2>3
<1>. QED  BY <1>8, <1>9, <1>10, <1>11, <1>14, <1>16, <1>17, <1>18 DEF LidInv

\* Maintenance: a purge removes the files first, a clean-up leaves them.
LEMMA RowGoes ==
  ASSUME LidInv, NEW n \in Lid!Names, Lid!PurgeMessage(n) \/ Lid!DeleteChat(n)
  PROVE  /\ path'[n] = "" /\ \A k \in Lid!Names \ {n} : path'[k] = path[k]
         /\ path' \in [Lid!Names -> {"", "lid", "pn"}] /\ path'["lid"] # "pn"
         /\ \A k, p : <<k, p>> \in aliases' <=> <<k, p>> \in aliases /\ k # n
         /\ aliases' \subseteq aliases
         /\ \A p : ~Has(n, p)' /\ \A k \in Lid!Names \ {n} : Has(k, p)' <=> Has(k, p)
         /\ \A k \in Lid!Names : ~Busy(k)
         /\ mig.at = "idle" /\ mig.media = {} /\ UNCHANGED <<mode, worker, mig>>
<1>1. LidTypes /\ OffIsQuiet /\ MigrationKnows  BY DEF LidInv
<1>2. /\ mode = "off" /\ path' = [path EXCEPT ![n] = ""] /\ aliases' = {a \in aliases : a[1] # n}
      /\ UNCHANGED <<mode, worker, mig>>
  BY DEF Lid!PurgeMessage, Lid!DeleteChat
<1>3. path'[n] = "" /\ \A k \in Lid!Names \ {n} : path'[k] = path[k]  BY <1>1, <1>2 DEF LidTypes
<1>4. path' \in [Lid!Names -> {"", "lid", "pn"}]  BY <1>1, <1>2 DEF LidTypes
<1>5. path'["lid"] # "pn"  BY <1>1, <1>3 DEF LidTypes, Lid!Names
<1>6. \A k, p : <<k, p>> \in aliases' <=> <<k, p>> \in aliases /\ k # n
  <2>1. \A k, p : <<k, p>>[1] = k  OBVIOUS
  <2>. QED  BY <1>2, <2>1
<1>7. \A p : ~Has(n, p)' /\ \A k \in Lid!Names \ {n} : Has(k, p)' <=> Has(k, p)  BY <1>3, <1>6 DEF Has
<1>8. aliases' \subseteq aliases  BY <1>2
<1>9. mig.at = "idle" /\ mig.media = {} /\ \A k \in Lid!Names : ~Busy(k)
  BY <1>1, <1>2 DEF OffIsQuiet, MigrationKnows
<1>. QED  BY <1>2, <1>3, <1>4, <1>5, <1>6, <1>7, <1>8, <1>9

LEMMA RowGoneKeeps ==
  ASSUME LidInv, NEW n \in Lid!Names, Lid!PurgeMessage(n) \/ Lid!DeleteChat(n)
  PROVE  LidInv'
<1>1. LidTypes /\ PurgesHold /\ OffIsQuiet /\ PathsHaveRows /\ WorkersApart /\ MigrationKnows /\ Recorded /\ AllGood
  BY DEF LidInv
<1>2. /\ path'[n] = "" /\ \A k \in Lid!Names \ {n} : path'[k] = path[k]
      /\ path' \in [Lid!Names -> {"", "lid", "pn"}] /\ path'["lid"] # "pn"
      /\ \A k, p : <<k, p>> \in aliases' <=> <<k, p>> \in aliases /\ k # n
      /\ aliases' \subseteq aliases
      /\ \A p : ~Has(n, p)' /\ \A k \in Lid!Names \ {n} : Has(k, p)' <=> Has(k, p)
      /\ \A k \in Lid!Names : ~Busy(k)
      /\ mig.at = "idle" /\ mig.media = {} /\ UNCHANGED <<mode, worker, mig>>
  BY RowGoes
<1>3. OffIsQuiet' /\ WorkersApart'  BY <1>1, <1>2 DEF OffIsQuiet, WorkersApart, Busy, Lid!Names
<1>4. MigrationKnows'  BY <1>2 DEF MigrationKnows, Lid!Names
<1>5. LidGood(copies[n], given[n], n \in purges)  BY <1>1 DEF AllGood
<1>6. NoRow \in Rows(Other) /\ ~NoRow.here /\ ~NoRow.purged  BY NoRowOK, OtherFacts DEF RowOK, NoRow
<1>7. ASSUME NEW q \in Rows(Other), copies' = [copies EXCEPT ![n] = q], NEW g \in SUBSET ContentsOf(Other),
             given' = [given EXCEPT ![n] = g], LidGood(q, g, n \in purges'),
             purges' = purges \/ purges' = purges \cup {n}, located' = located \ {n},
             files' \subseteq files, left' \subseteq Lid!Names,
             q.here => q.purged, q.purged => n \in purges' /\ q.text = "" /\ q.media = "",
             purged' => purges' # {}, 
             \A f \in files' \ left' : f \in files \ left /\ ~Has(n, f)
      PROVE  LidInv'
  <2>1. copies'[n] = q /\ \A k \in Lid!Names \ {n} : copies'[k] = copies[k]  BY <1>1, <1>7 DEF LidTypes
  <2>2. given'[n] = g /\ \A k \in Lid!Names \ {n} : given'[k] = given[k]  BY <1>1, <1>7 DEF LidTypes
  <2>3. \A k \in Lid!Names \ {n} : k \in purges' <=> k \in purges  BY <1>7
  <2>4. copies' \in [Lid!Names -> Rows(Other)] /\ given' \in [Lid!Names -> SUBSET ContentsOf(Other)]
    BY <1>1, <1>7 DEF LidTypes
  <2>5. LidTypes'  BY <1>1, <1>2, <1>7, <2>4 DEF LidTypes
  <2>6. AllGood'
    <3>1. ASSUME NEW k \in Lid!Names \ {n} PROVE LidGood(copies'[k], given'[k], k \in purges')
      <4>1. LidGood(copies[k], given[k], k \in purges)  BY <1>1 DEF AllGood
      <4>2. (k \in purges') = (k \in purges)  BY <2>3
      <4>. QED  BY <2>1, <2>2, <4>1, <4>2
    <3>2. LidGood(copies'[n], given'[n], n \in purges')  BY <1>7, <2>1, <2>2
    <3>. QED  BY <3>1, <3>2 DEF AllGood
  <2>7. PurgesHold'  BY <1>1, <1>7, <2>1, <2>3 DEF PurgesHold
  <2>8. PathsHaveRows'
    <3>1. \A k \in Lid!Names : path'[k] # "" => copies'[k].here  BY <1>1, <1>2, <2>1 DEF PathsHaveRows
    <3>2. aliases' # {} => n # "pn" /\ aliases # {}
      <4>1. \A x \in aliases' : x = <<"pn", "lid">>  BY <1>1, <1>2 DEF LidTypes
      <4>. QED  BY <1>2, <4>1
    <3>3. aliases' # {} => path'["pn"] # ""  BY <1>1, <1>2, <3>2 DEF PathsHaveRows, Lid!Names
    <3>4. "pn" \in purges' => aliases' = {} /\ path'["pn"] # "lid"
      <4>1. CASE n = "pn"  BY <1>2, <3>2, <4>1
      <4>2. CASE n # "pn"  BY <1>1, <1>2, <2>3, <4>2 DEF PathsHaveRows, Lid!Names
      <4>. QED  BY <4>1, <4>2
    <3>. QED  BY <3>1, <3>3, <3>4 DEF PathsHaveRows
  <2>9. Recorded'
    <3>. SUFFICES ASSUME NEW f \in files' \ left'
                  PROVE  (\E k \in Lid!Names : Has(k, f)' /\ ~copies'[k].purged) \/ worker'[f] = "written"
      BY DEF Recorded
    <3>1. f \in files \ left /\ ~Has(n, f)  BY <1>7
    <3>2. CASE worker[f] = "written"  BY <1>2, <3>2
    <3>3. CASE worker[f] # "written"
      <4>1. PICK k \in Lid!Names : Has(k, f) /\ ~copies[k].purged  BY <1>1, <3>1, <3>3 DEF Recorded
      <4>2. k # n  BY <3>1, <4>1
      <4>3. Has(k, f)' /\ ~copies'[k].purged  BY <1>2, <2>1, <4>1, <4>2
      <4>. QED  BY <4>3
    <3>. QED  BY <3>2, <3>3
  <2>. QED  BY <1>3, <1>4, <2>5, <2>6, <2>7, <2>8, <2>9 DEF LidInv
<1>8. \A p : p \in Lid!Paths(n) <=> Has(n, p)  BY <1>1, HasFacts
<1>9. CASE Lid!PurgeMessage(n)
  <2>. DEFINE q == Purged(copies[n])
  <2>1. /\ copies[n].here /\ Deleted(copies[n]) /\ copies' = [copies EXCEPT ![n] = q] /\ given' = given
        /\ purges' = purges \cup {n} /\ located' = located \ {n} /\ purged' = TRUE
        /\ files' = files \ Lid!Paths(n) /\ left' = left \ Lid!Paths(n)
    BY <1>9, SameRow DEF Lid!PurgeMessage
  <2>2. LidGood(q, given[n], TRUE) /\ q.purged /\ q.text = "" /\ q.media = "" /\ q \in Rows(Other)
    BY <1>5, <2>1, LidPurge
  <2>. HIDE DEF q
  <2>3. given' = [given EXCEPT ![n] = given[n]] /\ given[n] \in SUBSET ContentsOf(Other)  BY <1>1, <2>1 DEF LidTypes
  <2>4. (n \in purges') = TRUE  BY <2>1
  <2>5. LidGood(q, given[n], n \in purges')  BY <2>2, <2>4
  <2>6. files' \subseteq files /\ left' \subseteq Lid!Names  BY <1>1, <2>1 DEF LidTypes
  <2>7. \A f \in files' \ left' : f \in files \ left /\ ~Has(n, f)  BY <1>8, <2>1
  <2>. QED  BY <1>7, <2>1, <2>2, <2>3, <2>4, <2>5, <2>6, <2>7
<1>10. CASE Lid!DeleteChat(n)
  <2>1. /\ copies' = [copies EXCEPT ![n] = NoRow] /\ given' = [given EXCEPT ![n] = {}]
        /\ purges' = purges /\ located' = located \ {n} /\ purged' = purged
        /\ files' = files /\ left' = left \cup (files \cap Lid!Paths(n))
    BY <1>10, SameRow DEF Lid!DeleteChat
  <2>2. LidGood(NoRow, {}, n \in purges')  BY LidNone
  <2>3. purged' => purges' # {}  BY <1>1, <2>1 DEF PurgesHold
  <2>4. files' \subseteq files /\ left' \subseteq Lid!Names  BY <1>1, <2>1 DEF LidTypes
  <2>5. \A f \in files' \ left' : f \in files \ left /\ ~Has(n, f)  BY <1>8, <2>1
  <2>6. {} \in SUBSET ContentsOf(Other)  OBVIOUS
  <2>. QED  BY <1>6, <1>7, <2>1, <2>2, <2>3, <2>4, <2>5, <2>6
<1>. QED  BY <1>9, <1>10

LEMMA LidStepKeeps == LidInv /\ [Lid!Next]_(Lid!vars) => LidInv'
<1>. SUFFICES ASSUME LidInv, [Lid!Next]_(Lid!vars) PROVE LidInv'  OBVIOUS
<1>1. CASE UNCHANGED Lid!vars
  <2>1. UNCHANGED <<mode, copies, path, aliases, purges, located, files, worker, mig, given, purged, left>>
    BY <1>1 DEF Lid!vars, Lid!tables
  <2>2. \A n, p : Has(n, p)' = Has(n, p)  BY <2>1 DEF Has
  <2>3. \A n : Busy(n)' = Busy(n)  BY <2>1 DEF Busy
  <2>4. LidTypes' /\ PurgesHold' /\ PathsHaveRows'  BY <2>1 DEF LidInv, LidTypes, PurgesHold, PathsHaveRows
  <2>5. OffIsQuiet' /\ WorkersApart'  BY <2>1, <2>2, <2>3 DEF LidInv, OffIsQuiet, WorkersApart
  <2>6. MigrationKnows' /\ Recorded'  BY <2>1, <2>2, <2>3 DEF LidInv, MigrationKnows, Recorded
  <2>7. AllGood'  BY <2>1, GoodStays DEF LidInv
  <2>. QED  BY <2>4, <2>5, <2>6, <2>7 DEF LidInv
<1>2. CASE Lid!Next
  <2>1. CASE Lid!StartSync \/ Lid!StopSync \/ Lid!MigrateRefused  BY <2>1, StoppedKeeps
  <2>2. CASE Lid!MigrateStart \/ Lid!MigrateCheck  BY <2>2, MigrationKeeps
  <2>3. CASE Lid!MigrateMerge  BY <2>3, MergeStepKeeps
  <2>4. ASSUME NEW n \in Lid!Names,
               \/ \E t \in Copied : Lid!StoreOriginal(n, t)
               \/ \E e \in Edits : Lid!StoreEdit(n, e)
               \/ Lid!StoreRevoke(n)
        PROVE  LidInv'
    BY <2>4, CopyArrives
  <2>5. ASSUME NEW n \in Lid!Names, Lid!DownloadLoad(n) \/ Lid!DownloadWrite(n) \/ Lid!DownloadMark(n)
        PROVE  LidInv'
    BY <2>5, LoadKeeps, WriteKeeps, MarkKnown
  <2>6. ASSUME NEW n \in Lid!Names, Lid!MigrateRemove(n) \/ Lid!MigrateClear(n) PROVE LidInv'
    BY <2>6, RemoveKeeps, ClearKeeps
  <2>7. ASSUME NEW n \in Lid!Names, Lid!PurgeMessage(n) \/ Lid!DeleteChat(n) PROVE LidInv'
    BY <2>7, RowGoneKeeps
  <2>. QED  BY <1>2, <2>1, <2>2, <2>3, <2>4, <2>5, <2>6, <2>7, Zenon DEF Lid!Next
<1>. QED  BY <1>1, <1>2

LEMMA LidSaysSo == LidInv => Lid!MergeKeeps
<1>. SUFFICES ASSUME LidInv PROVE Lid!MergeKeeps  OBVIOUS
<1>1. LidTypes /\ PurgesHold /\ Recorded /\ AllGood  BY DEF LidInv
<1>2. Lid!PurgeFollowsPerson
  <2>. SUFFICES ASSUME purged, "lid" \notin purges
                PROVE  /\ copies["pn"].here => copies["pn"].purged /\ copies["pn"].text = ""
                       /\ "pn" \notin located
    BY DEF Lid!PurgeFollowsPerson, Lid!LidKnown
  <2>1. "pn" \in purges  BY <1>1 DEF LidTypes, PurgesHold, Lid!Names
  <2>. QED  BY <1>1, <2>1 DEF PurgesHold, Lid!Names
<1>3. Lid!MergeShowsNewest
  <2>. SUFFICES ASSUME NEW n \in Lid!Names
                PROVE  /\ Visible(copies[n]) => \E c \in given[n] : copies[n].text = c.text
                                                                    /\ \A d \in given[n] : ~Lid!Newer(d, c)
                       /\ copies[n].here /\ ~copies[n].purged /\ given[n] # {} /\ (\A c \in given[n] : c.text # "")
                            => copies[n].text # ""
    BY SameRow DEF Lid!MergeShowsNewest
  <2>1. LidGood(copies[n], given[n], n \in purges)  BY <1>1 DEF AllGood
  <2>2. ~NoRow.here  BY DEF NoRow
  <2>3. CASE copies[n] = NoRow  BY <2>2, <2>3 DEF Visible
  <2>4. CASE copies[n] # NoRow
    <3>1. Shows(copies[n], given[n], Other) /\ Kept(copies[n], given[n])  BY <2>1, <2>4 DEF LidGood, Good
    <3>2. Plausible(given[n], MaxTime, Other)  BY <2>1 DEF LidGood
    <3>3. \A c \in given[n] : c.ts \in Nat /\ c.edited \in BOOLEAN
      BY <3>2, TimesFacts DEF Plausible, ContentsOf
    <3>4. ASSUME Visible(copies[n])
          PROVE  \E c \in given[n] : copies[n].text = c.text /\ \A d \in given[n] : ~Lid!Newer(d, c)
      <4>1. CASE copies[n].edited
        <5>1. PICK c \in given[n] : c.edited /\ c.ts = copies[n].editedTs /\ c.text = copies[n].text
          BY <3>1, <3>4, <4>1 DEF Shows, ShowsEdit
        <5>2. \A d \in given[n] : d.edited => d.ts <= c.ts  BY <3>1, <3>4, <4>1, <5>1 DEF Shows, ShowsEdit
        <5>3. \A d \in given[n] : d.edited => ~(d.ts > c.ts)  BY <3>3, <5>1, <5>2
        <5>4. \A d \in given[n] : ~Lid!Newer(d, c)  BY <5>1, <5>3 DEF Lid!Newer
        <5>. QED  BY <5>1, <5>4
      <4>2. CASE ~copies[n].edited
        <5>1. PICK c \in given[n] : ~c.edited /\ c.text = copies[n].text
          BY <3>1, <3>4, <4>2 DEF Shows, ShowsOriginal
        <5>2. \A d \in given[n] : ~d.edited  BY <3>1, <3>4, <4>2 DEF Shows, ShowsOriginal
        <5>3. \A d \in given[n] : d.ts = OriginalTime  BY <3>2, <5>2 DEF Plausible
        <5>4. \A d \in given[n] : ~Lid!Newer(d, c)  BY <3>3, <5>1, <5>2, <5>3 DEF Lid!Newer
        <5>. QED  BY <5>1, <5>4
      <4>. QED  BY <4>1, <4>2
    <3>. QED  BY <3>1, <3>4 DEF Kept
  <2>. QED  BY <2>3, <2>4
<1>4. Lid!FilesAreKnown
  <2>1. \A n, p : p \in Lid!Paths(n) <=> Has(n, p)  BY <1>1, HasFacts
  <2>. QED  BY <1>1, <2>1 DEF Recorded, Lid!FilesAreKnown
<1>. QED  BY <1>2, <1>3, <1>4 DEF Lid!MergeKeeps

\* A person with two names: once they are merged a purge under either name holds, the
\* row shows the newest content either was given, and every file on disk belongs to a
\* message that is not purged, however arrivals, downloads, migrations, purges and
\* clean-ups interleave and wherever the sync stops.
THEOREM MergeKeepsAlways == (Lid!Spec => []Lid!MergeKeeps) /\ (StoreSpec => []MergeKeeps)
<1>. DEFINE Part == part = "lid" => LidInv
<1>1. StoreInit => Part  BY LidStarts DEF StoreInit
<1>2. [StoreNext]_partsVars => part' = part /\ (part = "lid" => [Lid!Next]_(Lid!vars))
  <2>. SUFFICES ASSUME [StoreNext]_partsVars PROVE part' = part /\ (part = "lid" => [Lid!Next]_(Lid!vars))
    OBVIOUS
  <2>1. CASE UNCHANGED partsVars
    BY <2>1 DEF partsVars, vars, storeVars, lidVars, Lid!vars, Lid!tables
  <2>2. CASE StoreNext  BY <2>2 DEF StoreNext
  <2>. QED  BY <2>1, <2>2
<1>3. Part /\ [StoreNext]_partsVars => Part'  BY <1>2, LidStepKeeps
<1>4. Part => MergeKeeps  BY LidSaysSo DEF MergeKeeps
<1>5. Lid!Spec => []Lid!MergeKeeps  BY LidStarts, LidStepKeeps, LidSaysSo, PTL DEF Lid!Spec
<1>. HIDE DEF Part
<1>6. StoreSpec => []MergeKeeps  BY <1>1, <1>3, <1>4, PTL DEF StoreSpec
<1>. QED  BY <1>5, <1>6

-----------------------------------------------------------------------------
(* ChangeJournal: the journal and its consumer. *)

Ops == {"upsert", "delete", "identity_move"}
Entries == [n : Nat, op : Ops, key : Journal!Names, to : Journal!Names]
States == Bodies \cup {"absent", "tombstone", "purged"}
Journals == [seq : Nat, floor : Nat, entries : SUBSET Entries]
PagesOf == [entries : SUBSET Entries, pos : Nat, bound : Nat]
Readers == [at : {"start", "export", "replay", "process"}, pos : Nat, bound : Nat, page : PagesOf,
            exported : Nat, mirror : [Journal!Names -> Bodies \cup {"absent"}]]

\* Entries are numbered in order, none twice, and the floor is among the numbers.
Valid(j) ==
  /\ j \in Journals
  /\ j.floor <= j.seq
  /\ \A e \in j.entries : 0 < e.n /\ e.n <= j.seq
  /\ \A e, f \in j.entries : e.n = f.n => e = f

\* An entry makes a consumer look at k again, or forget it without looking.
Touches(e, k) == (e.op # "delete" /\ e.to = k) \/ (e.op # "upsert" /\ e.key = k)
Clears(e, k) == e.op # "upsert" /\ e.key = k /\ ~(e.op # "delete" /\ e.to = k)

\* Behind n something about k is to be read, or was removed.
Later(j, n, k) == j.floor > n \/ \E f \in j.entries : f.n > n /\ Touches(f, k)

\* What a writer may leave of a journal.
Follows(j, i) ==
  /\ j.seq <= i.seq /\ j.floor <= i.floor
  /\ \A e \in j.entries : e \in i.entries \/ e.n <= i.floor
  /\ \A e \in i.entries : e \in j.entries \/ e.n > j.seq

JournalTypes ==
  /\ archive \in [Journal!Names -> States]
  /\ barred \subseteq Journal!Names
  /\ Valid(journal)
  /\ revised \in BOOLEAN
  /\ reader \in Readers

\* A clean-up meets no purged row, so what the ledger bars is there, purged.
BarredArePurged == \A k \in barred : archive[k] = "purged"

\* What the archive shows was recorded, and again after each entry that clears it.
ShownAreRecorded ==
  \A k \in Journal!Names : Journal!Shown(k) # "absent" =>
    /\ Later(journal, 0, k)
    /\ \A e \in journal.entries : Clears(e, k) => Later(journal, e.n, k)

\* What the consumer remembers of k is right, or it has something to read.
Mirrors(k, n) == reader.mirror[k] = Journal!Shown(k) \/ Later(journal, n, k)

JournalPositions ==
  /\ reader.pos <= journal.seq
  /\ reader.bound = 0 \/ reader.bound \in reader.pos .. journal.seq
  /\ reader.at \in {"start", "export"} => reader.bound = 0

Exporting ==
  reader.at = "export" =>
    /\ reader.exported \in {0, 1}
    /\ reader.exported = 1 => Mirrors("lid", reader.pos)
    /\ reader.exported = 1 /\ ~revised => reader.mirror["lid"] = Journal!Shown("lid")

Replaying ==
  reader.at \in {"replay", "process"} => \A k \in Journal!Names : Mirrors(k, reader.pos)

\* While a page is processed: its entries are from behind the position it was read
\* from, and either stand in the journal or were removed; after it the next page is due.
Processing ==
  reader.at = "process" =>
    LET page == reader.page
    IN /\ page.pos \in reader.pos .. journal.seq
       /\ page.bound = 0 \/ page.bound \in page.pos .. journal.seq
       /\ \A e \in page.entries : /\ e.n > reader.pos
                                  /\ e \in journal.entries \/ e.n <= journal.floor
       /\ \A e, f \in page.entries : e.n = f.n => e = f
       /\ \A k \in Journal!Names : \/ Mirrors(k, page.pos)
                                   \/ \E f \in page.entries : Touches(f, k)
       /\ \A k \in Journal!Names : Journal!Shown(k) # "absent" =>
            \A e \in page.entries : Clears(e, k) =>
              \/ Later(journal, page.pos, k)
              \/ \E f \in page.entries : f.n > e.n /\ Touches(f, k)

JournalInv ==
  JournalTypes /\ BarredArePurged /\ ShownAreRecorded /\ JournalPositions /\ Exporting /\ Replaying /\ Processing
-----------------------------------------------------------------------------
LEMMA JournalNames == Journal!Names = {"lid", "pn"}
BY DEF Journal!Names

\* A set of numbers has a least, and one up to some number a greatest.
LEMMA LeastFacts ==
  ASSUME NEW S, S \subseteq Nat, S # {}
  PROVE  \E m \in S : \A n \in S : m <= n
<1>1. PICK m \in S : \A k \in S : ~(<<k, m>> \in OpToRel(<, Nat))
  BY WFMin, NatLessThanWellFounded, Zenon
<1>2. \A k \in Nat : k < m => <<k, m>> \in OpToRel(<, Nat)  BY Zenon DEF OpToRel
<1>3. \A k \in S : ~(k < m)  BY <1>1, <1>2, Zenon
<1>4. \A k \in S : m <= k  BY <1>3
<1>. QED  BY <1>4

LEMMA MaxFacts ==
  ASSUME NEW S, NEW b \in Nat, S \subseteq 0 .. b, S # {}
  PROVE  Journal!Max(S) \in S /\ \A n \in S : n <= Journal!Max(S)
<1>. DEFINE F == {m \in Nat : b - m \in S}
<1>1. PICK s \in S : TRUE  OBVIOUS
<1>2. b - s \in F  BY <1>1
<1>3. F \subseteq Nat /\ F # {}  BY <1>2
<1>4. PICK m \in F : \A k \in F : m <= k
  <2>. HIDE DEF F
  <2>. QED  BY <1>3, LeastFacts
<1>5. b - m \in S /\ \A n \in S : b - m >= n
  <2>1. ASSUME NEW n \in S PROVE b - m >= n
    <3>1. b - n \in F  BY <2>1
    <3>2. m \in Nat /\ n \in Nat /\ b \in Nat /\ m <= b - n  BY <1>3, <1>4, <2>1, <3>1
    <3>. QED  BY <3>2
  <2>. QED  BY <2>1
<1>6. \E x \in S : \A y \in S : x >= y  BY <1>5
<1>7. Journal!Max(S) \in S /\ \A y \in S : Journal!Max(S) >= y
  BY <1>6, Zenon DEF Journal!Max
<1>. QED  BY <1>7

LEMMA FirstFacts == \A S, k : Journal!First(S, k) \subseteq S
BY DEF Journal!First

\* Removing entries lifts the floor to the last of them.
LEMMA RemovedFacts ==
  ASSUME NEW j, Valid(j), NEW S, S \subseteq Journal!Numbers(j)
  PROVE  LET i == Journal!Removed(j, S)
         IN Valid(i) /\ Follows(j, i) /\ i.seq = j.seq /\ i.entries \subseteq j.entries
<1>. DEFINE i == Journal!Removed(j, S)  top == Journal!Max(S \cup {j.floor})
<1>1. j.seq \in Nat /\ j.floor \in Nat /\ j.floor <= j.seq /\ j.entries \subseteq Entries
  BY DEF Valid, Journals
<1>2. S \cup {j.floor} \subseteq 0 .. j.seq
  BY <1>1 DEF Journal!Numbers, Valid, Entries
<1>3. top \in 0 .. j.seq /\ \A n \in S \cup {j.floor} : n <= top
  BY <1>1, <1>2, MaxFacts
<1>4. i = [seq |-> j.seq, floor |-> top, entries |-> {e \in j.entries : e.n \notin S}]
  BY DEF Journal!Removed
<1>. HIDE DEF i, top
<1>5. i.seq = j.seq /\ i.floor = top /\ i.entries = {e \in j.entries : e.n \notin S}  BY <1>4
<1>6. Valid(i)
  <2>1. i \in Journals  BY <1>1, <1>3, <1>4 DEF Journals
  <2>. QED  BY <1>3, <1>5, <2>1 DEF Valid
<1>7. Follows(j, i)
  <2>1. j.floor <= i.floor  BY <1>3, <1>5
  <2>2. \A e \in j.entries : e \in i.entries \/ e.n <= i.floor  BY <1>3, <1>5
  <2>. QED  BY <1>1, <1>5, <2>1, <2>2 DEF Follows
<1>8. Valid(i) /\ Follows(j, i) /\ i.seq = j.seq /\ i.entries \subseteq j.entries  BY <1>5, <1>6, <1>7
<1>. QED  BY <1>8 DEF i

LEMMA FollowsOn ==
  ASSUME NEW j, NEW i, NEW h, Valid(j), Valid(i), Valid(h), Follows(j, i), Follows(i, h)
  PROVE  Follows(j, h)
<1>1. j.seq \in Nat /\ i.seq \in Nat /\ h.seq \in Nat /\ j.floor \in Nat /\ i.floor \in Nat /\ h.floor \in Nat
  BY DEF Valid, Journals
<1>2. \A e \in j.entries \cup i.entries \cup h.entries : e.n \in Nat  BY DEF Valid, Journals, Entries
<1>3. j.seq <= h.seq /\ j.floor <= h.floor  BY <1>1 DEF Follows
<1>4. \A e \in j.entries : e \in h.entries \/ e.n <= h.floor  BY <1>1, <1>2 DEF Follows
<1>5. \A e \in h.entries : e \in j.entries \/ e.n > j.seq  BY <1>1, <1>2 DEF Follows
<1>. QED  BY <1>3, <1>4, <1>5 DEF Follows

LEMMA TrimmedFacts ==
  ASSUME NEW j, Valid(j)
  PROVE  LET i == Journal!Trimmed(j)
         IN Valid(i) /\ Follows(j, i) /\ i.seq = j.seq /\ i.entries \subseteq j.entries
<1>. DEFINE Old == {n \in Journal!Numbers(j) : n <= aged}
            young == Journal!Removed(j, Old)
            over == Journal!First(Journal!Numbers(young),
                                  Journal!Cardinality(Journal!Numbers(young)) - JournalCap)
            i == Journal!Removed(young, over)
<1>1. Journal!Trimmed(j) = i  BY DEF Journal!Trimmed
<1>2. Old \subseteq Journal!Numbers(j)  OBVIOUS
<1>3. Valid(young) /\ Follows(j, young) /\ young.seq = j.seq /\ young.entries \subseteq j.entries
  BY <1>2, RemovedFacts
<1>4. over \subseteq Journal!Numbers(young)  BY FirstFacts
<1>5. Valid(i) /\ Follows(young, i) /\ i.seq = young.seq /\ i.entries \subseteq young.entries
  BY <1>3, <1>4, RemovedFacts
<1>. HIDE DEF i, young
<1>6. Follows(j, i)  BY <1>3, <1>5, FollowsOn
<1>7. Valid(i) /\ Follows(j, i) /\ i.seq = j.seq /\ i.entries \subseteq j.entries  BY <1>3, <1>5, <1>6
<1>. QED  BY <1>1, <1>7

\* The new entry is there, unless everything up to it was removed.
LEMMA RecordedFacts ==
  ASSUME NEW j, Valid(j), NEW op \in Ops, NEW key \in Journal!Names, NEW to \in Journal!Names
  PROVE  LET i == Journal!Recorded(j, op, key, to)
             e == [n |-> j.seq + 1, op |-> op, key |-> key, to |-> to]
         IN /\ Valid(i) /\ Follows(j, i)
            /\ i.entries \subseteq j.entries \cup {e}
            /\ e \in i.entries \/ i.floor > j.seq
<1>. DEFINE e == [n |-> j.seq + 1, op |-> op, key |-> key, to |-> to]
            g == [seq |-> j.seq + 1, floor |-> j.floor, entries |-> j.entries \cup {e}]
            i == Journal!Trimmed(g)
<1>1. j.seq \in Nat /\ j.floor \in Nat /\ j.floor <= j.seq /\ j.entries \subseteq Entries
  BY DEF Valid, Journals
<1>2. e \in Entries /\ e.n = j.seq + 1  BY <1>1 DEF Entries
<1>. HIDE DEF e
<1>3. g.seq = j.seq + 1 /\ g.floor = j.floor /\ g.entries = j.entries \cup {e}  OBVIOUS
<1>4. g \in Journals  BY <1>1, <1>2 DEF Journals
<1>. HIDE DEF g
<1>5. Valid(g)
  <2>1. g.floor <= g.seq  BY <1>1, <1>3
  <2>2. \A f \in g.entries : 0 < f.n /\ f.n <= g.seq  BY <1>1, <1>2, <1>3 DEF Valid, Entries
  <2>3. \A f \in j.entries : f.n # e.n  BY <1>1, <1>2 DEF Valid, Entries
  <2>4. \A f, h \in g.entries : f.n = h.n => f = h  BY <1>3, <2>3 DEF Valid
  <2>. QED  BY <1>4, <2>1, <2>2, <2>4 DEF Valid
<1>6. Follows(j, g)  BY <1>1, <1>2, <1>3 DEF Follows
<1>7. Valid(i) /\ Follows(g, i) /\ i.seq = g.seq /\ i.entries \subseteq g.entries  BY <1>5, TrimmedFacts
<1>. HIDE DEF i
<1>8. Follows(j, i)  BY <1>5, <1>6, <1>7, FollowsOn
<1>9. e \in i.entries \/ i.floor > j.seq
  <2>1. e \in i.entries \/ e.n <= i.floor  BY <1>3, <1>7 DEF Follows
  <2>2. i.floor \in Nat  BY <1>7 DEF Valid, Journals
  <2>. QED  BY <1>1, <1>2, <2>1, <2>2
<1>10. Valid(i) /\ Follows(j, i) /\ i.entries \subseteq j.entries \cup {e} /\ (e \in i.entries \/ i.floor > j.seq)
  BY <1>3, <1>7, <1>8, <1>9
<1>11. Journal!Recorded(j, op, key, to) = i  BY DEF Journal!Recorded, i, g, e
<1>. QED  BY <1>10, <1>11 DEF e

LEMMA LedgerFacts ==
  ASSUME NEW j, Valid(j), NEW k
  PROVE  LET i == Journal!LedgerAdded(j, k)
         IN Valid(i) /\ Follows(j, i) /\ i.seq = j.seq /\ i.entries \subseteq j.entries
<1>1. CASE k \in barred
  <2>1. Journal!LedgerAdded(j, k) = j  BY <1>1 DEF Journal!LedgerAdded
  <2>2. Follows(j, j)  BY DEF Valid, Journals, Follows
  <2>. QED  BY <2>1, <2>2
<1>2. CASE k \notin barred
  <2>. DEFINE S == {e.n : e \in {x \in j.entries : x.key = k}}
  <2>1. Journal!LedgerAdded(j, k) = Journal!Removed(j, S)  BY <1>2 DEF Journal!LedgerAdded
  <2>2. S \subseteq Journal!Numbers(j)  BY DEF Journal!Numbers
  <2>. QED  BY <2>1, <2>2, RemovedFacts
<1>. QED  BY <1>1, <1>2

\* What is due behind a number stays due.
LEMMA LaterKept ==
  ASSUME NEW j, NEW i, Valid(j), Valid(i), Follows(j, i), NEW n \in Nat, NEW k, Later(j, n, k)
  PROVE  Later(i, n, k)
<1>1. j.floor \in Nat /\ i.floor \in Nat /\ j.floor <= i.floor  BY DEF Valid, Journals, Follows
<1>2. CASE j.floor > n  BY <1>1, <1>2 DEF Later
<1>3. CASE \E f \in j.entries : f.n > n /\ Touches(f, k)
  <2>1. PICK f \in j.entries : f.n > n /\ Touches(f, k)  BY <1>3
  <2>2. f.n \in Nat  BY DEF Valid, Journals, Entries
  <2>3. f \in i.entries \/ f.n <= i.floor  BY DEF Follows
  <2>. QED  BY <1>1, <2>1, <2>2, <2>3 DEF Later
<1>. QED  BY <1>2, <1>3 DEF Later

LEMMA LaterSooner ==
  ASSUME NEW j, Valid(j), NEW m \in Nat, NEW n \in Nat, n <= m, NEW k, Later(j, m, k)
  PROVE  Later(j, n, k)
<1>1. j.floor \in Nat /\ \A f \in j.entries : f.n \in Nat  BY DEF Valid, Journals, Entries
<1>. QED  BY <1>1 DEF Later
\* A step that writes the archive keeps the invariant if what it changes is recorded,
\* and it clears nothing that is shown after it.
LEMMA WriterKeeps ==
  ASSUME JournalInv, UNCHANGED reader,
         archive' \in [Journal!Names -> States], barred' \subseteq Journal!Names, BarredArePurged',
         revised' \in BOOLEAN, revised => revised',
         Valid(journal'), Follows(journal, journal'),
         \A k \in Journal!Names : Journal!Shown(k)' # Journal!Shown(k) =>
           Later(journal', journal.seq, k) /\ revised',
         \A k \in Journal!Names : \A e \in journal'.entries :
           Clears(e, k) /\ Journal!Shown(k)' # "absent" => e \in journal.entries
  PROVE  JournalInv'
<1>1. Valid(journal) /\ reader \in Readers /\ revised \in BOOLEAN  BY DEF JournalInv, JournalTypes
<1>2. journal.seq \in Nat /\ journal'.seq \in Nat /\ journal.seq <= journal'.seq
      /\ journal'.floor \in Nat /\ journal.floor \in Nat /\ journal.floor <= journal'.floor
  BY <1>1 DEF Valid, Journals, Follows
<1>3. \A e \in journal.entries \cup journal'.entries : e.n \in Nat  BY <1>1 DEF Valid, Journals, Entries
<1>4. ASSUME NEW k \in Journal!Names, NEW n \in Nat, Later(journal, n, k) PROVE Later(journal', n, k)
  BY <1>1, <1>4, LaterKept
<1>5. ASSUME NEW k \in Journal!Names, NEW n \in Nat, n <= journal.seq, Later(journal', journal.seq, k)
      PROVE  Later(journal', n, k)
  BY <1>2, <1>5, LaterSooner
<1>6. ASSUME NEW k \in Journal!Names, NEW n \in Nat, n <= journal.seq, Mirrors(k, n)
      PROVE  Mirrors(k, n)'
  <2>1. CASE Journal!Shown(k)' = Journal!Shown(k)  BY <1>4, <1>6, <2>1 DEF Mirrors
  <2>2. CASE Journal!Shown(k)' # Journal!Shown(k)  BY <1>5, <1>6, <2>2 DEF Mirrors
  <2>. QED  BY <2>1, <2>2
<1>7. reader.pos \in Nat /\ reader.bound \in Nat /\ reader.page.pos \in Nat /\ reader.page.bound \in Nat
      /\ reader.page.entries \subseteq Entries
  BY <1>1 DEF Readers, PagesOf
<1>8. reader.pos <= journal.seq  BY DEF JournalInv, JournalPositions
<1>9. JournalTypes'  BY <1>1 DEF JournalTypes
<1>10. ShownAreRecorded'
  <2>. SUFFICES ASSUME NEW k \in Journal!Names, Journal!Shown(k)' # "absent"
                PROVE  /\ Later(journal', 0, k)
                       /\ \A e \in journal'.entries : Clears(e, k) => Later(journal', e.n, k)
    BY DEF ShownAreRecorded
  <2>1. \A e \in journal'.entries : Clears(e, k) => e \in journal.entries  OBVIOUS
  <2>2. \A e \in journal.entries : e.n <= journal.seq  BY <1>1 DEF Valid
  <2>3. CASE Journal!Shown(k)' = Journal!Shown(k)
    <3>1. /\ Later(journal, 0, k)
          /\ \A e \in journal.entries : Clears(e, k) => Later(journal, e.n, k)
      BY <2>3 DEF JournalInv, ShownAreRecorded
    <3>. QED  BY <1>3, <1>4, <2>1, <3>1
  <2>4. CASE Journal!Shown(k)' # Journal!Shown(k)
    <3>1. Later(journal', journal.seq, k)  BY <2>4
    <3>2. \A n \in Nat : n <= journal.seq => Later(journal', n, k)  BY <1>5, <3>1
    <3>. QED  BY <1>2, <1>3, <2>1, <2>2, <3>2
  <2>. QED  BY <2>3, <2>4
<1>11. JournalPositions'  BY <1>2, <1>7 DEF JournalInv, JournalPositions
<1>12. Exporting'
  <2>. SUFFICES ASSUME reader.at = "export"
                PROVE  /\ reader.exported \in {0, 1}
                       /\ reader.exported = 1 => Mirrors("lid", reader.pos)'
                       /\ reader.exported = 1 /\ ~revised' => reader.mirror["lid"] = Journal!Shown("lid")'
    BY DEF Exporting
  <2>1. /\ reader.exported \in {0, 1}
        /\ reader.exported = 1 => Mirrors("lid", reader.pos)
        /\ reader.exported = 1 /\ ~revised => reader.mirror["lid"] = Journal!Shown("lid")
    BY DEF JournalInv, Exporting
  <2>2. "lid" \in Journal!Names  BY JournalNames
  <2>. QED  BY <1>6, <1>7, <1>8, <2>1, <2>2
<1>13. Replaying'
  <2>1. reader'.at = reader.at /\ reader'.pos = reader.pos  OBVIOUS
  <2>2. reader.at \in {"replay", "process"} => \A k \in Journal!Names : Mirrors(k, reader.pos)'
    BY <1>6, <1>7, <1>8 DEF JournalInv, Replaying
  <2>. QED  BY <2>1, <2>2 DEF Replaying
<1>14. Processing'
  <2>. DEFINE page == reader.page
  <2>. SUFFICES ASSUME reader.at = "process"
                PROVE  /\ page.pos \in reader.pos .. journal'.seq
                       /\ page.bound = 0 \/ page.bound \in page.pos .. journal'.seq
                       /\ \A e \in page.entries : /\ e.n > reader.pos
                                                  /\ e \in journal'.entries \/ e.n <= journal'.floor
                       /\ \A e, f \in page.entries : e.n = f.n => e = f
                       /\ \A k \in Journal!Names : \/ Mirrors(k, page.pos)'
                                                   \/ \E f \in page.entries : Touches(f, k)
                       /\ \A k \in Journal!Names : Journal!Shown(k)' # "absent" =>
                            \A e \in page.entries : Clears(e, k) =>
                              \/ Later(journal', page.pos, k)
                              \/ \E f \in page.entries : f.n > e.n /\ Touches(f, k)
    BY DEF Processing
  <2>1. /\ page.pos \in reader.pos .. journal.seq
        /\ page.bound = 0 \/ page.bound \in page.pos .. journal.seq
        /\ \A e \in page.entries : /\ e.n > reader.pos
                                   /\ e \in journal.entries \/ e.n <= journal.floor
        /\ \A e, f \in page.entries : e.n = f.n => e = f
        /\ \A k \in Journal!Names : \/ Mirrors(k, page.pos)
                                    \/ \E f \in page.entries : Touches(f, k)
    BY DEF JournalInv, Processing
  <2>2. \A k \in Journal!Names : Journal!Shown(k) # "absent" =>
          \A e \in page.entries : Clears(e, k) =>
            \/ Later(journal, page.pos, k)
            \/ \E f \in page.entries : f.n > e.n /\ Touches(f, k)
    BY DEF JournalInv, Processing
  <2>3. page.pos \in Nat /\ page.bound \in Nat /\ page.pos <= journal.seq
        /\ \A e \in page.entries : e.n \in Nat
    BY <1>2, <1>7, <2>1 DEF Entries
  <2>. HIDE DEF page
  <2>4. \A e \in page.entries : e \in journal'.entries \/ e.n <= journal'.floor
    BY <1>2, <2>1, <2>3 DEF Follows
  <2>5. \A k \in Journal!Names : Mirrors(k, page.pos)' \/ \E f \in page.entries : Touches(f, k)
    <3>1. page' = page  BY DEF page
    <3>. QED  BY <1>6, <2>1, <2>3, <3>1
  <2>6. ASSUME NEW k \in Journal!Names, Journal!Shown(k)' # "absent", NEW e \in page.entries, Clears(e, k)
        PROVE  \/ Later(journal', page.pos, k)
               \/ \E f \in page.entries : f.n > e.n /\ Touches(f, k)
    <3>1. CASE Journal!Shown(k)' = Journal!Shown(k)  BY <1>4, <2>2, <2>3, <2>6, <3>1
    <3>2. CASE Journal!Shown(k)' # Journal!Shown(k)  BY <1>5, <2>3, <3>2
    <3>. QED  BY <3>1, <3>2
  <2>. QED  BY <1>2, <2>1, <2>3, <2>4, <2>5, <2>6
<1>. QED  BY <1>9, <1>10, <1>11, <1>12, <1>13, <1>14 DEF JournalInv
LEMMA ShownFacts ==
  \A k : archive[k] \in Bodies => archive[k] \notin {"absent", "tombstone", "purged"}
BY JournalAssumption

\* One row gets a state, and its change is recorded.
LEMMA RowChangeKeeps ==
  ASSUME JournalInv, UNCHANGED reader, NEW k \in Journal!Names, NEW s \in States,
         NEW j, Valid(j), Follows(journal, j), j.entries \subseteq journal.entries,
         archive' = [archive EXCEPT ![k] = s], journal' = Journal!RowChanged(j, k, archive[k], s),
         archive[k] = s => archive'[k] = archive[k],
         barred' \subseteq Journal!Names, BarredArePurged',
         revised' = TRUE \/ (revised' = (revised \/ archive[k] # s))
  PROVE  JournalInv'
<1>1. /\ archive \in [Journal!Names -> States] /\ Valid(journal) /\ revised \in BOOLEAN
      /\ archive' \in [Journal!Names -> States]
  BY DEF JournalInv, JournalTypes
<1>2. revised' \in BOOLEAN /\ (revised => revised')  BY <1>1
<1>3. \A i \in Journal!Names : i # k => Journal!Shown(i)' = Journal!Shown(i)  BY <1>1 DEF Journal!Shown
<1>4. CASE archive[k] = s
  <2>1. journal' = j  BY <1>4 DEF Journal!RowChanged
  <2>2. \A i \in Journal!Names : Journal!Shown(i)' = Journal!Shown(i)  BY <1>1, <1>4 DEF Journal!Shown
  <2>. QED  BY <1>1, <1>2, <2>1, <2>2, WriterKeeps
<1>5. CASE archive[k] # s
  <2>. DEFINE op == IF s \in Bodies THEN "upsert" ELSE "delete"
              e == [n |-> j.seq + 1, op |-> op, key |-> k, to |-> k]
  <2>1. journal' = Journal!Recorded(j, op, k, k)  BY <1>5 DEF Journal!RowChanged
  <2>2. op \in Ops  BY DEF Ops
  <2>. HIDE DEF op
  <2>3. /\ Valid(journal') /\ Follows(j, journal')
        /\ journal'.entries \subseteq j.entries \cup {e}
        /\ e \in journal'.entries \/ journal'.floor > j.seq
    BY <2>1, <2>2, RecordedFacts
  <2>4. e.n = j.seq + 1 /\ e.op = op /\ e.key = k /\ e.to = k  OBVIOUS
  <2>. HIDE DEF e
  <2>5. Follows(journal, journal')  BY <1>1, <2>3, FollowsOn
  <2>6. journal.seq \in Nat /\ j.seq \in Nat /\ journal'.floor \in Nat /\ journal.seq <= j.seq
    BY <1>1, <2>3 DEF Valid, Journals, Follows
  <2>7. Later(journal', journal.seq, k)
    <3>1. Touches(e, k)  BY <2>2, <2>4 DEF Touches, Ops
    <3>2. e \in journal'.entries => e.n > journal.seq  BY <2>4, <2>6
    <3>. QED  BY <2>3, <2>6, <3>1, <3>2 DEF Later
  <2>8. ASSUME NEW i \in Journal!Names, NEW f \in journal'.entries, Clears(f, i), Journal!Shown(i)' # "absent"
        PROVE  f \in journal.entries
    <3>1. CASE f = e
      <4>1. op # "upsert" /\ i = k  BY <2>4, <2>8, <3>1 DEF Clears
      <4>2. s \notin Bodies  BY <4>1 DEF op
      <4>3. Journal!Shown(i)' = "absent"  BY <1>1, <4>1, <4>2 DEF Journal!Shown
      <4>. QED  BY <2>8, <4>3
    <3>. QED  BY <2>3, <3>1
  <2>9. revised'  BY <1>5
  <2>. QED  BY <1>1, <1>2, <1>3, <2>3, <2>5, <2>7, <2>8, <2>9, WriterKeeps
<1>. QED  BY <1>4, <1>5

LEMMA JournalStays == ASSUME Valid(journal) PROVE Follows(journal, journal)
BY DEF Valid, Journals, Follows

LEMMA JournalWriteKeeps ==
  ASSUME JournalInv, NEW k \in Journal!Names, NEW s \in States, k \notin barred, Journal!Write(k, s)
  PROVE  JournalInv'
<1>1. /\ Valid(journal) /\ barred \subseteq Journal!Names /\ archive \in [Journal!Names -> States]
      /\ BarredArePurged
  BY DEF JournalInv, JournalTypes
<1>2. /\ archive' = [archive EXCEPT ![k] = s]
      /\ journal' = Journal!RowChanged(journal, k, archive[k], s)
      /\ revised' = (revised \/ archive[k] # s)
      /\ UNCHANGED <<barred, reader>>
  BY DEF Journal!Write
<1>3. BarredArePurged'  BY <1>1, <1>2 DEF BarredArePurged
<1>. QED  BY <1>1, <1>2, <1>3, JournalStays, RowChangeKeeps

LEMMA RowsKeep ==
  ASSUME JournalInv, NEW k \in Journal!Names,
         (\E c \in Bodies : Journal!UpsertMessage(k, c)) \/ Journal!DeleteMessage(k) \/ Journal!DeleteChat(k)
  PROVE  JournalInv'
<1>1. ASSUME NEW c \in Bodies, Journal!UpsertMessage(k, c) PROVE JournalInv'
  BY <1>1, JournalWriteKeeps DEF Journal!UpsertMessage, States
<1>2. ASSUME Journal!DeleteMessage(k) PROVE JournalInv'
  BY <1>2, JournalWriteKeeps DEF Journal!DeleteMessage, States
<1>3. ASSUME Journal!DeleteChat(k) PROVE JournalInv'
  BY <1>3, JournalWriteKeeps DEF Journal!DeleteChat, States
<1>. QED  BY <1>1, <1>2, <1>3

LEMMA PurgedKeeps ==
  ASSUME JournalInv, NEW k \in Journal!Names, Journal!PurgeMessage(k)
  PROVE  JournalInv'
<1>1. /\ Valid(journal) /\ barred \subseteq Journal!Names /\ archive \in [Journal!Names -> States]
      /\ BarredArePurged
  BY DEF JournalInv, JournalTypes
<1>. DEFINE j == Journal!LedgerAdded(journal, k)
<1>2. /\ archive' = [archive EXCEPT ![k] = "purged"] /\ archive[k] = "tombstone"
      /\ journal' = Journal!RowChanged(j, k, archive[k], "purged")
      /\ barred' = barred \cup {k} /\ revised' = TRUE /\ reader' = reader
  BY DEF Journal!PurgeMessage
<1>3. Valid(j) /\ Follows(journal, j) /\ j.entries \subseteq journal.entries  BY <1>1, LedgerFacts
<1>. HIDE DEF j
<1>4. BarredArePurged'  BY <1>1, <1>2 DEF BarredArePurged
<1>5. "purged" \in States /\ archive[k] # "purged"  BY <1>2 DEF States
<1>. QED  BY <1>1, <1>2, <1>3, <1>4, <1>5, RowChangeKeeps

LEMMA CleaningKeeps == JournalInv /\ (Journal!OpenWritable \/ Journal!Age) => JournalInv'
<1>. SUFFICES ASSUME JournalInv, Journal!OpenWritable \/ Journal!Age PROVE JournalInv'  OBVIOUS
<1>1. /\ Valid(journal) /\ barred \subseteq Journal!Names /\ archive \in [Journal!Names -> States]
      /\ BarredArePurged /\ revised \in BOOLEAN
  BY DEF JournalInv, JournalTypes
<1>2. UNCHANGED <<archive, barred, revised, reader>>
  BY DEF Journal!OpenWritable, Journal!Age, Journal!storeVars
<1>3. \A k : Journal!Shown(k)' = Journal!Shown(k)  BY <1>2 DEF Journal!Shown
<1>4. Valid(journal') /\ Follows(journal, journal') /\ journal'.entries \subseteq journal.entries
  <2>1. CASE Journal!OpenWritable
    <3>1. journal' = Journal!Trimmed(journal)  BY <2>1 DEF Journal!OpenWritable
    <3>. QED  BY <1>1, <3>1, TrimmedFacts
  <2>2. CASE Journal!Age
    <3>1. journal' = journal  BY <2>2 DEF Journal!Age, Journal!storeVars
    <3>. QED  BY <1>1, <3>1, JournalStays
  <2>. QED  BY <2>1, <2>2
<1>5. BarredArePurged'  BY <1>1, <1>2 DEF BarredArePurged
<1>. QED  BY <1>1, <1>2, <1>3, <1>4, <1>5, WriterKeeps

\* The move of the rows is recorded under both names.
LEMMA MoveKeeps == ASSUME JournalInv, Journal!MigrateLIDToPN PROVE JournalInv'
<1>1. /\ Valid(journal) /\ barred \subseteq {"lid", "pn"} /\ archive \in [Journal!Names -> States]
      /\ BarredArePurged
  BY JournalNames DEF JournalInv, JournalTypes
<1>2. PICK merged \in Journal!MergedRow : archive' = [lid |-> "absent", pn |-> merged]
  BY DEF Journal!MigrateLIDToPN
<1>3. /\ barred' = (IF barred = {} THEN {} ELSE {"pn"}) /\ revised' = TRUE /\ reader' = reader
      /\ journal' = IF "lid" \in barred THEN Journal!LedgerAdded(Journal!Moved, "pn") ELSE Journal!Moved
  BY DEF Journal!MigrateLIDToPN
<1>4. archive["lid"] # "absent"  BY <1>1 DEF Journal!MigrateLIDToPN, BarredArePurged
<1>5. archive["lid"] \in States /\ archive["pn"] \in States  BY <1>1, JournalNames
<1>6. merged \in States  BY <1>2, <1>5 DEF Journal!MergedRow, States
<1>7. archive' \in [Journal!Names -> States]
  <2>1. \A x, y : [lid |-> x, pn |-> y] = [n \in {"lid", "pn"} |-> IF n = "lid" THEN x ELSE y]  OBVIOUS
  <2>. QED  BY <1>2, <1>6, <2>1, JournalNames DEF States
<1>8. archive'["lid"] = "absent" /\ archive'["pn"] = merged  BY <1>2
<1>9. barred' \subseteq Journal!Names /\ BarredArePurged'
  <2>1. barred # {} => merged = "purged"
    <3>1. CASE archive["pn"] # "absent"  BY <1>2, <3>1 DEF Journal!MergedRow
    <3>2. CASE archive["pn"] = "absent"
      <4>1. barred # {} => "lid" \in barred
        <5>1. "pn" \in barred => archive["pn"] = "purged"  BY <1>1 DEF BarredArePurged
        <5>2. "pn" \notin barred  BY <3>2, <5>1
        <5>. QED  BY <1>1, <5>2
      <4>2. barred # {} => archive["lid"] = "purged"  BY <1>1, <4>1 DEF BarredArePurged
      <4>. QED  BY <1>2, <3>2, <4>2 DEF Journal!MergedRow
    <3>. QED  BY <3>1, <3>2
  <2>. QED  BY <1>3, <1>8, <2>1, JournalNames DEF BarredArePurged
<1>. DEFINE j == Journal!Recorded(journal, "identity_move", "lid", "pn")
            e == [n |-> journal.seq + 1, op |-> "identity_move", key |-> "lid", to |-> "pn"]
<1>10. Journal!Moved = j  BY <1>4 DEF Journal!Moved
<1>11. /\ Valid(j) /\ Follows(journal, j) /\ j.entries \subseteq journal.entries \cup {e}
       /\ e \in j.entries \/ j.floor > journal.seq
  BY <1>1, JournalNames, RecordedFacts DEF Ops
<1>12. e.n = journal.seq + 1 /\ e.op = "identity_move" /\ e.key = "lid" /\ e.to = "pn"  OBVIOUS
<1>. HIDE DEF e, j
<1>13. Valid(journal') /\ Follows(j, journal') /\ journal'.entries \subseteq j.entries
  <2>1. CASE "lid" \in barred
    <3>1. journal' = Journal!LedgerAdded(j, "pn")  BY <1>3, <1>10, <2>1
    <3>. QED  BY <1>11, <3>1, LedgerFacts
  <2>2. CASE "lid" \notin barred
    <3>1. journal' = j  BY <1>3, <1>10, <2>2
    <3>2. Follows(j, j)  BY <1>11 DEF Valid, Journals, Follows
    <3>. QED  BY <1>11, <3>1, <3>2
  <2>. QED  BY <2>1, <2>2
<1>14. Follows(journal, journal')  BY <1>1, <1>11, <1>13, FollowsOn
<1>15. e \in journal'.entries \/ journal'.floor > journal.seq
  <2>1. journal.seq \in Nat /\ j.floor \in Nat /\ journal'.floor \in Nat  BY <1>1, <1>11, <1>13 DEF Valid, Journals
  <2>. QED  BY <1>11, <1>12, <1>13, <2>1 DEF Follows
<1>16. \A k \in Journal!Names : Later(journal', journal.seq, k)
  <2>1. Touches(e, "lid") /\ Touches(e, "pn")  BY <1>12 DEF Touches
  <2>2. e.n > journal.seq  BY <1>1, <1>12 DEF Valid, Journals
  <2>. QED  BY <1>15, <2>1, <2>2, JournalNames DEF Later
<1>17. ASSUME NEW k \in Journal!Names, NEW f \in journal'.entries, Clears(f, k), Journal!Shown(k)' # "absent"
       PROVE  f \in journal.entries
  <2>1. CASE f = e
    <3>1. k = "lid"  BY <1>12, <1>17, <2>1 DEF Clears
    <3>2. Journal!Shown(k)' = "absent"  BY <1>8, <3>1, JournalAssumption DEF Journal!Shown
    <3>. QED  BY <1>17, <3>2
  <2>. QED  BY <1>11, <1>13, <2>1
<1>. QED  BY <1>3, <1>7, <1>9, <1>13, <1>14, <1>16, <1>17, WriterKeeps

-----------------------------------------------------------------------------
\* A step of the consumer leaves the archive and the journal.
LEMMA ConsumerLeaves ==
  ASSUME JournalInv, UNCHANGED <<archive, barred, journal>>
  PROVE  /\ BarredArePurged' /\ ShownAreRecorded' /\ Valid(journal')
         /\ \A k : Journal!Shown(k)' = Journal!Shown(k)
         /\ \A n, k : Later(journal, n, k)' = Later(journal, n, k)
<1>1. \A k : Journal!Shown(k)' = Journal!Shown(k)  BY DEF Journal!Shown
<1>2. Valid(journal') /\ BarredArePurged'  BY DEF JournalInv, JournalTypes, BarredArePurged
<1>3. \A n, k : Later(journal, n, k)' = Later(journal, n, k)  BY DEF Later, Touches
<1>4. ShownAreRecorded'
  <2>1. ShownAreRecorded  BY DEF JournalInv
  <2>2. journal' = journal  OBVIOUS
  <2>. QED  BY <1>1, <2>1, <2>2 DEF ShownAreRecorded
<1>. QED  BY <1>1, <1>2, <1>3, <1>4

LEMMA StartKeeps == ASSUME JournalInv, Journal!Start PROVE JournalInv'
<1>1. UNCHANGED <<archive, barred, journal, revised>>  BY DEF Journal!Start, Journal!storeVars
<1>2. /\ BarredArePurged' /\ ShownAreRecorded' /\ Valid(journal')
      /\ \A k : Journal!Shown(k)' = Journal!Shown(k)
  BY <1>1, ConsumerLeaves
<1>3. reader \in Readers /\ reader.at = "start" /\ reader.bound = 0 /\ journal.seq \in Nat
  BY DEF JournalInv, JournalTypes, JournalPositions, Journal!Start, Valid, Journals
<1>. DEFINE R(at, pos) == [at |-> at, pos |-> pos, bound |-> reader.bound, page |-> reader.page,
                           exported |-> 0, mirror |-> Journal!Nothing]
<1>4. reader' \in {R("export", journal.seq), R("replay", 0)}
  BY <1>3 DEF Journal!Start, Readers
<1>5. \A at \in {"export", "replay"}, pos \in Nat : R(at, pos) \in Readers
  BY <1>3 DEF Readers, Journal!Nothing
<1>6. JournalTypes'  BY <1>1, <1>3, <1>4, <1>5 DEF JournalInv, JournalTypes, Valid, Journals
<1>7. CASE reader' = R("export", journal.seq)
  <2>1. reader'.at = "export" /\ reader'.pos = journal.seq /\ reader'.bound = 0 /\ reader'.exported = 0
    BY <1>3, <1>7
  <2>2. JournalPositions'  BY <1>1, <1>3, <2>1 DEF JournalPositions
  <2>3. Exporting' /\ Replaying' /\ Processing'  BY <2>1 DEF Exporting, Replaying, Processing
  <2>. QED  BY <1>2, <1>6, <2>2, <2>3 DEF JournalInv
<1>8. CASE reader' = R("replay", 0)
  <2>1. reader'.at = "replay" /\ reader'.pos = 0 /\ reader'.bound = 0 /\ reader'.mirror = Journal!Nothing
    BY <1>3, <1>8
  <2>2. JournalPositions'  BY <1>1, <1>3, <2>1 DEF JournalPositions
  <2>3. ASSUME NEW k \in Journal!Names PROVE Mirrors(k, 0)'
    <3>1. reader'.mirror[k] = "absent"  BY <2>1 DEF Journal!Nothing
    <3>2. Journal!Shown(k) # "absent" => Later(journal, 0, k)  BY DEF JournalInv, ShownAreRecorded
    <3>. QED  BY <1>1, <1>2, <3>1, <3>2 DEF Mirrors
  <2>4. Replaying'  BY <2>1, <2>3 DEF Replaying, Mirrors
  <2>5. Exporting' /\ Processing'  BY <2>1 DEF Exporting, Processing
  <2>. QED  BY <1>2, <1>6, <2>2, <2>4, <2>5 DEF JournalInv
<1>. QED  BY <1>4, <1>7, <1>8

LEMMA ExportKeeps ==
  ASSUME JournalInv, Journal!ExportPage
  PROVE  JournalInv' /\ Journal!CompletesExact
<1>1. UNCHANGED <<archive, barred, journal>>  BY DEF Journal!ExportPage, Journal!storeVars
<1>2. /\ BarredArePurged' /\ ShownAreRecorded' /\ Valid(journal')
      /\ \A k : Journal!Shown(k)' = Journal!Shown(k)
  BY <1>1, ConsumerLeaves
<1>3. /\ reader \in Readers /\ reader.at = "export" /\ reader.bound = 0 /\ journal.seq \in Nat
      /\ reader.pos <= journal.seq /\ revised \in BOOLEAN
  BY DEF JournalInv, JournalTypes, JournalPositions, Journal!ExportPage, Valid, Journals
<1>4. /\ reader.exported \in {0, 1}
      /\ reader.exported = 1 => Mirrors("lid", reader.pos)
      /\ reader.exported = 1 /\ ~revised => reader.mirror["lid"] = Journal!Shown("lid")
  BY <1>3 DEF JournalInv, Exporting
<1>. DEFINE R(at, ex, mirror) == [at |-> at, pos |-> reader.pos, bound |-> reader.bound, page |-> reader.page,
                                  exported |-> ex, mirror |-> mirror]
<1>5. ASSUME NEW at \in {"export", "replay"}, NEW ex \in Nat,
             NEW mirror \in [Journal!Names -> Bodies \cup {"absent"}], reader' = R(at, ex, mirror)
      PROVE  /\ JournalTypes' /\ JournalPositions' /\ Processing'
             /\ reader'.at = at /\ reader'.pos = reader.pos /\ reader'.exported = ex /\ reader'.mirror = mirror
  <2>1. reader' \in Readers  BY <1>3, <1>5 DEF Readers
  <2>2. revised' \in BOOLEAN  BY <1>3 DEF Journal!ExportPage
  <2>3. JournalTypes'  BY <1>1, <2>1, <2>2 DEF JournalInv, JournalTypes, Valid, Journals
  <2>4. reader'.at = at /\ reader'.pos = reader.pos /\ reader'.bound = 0 /\ reader'.exported = ex
        /\ reader'.mirror = mirror
    BY <1>3, <1>5
  <2>5. JournalPositions'  BY <1>1, <1>3, <2>4 DEF JournalPositions
  <2>6. Processing'  BY <2>4 DEF Processing
  <2>. QED  BY <2>3, <2>4, <2>5, <2>6
<1>6. \A k : Journal!Shown(k) \in Bodies \cup {"absent"}  BY DEF Journal!Shown
<1>7. CASE reader.exported = 0
  <2>. DEFINE m == [reader.mirror EXCEPT !["lid"] = Journal!Shown("lid")]
  <2>1. reader' = R("export", 1, m)
    <3>1. reader' = [reader EXCEPT !.exported = @ + 1, !.mirror["lid"] = Journal!Shown("lid"),
                                   !.at = IF "lid" = "pn" THEN "replay" ELSE @]
      BY <1>3, <1>7 DEF Journal!ExportPage, Journal!Page
    <3>2. reader' = [at |-> "export", pos |-> reader.pos, bound |-> reader.bound, page |-> reader.page,
                     exported |-> reader.exported + 1,
                     mirror |-> [reader.mirror EXCEPT !["lid"] = Journal!Shown("lid")]]
      BY <1>3, <3>1 DEF Readers
    <3>3. reader.exported + 1 = 1  BY <1>7
    <3>. QED  BY <1>3, <3>2, <3>3
  <2>2. m \in [Journal!Names -> Bodies \cup {"absent"}] /\ m["lid"] = Journal!Shown("lid")
    BY <1>3, <1>6, JournalNames DEF Readers
  <2>. HIDE DEF m
  <2>3. /\ JournalTypes' /\ JournalPositions' /\ Processing'
        /\ reader'.at = "export" /\ reader'.pos = reader.pos /\ reader'.exported = 1 /\ reader'.mirror = m
    BY <1>5, <2>1, <2>2
  <2>4. Exporting'  BY <1>2, <2>2, <2>3 DEF Exporting, Mirrors
  <2>5. Replaying' /\ Journal!CompletesExact  BY <2>3 DEF Replaying, Journal!CompletesExact
  <2>. QED  BY <1>2, <2>3, <2>4, <2>5 DEF JournalInv
<1>8. CASE reader.exported = 1 /\ revised
  <2>1. reader' = R("export", 0, Journal!Nothing)
    <3>1. reader' = [reader EXCEPT !.exported = 0, !.mirror = Journal!Nothing]
      BY <1>3, <1>8 DEF Journal!ExportPage
    <3>. QED  BY <1>3, <1>8, <3>1 DEF Readers
  <2>2. Journal!Nothing \in [Journal!Names -> Bodies \cup {"absent"}]  BY DEF Journal!Nothing
  <2>3. /\ JournalTypes' /\ JournalPositions' /\ Processing' /\ reader'.at = "export" /\ reader'.exported = 0
    BY <1>5, <2>1, <2>2
  <2>4. Exporting' /\ Replaying' /\ Journal!CompletesExact
    BY <2>3 DEF Exporting, Replaying, Journal!CompletesExact
  <2>. QED  BY <1>2, <2>3, <2>4 DEF JournalInv
<1>9. CASE reader.exported = 1 /\ ~revised
  <2>. DEFINE m == [reader.mirror EXCEPT !["pn"] = Journal!Shown("pn")]
  <2>1. reader' = R("replay", 2, m)
    <3>1. reader' = [reader EXCEPT !.exported = @ + 1, !.mirror["pn"] = Journal!Shown("pn"),
                                   !.at = IF "pn" = "pn" THEN "replay" ELSE @]
      BY <1>3, <1>9 DEF Journal!ExportPage, Journal!Page
    <3>2. reader' = [at |-> "replay", pos |-> reader.pos, bound |-> reader.bound, page |-> reader.page,
                     exported |-> reader.exported + 1,
                     mirror |-> [reader.mirror EXCEPT !["pn"] = Journal!Shown("pn")]]
      BY <1>3, <3>1 DEF Readers
    <3>3. reader.exported + 1 = 2  BY <1>9
    <3>. QED  BY <1>3, <3>2, <3>3
  <2>2. /\ m \in [Journal!Names -> Bodies \cup {"absent"}]
        /\ m["lid"] = Journal!Shown("lid") /\ m["pn"] = Journal!Shown("pn")
    BY <1>3, <1>4, <1>6, <1>9, JournalNames DEF Readers
  <2>. HIDE DEF m
  <2>3. /\ JournalTypes' /\ JournalPositions' /\ Processing'
        /\ reader'.at = "replay" /\ reader'.mirror = m
    BY <1>5, <2>1, <2>2
  <2>4. \A k \in Journal!Names : reader'.mirror[k] = Journal!Shown(k)  BY <2>2, <2>3, JournalNames
  <2>5. Replaying'  BY <1>2, <2>4 DEF Replaying, Mirrors
  <2>6. Exporting' /\ Journal!CompletesExact  BY <2>3, <2>4 DEF Exporting, Journal!CompletesExact
  <2>. QED  BY <1>2, <2>3, <2>5, <2>6 DEF JournalInv
<1>. QED  BY <1>3, <1>4, <1>7, <1>8, <1>9
-----------------------------------------------------------------------------
LEMMA JournalCardinality == \A S : Journal!Cardinality(S) = Cardinality(S)
BY Zenon DEF Journal!Cardinality, Cardinality

\* A page is the numbers from the front of what is due, and not empty; a short one is all of it.
LEMMA FirstOfDue ==
  ASSUME NEW b \in Nat, NEW S, S \subseteq 1 .. b
  PROVE  LET F == Journal!First(S, PageSize)
         IN /\ F \subseteq S
            /\ \A n \in F, m \in S : m <= n => m \in F
            /\ S # {} => F # {}
            /\ ~(Journal!Cardinality(S) > PageSize) => F = S
<1>. DEFINE Upto(n) == {x \in S : x <= n}
            F == Journal!First(S, PageSize)
<1>0. \A x \in S : x \in Nat  OBVIOUS
<1>1. IsFiniteSet(S)
  <2>1. IsFiniteSet(1 .. b)  BY FS_Interval
  <2>. QED  BY <2>1, FS_Subset
<1>2. F = {n \in S : Cardinality(Upto(n)) <= PageSize}  BY JournalCardinality DEF Journal!First
<1>3. PageSize \in Nat /\ PageSize >= 1  BY JournalAssumption
<1>4. \A n : IsFiniteSet(Upto(n)) /\ Cardinality(Upto(n)) \in Nat /\ Cardinality(Upto(n)) <= Cardinality(S)
  <2>1. \A n : Upto(n) \in SUBSET S  OBVIOUS
  <2>2. ASSUME NEW n PROVE IsFiniteSet(Upto(n)) /\ Cardinality(Upto(n)) <= Cardinality(S)
    <3>1. Upto(n) \in SUBSET S  BY <2>1
    <3>. HIDE DEF Upto
    <3>. QED  BY <1>1, <3>1, FS_Subset
  <2>3. \A n : IsFiniteSet(Upto(n)) /\ Cardinality(Upto(n)) <= Cardinality(S)  BY <2>2
  <2>4. \A n : Cardinality(Upto(n)) \in Nat
    <3>. HIDE DEF Upto
    <3>. QED  BY <2>3, FS_CardinalityType
  <2>. QED  BY <2>3, <2>4
<1>5. \A n \in F, m \in S : m <= n => m \in F
  <2>. SUFFICES ASSUME NEW n \in F, NEW m \in S, m <= n PROVE m \in F  OBVIOUS
  <2>1. Upto(m) \in SUBSET Upto(n)
    <3>1. n \in S  BY <1>2
    <3>. HIDE DEF F
    <3>2. n \in Nat /\ m \in Nat /\ m <= n  BY <1>0, <3>1
    <3>3. ASSUME NEW x \in S, x <= m PROVE x <= n  BY <1>0, <3>2, <3>3
    <3>. QED  BY <3>3
  <2>2. Cardinality(Upto(m)) <= Cardinality(Upto(n))
    <3>1. IsFiniteSet(Upto(n))  BY <1>4
    <3>. HIDE DEF Upto
    <3>. QED  BY <2>1, <3>1, FS_Subset
  <2>3. Cardinality(Upto(n)) <= PageSize  BY <1>2
  <2>4. Cardinality(Upto(m)) \in Nat /\ Cardinality(Upto(n)) \in Nat  BY <1>4
  <2>5. Cardinality(Upto(m)) <= PageSize
    <3>. HIDE DEF Upto
    <3>. QED  BY <1>3, <2>2, <2>3, <2>4
  <2>. QED  BY <1>2, <2>5
<1>6. S # {} => F # {}
  <2>. SUFFICES ASSUME S # {} PROVE F # {}  OBVIOUS
  <2>1. S \subseteq Nat  BY <1>0
  <2>2. PICK m \in S : \A k \in S : m <= k  BY <2>1, LeastFacts
  <2>3. ASSUME NEW x PROVE x \in Upto(m) <=> x = m
    <3>. HIDE DEF F
    <3>1. x \in Upto(m) <=> x \in S /\ x <= m  OBVIOUS
    <3>. HIDE DEF Upto
    <3>2. \A y \in S : y \in Nat /\ m <= y  BY <2>1, <2>2
    <3>3. ASSUME x \in S, x <= m PROVE x = m  BY <3>2, <3>3
    <3>4. m <= m  BY <3>2
    <3>. QED  BY <2>2, <3>1, <3>3, <3>4
  <2>4. Upto(m) = {m}
    <3>. HIDE DEF Upto
    <3>. QED  BY <2>3, Zenon
  <2>5. m \in S /\ Cardinality({m}) = 1  BY FS_Singleton
  <2>. QED  BY <1>2, <1>3, <2>4, <2>5
<1>7. ~(Journal!Cardinality(S) > PageSize) => F = S
  <2>. SUFFICES ASSUME ~(Cardinality(S) > PageSize) PROVE F = S  BY JournalCardinality
  <2>1. Cardinality(S) \in Nat  BY <1>1, FS_CardinalityType
  <2>2. ASSUME NEW n \in S PROVE Cardinality(Upto(n)) <= PageSize
    <3>1. Cardinality(Upto(n)) \in Nat /\ Cardinality(Upto(n)) <= Cardinality(S)  BY <1>4
    <3>. HIDE DEF Upto
    <3>. QED  BY <1>3, <2>1, <3>1
  <2>. QED  BY <1>2, <2>2
<1>8. F \subseteq S  BY FirstFacts
<1>. QED  BY <1>5, <1>6, <1>7, <1>8

\* The floor a reader is compared with is not below the journal's.
LEMMA FloorFacts ==
  ASSUME Valid(journal)
  PROVE  Journal!Floor \in 0 .. journal.seq /\ journal.floor <= Journal!Floor
<1>. DEFINE S == {journal.floor} \cup {n \in Journal!Numbers(journal) : n <= aged}
<1>1. journal.seq \in Nat /\ S \subseteq 0 .. journal.seq /\ journal.floor \in S
  BY DEF Valid, Journals, Entries, Journal!Numbers
<1>2. Journal!Floor = Journal!Max(S)  BY DEF Journal!Floor
<1>. HIDE DEF S
<1>3. Journal!Max(S) \in S /\ \A n \in S : n <= Journal!Max(S)  BY <1>1, MaxFacts
<1>. QED  BY <1>1, <1>2, <1>3

LEMMA PageReadKeeps == ASSUME JournalInv, Journal!ReadChanges PROVE JournalInv'
<1>1. UNCHANGED <<archive, barred, journal, revised>>  BY DEF Journal!ReadChanges, Journal!storeVars
<1>2. /\ BarredArePurged' /\ ShownAreRecorded' /\ Valid(journal')
      /\ \A k : Journal!Shown(k)' = Journal!Shown(k)
      /\ \A n, k : Later(journal, n, k)' = Later(journal, n, k)
  BY <1>1, ConsumerLeaves
<1>3. /\ reader \in Readers /\ reader.at = "replay" /\ Valid(journal)
      /\ reader.pos \in Nat /\ reader.bound \in Nat /\ reader.pos <= journal.seq
      /\ reader.bound = 0 \/ reader.bound \in reader.pos .. journal.seq
  BY DEF JournalInv, JournalTypes, JournalPositions, Journal!ReadChanges, Readers
<1>4. journal.seq \in Nat /\ journal.floor \in Nat /\ \A e \in journal.entries : e.n \in 1 .. journal.seq
  BY <1>3 DEF Valid, Journals, Entries
<1>5. Journal!Floor \in Nat /\ journal.floor <= Journal!Floor  BY <1>3, <1>4, FloorFacts
<1>6. \A k \in Journal!Names : Mirrors(k, reader.pos)  BY <1>3 DEF JournalInv, Replaying
<1>7. CASE reader.pos < Journal!Floor
  <2>1. reader' = [reader EXCEPT !.at = "start", !.bound = 0]  BY <1>7 DEF Journal!ReadChanges
  <2>2. reader' \in Readers /\ reader'.at = "start" /\ reader'.bound = 0 /\ reader'.pos = reader.pos
    BY <1>3, <2>1 DEF Readers
  <2>3. JournalTypes'  BY <1>1, <2>2 DEF JournalInv, JournalTypes, Valid, Journals
  <2>4. JournalPositions'  BY <1>1, <1>3, <2>2 DEF JournalPositions
  <2>5. Exporting' /\ Replaying' /\ Processing'  BY <2>2 DEF Exporting, Replaying, Processing
  <2>. QED  BY <1>2, <2>3, <2>4, <2>5 DEF JournalInv
<1>8. CASE ~(reader.pos < Journal!Floor)
  <2>. DEFINE high == IF reader.bound = 0 THEN journal.seq ELSE reader.bound
              due == {n \in Journal!Numbers(journal) : reader.pos < n /\ n <= high}
              more == Journal!Cardinality(due) > PageSize
              front == Journal!First(due, PageSize)
              P == {e \in journal.entries : e.n \in front}
              last == IF more THEN Journal!Max(front) ELSE high
              page == [entries |-> P, pos |-> last, bound |-> IF more THEN high ELSE 0]
  <2>1. reader' = [reader EXCEPT !.at = "process", !.page = page]  BY <1>8 DEF Journal!ReadChanges
  <2>2. high \in reader.pos .. journal.seq  BY <1>3, <1>4
  <2>3. due \subseteq 1 .. journal.seq  BY <1>4 DEF Journal!Numbers
  <2>4. \A n \in due : reader.pos < n /\ n <= high /\ n \in Nat  BY <2>3
  <2>5. \A e \in journal.entries : reader.pos < e.n /\ e.n <= high => e.n \in due  BY DEF Journal!Numbers
  <2>. HIDE DEF high, due
  <2>6. /\ front \subseteq due
        /\ \A n \in front, m \in due : m <= n => m \in front
        /\ due # {} => front # {}
        /\ ~more => front = due
    BY <1>4, <2>3, FirstOfDue
  <2>7. more => due # {}
    <3>1. due = {} => Journal!Cardinality(due) = 0  BY JournalCardinality, FS_EmptySet
    <3>. QED  BY <3>1, JournalAssumption
  <2>. HIDE DEF front
  <2>8. more => last \in front /\ \A n \in front : n <= last
    <3>1. front \subseteq 0 .. journal.seq  BY <2>3, <2>6
    <3>. HIDE DEF more
    <3>. QED  BY <1>4, <2>6, <2>7, <3>1, MaxFacts
  <2>9. ~more => last = high  OBVIOUS
  <2>. HIDE DEF last, more
  <2>10. last \in reader.pos .. high
    <3>1. CASE more  BY <1>3, <2>2, <2>4, <2>6, <2>8, <3>1
    <3>2. CASE ~more  BY <1>3, <2>2, <2>9, <3>2
    <3>. QED  BY <3>1, <3>2
  <2>11. \A e \in P : e \in journal.entries /\ reader.pos < e.n  BY <2>4, <2>6
  <2>12. ASSUME NEW e \in journal.entries, reader.pos < e.n PROVE e \in P \/ e.n > last
    <3>1. SUFFICES ASSUME e.n <= last PROVE e.n \in front  BY <1>3, <1>4, <2>2, <2>10
    <3>2. e.n \in due  BY <1>3, <1>4, <2>2, <2>5, <2>10, <2>12, <3>1
    <3>. QED  BY <2>6, <2>8, <3>1, <3>2
  <2>. HIDE DEF P
  <2>13. page.entries = P /\ page.pos = last /\ page.bound \in {0, high}  OBVIOUS
  <2>14. page \in PagesOf
    <3>1. P \subseteq Entries  BY <1>3, <2>11 DEF Valid, Journals
    <3>2. last \in Nat /\ high \in Nat  BY <1>3, <2>2, <2>10
    <3>. QED  BY <3>1, <3>2 DEF PagesOf
  <2>. HIDE DEF page
  <2>15. /\ reader' \in Readers /\ reader'.at = "process" /\ reader'.page = page /\ reader'.pos = reader.pos
         /\ reader'.bound = reader.bound /\ reader'.mirror = reader.mirror
    BY <1>3, <2>1, <2>14 DEF Readers
  <2>16. JournalTypes'  BY <1>1, <2>15 DEF JournalInv, JournalTypes, Valid, Journals
  <2>17. JournalPositions'  BY <1>1, <1>3, <2>15 DEF JournalPositions
  <2>18. Exporting'  BY <2>15 DEF Exporting
  <2>19. \A n, k : Mirrors(k, n)' <=> Mirrors(k, n)  BY <1>2, <2>15 DEF Mirrors
  <2>20. Replaying'  BY <1>6, <2>15, <2>19 DEF Replaying, Mirrors
  <2>21. ASSUME NEW k \in Journal!Names PROVE Mirrors(k, last) \/ \E f \in P : Touches(f, k)
    <3>1. CASE Later(journal, reader.pos, k)
      <4>1. ~(journal.floor > reader.pos)  BY <1>3, <1>4, <1>5, <1>8
      <4>2. PICK f \in journal.entries : f.n > reader.pos /\ Touches(f, k)  BY <3>1, <4>1 DEF Later
      <4>3. f \in P \/ f.n > last  BY <1>3, <1>4, <2>12, <4>2
      <4>. QED  BY <4>2, <4>3 DEF Later, Mirrors
    <3>2. CASE ~Later(journal, reader.pos, k)  BY <1>6, <3>2 DEF Mirrors
    <3>. QED  BY <3>1, <3>2
  <2>22. ASSUME NEW k \in Journal!Names, Journal!Shown(k) # "absent", NEW e \in P, Clears(e, k)
         PROVE  Later(journal, last, k) \/ \E f \in P : f.n > e.n /\ Touches(f, k)
    <3>1. Later(journal, e.n, k)  BY <2>11, <2>22 DEF JournalInv, ShownAreRecorded
    <3>2. e.n \in Nat /\ reader.pos < e.n  BY <1>4, <2>11
    <3>3. ~(journal.floor > e.n)  BY <1>3, <1>4, <1>5, <1>8, <3>2
    <3>4. PICK f \in journal.entries : f.n > e.n /\ Touches(f, k)  BY <3>1, <3>3 DEF Later
    <3>5. f.n \in Nat /\ reader.pos < f.n  BY <1>3, <1>4, <3>2, <3>4
    <3>6. f \in P \/ f.n > last  BY <2>12, <3>5
    <3>. QED  BY <3>4, <3>6 DEF Later
  <2>23. /\ page.pos \in reader.pos .. journal.seq
         /\ page.bound = 0 \/ page.bound \in page.pos .. journal.seq
    BY <1>3, <1>4, <2>2, <2>10, <2>13
  <2>24. \A e, f \in P : e.n = f.n => e = f  BY <1>3, <2>11 DEF Valid
  <2>25. /\ \A k \in Journal!Names : \/ reader'.mirror[k] = Journal!Shown(k)'
                                     \/ Later(journal', page.pos, k)
                                     \/ \E f \in page.entries : Touches(f, k)
         /\ \A k \in Journal!Names : Journal!Shown(k)' # "absent" =>
              \A e \in page.entries : Clears(e, k) =>
                Later(journal', page.pos, k) \/ \E f \in page.entries : f.n > e.n /\ Touches(f, k)
    BY <1>1, <1>2, <2>13, <2>15, <2>21, <2>22 DEF Mirrors
  <2>26. /\ \A e \in page.entries : e.n > reader.pos /\ e \in journal.entries
         /\ \A e, f \in page.entries : e.n = f.n => e = f
    BY <1>4, <1>3, <2>11, <2>13, <2>24
  <2>27. Processing'
    BY <1>1, <2>15, <2>23, <2>25, <2>26 DEF Processing, Mirrors
  <2>. QED  BY <1>2, <2>16, <2>17, <2>18, <2>20, <2>27 DEF JournalInv
<1>. QED  BY <1>7, <1>8

LEMMA EarliestFacts ==
  ASSUME NEW S, S \subseteq Entries, S # {}
  PROVE  Journal!Earliest(S) \in S /\ \A d \in S : Journal!Earliest(S).n <= d.n
<1>. DEFINE N == {e.n : e \in S}
<1>1. N \subseteq Nat /\ N # {}  BY DEF Entries
<1>2. PICK m \in N : \A n \in N : m <= n
  <2>. HIDE DEF N
  <2>. QED  BY <1>1, LeastFacts
<1>3. \E e \in S : \A d \in S : e.n <= d.n  BY <1>2
<1>. QED  BY <1>3, Zenon DEF Journal!Earliest

LEMMA ProcessKeeps == ASSUME JournalInv, Journal!ProcessChange PROVE JournalInv'
<1>1. UNCHANGED <<archive, barred, journal, revised>>  BY DEF Journal!ProcessChange, Journal!storeVars
<1>2. /\ BarredArePurged' /\ ShownAreRecorded' /\ Valid(journal')
      /\ \A k : Journal!Shown(k)' = Journal!Shown(k)
      /\ \A n, k : Later(journal, n, k)' = Later(journal, n, k)
  BY <1>1, ConsumerLeaves
<1>. DEFINE page == reader.page
            e == Journal!Earliest(page.entries)
            m == [k \in Journal!Names |-> Journal!Applied(e, reader.mirror, k)]
            rest == page.entries \ {e}
<1>3. /\ reader \in Readers /\ reader.at = "process" /\ Valid(journal)
      /\ reader' = [reader EXCEPT !.mirror = m, !.page.entries = rest]
      /\ page.entries # {}
  BY DEF JournalInv, JournalTypes, Journal!ProcessChange
<1>4. /\ reader.pos \in Nat /\ reader.mirror \in [Journal!Names -> Bodies \cup {"absent"}]
      /\ page \in PagesOf
  BY <1>3 DEF Readers
<1>5. page.pos \in Nat /\ page.entries \subseteq Entries  BY <1>4 DEF PagesOf
<1>6. e \in page.entries /\ \A d \in page.entries : e.n <= d.n
  <2>. HIDE DEF page
  <2>. QED  BY <1>3, <1>5, EarliestFacts
<1>7. /\ page.pos \in reader.pos .. journal.seq
      /\ page.bound = 0 \/ page.bound \in page.pos .. journal.seq
      /\ \A f \in page.entries : /\ f.n > reader.pos
                                 /\ f \in journal.entries \/ f.n <= journal.floor
      /\ \A f, g \in page.entries : f.n = g.n => f = g
      /\ \A k \in Journal!Names : Mirrors(k, page.pos) \/ \E f \in page.entries : Touches(f, k)
      /\ \A k \in Journal!Names : Journal!Shown(k) # "absent" =>
           \A g \in page.entries : Clears(g, k) =>
             Later(journal, page.pos, k) \/ \E f \in page.entries : f.n > g.n /\ Touches(f, k)
  BY <1>3 DEF JournalInv, Processing
<1>8. \A k \in Journal!Names : Mirrors(k, reader.pos)  BY <1>3 DEF JournalInv, Replaying
<1>. HIDE DEF page, e
<1>9. m \in [Journal!Names -> Bodies \cup {"absent"}]
  <2>1. \A k : Journal!Shown(k) \in Bodies \cup {"absent"}  BY DEF Journal!Shown
  <2>. QED  BY <1>4, <2>1 DEF Journal!Applied
<1>10. rest \subseteq page.entries /\ \A f \in page.entries : f \in rest \/ f = e  OBVIOUS
<1>11. \A k \in Journal!Names : m[k] = Journal!Applied(e, reader.mirror, k)  OBVIOUS
<1>. HIDE DEF m, rest
<1>12. [page EXCEPT !.entries = rest] = [entries |-> rest, pos |-> page.pos, bound |-> page.bound]
  BY <1>4 DEF PagesOf
<1>. DEFINE todo == [entries |-> rest, pos |-> page.pos, bound |-> page.bound]
<1>13. reader' = [reader EXCEPT !.mirror = m, !.page = todo]
  BY <1>3, <1>12 DEF page
<1>14. todo \in PagesOf  BY <1>4, <1>5, <1>10 DEF PagesOf
<1>15. todo.entries = rest /\ todo.pos = page.pos /\ todo.bound = page.bound  OBVIOUS
<1>. HIDE DEF todo
<1>16. /\ reader' \in Readers /\ reader'.at = "process" /\ reader'.page = todo /\ reader'.mirror = m
       /\ reader'.pos = reader.pos /\ reader'.bound = reader.bound
  BY <1>3, <1>9, <1>13, <1>14 DEF Readers
<1>17. JournalTypes'  BY <1>1, <1>16 DEF JournalInv, JournalTypes, Valid, Journals
<1>18. JournalPositions'  BY <1>1, <1>16 DEF JournalInv, JournalPositions
<1>19. Exporting'  BY <1>16 DEF Exporting
<1>20. \A f \in Entries : f.n \in Nat  BY DEF Entries
\* The cases of Applied.
<1>21. ASSUME NEW k \in Journal!Names
       PROVE  \/ m[k] = Journal!Shown(k)
              \/ m[k] = "absent" /\ Clears(e, k)
              \/ m[k] = reader.mirror[k] /\ ~Touches(e, k)
  BY <1>11 DEF Journal!Applied, Clears, Touches
<1>22. Replaying'
  <2>. SUFFICES ASSUME NEW k \in Journal!Names
                PROVE  m[k] = Journal!Shown(k) \/ Later(journal, reader.pos, k)
    BY <1>1, <1>2, <1>16 DEF Replaying, Mirrors
  <2>1. CASE m[k] = "absent" /\ Clears(e, k) /\ Journal!Shown(k) # "absent"
    <3>1. CASE Later(journal, page.pos, k)
      <4>1. reader.pos <= page.pos  BY <1>7
      <4>. QED  BY <1>3, <1>4, <1>5, <3>1, <4>1, LaterSooner
    <3>2. CASE \E f \in page.entries : f.n > e.n /\ Touches(f, k)
      <4>1. PICK f \in page.entries : f.n > e.n /\ Touches(f, k)  BY <3>2
      <4>2. f.n > reader.pos /\ f.n \in Nat /\ (f \in journal.entries \/ f.n <= journal.floor)
        BY <1>5, <1>7, <1>20
      <4>3. journal.floor \in Nat  BY <1>3 DEF Valid, Journals
      <4>. QED  BY <1>4, <4>1, <4>2, <4>3 DEF Later
    <3>. QED  BY <1>6, <1>7, <2>1, <3>1, <3>2
  <2>. QED  BY <1>8, <1>21, <2>1 DEF Mirrors
<1>23. ASSUME NEW k \in Journal!Names
       PROVE  \/ m[k] = Journal!Shown(k) \/ Later(journal, page.pos, k)
              \/ \E f \in rest : Touches(f, k)
  <2>1. CASE m[k] = "absent" /\ Clears(e, k) /\ Journal!Shown(k) # "absent"
    <3>1. CASE \E f \in page.entries : f.n > e.n /\ Touches(f, k)
      <4>1. PICK f \in page.entries : f.n > e.n /\ Touches(f, k)  BY <3>1
      <4>2. f # e  BY <1>5, <1>6, <1>20, <4>1
      <4>. QED  BY <1>10, <4>1, <4>2
    <3>. QED  BY <1>6, <1>7, <2>1, <3>1
  <2>2. CASE m[k] = reader.mirror[k] /\ ~Touches(e, k)  BY <1>7, <1>10, <2>2 DEF Mirrors
  <2>. QED  BY <1>21, <2>1, <2>2
<1>24. ASSUME NEW k \in Journal!Names, Journal!Shown(k) # "absent", NEW g \in rest, Clears(g, k)
       PROVE  Later(journal, page.pos, k) \/ \E f \in rest : f.n > g.n /\ Touches(f, k)
  <2>1. g \in page.entries  BY <1>10
  <2>2. CASE \E f \in page.entries : f.n > g.n /\ Touches(f, k)
    <3>1. PICK f \in page.entries : f.n > g.n /\ Touches(f, k)  BY <2>2
    <3>2. e.n <= g.n /\ f.n \in Nat /\ g.n \in Nat /\ e.n \in Nat  BY <1>5, <1>6, <1>20, <2>1
    <3>3. f # e  BY <3>1, <3>2
    <3>. QED  BY <1>10, <3>1, <3>3
  <2>. QED  BY <1>7, <1>24, <2>1, <2>2
<1>25. Processing'
  <2>1. /\ \A k \in Journal!Names : \/ reader'.mirror[k] = Journal!Shown(k)'
                                    \/ Later(journal', todo.pos, k)
                                    \/ \E f \in todo.entries : Touches(f, k)
        /\ \A k \in Journal!Names : Journal!Shown(k)' # "absent" =>
             \A g \in todo.entries : Clears(g, k) =>
               Later(journal', todo.pos, k) \/ \E f \in todo.entries : f.n > g.n /\ Touches(f, k)
    BY <1>1, <1>2, <1>15, <1>16, <1>23, <1>24
  <2>2. /\ todo.pos \in reader.pos .. journal.seq
        /\ todo.bound = 0 \/ todo.bound \in todo.pos .. journal.seq
        /\ \A f \in todo.entries : /\ f.n > reader.pos
                                   /\ f \in journal.entries \/ f.n <= journal.floor
        /\ \A f, g \in todo.entries : f.n = g.n => f = g
    BY <1>7, <1>10, <1>15
  <2>. QED  BY <1>1, <1>16, <2>1, <2>2 DEF Processing, Mirrors
<1>. QED  BY <1>2, <1>17, <1>18, <1>19, <1>22, <1>25 DEF JournalInv

\* A page is done, or the consumer is started again at its checkpoint.
LEMMA CheckpointKeeps ==
  ASSUME JournalInv, Journal!SaveCheckpoint \/ Journal!ConsumerDies
  PROVE  JournalInv'
<1>1. UNCHANGED <<archive, barred, journal, revised>>
  BY DEF Journal!SaveCheckpoint, Journal!ConsumerDies, Journal!storeVars
<1>2. /\ BarredArePurged' /\ ShownAreRecorded' /\ Valid(journal')
      /\ \A k : Journal!Shown(k)' = Journal!Shown(k)
      /\ \A n, k : Later(journal, n, k)' = Later(journal, n, k)
  BY <1>1, ConsumerLeaves
<1>. DEFINE page == reader.page
<1>3. reader \in Readers /\ reader.at = "process" /\ Valid(journal) /\ page \in PagesOf
  BY DEF JournalInv, JournalTypes, Journal!SaveCheckpoint, Journal!ConsumerDies, Readers
<1>4. Journal!NoPage \in PagesOf  BY DEF Journal!NoPage, PagesOf
<1>5. page.pos \in Nat /\ page.bound \in Nat /\ reader.pos \in Nat /\ reader.bound \in Nat /\ journal.seq \in Nat
  BY <1>3 DEF PagesOf, Readers, Valid, Journals
<1>6. /\ page.pos \in reader.pos .. journal.seq
      /\ page.bound = 0 \/ page.bound \in page.pos .. journal.seq
      /\ \A k \in Journal!Names : Mirrors(k, page.pos) \/ \E f \in page.entries : Touches(f, k)
  BY <1>3 DEF JournalInv, Processing
<1>7. \A k \in Journal!Names : Mirrors(k, reader.pos)  BY <1>3 DEF JournalInv, Replaying
<1>8. CASE Journal!SaveCheckpoint
  <2>1. /\ reader' = [reader EXCEPT !.at = "replay", !.pos = page.pos, !.bound = page.bound,
                                    !.page = Journal!NoPage]
        /\ page.entries = {}
    BY <1>8 DEF Journal!SaveCheckpoint
  <2>. HIDE DEF page
  <2>2. /\ reader' \in Readers /\ reader'.at = "replay" /\ reader'.pos = page.pos /\ reader'.bound = page.bound
        /\ reader'.mirror = reader.mirror
    BY <1>3, <1>4, <1>5, <2>1 DEF Readers
  <2>3. JournalTypes'  BY <1>1, <2>2 DEF JournalInv, JournalTypes, Valid, Journals
  <2>4. JournalPositions'  BY <1>1, <1>5, <1>6, <2>2 DEF JournalPositions
  <2>5. Exporting' /\ Processing'  BY <2>2 DEF Exporting, Processing
  <2>6. Replaying'  BY <1>1, <1>2, <1>6, <2>1, <2>2 DEF Replaying, Mirrors
  <2>. QED  BY <1>2, <2>3, <2>4, <2>5, <2>6 DEF JournalInv
<1>9. CASE Journal!ConsumerDies
  <2>1. reader' = [reader EXCEPT !.at = "replay", !.page = Journal!NoPage]
    BY <1>9 DEF Journal!ConsumerDies
  <2>2. /\ reader' \in Readers /\ reader'.at = "replay" /\ reader'.pos = reader.pos /\ reader'.bound = reader.bound
        /\ reader'.mirror = reader.mirror
    BY <1>3, <1>4, <2>1 DEF Readers
  <2>3. JournalTypes'  BY <1>1, <2>2 DEF JournalInv, JournalTypes, Valid, Journals
  <2>4. JournalPositions'  BY <1>1, <2>2 DEF JournalInv, JournalPositions
  <2>5. Exporting' /\ Processing'  BY <2>2 DEF Exporting, Processing
  <2>6. Replaying'  BY <1>1, <1>2, <1>7, <2>2 DEF Replaying, Mirrors
  <2>. QED  BY <1>2, <2>3, <2>4, <2>5, <2>6 DEF JournalInv
<1>. QED  BY <1>8, <1>9

\* One more row of a store that had rows before it had a journal.
LEMMA SeedFacts ==
  ASSUME NEW j, Valid(j), NEW k \in Journal!Names, \A e \in j.entries : e.op = "upsert",
         NEW i, i = (IF archive[k] = "absent" THEN j ELSE Journal!Recorded(j, "upsert", k, k))
  PROVE  /\ Valid(i) /\ Follows(j, i) /\ \A e \in i.entries : e.op = "upsert"
         /\ archive[k] # "absent" => Later(i, 0, k)
<1>1. CASE archive[k] = "absent"
  <2>1. Follows(j, j)  BY DEF Valid, Journals, Follows
  <2>. QED  BY <1>1, <2>1
<1>2. CASE archive[k] # "absent"
  <2>. DEFINE e == [n |-> j.seq + 1, op |-> "upsert", key |-> k, to |-> k]
  <2>1. /\ Valid(i) /\ Follows(j, i) /\ i.entries \subseteq j.entries \cup {e}
        /\ e \in i.entries \/ i.floor > j.seq
    BY <1>2, RecordedFacts DEF Ops
  <2>2. e.n = j.seq + 1 /\ e.op = "upsert" /\ e.to = k  OBVIOUS
  <2>3. j.seq \in Nat /\ i.floor \in Nat  BY <2>1 DEF Valid, Journals
  <2>. HIDE DEF e
  <2>4. Later(i, 0, k)  BY <2>1, <2>2, <2>3 DEF Later, Touches
  <2>. QED  BY <2>1, <2>2, <2>4
<1>. QED  BY <1>1, <1>2

LEMMA JournalStarts == Journal!Init => JournalInv
<1>. SUFFICES ASSUME Journal!Init PROVE JournalInv  OBVIOUS
<1>1. /\ archive \in [Journal!Names -> Bodies \cup {"absent", "tombstone"}] /\ barred = {}
      /\ journal = Journal!Seeded /\ revised = FALSE /\ reader = Journal!NewReader
  BY DEF Journal!Init
<1>. DEFINE j == Journal!Empty
            i == IF archive["lid"] = "absent" THEN j ELSE Journal!Recorded(j, "upsert", "lid", "lid")
            h == IF archive["pn"] = "absent" THEN i ELSE Journal!Recorded(i, "upsert", "pn", "pn")
<1>2. journal = h  BY <1>1 DEF Journal!Seeded
<1>3. Valid(j) /\ \A e \in j.entries : e.op = "upsert"  BY DEF Journal!Empty, Valid, Journals
<1>. HIDE DEF j
<1>4. /\ Valid(i) /\ \A e \in i.entries : e.op = "upsert"
      /\ archive["lid"] # "absent" => Later(i, 0, "lid")
  <2>1. "lid" \in Journal!Names  BY JournalNames
  <2>. QED  BY <1>3, <2>1, SeedFacts
<1>. HIDE DEF i
<1>5. /\ Valid(h) /\ Follows(i, h) /\ \A e \in h.entries : e.op = "upsert"
      /\ archive["pn"] # "absent" => Later(h, 0, "pn")
  <2>1. "pn" \in Journal!Names  BY JournalNames
  <2>. QED  BY <1>4, <2>1, SeedFacts
<1>. HIDE DEF h
<1>6. archive["lid"] # "absent" => Later(h, 0, "lid")
  <2>1. 0 \in Nat  OBVIOUS
  <2>. QED  BY <1>4, <1>5, <2>1, LaterKept
<1>7. ShownAreRecorded
  <2>1. \A k \in Journal!Names : Journal!Shown(k) # "absent" => archive[k] # "absent"
    BY DEF Journal!Shown
  <2>2. \A k \in Journal!Names : archive[k] # "absent" => Later(journal, 0, k)
    BY <1>2, <1>5, <1>6, JournalNames
  <2>3. \A e \in journal.entries : \A k : ~Clears(e, k)  BY <1>2, <1>5 DEF Clears
  <2>. QED  BY <2>1, <2>2, <2>3 DEF ShownAreRecorded
<1>8. reader \in Readers /\ reader.at = "start" /\ reader.pos = 0 /\ reader.bound = 0
  BY <1>1 DEF Journal!NewReader, Journal!NoPage, Journal!Nothing, Readers, PagesOf
<1>9. JournalTypes
  <2>1. archive \in [Journal!Names -> States]  BY <1>1 DEF States
  <2>. QED  BY <1>1, <1>2, <1>5, <1>8, <2>1 DEF JournalTypes
<1>10. BarredArePurged  BY <1>1 DEF BarredArePurged
<1>11. JournalPositions  BY <1>2, <1>5, <1>8 DEF JournalPositions, Valid, Journals
<1>12. Exporting /\ Replaying /\ Processing  BY <1>8 DEF Exporting, Replaying, Processing
<1>. QED  BY <1>7, <1>9, <1>10, <1>11, <1>12 DEF JournalInv

LEMMA JournalUnchanged ==
  JournalInv /\ UNCHANGED Journal!vars => JournalInv' /\ (Journal!CompletesExact)
<1>. SUFFICES ASSUME JournalInv, UNCHANGED <<archive, barred, journal, aged, revised, reader>>
              PROVE  JournalInv' /\ Journal!CompletesExact
  BY DEF Journal!vars, Journal!storeVars
<1>1. \A k : Journal!Shown(k)' = Journal!Shown(k)  BY DEF Journal!Shown
<1>2. \A n, k : Mirrors(k, n)' <=> Mirrors(k, n)  BY <1>1 DEF Mirrors, Later
<1>3. \A k : \A n : Later(journal, n, k)' <=> Later(journal, n, k)  BY DEF Later
<1>. USE DEF JournalInv
<1>4. JournalTypes'  BY DEF JournalTypes, Valid, Journals
<1>5. BarredArePurged' /\ JournalPositions'  BY DEF BarredArePurged, JournalPositions
<1>6. ShownAreRecorded'
  <2>1. ShownAreRecorded  OBVIOUS
  <2>. QED  BY <1>1, <2>1 DEF ShownAreRecorded
<1>7. Exporting'
  <2>1. Exporting  OBVIOUS
  <2>. QED  BY <1>1, <2>1 DEF Exporting, Mirrors
<1>8. Replaying'
  <2>1. Replaying  OBVIOUS
  <2>. QED  BY <1>1, <2>1 DEF Replaying, Mirrors
<1>9. Processing'
  <2>1. Processing  OBVIOUS
  <2>. QED  BY <1>1, <2>1 DEF Processing, Mirrors
<1>. QED  BY <1>4, <1>5, <1>6, <1>7, <1>8, <1>9 DEF Journal!CompletesExact

LEMMA JournalStepKeeps ==
  JournalInv /\ [Journal!Next]_(Journal!vars) => JournalInv' /\ Journal!CompletesExact
<1>. SUFFICES ASSUME JournalInv, [Journal!Next]_(Journal!vars) PROVE JournalInv' /\ Journal!CompletesExact
  OBVIOUS
<1>1. CASE UNCHANGED Journal!vars  BY <1>1, JournalUnchanged
<1>2. CASE Journal!Writer
  <2>1. JournalInv'
    BY <1>2, RowsKeep, PurgedKeeps, CleaningKeeps, MoveKeeps DEF Journal!Writer
  <2>2. reader' = reader
    BY <1>2 DEF Journal!Writer, Journal!UpsertMessage, Journal!DeleteMessage, Journal!PurgeMessage,
                Journal!DeleteChat, Journal!Write, Journal!MigrateLIDToPN, Journal!Age, Journal!OpenWritable
  <2>. QED  BY <2>1, <2>2 DEF Journal!CompletesExact
<1>3. CASE Journal!ExportPage  BY <1>3, ExportKeeps
<1>4. CASE Journal!Start \/ Journal!ReadChanges \/ Journal!ProcessChange \/ Journal!SaveCheckpoint
           \/ Journal!ConsumerDies
  <2>1. JournalInv'  BY <1>4, StartKeeps, PageReadKeeps, ProcessKeeps, CheckpointKeeps
  <2>2. reader.at # "export"
    BY <1>4 DEF Journal!Start, Journal!ReadChanges, Journal!ProcessChange, Journal!SaveCheckpoint,
                Journal!ConsumerDies
  <2>. QED  BY <2>1, <2>2 DEF Journal!CompletesExact
<1>. QED  BY <1>1, <1>2, <1>3, <1>4 DEF Journal!Next, Journal!Consumer

\* Behind the last number nothing is to be read.
LEMMA JournalSaysSo == JournalInv => Journal!DrainedMirrorsStore
<1>. SUFFICES ASSUME JournalInv, Journal!Drained, reader.pos >= Journal!Floor, NEW k \in Journal!Names
              PROVE  reader.mirror[k] = Journal!Shown(k)
  BY DEF Journal!DrainedMirrorsStore
<1>1. Valid(journal) /\ reader.at = "replay" /\ reader.pos = journal.seq
  BY DEF JournalInv, JournalTypes, Journal!Drained
<1>2. Mirrors(k, journal.seq)  BY <1>1 DEF JournalInv, Replaying
<1>3. journal.seq \in Nat /\ journal.floor \in Nat /\ journal.floor <= journal.seq
      /\ \A e \in journal.entries : e.n \in Nat /\ e.n <= journal.seq
  BY <1>1 DEF Valid, Journals, Entries
<1>4. ~Later(journal, journal.seq, k)  BY <1>3 DEF Later
<1>. QED  BY <1>2, <1>4 DEF Mirrors

LEMMA JournalPartSteps ==
  [StoreNext]_partsVars => part' = part /\ (part = "journal" => [Journal!Next]_(Journal!vars))
<1>. SUFFICES ASSUME [StoreNext]_partsVars
              PROVE  part' = part /\ (part = "journal" => [Journal!Next]_(Journal!vars))
  OBVIOUS
<1>1. CASE UNCHANGED partsVars
  BY <1>1 DEF partsVars, journalVars, Journal!vars, Journal!storeVars
<1>2. CASE StoreNext  BY <1>2 DEF StoreNext
<1>. QED  BY <1>1, <1>2

\* A consumer of the journal that has replayed everything, and is not behind the floor,
\* mirrors what the store shows: its own module, and the store's parts.
THEOREM DrainedMirrorsStoreAlways ==
  (Journal!Spec => []Journal!DrainedMirrorsStore) /\ (StoreSpec => []DrainedMirrorsStore)
<1>. DEFINE Part == part = "journal" => JournalInv
<1>1. StoreInit => Part  BY JournalStarts DEF StoreInit
<1>2. Part /\ [StoreNext]_partsVars => Part'  BY JournalPartSteps, JournalStepKeeps
<1>3. Part => DrainedMirrorsStore  BY JournalSaysSo DEF DrainedMirrorsStore
<1>4. Journal!Spec => []Journal!DrainedMirrorsStore
  BY JournalStarts, JournalStepKeeps, JournalSaysSo, PTL DEF Journal!Spec
<1>. HIDE DEF Part
<1>5. StoreSpec => []DrainedMirrorsStore  BY <1>1, <1>2, <1>3, PTL DEF StoreSpec
<1>. QED  BY <1>4, <1>5

\* A completed export of the pages is one state of the archive.
THEOREM ExportIsOneStateAlways == (Journal!Spec => Journal!ExportIsOneState) /\ (StoreSpec => ExportIsOneState)
<1>. DEFINE Part == part = "journal" => JournalInv
<1>1. StoreInit => Part  BY JournalStarts DEF StoreInit
<1>2. Part /\ [StoreNext]_partsVars => Part' /\ (part = "journal" => Journal!CompletesExact)
  BY JournalPartSteps, JournalStepKeeps
<1>3. Journal!Spec => Journal!ExportIsOneState
  BY JournalStarts, JournalStepKeeps, PTL DEF Journal!Spec, Journal!ExportIsOneState
<1>. HIDE DEF Part
<1>4. StoreSpec => ExportIsOneState  BY <1>1, <1>2, PTL DEF StoreSpec, ExportIsOneState
<1>. QED  BY <1>3, <1>4

-----------------------------------------------------------------------------
(* StoreOpen: what a store owes. *)

IsStore(d) == d = [f \in StoreFields |-> d[f]]

\* A statement that leaves the debts and the identity.
Leaves(d, e) ==
  IsStore(e) /\ e.marks = d.marks /\ e.intents = d.intents /\ e.identity = d.identity

\* What an upgrade may make of a store.
Upgrades(d, e) ==
  /\ IsStore(e)
  /\ d.marks \cup d.intents \subseteq e.marks \cup e.intents
  /\ d.identity # 0 => e.identity = d.identity

OtherFields == StoreFields \ {"marks", "intents", "identity"}

LEMMA LeavesUpgrades == \A d, e : Leaves(d, e) => Upgrades(d, e)
BY DEF Leaves, Upgrades

LEMMA FieldSet ==
  ASSUME NEW d, IsStore(d), NEW f \in StoreFields, NEW v
  PROVE  /\ IsStore([d EXCEPT ![f] = v])
         /\ \A x \in StoreFields : [d EXCEPT ![f] = v][x] = IF x = f THEN v ELSE d[x]
<1>. DEFINE e == [d EXCEPT ![f] = v]
<1>1. DOMAIN d = StoreFields  BY DEF IsStore
<1>2. e = [x \in DOMAIN d |-> IF x = f THEN v ELSE d[x]]  BY Zenon
<1>3. e = [x \in StoreFields |-> IF x = f THEN v ELSE d[x]]  BY <1>1, <1>2
<1>. HIDE DEF e
<1>4. IsStore(e) /\ \A x \in StoreFields : e[x] = IF x = f THEN v ELSE d[x]  BY <1>3 DEF IsStore
<1>. QED  BY <1>4 DEF e

LEMMA OneFieldLeaves ==
  ASSUME NEW d, IsStore(d), NEW f \in OtherFields, NEW v
  PROVE  Leaves(d, [d EXCEPT ![f] = v])
<1>. DEFINE e == [d EXCEPT ![f] = v]
<1>1. f \in StoreFields  BY DEF OtherFields
<1>2. IsStore(e) /\ \A x \in StoreFields : e[x] = IF x = f THEN v ELSE d[x]  BY <1>1, FieldSet
<1>. HIDE DEF e
<1>3. e["marks"] = d["marks"] /\ e["intents"] = d["intents"] /\ e["identity"] = d["identity"]
  BY <1>2 DEF OtherFields, StoreFields
<1>4. Leaves(d, e)  BY <1>2, <1>3 DEF Leaves
<1>. QED  BY <1>4 DEF e

LEMMA OtherFieldsAre ==
  OtherFields = {"tables", "cols", "rows", "unread", "count", "old", "indexed", "journal"}
BY DEF OtherFields, StoreFields

LEMMA TwoFieldsLeave ==
  ASSUME NEW d, IsStore(d), NEW f \in OtherFields, NEW g \in OtherFields, NEW v, NEW w
  PROVE  Leaves(d, [d EXCEPT ![f] = v, ![g] = w])
<1>. DEFINE e == [d EXCEPT ![f] = v]  h == [e EXCEPT ![g] = w]
<1>1. Leaves(d, e) /\ IsStore(e)  BY OneFieldLeaves DEF Leaves
<1>2. [d EXCEPT ![f] = v, ![g] = w] = h  OBVIOUS
<1>. HIDE DEF e
<1>3. Leaves(e, h)  BY <1>1, OneFieldLeaves
<1>4. Leaves(d, h)  BY <1>1, <1>3 DEF Leaves
<1>. QED  BY <1>2, <1>4

\* Statements that any migration may have.
LEMMA AnyStatementLeaves ==
  ASSUME IsStore(disk), NEW p,
         Open!Skip(p) \/ Open!CreateTable(p) \/ Open!CheckColumn(p) \/ Open!AlterTable(p) \/ Open!RecordMigration(p)
  PROVE  Leaves(disk, disk')
<1>. DEFINE x == Open!Current(p).x
<1>1. Leaves(disk, disk)  BY DEF Leaves
<1>2. CASE Open!Skip(p) \/ Open!CheckColumn(p)
  BY <1>1, <1>2 DEF Open!Skip, Open!CheckColumn, Open!Commits
<1>3. CASE Open!CreateTable(p)
  <2>1. disk' = IF x \in disk.tables THEN disk
                ELSE [disk EXCEPT !.tables = @ \cup {x}, !.cols = @ \cup Open!Created(x)]
    BY <1>3 DEF Open!CreateTable, Open!Commits
  <2>2. Leaves(disk, [disk EXCEPT !.tables = @ \cup {x}, !.cols = @ \cup Open!Created(x)])
    BY OtherFieldsAre, TwoFieldsLeave
  <2>. QED  BY <1>1, <2>1, <2>2
<1>4. CASE Open!AlterTable(p)
  <2>1. disk' = disk \/ disk' = [disk EXCEPT !.cols = @ \cup {x}]
    BY <1>4 DEF Open!AlterTable, Open!Commits, Open!Fails
  <2>2. Leaves(disk, [disk EXCEPT !.cols = @ \cup {x}])  BY OtherFieldsAre, OneFieldLeaves
  <2>. QED  BY <1>1, <2>1, <2>2
<1>5. CASE Open!RecordMigration(p)
  <2>1. disk' = disk \/ disk' = [disk EXCEPT !.rows = @ \cup {x}]
    BY <1>5 DEF Open!RecordMigration, Open!Commits, Open!Fails
  <2>2. Leaves(disk, [disk EXCEPT !.rows = @ \cup {x}])  BY OtherFieldsAre, OneFieldLeaves
  <2>. QED  BY <1>1, <2>1, <2>2
<1>. QED  BY <1>2, <1>3, <1>4, <1>5

\* The reconciliation of pre-release numbers.
LEMMA ReconciliationLeaves ==
  ASSUME IsStore(disk), NEW p, Open!ReconcileRetrieval(p) \/ Open!ReconcileFork(p) \/ Open!LoadApplied(p)
  PROVE  Leaves(disk, disk')
<1>1. Leaves(disk, disk)  BY DEF Leaves
<1>2. ASSUME NEW v, disk' = [disk EXCEPT !.rows = v] PROVE Leaves(disk, disk')
  BY <1>2, OtherFieldsAre, OneFieldLeaves
<1>3. CASE Open!ReconcileRetrieval(p)
  <2>1. disk' = disk \/ \E v, w : disk' = [disk EXCEPT !.tables = v, !.rows = w]
    BY <1>3 DEF Open!ReconcileRetrieval, Open!Commits, Open!Fails
  <2>2. ASSUME NEW v, NEW w, disk' = [disk EXCEPT !.tables = v, !.rows = w] PROVE Leaves(disk, disk')
    BY <2>2, OtherFieldsAre, TwoFieldsLeave
  <2>. QED  BY <1>1, <2>1, <2>2
<1>4. CASE Open!ReconcileFork(p)
  <2>1. disk' = disk \/ \E v : disk' = [disk EXCEPT !.rows = v]
    BY <1>4 DEF Open!ReconcileFork, Open!Commits
  <2>. QED  BY <1>1, <1>2, <2>1
<1>5. CASE Open!LoadApplied(p)  BY <1>1, <1>5 DEF Open!LoadApplied
<1>. QED  BY <1>3, <1>4, <1>5

\* Statements of single migrations that do not touch what is owed.
LEMMA SingleStatementLeaves ==
  ASSUME IsStore(disk), NEW p,
         \/ Open!SearchIndex(p) \/ Open!UnreadCount(p) \/ Open!ReconcileMarkers(p)
         \/ Open!ChangeState(p) \/ Open!ReceiptTriggers(p) \/ Open!OtherStatement(p)
  PROVE  Leaves(disk, disk')
<1>1. Leaves(disk, disk)  BY DEF Leaves
<1>2. CASE Open!ReconcileMarkers(p) \/ Open!ReceiptTriggers(p) \/ Open!OtherStatement(p)
  BY <1>1, <1>2 DEF Open!ReconcileMarkers, Open!ReceiptTriggers, Open!OtherStatement, Open!Commits, Open!Fails
<1>3. CASE Open!SearchIndex(p)
  <2>1. \/ disk' = disk \/ \E v, w : disk' = [disk EXCEPT !.tables = v, !.indexed = w]
        \/ disk' = [disk EXCEPT !.indexed = TRUE]
    BY <1>3 DEF Open!SearchIndex, Open!Commits
  <2>2. ASSUME NEW v, NEW w, disk' = [disk EXCEPT !.tables = v, !.indexed = w] PROVE Leaves(disk, disk')
    BY <2>2, OtherFieldsAre, TwoFieldsLeave
  <2>3. Leaves(disk, [disk EXCEPT !.indexed = TRUE])  BY OtherFieldsAre, OneFieldLeaves
  <2>. QED  BY <1>1, <2>1, <2>2, <2>3
<1>4. CASE Open!UnreadCount(p)
  <2>1. disk' = disk \/ (\E v : disk' = [disk EXCEPT !.count = v]) \/ \E v : disk' = [disk EXCEPT !.unread = v]
    BY <1>4 DEF Open!UnreadCount, Open!Commits
  <2>2. ASSUME NEW v, disk' = [disk EXCEPT !.count = v] PROVE Leaves(disk, disk')
    BY <2>2, OtherFieldsAre, OneFieldLeaves
  <2>3. ASSUME NEW v, disk' = [disk EXCEPT !.unread = v] PROVE Leaves(disk, disk')
    BY <2>3, OtherFieldsAre, OneFieldLeaves
  <2>. QED  BY <1>1, <2>1, <2>2, <2>3
<1>5. CASE Open!ChangeState(p)
  <2>1. disk' = disk \/ \E v : disk' = [disk EXCEPT !.tables = v, !.journal = TRUE]
    BY <1>5 DEF Open!ChangeState, Open!Commits
  <2>2. ASSUME NEW v, disk' = [disk EXCEPT !.tables = v, !.journal = TRUE] PROVE Leaves(disk, disk')
    BY <2>2, OtherFieldsAre, TwoFieldsLeave
  <2>. QED  BY <1>1, <2>1, <2>2
<1>. QED  BY <1>2, <1>3, <1>4, <1>5

\* The markers become intents in one transaction.
LEMMA HandOffUpgrades == ASSUME IsStore(disk), NEW p, Open!HandOff(p) PROVE Upgrades(disk, disk')
<1>1. Upgrades(disk, disk)  BY DEF Upgrades
<1>. DEFINE debts == disk.intents \cup disk.marks
            less == disk.tables \ {"app_state_recovery_required"}
            a == [disk EXCEPT !.intents = debts]
            b == [a EXCEPT !.marks = {}]
            c == [b EXCEPT !.tables = less]
<1>2. disk' = disk \/ disk' = [disk EXCEPT !.intents = @ \cup disk.marks, !.marks = {},
                                           !.tables = @ \ {"app_state_recovery_required"}]
  BY DEF Open!HandOff, Open!Commits, Open!Fails
<1>3. a.tables = disk.tables /\ b.tables = disk.tables
  BY FieldSet DEF StoreFields, IsStore
<1>4. disk' = disk \/ disk' = c  BY <1>2, <1>3
<1>5. IsStore(a) /\ \A x \in StoreFields : a[x] = IF x = "intents" THEN debts ELSE disk[x]
  BY FieldSet DEF StoreFields
<1>. HIDE DEF a
<1>6. IsStore(b) /\ \A x \in StoreFields : b[x] = IF x = "marks" THEN {} ELSE a[x]
  BY <1>5, FieldSet DEF StoreFields
<1>. HIDE DEF b
<1>7. IsStore(c) /\ \A x \in StoreFields : c[x] = IF x = "tables" THEN less ELSE b[x]
  BY <1>6, FieldSet DEF StoreFields
<1>. HIDE DEF c
<1>8. c["intents"] = debts /\ c["marks"] = {} /\ c["identity"] = disk["identity"]
  BY <1>5, <1>6, <1>7 DEF StoreFields
<1>9. Upgrades(disk, c)  BY <1>7, <1>8 DEF Upgrades
<1>. QED  BY <1>1, <1>4, <1>9

\* A store that has an identity keeps it.
LEMMA RetrievalUpgrades == ASSUME IsStore(disk), NEW p, Open!RetrievalState(p) PROVE Upgrades(disk, disk')
<1>. DEFINE more == disk.tables \cup {"retrieval_state"}
            same == IF disk.identity = 0 THEN 1 ELSE disk.identity
            a == [disk EXCEPT !.tables = more]
            b == [a EXCEPT !.identity = same]
<1>1. disk' = [disk EXCEPT !.tables = @ \cup {"retrieval_state"}, !.identity = IF @ = 0 THEN 1 ELSE @]
  BY DEF Open!RetrievalState, Open!Commits
<1>2. IsStore(a) /\ \A x \in StoreFields : a[x] = IF x = "tables" THEN more ELSE disk[x]
  BY FieldSet DEF StoreFields
<1>3. disk' = b
  <2>1. a.identity = disk.identity  BY <1>2 DEF StoreFields
  <2>. QED  BY <1>1, <2>1
<1>. HIDE DEF a
<1>4. IsStore(b) /\ \A x \in StoreFields : b[x] = IF x = "identity" THEN same ELSE a[x]
  BY <1>2, FieldSet DEF StoreFields
<1>. HIDE DEF b
<1>5. b["intents"] = disk["intents"] /\ b["marks"] = disk["marks"] /\ b["identity"] = same
  BY <1>2, <1>4 DEF StoreFields
<1>6. Upgrades(disk, b)  BY <1>4, <1>5 DEF Upgrades
<1>. QED  BY <1>3, <1>6

LEMMA OpenStepKeeps ==
  IsStore(disk) /\ [Open!Next]_(Open!vars) => IsStore(disk)' /\ Open!KeepsDebts
<1>. SUFFICES ASSUME IsStore(disk), [Open!Next]_(Open!vars) PROVE Upgrades(disk, disk')
  BY DEF Upgrades, Open!KeepsDebts, IsStore
<1>1. Upgrades(disk, disk)  BY DEF Upgrades
<1>2. CASE UNCHANGED Open!vars  BY <1>1, <1>2 DEF Open!vars
<1>3. ASSUME NEW p, Open!Statement(p) PROVE Upgrades(disk, disk')
  BY <1>3, AnyStatementLeaves, ReconciliationLeaves, SingleStatementLeaves, HandOffUpgrades,
     RetrievalUpgrades, LeavesUpgrades DEF Open!Statement
<1>4. ASSUME NEW p,
             Open!AcquireLock(p) \/ Open!Begin(p) \/ Open!Opened(p) \/ Open!Close(p) \/ Open!Crash(p)
      PROVE  Upgrades(disk, disk')
  BY <1>1, <1>4 DEF Open!AcquireLock, Open!Begin, Open!Opened, Open!Close, Open!Crash
<1>. QED  BY <1>2, <1>3, <1>4 DEF Open!Next

LEMMA OpenStarts == Open!Init => IsStore(disk)
BY OpenAssumption DEF Open!Init, IsStore

\* A recovery an old store owes is not lost on the way from the markers to the intents,
\* and an identity once given stays: whatever is opened, by whom, and wherever opens die.
THEOREM UpgradeKeepsDebtsAlways ==
  (Open!Spec => Open!UpgradeKeepsDebts) /\ (StoreSpec => UpgradeKeepsDebts)
<1>. DEFINE Part == part = "open" => IsStore(disk)
<1>1. StoreInit => Part  BY OpenStarts DEF StoreInit
<1>2. [StoreNext]_partsVars => part' = part /\ (part = "open" => [Open!Next]_(Open!vars))
  <2>. SUFFICES ASSUME [StoreNext]_partsVars
                PROVE  part' = part /\ (part = "open" => [Open!Next]_(Open!vars))
    OBVIOUS
  <2>1. CASE UNCHANGED partsVars  BY <2>1 DEF partsVars, openVars, Open!vars
  <2>2. CASE StoreNext  BY <2>2 DEF StoreNext
  <2>. QED  BY <2>1, <2>2
<1>3. Part /\ [StoreNext]_partsVars => Part' /\ (part = "open" => Open!KeepsDebts)
  BY <1>2, OpenStepKeeps
<1>4. Open!Spec => Open!UpgradeKeepsDebts
  BY OpenStarts, OpenStepKeeps, PTL DEF Open!Spec, Open!UpgradeKeepsDebts
<1>. HIDE DEF Part
<1>5. StoreSpec => UpgradeKeepsDebts  BY <1>1, <1>3, PTL DEF StoreSpec, UpgradeKeepsDebts
<1>. QED  BY <1>4, <1>5

-----------------------------------------------------------------------------
(* Polls: what a tally rests on. *)

PollNames == {"lid", "pn"}
PollKeys == PollNames \X {"lid", "pn", "me"}
Choices == Offered \cup {Option} \cup UNION {b.sel : b \in Ballots}
Votes == [ts : Nat, msg : {b.msg : b \in Ballots} \cup {""}, sel : SUBSET Choices]
PollWorks == [do : {"poll"}, chat : PollNames, read : SUBSET Choices, options : SUBSET Choices]
VoteWorks == [do : {"vote"}, chat : PollNames, ballot : Ballots, sel : SUBSET Choices]
Works == {Poll!Idle} \cup PollWorks \cup VoteWorks

PollTypes ==
  /\ resolved \in BOOLEAN /\ raced \in BOOLEAN
  /\ poll \in [PollNames -> SUBSET Choices]
  /\ votes \in [PollKeys -> Votes]
  /\ gone \subseteq PollNames
  /\ banned \subseteq PollNames \X (Purgeable \cup {"poll"})
  /\ work \in [Poll!Handlers -> Works]
  /\ cast \subseteq Ballots /\ withdrawn \subseteq Ballots

\* The own vote is the command's, events bring the contact's, and what was read of a
\* poll is only added to.
Fits(h, w) ==
  /\ h = "send" => w.do # "poll" /\ (w.do = "vote" => w.ballot.who = "me")
  /\ h # "send" /\ w.do = "vote" => w.ballot.who = "contact"
  /\ w.do = "poll" => w.read \subseteq w.options
WorkIsOwn == \A h \in Poll!Handlers : Fits(h, work[h])

PollPurged(n) == <<n, "poll">> \in banned

\* A purge holds under each name, also while the names are not merged.
PollPurgesHold ==
  \A n \in PollNames :
    /\ PollPurged(n) => poll[n] = {} /\ \A v \in Poll!Voters : votes[<<n, v>>] = Poll!NoVote
    /\ \A v \in Poll!Voters : <<n, votes[<<n, v>>].msg>> \notin banned

\* Where a contact's choice may be read from: under LID it is looked up again when
\* the names are merged, and dropped if the poll was purged there.
Offers(n, sel) ==
  IF n = "pn" THEN sel \subseteq poll["pn"]
  ELSE PollPurged("pn") \/ sel \subseteq poll["lid"] \cup poll["pn"]

ChoicesAreOffered ==
  ~raced =>
    /\ \A n, v \in PollNames : Offers(n, votes[<<n, v>>].sel)
    /\ \A h \in Poll!Handlers \ {"send"} : work[h].do = "vote" =>
         PollPurged("pn") \/ Offers(work[h].chat, work[h].sel)

\* A contact's vote was counted, and the newest counted one is stored under some
\* name or was withdrawn, unless something of it was purged.
VotesWereCast ==
  \A n, v \in PollNames :
    votes[<<n, v>>] = Poll!NoVote \/ \E c \in cast : votes[<<n, v>>].msg = c.msg

Untouched ==
  \A n \in PollNames : ~PollPurged(n) /\ \A c \in cast : <<n, c.msg>> \notin banned

NewestIsKept ==
  Untouched => \A b \in cast :
    \/ \E n, v \in PollNames : votes[<<n, v>>].ts >= b.ts
    \/ \E w \in withdrawn : w.ts >= b.ts

PollInv ==
  PollTypes /\ WorkIsOwn /\ PollPurgesHold /\ ChoicesAreOffered /\ VotesWereCast /\ NewestIsKept
-----------------------------------------------------------------------------
LEMMA PollNamesAre ==
  /\ Poll!Names = PollNames /\ Poll!Keys = PollKeys
  /\ Poll!Voters = {"lid", "pn", "me"}
BY DEF Poll!Names, Poll!Keys, Poll!Voters, PollNames, PollKeys

LEMMA NoVoteFacts ==
  Poll!NoVote \in Votes /\ Poll!NoVote.ts = 0 /\ Poll!NoVote.msg = "" /\ Poll!NoVote.sel = {}
BY DEF Poll!NoVote, Votes

\* The parts of the invariant that are about the votes, the poll and the ledger follow
\* from what a step leaves of them; in flight is checked apart.
LEMMA PollTypesFacts ==
  ASSUME PollTypes
  PROVE  /\ \A n \in PollNames, v \in Poll!Voters : votes[<<n, v>>] \in Votes
         /\ \A n \in PollNames, v \in Poll!Voters : votes[<<n, v>>].ts \in Nat
         /\ \A h \in Poll!Handlers : work[h].do = "poll" => work[h] \in PollWorks
         /\ \A h \in Poll!Handlers : work[h].do = "vote" => work[h] \in VoteWorks
<1>1. \A n \in PollNames, v \in Poll!Voters : <<n, v>> \in PollKeys  BY PollNamesAre DEF PollKeys
<1>2. \A n \in PollNames, v \in Poll!Voters : votes[<<n, v>>] \in Votes  BY <1>1 DEF PollTypes
<1>3. \A h \in Poll!Handlers : work[h] \in Works  BY DEF PollTypes
<1>4. \A w \in Works : (w.do = "poll" => w \in PollWorks) /\ (w.do = "vote" => w \in VoteWorks)
  BY DEF Works, PollWorks, VoteWorks, Poll!Idle
<1>. QED  BY <1>2, <1>3, <1>4 DEF Votes

LEMMA PollStarts == Poll!Init => PollInv
<1>. SUFFICES ASSUME Poll!Init PROVE PollInv  OBVIOUS
<1>1. /\ resolved \in BOOLEAN /\ poll = [n \in PollNames |-> {}] /\ votes = [k \in PollKeys |-> Poll!NoVote]
      /\ gone = {} /\ banned = {} /\ work = [h \in Poll!Handlers |-> Poll!Idle]
      /\ cast = {} /\ withdrawn = {} /\ raced = FALSE
  BY PollNamesAre DEF Poll!Init
<1>2. \A n \in PollNames, v \in Poll!Voters : votes[<<n, v>>] = Poll!NoVote
  BY <1>1, PollNamesAre DEF PollKeys
<1>3. \A h \in Poll!Handlers : work[h].do = "nothing"  BY <1>1 DEF Poll!Idle
<1>4. PollTypes  BY <1>1, NoVoteFacts DEF PollTypes, Works
<1>5. WorkIsOwn  BY <1>3 DEF WorkIsOwn, Fits
<1>6. PollPurgesHold  BY <1>1 DEF PollPurgesHold, PollPurged
<1>7. ChoicesAreOffered
  <2>1. \A n, v \in PollNames : votes[<<n, v>>].sel = {}
    BY <1>2, NoVoteFacts, PollNamesAre DEF PollNames
  <2>. QED  BY <1>3, <2>1 DEF ChoicesAreOffered, Offers
<1>8. VotesWereCast  BY <1>2, PollNamesAre DEF VotesWereCast, PollNames
<1>9. NewestIsKept  BY <1>1 DEF NewestIsKept
<1>. QED  BY <1>4, <1>5, <1>6, <1>7, <1>8, <1>9 DEF PollInv

LEMMA IdleFacts ==
  Poll!Idle \in Works /\ Poll!Idle.do = "nothing" /\ \A h : Fits(h, Poll!Idle)
BY DEF Works, Poll!Idle, Fits

\* A handler's work is replaced by something that is its own, and as good as offered.
LEMMA WorkKeeps ==
  ASSUME PollInv, UNCHANGED <<poll, banned>>, raced => raced', NEW h \in Poll!Handlers, NEW w \in Works,
         work' = [work EXCEPT ![h] = w],
         Fits(h, w),
         h # "send" /\ w.do = "vote" => PollPurged("pn") \/ Offers(w.chat, w.sel)
  PROVE  /\ work' \in [Poll!Handlers -> Works] /\ WorkIsOwn'
         /\ ~raced' => \A i \in Poll!Handlers \ {"send"} : work'[i].do = "vote" =>
              PollPurged("pn")' \/ Offers(work[i].chat, work[i].sel)'
<1>1. work \in [Poll!Handlers -> Works]  BY DEF PollInv, PollTypes
<1>2. work' \in [Poll!Handlers -> Works]  BY <1>1
<1>3. \A i \in Poll!Handlers : work'[i] = IF i = h THEN w ELSE work[i]  BY <1>1
<1>4. WorkIsOwn'
  <2>1. \A i \in Poll!Handlers : Fits(i, work'[i])  BY <1>3 DEF PollInv, WorkIsOwn
  <2>. QED  BY <2>1 DEF WorkIsOwn, Fits, Poll!Handlers
<1>5. ASSUME ~raced', NEW i \in Poll!Handlers \ {"send"}, work'[i].do = "vote"
      PROVE  PollPurged("pn")' \/ Offers(work[i].chat, work[i].sel)'
  <2>1. PollPurged("pn") \/ Offers(work'[i].chat, work'[i].sel)
    BY <1>3, <1>5 DEF PollInv, ChoicesAreOffered
  <2>. QED  BY <2>1 DEF PollPurged, Offers
<1>. QED  BY <1>2, <1>4, <1>5

\* A step that only takes up work.
LEMMA PollLoadKeeps ==
  ASSUME PollInv, UNCHANGED <<resolved, poll, votes, gone, banned, cast, withdrawn, raced>>,
         NEW h \in Poll!Handlers, NEW w \in Works, work' = [work EXCEPT ![h] = w],
         Fits(h, w),
         h # "send" /\ w.do = "vote" => PollPurged("pn") \/ Offers(w.chat, w.sel)
  PROVE  PollInv'
<1>1. /\ work' \in [Poll!Handlers -> Works] /\ WorkIsOwn'
      /\ ~raced' => \A i \in Poll!Handlers \ {"send"} : work'[i].do = "vote" =>
           PollPurged("pn")' \/ Offers(work[i].chat, work[i].sel)'
  BY WorkKeeps
<1>2. PollTypes'  BY <1>1 DEF PollInv, PollTypes
<1>3. PollPurgesHold'  BY DEF PollInv, PollPurgesHold, PollPurged
<1>4. ChoicesAreOffered'
  <2>1. ~raced' => \A n, v \in PollNames : Offers(n, votes[<<n, v>>].sel)'
    BY DEF PollInv, ChoicesAreOffered, Offers, PollPurged
  <2>2. Poll!Handlers' = Poll!Handlers  BY DEF Poll!Handlers
  <2>. QED  BY <1>1, <2>1, <2>2 DEF ChoicesAreOffered
<1>5. VotesWereCast'  BY DEF PollInv, VotesWereCast
<1>6. NewestIsKept'  BY DEF PollInv, NewestIsKept, Untouched, PollPurged
<1>. QED  BY <1>1, <1>2, <1>3, <1>4, <1>5, <1>6 DEF PollInv

LEMMA CanonicalFacts == \A n \in PollNames : Poll!Canonical(n) \in PollNames
BY DEF Poll!Canonical, PollNames

LEMMA PendingKeeps ==
  ASSUME PollInv, UNCHANGED <<resolved, poll, votes, gone, banned, cast, withdrawn, raced>>,
         NEW h \in Poll!Handlers, h # "send", NEW chat \in PollNames, NEW options, options \subseteq Choices,
         Poll!Pending(h, chat, options)
  PROVE  PollInv'
<1>. DEFINE w == [do |-> "poll", chat |-> chat, read |-> poll[chat], options |-> options \cup poll[chat]]
<1>1. work' = [work EXCEPT ![h] = w]  BY DEF Poll!Pending
<1>2. poll[chat] \subseteq Choices  BY DEF PollInv, PollTypes
<1>3. w \in Works  BY <1>2 DEF Works, PollWorks
<1>4. w.do = "poll" /\ Fits(h, w)  BY DEF Fits
<1>. HIDE DEF w
<1>. QED  BY <1>1, <1>3, <1>4, PollLoadKeeps

LEMMA FoundFacts == \A key \in PollNames : Poll!Found(key) \subseteq PollNames
BY PollNamesAre DEF Poll!Found

LEMMA LoadsKeep ==
  ASSUME PollInv, NEW h \in Poll!Handlers, NEW n \in PollNames,
         Poll!CreateLoad(h, n) \/ Poll!AddLoad(h, n) \/ \E b \in Ballots : Poll!VoteLoad(h, b, n)
  PROVE  PollInv'
<1>0. h # "send" /\ UNCHANGED <<resolved, poll, votes, gone, banned, cast, withdrawn, raced>>
  BY DEF Poll!CreateLoad, Poll!AddLoad, Poll!VoteLoad
<1>1. poll \in [PollNames -> SUBSET Choices]  BY DEF PollInv, PollTypes
<1>2. CASE Poll!CreateLoad(h, n)
  <2>1. Poll!Pending(h, Poll!Canonical(n), Offered)  BY <1>2 DEF Poll!CreateLoad
  <2>2. Offered \subseteq Choices  BY DEF Choices
  <2>. QED  BY <1>0, <2>1, <2>2, CanonicalFacts, PendingKeeps
<1>3. CASE Poll!AddLoad(h, n)
  <2>1. PICK c \in Poll!Found(n) : Poll!Pending(h, c, poll[c] \cup {Option})  BY <1>3 DEF Poll!AddLoad
  <2>2. c \in PollNames  BY FoundFacts
  <2>3. poll[c] \cup {Option} \subseteq Choices  BY <1>1, <2>2 DEF Choices
  <2>. QED  BY <1>0, <2>1, <2>2, <2>3, PendingKeeps
<1>4. ASSUME NEW b \in Ballots, Poll!VoteLoad(h, b, n) PROVE PollInv'
  <2>1. PICK c \in Poll!Found(n) :
          work' = [work EXCEPT ![h] = [do |-> "vote", chat |-> c, ballot |-> b, sel |-> b.sel \cap poll[c]]]
    BY <1>4 DEF Poll!VoteLoad
  <2>. DEFINE w == [do |-> "vote", chat |-> c, ballot |-> b, sel |-> b.sel \cap poll[c]]
  <2>2. c \in PollNames  BY FoundFacts
  <2>3. w \in Works  BY <1>1, <2>2 DEF Works, VoteWorks
  <2>4. w.do = "vote" /\ w.chat = c /\ w.sel \subseteq poll[c] /\ w.ballot = b  OBVIOUS
  <2>5. Offers(c, w.sel)  BY <2>2, <2>4 DEF Offers, PollNames
  <2>6. work' = [work EXCEPT ![h] = w]  BY <2>1
  <2>. HIDE DEF w
  <2>7. Fits(h, w)  BY <1>0, <1>4, <2>4 DEF Fits, Poll!VoteLoad
  <2>. QED  BY <1>0, <2>3, <2>4, <2>5, <2>6, <2>7, PollLoadKeeps
<1>. QED  BY <1>2, <1>3, <1>4

LEMMA SendLoadKeeps ==
  ASSUME PollInv, NEW b \in Ballots, NEW n \in PollNames, Poll!SendVoteLoad(b, n)
  PROVE  PollInv'
<1>1. UNCHANGED <<resolved, poll, votes, gone, banned, cast, withdrawn, raced>> /\ b.who = "me"
  BY DEF Poll!SendVoteLoad
<1>. DEFINE known == {c \in IF resolved THEN Poll!Names ELSE {n} : Poll!Visible(c)}
            chat == IF "pn" \in known THEN "pn" ELSE IF known # {} THEN "lid" ELSE Poll!Canonical(n)
            w == [do |-> "vote", chat |-> chat, ballot |-> b, sel |-> b.sel]
<1>2. work' = [work EXCEPT !["send"] = w]  BY DEF Poll!SendVoteLoad
<1>3. chat \in PollNames  BY CanonicalFacts DEF PollNames
<1>. HIDE DEF chat
<1>4. b.sel \subseteq Choices  BY DEF Choices
<1>5. w \in Works  BY <1>3, <1>4 DEF Works, VoteWorks
<1>6. w.do = "vote" /\ w.ballot = b  OBVIOUS
<1>7. "send" \in Poll!Handlers  BY DEF Poll!Handlers
<1>. HIDE DEF w
<1>8. Fits("send", w)  BY <1>1, <1>6 DEF Fits
<1>. QED  BY <1>1, <1>2, <1>5, <1>7, <1>8, PollLoadKeeps

\* The poll's options are written, unless it was purged meanwhile.
LEMMA PollWriteKeeps == ASSUME PollInv, NEW h \in Poll!Handlers, Poll!PollWrite(h) PROVE PollInv'
<1>. DEFINE chat == work[h].chat
            refused == <<chat, "poll">> \in banned
<1>1. /\ work[h].do = "poll" /\ work' = [work EXCEPT ![h] = Poll!Idle]
      /\ poll' = (IF refused THEN poll ELSE [poll EXCEPT ![chat] = work[h].options])
      /\ UNCHANGED <<resolved, votes, gone, banned, cast, withdrawn>>
  BY DEF Poll!PollWrite
<1>2. /\ raced' = (raced \/ (~refused /\ poll[chat] # work[h].read))  BY DEF Poll!PollWrite
<1>3. /\ chat \in PollNames /\ work[h].options \subseteq Choices /\ work[h].read \subseteq work[h].options
      /\ poll \in [PollNames -> SUBSET Choices]
  BY <1>1, PollTypesFacts DEF PollInv, PollTypes, WorkIsOwn, Fits, PollWorks
<1>4. raced \in BOOLEAN /\ work \in [Poll!Handlers -> Works]  BY DEF PollInv, PollTypes
<1>5. raced' \in BOOLEAN /\ (raced => raced')  BY <1>2, <1>4
<1>6. poll' \in [PollNames -> SUBSET Choices]  BY <1>1, <1>3
<1>7. \A i \in Poll!Handlers : work'[i] = IF i = h THEN Poll!Idle ELSE work[i]  BY <1>1, <1>4
<1>8. PollTypes'
  <2>1. work' \in [Poll!Handlers -> Works]  BY <1>1, <1>4, IdleFacts
  <2>. QED  BY <1>1, <1>5, <1>6, <2>1 DEF PollInv, PollTypes
<1>9. WorkIsOwn'
  <2>1. \A i \in Poll!Handlers : Fits(i, work'[i])
    BY <1>7, IdleFacts DEF PollInv, WorkIsOwn, Fits
  <2>. QED  BY <2>1 DEF WorkIsOwn, Fits, Poll!Handlers
<1>10. PollPurgesHold'
  <2>1. \A n \in PollNames : PollPurged(n) => poll'[n] = poll[n]  BY <1>1, <1>3 DEF PollPurged
  <2>. QED  BY <1>1, <2>1 DEF PollInv, PollPurgesHold, PollPurged
<1>11. ChoicesAreOffered'
  <2>. SUFFICES ASSUME ~raced'
                PROVE  /\ \A n, v \in PollNames : Offers(n, votes[<<n, v>>].sel)'
                       /\ \A i \in Poll!Handlers \ {"send"} : work'[i].do = "vote" =>
                            PollPurged("pn")' \/ Offers(work[i].chat, work[i].sel)'
    BY DEF ChoicesAreOffered, Poll!Handlers
  <2>1. /\ \A n, v \in PollNames : Offers(n, votes[<<n, v>>].sel)
        /\ \A i \in Poll!Handlers \ {"send"} : work[i].do = "vote" =>
             PollPurged("pn") \/ Offers(work[i].chat, work[i].sel)
    BY <1>5 DEF PollInv, ChoicesAreOffered
  <2>2. ~refused => poll[chat] = work[h].read  BY <1>2
  <2>3. poll["lid"] \subseteq poll'["lid"] /\ poll["pn"] \subseteq poll'["pn"]
    BY <1>1, <1>3, <2>2 DEF PollNames
  <2>4. ASSUME NEW n, NEW sel, Offers(n, sel)
        PROVE  IF n = "pn" THEN sel \subseteq poll'["pn"]
               ELSE PollPurged("pn") \/ sel \subseteq poll'["lid"] \cup poll'["pn"]
    BY <2>3, <2>4 DEF Offers
  <2>5. PollPurged("pn")' <=> PollPurged("pn")  BY <1>1 DEF PollPurged
  <2>6. \A n, v \in PollNames : Offers(n, votes[<<n, v>>].sel)'
    BY <1>1, <2>1, <2>4, <2>5 DEF Offers
  <2>7. ASSUME NEW i \in Poll!Handlers \ {"send"}, work'[i].do = "vote"
        PROVE  PollPurged("pn")' \/ Offers(work[i].chat, work[i].sel)'
    <3>1. work'[i] = work[i]  BY <1>7, <2>7, IdleFacts
    <3>2. PollPurged("pn") \/ Offers(work[i].chat, work[i].sel)  BY <2>1, <2>7, <3>1
    <3>. QED  BY <2>4, <2>5, <3>1, <3>2 DEF Offers
  <2>. QED  BY <2>6, <2>7
<1>12. VotesWereCast'  BY <1>1 DEF PollInv, VotesWereCast
<1>13. NewestIsKept'  BY <1>1 DEF PollInv, NewestIsKept, Untouched, PollPurged
<1>. QED  BY <1>8, <1>9, <1>10, <1>11, <1>12, <1>13 DEF PollInv

\* A handler is done: a vote is stored under chat and voter, or is removed.
LEMMA VoteStored ==
  ASSUME PollInv, UNCHANGED <<resolved, poll, gone, banned, raced>>,
         NEW h \in Poll!Handlers, work' = [work EXCEPT ![h] = Poll!Idle],
         NEW chat \in PollNames, NEW voter \in Poll!Voters, NEW new \in Votes,
         votes' = [votes EXCEPT ![<<chat, voter>>] = new],
         PollPurged(chat) => new = Poll!NoVote,
         <<chat, new.msg>> \notin banned,
         cast \subseteq cast', cast' \subseteq Ballots, withdrawn' \subseteq Ballots,
         voter \in PollNames => (~raced => Offers(chat, new.sel))
                                /\ (new = Poll!NoVote \/ \E c \in cast' : new.msg = c.msg),
         NewestIsKept'
  PROVE  PollInv'
<1>1. votes \in [PollKeys -> Votes] /\ raced \in BOOLEAN  BY DEF PollInv, PollTypes
<1>2. \A n \in PollNames, v \in Poll!Voters : <<n, v>> \in PollKeys  BY PollNamesAre DEF PollKeys
<1>3. votes' \in [PollKeys -> Votes]  BY <1>1
<1>4. \A n \in PollNames, v \in Poll!Voters :
        votes'[<<n, v>>] = IF n = chat /\ v = voter THEN new ELSE votes[<<n, v>>]
  BY <1>1, <1>2
<1>5. PollNames \subseteq Poll!Voters  BY PollNamesAre DEF PollNames
<1>6. /\ work' \in [Poll!Handlers -> Works] /\ WorkIsOwn'
      /\ ~raced' => \A i \in Poll!Handlers \ {"send"} : work'[i].do = "vote" =>
           PollPurged("pn")' \/ Offers(work[i].chat, work[i].sel)'
  BY IdleFacts, WorkKeeps
<1>7. PollTypes'  BY <1>3, <1>6 DEF PollInv, PollTypes
<1>8. PollPurgesHold'
  <2>1. \A n \in PollNames : PollPurged(n) => poll[n] = {}  BY DEF PollInv, PollPurgesHold
  <2>2. \A n \in PollNames : PollPurged(n) => \A v \in Poll!Voters : votes'[<<n, v>>] = Poll!NoVote
    BY <1>4 DEF PollInv, PollPurgesHold
  <2>3. \A n \in PollNames, v \in Poll!Voters : <<n, votes'[<<n, v>>].msg>> \notin banned
    BY <1>4 DEF PollInv, PollPurgesHold
  <2>4. \A n : PollPurged(n)' <=> PollPurged(n)  BY DEF PollPurged
  <2>. QED  BY <2>1, <2>2, <2>3, <2>4 DEF PollPurgesHold, Poll!Voters, Poll!Names
<1>9. ChoicesAreOffered'
  <2>1. ~raced => \A n, v \in PollNames : Offers(n, votes'[<<n, v>>].sel)
    <3>. SUFFICES ASSUME ~raced, NEW n \in PollNames, NEW v \in PollNames
                  PROVE  Offers(n, votes'[<<n, v>>].sel)
      OBVIOUS
    <3>1. votes'[<<n, v>>] = IF n = chat /\ v = voter THEN new ELSE votes[<<n, v>>]  BY <1>4, <1>5
    <3>2. Offers(n, votes[<<n, v>>].sel)  BY DEF PollInv, ChoicesAreOffered
    <3>. QED  BY <3>1, <3>2
  <2>2. ~raced' => \A n, v \in PollNames : Offers(n, votes[<<n, v>>].sel)'
    BY <2>1 DEF Offers, PollPurged
  <2>. QED  BY <1>6, <2>2 DEF ChoicesAreOffered, Poll!Handlers
<1>10. VotesWereCast'
  <2>. SUFFICES ASSUME NEW n \in PollNames, NEW v \in PollNames
                PROVE  votes'[<<n, v>>] = Poll!NoVote \/ \E c \in cast' : votes'[<<n, v>>].msg = c.msg
    BY DEF VotesWereCast
  <2>1. votes'[<<n, v>>] = IF n = chat /\ v = voter THEN new ELSE votes[<<n, v>>]  BY <1>4, <1>5
  <2>2. votes[<<n, v>>] = Poll!NoVote \/ \E c \in cast' : votes[<<n, v>>].msg = c.msg
    BY DEF PollInv, VotesWereCast
  <2>. QED  BY <2>1, <2>2
<1>. QED  BY <1>6, <1>7, <1>8, <1>9, <1>10 DEF PollInv

\* Nothing is stored: the ballot is refused, or an own vote.
LEMMA NewestStays ==
  ASSUME NewestIsKept, UNCHANGED <<banned, cast>>, withdrawn \subseteq withdrawn',
         \A n, v \in PollNames : votes'[<<n, v>>] = votes[<<n, v>>]
  PROVE  NewestIsKept'
BY DEF NewestIsKept, Untouched, PollPurged

LEMMA VoteDropped ==
  ASSUME PollInv, UNCHANGED <<resolved, poll, votes, gone, banned, cast, withdrawn, raced>>,
         NEW h \in Poll!Handlers, work' = [work EXCEPT ![h] = Poll!Idle]
  PROVE  PollInv'
BY IdleFacts, PollLoadKeeps

LEMMA VoteWriteKeeps ==
  ASSUME PollInv, NEW h \in Poll!Handlers, NEW n \in PollNames, Poll!VoteWrite(h, n)
  PROVE  PollInv'
<1>. DEFINE w == work[h]  voter == Poll!Canonical(n)  chat == w.chat  b == w.ballot
            old == votes[<<chat, voter>>]
            new == [ts |-> b.ts, msg |-> b.msg, sel |-> w.sel]
<1>1. /\ w.do = "vote" /\ h # "send" /\ work' = [work EXCEPT ![h] = Poll!Idle]
      /\ UNCHANGED <<resolved, poll, gone, banned, raced>>
      /\ IF b.sel = {}
         THEN /\ votes' = (IF old.ts <= b.ts THEN [votes EXCEPT ![<<chat, voter>>] = Poll!NoVote] ELSE votes)
              /\ withdrawn' = withdrawn \cup {b}
              /\ cast' = cast
         ELSE Poll!UpsertVote(chat, voter, b, w.sel) /\ withdrawn' = withdrawn
  BY DEF Poll!VoteWrite, Poll!DeleteVote
<1>2. w \in VoteWorks  BY <1>1, PollTypesFacts DEF PollInv
<1>3. chat \in PollNames /\ b \in Ballots /\ w.sel \subseteq Choices  BY <1>2 DEF VoteWorks
<1>4. voter \in PollNames /\ voter \in Poll!Voters  BY CanonicalFacts, PollNamesAre DEF PollNames
<1>5. b.ts \in Nat  BY <1>3, PollAssumption
<1>6. \A m, v \in PollNames : votes[<<m, v>>].ts \in Nat
  BY PollTypesFacts, PollNamesAre DEF PollInv, PollNames
<1>7. votes \in [PollKeys -> Votes] /\ cast \subseteq Ballots /\ withdrawn \subseteq Ballots
  BY DEF PollInv, PollTypes
<1>8. \A m, v \in PollNames : <<m, v>> \in PollKeys  BY DEF PollNames, PollKeys
<1>9. ~raced => PollPurged("pn") \/ Offers(chat, w.sel)
  BY <1>1 DEF PollInv, ChoicesAreOffered
<1>10. b.who = "contact"  BY <1>1 DEF PollInv, WorkIsOwn, Fits
<1>. HIDE DEF w, voter
<1>11. \A x : \A m, v \in PollNames :
         [votes EXCEPT ![<<chat, voter>>] = x][<<m, v>>]
           = IF m = chat /\ v = voter THEN x ELSE votes[<<m, v>>]
  BY <1>4, <1>7, <1>8
<1>12. /\ old \in Votes /\ (PollPurged(chat) => old = Poll!NoVote) /\ <<chat, old.msg>> \notin banned
       /\ ~raced => Offers(chat, old.sel)
       /\ old = Poll!NoVote \/ \E c \in cast : old.msg = c.msg
  BY <1>3, <1>4, <1>7, <1>8 DEF PollInv, PollPurgesHold, ChoicesAreOffered, VotesWereCast
<1>13. CASE b.sel = {} /\ old.ts <= b.ts
  <2>1. votes' = [votes EXCEPT ![<<chat, voter>>] = Poll!NoVote]
        /\ withdrawn' = withdrawn \cup {b} /\ cast' = cast
    BY <1>1, <1>13
  <2>2. NewestIsKept'
    <3>. SUFFICES ASSUME Untouched', NEW d \in cast'
                  PROVE  \/ \E m, v \in PollNames : votes'[<<m, v>>].ts >= d.ts
                         \/ \E x \in withdrawn' : x.ts >= d.ts
      BY DEF NewestIsKept
    <3>1. Untouched  BY <1>1, <2>1 DEF Untouched, PollPurged
    <3>2. d.ts \in Nat  BY <1>7, <2>1, PollAssumption
    <3>3. CASE \E x \in withdrawn : x.ts >= d.ts  BY <2>1, <3>3
    <3>4. CASE \E m, v \in PollNames : votes[<<m, v>>].ts >= d.ts
      <4>1. PICK m \in PollNames, v \in PollNames : votes[<<m, v>>].ts >= d.ts  BY <3>4
      <4>2. CASE m = chat /\ v = voter
        <5>1. b.ts >= d.ts  BY <1>5, <1>6, <1>13, <3>2, <4>1, <4>2
        <5>. QED  BY <2>1, <5>1
      <4>3. CASE ~(m = chat /\ v = voter)
        <5>1. votes'[<<m, v>>] = votes[<<m, v>>]  BY <1>11, <2>1, <4>3
        <5>. QED  BY <4>1, <5>1
      <4>. QED  BY <4>2, <4>3
    <3>. QED  BY <2>1, <3>1, <3>3, <3>4 DEF PollInv, NewestIsKept
  <2>3. <<chat, "">> \notin banned
    <3>1. banned \subseteq PollNames \X (Purgeable \cup {"poll"})  BY DEF PollInv, PollTypes
    <3>. QED  BY <3>1, PollAssumption
  <2>4. Offers(chat, {})  BY DEF Offers
  <2>5. withdrawn' \subseteq Ballots  BY <1>3, <1>7, <2>1
  <2>. QED  BY <1>1, <1>3, <1>4, <1>7, <2>1, <2>2, <2>3, <2>4, <2>5, NoVoteFacts, VoteStored
<1>14. CASE b.sel = {} /\ ~(old.ts <= b.ts)
  <2>1. votes' = votes /\ withdrawn' = withdrawn \cup {b} /\ cast' = cast  BY <1>1, <1>14
  <2>2. NewestIsKept'  BY <1>1, <2>1, NewestStays DEF PollInv
  <2>3. votes' = [votes EXCEPT ![<<chat, voter>>] = old]  BY <1>3, <1>4, <1>7, <1>8, <2>1
  <2>4. withdrawn' \subseteq Ballots  BY <1>3, <1>7, <2>1
  <2>. HIDE DEF chat, b, old
  <2>. QED  BY <1>1, <1>3, <1>4, <1>7, <1>12, <2>1, <2>2, <2>3, <2>4, VoteStored
<1>15. CASE b.sel # {} /\ Poll!Refused(chat, b.msg)
  <2>1. UNCHANGED <<votes, cast, withdrawn>>  BY <1>1, <1>15 DEF Poll!UpsertVote
  <2>. QED  BY <1>1, <2>1, VoteDropped
<1>16. CASE b.sel # {} /\ ~Poll!Refused(chat, b.msg)
  <2>. DEFINE kept == IF old.ts > b.ts THEN old ELSE new
  <2>1. /\ votes' = (IF old.ts > b.ts THEN votes ELSE [votes EXCEPT ![<<chat, voter>>] = new])
        /\ cast' = (IF b.who = "me" THEN cast ELSE cast \cup {b}) /\ withdrawn' = withdrawn
    BY <1>1, <1>16 DEF Poll!UpsertVote, Poll!Counted
  <2>2. ~PollPurged(chat) /\ <<chat, b.msg>> \notin banned  BY <1>16 DEF Poll!Refused, PollPurged
  <2>3. votes' = [votes EXCEPT ![<<chat, voter>>] = kept]
    <3>1. votes = [votes EXCEPT ![<<chat, voter>>] = old]  BY <1>3, <1>4, <1>7, <1>8
    <3>. QED  BY <2>1, <3>1
  <2>4. new \in Votes /\ new.ts = b.ts /\ new.msg = b.msg /\ new.sel = w.sel
    BY <1>3, <1>5 DEF Votes
  <2>5. old.ts \in Nat  BY <1>3, <1>4, <1>6
  <2>. HIDE DEF new, chat, b, old
  <2>6. kept.ts \in Nat /\ kept.ts >= b.ts /\ kept.ts >= old.ts  BY <1>5, <2>4, <2>5
  <2>7. kept \in Votes /\ (PollPurged(chat) => kept = Poll!NoVote) /\ <<chat, kept.msg>> \notin banned
    BY <1>12, <2>2, <2>4
  <2>8. ~raced => Offers(chat, kept.sel)
    <3>1. ~raced => Offers(chat, new.sel)  BY <1>3, <1>9, <2>2, <2>4 DEF Offers, PollNames
    <3>. QED  BY <1>12, <3>1
  <2>. DEFINE Stored(v) == v = Poll!NoVote \/ \E c \in cast' : v.msg = c.msg
  <2>9. Stored(kept)
    <3>1. Stored(new)  BY <1>10, <2>1, <2>4
    <3>2. Stored(old)  BY <1>12, <2>1
    <3>. QED  BY <3>1, <3>2
  <2>10. cast \subseteq cast' /\ cast' \subseteq Ballots /\ cast' \subseteq cast \cup {b}  BY <1>3, <1>7, <2>1
  <2>. HIDE DEF kept
  <2>11. NewestIsKept'
    <3>. SUFFICES ASSUME Untouched', NEW d \in cast'
                  PROVE  \/ \E m, v \in PollNames : votes'[<<m, v>>].ts >= d.ts
                         \/ \E x \in withdrawn' : x.ts >= d.ts
      BY DEF NewestIsKept
    <3>1. Untouched  BY <1>1, <2>10 DEF Untouched, PollPurged
    <3>2. d.ts \in Nat  BY <2>10, PollAssumption
    <3>3. votes'[<<chat, voter>>] = kept  BY <1>3, <1>4, <1>11, <2>3
    <3>4. CASE d = b  BY <1>3, <1>4, <2>6, <3>3, <3>4
    <3>5. CASE d \in cast
      <4>1. CASE \E x \in withdrawn : x.ts >= d.ts  BY <2>1, <4>1
      <4>2. CASE \E m, v \in PollNames : votes[<<m, v>>].ts >= d.ts
        <5>1. PICK m \in PollNames, v \in PollNames : votes[<<m, v>>].ts >= d.ts  BY <4>2
        <5>2. CASE m = chat /\ v = voter
          <6>1. old.ts >= d.ts  BY <5>1, <5>2 DEF old
          <6>2. kept.ts >= d.ts  BY <2>5, <2>6, <3>2, <6>1
          <6>. QED  BY <1>3, <1>4, <3>3, <6>2
        <5>3. CASE ~(m = chat /\ v = voter)
          <6>1. votes'[<<m, v>>] = votes[<<m, v>>]  BY <1>11, <2>3, <5>3
          <6>. QED  BY <5>1, <6>1
        <5>. QED  BY <5>2, <5>3
      <4>. QED  BY <3>1, <3>5, <4>1, <4>2 DEF PollInv, NewestIsKept
    <3>. QED  BY <2>10, <3>4, <3>5
  <2>12. withdrawn' \subseteq Ballots  BY <1>7, <2>1
  <2>. QED  BY <1>1, <1>3, <1>4, <2>3, <2>7, <2>8, <2>9, <2>10, <2>11, <2>12, VoteStored
<1>. QED  BY <1>13, <1>14, <1>15, <1>16

LEMMA SendWriteKeeps == ASSUME PollInv, Poll!SendVoteWrite PROVE PollInv'
<1>. DEFINE w == work["send"]  chat == w.chat  b == w.ballot
            old == votes[<<chat, "me">>]
            new == [ts |-> b.ts, msg |-> b.msg, sel |-> w.sel]
            kept == IF old.ts > b.ts THEN old ELSE new
<1>1. /\ w.do = "vote" /\ work' = [work EXCEPT !["send"] = Poll!Idle]
      /\ UNCHANGED <<resolved, poll, gone, banned, withdrawn, raced>>
      /\ Poll!UpsertVote(chat, "me", b, w.sel)
  BY DEF Poll!SendVoteWrite
<1>2. "send" \in Poll!Handlers  BY DEF Poll!Handlers
<1>3. w \in VoteWorks /\ b.who = "me"  BY <1>1, <1>2, PollTypesFacts DEF PollInv, WorkIsOwn, Fits
<1>4. chat \in PollNames /\ b \in Ballots /\ w.sel \subseteq Choices  BY <1>3 DEF VoteWorks
<1>5. "me" \in Poll!Voters /\ "me" \notin PollNames  BY PollNamesAre DEF PollNames
<1>6. votes \in [PollKeys -> Votes] /\ cast \subseteq Ballots /\ withdrawn \subseteq Ballots
  BY DEF PollInv, PollTypes
<1>7. \A m \in PollNames, v \in Poll!Voters : <<m, v>> \in PollKeys  BY PollNamesAre DEF PollKeys
<1>8. new \in Votes /\ new.msg = b.msg  BY <1>4, PollAssumption DEF Votes
<1>9. old \in Votes /\ (PollPurged(chat) => old = Poll!NoVote) /\ <<chat, old.msg>> \notin banned
  BY <1>4, <1>5, <1>6, <1>7 DEF PollInv, PollPurgesHold
<1>10. CASE Poll!Refused(chat, b.msg)
  <2>1. UNCHANGED <<votes, cast>>  BY <1>1, <1>10 DEF Poll!UpsertVote
  <2>. QED  BY <1>1, <1>2, <2>1, VoteDropped
<1>11. CASE ~Poll!Refused(chat, b.msg)
  <2>1. /\ votes' = (IF old.ts > b.ts THEN votes ELSE [votes EXCEPT ![<<chat, "me">>] = new])
        /\ cast' = cast
    BY <1>1, <1>3, <1>11 DEF Poll!UpsertVote, Poll!Counted
  <2>2. ~PollPurged(chat) /\ <<chat, b.msg>> \notin banned  BY <1>11 DEF Poll!Refused, PollPurged
  <2>. HIDE DEF chat, b, new
  <2>3. votes' = [votes EXCEPT ![<<chat, "me">>] = kept]
    <3>1. votes = [votes EXCEPT ![<<chat, "me">>] = old]  BY <1>4, <1>5, <1>6, <1>7
    <3>. QED  BY <2>1, <3>1
  <2>. HIDE DEF old
  <2>4. kept \in Votes /\ (PollPurged(chat) => kept = Poll!NoVote) /\ <<chat, kept.msg>> \notin banned
    BY <1>8, <1>9, <2>2
  <2>. HIDE DEF kept, w
  <2>5. \A m, v \in PollNames : votes'[<<m, v>>] = votes[<<m, v>>]
    <3>1. \A m, v \in PollNames : <<m, v>> \in PollKeys /\ v # "me"  BY <1>5 DEF PollNames, PollKeys
    <3>. QED  BY <1>6, <2>3, <3>1
  <2>6. NewestIsKept'
    <3>1. NewestIsKept  BY DEF PollInv
    <3>. QED  BY <1>1, <2>1, <2>5, <3>1, NewestStays
  <2>. QED  BY <1>1, <1>2, <1>4, <1>5, <1>6, <2>1, <2>3, <2>4, <2>6, VoteStored
<1>. QED  BY <1>10, <1>11

LEMMA NamesMove ==
  ASSUME PollInv, Poll!Resolve \/ \E n \in PollNames : Poll!RevokePoll(n)
  PROVE  PollInv'
<1>1. UNCHANGED <<poll, votes, banned, work, cast, withdrawn, raced>>
  BY DEF Poll!Resolve, Poll!RevokePoll
<1>2. resolved' \in BOOLEAN /\ gone' \subseteq PollNames
  BY CanonicalFacts DEF Poll!Resolve, Poll!RevokePoll, PollInv, PollTypes
<1>3. PollTypes'  BY <1>1, <1>2 DEF PollInv, PollTypes
<1>4. WorkIsOwn' /\ PollPurgesHold'
  BY <1>1 DEF PollInv, WorkIsOwn, Fits, Poll!Handlers, PollPurgesHold, PollPurged, Poll!Voters, Poll!Names
<1>5. ChoicesAreOffered'
  <2>1. ChoicesAreOffered  BY DEF PollInv
  <2>2. ~raced' => \A n, v \in PollNames : Offers(n, votes[<<n, v>>].sel)'
    BY <1>1, <2>1 DEF ChoicesAreOffered, Offers, PollPurged
  <2>3. ~raced' => \A h \in Poll!Handlers \ {"send"} : work'[h].do = "vote" =>
          PollPurged("pn")' \/ Offers(work[h].chat, work[h].sel)'
    BY <1>1, <2>1 DEF ChoicesAreOffered, Offers, PollPurged
  <2>. QED  BY <2>2, <2>3 DEF ChoicesAreOffered, Poll!Handlers
<1>6. VotesWereCast' /\ NewestIsKept'
  BY <1>1 DEF PollInv, VotesWereCast, NewestIsKept, Untouched, PollPurged
<1>. QED  BY <1>3, <1>4, <1>5, <1>6 DEF PollInv

\* Under the lock nothing is in flight.
LEMMA QuietFacts ==
  ASSUME Poll!Quiet, work' = work
  PROVE  /\ \A h \in Poll!Handlers : work'[h].do = "nothing"
         /\ WorkIsOwn => WorkIsOwn'
<1>1. \A h \in Poll!Handlers : work'[h].do = "nothing"  BY IdleFacts DEF Poll!Quiet
<1>2. WorkIsOwn => WorkIsOwn'  BY DEF WorkIsOwn, Fits, Poll!Handlers
<1>. QED  BY <1>1, <1>2

LEMMA CastStays ==
  ASSUME VotesWereCast, cast' = cast,
         \A n, v \in PollNames : votes'[<<n, v>>] = Poll!NoVote \/ votes'[<<n, v>>] = votes[<<n, v>>]
  PROVE  VotesWereCast'
<1>. SUFFICES ASSUME NEW n \in PollNames, NEW v \in PollNames
              PROVE  votes'[<<n, v>>] = Poll!NoVote \/ \E c \in cast' : votes'[<<n, v>>].msg = c.msg
  BY DEF VotesWereCast
<1>1. votes[<<n, v>>] = Poll!NoVote \/ \E c \in cast : votes[<<n, v>>].msg = c.msg  BY DEF VotesWereCast
<1>. QED  BY <1>1

LEMMA NothingBanned ==
  ASSUME PollInv
  PROVE  \A n : <<n, "">> \notin banned
<1>1. banned \subseteq PollNames \X (Purgeable \cup {"poll"})  BY DEF PollInv, PollTypes
<1>. QED  BY <1>1, PollAssumption

LEMMA PurgePollKeeps == ASSUME PollInv, NEW n \in PollNames, Poll!PurgePoll(n) PROVE PollInv'
<1>1. /\ Poll!Quiet /\ work' = work /\ banned' = banned \cup {<<n, "poll">>}
      /\ poll' = [poll EXCEPT ![n] = {}]
      /\ votes' = [k \in PollKeys |-> IF k[1] = n THEN Poll!NoVote ELSE votes[k]]
      /\ UNCHANGED <<resolved, gone, cast, withdrawn, raced>>
  BY PollNamesAre DEF Poll!PurgePoll
<1>2. \A m \in PollNames, v \in Poll!Voters :
        votes'[<<m, v>>] = IF m = n THEN Poll!NoVote ELSE votes[<<m, v>>]
  BY <1>1, PollNamesAre DEF PollKeys
<1>3. poll \in [PollNames -> SUBSET Choices] /\ votes \in [PollKeys -> Votes]
      /\ banned \subseteq PollNames \X (Purgeable \cup {"poll"})
  BY DEF PollInv, PollTypes
<1>4. \A m \in PollNames : poll'[m] = IF m = n THEN {} ELSE poll[m]  BY <1>1, <1>3
<1>5. \A m : PollPurged(m)' <=> PollPurged(m) \/ m = n  BY <1>1 DEF PollPurged
<1>6. PollTypes'
  <2>1. poll' \in [PollNames -> SUBSET Choices]  BY <1>1, <1>3
  <2>2. votes' \in [PollKeys -> Votes]  BY <1>1, <1>3, NoVoteFacts
  <2>3. banned' \subseteq PollNames \X (Purgeable \cup {"poll"})  BY <1>1, <1>3
  <2>. QED  BY <1>1, <2>1, <2>2, <2>3 DEF PollInv, PollTypes, Poll!Handlers
<1>7. WorkIsOwn'  BY <1>1, QuietFacts DEF PollInv
<1>8. PollPurgesHold'
  <2>1. ASSUME NEW m \in PollNames, PollPurged(m)'
        PROVE  poll'[m] = {} /\ \A v \in Poll!Voters : votes'[<<m, v>>] = Poll!NoVote
    BY <1>2, <1>4, <1>5, <2>1 DEF PollInv, PollPurgesHold
  <2>2. ASSUME NEW m \in PollNames, NEW v \in Poll!Voters PROVE <<m, votes'[<<m, v>>].msg>> \notin banned'
    <3>1. CASE m = n
      <4>1. votes'[<<m, v>>].msg = ""  BY <1>2, <3>1, NoVoteFacts
      <4>2. <<m, "">> \notin banned  BY NothingBanned
      <4>3. <<m, "">> # <<n, "poll">>  OBVIOUS
      <4>4. <<m, "">> \notin banned'  BY <1>1, <4>2, <4>3
      <4>. QED  BY <4>1, <4>4
    <3>2. CASE m # n
      <4>1. votes'[<<m, v>>] = votes[<<m, v>>]  BY <1>2, <3>2
      <4>2. <<m, votes[<<m, v>>].msg>> \notin banned  BY DEF PollInv, PollPurgesHold
      <4>. QED  BY <1>1, <3>2, <4>1, <4>2
    <3>. QED  BY <3>1, <3>2
  <2>. QED  BY <2>1, <2>2 DEF PollPurgesHold, Poll!Voters, Poll!Names
<1>9. ChoicesAreOffered'
  <2>1. ASSUME ~raced, NEW m \in PollNames, NEW v \in PollNames
        PROVE  Offers(m, votes[<<m, v>>].sel)'
    <3>1. v \in Poll!Voters  BY PollNamesAre DEF PollNames
    <3>2. CASE m = n
      <4>1. votes'[<<m, v>>].sel = {}  BY <1>2, <3>1, <3>2, NoVoteFacts
      <4>. QED  BY <4>1 DEF Offers
    <3>3. CASE m # n
      <4>1. votes'[<<m, v>>] = votes[<<m, v>>]  BY <1>2, <3>1, <3>3
      <4>2. Offers(m, votes[<<m, v>>].sel)  BY <2>1 DEF PollInv, ChoicesAreOffered
      <4>. QED  BY <1>4, <1>5, <3>3, <4>1, <4>2 DEF Offers, PollNames
    <3>. QED  BY <3>2, <3>3
  <2>2. \A h \in Poll!Handlers : work'[h].do # "vote"  BY <1>1, QuietFacts
  <2>. QED  BY <1>1, <2>1, <2>2 DEF ChoicesAreOffered, Poll!Handlers
<1>10. VotesWereCast'
  <2>1. \A m, v \in PollNames : votes'[<<m, v>>] = Poll!NoVote \/ votes'[<<m, v>>] = votes[<<m, v>>]
    BY <1>2, PollNamesAre DEF PollNames
  <2>. QED  BY <1>1, <2>1, CastStays DEF PollInv
<1>11. NewestIsKept'  BY <1>5 DEF NewestIsKept, Untouched
<1>. QED  BY <1>6, <1>7, <1>8, <1>9, <1>10, <1>11 DEF PollInv

LEMMA PurgeVoteKeeps ==
  ASSUME PollInv, NEW n \in PollNames, NEW m \in Purgeable, Poll!PurgeVote(n, m)
  PROVE  PollInv'
<1>1. /\ Poll!Quiet /\ work' = work /\ banned' = banned \cup {<<n, m>>}
      /\ votes' = [k \in PollKeys |-> IF k[1] = n /\ votes[k].msg = m THEN Poll!NoVote ELSE votes[k]]
      /\ UNCHANGED <<resolved, poll, gone, cast, withdrawn, raced>>
  BY PollNamesAre DEF Poll!PurgeVote
<1>2. \A x \in PollNames, v \in Poll!Voters :
        votes'[<<x, v>>] = IF x = n /\ votes[<<x, v>>].msg = m THEN Poll!NoVote ELSE votes[<<x, v>>]
  BY <1>1, PollNamesAre DEF PollKeys
<1>3. votes \in [PollKeys -> Votes] /\ banned \subseteq PollNames \X (Purgeable \cup {"poll"})
  BY DEF PollInv, PollTypes
<1>4. m # "poll" /\ m # ""  BY PollAssumption
<1>5. \A x : PollPurged(x)' <=> PollPurged(x)  BY <1>1, <1>4 DEF PollPurged
<1>6. PollTypes'
  <2>1. votes' \in [PollKeys -> Votes]  BY <1>1, <1>3, NoVoteFacts
  <2>2. banned' \subseteq PollNames \X (Purgeable \cup {"poll"})  BY <1>1, <1>3
  <2>. QED  BY <1>1, <2>1, <2>2 DEF PollInv, PollTypes, Poll!Handlers
<1>7. WorkIsOwn'  BY <1>1, QuietFacts DEF PollInv
<1>8. PollPurgesHold'
  <2>1. ASSUME NEW x \in PollNames, PollPurged(x)'
        PROVE  poll'[x] = {} /\ \A v \in Poll!Voters : votes'[<<x, v>>] = Poll!NoVote
    BY <1>1, <1>2, <1>5, <2>1 DEF PollInv, PollPurgesHold
  <2>2. ASSUME NEW x \in PollNames, NEW v \in Poll!Voters PROVE <<x, votes'[<<x, v>>].msg>> \notin banned'
    <3>1. CASE x = n /\ votes[<<x, v>>].msg = m
      <4>1. votes'[<<x, v>>].msg = ""  BY <1>2, <3>1, NoVoteFacts
      <4>2. <<x, "">> \notin banned  BY NothingBanned
      <4>3. <<x, "">> # <<n, m>>  BY <1>4
      <4>4. <<x, "">> \notin banned'  BY <1>1, <4>2, <4>3
      <4>. QED  BY <4>1, <4>4
    <3>2. CASE ~(x = n /\ votes[<<x, v>>].msg = m)
      <4>1. votes'[<<x, v>>] = votes[<<x, v>>]  BY <1>2, <3>2
      <4>2. <<x, votes[<<x, v>>].msg>> \notin banned  BY DEF PollInv, PollPurgesHold
      <4>. QED  BY <1>1, <3>2, <4>1, <4>2
    <3>. QED  BY <3>1, <3>2
  <2>. QED  BY <2>1, <2>2 DEF PollPurgesHold, Poll!Voters, Poll!Names
<1>9. \A x, v \in PollNames : votes'[<<x, v>>] = Poll!NoVote \/ votes'[<<x, v>>] = votes[<<x, v>>]
  BY <1>2, PollNamesAre DEF PollNames
<1>10. ChoicesAreOffered'
  <2>1. ASSUME ~raced, NEW x \in PollNames, NEW v \in PollNames
        PROVE  Offers(x, votes[<<x, v>>].sel)'
    <3>1. Offers(x, votes[<<x, v>>].sel)  BY <2>1 DEF PollInv, ChoicesAreOffered
    <3>2. votes'[<<x, v>>].sel = {} \/ votes'[<<x, v>>] = votes[<<x, v>>]  BY <1>9, NoVoteFacts
    <3>. QED  BY <1>1, <1>5, <3>1, <3>2 DEF Offers
  <2>2. \A h \in Poll!Handlers : work'[h].do # "vote"  BY <1>1, QuietFacts
  <2>. QED  BY <1>1, <2>1, <2>2 DEF ChoicesAreOffered, Poll!Handlers
<1>11. VotesWereCast'  BY <1>1, <1>9, CastStays DEF PollInv
<1>12. NewestIsKept'
  <2>. SUFFICES ASSUME Untouched' PROVE NewestIsKept'  BY DEF NewestIsKept
  <2>1. ASSUME NEW x \in PollNames, NEW v \in PollNames, x = n, votes[<<x, v>>].msg = m PROVE FALSE
    <3>1. votes[<<x, v>>] # Poll!NoVote  BY <1>4, <2>1, NoVoteFacts
    <3>2. PICK c \in cast : votes[<<x, v>>].msg = c.msg  BY <3>1 DEF PollInv, VotesWereCast
    <3>3. <<n, c.msg>> \in banned'  BY <1>1, <2>1, <3>2
    <3>. QED  BY <1>1, <3>3 DEF Untouched
  <2>2. PollNames \subseteq Poll!Voters  BY PollNamesAre DEF PollNames
  <2>3. \A x, v \in PollNames : votes'[<<x, v>>] = votes[<<x, v>>]  BY <1>2, <2>1, <2>2
  <2>4. Untouched  BY <1>1, <1>5 DEF Untouched
  <2>5. \A b \in cast : \/ \E x, v \in PollNames : votes[<<x, v>>].ts >= b.ts
                        \/ \E w \in withdrawn : w.ts >= b.ts
    BY <2>4 DEF PollInv, NewestIsKept
  <2>. QED  BY <1>1, <2>3, <2>5 DEF NewestIsKept
<1>. QED  BY <1>6, <1>7, <1>8, <1>10, <1>11, <1>12 DEF PollInv

\* Of some stored votes one is the newest.
LEMMA NewestFacts ==
  ASSUME PollTypes, NEW S, S \subseteq PollKeys, S # {}
  PROVE  Poll!Newest(S) \in S /\ \A j \in S : votes[j].ts <= votes[Poll!Newest(S)].ts
<1>. DEFINE T == {votes[j].ts : j \in S}
            t(n, v) == votes[<<n, v>>].ts
            b == t("lid", "lid") + t("lid", "pn") + t("lid", "me") + t("pn", "lid") + t("pn", "pn") + t("pn", "me")
<1>1. \A n \in {"lid", "pn"}, v \in {"lid", "pn", "me"} : t(n, v) \in Nat
  BY PollTypesFacts, PollNamesAre DEF PollNames
<1>2. \A j \in PollKeys : \E n \in {"lid", "pn"}, v \in {"lid", "pn", "me"} : j = <<n, v>>
  BY DEF PollKeys, PollNames
<1>3. \A j \in S : votes[j].ts \in Nat
  <2>1. \A j \in S : \E n \in {"lid", "pn"}, v \in {"lid", "pn", "me"} : j = <<n, v>>  BY <1>2
  <2>. QED  BY <1>1, <2>1
<1>4. b \in Nat /\ \A n \in {"lid", "pn"}, v \in {"lid", "pn", "me"} : t(n, v) <= b
  <2>1. /\ t("lid", "lid") \in Nat /\ t("lid", "pn") \in Nat /\ t("lid", "me") \in Nat
        /\ t("pn", "lid") \in Nat /\ t("pn", "pn") \in Nat /\ t("pn", "me") \in Nat
    BY <1>1
  <2>. HIDE DEF t
  <2>2. /\ t("lid", "lid") <= b /\ t("lid", "pn") <= b /\ t("lid", "me") <= b
        /\ t("pn", "lid") <= b /\ t("pn", "pn") <= b /\ t("pn", "me") <= b /\ b \in Nat
    BY <2>1
  <2>. HIDE DEF b
  <2>. QED  BY <2>2
<1>. HIDE DEF b
<1>5. \A j \in S : votes[j].ts <= b
  <2>1. \A j \in S : \E n \in {"lid", "pn"}, v \in {"lid", "pn", "me"} : j = <<n, v>>  BY <1>2
  <2>. QED  BY <1>4, <2>1
<1>6. T \subseteq 0 .. b /\ T # {}  BY <1>3, <1>4, <1>5
<1>7. \E x \in T : \A y \in T : y <= x
  <2>. HIDE DEF T
  <2>. QED  BY <1>4, <1>6, MaxFacts
<1>8. \E k \in S : \A j \in S : votes[j].ts <= votes[k].ts  BY <1>7
<1>. QED  BY <1>8, Zenon DEF Poll!Newest

\* What the merge leaves under a key: nothing, or a vote that is not purged and is the
\* newest of those that have the key now.
LEMMA PollMergedFacts ==
  ASSUME PollInv, Poll!MigrateLIDToPN, NEW n \in PollNames, NEW v \in Poll!Voters
  PROVE  /\ \/ votes'[<<n, v>>] = Poll!NoVote
            \/ /\ n = "pn" /\ <<n, votes'[<<n, v>>].msg>> \notin banned' /\ <<n, "poll">> \notin banned'
               /\ \E m \in PollNames, u \in Poll!Voters :
                    Poll!ToPN(u) = v /\ votes'[<<n, v>>] = votes[<<m, u>>]
         /\ Untouched' /\ n = "pn" /\ v = "pn" =>
              \A m, u \in PollNames :
                votes[<<m, u>>] = Poll!NoVote \/ votes[<<m, u>>].ts <= votes'[<<n, v>>].ts
<1>. DEFINE from == {j \in PollKeys : votes[j] # Poll!NoVote /\ <<Poll!ToPN(j[1]), Poll!ToPN(j[2])>> = <<n, v>>}
            w == IF from = {} THEN Poll!NoVote ELSE votes[Poll!Newest(from)]
<1>1. <<n, v>> \in PollKeys  BY PollNamesAre DEF PollKeys
<1>2. votes' = Poll!VotesMerged(banned') /\ cast' = cast  BY DEF Poll!MigrateLIDToPN
<1>3. votes'[<<n, v>>] = IF {<<n, "poll">>, <<n, w.msg>>} \cap banned' = {} THEN w ELSE Poll!NoVote
  BY <1>1, <1>2, PollNamesAre DEF Poll!VotesMerged
<1>4. from # {} => Poll!Newest(from) \in from /\ \A j \in from : votes[j].ts <= votes[Poll!Newest(from)].ts
  <2>1. from \subseteq PollKeys  OBVIOUS
  <2>2. PollTypes  BY DEF PollInv
  <2>. HIDE DEF from
  <2>. QED  BY <2>1, <2>2, NewestFacts
<1>5. \A j \in from : /\ \E m \in PollNames, u \in Poll!Voters : j = <<m, u>> /\ Poll!ToPN(u) = v
                      /\ n = "pn"
  <2>. SUFFICES ASSUME NEW j \in from
                PROVE  /\ \E m \in PollNames, u \in Poll!Voters : j = <<m, u>> /\ Poll!ToPN(u) = v
                       /\ n = "pn"
    OBVIOUS
  <2>1. PICK m \in PollNames, u \in Poll!Voters : j = <<m, u>>  BY PollNamesAre DEF PollKeys
  <2>2. Poll!ToPN(m) = n /\ Poll!ToPN(u) = v  BY <2>1
  <2>3. Poll!ToPN(m) = "pn"  BY DEF Poll!ToPN, PollNames
  <2>. QED  BY <2>1, <2>2, <2>3
<1>6. \/ votes'[<<n, v>>] = Poll!NoVote
      \/ /\ n = "pn" /\ <<n, votes'[<<n, v>>].msg>> \notin banned' /\ <<n, "poll">> \notin banned'
         /\ \E m \in PollNames, u \in Poll!Voters :
              Poll!ToPN(u) = v /\ votes'[<<n, v>>] = votes[<<m, u>>]
  <2>. HIDE DEF from
  <2>. QED  BY <1>3, <1>4, <1>5
<1>7. ASSUME Untouched', n = "pn", v = "pn", NEW m \in PollNames, NEW u \in PollNames,
             votes[<<m, u>>] # Poll!NoVote
      PROVE  votes[<<m, u>>].ts <= votes'[<<n, v>>].ts
  <2>1. Poll!ToPN(m) = "pn" /\ Poll!ToPN(u) = "pn"  BY DEF Poll!ToPN, PollNames
  <2>2. <<m, u>> \in PollKeys  BY DEF PollKeys, PollNames
  <2>3. <<m, u>> \in from  BY <1>7, <2>1, <2>2
  <2>4. PICK x \in PollNames, y \in Poll!Voters : Poll!Newest(from) = <<x, y>> /\ Poll!ToPN(y) = v
    <3>. HIDE DEF from
    <3>. QED  BY <1>4, <1>5, <2>3
  <2>5. y \in PollNames  BY <1>7, <2>4, PollNamesAre DEF Poll!ToPN, PollNames
  <2>6. votes[<<x, y>>] # Poll!NoVote
    <3>1. Poll!Newest(from) \in from  BY <1>4, <2>3
    <3>. QED  BY <2>4, <3>1
  <2>7. PICK c \in cast : votes[<<x, y>>].msg = c.msg  BY <2>5, <2>6 DEF PollInv, VotesWereCast
  <2>8. <<"pn", c.msg>> \notin banned' /\ <<"pn", "poll">> \notin banned'
    BY <1>2, <1>7 DEF Untouched, PollPurged
  <2>9. w = votes[<<x, y>>]  BY <2>3, <2>4
  <2>10. votes'[<<n, v>>] = w  BY <1>3, <1>7, <2>7, <2>8, <2>9
  <2>11. votes[<<m, u>>].ts <= votes[Poll!Newest(from)].ts  BY <1>4, <2>3
  <2>. QED  BY <2>4, <2>9, <2>10, <2>11
<1>. QED  BY <1>6, <1>7

LEMMA MergePollsKeeps == ASSUME PollInv, Poll!MigrateLIDToPN PROVE PollInv'
<1>1. /\ banned' = {<<Poll!ToPN(x[1]), x[2]>> : x \in banned}
      /\ gone' = {Poll!ToPN(n) : n \in gone}
      /\ poll' = [lid |-> {}, pn |-> IF <<"pn", "poll">> \in banned' THEN {} ELSE poll["lid"] \cup poll["pn"]]
      /\ votes' = Poll!VotesMerged(banned')
      /\ UNCHANGED <<resolved, work, cast, withdrawn, raced>>
  BY DEF Poll!MigrateLIDToPN, Poll!OptionsMerged
<1>2. /\ poll \in [PollNames -> SUBSET Choices] /\ votes \in [PollKeys -> Votes]
      /\ banned \subseteq PollNames \X (Purgeable \cup {"poll"}) /\ gone \subseteq PollNames
  BY DEF PollInv, PollTypes
<1>3. \A n \in PollNames : Poll!ToPN(n) = "pn"  BY DEF Poll!ToPN, PollNames
<1>4. /\ banned' \subseteq {"pn"} \X (Purgeable \cup {"poll"})
      /\ \A n \in PollNames : \A m : <<n, m>> \in banned => <<"pn", m>> \in banned'
  <2>1. \A x \in banned : x[1] \in PollNames /\ x[2] \in Purgeable \cup {"poll"} /\ x = <<x[1], x[2]>>  BY <1>2
  <2>2. \A x \in banned : Poll!ToPN(x[1]) = "pn"  BY <1>3, <2>1
  <2>3. banned' \subseteq {"pn"} \X (Purgeable \cup {"poll"})  BY <1>1, <2>1, <2>2
  <2>4. ASSUME NEW n \in PollNames, NEW m, <<n, m>> \in banned PROVE <<"pn", m>> \in banned'
    BY <1>1, <1>3, <2>4
  <2>. QED  BY <2>3, <2>4
<1>5. \A n \in PollNames, v \in Poll!Voters :
        \/ votes'[<<n, v>>] = Poll!NoVote
        \/ /\ n = "pn" /\ <<n, votes'[<<n, v>>].msg>> \notin banned' /\ <<n, "poll">> \notin banned'
           /\ \E m \in PollNames, u \in Poll!Voters :
                Poll!ToPN(u) = v /\ votes'[<<n, v>>] = votes[<<m, u>>]
  BY PollMergedFacts
<1>6. poll'["lid"] = {} /\ poll'["pn"] = IF <<"pn", "poll">> \in banned' THEN {} ELSE poll["lid"] \cup poll["pn"]
  BY <1>1
<1>7. \A n : PollPurged(n)' <=> <<n, "poll">> \in banned'  BY DEF PollPurged
<1>8. PollTypes'
  <2>1. poll' \in [PollNames -> SUBSET Choices]
    <3>. DEFINE merged == IF <<"pn", "poll">> \in banned' THEN {} ELSE poll["lid"] \cup poll["pn"]
    <3>1. \A x, y : [lid |-> x, pn |-> y] = [n \in PollNames |-> IF n = "lid" THEN x ELSE y]  BY DEF PollNames
    <3>2. poll["lid"] \subseteq Choices /\ poll["pn"] \subseteq Choices  BY <1>2 DEF PollNames
    <3>3. merged \subseteq Choices  BY <3>2
    <3>4. poll' = [lid |-> {}, pn |-> merged]  BY <1>1
    <3>. HIDE DEF merged
    <3>5. poll' = [n \in PollNames |-> IF n = "lid" THEN {} ELSE merged]  BY <3>1, <3>4
    <3>. QED  BY <3>3, <3>5
  <2>2. votes' \in [PollKeys -> Votes]
    <3>1. \A n \in PollNames, v \in Poll!Voters : votes'[<<n, v>>] \in Votes
      <4>1. \A m \in PollNames, u \in Poll!Voters : votes[<<m, u>>] \in Votes
        BY PollTypesFacts DEF PollInv
      <4>. QED  BY <1>5, <4>1, NoVoteFacts
    <3>2. \A k \in PollKeys : \E n \in PollNames, v \in Poll!Voters : k = <<n, v>>
      BY PollNamesAre DEF PollKeys
    <3>3. votes' = [k \in PollKeys |-> votes'[k]]  BY <1>1, PollNamesAre DEF Poll!VotesMerged
    <3>4. \A k \in PollKeys : votes'[k] \in Votes  BY <3>1, <3>2
    <3>. QED  BY <3>3, <3>4
  <2>3. banned' \subseteq PollNames \X (Purgeable \cup {"poll"})  BY <1>4 DEF PollNames
  <2>4. gone' \subseteq PollNames  BY <1>1, <1>2, <1>3 DEF PollNames
  <2>. QED  BY <1>1, <2>1, <2>2, <2>3, <2>4 DEF PollInv, PollTypes, Poll!Handlers
<1>9. WorkIsOwn'  BY <1>1 DEF PollInv, WorkIsOwn, Fits, Poll!Handlers
<1>10. PollPurgesHold'
  <2>1. ASSUME NEW n \in PollNames, PollPurged(n)'
        PROVE  poll'[n] = {} /\ \A v \in Poll!Voters : votes'[<<n, v>>] = Poll!NoVote
    <3>1. n = "pn" /\ <<"pn", "poll">> \in banned'  BY <1>4, <1>7, <2>1
    <3>. QED  BY <1>5, <1>6, <3>1
  <2>2. ASSUME NEW n \in PollNames, NEW v \in Poll!Voters PROVE <<n, votes'[<<n, v>>].msg>> \notin banned'
    <3>1. \A m : <<m, "">> \notin banned'  BY <1>4, PollAssumption
    <3>2. CASE votes'[<<n, v>>] = Poll!NoVote
      <4>1. votes'[<<n, v>>].msg = ""  BY <3>2, NoVoteFacts
      <4>. QED  BY <3>1, <4>1
    <3>. QED  BY <1>5, <3>2
  <2>. QED  BY <2>1, <2>2 DEF PollPurgesHold, Poll!Voters, Poll!Names
\* What was chosen under either name is among the merged options.
<1>11. ASSUME NEW n \in PollNames, NEW sel, PollPurged("pn") \/ Offers(n, sel)
       PROVE  PollPurged("pn")' \/ sel \subseteq poll'["pn"]
  <2>1. PollPurged("pn") => PollPurged("pn")'  BY <1>4 DEF PollPurged, PollNames
  <2>2. ~PollPurged("pn")' => poll'["pn"] = poll["lid"] \cup poll["pn"]  BY <1>6, <1>7
  <2>. QED  BY <1>11, <2>1, <2>2 DEF Offers
<1>12. ChoicesAreOffered'
  <2>1. ASSUME ~raced, NEW n \in PollNames, NEW v \in PollNames
        PROVE  Offers(n, votes[<<n, v>>].sel)'
    <3>1. v \in Poll!Voters /\ v # "me"  BY PollNamesAre DEF PollNames
    <3>2. CASE votes'[<<n, v>>] = Poll!NoVote
      <4>1. votes'[<<n, v>>].sel = {}  BY <3>2, NoVoteFacts
      <4>. QED  BY <4>1 DEF Offers
    <3>3. CASE votes'[<<n, v>>] # Poll!NoVote
      <4>1. n = "pn" /\ ~PollPurged("pn")'  BY <1>5, <1>7, <3>1, <3>3
      <4>2. PICK m \in PollNames, u \in Poll!Voters :
              Poll!ToPN(u) = v /\ votes'[<<n, v>>] = votes[<<m, u>>]
        BY <1>5, <3>1, <3>3
      <4>3. u \in PollNames  BY <3>1, <4>2, PollNamesAre DEF Poll!ToPN, PollNames
      <4>4. Offers(m, votes[<<m, u>>].sel)  BY <2>1, <4>3 DEF PollInv, ChoicesAreOffered
      <4>5. votes'[<<n, v>>].sel \subseteq poll'["pn"]  BY <1>11, <4>1, <4>2, <4>4
      <4>. QED  BY <4>1, <4>5 DEF Offers
    <3>. QED  BY <3>2, <3>3
  <2>2. ASSUME ~raced, NEW h \in Poll!Handlers \ {"send"}, work'[h].do = "vote"
        PROVE  PollPurged("pn")' \/ Offers(work[h].chat, work[h].sel)'
    <3>1. work[h].do = "vote" /\ work' = work  BY <1>1, <2>2
    <3>2. PollPurged("pn") \/ Offers(work[h].chat, work[h].sel)
      BY <2>2, <3>1 DEF PollInv, ChoicesAreOffered
    <3>3. work[h].chat \in PollNames  BY <3>1, PollTypesFacts DEF PollInv, VoteWorks
    <3>4. PollPurged("pn")' \/ work[h].sel \subseteq poll'["pn"]  BY <1>11, <3>2, <3>3
    <3>. QED  BY <3>1, <3>4 DEF Offers
  <2>. QED  BY <1>1, <2>1, <2>2 DEF ChoicesAreOffered, Poll!Handlers
<1>13. VotesWereCast'
  <2>. SUFFICES ASSUME NEW n \in PollNames, NEW v \in PollNames, votes'[<<n, v>>] # Poll!NoVote
                PROVE  \E c \in cast : votes'[<<n, v>>].msg = c.msg
    BY <1>1 DEF VotesWereCast
  <2>1. v \in Poll!Voters /\ v # "me"  BY PollNamesAre DEF PollNames
  <2>2. PICK m \in PollNames, u \in Poll!Voters :
          Poll!ToPN(u) = v /\ votes'[<<n, v>>] = votes[<<m, u>>]
    BY <1>5, <2>1
  <2>3. u \in PollNames  BY <2>1, <2>2, PollNamesAre DEF Poll!ToPN, PollNames
  <2>. QED  BY <2>2, <2>3 DEF PollInv, VotesWereCast
<1>14. NewestIsKept'
  <2>. SUFFICES ASSUME Untouched', NEW b \in cast
                PROVE  \/ \E m, v \in PollNames : votes'[<<m, v>>].ts >= b.ts
                       \/ \E x \in withdrawn : x.ts >= b.ts
    BY <1>1 DEF NewestIsKept
  <2>1. Untouched
    <3>1. \A n \in PollNames : \A m : <<n, m>> \in banned => <<"pn", m>> \in banned'  BY <1>4
    <3>2. "pn" \in PollNames  BY DEF PollNames
    <3>. QED  BY <1>1, <3>1, <3>2 DEF Untouched, PollPurged
  <2>2. CASE \E x \in withdrawn : x.ts >= b.ts  BY <2>2
  <2>3. CASE \E m, v \in PollNames : votes[<<m, v>>].ts >= b.ts
    <3>1. PICK m \in PollNames, v \in PollNames : votes[<<m, v>>].ts >= b.ts  BY <2>3
    <3>2. "pn" \in PollNames /\ "pn" \in Poll!Voters  BY PollNamesAre DEF PollNames
    <3>3. votes[<<m, v>>] = Poll!NoVote \/ votes[<<m, v>>].ts <= votes'[<<"pn", "pn">>].ts
      BY <3>2, PollMergedFacts
    <3>4. v \in Poll!Voters  BY PollNamesAre DEF PollNames
    <3>5. /\ votes[<<m, v>>].ts \in Nat /\ votes'[<<"pn", "pn">>].ts \in Nat /\ b.ts \in Nat
      <4>1. PollTypes' /\ <<"pn", "pn">> \in PollKeys  BY <1>8 DEF PollKeys, PollNames
      <4>2. votes'[<<"pn", "pn">>] \in Votes  BY <4>1 DEF PollTypes
      <4>3. cast \subseteq Ballots  BY DEF PollInv, PollTypes
      <4>. QED  BY <3>4, <4>2, <4>3, PollTypesFacts, PollAssumption DEF PollInv, Votes
    <3>. DEFINE before == votes[<<m, v>>].ts  after == votes'[<<"pn", "pn">>].ts
    <3>6. before = 0 \/ before <= after  BY <3>3, NoVoteFacts
    <3>7. before \in Nat /\ after \in Nat /\ b.ts \in Nat /\ before >= b.ts  BY <3>1, <3>5
    <3>. HIDE DEF before, after
    <3>8. after >= b.ts  BY <3>6, <3>7
    <3>9. votes'[<<"pn", "pn">>].ts >= b.ts  BY <3>8 DEF after
    <3>. QED  BY <3>2, <3>9
  <2>. QED  BY <2>1, <2>2, <2>3 DEF PollInv, NewestIsKept
<1>. QED  BY <1>8, <1>9, <1>10, <1>12, <1>13, <1>14 DEF PollInv

LEMMA PollStepKeeps == PollInv /\ [Poll!Next]_(Poll!vars) => PollInv'
<1>. SUFFICES ASSUME PollInv, [Poll!Next]_(Poll!vars) PROVE PollInv'
  OBVIOUS
<1>1. CASE UNCHANGED Poll!vars
  <2>1. UNCHANGED <<resolved, poll, votes, gone, banned, work, cast, withdrawn, raced>>
    BY <1>1 DEF Poll!vars
  <2>2. PollTypes' /\ WorkIsOwn'  BY <2>1 DEF PollInv, PollTypes, WorkIsOwn, Fits, Poll!Handlers
  <2>3. PollPurgesHold'  BY <2>1 DEF PollInv, PollPurgesHold, PollPurged, Poll!Voters, Poll!Names
  <2>4. ChoicesAreOffered'
    BY <2>1 DEF PollInv, ChoicesAreOffered, Offers, PollPurged, Poll!Handlers
  <2>5. VotesWereCast' /\ NewestIsKept'
    BY <2>1 DEF PollInv, VotesWereCast, NewestIsKept, Untouched, PollPurged
  <2>. QED  BY <2>2, <2>3, <2>4, <2>5 DEF PollInv
<1>2. ASSUME NEW h \in Poll!Handlers, NEW n \in PollNames,
             Poll!CreateLoad(h, n) \/ Poll!AddLoad(h, n) \/ \E b \in Ballots : Poll!VoteLoad(h, b, n)
      PROVE  PollInv'
  BY <1>2, LoadsKeep
<1>3. ASSUME NEW h \in Poll!Handlers, NEW n \in PollNames, Poll!VoteWrite(h, n) PROVE PollInv'
  BY <1>3, VoteWriteKeeps
<1>4. CASE Poll!SendVoteWrite  BY <1>4, SendWriteKeeps
<1>5. ASSUME NEW h \in Poll!Handlers, Poll!PollWrite(h) PROVE PollInv'  BY <1>5, PollWriteKeeps
<1>6. ASSUME NEW b \in Ballots, NEW n \in PollNames, Poll!SendVoteLoad(b, n) PROVE PollInv'
  BY <1>6, SendLoadKeeps
<1>7. ASSUME NEW n \in PollNames, Poll!PurgePoll(n) PROVE PollInv'  BY <1>7, PurgePollKeeps
<1>8. ASSUME NEW n \in PollNames, NEW m \in Purgeable, Poll!PurgeVote(n, m) PROVE PollInv'
  BY <1>8, PurgeVoteKeeps
<1>9. CASE Poll!Resolve \/ \E n \in PollNames : Poll!RevokePoll(n)  BY <1>9, NamesMove
<1>10. CASE Poll!MigrateLIDToPN  BY <1>10, MergePollsKeeps
<1>. QED
  BY <1>1, <1>2, <1>3, <1>4, <1>5, <1>6, <1>7, <1>8, <1>9, <1>10, PollNamesAre, Zenon DEF Poll!Next

\* What is kept of the polls is what a tally promises, once the names are merged.
LEMMA PollSaysSo == PollInv => Poll!TallyIsRight
<1>. SUFFICES ASSUME PollInv PROVE Poll!TallyIsRight
  OBVIOUS
<1>1. ASSUME Poll!Settled
      PROVE  /\ \A m : <<"lid", m>> \notin banned
             /\ \A n, v \in PollNames : <<n, v>> # <<"pn", "pn">> => votes[<<n, v>>] = Poll!NoVote
  <2>1. ASSUME NEW m PROVE <<"lid", m>> \notin banned
    <3>1. <<"lid", m>>[1] = "lid"  OBVIOUS
    <3>. QED  BY <1>1, <3>1 DEF Poll!Settled, Poll!LidKnown
  <2>2. ASSUME NEW n \in PollNames, NEW v \in PollNames, <<n, v>> # <<"pn", "pn">>
        PROVE  votes[<<n, v>>] = Poll!NoVote
    <3>. DEFINE k == <<n, v>>
    <3>1. k \in Poll!Keys  BY PollNamesAre DEF PollKeys, PollNames
    <3>2. "lid" \in {k[1], k[2]}  BY <2>2 DEF PollNames
    <3>. HIDE DEF k
    <3>3. votes[k] = Poll!NoVote  BY <1>1, <3>1, <3>2 DEF Poll!Settled, Poll!LidKnown
    <3>. QED  BY <3>3 DEF k
  <2>. QED  BY <2>1, <2>2
<1>2. Poll!NewestBallotCounts
  <2>. SUFFICES ASSUME Poll!Settled, Poll!Visible("pn"), NEW b \in cast,
                       \A c \in cast : <<"pn", c.msg>> \notin banned, Poll!Shown.ts < b.ts
                PROVE  \E x \in withdrawn : x.ts >= b.ts
    BY DEF Poll!NewestBallotCounts
  <2>1. Untouched  BY <1>1 DEF Untouched, PollPurged, PollNames, Poll!Visible
  <2>2. ASSUME NEW n \in PollNames, NEW v \in PollNames, votes[<<n, v>>].ts >= b.ts PROVE FALSE
    <3>. DEFINE found == votes[<<n, v>>].ts  shown == votes[<<"pn", "pn">>].ts
    <3>1. b.ts \in Nat
      <4>1. cast \subseteq Ballots  BY DEF PollInv, PollTypes
      <4>. QED  BY <4>1, PollAssumption
    <3>2. "pn" \in PollNames /\ PollNames \subseteq Poll!Voters  BY PollNamesAre DEF PollNames
    <3>3. found \in Nat /\ shown \in Nat  BY <3>2, PollTypesFacts DEF PollInv
    <3>4. found = 0 \/ found = shown
      <4>1. CASE n = "pn" /\ v = "pn"  BY <4>1
      <4>2. CASE ~(n = "pn" /\ v = "pn")
        <5>1. <<n, v>> # <<"pn", "pn">>  BY <4>2
        <5>. QED  BY <1>1, <5>1, NoVoteFacts
      <4>. QED  BY <4>1, <4>2
    <3>5. shown < b.ts /\ found >= b.ts  BY <2>2 DEF Poll!Shown
    <3>. HIDE DEF found, shown
    <3>. QED  BY <3>1, <3>3, <3>4, <3>5
  <2>. QED  BY <2>1, <2>2 DEF PollInv, NewestIsKept
<1>3. Poll!SelectedAreOptions
  <2>1. ~raced => votes[<<"pn", "pn">>].sel \subseteq poll["pn"]
    BY DEF PollInv, ChoicesAreOffered, Offers, PollNames
  <2>. QED  BY <2>1 DEF Poll!SelectedAreOptions
<1>4. Poll!PurgedStaysGone
  <2>1. "pn" \in PollNames  BY DEF PollNames
  <2>. QED  BY <2>1 DEF PollInv, PollPurgesHold, PollPurged, Poll!PurgedStaysGone
<1>. QED  BY <1>2, <1>3, <1>4 DEF Poll!TallyIsRight

LEMMA PollPartSteps ==
  [StoreNext]_partsVars => part' = part /\ (part = "polls" => [Poll!Next]_(Poll!vars))
<1>. SUFFICES ASSUME [StoreNext]_partsVars
              PROVE  part' = part /\ (part = "polls" => [Poll!Next]_(Poll!vars))
  OBVIOUS
<1>1. CASE UNCHANGED partsVars  BY <1>1 DEF partsVars, pollVars, Poll!vars
<1>2. CASE StoreNext  BY <1>2 DEF StoreNext
<1>. QED  BY <1>1, <1>2

\* A poll's tally is right: the contact's newest ballot counts, with options the poll
\* has, and what was purged is not counted; in its own module, and as the store's part.
THEOREM TallyIsRightAlways == (Poll!Spec => []Poll!TallyIsRight) /\ (StoreSpec => []TallyIsRight)
<1>. DEFINE Part == part = "polls" => PollInv
<1>1. StoreInit => Part  BY PollStarts DEF StoreInit
<1>2. Part /\ [StoreNext]_partsVars => Part'  BY PollPartSteps, PollStepKeeps
<1>3. Part => TallyIsRight  BY PollSaysSo DEF TallyIsRight
<1>4. Poll!Spec => []Poll!TallyIsRight  BY PollStarts, PollStepKeeps, PollSaysSo, PTL DEF Poll!Spec
<1>. HIDE DEF Part
<1>5. StoreSpec => []TallyIsRight  BY <1>1, <1>2, <1>3, PTL DEF StoreSpec
<1>. QED  BY <1>4, <1>5

=============================================================================
