-------------------------------- MODULE Polls --------------------------------
(***************************************************************************)
(* One poll of a chat with one contact, and the ballots cast in it.  The   *)
(* chat and the contact have two names, the hidden LID and the phone       *)
(* number PN, until MigrateLIDToPN merges the rows.  Live events, history  *)
(* and own votes are handled by goroutines of their own: each reads the    *)
(* poll, works (a vote is decrypted, or sent) and then writes.             *)
(*                                                                         *)
(* A ballot that selects nothing withdraws the voter's vote: it deletes    *)
(* the row and leaves nothing that a later, older ballot could lose to.    *)
(***************************************************************************)
EXTENDS Integers, FiniteSets

CONSTANTS Events,     \* goroutines that handle events: live ones, history
          Offered,    \* the options the poll is created with
          Option,     \* an option somebody adds
          Ballots,    \* what is cast: [who, msg, ts, sel]
          Purgeable,  \* bound: the vote messages that may be purged
          MaxPurges   \* bound: purges at one time

Names == {"lid", "pn"}
Voters == Names \cup {"me"}
Handlers == Events \cup {"send"}

VARIABLES
  resolved,  \* whatsmeow knows which phone number the LID belongs to
  poll,      \* polls: per name, the options ({}: no row)
  votes,     \* poll_votes: per chat name and voter
  gone,      \* the names under which the poll's message is a tombstone
  ledger,    \* message_payload_purges: <<name, message>>
  work,      \* per handler: what it is about to write
  cast,      \* history: ballots of the contact written as votes
  withdrawn, \* history: withdrawals carried out
  raced      \* history: a poll was written from a read that was outdated

vars == <<resolved, poll, votes, gone, ledger, work, cast, withdrawn, raced>>

NoVote == [ts |-> 0, msg |-> "", sel |-> {}]
Idle == [do |-> "nothing"]
Keys == Names \X Voters

Init ==
  /\ resolved \in BOOLEAN
  /\ poll = [n \in Names |-> {}]
  /\ votes = [k \in Keys |-> NoVote]
  /\ gone = {} /\ ledger = {}
  /\ work = [h \in Handlers |-> Idle]
  /\ cast = {} /\ withdrawn = {} /\ raced = FALSE

-----------------------------------------------------------------------------
(* Names. *)

\* canonicalStoreJID, ResolveLIDToPN: the LID only while it is not resolved.
Canonical(n) == IF resolved THEN "pn" ELSE n

\* GetPoll: hidden with its message, and once it is purged.
Visible(n) == poll[n] # {} /\ n \notin gone /\ <<n, "poll">> \notin ledger
\* FindPollByMsgID, after GetPoll found nothing under the key of the event.
Found(key) == IF Visible(key) THEN {key} ELSE {n \in Names : Visible(n)}

-----------------------------------------------------------------------------
(* Writing a poll: UpsertPoll reads the options, merges and writes. *)

Pending(h, chat, options) ==
  work' = [work EXCEPT ![h] = [do |-> "poll", chat |-> chat, read |-> poll[chat],
                               options |-> options \cup poll[chat]]]

\* A poll arrives; the own one is stored in the same way after it was sent.
CreateLoad(h, n) ==
  /\ work[h] = Idle /\ h # "send"
  /\ Pending(h, Canonical(n), Offered)
  /\ UNCHANGED <<resolved, poll, votes, gone, ledger, cast, withdrawn, raced>>

\* handlePollAddOption, for a poll that is known.
AddLoad(h, key) ==
  /\ work[h] = Idle /\ h # "send"
  /\ \E n \in Found(key) : Option \notin poll[n] /\ Pending(h, n, poll[n] \cup {Option})
  /\ UNCHANGED <<resolved, poll, votes, gone, ledger, cast, withdrawn, raced>>

PollWrite(h) ==
  /\ work[h].do = "poll"
  /\ LET chat == work[h].chat
         refused == <<chat, "poll">> \in ledger
     IN /\ poll' = IF refused THEN poll ELSE [poll EXCEPT ![chat] = work[h].options]
        /\ raced' = (raced \/ (~refused /\ poll[chat] # work[h].read))
  /\ work' = [work EXCEPT ![h] = Idle]
  /\ UNCHANGED <<resolved, votes, gone, ledger, cast, withdrawn>>

-----------------------------------------------------------------------------
(* Ballots. *)

\* handlePollVote: the poll is looked up under the chat of its key, and the
\* hashes are matched with its options; without the poll the vote is dropped.
\* (Bound: an own vote comes from the command, not from another device.)
VoteLoad(h, b, key) ==
  /\ work[h] = Idle /\ h # "send" /\ b.who = "contact"
  /\ \E c \in Found(key) :
       work' = [work EXCEPT ![h] = [do |-> "vote", chat |-> c, ballot |-> b, sel |-> b.sel \cap poll[c]]]
  /\ UNCHANGED <<resolved, poll, votes, gone, ledger, cast, withdrawn, raced>>

\* buildPollVoteInfo: the options are checked where the poll is known; a vote
\* in an unknown poll goes out all the same.  (Every vote is a message of its own:
\* none is sent that a row has.)
SendVoteLoad(b, n) ==
  /\ work["send"] = Idle
  /\ b.who = "me" /\ b.sel # {}
  /\ \A c \in Names : votes[<<c, "me">>].msg # b.msg
  /\ LET known == {c \in IF resolved THEN Names ELSE {n} : Visible(c)}
         chat == IF "pn" \in known THEN "pn" ELSE IF known # {} THEN "lid" ELSE Canonical(n)
     IN /\ known # {} => b.sel \subseteq poll[chat]
        /\ work' = [work EXCEPT !["send"] = [do |-> "vote", chat |-> chat, ballot |-> b, sel |-> b.sel]]
  /\ UNCHANGED <<resolved, poll, votes, gone, ledger, cast, withdrawn, raced>>

Refused(chat, msg) == ledger \cap {<<chat, "poll">>, <<chat, msg>>} # {}

Counted(b) == cast' = IF b.who = "me" THEN cast ELSE cast \cup {b}

\* UpsertPollVote.
UpsertVote(chat, voter, b, sel) ==
  IF Refused(chat, b.msg) THEN UNCHANGED <<votes, cast>>
  ELSE /\ votes' = IF votes[<<chat, voter>>].ts > b.ts THEN votes
                   ELSE [votes EXCEPT ![<<chat, voter>>] = [ts |-> b.ts, msg |-> b.msg, sel |-> sel]]
       /\ Counted(b)

\* DeletePollVote.
DeleteVote(chat, voter, b) ==
  votes' = IF votes[<<chat, voter>>].ts <= b.ts THEN [votes EXCEPT ![<<chat, voter>>] = NoVote] ELSE votes

\* The voter is the sender of the event, under the name it came with.
VoteWrite(h, n) ==
  /\ work[h].do = "vote" /\ h # "send"
  /\ LET w == work[h]
         voter == Canonical(n)
     IN IF w.ballot.sel = {}
        THEN /\ DeleteVote(w.chat, voter, w.ballot)
             /\ withdrawn' = withdrawn \cup {w.ballot}
             /\ UNCHANGED cast
        ELSE UpsertVote(w.chat, voter, w.ballot, w.sel) /\ UNCHANGED withdrawn
  /\ work' = [work EXCEPT ![h] = Idle]
  /\ UNCHANGED <<resolved, poll, gone, ledger, raced>>

\* persistOutboundVote, after the vote went out.
SendVoteWrite ==
  /\ work["send"].do = "vote"
  /\ UpsertVote(work["send"].chat, "me", work["send"].ballot, work["send"].sel)
  /\ work' = [work EXCEPT !["send"] = Idle]
  /\ UNCHANGED <<resolved, poll, gone, ledger, withdrawn, raced>>

-----------------------------------------------------------------------------
(* The poll's message, and the identity. *)

RevokePoll(n) ==
  /\ gone' = gone \cup {Canonical(n)}
  /\ UNCHANGED <<resolved, poll, votes, ledger, work, cast, withdrawn, raced>>

Resolve ==
  /\ ~resolved
  /\ resolved' = TRUE
  /\ UNCHANGED <<poll, votes, gone, ledger, work, cast, withdrawn, raced>>

ToPN(n) == IF n = "lid" THEN "pn" ELSE n
LidKnown == \/ poll["lid"] # {} \/ \E k \in Keys : "lid" \in {k[1], k[2]} /\ votes[k] # NoVote
            \/ "lid" \in gone \/ \E x \in ledger : x[1] = "lid"

\* mergedPollOptionsJSONTx.
OptionsMerged == poll["lid"] \cup poll["pn"]

\* Mutant: the row that is moved wins.
Latest(S) == CHOOSE k \in S : \A j \in S : k[1] = "lid" \/ j[1] # "lid"
\* ON CONFLICT ... WHERE excluded.ts >= poll_votes.ts, over the moved rows.
Newest(S) == CHOOSE k \in S : \A j \in S : votes[j].ts <= votes[k].ts

VotesMerged(purges) ==
  [k \in Keys |->
     LET from == {j \in Keys : votes[j] # NoVote /\ <<ToPN(j[1]), ToPN(j[2])>> = k}
         v == IF from = {} THEN NoVote ELSE votes[Newest(from)]
     IN IF {<<k[1], "poll">>, <<k[1], v.msg>>} \cap purges = {} THEN v ELSE NoVote]

MigrateLIDToPN ==
  /\ resolved /\ LidKnown
  /\ ledger' = {<<ToPN(x[1]), x[2]>> : x \in ledger}
  /\ gone' = {ToPN(n) : n \in gone}
  /\ poll' = [lid |-> {}, pn |-> IF <<"pn", "poll">> \in ledger' THEN {} ELSE OptionsMerged]
  /\ votes' = VotesMerged(ledger')
  /\ UNCHANGED <<resolved, work, cast, withdrawn, raced>>

-----------------------------------------------------------------------------
(* Maintenance under the store lock: no handler is at work. *)

Quiet == \A h \in Handlers : work[h] = Idle

PurgePoll(n) ==
  /\ Quiet /\ n \in gone /\ Cardinality(ledger) < MaxPurges
  /\ ledger' = ledger \cup {<<n, "poll">>}
  /\ poll' = [poll EXCEPT ![n] = {}]
  /\ votes' = [k \in Keys |-> IF k[1] = n THEN NoVote ELSE votes[k]]
  /\ UNCHANGED <<resolved, gone, work, cast, withdrawn, raced>>

\* The message of a vote is purged; a deletion may precede its message.
PurgeVote(n, m) ==
  /\ Quiet /\ Cardinality(ledger) < MaxPurges
  /\ ledger' = ledger \cup {<<n, m>>}
  /\ votes' = [k \in Keys |-> IF k[1] = n /\ votes[k].msg = m THEN NoVote ELSE votes[k]]
  /\ UNCHANGED <<resolved, poll, gone, work, cast, withdrawn, raced>>

-----------------------------------------------------------------------------
Next ==
  \/ \E h \in Handlers, n \in Names :
       \/ CreateLoad(h, n) \/ AddLoad(h, n)
       \/ \E b \in Ballots : VoteLoad(h, b, n)
       \/ VoteWrite(h, n)
  \/ SendVoteWrite
  \/ \E h \in Handlers : PollWrite(h)
  \/ \E b \in Ballots, n \in Names : SendVoteLoad(b, n)
  \/ \E n \in Names : \/ RevokePoll(n) \/ PurgePoll(n)
                      \/ \E m \in Purgeable : PurgeVote(n, m)
  \/ Resolve \/ MigrateLIDToPN

Spec == Init /\ [][Next]_vars

-----------------------------------------------------------------------------
(* What `poll show` prints: the votes stored under the name of the poll,   *)
(* here the contact's.                                                     *)

Settled == ~LidKnown
Shown == votes[<<"pn", "pn">>]

\* With the names merged, the contact's newest ballot that reached the store
\* is the one that counts, in whatever order and under whichever names they
\* came, unless a withdrawal at least as new was carried out.
NewestBallotCounts ==
  Settled /\ Visible("pn") =>
    \A b \in cast :
      (\A c \in cast : <<"pn", c.msg>> \notin ledger) /\ Shown.ts < b.ts
        => \E w \in withdrawn : w.ts >= b.ts

\* What a contact's vote was matched with stays an option of the poll, so that
\* it is counted, unless a poll was written from an outdated read.
SelectedAreOptions ==
  Settled /\ Visible("pn") /\ ~raced =>
    votes[<<"pn", "pn">>].sel \subseteq poll["pn"]

\* A purged poll has no row and no votes, and a purged ballot is not counted,
\* also when they come again under the other name.
PurgedStaysGone ==
  Settled =>
    /\ <<"pn", "poll">> \in ledger => poll["pn"] = {} /\ \A v \in Voters : votes[<<"pn", v>>] = NoVote
    /\ \A v \in Voters : <<"pn", votes[<<"pn", v>>].msg>> \notin ledger

\* What the tally of a poll rests on, together.
TallyIsRight == NewestBallotCounts /\ SelectedAreOptions /\ PurgedStaysGone
=============================================================================
