------------------------------ MODULE MCStore ------------------------------
(***************************************************************************)
(* Instances of StoreParts for TLC.                                        *)
(***************************************************************************)
EXTENDS StoreParts, TLC

CONSTANTS m1, m2,   \* two messages of one second
          p1, p2    \* two processes that open the store

\* An original, its placeholder, an edit in the same second and a later one.
MCEdits == {[text |-> "first", ts |-> 1], [text |-> "second", ts |-> 2]}

\* Two messages of one second and a later one.
MCM == {m1, m2, "later"}
MCTs == [m \in MCM |-> IF m = "later" THEN 2 ELSE 1]

\* A vote and a changed vote, for an added option, of the contact, and an own vote.
MCBallots == {[who |-> "contact", msg |-> "v1", ts |-> 1, sel |-> {"a"}],
              [who |-> "contact", msg |-> "v2", ts |-> 2, sel |-> {"b"}],
              [who |-> "me", msg |-> "v3", ts |-> 1, sel |-> {"a"}]}

Schema == INSTANCE StoreSchema
MCScript == Schema!Program

\* Stores of some releases, of pre-release builds, and of interrupted ones, and who
\* opens them.
MCProcesses == {p1, p2}

Lacks(d, ts) == [d EXCEPT !.tables = @ \ ts, !.cols = {c \in @ : c[1] \notin ts}]

\* Pre-release builds recorded recovery markers and intents under 21 and 22, ...
PreReleaseMarkers ==
  LET d == Schema!Released(20) IN
  [d EXCEPT !.tables = @ \cup {"app_state_recovery_required", "app_state_recovery_intents"},
            !.rows = @ \cup {<<21, "app state recovery markers">>, <<22, "app state recovery intents">>},
            !.marks = {"c"}]

\* ... retrieval and journal under 29 and 30, ...
PreReleaseRetrieval ==
  LET d == Schema!Released(28) IN
  [d EXCEPT !.tables = @ \cup {"retrieval_state", "change_state"},
            !.rows = @ \cup {<<29, "retrieval identity, revision and sync state">>,
                             <<30, "content-free message change journal">>},
            !.identity = 1, !.journal = TRUE]

\* ... and the fork its own under 33 and 34, with the first form of the table.
PreReleaseFork ==
  LET d == Schema!Released(32) IN
  [d EXCEPT !.tables = @ \cup {"pending_sends"},
            !.rows = @ \cup {<<33, "own message id lookup index">>, <<34, "pending sends">>}]

MCStores ==
  {Schema!NoStore, Schema!Released(2), Schema!Released(17), Schema!Released(23), Schema!Released(28),
   PreReleaseMarkers, PreReleaseRetrieval, PreReleaseFork,
   Lacks(Schema!Released(28), {"call_events", "message_locations"})}

Cast(s, w, n) == [store |-> s, who |-> w, faults |-> n]

\* One process that may die twice on any store; two at once on those that have
\* most of their migrations behind them, so that every pair of their statements meets.
MCCasts ==
  {Cast(s, {p1}, 2) : s \in MCStores}
    \cup {Cast(s, MCProcesses, 0) : s \in {Schema!Released(28), PreReleaseRetrieval, PreReleaseFork}}

\* Nothing tells the two messages apart.
Symmetry == Permutations({m1, m2})
=============================================================================
