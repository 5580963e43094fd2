------------------------------ MODULE GroupInfo ------------------------------
(***************************************************************************)
(* What the store holds about one group: a snapshot of its info, and       *)
(* whether this account left it.  Storing a message of the group asks      *)
(* WhatsApp for the info, and the goroutines that store messages share one *)
(* answer: it is kept for a while, stored once, and dropped when WhatsApp  *)
(* reports a change or the sync reconnects.  The groups commands fetch and *)
(* store past that cache.                                                  *)
(***************************************************************************)
EXTENDS Integers, FiniteSets, Sequences

CONSTANTS Workers,    \* goroutines that store messages of the group
          MaxVer,     \* bound: changes of the group
          MaxEvents   \* bound: expiries and lost connections

Answers == 1 .. Cardinality(Workers) + 1   \* as many as can be told apart
Slots == {"queue", "aside"}   \* commands run in the daemon's queue, or skip it

VARIABLES
  group,     \* at WhatsApp: [ver, member]
  notices,   \* reports of changes that are on their way
  online,    \* connected, and handled as such
  answers,   \* groupInfoAnswer: [open, ver (0: failed), fresh, stored]
  current,   \* the answer in the cache (0: none)
  worker,    \* per worker: where it is
  stopping,  \* the sync's context is done
  cmd,       \* per slot: the command at work
  db,        \* groups, group_participants: [ver, left]
  events,    \* disturbances so far
  told,      \* history: the newest change this sync was told of
  moved,     \* history: the last change of the membership that is not stored
  raced      \* history: a snapshot was stored that an own command had outdated

cache == <<answers, current>>
vars == <<group, notices, online, cache, worker, stopping, cmd, db, events, told, moved, raced>>

NoAnswer == [open |-> FALSE, ver |-> 0, fresh |-> FALSE, stored |-> FALSE]
Resting == [at |-> "idle"]

Init ==
  /\ group = [ver |-> 1, member |-> TRUE]
  /\ notices = <<>> /\ online = TRUE
  /\ answers = [i \in Answers |-> NoAnswer] /\ current = 0
  /\ worker = [w \in Workers |-> Resting]
  /\ stopping = FALSE
  /\ cmd = [s \in Slots |-> Resting]
  /\ db = [ver |-> 0, left |-> FALSE]
  /\ events = 0 /\ told = 1 /\ moved = 0 /\ raced = FALSE

-----------------------------------------------------------------------------
(* The cache.  Network calls are made without its mutex. *)

Usable(i) == i # 0 /\ ~answers[i].open /\ answers[i].fresh
\* The info an answer carries, by identity: a failed one has none.
Info(i) == IF answers[i].ver = 0 THEN 0 ELSE i
To(w, s) == worker' = [worker EXCEPT ![w] = s]
Asking == [at |-> "ask"]
Storing(i) == [at |-> "store", info |-> i]

\* Mutant: a lookup in flight survives the invalidation.
ForgottenLate == current' = (IF Usable(current) THEN 0 ELSE current) /\ UNCHANGED answers
\* forgetGroupInfo, forgetAllGroupInfo: waiters wake, the lookup in flight is
\* no longer the current one.
Forgotten ==
  /\ answers' = [i \in Answers |-> IF i = current THEN NoAnswer ELSE answers[i]]
  /\ current' = 0

Arrive(w) ==
  /\ worker[w].at = "idle" /\ ~stopping
  /\ To(w, Asking)
  /\ UNCHANGED <<group, notices, online, cache, stopping, cmd, db, events, told, moved, raced>>

\* A new answer, told apart from those that are still referred to.
NewAnswer ==
  CHOOSE i \in Answers : i # current /\ \A w \in Workers : i \notin {worker[w][f] : f \in DOMAIN worker[w] \ {"at", "ver"}}

\* cachedGroupInfo: wait for the lookup in flight, reuse the answer, or ask.
Ask(w) ==
  /\ worker[w].at = "ask"
  /\ \/ /\ current # 0 /\ answers[current].open
        /\ To(w, [at |-> "wait", for |-> current])
        /\ UNCHANGED cache
     \/ /\ Usable(current)
        /\ To(w, Storing(Info(current)))
        /\ UNCHANGED cache
     \/ /\ ~Usable(current) /\ ~(current # 0 /\ answers[current].open)
        /\ current' = NewAnswer
        /\ answers' = [i \in Answers |-> CASE i = NewAnswer -> [NoAnswer EXCEPT !.open = TRUE]
                                          [] i = current -> NoAnswer
                                          [] OTHER -> answers[i]]
        /\ To(w, [at |-> "fetch", for |-> NewAnswer])
  /\ UNCHANGED <<group, notices, online, stopping, cmd, db, events, told, moved, raced>>

Wake(w) ==
  /\ worker[w].at = "wait"
  /\ \/ ~answers[worker[w].for].open /\ To(w, Asking)
     \/ stopping /\ To(w, Storing(0))
  /\ UNCHANGED <<group, notices, online, cache, stopping, cmd, db, events, told, moved, raced>>

\* GetGroupInfo answers, or fails.
Fetch(w) ==
  /\ worker[w].at = "fetch"
  /\ \E v \in (IF online /\ group.member THEN {group.ver} ELSE {}) \cup {0} :
       To(w, [at |-> "fetched", for |-> worker[w].for, ver |-> v])
  /\ UNCHANGED <<group, notices, online, cache, stopping, cmd, db, events, told, moved, raced>>

\* An answer that was invalidated in flight is asked for again.
Fetched(w) ==
  /\ worker[w].at = "fetched"
  /\ LET i == worker[w].for
     IN IF current # i
        THEN To(w, IF stopping THEN Storing(0) ELSE Asking) /\ UNCHANGED cache
        ELSE IF stopping
        THEN Forgotten /\ To(w, Storing(0))
        ELSE /\ answers' = [answers EXCEPT ![i] = [open |-> FALSE, ver |-> worker[w].ver, fresh |-> TRUE, stored |-> FALSE]]
             /\ To(w, Storing(IF worker[w].ver = 0 THEN 0 ELSE i))
             /\ UNCHANGED current
  /\ UNCHANGED <<group, notices, online, stopping, cmd, db, events, told, moved, raced>>

Snapshot(ver) == db' = [ver |-> ver, left |-> FALSE]

\* storeGroupChat, under the mutex: the answer must still be the current one.
Still(w) == Usable(current) /\ Info(current) = worker[w].info

Store(w) ==
  /\ worker[w].at = "store"
  /\ LET i == worker[w].info
     IN \/ /\ Still(w) /\ i # 0 /\ ~answers[i].stored
           /\ \/ /\ Snapshot(answers[i].ver)
                 /\ answers' = [answers EXCEPT ![i].stored = TRUE]
                 /\ raced' = (raced \/ db.left \/ ~group.member)
              \/ UNCHANGED <<db, answers, raced>>   \* the write fails
           /\ To(w, Resting)
        \/ /\ Still(w) /\ (i # 0 => answers[i].stored)
           /\ To(w, Resting)
           /\ UNCHANGED <<db, answers, raced>>
        \/ /\ ~Still(w)
           /\ To(w, IF stopping THEN Resting ELSE Asking)
           /\ UNCHANGED <<db, answers, raced>>
  /\ UNCHANGED <<group, notices, online, current, stopping, cmd, events, told, moved>>

-----------------------------------------------------------------------------
(* Reports and the connection. *)

Changed(member) ==
  /\ group.ver < MaxVer
  /\ group' = [ver |-> group.ver + 1, member |-> member]
  /\ notices' = IF online THEN Append(notices, group.ver + 1) ELSE notices

\* Somebody changes the group; unseen while the sync is offline.
ChangeElsewhere(member) ==
  /\ Changed(member)
  /\ moved' = IF member = group.member THEN moved ELSE group.ver + 1
  /\ UNCHANGED <<online, cache, worker, stopping, cmd, db, events, told, raced>>

Notice ==
  /\ notices # <<>> /\ ~stopping
  /\ told' = Head(notices) /\ notices' = Tail(notices)
  /\ Forgotten
  /\ UNCHANGED <<group, online, worker, stopping, cmd, db, events, moved, raced>>

Disconnected ==
  /\ online /\ events < MaxEvents
  /\ online' = FALSE /\ events' = events + 1
  /\ UNCHANGED <<group, notices, cache, worker, stopping, cmd, db, told, moved, raced>>

\* Connected: changes made meanwhile may not all come back as events.
Connected ==
  /\ ~online
  /\ online' = TRUE
  /\ told' = group.ver /\ notices' = <<>>
  /\ Forgotten
  /\ UNCHANGED <<group, worker, stopping, cmd, db, events, moved, raced>>

\* groupInfoReuse, groupInfoFailureReuse.
Expire ==
  /\ Usable(current) /\ events < MaxEvents
  /\ answers' = [answers EXCEPT ![current].fresh = FALSE]
  /\ events' = events + 1
  /\ UNCHANGED <<group, notices, online, current, worker, stopping, cmd, db, told, moved, raced>>

Stop ==
  /\ ~stopping
  /\ stopping' = TRUE
  /\ UNCHANGED <<group, notices, online, cache, worker, cmd, db, events, told, moved, raced>>

-----------------------------------------------------------------------------
(* groups leave, join, rename ...; and info and refresh, which skip the queue. *)

Command(s, c) == cmd' = [cmd EXCEPT ![s] = c]
Fetching == [at |-> "fetch"]

\* groupLeave: marked once WhatsApp confirmed.
Leave ==
  /\ cmd["queue"] = Resting /\ online /\ group.member
  /\ Changed(FALSE)
  /\ moved' = group.ver + 1
  /\ Command("queue", [at |-> "mark"])
  /\ UNCHANGED <<online, cache, worker, stopping, db, events, told, raced>>

MarkLeft ==
  /\ cmd["queue"].at = "mark"
  /\ db' = IF db.ver = 0 THEN db ELSE [db EXCEPT !.left = TRUE]
  /\ moved' = IF group.member THEN moved ELSE 0
  /\ raced' = (raced \/ group.member)
  /\ Command("queue", Resting)
  /\ UNCHANGED <<group, notices, online, cache, worker, stopping, events, told>>

\* groupJoin, groupRename, groupTopic, groupSetting, groupParticipants ...
Change ==
  /\ cmd["queue"] = Resting /\ online
  /\ Changed(TRUE)
  /\ moved' = IF group.member THEN moved ELSE group.ver + 1
  /\ Command("queue", Fetching)
  /\ UNCHANGED <<online, cache, worker, stopping, db, events, told, raced>>

\* groupRefresh (groupInfo stores a snapshot as Change does).
Refresh ==
  /\ cmd["aside"] = Resting /\ online
  /\ Command("aside", Fetching)
  /\ UNCHANGED <<group, notices, online, cache, worker, stopping, db, events, told, moved, raced>>

\* persistGroup, GetJoinedGroups.
CommandFetch(s) ==
  /\ cmd[s].at = "fetch" /\ online
  /\ Command(s, [at |-> "store", got |-> group, refresh |-> s = "aside"])
  /\ UNCHANGED <<group, notices, online, cache, worker, stopping, db, events, told, moved, raced>>

\* MarkGroupsMissingFrom.
MissingMarked == IF db.ver = 0 THEN db ELSE [db EXCEPT !.left = TRUE]

\* persistGroupInfo; a refresh also marks the groups it did not find.
CommandStore(s) ==
  /\ cmd[s].at = "store"
  /\ LET got == cmd[s].got
     IN /\ IF got.member THEN Snapshot(got.ver)
           ELSE db' = IF cmd[s].refresh THEN MissingMarked ELSE db
        /\ raced' = (raced \/ ((got.member \/ cmd[s].refresh) /\ got.member # group.member))
        /\ moved' = IF (got.member \/ cmd[s].refresh) /\ got.ver >= moved THEN 0 ELSE moved
  /\ Command(s, Resting)
  /\ UNCHANGED <<group, notices, online, cache, worker, stopping, events, told>>

\* The fetch failed, or the command did.
CommandFail(s) ==
  /\ cmd[s].at = "fetch"
  /\ Command(s, Resting)
  /\ UNCHANGED <<group, notices, online, cache, worker, stopping, db, events, told, moved, raced>>

-----------------------------------------------------------------------------
WorkerStep(w) == Ask(w) \/ Wake(w) \/ Fetch(w) \/ Fetched(w) \/ Store(w)

Next ==
  \/ \E w \in Workers : Arrive(w) \/ WorkerStep(w)
  \/ \E m \in BOOLEAN : ChangeElsewhere(m)
  \/ Notice \/ Disconnected \/ Connected \/ Expire \/ Stop
  \/ Leave \/ MarkLeft \/ Change \/ Refresh
  \/ \E s \in Slots : CommandFetch(s) \/ CommandStore(s) \/ CommandFail(s)

Spec == Init /\ [][Next]_vars

-----------------------------------------------------------------------------
\* The sync never stores a snapshot older than a change it was told of: not
\* from an answer it kept, nor from a lookup that was on its way, also across
\* a lost connection.
StoresCurrent ==
  \A w \in Workers : worker[w].at = "store" /\ db' # db /\ worker'[w].at = "idle" => db'.ver >= told

\* A membership that changed is what the store shows, once a refresh or the
\* leaving command has seen the change, unless a snapshot fetched before it
\* was stored after it.
LeftIsShown == moved = 0 /\ ~raced /\ db.ver # 0 => db.left = ~group.member

\* What the store shows of a group, together.
MembershipKept == StoresCurrent /\ LeftIsShown'
=============================================================================
