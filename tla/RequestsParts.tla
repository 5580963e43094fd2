---------------------------- MODULE RequestsParts ----------------------------
(***************************************************************************)
(* What is asked of WhatsApp and of the phone, one part at a time: `part`  *)
(* says which a behaviour is one of, and the others rest.  StoreAccess has *)
(* its own variables; the other modules, which share no state with it nor  *)
(* with each other, have those below (the first ones serve two of them).   *)
(***************************************************************************)
EXTENDS StoreAccess

CONSTANTS Workers, MaxVer, MaxEvents,                                 \* GroupInfo's
          Msgs, MediaCasts, Batch, MaxAnswers, MaxRuns, MaxDamage,    \* MessageMedia's
          Waiters, Devices, MaxStarts, MaxFaults,                     \* Session's
          MaxDrops,                                                   \* its and Presence's
          Requests, Target, Earlier, Calls, PushNames, MaxWatched     \* Presence's

ASSUME GroupAssumption == IsFiniteSet(Workers)
\* Who waits at a mutex is not the word for nobody.
ASSUME NobodyAssumption == "free" \notin Waiters \cup Calls

VARIABLES part, answers, worker, cmd, row,
          group, notices, online, current, stopping, db, events, heard, moved, raced,
          file, served, held, owner, jobs, retry, notifs, removal, copy, out, runs, damage, actors,
          paired, linked, revoked, proc, dev, socket, greeted, deleting, calls, obs, token, gate, at,
          recorded, left,
          quiet, up, drops, available, subs, jids, call, mu, cleanup, renewal, cancelled, known,
          request, sync

Group == INSTANCE GroupInfo WITH told <- heard
Media == INSTANCE MessageMedia WITH Casts <- MediaCasts, cast <- actors
Login == INSTANCE Session WITH marker <- revoked, conn <- socket, pc <- at, told <- recorded
Watch == INSTANCE Presence WITH conn <- up

groupVars == <<group, notices, online, current, stopping, db, events, heard, moved, raced>>
mediaVars == <<file, served, held, owner, jobs, retry, notifs, removal, copy, out, runs, damage, actors>>
loginVars == <<paired, linked, revoked, proc, dev, socket, greeted, deleting, calls, obs, token, gate, at,
               recorded, left>>
watchVars == <<quiet, up, drops, available, subs, jids, call, mu, cleanup, renewal, cancelled, known,
               request, sync>>

-----------------------------------------------------------------------------
(* Where each part rests. *)

AccessRests ==
  LET some == CHOOSE c \in Casts : TRUE
  IN ~marker /\ path = "none" /\ pc = [p \in Procs |-> IF p \in some THEN "start" ELSE "end"]

GroupRests ==
  /\ group = "-" /\ notices = "-" /\ online = "-" /\ current = "-" /\ stopping = "-" /\ db = "-"
  /\ events = "-" /\ heard = "-" /\ moved = "-" /\ raced = "-"
MediaRests ==
  /\ file = "-" /\ served = "-" /\ held = "-" /\ owner = "-" /\ jobs = "-" /\ retry = "-" /\ notifs = "-"
  /\ removal = "-" /\ copy = "-" /\ out = "-" /\ runs = "-" /\ damage = "-" /\ actors = "-"
LoginRests ==
  /\ paired = "-" /\ linked = "-" /\ revoked = "-" /\ proc = "-" /\ dev = "-" /\ socket = "-"
  /\ greeted = "-" /\ deleting = "-" /\ calls = "-" /\ obs = "-" /\ token = "-" /\ gate = "-" /\ at = "-"
  /\ recorded = "-" /\ left = "-"
WatchRests ==
  /\ quiet = "-" /\ up = "-" /\ drops = "-" /\ available = "-" /\ subs = "-" /\ jids = "-" /\ call = "-"
  /\ mu = "-" /\ cleanup = "-" /\ renewal = "-" /\ cancelled = "-" /\ known = "-" /\ request = "-" /\ sync = "-"

RequestsInit ==
  /\ Init
  /\ \/ /\ part = "access" /\ answers = "-" /\ worker = "-" /\ cmd = "-" /\ row = "-"
        /\ GroupRests /\ MediaRests /\ LoginRests /\ WatchRests
     \/ /\ AccessRests /\ part = "group" /\ Group!Init /\ row = "-"
        /\ MediaRests /\ LoginRests /\ WatchRests
     \/ /\ AccessRests /\ part = "media" /\ Media!Init /\ cmd = "-"
        /\ GroupRests /\ LoginRests /\ WatchRests
     \/ /\ AccessRests /\ part = "session" /\ Login!Init /\ answers = "-" /\ worker = "-" /\ cmd = "-"
        /\ GroupRests /\ MediaRests /\ WatchRests
     \/ /\ AccessRests /\ part = "presence" /\ Watch!Init
        /\ answers = "-" /\ worker = "-" /\ cmd = "-" /\ row = "-"
        /\ GroupRests /\ MediaRests /\ LoginRests

RequestsNext ==
  \/ /\ part = "access" /\ Next
     /\ UNCHANGED <<part, answers, worker, cmd, row, groupVars, mediaVars, loginVars, watchVars>>
  \/ /\ part = "group" /\ Group!Next
     /\ UNCHANGED <<part, vars, row, mediaVars, loginVars, watchVars>>
  \/ /\ part = "media" /\ Media!Next
     /\ UNCHANGED <<part, vars, cmd, groupVars, loginVars, watchVars>>
  \/ /\ part = "session" /\ Login!Next
     /\ UNCHANGED <<part, vars, answers, worker, cmd, groupVars, mediaVars, watchVars>>
  \/ /\ part = "presence" /\ Watch!Next
     /\ UNCHANGED <<part, vars, answers, worker, cmd, row, groupVars, mediaVars, loginVars>>

requestsVars ==
  <<part, vars, answers, worker, cmd, row, groupVars, mediaVars, loginVars, watchVars>>

RequestsSpec == RequestsInit /\ [][RequestsNext]_requestsVars

-----------------------------------------------------------------------------
\* GroupInfo: no snapshot older than a change the sync was told of is stored, and a
\* membership that changed shows.
MembershipIsCurrent == [][part = "group" => Group!MembershipKept]_requestsVars

\* MessageMedia: nothing is given up that the phone or the server still has.
GoneIsConfirmed == part = "media" => Media!GoneIsConfirmed

\* MessageMedia: a read-only download publishes whole media or nothing.
OutputsAreVerified == part = "media" => Media!OutputsAreVerified

\* Session: a recorded logout stays until another pairing is confirmed.
RevokedStays == part = "session" => Login!RevokedStays

\* Session: a waiting request whose answer is there is woken.
LoginIsHeard == part = "session" => Login!LoginIsHeard

\* Presence: once the sync has left, nothing shows the device as available again.
StaysAway == [][part = "presence" => Watch!KeepsAway]_requestsVars
=============================================================================
