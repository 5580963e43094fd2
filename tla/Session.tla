------------------------------- MODULE Session -------------------------------
(***************************************************************************)
(* The linked device and what the program says of it: the row in           *)
(* session.db, the SESSION_REVOKED marker beside it, and the observer that *)
(* keeps the marker true to what WhatsApp said.                            *)
(*                                                                         *)
(* One process at a time holds the store.  It connects as the device of    *)
(* the row (or pairs a new one under `wacli auth`), and every command that *)
(* needs the session waits in App.Connect until a login is confirmed.      *)
(* whatsmeow delivers its events from goroutines of their own, in any      *)
(* order, and deletes the row of a device that was logged out a moment     *)
(* after it says so: a process that ends first leaves a stale row behind.  *)
(*                                                                         *)
(* Devices are numbered by pairing; 0 is none.                             *)
(***************************************************************************)
EXTENDS Naturals

CONSTANTS Waiters,   \* requests of one process that call App.Connect
          Devices,   \* pairings; the first one is linked at the start
          MaxStarts, \* processes that are started
          MaxDrops,  \* connections lost or refused for another reason than a logout
          MaxFaults  \* writes of the marker that fail

VARIABLES paired,   \* the device paired last
          linked,   \* the devices the phone still lists
          row,      \* the device in session.db
          marker,   \* SESSION_REVOKED is there
          proc,     \* the command that holds the store: "none", "auth", "sync" or "command"
          dev,      \* the device its client loaded
          conn,     \* the device its socket is open for
          greeted,  \* whether WhatsApp has answered on that socket
          deleting, \* whatsmeow is about to delete the row
          calls,    \* events not delivered yet
          obs,      \* sessionObservation
          token,    \* its channel `changed` holds one
          gate,     \* who holds connectGate
          pc,       \* where each request stands in App.Connect
          told,     \* the devices whose logout was recorded
          left      \* what may still go wrong

vars == <<paired, linked, row, marker, proc, dev, conn, greeted, deleting, calls, obs, token, gate, pc,
          told, left>>

socket == <<dev, conn, greeted, deleting>>
disk == <<row, marker, told>>
waiting == <<gate, pc>>

Fresh == [revoked |-> FALSE, confirmed |-> FALSE, terminal |-> "none", persist |-> "ok"]

Take(what) == left[what] > 0 /\ left' = [left EXCEPT ![what] = @ - 1]

Event(kind, d) == [kind |-> kind, device |-> d]

SessionRevoked == marker

\* `wacli auth status`: a client of its own loads the row.
AuthStatus == row # 0 /\ ~SessionRevoked

\* The same with --read-only: the row is read only when no logout is recorded.
ReadOnlyAuthStatus == ~SessionRevoked /\ row # 0

\* `wacli doctor`: a daemon that holds the store answers for its client, and a recorded
\* logout overrides what it says.
DoctorReport ==
  LET held == proc # "none"
      authed == IF proc = "sync" THEN dev # 0 ELSE row # 0
      connected == proc = "sync" /\ conn # 0
  IN [authed |-> authed /\ ~SessionRevoked,
      state |-> CASE SessionRevoked -> "logged_out"
                  [] ~SessionRevoked /\ connected -> "connected"
                  [] ~SessionRevoked /\ ~connected /\ authed /\ held -> "locked_by_other_process"
                  [] OTHER -> "disconnected"]

Init ==
  /\ paired = 1 /\ linked = {1} /\ row = 1 /\ marker = FALSE /\ told = {}
  /\ proc = "none" /\ dev = 0 /\ conn = 0 /\ greeted = FALSE /\ deleting = FALSE
  /\ calls = {} /\ obs = Fresh /\ token = FALSE
  /\ gate = "free" /\ pc = [w \in Waiters |-> "idle"]
  /\ left = [starts |-> MaxStarts, drops |-> MaxDrops, faults |-> MaxFaults]

-----------------------------------------------------------------------------
(* The process *)

\* The client loads the device of session.db; the observer starts empty.
OpenWA(command) ==
  /\ proc = "none"
  /\ Take("starts")
  /\ proc' = command
  /\ dev' = row
  /\ obs' = Fresh /\ token' = FALSE
  /\ UNCHANGED <<paired, linked, disk, conn, greeted, deleting, calls, waiting>>

\* Close, or a death: the socket closes, and what was not delivered or deleted is lost.
Close ==
  /\ proc # "none"
  /\ proc' = "none"
  /\ dev' = 0 /\ conn' = 0 /\ greeted' = FALSE /\ deleting' = FALSE
  /\ calls' = {}
  /\ obs' = Fresh /\ token' = FALSE
  /\ gate' = "free" /\ pc' = [w \in Waiters |-> "idle"]
  /\ UNCHANGED <<paired, linked, disk, left>>

\* connectForSync and the reconnects of sync: they connect without App.Connect.
Dial ==
  /\ proc \in {"auth", "sync"} /\ conn = 0 /\ dev # 0
  /\ conn' = dev /\ greeted' = FALSE
  /\ UNCHANGED <<paired, linked, disk, proc, dev, deleting, calls, obs, token, waiting, left>>

\* Without a device `auth` pairs: the phone links it and the row is saved before the login.
Pair ==
  /\ proc = "auth" /\ conn = 0 /\ dev = 0
  /\ \E d \in Devices :
       /\ d = paired + 1 /\ paired' = d
       /\ linked' = linked \cup {d}
       /\ row' = d /\ dev' = d /\ conn' = d
  /\ greeted' = FALSE /\ deleting' = FALSE
  /\ UNCHANGED <<marker, told, proc, calls, obs, token, waiting, left>>

-----------------------------------------------------------------------------
(* WhatsApp and whatsmeow *)

Accept ==
  /\ conn # 0 /\ conn \in linked /\ ~greeted
  /\ greeted' = TRUE
  /\ calls' = calls \cup {Event("Connected", conn)}
  /\ UNCHANGED <<paired, linked, disk, proc, dev, conn, deleting, obs, token, waiting, left>>

\* A device the phone no longer lists is refused at the next login.
Refuse ==
  /\ conn # 0 /\ conn \notin linked
  /\ calls' = calls \cup {Event("ConnectFailure", conn)}
  /\ conn' = 0 /\ greeted' = FALSE /\ deleting' = TRUE
  /\ UNCHANGED <<paired, linked, disk, proc, dev, obs, token, waiting, left>>

\* The phone unlinks a device; a live connection hears of it at once.
Unlink ==
  \E d \in linked :
    /\ linked' = linked \ {d}
    /\ IF conn = d /\ greeted
         THEN /\ calls' = calls \cup {Event("LoggedOut", d)}
              /\ conn' = 0 /\ greeted' = FALSE /\ deleting' = TRUE
         ELSE UNCHANGED <<calls, conn, greeted, deleting>>
    /\ UNCHANGED <<paired, disk, proc, dev, obs, token, waiting, left>>

\* The socket drops, or the login fails for a reason that is no logout.
Drop ==
  /\ conn # 0
  /\ Take("drops")
  /\ \E kind \in {"Disconnected", "StreamReplaced"} : calls' = calls \cup {Event(kind, conn)}
  /\ conn' = 0 /\ greeted' = FALSE
  /\ UNCHANGED <<paired, linked, disk, proc, dev, deleting, obs, token, waiting>>

DeleteDevice ==
  /\ deleting
  /\ row' = 0 /\ dev' = 0 /\ deleting' = FALSE
  /\ UNCHANGED <<paired, linked, marker, told, proc, conn, greeted, calls, obs, token, waiting, left>>

-----------------------------------------------------------------------------
(* sessionObservation.  A failed write leaves the marker as it was. *)

Notify == token' = TRUE

ClearSessionRevoked ==
  \/ marker' = FALSE /\ obs' = [obs EXCEPT !.terminal = "none", !.persist = "ok", !.confirmed = TRUE]
     /\ UNCHANGED left
  \/ Take("faults") /\ obs' = [obs EXCEPT !.terminal = "none", !.persist = "failed"]
     /\ UNCHANGED marker

\* Mutant: a login callback that is late clears the marker of a logout.
ConfirmAnyLogin ==
  IF obs.confirmed
    THEN UNCHANGED <<marker, obs, left>>
    ELSE ClearSessionRevoked

\* A revoked client stays revoked, whatever Connected event comes late.
ConfirmLogin ==
  IF obs.revoked \/ obs.confirmed
    THEN UNCHANGED <<marker, obs, left>>
    ELSE ClearSessionRevoked

\* MarkSessionRevoked writes the marker file.
MarkSessionRevoked(d) ==
  LET gone == [obs EXCEPT !.confirmed = FALSE, !.terminal = "revoked", !.revoked = TRUE]
  IN \/ /\ marker' = TRUE /\ told' = told \cup {d}
        /\ obs' = [gone EXCEPT !.persist = "ok"]
        /\ UNCHANGED left
     \/ /\ Take("faults")
        /\ obs' = [gone EXCEPT !.persist = "failed"]
        /\ UNCHANGED <<marker, told>>

RejectLogin(e) ==
  IF e.kind \in {"LoggedOut", "ConnectFailure"}
    THEN MarkSessionRevoked(e.device)
    ELSE /\ obs' = [obs EXCEPT !.confirmed = FALSE,
                               !.terminal = IF @ = "none" THEN "failed" ELSE @]
         /\ UNCHANGED <<marker, told, left>>

Observe(e) ==
  CASE e.kind = "Connected" -> ConfirmLogin /\ UNCHANGED told
    [] e.kind = "Disconnected" -> /\ obs' = [obs EXCEPT !.confirmed = FALSE]
                                  /\ UNCHANGED <<marker, told, left>>
    [] OTHER -> RejectLogin(e)

\* whatsmeow runs each handler call in a goroutine: any of them may be next.
Deliver ==
  \E e \in calls :
    /\ calls' = calls \ {e}
    /\ Observe(e)
    /\ Notify
    /\ UNCHANGED <<paired, linked, row, proc, socket, waiting>>

-----------------------------------------------------------------------------
(* App.Connect.  A request of the daemon connects while sync does; the gate lets one in. *)

\* A fault to compare with: requests wait for their login side by side.
OpenGate(w) ==
  /\ pc[w] = "idle" /\ proc \in {"sync", "command"}
  /\ gate' = w
  /\ pc' = [pc EXCEPT ![w] = "prepare"]
  /\ UNCHANGED <<paired, linked, disk, proc, socket, calls, obs, token, left>>

EnterGate(w) ==
  /\ pc[w] = "idle" /\ proc \in {"sync", "command"}
  /\ gate = "free" /\ gate' = w
  /\ pc' = [pc EXCEPT ![w] = "prepare"]
  /\ UNCHANGED <<paired, linked, disk, proc, socket, calls, obs, token, left>>

\* The request returns, with or without an error, and gives the gate back.
Leave(w) ==
  /\ pc' = [pc EXCEPT ![w] = "idle"]
  /\ gate' = IF gate = w THEN "free" ELSE gate

PrepareConnect(w) ==
  /\ pc[w] = "prepare"
  /\ IF obs.revoked
       THEN Leave(w) /\ UNCHANGED obs
       ELSE /\ obs' = IF conn = 0
                        THEN [obs EXCEPT !.confirmed = FALSE, !.terminal = "none", !.persist = "ok"]
                        ELSE obs
            /\ pc' = [pc EXCEPT ![w] = "connect"] /\ UNCHANGED gate
  /\ UNCHANGED <<paired, linked, disk, proc, socket, calls, token, left>>

\* Without a device, or when the dial fails, the request ends with an error.
ConnectClient(w) ==
  /\ pc[w] = "connect"
  /\ \/ /\ conn # 0
        /\ pc' = [pc EXCEPT ![w] = "check"] /\ UNCHANGED <<gate, conn, greeted>>
     \/ /\ conn = 0 /\ dev # 0
        /\ conn' = dev /\ greeted' = FALSE
        /\ pc' = [pc EXCEPT ![w] = "check"] /\ UNCHANGED gate
     \/ /\ conn = 0
        /\ Leave(w) /\ UNCHANGED <<conn, greeted>>
  /\ UNCHANGED <<paired, linked, disk, proc, dev, deleting, calls, obs, token, left>>

Answered == obs.confirmed \/ obs.terminal # "none" \/ obs.persist = "failed"

\* waitForLogin reads under the mutex, and selects after it released it.
CheckLogin(w) ==
  /\ pc[w] = "check"
  /\ IF Answered THEN Leave(w) ELSE pc' = [pc EXCEPT ![w] = "select"] /\ UNCHANGED gate
  /\ UNCHANGED <<paired, linked, disk, proc, socket, calls, obs, token, left>>

Wake(w) ==
  /\ pc[w] = "select"
  /\ \/ token /\ token' = FALSE /\ pc' = [pc EXCEPT ![w] = "check"] /\ UNCHANGED gate
     \/ Leave(w) /\ UNCHANGED token                      \* ctx.Done: its timeout
  /\ UNCHANGED <<paired, linked, disk, proc, socket, calls, obs, left>>

\* `auth logout` unlinks the device itself and deletes the row; it may die in between.
Logout ==
  /\ proc = "command" /\ conn # 0 /\ greeted /\ obs.confirmed
  /\ linked' = linked \ {conn}
  /\ conn' = 0 /\ greeted' = FALSE /\ deleting' = TRUE
  /\ UNCHANGED <<paired, disk, proc, dev, calls, obs, token, waiting, left>>

Step(w) == EnterGate(w) \/ PrepareConnect(w) \/ ConnectClient(w) \/ CheckLogin(w) \/ Wake(w)

Next ==
  \/ \E command \in {"auth", "sync", "command"} : OpenWA(command)
  \/ Close \/ Dial \/ Pair
  \/ Accept \/ Refuse \/ Unlink \/ Drop \/ DeleteDevice
  \/ Deliver \/ Logout
  \/ \E w \in Waiters : Step(w)

Spec == Init /\ [][Next]_vars

-----------------------------------------------------------------------------
(* Properties *)

\* Once a logout of the linked device is recorded, no status command says authenticated
\* and doctor shows no connection for that device, although its row may be stale, its
\* last Connected event may come late, and processes may die and start: only a confirmed
\* login of another pairing ends that (MarkSessionRevoked, confirmLogin, auth status).
RevokedStays ==
  row \in told =>
    ~AuthStatus /\ ~ReadOnlyAuthStatus /\ ~DoctorReport.authed /\ DoctorReport.state = "logged_out"

\* A request that waits for its login and whose answer is there has a wake-up to come:
\* no answer given between its look and its select is lost (waitForLogin, notify).
LoginIsHeard ==
  \A w \in Waiters : pc[w] = "select" /\ Answered => token
=============================================================================
