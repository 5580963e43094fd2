---------------------------- MODULE StoreAccess ----------------------------
(***************************************************************************)
(* Who may use a store: the sync daemon with its lock, its connection and  *)
(* its delegate socket, and the other wacli processes that find it there,  *)
(* starting, stopping or dead.  A call runs on the daemon or here, as the  *)
(* store's pin, the socket and the lock decide.  Processes are killed at   *)
(* any step; the operating system then drops lock and connection and the   *)
(* socket file stays.                                                      *)
(***************************************************************************)
EXTENDS Naturals, FiniteSets

CONSTANTS Procs,      \* runs of wacli
          Role,       \* what each does: "follow" (the daemon), "send", "local" (a
                      \* localOK kind), "once", "auth", "maintain"
          Casts,      \* bound: which of them run in one behaviour
          MaxPins,    \* bound: changes of the store's pin
          MaxKills    \* bound: processes killed

\* The marks of a free lock and of no listener name no process.
ASSUME ProcsAssumption == "none" \notin Procs /\ "stale" \notin Procs

VARIABLES marker,     \* the store is pinned to its daemon
          pins,
          path,       \* the socket file: "none", "stale", or the daemon that listens
          lock,       \* who holds LOCK, or "none"
          conn,       \* the processes connected to WhatsApp
          pc,
          asked,      \* the daemon a call was sent to, or "none"
          ran,        \* how often the call's request was executed
          told,       \* how the process ended, for its caller
          kills

vars == <<marker, pins, path, lock, conn, pc, asked, ran, told, kills>>

Daemons == {p \in Procs : Role[p] = "follow"}
Callers == Procs \ Daemons

Init ==
  /\ marker \in BOOLEAN /\ pins = 0
  /\ path \in {"none", "stale"}
  /\ lock = "none" /\ conn = {}
  /\ \E cast \in Casts : pc = [p \in Procs |-> IF p \in cast THEN "start" ELSE "end"]
  /\ asked = [p \in Callers |-> "none"]
  /\ ran = [p \in Callers |-> 0]
  /\ told = [p \in Procs |-> "-"]
  /\ kills = 0

\* sendDelegateAvailable: somebody accepts connections on the socket.
Listening == path \in Daemons

To(p, label) == pc' = [pc EXCEPT ![p] = label]
Tell(p, what) == told' = [told EXCEPT ![p] = what]
Refuse(p) == To(p, "end") /\ Tell(p, "refused")

\* The operator pins the store, or takes the pin away.
Pin ==
  /\ pins < MaxPins
  /\ pins' = pins + 1 /\ marker' = ~marker
  /\ UNCHANGED <<path, lock, conn, pc, asked, ran, told, kills>>

Alone == UNCHANGED <<marker, pins, path, lock, conn, asked, ran, kills>>

\* The daemon and `auth` never ask for the pin; `sync --once` asks at once.
StartExempt(p) ==
  /\ pc[p] = "start" /\ Role[p] \in {"follow", "auth"}
  /\ To(p, "lock") /\ UNCHANGED told /\ Alone

StartOnce(p) ==
  /\ pc[p] = "start" /\ Role[p] = "once"
  /\ IF marker THEN Refuse(p) ELSE To(p, "pin") /\ UNCHANGED told
  /\ Alone

\* callKind: a kind that needs no connection goes to a daemon that listens.
StartKind(p) ==
  /\ pc[p] = "start" /\ Role[p] = "local"
  /\ To(p, IF Listening THEN "dial" ELSE "pin")
  /\ UNCHANGED told /\ Alone

StartOther(p) ==
  /\ pc[p] = "start" /\ Role[p] \in {"send", "maintain"}
  /\ To(p, "pin") /\ UNCHANGED told /\ Alone

StoreIsDelegateOnly(p) ==
  /\ pc[p] = "pin"
  /\ To(p, IF marker THEN "probe" ELSE "lock")
  /\ UNCHANGED told /\ Alone

\* What a pinned store's socket says, before the lock is touched.
OpenPinned(p) ==
  /\ pc[p] = "probe"
  /\ \/ /\ Role[p] \in {"local", "maintain"} /\ ~Listening
        /\ To(p, "lock") /\ UNCHANGED told
     \/ /\ Role[p] \in {"local", "send"} /\ Listening
        /\ To(p, "dial") /\ UNCHANGED told
     \/ /\ IF Listening THEN Role[p] \in {"maintain", "once"} ELSE Role[p] \in {"send", "once"}
        /\ Refuse(p)
  /\ Alone

TakeLock(p) ==
  /\ pc[p] = "lock" /\ lock = "none"
  /\ lock' = p /\ To(p, "open")
  /\ UNCHANGED <<marker, pins, path, conn, asked, ran, told, kills>>

\* The lock is held, at once or for as long as the call may wait.
LockFails(p) ==
  /\ pc[p] = "lock" /\ lock # "none"
  /\ IF Role[p] \in {"local", "send"} THEN To(p, "dial") /\ UNCHANGED told ELSE Refuse(p)
  /\ Alone

-----------------------------------------------------------------------------
\* Only what needs a connection makes one.
Connect(p) ==
  /\ pc[p] = "open" /\ Role[p] \in {"follow", "send", "once", "auth"}
  /\ conn' = conn \cup {p}
  /\ To(p, IF Role[p] = "follow" THEN "sweep" ELSE "work")
  /\ UNCHANGED <<marker, pins, path, lock, asked, ran, told, kills>>

\* Opening, connecting or listening fails.
GiveUp(p) ==
  /\ pc[p] \in {"open", "sweep", "listen"}
  /\ To(p, "leave")
  /\ Tell(p, "failed")
  /\ Alone

\* Here, with the lock: the request of a call, or what `once`, `auth` and the
\* maintenance commands do.
Work(p) ==
  /\ pc[p] = IF Role[p] \in {"local", "maintain"} THEN "open" ELSE "work"
  /\ \/ ran' = [ran EXCEPT ![p] = @ + 1] /\ \E end \in {"done", "failed"} : Tell(p, end)
     \/ UNCHANGED ran /\ Tell(p, "failed")
  /\ To(p, "leave")
  /\ UNCHANGED <<marker, pins, path, lock, conn, asked, kills>>

RemoveStaleSocket(d) ==
  /\ pc[d] = "sweep"
  /\ path' = "none" /\ To(d, "listen")
  /\ UNCHANGED <<marker, pins, lock, conn, asked, ran, told, kills>>

Listen(d) ==
  /\ pc[d] = "listen" /\ path = "none"
  /\ path' = d /\ To(d, "serving")
  /\ UNCHANGED <<marker, pins, lock, conn, asked, ran, told, kills>>

\* The stop of the server: closing the listener takes the file away by name,
\* and so does the removal after it.
CloseListener(d) ==
  /\ pc[d] = "serving"
  /\ path' = "none" /\ To(d, "remove")
  /\ UNCHANGED <<marker, pins, lock, conn, asked, ran, told, kills>>

RemoveSocket(d) ==
  /\ pc[d] = "remove"
  /\ path' = "none" /\ To(d, "leave")
  /\ UNCHANGED <<marker, pins, lock, conn, asked, ran, told, kills>>

\* closeApp: first the connection, then the lock.
Disconnect(p) ==
  /\ pc[p] = "leave"
  /\ conn' = conn \ {p} /\ To(p, "release")
  /\ UNCHANGED <<marker, pins, path, lock, asked, ran, told, kills>>

\* Mutant: the lock is given back as soon as the process begins to leave.
ReleaseEarly(p) ==
  /\ lock = p /\ pc[p] \in {"remove", "leave", "release"}
  /\ lock' = "none"
  /\ To(p, IF pc[p] = "release" THEN "end" ELSE pc[p])
  /\ UNCHANGED <<marker, pins, path, conn, asked, ran, told, kills>>

Release(p) ==
  /\ pc[p] = "release"
  /\ lock' = "none" /\ To(p, "end")
  /\ UNCHANGED <<marker, pins, path, conn, asked, ran, told, kills>>

-----------------------------------------------------------------------------
\* The call is sent to the daemon that listens.  When none does, it is refused.
DelegateSend(p) ==
  /\ pc[p] = "dial"
  /\ \/ /\ Listening
        /\ asked' = [asked EXCEPT ![p] = path] /\ To(p, "asked") /\ UNCHANGED told
     \/ /\ ~Listening
        /\ Refuse(p) /\ UNCHANGED asked
  /\ UNCHANGED <<marker, pins, path, lock, conn, ran, kills>>

Alive(p) == pc[p] \notin {"end", "dead"}

\* A handler of that daemon runs it, even while the daemon stops.
Execute(p) ==
  /\ pc[p] = "asked" /\ Alive(asked[p])
  /\ ran' = [ran EXCEPT ![p] = @ + 1] /\ To(p, "executed")
  /\ UNCHANGED <<marker, pins, path, lock, conn, asked, told, kills>>

Answer(p) ==
  /\ pc[p] = "executed" /\ Alive(asked[p])
  /\ \E end \in {"done", "failed"} : Tell(p, end)
  /\ To(p, "end") /\ Alone

\* Mutant: a call that gets no answer is run here.
AnswerLostRunsHere(p) ==
  /\ pc[p] \in {"asked", "executed"}
  /\ To(p, "lock") /\ UNCHANGED told /\ Alone

\* No answer before the deadline, or the connection to the daemon breaks.
AnswerLost(p) ==
  /\ pc[p] \in {"asked", "executed"}
  /\ Tell(p, "lost") /\ To(p, "end") /\ Alone

Kill(p) ==
  /\ kills < MaxKills /\ pc[p] \notin {"start", "end", "dead"}
  /\ kills' = kills + 1
  /\ To(p, "dead")
  /\ conn' = conn \ {p}
  /\ lock' = IF lock = p THEN "none" ELSE lock
  /\ path' = IF path = p THEN "stale" ELSE path
  /\ UNCHANGED <<marker, pins, asked, ran, told>>

-----------------------------------------------------------------------------
Own(p) ==
  \/ StoreIsDelegateOnly(p) \/ TakeLock(p) \/ LockFails(p) \/ Connect(p) \/ GiveUp(p)
  \/ Disconnect(p) \/ Release(p) \/ Kill(p) \/ StartExempt(p)

Call(p) ==
  \/ StartOnce(p) \/ StartKind(p) \/ StartOther(p) \/ OpenPinned(p) \/ Work(p)
  \/ DelegateSend(p) \/ Execute(p) \/ Answer(p) \/ AnswerLost(p)

Serve(d) == RemoveStaleSocket(d) \/ Listen(d) \/ CloseListener(d) \/ RemoveSocket(d)

Next ==
  \/ Pin
  \/ \E p \in Procs : Own(p)
  \/ \E p \in Callers : Call(p)
  \/ \E d \in Daemons : Serve(d)

Spec == Init /\ [][Next]_vars

-----------------------------------------------------------------------------
\* At most one process is connected to WhatsApp with the store's session,
\* across starts, stops and kills of daemons, calls and pairings.
OneConnection == Cardinality(conn) <= 1

\* A daemon that serves is found: no other process's start or stop takes its
\* socket away, although both remove the file by its name.
ServingIsReachable == \A d \in Daemons : pc[d] = "serving" => path = d

\* What a daemon may rely on, together.
DaemonIsAlone == OneConnection /\ ServingIsReachable

\* Over both paths a call's request is executed at most once: exactly once when
\* the caller is told that it went well, and never when it was refused.
CallRunsOnce ==
  \A p \in Callers :
    /\ ran[p] <= 1
    /\ told[p] = "done" => ran[p] = 1
    /\ told[p] = "refused" => ran[p] = 0
=============================================================================
