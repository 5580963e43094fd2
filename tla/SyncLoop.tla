------------------------------ MODULE SyncLoop ------------------------------
(***************************************************************************)
(* The loop of a running sync (internal/app/sync_idle.go) and the event    *)
(* handlers that wake it (internal/app/sync_events.go).                    *)
(*                                                                         *)
(* whatsmeow reports what happens to the connection in callbacks, each in  *)
(* a goroutine of its own.  The callbacks leave a token in one of three    *)
(* channels that hold one each: disconnected, loggedOut and                *)
(* staleReconnect.  The loop takes them in any order, and reconnects in a  *)
(* goroutine that it races against the logout.  With a stale threshold     *)
(* whatsmeow's own reconnection is off and the loop closes a connection    *)
(* whose keepalives fail.                                                  *)
(*                                                                         *)
(* Times are reduced to what the loop asks of them: whether a keepalive    *)
(* has succeeded since the last connectionEpoch was taken.                 *)
(***************************************************************************)
EXTENDS Naturals

CONSTANTS Modes,     \* "once", "follow", "stale" (follow with a --stale-threshold)
          MaxCalls   \* bound: callbacks of one kind under way

ASSUME MaxCallsAssumption == MaxCalls \in Nat

VARIABLES
  mode,         \* how the sync was started
  socket,       \* "none", "open", "half" (the peer is gone), "closing" (replaced)
  redials,      \* whatsmeow reconnects by itself
  revoked,      \* the phone has removed this device
  proved,       \* the connection's lastSuccess is not before connectionEpoch
  calls,        \* calls[k]: callbacks of kind k under way
  reports,      \* keepalive timeouts under way
  disconnected, \* the channels
  loggedOut,
  staleReconnect, \* (a set of at most one report)
  loop,         \* where runSyncFollow or runSyncUntilIdle is
  dial,         \* the goroutine of reconnectWhileWatchingLogout
  ctx,          \* the sync's context has not ended
  quiet,        \* no event for --idle-exit
  outcome       \* how the loop ended

Kinds == {"disconnected", "replaced", "replacedClosed", "loggedOut"}
\* since: lastSuccess is not before connectionEpoch.  current: no connection
\* has been made after the one that the report is about.
Reports == [since : BOOLEAN, current : BOOLEAN]
None == "none"
Follow == mode \in {"follow", "stale"}
Stale == mode = "stale"

linkVars == <<socket, redials, revoked, proved>>
callVars == <<calls, reports>>
channelVars == <<disconnected, loggedOut, staleReconnect>>
loopVars == <<loop, dial, outcome>>
vars == <<linkVars, callVars, channelVars, loopVars, ctx, quiet, mode>>

\* The handler is there and connectForSync has returned; what Sync does before
\* the loop (imports, the delegation server) takes its time.
Init ==
  /\ mode \in Modes
  /\ socket = "open" /\ redials = FALSE /\ revoked = FALSE /\ proved = TRUE
  /\ calls = [k \in Kinds |-> 0] /\ reports = {}
  /\ disconnected = FALSE /\ loggedOut = FALSE /\ staleReconnect = {}
  /\ loop = "setup" /\ dial = "off" /\ outcome = None
  /\ ctx = TRUE /\ quiet = FALSE

Call(k) == calls[k] < MaxCalls /\ calls' = [calls EXCEPT ![k] = @ + 1]

\* A new connection; every report so far is about an earlier one.
Superseded(r) == [r EXCEPT !.current = FALSE]
Opens ==
  /\ socket' = "open" /\ proved' = TRUE
  /\ reports' = {Superseded(r) : r \in reports}
  /\ staleReconnect' = {Superseded(r) : r \in staleReconnect}

-----------------------------------------------------------------------------
(* whatsmeow and the network, as far as this code relies on them. *)

\* The handler is removed when the loop has stopped: nothing matters from then.
Running == loop # "stopped"
worldRest == <<channelVars, loopVars, ctx, quiet, mode>>

\* The other side closes the connection.
Lost ==
  /\ Running
  /\ socket \in {"open", "half"}
  /\ socket' = None
  /\ Call("disconnected")
  /\ redials' = ~Stale
  /\ UNCHANGED <<revoked, proved, reports, worldRest>>

\* Another client took the stream; the socket may take its time to close.
Replaced ==
  /\ Running
  /\ socket = "open"
  /\ socket' \in {None, "closing"}
  /\ Call("replaced")
  /\ UNCHANGED <<redials, revoked, proved, reports, worldRest>>

\* The socket of a replaced stream closes, which is expected and not reported.
Closes ==
  /\ Running
  /\ socket = "closing"
  /\ socket' = None
  /\ UNCHANGED <<redials, revoked, proved, callVars, worldRest>>

PeerGone ==
  /\ Running
  /\ socket = "open"
  /\ socket' = "half"
  /\ UNCHANGED <<redials, revoked, proved, callVars, worldRest>>

PeerBack ==
  /\ Running
  /\ socket = "half"
  /\ socket' = "open"
  /\ UNCHANGED <<redials, revoked, proved, callVars, worldRest>>

KeepAliveSucceeds ==
  /\ Running
  /\ socket = "open"
  /\ proved' = TRUE
  /\ UNCHANGED <<socket, redials, revoked, callVars, worldRest>>

\* handleKeepAliveTimeout drops it unless the sync has a threshold.  A report
\* comes the threshold (a second at least) after the last success, and a dial
\* looks at the connection at once: not both a success and a report before that.
KeepAliveFails ==
  /\ Running
  /\ Stale /\ socket = "half"
  /\ dial = "trying" => ~proved
  /\ reports' = reports \cup {[since |-> proved, current |-> TRUE]}
  /\ UNCHANGED <<linkVars, calls, worldRest>>

\* Without a threshold whatsmeow itself gives the connection up.
GivenUp ==
  /\ Running
  /\ ~Stale /\ socket = "half"
  /\ socket' = None /\ redials' = TRUE
  /\ UNCHANGED <<revoked, proved, callVars, worldRest>>

Redials ==
  /\ Running
  /\ redials /\ socket = None
  /\ redials' = FALSE
  /\ Opens
  /\ UNCHANGED <<revoked, calls, disconnected, loggedOut, loopVars, ctx, quiet, mode>>

Revoke ==
  /\ Running
  /\ ~revoked
  /\ revoked' = TRUE
  /\ UNCHANGED <<socket, redials, proved, callVars, worldRest>>

\* The server tells a revoked device, at once or when it connects the next time.
TellsRevoked ==
  /\ Running
  /\ revoked /\ socket = "open"
  /\ socket' = None /\ redials' = FALSE
  /\ \E both \in BOOLEAN :
       /\ calls["loggedOut"] < MaxCalls /\ (both => calls["disconnected"] < MaxCalls)
       /\ calls' = [calls EXCEPT !["loggedOut"] = @ + 1, !["disconnected"] = IF both THEN @ + 1 ELSE @]
  /\ UNCHANGED <<revoked, proved, reports, worldRest>>

Signal ==
  /\ Running
  /\ ctx
  /\ ctx' = FALSE
  /\ UNCHANGED <<linkVars, callVars, channelVars, loopVars, quiet, mode>>

Quiet ==
  /\ Running
  /\ quiet' = ~quiet
  /\ ~Follow
  /\ UNCHANGED <<linkVars, callVars, channelVars, loopVars, ctx, mode>>

-----------------------------------------------------------------------------
(* The callbacks. *)

Returns(k) == Running /\ calls[k] > 0 /\ calls' = [calls EXCEPT ![k] = @ - 1]

OnDisconnected ==
  /\ Returns("disconnected")
  /\ disconnected' = TRUE
  /\ UNCHANGED <<linkVars, reports, loggedOut, staleReconnect, loopVars, ctx, quiet, mode>>

\* Mutant: the loop is woken before the socket is closed.
ClosesFirstNot == FALSE
\* StreamReplaced force-closes the socket before it wakes the loop.
ClosesFirst == TRUE

OnReplaced ==
  /\ Running /\ calls["replaced"] > 0 /\ calls["replacedClosed"] < MaxCalls
  /\ calls' = [calls EXCEPT !["replaced"] = @ - 1, !["replacedClosed"] = @ + 1]
  /\ IF ClosesFirst THEN socket' = None /\ UNCHANGED disconnected
     ELSE disconnected' = TRUE /\ UNCHANGED socket
  /\ UNCHANGED <<redials, revoked, proved, reports, loggedOut, staleReconnect, loopVars, ctx, quiet, mode>>

OnReplacedClosed ==
  /\ Returns("replacedClosed")
  /\ IF ClosesFirst THEN disconnected' = TRUE /\ UNCHANGED socket
     ELSE socket' = None /\ UNCHANGED disconnected
  /\ UNCHANGED <<redials, revoked, proved, reports, loggedOut, staleReconnect, loopVars, ctx, quiet, mode>>

\* Mutant: the channel has no buffer, and nobody receives from it yet.
LeavesLogoutUnbuffered == loggedOut' = (loop \in {"select", "reconnect"})
LeavesLogout == loggedOut' = TRUE

OnLoggedOut ==
  /\ Returns("loggedOut")
  /\ LeavesLogout
  /\ UNCHANGED <<linkVars, reports, disconnected, staleReconnect, loopVars, ctx, quiet, mode>>

\* A second report is dropped while the first has not been taken.
OnKeepAliveTimeout(r) ==
  /\ Running /\ r \in reports
  /\ reports' = reports \ {r}
  /\ staleReconnect' = IF staleReconnect = {} THEN {r} ELSE staleReconnect
  /\ UNCHANGED <<linkVars, calls, disconnected, loggedOut, loopVars, ctx, quiet, mode>>

-----------------------------------------------------------------------------
(* The loop. *)

Stops(how) == loop' = "stopped" /\ outcome' = how

SetUp ==
  /\ loop = "setup"
  /\ loop' = "select"
  /\ UNCHANGED <<linkVars, callVars, channelVars, dial, outcome, ctx, quiet, mode>>

\* Mutant: the reports made so far stay as good as they are.
AgedNot(r) == r
Aged(r) == [r EXCEPT !.since = FALSE]
\* connectionEpoch is now: every success so far is before it.
TakesEpoch == proved' = FALSE /\ reports' = {Aged(r) : r \in reports}

Reconnects == loop' = "reconnect" /\ dial' = "trying" /\ UNCHANGED outcome

\* loggedOutPending
LogoutPending == loggedOut

\* loggedOutPending has taken the token.
StopsLoggedOut == loggedOut' = FALSE /\ Stops("logged_out")

\* A keepalive timeout from before the last epoch is dropped; any other closes
\* the connection.
TakeStale ==
  \E report \in staleReconnect :
  /\ loop = "select"
  /\ staleReconnect' = {}
  /\ \/ LogoutPending /\ StopsLoggedOut /\ UNCHANGED <<socket, proved, reports, dial>>
     \/ /\ ~LogoutPending /\ ~report.since
        /\ UNCHANGED <<socket, proved, reports, loggedOut, loopVars>>
     \/ /\ ~LogoutPending /\ report.since
        /\ socket' = None
        /\ TakesEpoch /\ Reconnects
        /\ UNCHANGED loggedOut
  /\ UNCHANGED <<redials, revoked, calls, disconnected, ctx, quiet, mode>>

\* Only follow mode keeps an epoch.
TakeDisconnected ==
  /\ loop = "select" /\ disconnected
  /\ disconnected' = FALSE
  /\ \/ LogoutPending /\ StopsLoggedOut /\ UNCHANGED <<proved, reports, staleReconnect, dial>>
     \/ /\ ~LogoutPending
        /\ Reconnects
        /\ IF Follow
           THEN TakesEpoch /\ staleReconnect' = {Aged(r) : r \in staleReconnect}
           ELSE UNCHANGED <<proved, reports, staleReconnect>>
        /\ UNCHANGED loggedOut
  /\ UNCHANGED <<socket, redials, revoked, calls, ctx, quiet, mode>>

TakeLoggedOut ==
  /\ loop = "select" /\ loggedOut
  /\ StopsLoggedOut
  /\ UNCHANGED <<linkVars, callVars, disconnected, staleReconnect, dial, ctx, quiet, mode>>

Interrupted ==
  /\ loop = "select"
  /\ \/ ~ctx /\ Stops("signal")
     \/ ~Follow /\ quiet /\ Stops("idle")
  /\ UNCHANGED <<linkVars, callVars, channelVars, dial, ctx, quiet, mode>>

\* ReconnectWithBackoff: a connection that is there counts as made; a dial may
\* fail and is tried again.
DialFinds ==
  /\ dial = "trying" /\ socket # None
  /\ dial' = "ok"
  /\ UNCHANGED <<linkVars, callVars, channelVars, loop, outcome, ctx, quiet, mode>>

DialConnects ==
  /\ dial = "trying" /\ socket = None
  /\ dial' = "ok"
  /\ Opens
  /\ UNCHANGED <<redials, revoked, calls, disconnected, loggedOut, loop, outcome, ctx, quiet, mode>>

\* Its context has ended: the sync's, or the loop's own for a logout.
DialEnds ==
  /\ dial = "trying"
  /\ ~ctx \/ loop = "cancelling"
  /\ dial' = "failed"
  /\ UNCHANGED <<linkVars, callVars, channelVars, loop, outcome, ctx, quiet, mode>>

\* --max-reconnect is over.
DialGivesUp ==
  /\ dial = "trying"
  /\ dial' = "failed"
  /\ UNCHANGED <<linkVars, callVars, channelVars, loop, outcome, ctx, quiet, mode>>

LogoutCancels ==
  /\ loop = "reconnect" /\ loggedOut
  /\ loggedOut' = FALSE
  /\ loop' = "cancelling"
  /\ UNCHANGED <<linkVars, callVars, disconnected, staleReconnect, dial, outcome, ctx, quiet, mode>>

CollectsDial == dial \in {"ok", "failed"} /\ dial' = "off"

DialCancelled ==
  /\ loop = "cancelling"
  /\ CollectsDial
  /\ Stops("logged_out")
  /\ UNCHANGED <<linkVars, callVars, channelVars, ctx, quiet, mode>>

\* The logout wins over the end of the dial.
DialDone ==
  /\ loop = "reconnect"
  /\ CollectsDial
  /\ \/ LogoutPending /\ StopsLoggedOut
     \/ /\ ~LogoutPending /\ UNCHANGED loggedOut
        /\ IF dial = "ok" THEN loop' = "select" /\ UNCHANGED outcome
           ELSE Stops(IF ctx THEN "error" ELSE "interrupted")
  /\ UNCHANGED <<linkVars, callVars, disconnected, staleReconnect, ctx, quiet, mode>>

-----------------------------------------------------------------------------
World ==
  \/ Lost \/ Replaced \/ Closes \/ PeerGone \/ PeerBack \/ KeepAliveSucceeds \/ KeepAliveFails
  \/ GivenUp \/ Redials \/ Revoke \/ TellsRevoked \/ Signal \/ Quiet
Callbacks ==
  \/ OnDisconnected \/ OnReplaced \/ OnReplacedClosed \/ OnLoggedOut
  \/ \E r \in reports : OnKeepAliveTimeout(r)
Dial == DialFinds \/ DialConnects \/ DialEnds \/ DialGivesUp
Loop ==
  \/ SetUp \/ TakeStale \/ TakeDisconnected \/ TakeLoggedOut \/ Interrupted
  \/ LogoutCancels \/ DialCancelled \/ DialDone

Next == World \/ Callbacks \/ Dial \/ Loop

Spec == Init /\ [][Next]_vars

\* Goroutines run, and a select that finds a channel ready again and again
\* takes from it some day.  A dial whose context has ended returns.  The network
\* owes nothing.
Fairness ==
  /\ WF_vars(OnLoggedOut) /\ WF_vars(SetUp) /\ WF_vars(LogoutCancels)
  /\ WF_vars(DialCancelled) /\ WF_vars(DialDone) /\ WF_vars(DialFinds \/ DialEnds)
  /\ SF_vars(TakeLoggedOut)
FairSpec == Spec /\ Fairness

-----------------------------------------------------------------------------
(* What the loop promises. *)

TypeOK ==
  /\ mode \in Modes
  /\ socket \in {None, "open", "half", "closing"}
  /\ {redials, revoked, proved, disconnected, loggedOut, ctx, quiet} \subseteq BOOLEAN
  /\ calls \in [Kinds -> 0 .. MaxCalls] /\ reports \subseteq Reports
  /\ staleReconnect \subseteq Reports
  /\ loop \in {"setup", "select", "reconnect", "cancelling", "stopped"}
  /\ dial \in {"off", "trying", "ok", "failed"}
  /\ dial # "off" <=> loop \in {"reconnect", "cancelling"}
  /\ outcome \in {None, "signal", "logged_out", "idle", "error", "interrupted"}

\* The loop never sleeps without a connection: if it waits and nobody else is
\* about to reconnect, then a token is there or a callback on its way to
\* leave one, in whatever order the callbacks run.
NeverAsleepDisconnected ==
  loop = "select" /\ socket = None =>
    \/ disconnected \/ loggedOut \/ redials
    \/ \E k \in Kinds : calls[k] > 0

\* A keepalive report only ever closes the connection it is about, and never
\* one that has been made since.
KeepsFresh ==
  staleReconnect' = {} /\ loop' = "reconnect" => \A r \in staleReconnect : r.current

\* Once the logout is signalled no reconnect begins and the run does not fail
\* (docs/sync.md:23: "cancels any reconnect already in progress, and exits cleanly").
LogoutWins ==
  loggedOut /\ loop # "stopped" =>
    /\ loop' = "reconnect" => loop = "reconnect"
    /\ loop' = "stopped" => outcome' # "error"

\* The loop reconnects what is broken, and nothing else.
ReconnectsAreDue == [][KeepsFresh /\ LogoutWins]_vars

\* A logout that whatsmeow reports ends the loop, also while it dials.
LogoutEnds == loggedOut \/ calls["loggedOut"] > 0 ~> loop = "stopped"
=============================================================================
