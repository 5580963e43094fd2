--------------------------- MODULE SyncLoop_proofs ---------------------------
(***************************************************************************)
(* Proofs about SyncLoop, for any mix of modes and any number of callbacks *)
(* under way: the loop is woken when nobody else reconnects, closes only   *)
(* what is broken, and lets the logout win. Then about the modules that    *)
(* SyncParts puts beside it: Webhook, whose totals account for every       *)
(* stored message, and Backfill, which keeps every reply.                  *)
(***************************************************************************)
EXTENDS SyncParts, Integers, SequenceTheorems, TLAPS

\* A token is there, or somebody is about to leave one or to reconnect.
Awake ==
  \/ disconnected \/ loggedOut \/ redials
  \/ \E k \in Kinds : calls[k] > 0

\* Where the loop waits, or will without looking again.
Sleeps == loop \in {"setup", "select"} \/ (loop = "reconnect" /\ dial = "ok")

\* A replaced stream is still open only while its callback is under way.
WakeInv ==
  /\ Sleeps /\ socket = None => Awake
  /\ socket = "closing" => calls["replaced"] > 0

\* Reports are made with a threshold only, where whatsmeow does not redial; one that is
\* not from before the last epoch is about the connection that is there; while the loop
\* dials there is none of that kind.
FreshInv ==
  /\ ~Stale => reports = {} /\ staleReconnect = {}
  /\ Stale => ~redials
  /\ \A r \in reports \cup staleReconnect : r.since => r.current /\ dial # "trying"
  /\ \A r, q \in staleReconnect : r = q

IInv == TypeOK /\ WakeInv /\ FreshInv

-----------------------------------------------------------------------------
(* Types. *)

\* Tokens and flags are booleans, and callbacks are counted.
LEMMA Types ==
  ASSUME TypeOK
  PROVE  /\ redials \in BOOLEAN /\ revoked \in BOOLEAN /\ proved \in BOOLEAN /\ disconnected \in BOOLEAN
         /\ loggedOut \in BOOLEAN /\ ctx \in BOOLEAN /\ quiet \in BOOLEAN
         /\ \A k \in Kinds : calls[k] \in Nat /\ calls[k] <= MaxCalls
         /\ \A r \in reports \cup staleReconnect : r \in Reports /\ r.since \in BOOLEAN /\ r.current \in BOOLEAN
<1>1. \A k \in Kinds : calls[k] \in 0 .. MaxCalls  BY DEF TypeOK
<1>2. \A r \in Reports : r.since \in BOOLEAN /\ r.current \in BOOLEAN  BY DEF Reports
<1>. QED  BY <1>1, <1>2, MaxCallsAssumption DEF TypeOK

\* One callback more, and one less.
LEMMA CallTypes ==
  ASSUME TypeOK, NEW k \in Kinds
  PROVE  /\ calls[k] < MaxCalls => [calls EXCEPT ![k] = @ + 1] \in [Kinds -> 0 .. MaxCalls]
         /\ calls[k] > 0 => [calls EXCEPT ![k] = @ - 1] \in [Kinds -> 0 .. MaxCalls]
<1>1. calls \in [Kinds -> 0 .. MaxCalls]  BY DEF TypeOK
<1>2. calls[k] < MaxCalls => calls[k] + 1 \in 0 .. MaxCalls  BY Types, MaxCallsAssumption
<1>3. calls[k] > 0 => calls[k] - 1 \in 0 .. MaxCalls  BY Types, MaxCallsAssumption
<1>. QED  BY <1>1, <1>2, <1>3

\* What ages or is superseded stays a report.
LEMMA ReportTypes ==
  ASSUME TypeOK
  PROVE  /\ {Superseded(r) : r \in reports} \subseteq Reports
         /\ {Superseded(r) : r \in staleReconnect} \subseteq Reports
         /\ {Aged(r) : r \in reports} \subseteq Reports
         /\ {Aged(r) : r \in staleReconnect} \subseteq Reports
<1>1. \A r \in Reports : Superseded(r) \in Reports /\ Aged(r) \in Reports
  BY DEF Reports, Superseded, Aged
<1>. QED  BY <1>1 DEF TypeOK

LEMMA InitInv == Init => IInv
<1>. SUFFICES ASSUME Init PROVE IInv  OBVIOUS
<1>. USE DEF Init
<1>1. TypeOK
  <2>1. calls \in [Kinds -> 0 .. MaxCalls]  BY MaxCallsAssumption
  <2>2. {redials, revoked, proved, disconnected, loggedOut, ctx, quiet} \subseteq BOOLEAN  OBVIOUS
  <2>. QED  BY <2>1, <2>2 DEF TypeOK, None
<1>2. WakeInv  BY DEF WakeInv, None
<1>3. FreshInv  BY DEF FreshInv
<1>. QED  BY <1>1, <1>2, <1>3 DEF IInv

LEMMA TypeStep ==
  ASSUME TypeOK, [Next]_vars
  PROVE  TypeOK'
<1>. USE DEF linkVars, callVars, channelVars, loopVars, worldRest
<1>1. CASE Lost \/ Replaced
  <2>1. calls' \in [Kinds -> 0 .. MaxCalls]  BY <1>1, CallTypes DEF Lost, Replaced, Call, Kinds
  <2>2. redials' \in BOOLEAN  BY <1>1, Types DEF Lost, Replaced
  <2>. QED  BY <1>1, <2>1, <2>2 DEF Lost, Replaced, TypeOK, None
<1>2. CASE Closes \/ PeerGone \/ PeerBack \/ KeepAliveSucceeds \/ GivenUp \/ Revoke \/ Signal
  <2>1. CASE Closes  BY <2>1 DEF Closes, TypeOK, None
  <2>2. CASE PeerGone  BY <2>2 DEF PeerGone, TypeOK, None
  <2>3. CASE PeerBack \/ KeepAliveSucceeds  BY <2>3 DEF PeerBack, KeepAliveSucceeds, TypeOK, None
  <2>4. CASE GivenUp \/ Revoke \/ Signal  BY <2>4 DEF GivenUp, Revoke, Signal, TypeOK, None
  <2>. QED  BY <1>2, <2>1, <2>2, <2>3, <2>4
<1>3. CASE Quiet
  BY <1>3, Types DEF Quiet, TypeOK
<1>4. CASE KeepAliveFails
  <2>1. [since |-> proved, current |-> TRUE] \in Reports  BY Types DEF Reports
  <2>. QED  BY <1>4, <2>1 DEF KeepAliveFails, TypeOK
<1>5. CASE Redials
  BY <1>5, ReportTypes DEF Redials, Opens, TypeOK
<1>6. CASE TellsRevoked
  <2>1. PICK both \in BOOLEAN :
          /\ calls["loggedOut"] < MaxCalls /\ (both => calls["disconnected"] < MaxCalls)
          /\ calls' = [calls EXCEPT !["loggedOut"] = @ + 1, !["disconnected"] = IF both THEN @ + 1 ELSE @]
    BY <1>6 DEF TellsRevoked
  <2>2. calls["loggedOut"] + 1 \in 0 .. MaxCalls
    BY <2>1, Types, MaxCallsAssumption DEF Kinds
  <2>3. (IF both THEN calls["disconnected"] + 1 ELSE calls["disconnected"]) \in 0 .. MaxCalls
    BY <2>1, Types, MaxCallsAssumption DEF Kinds
  <2>4. calls' \in [Kinds -> 0 .. MaxCalls]  BY <2>1, <2>2, <2>3 DEF TypeOK, Kinds
  <2>. QED  BY <1>6, <2>4 DEF TellsRevoked, TypeOK, None
<1>7. CASE OnDisconnected \/ OnLoggedOut
  <2>1. calls' \in [Kinds -> 0 .. MaxCalls]
    BY <1>7, CallTypes DEF OnDisconnected, OnLoggedOut, Returns, Kinds
  <2>. QED  BY <1>7, <2>1 DEF OnDisconnected, OnLoggedOut, LeavesLogout, TypeOK
<1>8. CASE OnReplaced
  <2>1. calls["replaced"] - 1 \in 0 .. MaxCalls /\ calls["replacedClosed"] + 1 \in 0 .. MaxCalls
    BY <1>8, Types, MaxCallsAssumption DEF OnReplaced, Kinds
  <2>2. calls' \in [Kinds -> 0 .. MaxCalls]  BY <1>8, <2>1 DEF OnReplaced, TypeOK, Kinds
  <2>. QED  BY <1>8, <2>2 DEF OnReplaced, ClosesFirst, TypeOK, None
<1>9. CASE OnReplacedClosed
  <2>1. calls' \in [Kinds -> 0 .. MaxCalls]
    BY <1>9, CallTypes DEF OnReplacedClosed, Returns, Kinds
  <2>. QED  BY <1>9, <2>1 DEF OnReplacedClosed, ClosesFirst, TypeOK
<1>10. ASSUME NEW r \in reports, OnKeepAliveTimeout(r) PROVE TypeOK'
  BY <1>10 DEF OnKeepAliveTimeout, TypeOK
<1>11. CASE SetUp \/ TakeLoggedOut \/ Interrupted \/ LogoutCancels
  BY <1>11 DEF SetUp, TakeLoggedOut, StopsLoggedOut, Interrupted, LogoutCancels, Stops, TypeOK, None
<1>12. CASE TakeStale
  BY <1>12, ReportTypes DEF TakeStale, StopsLoggedOut, Stops, TakesEpoch, Reconnects, TypeOK, None
<1>13. CASE TakeDisconnected
  BY <1>13, ReportTypes DEF TakeDisconnected, StopsLoggedOut, Stops, TakesEpoch, Reconnects, TypeOK, None
<1>14. CASE DialFinds \/ DialEnds \/ DialGivesUp
  BY <1>14 DEF DialFinds, DialEnds, DialGivesUp, TypeOK
<1>15. CASE DialConnects
  BY <1>15, ReportTypes DEF DialConnects, Opens, TypeOK
<1>16. CASE DialCancelled \/ DialDone
  BY <1>16 DEF DialCancelled, DialDone, CollectsDial, StopsLoggedOut, Stops, TypeOK, None
<1>17. CASE UNCHANGED vars
  BY <1>17 DEF vars, TypeOK
<1>. QED
  BY <1>1, <1>2, <1>3, <1>4, <1>5, <1>6, <1>7, <1>8, <1>9, <1>10, <1>11, <1>12, <1>13, <1>14, <1>15, <1>16, <1>17
  DEF Next, World, Callbacks, Dial, Loop

-----------------------------------------------------------------------------
(* Somebody wakes the loop. *)

\* Callbacks that come, or leave their token, keep it awake.
LEMMA StaysAwake ==
  ASSUME TypeOK, WakeInv,
         disconnected => disconnected', loggedOut => loggedOut', redials => redials',
         \A k \in Kinds : calls[k] > 0 => calls'[k] > 0,
         socket' = None => socket = None \/ Awake', Sleeps' => Sleeps,
         socket' = "closing" => socket = "closing"
  PROVE  WakeInv'
<1>1. Awake => Awake'  BY DEF Awake
<1>2. "replaced" \in Kinds  BY DEF Kinds
<1>. QED  BY <1>1, <1>2 DEF WakeInv

LEMMA WakeStep ==
  ASSUME IInv, [Next]_vars
  PROVE  WakeInv'
<1>. TypeOK /\ WakeInv  BY DEF IInv
<1>. USE DEF linkVars, callVars, channelVars, loopVars, worldRest
<1>1. CASE Lost \/ Replaced \/ TellsRevoked
  <2>1. \A k \in Kinds : calls'[k] >= calls[k] /\ calls'[k] \in Nat
    <3>1. CASE Lost \/ Replaced
      BY <3>1, Types DEF Lost, Replaced, Call, TypeOK, Kinds
    <3>2. CASE TellsRevoked
      BY <3>2, Types DEF TellsRevoked, TypeOK, Kinds
    <3>. QED  BY <1>1, <3>1, <3>2
  <2>2. \/ calls'["disconnected"] > 0 /\ socket' # "closing"
        \/ calls'["replaced"] > 0
        \/ calls'["loggedOut"] > 0 /\ socket' # "closing"
    <3>1. CASE Lost  BY <3>1, Types DEF Lost, Call, TypeOK, Kinds, None
    <3>2. CASE Replaced  BY <3>2, Types DEF Replaced, Call, TypeOK, Kinds
    <3>3. CASE TellsRevoked  BY <3>3, Types DEF TellsRevoked, TypeOK, Kinds, None
    <3>. QED  BY <1>1, <3>1, <3>2, <3>3
  <2>3. Awake'  BY <2>2 DEF Awake, Kinds
  <2>. QED  BY <2>2, <2>3 DEF WakeInv
<1>2. CASE Closes
  <2>1. Awake'  BY <1>2 DEF Closes, WakeInv, Awake, Kinds
  <2>. QED  BY <1>2, <2>1 DEF Closes, WakeInv, None
<1>3. CASE GivenUp
  BY <1>3 DEF GivenUp, WakeInv, Awake, None
<1>4. CASE PeerGone \/ PeerBack \/ Redials \/ DialConnects
  BY <1>4 DEF PeerGone, PeerBack, Redials, DialConnects, Opens, WakeInv, None
<1>5. CASE KeepAliveSucceeds \/ KeepAliveFails \/ Revoke \/ Signal \/ Quiet
  <2>1. UNCHANGED <<socket, loop, dial, disconnected, loggedOut, redials, calls>>
    BY <1>5 DEF KeepAliveSucceeds, KeepAliveFails, Revoke, Signal, Quiet
  <2>. QED  BY <2>1, StaysAwake DEF Sleeps
<1>6. CASE OnDisconnected
  <2>1. disconnected' /\ UNCHANGED socket /\ calls'["replaced"] = calls["replaced"]
    BY <1>6 DEF OnDisconnected, Returns, TypeOK, Kinds
  <2>. QED  BY <2>1 DEF WakeInv, Awake
<1>7. CASE OnReplaced
  <2>1. socket' = None /\ calls'["replacedClosed"] > 0
    BY <1>7, Types DEF OnReplaced, ClosesFirst, TypeOK, Kinds
  <2>. QED  BY <2>1 DEF WakeInv, Awake, Kinds, None
<1>8. CASE OnReplacedClosed
  <2>1. disconnected' /\ UNCHANGED socket /\ calls'["replaced"] = calls["replaced"]
    BY <1>8 DEF OnReplacedClosed, ClosesFirst, Returns, TypeOK, Kinds
  <2>. QED  BY <2>1 DEF WakeInv, Awake
<1>9. CASE OnLoggedOut
  <2>1. loggedOut' /\ UNCHANGED socket /\ calls'["replaced"] = calls["replaced"]
    BY <1>9 DEF OnLoggedOut, LeavesLogout, Returns, TypeOK, Kinds
  <2>. QED  BY <2>1 DEF WakeInv, Awake
<1>10. ASSUME NEW r \in reports, OnKeepAliveTimeout(r) PROVE WakeInv'
  <2>1. UNCHANGED <<socket, loop, dial, disconnected, loggedOut, redials, calls>>
    BY <1>10 DEF OnKeepAliveTimeout
  <2>. QED  BY <2>1, StaysAwake DEF Sleeps
<1>11. CASE SetUp
  <2>1. UNCHANGED <<socket, disconnected, loggedOut, redials, calls>> /\ Sleeps
    BY <1>11 DEF SetUp, Sleeps
  <2>. QED  BY <2>1, StaysAwake
<1>12. CASE TakeStale
  <2>1. CASE loop' = loop /\ UNCHANGED <<socket, dial, disconnected, loggedOut, redials, calls>>
    BY <2>1, StaysAwake DEF Sleeps
  <2>2. CASE loop' = "stopped" /\ UNCHANGED <<socket, calls>>
    BY <2>2 DEF WakeInv, Sleeps
  <2>3. CASE loop' = "reconnect" /\ dial' = "trying" /\ socket' = None
    BY <2>3 DEF WakeInv, Sleeps, None
  <2>. QED  BY <1>12, <2>1, <2>2, <2>3 DEF TakeStale, StopsLoggedOut, Stops, Reconnects
<1>13. CASE TakeDisconnected
  <2>1. ~Sleeps' /\ UNCHANGED <<socket, calls>>
    BY <1>13 DEF TakeDisconnected, StopsLoggedOut, Stops, Reconnects, Sleeps
  <2>. QED  BY <2>1 DEF WakeInv
<1>14. CASE TakeLoggedOut \/ Interrupted \/ LogoutCancels \/ DialCancelled
  <2>1. ~Sleeps' /\ UNCHANGED <<socket, calls>>
    BY <1>14 DEF TakeLoggedOut, StopsLoggedOut, Stops, Interrupted, LogoutCancels, DialCancelled, Sleeps
  <2>. QED  BY <2>1 DEF WakeInv
<1>15. CASE DialFinds
  BY <1>15 DEF DialFinds, WakeInv
<1>16. CASE DialEnds \/ DialGivesUp
  <2>1. ~Sleeps' /\ UNCHANGED <<socket, calls>>
    BY <1>16 DEF DialEnds, DialGivesUp, Sleeps, TypeOK
  <2>. QED  BY <2>1 DEF WakeInv
<1>17. CASE DialDone
  <2>1. CASE loop' = "stopped" /\ UNCHANGED <<socket, calls>>
    BY <2>1 DEF WakeInv, Sleeps
  <2>2. CASE dial = "ok" /\ UNCHANGED <<socket, disconnected, loggedOut, redials, calls>>
    <3>1. Sleeps  BY <1>17, <2>2 DEF DialDone, Sleeps
    <3>. QED  BY <2>2, <3>1, StaysAwake
  <2>. QED  BY <1>17, <2>1, <2>2 DEF DialDone, StopsLoggedOut, Stops
<1>18. CASE UNCHANGED vars
  BY <1>18, StaysAwake DEF vars, Sleeps
<1>. QED
  BY <1>1, <1>2, <1>3, <1>4, <1>5, <1>6, <1>7, <1>8, <1>9, <1>10, <1>11, <1>12, <1>13, <1>14, <1>15, <1>16, <1>17,
     <1>18
  DEF Next, World, Callbacks, Dial, Loop

-----------------------------------------------------------------------------
(* Reports are about the connection they close. *)

\* Reports that are only superseded, aged or taken away.
LEMMA StaysFresh ==
  ASSUME TypeOK, FreshInv, UNCHANGED mode, Stale => ~redials',
         reports' \subseteq reports, staleReconnect' \subseteq staleReconnect, dial' = "trying" => dial = "trying"
  PROVE  FreshInv'
BY DEF FreshInv, Stale

LEMMA OpensFresh ==
  ASSUME TypeOK, FreshInv, UNCHANGED mode, Stale => ~redials', Opens, dial' # "trying",
         ~Stale \/ \A r \in reports \cup staleReconnect : ~r.since
  PROVE  FreshInv'
<1>1. \A r \in reports \cup staleReconnect : Superseded(r).since = r.since
  BY Types DEF Superseded, Reports
<1>2. \A r \in reports' \cup staleReconnect' : ~r.since  BY <1>1 DEF Opens, FreshInv
<1>3. \A r, q \in staleReconnect' : r = q  BY DEF Opens, FreshInv
<1>4. ~Stale => reports' = {} /\ staleReconnect' = {}  BY DEF Opens, FreshInv
<1>. QED  BY <1>2, <1>3, <1>4 DEF FreshInv, Stale

LEMMA FreshStep ==
  ASSUME IInv, [Next]_vars
  PROVE  FreshInv'
<1>. TypeOK /\ FreshInv  BY DEF IInv
<1>. USE DEF linkVars, callVars, channelVars, loopVars, worldRest
<1>1. CASE Lost \/ GivenUp \/ TellsRevoked
  BY <1>1, StaysFresh DEF Lost, GivenUp, TellsRevoked
<1>2. CASE \/ Replaced \/ Closes \/ PeerGone \/ PeerBack \/ KeepAliveSucceeds \/ Revoke \/ Signal \/ Quiet
           \/ OnDisconnected \/ OnReplaced \/ OnReplacedClosed \/ OnLoggedOut \/ SetUp \/ TakeLoggedOut \/ Interrupted
           \/ DialFinds \/ DialEnds \/ DialGivesUp \/ LogoutCancels \/ DialCancelled \/ DialDone \/ UNCHANGED vars
  <2>1. UNCHANGED <<mode, redials, reports, staleReconnect>> /\ (dial' = "trying" => dial = "trying")
    BY <1>2
    DEF Replaced, Closes, PeerGone, PeerBack, KeepAliveSucceeds, Revoke, Signal, Quiet, OnDisconnected, OnReplaced,
        OnReplacedClosed, OnLoggedOut, SetUp, TakeLoggedOut, StopsLoggedOut, Stops, Interrupted, DialFinds, DialEnds,
        DialGivesUp, LogoutCancels, DialCancelled, DialDone, CollectsDial, vars
  <2>. QED  BY <2>1, StaysFresh DEF FreshInv
<1>3. CASE KeepAliveFails
  <2>1. /\ Stale /\ (dial = "trying" => ~proved) /\ UNCHANGED <<mode, redials, staleReconnect, dial>>
        /\ reports' = reports \cup {[since |-> proved, current |-> TRUE]}
    BY <1>3 DEF KeepAliveFails
  <2>. QED  BY <2>1 DEF FreshInv, Stale
<1>4. CASE Redials
  <2>1. ~Stale /\ (dial # "trying" \/ (reports = {} /\ staleReconnect = {}))
    BY <1>4 DEF Redials, FreshInv
  <2>2. ~Stale /\ UNCHANGED <<mode, dial>> /\ Opens  BY <1>4, <2>1 DEF Redials
  <2>3. reports' = {} /\ staleReconnect' = {}  BY <2>2 DEF Opens, FreshInv
  <2>. QED  BY <2>2, <2>3 DEF FreshInv, Stale
<1>5. ASSUME NEW r \in reports, OnKeepAliveTimeout(r) PROVE FreshInv'
  BY <1>5 DEF OnKeepAliveTimeout, FreshInv, Stale
<1>6. CASE TakeStale
  <2>1. CASE reports' = reports /\ dial' = dial
    BY <1>6, <2>1, StaysFresh DEF TakeStale, FreshInv
  <2>2. CASE TakesEpoch
    <3>1. \A r \in reports' : ~r.since  BY <2>2, Types DEF TakesEpoch, Aged, Reports
    <3>. QED  BY <1>6, <2>2, <3>1 DEF TakeStale, TakesEpoch, FreshInv, Stale
  <2>. QED  BY <1>6, <2>1, <2>2 DEF TakeStale
<1>7. CASE TakeDisconnected
  <2>1. CASE UNCHANGED <<reports, staleReconnect, dial>>
    BY <1>7, <2>1, StaysFresh DEF TakeDisconnected, FreshInv
  <2>2. CASE TakesEpoch /\ staleReconnect' = {Aged(r) : r \in staleReconnect}
    <3>1. \A r \in reports' \cup staleReconnect' : ~r.since  BY <2>2, Types DEF TakesEpoch, Aged, Reports
    <3>2. /\ \A r, q \in staleReconnect' : r = q
          /\ ~Stale => reports' = {} /\ staleReconnect' = {}
      BY <2>2 DEF TakesEpoch, FreshInv
    <3>. QED  BY <1>7, <3>1, <3>2 DEF TakeDisconnected, FreshInv, Stale
  <2>3. CASE ~Follow /\ UNCHANGED <<reports, staleReconnect>>
    <3>1. ~Stale  BY <2>3 DEF Follow, Stale
    <3>. QED  BY <1>7, <2>3, <3>1 DEF TakeDisconnected, FreshInv, Stale
  <2>. QED  BY <1>7, <2>1, <2>2, <2>3 DEF TakeDisconnected
<1>8. CASE DialConnects
  BY <1>8, OpensFresh DEF DialConnects, FreshInv
<1>. QED
  BY <1>1, <1>2, <1>3, <1>4, <1>5, <1>6, <1>7, <1>8 DEF Next, World, Callbacks, Dial, Loop

-----------------------------------------------------------------------------
LEMMA StepInv == ASSUME IInv, [Next]_vars PROVE IInv'
<1>1. TypeOK  BY DEF IInv
<1>. QED  BY <1>1, TypeStep, WakeStep, FreshStep DEF IInv

\* The inductive invariant holds in every reachable state.
THEOREM Invariance == Spec => []IInv
<1>1. IInv /\ [Next]_vars => IInv'  BY StepInv
<1>. QED  BY InitInv, <1>1, PTL DEF Spec

\* A loop that waits without a connection has somebody to wake it, whatever the order of
\* the callbacks and however many are under way.
THEOREM NeverAsleep == Spec => []NeverAsleepDisconnected
<1>1. IInv => NeverAsleepDisconnected  BY DEF IInv, WakeInv, Sleeps, Awake, NeverAsleepDisconnected
<1>. QED  BY <1>1, Invariance, PTL

\* A report closes the connection that it is about and no later one.
LEMMA FreshKept ==
  ASSUME IInv, Next
  PROVE  KeepsFresh
<1>. TypeOK /\ FreshInv  BY DEF IInv
<1>. SUFFICES ASSUME staleReconnect' = {}, loop' = "reconnect", staleReconnect # {}
              PROVE  \A r \in staleReconnect : r.current
  BY DEF KeepsFresh
<1>. USE DEF linkVars, callVars, channelVars, loopVars, worldRest
<1>1. TakeStale
  <2>1. ~Opens /\ ~TakeDisconnected
    <3>1. {Superseded(r) : r \in staleReconnect} # {} /\ {Aged(r) : r \in staleReconnect} # {}  OBVIOUS
    <3>. QED  BY <3>1 DEF Opens, TakeDisconnected
  <2>2. \A r \in reports : ~OnKeepAliveTimeout(r)  BY DEF OnKeepAliveTimeout
  <2>. QED
    BY <2>1, <2>2
    DEF Next, World, Callbacks, Dial, Loop, Lost, Replaced, Closes, PeerGone, PeerBack, KeepAliveSucceeds,
        KeepAliveFails, GivenUp, Redials, Revoke, TellsRevoked, Signal, Quiet, OnDisconnected, OnReplaced,
        OnReplacedClosed, OnLoggedOut, SetUp, TakeLoggedOut, Interrupted, LogoutCancels, DialCancelled, DialDone,
        DialFinds, DialConnects, DialEnds, DialGivesUp
<1>2. \E r \in staleReconnect : r.since
  BY <1>1 DEF TakeStale, StopsLoggedOut, Stops
<1>. QED  BY <1>2 DEF FreshInv

\* With the logout signalled no reconnect begins and the run does not end in an error.
LEMMA LogoutKept ==
  ASSUME IInv, Next
  PROVE  LogoutWins
<1>. TypeOK  BY DEF IInv
<1>. SUFFICES ASSUME loggedOut, loop # "stopped"
              PROVE  /\ loop' = "reconnect" => loop = "reconnect"
                     /\ loop' = "stopped" => outcome' # "error"
  BY DEF LogoutWins
<1>. USE DEF linkVars, callVars, channelVars, loopVars, worldRest
<1>1. CASE UNCHANGED loop  BY <1>1
<1>2. CASE Loop
  BY <1>2
  DEF Loop, SetUp, TakeStale, TakeDisconnected, TakeLoggedOut, Interrupted, LogoutCancels, DialCancelled, DialDone,
      StopsLoggedOut, Stops, LogoutPending
<1>3. UNCHANGED loop \/ Loop
  BY DEF Next, World, Callbacks, Dial, Lost, Replaced, Closes, PeerGone, PeerBack, KeepAliveSucceeds,
         KeepAliveFails, GivenUp, Redials, Revoke, TellsRevoked, Signal, Quiet, OnDisconnected, OnReplaced,
         OnReplacedClosed, OnLoggedOut, OnKeepAliveTimeout, DialFinds, DialConnects, DialEnds, DialGivesUp
<1>. QED  BY <1>1, <1>2, <1>3

\* The loop closes and reconnects what is broken and nothing else.
THEOREM ReconnectsAreDueAlways == Spec => ReconnectsAreDue
<1>1. IInv /\ [Next]_vars => [KeepsFresh /\ LogoutWins]_vars  BY FreshKept, LogoutKept
<1>. QED  BY <1>1, Invariance, PTL DEF ReconnectsAreDue, Spec

-----------------------------------------------------------------------------
(* Webhook, for any events, any selection and any room in the channel. *)

HookTypes ==
  /\ selected \subseteq Hook!Kinds
  /\ pc \in [Events -> {"new", "called", "stored", "returned"}]
  /\ jobs \in Seq(Events) /\ Len(jobs) <= Cap
  /\ worker \in Events \cup {"idle", "gone"}
  /\ hookCtx \in {"live", "done"}

Waiting(e) == \E i \in DOMAIN jobs : jobs[i] = e

\* No event has two places.
OnePlace ==
  /\ \A i, j \in DOMAIN jobs : jobs[i] = jobs[j] => i = j
  /\ \A e \in Events :
       /\ Waiting(e) => worker # e /\ e \notin posted \cup warned
       /\ worker = e => e \notin posted \cup warned
       /\ e \notin posted \cap warned

\* Handlers forward what they stored, and nothing else has a place.
Forwarded ==
  \A e \in Events :
    /\ pc[e] = "stored" => Kind[e] = "message" /\ e \notin Refused /\ e \in stored
    /\ e \in stored => pc[e] \in {"stored", "returned"}
    /\ Waiting(e) \/ worker = e \/ e \in posted \cup warned => Hook!Eligible(e) /\ pc[e] = "returned"
    /\ Hook!Eligible(e) /\ pc[e] = "returned" /\ hookCtx = "live"
         => Waiting(e) \/ worker = e \/ e \in posted \cup warned

HookInv == HookTypes /\ OnePlace /\ Forwarded

\* One event more at the end of the channel, and one less at its head.
LEMMA AppendJob ==
  ASSUME jobs \in Seq(Events), NEW e \in Events
  PROVE  /\ Append(jobs, e) \in Seq(Events) /\ Len(Append(jobs, e)) = Len(jobs) + 1
         /\ \A x : (\E i \in DOMAIN Append(jobs, e) : Append(jobs, e)[i] = x) <=> Waiting(x) \/ x = e
         /\ (\A i, j \in DOMAIN jobs : jobs[i] = jobs[j] => i = j) /\ ~Waiting(e)
              => \A i, j \in DOMAIN Append(jobs, e) : Append(jobs, e)[i] = Append(jobs, e)[j] => i = j
<1>. DEFINE q == Append(jobs, e)
<1>1. q \in Seq(Events) /\ Len(q) = Len(jobs) + 1 /\ Len(jobs) \in Nat  OBVIOUS
<1>2. DOMAIN jobs = 1 .. Len(jobs) /\ DOMAIN q = 1 .. Len(jobs) + 1  BY <1>1
<1>3. q[Len(jobs) + 1] = e /\ \A i \in 1 .. Len(jobs) : q[i] = jobs[i]  OBVIOUS
<1>4. \A i \in 1 .. Len(jobs) + 1 : i \in 1 .. Len(jobs) \/ i = Len(jobs) + 1  BY <1>1
<1>5. \A x : (\E i \in DOMAIN q : q[i] = x) <=> Waiting(x) \/ x = e
  <2>1. \A i \in 1 .. Len(jobs) : i \in 1 .. Len(jobs) + 1  BY <1>1
  <2>2. Len(jobs) + 1 \in 1 .. Len(jobs) + 1  BY <1>1
  <2>. HIDE DEF q
  <2>. QED  BY <1>2, <1>3, <1>4, <2>1, <2>2, Zenon DEF Waiting
<1>6. ASSUME \A i, j \in DOMAIN jobs : jobs[i] = jobs[j] => i = j, ~Waiting(e)
      PROVE  \A i, j \in DOMAIN q : q[i] = q[j] => i = j
  <2>. HIDE DEF q
  <2>1. \A i \in 1 .. Len(jobs) : jobs[i] # e  BY <1>2, <1>6 DEF Waiting
  <2>. QED  BY <1>2, <1>3, <1>4, <1>6, <2>1, Zenon
<1>. QED  BY <1>1, <1>5, <1>6

LEMMA TakeHead ==
  ASSUME jobs \in Seq(Events), jobs # <<>>
  PROVE  /\ Head(jobs) \in Events /\ Waiting(Head(jobs))
         /\ Tail(jobs) \in Seq(Events) /\ Len(Tail(jobs)) = Len(jobs) - 1
         /\ (\A i, j \in DOMAIN jobs : jobs[i] = jobs[j] => i = j)
              => /\ \A i, j \in DOMAIN Tail(jobs) : Tail(jobs)[i] = Tail(jobs)[j] => i = j
                 /\ \A x : Waiting(x) <=> x = Head(jobs) \/ \E i \in DOMAIN Tail(jobs) : Tail(jobs)[i] = x
                 /\ \A i \in DOMAIN Tail(jobs) : Tail(jobs)[i] # Head(jobs)
<1>. DEFINE q == Tail(jobs)
<1>1. q \in Seq(Events) /\ Len(q) = Len(jobs) - 1 /\ Len(jobs) \in Nat \ {0}  OBVIOUS
<1>2. DOMAIN jobs = 1 .. Len(jobs) /\ DOMAIN q = 1 .. Len(jobs) - 1  BY <1>1
<1>3. Head(jobs) = jobs[1] /\ Head(jobs) \in Events /\ 1 \in DOMAIN jobs  BY <1>1
<1>4. \A i \in DOMAIN q : q[i] = jobs[i + 1] /\ i + 1 \in DOMAIN jobs /\ i + 1 # 1  BY <1>1, <1>2
<1>5. \A i \in DOMAIN jobs : i = 1 \/ (i - 1 \in DOMAIN q /\ q[i - 1] = jobs[i])
  <2>1. \A i \in DOMAIN jobs : i # 1 => i - 1 \in DOMAIN q /\ (i - 1) + 1 = i  BY <1>1, <1>2
  <2>. QED  BY <1>4, <2>1
<1>6. \A i, j \in DOMAIN q : i + 1 = j + 1 => i = j  BY <1>1, <1>2
<1>. HIDE DEF q
<1>7. Waiting(Head(jobs))  BY <1>3 DEF Waiting
<1>8. \A x : Waiting(x) <=> x = Head(jobs) \/ \E i \in DOMAIN q : q[i] = x
  BY <1>3, <1>4, <1>5, Zenon DEF Waiting
<1>9. ASSUME \A i, j \in DOMAIN jobs : jobs[i] = jobs[j] => i = j
      PROVE  /\ \A i, j \in DOMAIN q : q[i] = q[j] => i = j
             /\ \A i \in DOMAIN q : q[i] # Head(jobs)
  BY <1>3, <1>4, <1>6, <1>9, Zenon
<1>. QED  BY <1>1, <1>3, <1>7, <1>8, <1>9, Zenon DEF q

LEMMA HookStarts == ASSUME Hook!Init PROVE HookInv
<1>1. jobs = <<>> /\ jobs \in Seq(Events) /\ Len(jobs) = 0 /\ DOMAIN jobs = {}  BY DEF Hook!Init
<1>2. HookTypes
  BY <1>1, WebhookAssumption DEF Hook!Init, HookTypes, Hook!ParseSyncWebhookEvents, Hook!Kinds
<1>3. \A e \in Events : ~Waiting(e) /\ worker # e /\ e \notin posted \cup warned /\ pc[e] = "new" /\ e \notin stored
  BY <1>1, WebhookAssumption DEF Hook!Init, Waiting
<1>. QED  BY <1>1, <1>2, <1>3 DEF HookInv, OnePlace, Forwarded

\* What an event's handler leaves alone keeps its place.
LEMMA PlacesKept ==
  ASSUME HookInv, UNCHANGED <<jobs, worker, posted, warned>>
  PROVE  OnePlace' /\ \A e \in Events : Waiting(e)' = Waiting(e)
BY DEF HookInv, OnePlace, Waiting

\* The enqueuer gives an event that has no place one, or warns, or the context is done.
LEMMA ForwardKeeps ==
  ASSUME HookInv, NEW e \in Events, Hook!Forward(e), pc[e] \in {"called", "stored"}, e \notin Refused,
         Kind[e] = "message" => e \in stored,
         pc' = [pc EXCEPT ![e] = "returned"], UNCHANGED <<selected, stored, worker, posted, hookCtx>>
  PROVE  HookInv'
<1>. USE DEF HookInv
<1>1. ~Waiting(e) /\ worker # e /\ e \notin posted \cup warned  BY DEF Forwarded
<1>2. pc \in [Events -> {"new", "called", "stored", "returned"}]  BY DEF HookTypes
<1>3. pc' \in [Events -> {"new", "called", "stored", "returned"}]  BY <1>2
<1>4. pc'[e] = "returned" /\ \A x \in Events \ {e} : pc'[x] = pc[x]  BY <1>2
<1>5. \A x \in Events : Hook!Eligible(x)' = Hook!Eligible(x)  BY DEF Hook!Eligible, Hook!Enabled
<1>6. Hook!Eligible(e) <=> Hook!Enabled(e) /\ e \notin NoID  BY DEF Hook!Eligible
<1>7. CASE Hook!Enabled(e) /\ e \notin NoID /\ Len(jobs) < Cap /\ Hook!Queued(e)
  <2>1. jobs' = Append(jobs, e) /\ warned' = warned  BY <1>7 DEF Hook!Queued
  <2>2. /\ jobs' \in Seq(Events) /\ Len(jobs') = Len(jobs) + 1 /\ Len(jobs) \in Nat
        /\ \A x : Waiting(x)' <=> Waiting(x) \/ x = e
        /\ \A i, j \in DOMAIN jobs' : jobs'[i] = jobs'[j] => i = j
    <3>1. jobs \in Seq(Events)  BY DEF HookTypes
    <3>2. \A i, j \in DOMAIN jobs : jobs[i] = jobs[j] => i = j  BY DEF OnePlace
    <3>3. \A x : Waiting(x)' <=> \E i \in DOMAIN jobs' : jobs'[i] = x  BY DEF Waiting
    <3>4. Len(jobs) \in Nat  BY <3>1
    <3>. QED  BY <1>1, <2>1, <3>1, <3>2, <3>3, <3>4, AppendJob
  <2>3. HookTypes'
    <3>1. Len(jobs') <= Cap  BY <1>7, <2>2, WebhookAssumption
    <3>. QED  BY <1>3, <2>2, <3>1 DEF HookTypes
  <2>4. OnePlace'  BY <1>1, <2>1, <2>2 DEF OnePlace
  <2>5. Forwarded'  BY <1>4, <1>5, <1>6, <1>7, <2>1, <2>2 DEF Forwarded
  <2>. QED  BY <2>3, <2>4, <2>5
<1>8. CASE Hook!Enabled(e) /\ e \notin NoID /\ Len(jobs) = Cap /\ hookCtx = "live" /\ Hook!Dropped(e)
  <2>1. jobs' = jobs /\ warned' = warned \cup {e}  BY <1>8 DEF Hook!Dropped
  <2>2. \A x : Waiting(x)' = Waiting(x)  BY <2>1 DEF Waiting
  <2>3. HookTypes'  BY <1>3, <2>1 DEF HookTypes
  <2>4. OnePlace'  BY <1>1, <2>1, <2>2 DEF OnePlace
  <2>5. Forwarded'  BY <1>4, <1>5, <1>6, <1>8, <2>1, <2>2 DEF Forwarded
  <2>. QED  BY <2>3, <2>4, <2>5
<1>9. CASE /\ UNCHANGED <<jobs, warned>>
           /\ hookCtx = "done" \/ ~Hook!Eligible(e)
  <2>1. \A x \in Events : Waiting(x)' = Waiting(x)  BY <1>9, PlacesKept
  <2>2. HookTypes' /\ OnePlace'  BY <1>3, <1>9, PlacesKept DEF HookTypes
  <2>3. Forwarded'  BY <1>1, <1>4, <1>5, <1>9, <2>1 DEF Forwarded
  <2>. QED  BY <2>2, <2>3
<1>. QED  BY <1>6, <1>7, <1>8, <1>9 DEF Hook!Forward, Hook!Enqueue, Hook!LeftOut

\* Steps of one event's handler.
LEMMA HandlerKeeps ==
  ASSUME HookInv, NEW e \in Events, Hook!Called(e) \/ Hook!Handle(e)
  PROVE  HookInv'
<1>. USE DEF HookInv
<1>1. pc \in [Events -> {"new", "called", "stored", "returned"}]  BY DEF HookTypes
<1>2. CASE Hook!Called(e)
  <2>1. /\ pc[e] = "new" /\ pc' = [pc EXCEPT ![e] = "called"]
        /\ UNCHANGED <<selected, stored, jobs, worker, posted, warned, hookCtx>>
    BY <1>2 DEF Hook!Called
  <2>2. HookTypes' /\ OnePlace' /\ \A x \in Events : Waiting(x)' = Waiting(x)
    BY <1>1, <2>1, PlacesKept DEF HookTypes
  <2>3. \A x \in Events : Hook!Eligible(x)' = Hook!Eligible(x)  BY <2>1 DEF Hook!Eligible, Hook!Enabled
  <2>4. pc'[e] = "called" /\ \A x \in Events \ {e} : pc'[x] = pc[x]  BY <1>1, <2>1
  <2>5. Forwarded'  BY <2>1, <2>2, <2>3, <2>4 DEF Forwarded
  <2>. QED  BY <2>2, <2>5
<1>3. CASE Hook!StoreMessage(e)
  <2>1. /\ pc[e] = "called" /\ Kind[e] = "message"
        /\ UNCHANGED <<selected, jobs, worker, posted, warned, hookCtx>>
        /\ \/ e \notin Refused /\ stored' = stored \cup {e} /\ pc' = [pc EXCEPT ![e] = "stored"]
           \/ pc' = [pc EXCEPT ![e] = "returned"] /\ stored' = stored
    BY <1>3 DEF Hook!StoreMessage, Hook!MessageEvent
  <2>2. HookTypes' /\ OnePlace' /\ \A x \in Events : Waiting(x)' = Waiting(x)
    BY <1>1, <2>1, PlacesKept DEF HookTypes
  <2>3. \A x \in Events \ {e} : /\ Hook!Eligible(x)' = Hook!Eligible(x)
                                /\ pc'[x] = pc[x] /\ (x \in stored' <=> x \in stored)
    BY <1>1, <2>1 DEF Hook!Eligible, Hook!Enabled
  <2>4. ~Waiting(e) /\ worker # e /\ e \notin posted \cup warned /\ e \notin stored
    BY <2>1 DEF Forwarded
  <2>5. pc'[e] = "returned" => ~Hook!Eligible(e)' /\ e \notin stored'
    BY <1>1, <2>1, <2>4 DEF Hook!Eligible
  <2>6. pc'[e] \in {"stored", "returned"} /\ (pc'[e] = "stored" => e \in stored' /\ e \notin Refused)
    BY <1>1, <2>1
  <2>7. Forwarded'  BY <2>1, <2>2, <2>3, <2>4, <2>5, <2>6 DEF Forwarded
  <2>. QED  BY <2>2, <2>7
<1>4. CASE Hook!ForwardMessage(e)
  <2>1. e \in stored /\ e \notin Refused  BY <1>4 DEF Hook!ForwardMessage, Forwarded
  <2>. QED  BY <1>4, <2>1, ForwardKeeps DEF Hook!ForwardMessage
<1>5. CASE Hook!ForwardNotice(e)
  <2>1. CASE Hook!ReceiptEvent(e) \/ Hook!ChatPresenceEvent(e)
    <3>1. e \notin Refused  BY <2>1 DEF Hook!ReceiptEvent, Hook!ChatPresenceEvent
    <3>. QED  BY <1>5, <2>1, <3>1, ForwardKeeps DEF Hook!ForwardNotice
  <2>2. CASE ~(Hook!ReceiptEvent(e) \/ Hook!ChatPresenceEvent(e))
    <3>1. /\ pc[e] = "called" /\ pc' = [pc EXCEPT ![e] = "returned"]
          /\ UNCHANGED <<selected, stored, jobs, worker, posted, warned, hookCtx>>
      BY <1>5, <2>2 DEF Hook!ForwardNotice
    <3>2. HookTypes' /\ OnePlace' /\ \A x \in Events : Waiting(x)' = Waiting(x)
      BY <1>1, <3>1, PlacesKept DEF HookTypes
    <3>3. ~Hook!Eligible(e)
      BY <1>5, <2>2
      DEF Hook!ForwardNotice, Hook!Eligible, Hook!Enabled, Hook!ReceiptEvent, Hook!ChatPresenceEvent, HookTypes,
          Hook!Kinds
    <3>4. \A x \in Events : Hook!Eligible(x)' = Hook!Eligible(x)  BY <3>1 DEF Hook!Eligible, Hook!Enabled
    <3>5. pc'[e] = "returned" /\ \A x \in Events \ {e} : pc'[x] = pc[x]  BY <1>1, <3>1
    <3>6. Forwarded'  BY <3>1, <3>2, <3>3, <3>4, <3>5 DEF Forwarded
    <3>. QED  BY <3>2, <3>6
  <2>. QED  BY <2>1, <2>2
<1>. QED  BY <1>2, <1>3, <1>4, <1>5 DEF Hook!Handle

\* Steps of the worker: a job moves from the channel to it, and on to one of the two ends.
LEMMA WorkKeeps ==
  ASSUME HookInv, Hook!Work \/ Hook!WorkerReturns
  PROVE  HookInv'
<1>. USE DEF HookInv
<1>1. UNCHANGED <<selected, pc, stored, hookCtx>>
  BY DEF Hook!Work, Hook!TakeJob, Hook!PostSucceeds, Hook!PostFails, Hook!WorkerReturns
<1>2. \A x \in Events : Hook!Eligible(x)' = Hook!Eligible(x)  BY <1>1 DEF Hook!Eligible, Hook!Enabled
<1>3. CASE Hook!TakeJob
  <2>1. /\ worker = "idle" /\ jobs # <<>> /\ worker' = Head(jobs) /\ jobs' = Tail(jobs)
        /\ UNCHANGED <<posted, warned>>
    BY <1>3 DEF Hook!TakeJob
  <2>2. /\ worker' \in Events /\ Waiting(worker')
        /\ jobs' \in Seq(Events) /\ Len(jobs') = Len(jobs) - 1
        /\ \A i, j \in DOMAIN jobs' : jobs'[i] = jobs'[j] => i = j
        /\ \A x : Waiting(x) <=> x = worker' \/ Waiting(x)'
        /\ ~Waiting(worker)'
    <3>1. jobs \in Seq(Events)  BY DEF HookTypes
    <3>2. \A i, j \in DOMAIN jobs : jobs[i] = jobs[j] => i = j  BY DEF OnePlace
    <3>3. \A x : Waiting(x)' <=> \E i \in DOMAIN jobs' : jobs'[i] = x  BY DEF Waiting
    <3>. QED  BY <2>1, <3>1, <3>2, <3>3, TakeHead
  <2>3. \A e \in Events : worker # e  BY <2>1, WebhookAssumption
  <2>4. HookTypes'
    <3>1. Len(jobs') <= Cap  BY <2>2, WebhookAssumption DEF HookTypes
    <3>. QED  BY <1>1, <2>2, <3>1 DEF HookTypes
  <2>5. OnePlace'  BY <2>1, <2>2, <2>3 DEF OnePlace
  <2>6. Forwarded'  BY <1>1, <1>2, <2>1, <2>2, <2>3 DEF Forwarded
  <2>. QED  BY <2>4, <2>5, <2>6
<1>4. CASE /\ worker \in Events /\ worker' = "idle" /\ jobs' = jobs
           /\ \/ posted' = posted \cup {worker} /\ warned' = warned
              \/ warned' = warned \cup {worker} /\ posted' = posted
  <2>1. \A x : Waiting(x)' = Waiting(x)  BY <1>4 DEF Waiting
  <2>2. \A e \in Events : worker' # e  BY <1>4, WebhookAssumption
  <2>3. HookTypes'  BY <1>1, <1>4 DEF HookTypes
  <2>4. OnePlace'  BY <1>4, <2>1, <2>2 DEF OnePlace
  <2>5. Forwarded'  BY <1>1, <1>2, <1>4, <2>1, <2>2 DEF Forwarded
  <2>. QED  BY <2>3, <2>4, <2>5
<1>5. CASE Hook!WorkerReturns
  <2>1. worker = "idle" /\ worker' = "gone" /\ UNCHANGED <<jobs, posted, warned>>  BY <1>5 DEF Hook!WorkerReturns
  <2>2. \A x : Waiting(x)' = Waiting(x)  BY <2>1 DEF Waiting
  <2>3. \A e \in Events : worker # e /\ worker' # e  BY <2>1, WebhookAssumption
  <2>4. HookTypes'  BY <1>1, <2>1 DEF HookTypes
  <2>5. OnePlace'  BY <2>1, <2>2, <2>3 DEF OnePlace
  <2>6. Forwarded'  BY <1>1, <1>2, <2>1, <2>2, <2>3 DEF Forwarded
  <2>. QED  BY <2>4, <2>5, <2>6
<1>6. Hook!Busy => worker \in Events  BY DEF HookTypes, Hook!Busy
<1>. QED  BY <1>3, <1>4, <1>5, <1>6 DEF Hook!Work, Hook!PostSucceeds, Hook!PostFails

LEMMA HookKeeps == ASSUME HookInv, [Hook!Next]_(Hook!vars) PROVE HookInv'
<1>1. CASE UNCHANGED <<selected, pc, stored, jobs, worker, posted, warned>> /\ hookCtx' \in {hookCtx, "done"}
  <2>1. HookTypes' /\ OnePlace' /\ \A x \in Events : Waiting(x)' = Waiting(x)
    BY <1>1, PlacesKept DEF HookInv, HookTypes
  <2>2. \A x \in Events : Hook!Eligible(x)' = Hook!Eligible(x)  BY <1>1 DEF Hook!Eligible, Hook!Enabled
  <2>3. Forwarded'  BY <1>1, <2>1, <2>2 DEF HookInv, Forwarded
  <2>. QED  BY <2>1, <2>3 DEF HookInv
<1>2. Hook!Cancel \/ Hook!RemoveHandler \/ Hook!StopWebhook \/ UNCHANGED Hook!vars => HookInv'
  BY <1>1 DEF Hook!Cancel, Hook!RemoveHandler, Hook!StopWebhook, Hook!vars
<1>. QED  BY <1>2, HandlerKeeps, WorkKeeps DEF Hook!Next

LEMMA HookAccounts == ASSUME HookInv PROVE Hook!StoredAreAccounted
<1>1. SUFFICES ASSUME NEW e \in Events
               PROVE  /\ Hook!Eligible(e) /\ pc[e] = "returned" /\ hookCtx = "live"
                            => \E p \in Hook!Places(e) : Hook!Places(e) = {p}
                      /\ Hook!Places(e) # {} => Hook!Eligible(e) /\ pc[e] = "returned"
  BY DEF Hook!StoredAreAccounted
<1>2. Hook!Places(e) = {p \in {"jobs", "worker", "posted", "warned"} :
                         \/ p = "jobs" /\ Waiting(e)
                         \/ p = "worker" /\ worker = e
                         \/ p = "posted" /\ e \in posted
                         \/ p = "warned" /\ e \in warned}
  BY DEF Hook!Places, Waiting, Hook!ToSet
<1>3. Hook!Places(e) # {} <=> Waiting(e) \/ worker = e \/ e \in posted \cup warned  BY <1>2
<1>4. \A p, q \in Hook!Places(e) : p = q  BY <1>2 DEF HookInv, OnePlace
<1>5. Hook!Places(e) # {} => \E p \in Hook!Places(e) : Hook!Places(e) = {p}  BY <1>4
<1>. QED  BY <1>3, <1>5 DEF HookInv, Forwarded

\* Whatever the events, the selection and the room in the channel: while the sync lives
\* no selected event is lost, posted twice or posted beside a warning, and nothing is
\* forwarded that was not stored.
THEOREM StoredAreAccountedAlways == (Hook!Spec => []Hook!StoredAreAccounted) /\ (SyncSpec => []StoredAreAccounted)
<1>. DEFINE Part == part = "webhook" => HookInv
<1>1. SyncInit => Part  BY HookStarts DEF SyncInit
<1>2. Part /\ [SyncNext]_syncVars => Part'
  <2>1. [SyncNext]_syncVars => part' = part /\ (part = "webhook" => [Hook!Next]_(Hook!vars))
    BY DEF SyncNext, syncVars, hookVars, Hook!vars
  <2>. QED  BY <2>1, HookKeeps
<1>3. Part => StoredAreAccounted  BY HookAccounts DEF StoredAreAccounted
<1>4. Hook!Spec => []Hook!StoredAreAccounted
  BY HookStarts, HookKeeps, HookAccounts, PTL DEF Hook!Spec
<1>. HIDE DEF Part
<1>5. SyncSpec => []StoredAreAccounted  BY <1>1, <1>2, <1>3, PTL DEF SyncSpec
<1>. QED  BY <1>4, <1>5

-----------------------------------------------------------------------------
(* Backfill, for any chats, names and depths, and any number of replies on their way. *)

Listeners == [chat : Chats, tail : BOOLEAN]
Blobs == [chat : Chats, batch : Nat]

Endings ==
  {"failed", "silent", "no_older_messages_added", "no_messages_returned", "start_of_history_reached", "done"}
Runs ==
  {Fill!Off} \cup [at : {"swap"}, chat : Chats] \cup [at : {"oldest"}, chat : Chats, batches : Nat]
    \cup [at : {"ask", "wait"}, chat : Chats, batches : Nat, oldest : Nat, anchor : Nat, k : Nat]
    \cup [at : {"check"}, chat : Chats, batches : Nat, oldest : Nat, batch : Int]
    \cup [at : {"end"}, chat : Chats, why : Endings]
Dispatches ==
  {Fill!Quiet} \cup [at : {"download"}, reply : Blobs, rest : Seq(Listeners)]
    \cup [at : {"signal"}, reply : Blobs, rest : Seq(Listeners) \ {<<>>}]

FillTypes ==
  /\ stored \in [Chats -> Nat]
  /\ run \in Runs /\ channel \in [batch : Int]
  /\ handlers \in Seq(Listeners)
  /\ replies \subseteq Blobs /\ dispatch \in Dispatches
  /\ due \subseteq Chats

Listening(h) == \E i \in DOMAIN handlers : handlers[i] = h
Own(c) == [chat |-> c, tail |-> FALSE]
Late(c) == [chat |-> c, tail |-> TRUE]

\* The runner at work listens for itself, and for every chat that is due somebody does.
ListenInv ==
  /\ run # Fill!Off => Listening(Own(run.chat))
  /\ \A c \in due : Listening(Own(c)) \/ Listening(Late(c))

Kept(c, batch) == batch <= stored[c] \/ c \in lost

\* No reply is more than one batch ahead of what is stored, and what a waiter is told of
\* is stored.
BatchInv ==
  /\ run.at \in {"ask", "wait"} => run.anchor <= stored[run.chat]
  /\ \A r \in replies : r.batch <= stored[r.chat] + 1
  /\ dispatch # Fill!Quiet => dispatch.reply.batch <= stored[dispatch.reply.chat] + 1
  /\ dispatch.at = "signal" => Kept(dispatch.reply.chat, dispatch.reply.batch)
  /\ run.at = "wait" /\ channel # Fill!None => Kept(run.chat, channel.batch)
  /\ run.at = "check" => Kept(run.chat, run.batch)

FillInv == FillTypes /\ ListenInv /\ BatchInv

\* Where a run and a dispatch stand says what else they hold.
LEMMA RunTypes ==
  ASSUME run \in Runs
  PROVE  /\ run.at \in {"off", "swap", "oldest", "ask", "wait", "check", "end"}
         /\ run = Fill!Off <=> run.at = "off"
         /\ run.at # "off" => run.chat \in Chats
         /\ run.at = "swap" => run \in [at : {"swap"}, chat : Chats]
         /\ run.at = "oldest" => run \in [at : {"oldest"}, chat : Chats, batches : Nat]
         /\ run.at \in {"ask", "wait"}
              => run \in [at : {"ask", "wait"}, chat : Chats, batches : Nat, oldest : Nat, anchor : Nat, k : Nat]
         /\ run.at = "check" => run \in [at : {"check"}, chat : Chats, batches : Nat, oldest : Nat, batch : Int]
         /\ run.at = "end" => run \in [at : {"end"}, chat : Chats, why : Endings]
BY DEF Runs, Fill!Off

LEMMA DispatchTypes ==
  ASSUME dispatch \in Dispatches
  PROVE  /\ dispatch.at \in {"quiet", "download", "signal"}
         /\ dispatch = Fill!Quiet <=> dispatch.at = "quiet"
         /\ dispatch.at # "quiet"
              => dispatch \in [at : {"download", "signal"}, reply : Blobs, rest : Seq(Listeners)]
         /\ dispatch.at = "signal" => dispatch.rest # <<>>
BY DEF Dispatches, Fill!Quiet

\* A handler that comes is added to those that listen.
LEMMA AddHandler ==
  ASSUME handlers \in Seq(Listeners), NEW h \in Listeners, handlers' = Append(handlers, h)
  PROVE  handlers' \in Seq(Listeners) /\ \A x : Listening(x)' <=> Listening(x) \/ x = h
<1>1. handlers' \in Seq(Listeners) /\ Len(handlers') = Len(handlers) + 1 /\ Len(handlers) \in Nat  OBVIOUS
<1>2. DOMAIN handlers = 1 .. Len(handlers) /\ DOMAIN handlers' = 1 .. Len(handlers) + 1  BY <1>1
<1>3. handlers'[Len(handlers) + 1] = h /\ \A i \in 1 .. Len(handlers) : handlers'[i] = handlers[i]  OBVIOUS
<1>4. \A i \in 1 .. Len(handlers) + 1 : i \in 1 .. Len(handlers) \/ i = Len(handlers) + 1  BY <1>1
<1>5. \A i \in 1 .. Len(handlers) : i \in 1 .. Len(handlers) + 1  BY <1>1
<1>6. Len(handlers) + 1 \in 1 .. Len(handlers) + 1  BY <1>1
<1>7. \A x : Listening(x)' <=> Listening(x) \/ x = h
  BY <1>2, <1>3, <1>4, <1>5, <1>6, Zenon DEF Listening
<1>. QED  BY <1>1, <1>7

\* A chat's tail that goes takes nobody else with it.
LEMMA RemoveTail ==
  ASSUME handlers \in Seq(Listeners), NEW c \in Chats, handlers' = Fill!Without(c)
  PROVE  /\ handlers' \in Seq(Listeners)
         /\ \A x : Listening(x) /\ x # Late(c) => Listening(x)'
<1>1. CASE Fill!Tails(c) = {}
  BY <1>1 DEF Fill!Without, Listening
<1>2. CASE Fill!Tails(c) # {}
  <2>1. PICK k \in Fill!Tails(c) : handlers' = Fill!RemoveAt(handlers, k)  BY <1>2 DEF Fill!Without
  <2>2. /\ k \in 1 .. Len(handlers) /\ Len(handlers) \in Nat /\ DOMAIN handlers = 1 .. Len(handlers)
        /\ handlers[k] = Late(c)
    BY DEF Fill!Tails, Late
  <2>3. handlers' = SubSeq(handlers, 1, k - 1) \o SubSeq(handlers, k + 1, Len(handlers))
    BY <2>1 DEF Fill!RemoveAt
  <2>4. /\ handlers' \in Seq(Listeners) /\ Len(handlers') = Len(handlers) - 1
        /\ \A i \in 1 .. k - 1 : handlers'[i] = handlers[i]
        /\ \A i \in k .. Len(handlers) - 1 : handlers'[i] = handlers[i + 1]
    <3>. DEFINE a == SubSeq(handlers, 1, k - 1)
                b == SubSeq(handlers, k + 1, Len(handlers))
    <3>1. /\ a \in Seq(Listeners) /\ Len(a) = k - 1
          /\ \A i \in 1 .. k - 1 : a[i] = handlers[i]
      BY <2>2
    <3>2. /\ b \in Seq(Listeners) /\ Len(b) = Len(handlers) - k
          /\ \A i \in 1 .. Len(handlers) - k : b[i] = handlers[k + i]
      <4>1. k + 1 \in Int /\ Len(handlers) \in Int  BY <2>2
      <4>2. \A i \in k + 1 .. Len(handlers) : handlers[i] \in Listeners  BY <2>2
      <4>3. /\ b \in Seq(Listeners)
            /\ Len(b) = IF k + 1 <= Len(handlers) THEN Len(handlers) - (k + 1) + 1 ELSE 0
            /\ \A i \in 1 .. Len(handlers) - (k + 1) + 1 : b[i] = handlers[k + 1 + i - 1]
        BY <4>1, <4>2, SubSeqProperties
      <4>. HIDE DEF b
      <4>4. \A i \in 1 .. Len(handlers) - k : i \in 1 .. Len(handlers) - (k + 1) + 1 /\ k + 1 + i - 1 = k + i  BY <2>2
      <4>5. Len(b) = Len(handlers) - k
        <5>1. k <= Len(handlers) /\ k \in Int  BY <2>2
        <5>2. CASE k + 1 <= Len(handlers)  BY <4>1, <4>3, <5>1, <5>2
        <5>3. CASE k = Len(handlers)  BY <4>1, <4>3, <5>1, <5>3
        <5>. QED  BY <4>1, <5>1, <5>2, <5>3
      <4>6. \A i \in 1 .. Len(handlers) - k : b[i] = handlers[k + i]  BY <4>3, <4>4
      <4>. QED  BY <4>3, <4>5, <4>6
    <3>3. handlers' = a \o b  BY <2>3
    <3>. HIDE DEF a, b
    <3>4. handlers' \in Seq(Listeners) /\ Len(handlers') = Len(handlers) - 1
      <4>1. a \o b \in Seq(Listeners) /\ Len(a \o b) = Len(a) + Len(b)  BY <3>1, <3>2, ConcatProperties
      <4>. QED  BY <2>2, <3>1, <3>2, <3>3, <4>1
    <3>5. \A i \in 1 .. k - 1 : handlers'[i] = handlers[i]  BY <2>2, <3>1, <3>2, <3>3
    <3>6. \A i \in k .. Len(handlers) - 1 : handlers'[i] = handlers[i + 1]
      <4>1. SUFFICES ASSUME NEW i \in k .. Len(handlers) - 1 PROVE handlers'[i] = handlers[i + 1]  OBVIOUS
      <4>2. i - (k - 1) \in 1 .. Len(handlers) - k /\ k + (i - (k - 1)) = i + 1  BY <2>2
      <4>3. handlers'[i] = b[i - (k - 1)]  BY <2>2, <3>1, <3>2, <3>3
      <4>. QED  BY <3>2, <4>2, <4>3
    <3>. QED  BY <3>4, <3>5, <3>6
  <2>5. DOMAIN handlers' = 1 .. Len(handlers) - 1  BY <2>2, <2>4
  <2>6. \A i \in 1 .. Len(handlers) :
          i = k \/ \E j \in DOMAIN handlers' : handlers'[j] = handlers[i]
    <3>1. \A i \in 1 .. Len(handlers) :
            i < k => i \in 1 .. k - 1 /\ i \in 1 .. Len(handlers) - 1
      BY <2>2
    <3>2. \A i \in 1 .. Len(handlers) :
            i > k => i - 1 \in k .. Len(handlers) - 1 /\ i - 1 \in 1 .. Len(handlers) - 1 /\ (i - 1) + 1 = i
      BY <2>2
    <3>3. \A i \in 1 .. Len(handlers) : i < k \/ i = k \/ i > k  BY <2>2
    <3>4. \A i \in 1 .. Len(handlers) : i > k => handlers'[i - 1] = handlers[i]  BY <2>4, <3>2
    <3>5. \A i \in 1 .. Len(handlers) : i < k => handlers'[i] = handlers[i]  BY <2>4, <3>1
    <3>6. \A i \in 1 .. Len(handlers) : i < k => i \in DOMAIN handlers'  BY <2>5, <3>1
    <3>7. \A i \in 1 .. Len(handlers) : i > k => i - 1 \in DOMAIN handlers'  BY <2>5, <3>2
    <3>. QED  BY <3>3, <3>4, <3>5, <3>6, <3>7
  <2>7. \A x : Listening(x) /\ x # Late(c) => Listening(x)'
    BY <2>2, <2>6, Zenon DEF Listening
  <2>. QED  BY <2>4, <2>7
<1>. QED  BY <1>1, <1>2

LEMMA FillStarts == ASSUME Fill!Init PROVE FillInv
<1>1. FillTypes  BY DEF Fill!Init, FillTypes, Runs, Dispatches, Fill!None
<1>2. ListenInv  BY DEF Fill!Init, ListenInv
<1>3. run.at = "off" /\ dispatch.at = "quiet"  BY DEF Fill!Init, Fill!Off, Fill!Quiet
<1>4. BatchInv  BY <1>3 DEF Fill!Init, BatchInv
<1>. QED  BY <1>1, <1>2, <1>4 DEF FillInv

\* Steps that add and remove handlers.
LEMMA HandlersKeep ==
  ASSUME FillInv, \/ \E c \in Chats : Fill!Begin(c) \/ Fill!TailEnds(c)
                  \/ Fill!EndTail \/ Fill!Finish
  PROVE  FillInv'
<1>. USE DEF FillInv
<1>1. handlers \in Seq(Listeners) /\ run \in Runs  BY DEF FillTypes
<1>2. ASSUME NEW c \in Chats, Fill!Begin(c) PROVE FillInv'
  <2>1. /\ run = Fill!Off /\ handlers' = Append(handlers, Own(c)) /\ run' = [at |-> "swap", chat |-> c]
        /\ channel' = Fill!None /\ UNCHANGED <<stored, replies, dispatch, due, lost>>
    BY <1>2 DEF Fill!Begin, Fill!BeginHandler, Own
  <2>2. /\ handlers' \in Seq(Listeners)
        /\ \A x : Listening(x)' <=> Listening(x) \/ x = Own(c)
    BY <1>1, <2>1, AddHandler DEF Own, Listeners
  <2>3. run' \in Runs /\ channel' \in [batch : Int] /\ run'.at = "swap" /\ run'.chat = c
    BY <2>1 DEF Runs, Fill!None
  <2>4. FillTypes'  BY <2>1, <2>2, <2>3 DEF FillTypes
  <2>5. ListenInv'  BY <2>1, <2>2, <2>3 DEF ListenInv, Own, Late
  <2>6. BatchInv'  BY <2>1, <2>3 DEF BatchInv, Kept
  <2>. QED  BY <2>4, <2>5, <2>6
<1>3. ASSUME NEW c \in Chats, Fill!TailEnds(c) PROVE FillInv'
  <2>1. /\ handlers' = Fill!Without(c) /\ due' = (IF run # Fill!Off /\ run.chat = c THEN due ELSE due \ {c})
        /\ UNCHANGED <<stored, run, channel, replies, dispatch, lost>>
    BY <1>3 DEF Fill!TailEnds
  <2>2. /\ handlers' \in Seq(Listeners)
        /\ \A x : Listening(x) /\ x # Late(c) => Listening(x)'
    BY <1>1, <2>1, RemoveTail
  <2>3. FillTypes'  BY <2>1, <2>2 DEF FillTypes
  <2>4. \A d : Own(d) # Late(c) /\ (d # c => Late(d) # Late(c))  BY DEF Own, Late
  <2>5. run # Fill!Off => Listening(Own(run.chat))'  BY <2>1, <2>2, <2>4 DEF ListenInv
  <2>6. \A d \in due' : Listening(Own(d))' \/ Listening(Late(d))'
    BY <2>1, <2>2, <2>4, <2>5 DEF ListenInv
  <2>7. ListenInv'  BY <2>1, <2>5, <2>6 DEF ListenInv, Own, Late
  <2>8. BatchInv'  BY <2>1 DEF BatchInv, Kept
  <2>. QED  BY <2>3, <2>7, <2>8
<1>4. CASE Fill!EndTail
  <2>1. /\ run.at = "swap" /\ run' = [at |-> "oldest", chat |-> run.chat, batches |-> 0]
        /\ UNCHANGED <<stored, channel, replies, dispatch, due, lost>>
    BY <1>4 DEF Fill!EndTail
  <2>2. run.chat \in Chats /\ run # Fill!Off  BY <1>1, <2>1, RunTypes
  <2>3. Listening(Own(run.chat))  BY <2>2 DEF ListenInv
  <2>4. Own(run.chat) \in Fill!ToSet(handlers)  BY <2>3 DEF Listening, Fill!ToSet
  <2>5. handlers' = Fill!Without(run.chat)  BY <1>4, <2>4 DEF Fill!EndTail, Own
  <2>6. /\ handlers' \in Seq(Listeners)
        /\ \A x : Listening(x) /\ x # Late(run.chat) => Listening(x)'
    BY <1>1, <2>2, <2>5, RemoveTail
  <2>7. run' \in Runs /\ run'.at = "oldest" /\ run'.chat = run.chat  BY <2>1, <2>2 DEF Runs
  <2>8. FillTypes'  BY <2>1, <2>6, <2>7 DEF FillTypes
  <2>9. \A c, d : Own(d) # Late(c) /\ (d # c => Late(d) # Late(c))  BY DEF Own, Late
  <2>10. Listening(Own(run.chat))'  BY <2>3, <2>6, <2>7, <2>9 DEF Own
  <2>11. \A d \in due : Listening(Own(d))' \/ Listening(Late(d))'
    BY <2>6, <2>7, <2>9, <2>10 DEF ListenInv
  <2>12. ListenInv'  BY <2>1, <2>7, <2>10, <2>11 DEF ListenInv
  <2>13. BatchInv'  BY <2>1, <2>7 DEF BatchInv, Kept
  <2>. QED  BY <2>8, <2>12, <2>13
<1>5. CASE Fill!Finish
  <2>1. /\ run.at = "end" /\ run' = Fill!Off
        /\ handlers' = [i \in DOMAIN handlers |->
             IF handlers[i] = Own(run.chat) THEN [handlers[i] EXCEPT !.tail = TRUE] ELSE handlers[i]]
        /\ UNCHANGED <<stored, channel, replies, dispatch, due, lost>>
    BY <1>5 DEF Fill!Finish, Own
  <2>2. run.chat \in Chats  BY <1>1, <2>1, RunTypes
  <2>3. \A i \in DOMAIN handlers : handlers'[i] = IF handlers[i] = Own(run.chat) THEN Late(run.chat) ELSE handlers[i]
    <3>1. [Own(run.chat) EXCEPT !.tail = TRUE] = Late(run.chat)
      <4>. DEFINE r == [Own(run.chat) EXCEPT !.tail = TRUE]
      <4>1. Own(run.chat) \in Listeners /\ Own(run.chat).chat = run.chat  BY <2>2 DEF Own, Listeners
      <4>2. r \in Listeners /\ r.chat = run.chat /\ r.tail = TRUE  BY <4>1 DEF Listeners
      <4>. HIDE DEF r
      <4>3. r = [chat |-> r.chat, tail |-> r.tail]  BY <4>2 DEF Listeners
      <4>. QED  BY <4>2, <4>3 DEF r, Late
    <3>. QED  BY <2>1, <3>1
  <2>4. handlers' \in Seq(Listeners)
    <3>1. DOMAIN handlers = 1 .. Len(handlers) /\ Len(handlers) \in Nat  BY <1>1
    <3>2. \A i \in 1 .. Len(handlers) : handlers'[i] \in Listeners
      <4>1. Late(run.chat) \in Listeners  BY <2>2 DEF Late, Listeners
      <4>2. \A i \in 1 .. Len(handlers) : handlers[i] \in Listeners  BY <1>1
      <4>. QED  BY <2>3, <3>1, <4>1, <4>2
    <3>3. handlers' \in [1 .. Len(handlers) -> Listeners]  BY <2>1, <3>1, <3>2
    <3>. QED  BY <3>1, <3>3
  <2>5. \A x : Listening(x)
          => Listening(x)' \/ (x = Own(run.chat) /\ \E i \in DOMAIN handlers' : handlers'[i] = Late(run.chat))
    <3>1. DOMAIN handlers' = DOMAIN handlers  BY <2>1
    <3>. QED  BY <2>3, <3>1, Zenon DEF Listening
  <2>6. run'.at = "off" /\ run' \in Runs  BY <2>1 DEF Fill!Off, Runs
  <2>7. FillTypes'  BY <2>1, <2>4, <2>6 DEF FillTypes
  <2>8. \A c, d : Own(d) # Late(c) /\ (Own(d) = Own(c) => d = c)  BY DEF Own, Late
  <2>9. \A d \in due : Listening(Own(d))' \/ Listening(Late(d))'
    <3>1. \A d : Listening(Late(d))' <=> \E i \in DOMAIN handlers' : handlers'[i] = Late(d)  BY DEF Listening, Late
    <3>. QED  BY <2>5, <2>8, <3>1 DEF ListenInv
  <2>10. ListenInv'  BY <2>1, <2>9 DEF ListenInv
  <2>11. BatchInv'  BY <2>1, <2>6 DEF BatchInv, Kept
  <2>. QED  BY <2>7, <2>10, <2>11
<1>. QED  BY <1>2, <1>3, <1>4, <1>5

\* Steps of the request loop.
LEMMA LoopKeeps ==
  ASSUME FillInv, Fill!Oldest \/ Fill!Request \/ Fill!RequestFails \/ Fill!Response \/ Fill!TimeOut \/ Fill!Progress
  PROVE  FillInv'
<1>. USE DEF FillInv
<1>1. run \in Runs /\ stored \in [Chats -> Nat] /\ run # Fill!Off
  BY RunTypes
  DEF FillTypes, Fill!Oldest, Fill!Request, Fill!RequestFails, Fill!Response, Fill!TimeOut, Fill!Progress
<1>2. run.chat \in Chats /\ stored[run.chat] \in Nat  BY <1>1, RunTypes
<1>3. /\ UNCHANGED <<stored, handlers, dispatch, lost>>
      /\ due' \in {due, due \cup {run.chat}}
      /\ channel' \in {channel, Fill!None}
  BY DEF Fill!Oldest, Fill!Request, Fill!RequestFails, Fill!Response, Fill!TimeOut, Fill!Progress
<1>4. \A n \in Endings : Fill!End(n).at = "end" /\ Fill!End(n).chat = run.chat /\ Fill!End(n) \in Runs
  BY <1>2 DEF Fill!End, Runs
<1>5. ASSUME run' \in Runs, run'.chat = run.chat, run' # Fill!Off,
             replies' \subseteq Blobs, \A r \in replies' : r.batch <= stored[r.chat] + 1,
             run'.at \in {"ask", "wait"} => run'.anchor <= stored[run.chat],
             run'.at = "wait" => channel' = Fill!None,
             run'.at = "check" => Kept(run.chat, run'.batch)
      PROVE  FillInv'
  <2>1. FillTypes'  BY <1>2, <1>3, <1>5 DEF FillTypes, Fill!None
  <2>2. \A x : Listening(x)' = Listening(x)  BY <1>3 DEF Listening
  <2>3. Listening(Own(run.chat))  BY <1>1 DEF ListenInv
  <2>4. ListenInv'  BY <1>3, <1>5, <2>2, <2>3 DEF ListenInv
  <2>5. BatchInv'  BY <1>3, <1>5 DEF BatchInv, Kept
  <2>. QED  BY <2>1, <2>4, <2>5
<1>6. CASE Fill!Oldest
  <2>1. run \in [at : {"oldest"}, chat : Chats, batches : Nat] /\ UNCHANGED replies
    BY <1>1, <1>6, RunTypes DEF Fill!Oldest
  <2>2. run' = [at |-> "ask", chat |-> run.chat, batches |-> run.batches,
                oldest |-> stored[run.chat], anchor |-> stored[run.chat], k |-> 1]
    BY <1>6 DEF Fill!Oldest
  <2>3. run' \in Runs /\ run'.at = "ask" /\ run'.chat = run.chat /\ run'.anchor = stored[run.chat]
    BY <1>2, <2>1, <2>2 DEF Runs
  <2>. QED  BY <1>2, <1>5, <2>1, <2>3 DEF FillTypes, BatchInv, Fill!Off
<1>7. CASE Fill!Request
  <2>. DEFINE Asks == [at : {"ask", "wait"}, chat : Chats, batches : Nat, oldest : Nat, anchor : Nat, k : Nat]
              blob == [chat |-> run.chat, batch |-> IF run.anchor < Depth THEN run.anchor + 1 ELSE 0]
  <2>1. run \in Asks /\ run.at = "ask" /\ run' = [run EXCEPT !.at = "wait"] /\ channel' = Fill!None
    BY <1>1, <1>7, RunTypes DEF Fill!Request
  <2>2. run' \in Asks /\ run'.at = "wait" /\ run'.chat = run.chat /\ run'.anchor = run.anchor  BY <2>1
  <2>3. run.anchor \in Nat /\ run.anchor <= stored[run.chat]  BY <2>1 DEF BatchInv
  <2>4. blob \in Blobs /\ blob.batch <= stored[blob.chat] + 1  BY <1>2, <2>3 DEF Blobs
  <2>5. replies' \in {replies, replies \cup {blob}}  BY <1>7 DEF Fill!Request
  <2>6. replies' \subseteq Blobs /\ \A r \in replies' : r.batch <= stored[r.chat] + 1
    BY <2>4, <2>5 DEF FillTypes, BatchInv
  <2>7. run' \in Runs  BY <2>2 DEF Runs
  <2>. HIDE DEF blob, Asks
  <2>. QED  BY <1>5, <2>1, <2>2, <2>3, <2>6, <2>7 DEF Fill!Off
<1>8. CASE Fill!RequestFails
  <2>1. run' = Fill!End("failed") /\ UNCHANGED replies  BY <1>8 DEF Fill!RequestFails
  <2>2. run' \in Runs /\ run'.at = "end" /\ run'.chat = run.chat  BY <1>4, <2>1 DEF Endings
  <2>. QED  BY <1>5, <2>1, <2>2 DEF FillTypes, BatchInv, Fill!Off
<1>9. CASE Fill!Response
  <2>1. /\ run.at = "wait" /\ channel # Fill!None /\ UNCHANGED replies
        /\ run' = [at |-> "check", chat |-> run.chat, batches |-> run.batches, oldest |-> run.oldest,
                   batch |-> channel.batch]
    BY <1>9 DEF Fill!Response
  <2>2. run.batches \in Nat /\ run.oldest \in Nat /\ channel.batch \in Int
    BY <1>1, <2>1, RunTypes DEF FillTypes
  <2>3. run' \in Runs /\ run'.at = "check" /\ run'.chat = run.chat /\ run'.batch = channel.batch
    BY <1>2, <2>1, <2>2 DEF Runs
  <2>4. Kept(run.chat, run'.batch)  BY <2>1, <2>3 DEF BatchInv
  <2>. QED  BY <1>5, <2>1, <2>3, <2>4 DEF FillTypes, BatchInv, Fill!Off
<1>10. CASE Fill!TimeOut
  <2>. DEFINE Asks == [at : {"ask", "wait"}, chat : Chats, batches : Nat, oldest : Nat, anchor : Nat, k : Nat]
  <2>1. run \in Asks /\ run.at = "wait" /\ UNCHANGED replies /\ run' = Fill!NextTry
    BY <1>1, <1>10, RunTypes DEF Fill!TimeOut
  <2>2. \A a \in Nat, k \in Nat :
          LET r == Fill!Asking(a, k)
          IN r \in Asks /\ r.at = "ask" /\ r.chat = run.chat /\ r.anchor = a
    BY <2>1 DEF Fill!Asking
  <2>3. run.anchor \in Nat /\ run.k \in Nat /\ run.oldest \in Nat /\ run.anchor <= stored[run.chat]
    BY <2>1 DEF BatchInv
  <2>4. \A a \in Nat, k \in Nat : Fill!Asking(a, k) \in Runs  BY <2>2 DEF Runs
  <2>5. \/ run' = Fill!Asking(run.anchor, run.k + 1)
        \/ run' = Fill!Asking(run.anchor - 1, 1) /\ run.anchor - 1 \in Nat /\ run.anchor - 1 <= stored[run.chat]
        \/ run' = Fill!End("silent")
    BY <1>2, <2>1, <2>3 DEF Fill!NextTry
  <2>6. run.k + 1 \in Nat /\ 1 \in Nat  BY <2>3
  <2>. HIDE DEF Asks
  <2>7. /\ run' \in Runs /\ run'.chat = run.chat /\ run'.at \in {"ask", "end"}
        /\ run'.at = "ask" => run'.anchor <= stored[run.chat]
    <3>1. CASE run' = Fill!Asking(run.anchor, run.k + 1)  BY <2>2, <2>3, <2>4, <2>6, <3>1
    <3>2. CASE run' = Fill!Asking(run.anchor - 1, 1) /\ run.anchor - 1 \in Nat /\ run.anchor - 1 <= stored[run.chat]
      <4>1. run' \in Runs /\ run'.chat = run.chat /\ run'.at = "ask" /\ run'.anchor = run.anchor - 1
        BY <2>2, <2>4, <2>6, <3>2
      <4>. QED  BY <3>2, <4>1
    <3>3. CASE run' = Fill!End("silent")  BY <1>4, <3>3 DEF Endings
    <3>. QED  BY <2>5, <3>1, <3>2, <3>3
  <2>. QED  BY <1>5, <2>1, <2>7 DEF FillTypes, BatchInv, Fill!Off
<1>11. CASE Fill!Progress
  <2>1. run.at = "check" /\ run.batches \in Nat /\ UNCHANGED replies
    BY <1>1, <1>11, RunTypes DEF Fill!Progress
  <2>. DEFINE Again == [at |-> "oldest", chat |-> run.chat, batches |-> run.batches + 1]
  <2>2. run' \in {Fill!End("no_older_messages_added"), Fill!End("no_messages_returned"),
                 Fill!End("start_of_history_reached"), Fill!End("done"), Again}
    BY <1>11 DEF Fill!Progress
  <2>3. run' \in Runs /\ run'.chat = run.chat /\ run'.at \in {"oldest", "end"}
    <3>1. Again \in Runs /\ Again.chat = run.chat /\ Again.at = "oldest"  BY <1>2, <2>1 DEF Runs
    <3>. HIDE DEF Again
    <3>. QED  BY <1>4, <2>2, <3>1 DEF Endings
  <2>. QED  BY <1>5, <2>1, <2>3 DEF FillTypes, BatchInv, Fill!Off
<1>. QED  BY <1>6, <1>7, <1>8, <1>9, <1>10, <1>11

\* Steps of a reply on its way and of its dispatch: it is stored before it is signalled.
LEMMA DispatchKeeps ==
  ASSUME FillInv, Fill!Dispatching \/ \E r \in replies : Fill!Deliver(r)
  PROVE  FillInv'
<1>. USE DEF FillInv
<1>1. /\ stored \in [Chats -> Nat] /\ run \in Runs /\ dispatch \in Dispatches /\ handlers \in Seq(Listeners)
      /\ replies \subseteq Blobs
  BY DEF FillTypes
<1>2. UNCHANGED <<run, handlers, due>>
  BY DEF Fill!Dispatching, Fill!Deliver, Fill!Download, Fill!Signal, Fill!Dispatched
<1>3. ListenInv'
  <2>1. \A x : Listening(x)' = Listening(x)  BY <1>2 DEF Listening
  <2>. QED  BY <1>2, <2>1 DEF ListenInv
<1>4. ASSUME stored' \in [Chats -> Nat], \A c \in Chats : stored[c] <= stored'[c], lost \subseteq lost',
             replies' \subseteq replies, dispatch' \in Dispatches, channel' \in [batch : Int],
             run.at = "wait" /\ channel' # Fill!None => channel' = channel \/ Kept(run.chat, channel'.batch),
             dispatch' # Fill!Quiet => dispatch'.reply.batch <= stored'[dispatch'.reply.chat] + 1,
             dispatch'.at = "signal"
               => dispatch'.reply.batch <= stored'[dispatch'.reply.chat] \/ dispatch'.reply.chat \in lost'
      PROVE  FillInv'
  <2>1. FillTypes'  BY <1>1, <1>2, <1>4 DEF FillTypes
  <2>2. \A c \in Chats : stored[c] \in Int /\ stored'[c] \in Int /\ stored[c] <= stored'[c]  BY <1>1, <1>4
  <2>3. run.at \in {"ask", "wait"} => run.anchor <= stored'[run.chat]
    <3>1. run.at \in {"ask", "wait"} => run.chat \in Chats /\ run.anchor \in Int  BY <1>1, RunTypes
    <3>. QED  BY <2>2, <3>1 DEF BatchInv
  <2>4. \A r \in replies' : r.batch <= stored'[r.chat] + 1
    <3>1. SUFFICES ASSUME NEW r \in replies' PROVE r.batch <= stored'[r.chat] + 1  OBVIOUS
    <3>2. r.chat \in Chats /\ r.batch \in Int /\ r.batch <= stored[r.chat] + 1  BY <1>1, <1>4 DEF Blobs, BatchInv
    <3>. QED  BY <2>2, <3>2
  <2>5. run.at = "wait" /\ channel' # Fill!None => channel'.batch <= stored'[run.chat] \/ run.chat \in lost'
    <3>1. SUFFICES ASSUME run.at = "wait", channel' # Fill!None
                   PROVE  channel'.batch <= stored'[run.chat] \/ run.chat \in lost'
      OBVIOUS
    <3>2. run.chat \in Chats /\ channel'.batch \in Int  BY <1>1, <1>4, <3>1, RunTypes
    <3>3. channel'.batch <= stored[run.chat] \/ run.chat \in lost  BY <1>4, <3>1 DEF BatchInv, Kept
    <3>. QED  BY <1>4, <2>2, <3>2, <3>3
  <2>6. run.at = "check" => run.batch <= stored'[run.chat] \/ run.chat \in lost'
    <3>1. SUFFICES ASSUME run.at = "check" PROVE run.batch <= stored'[run.chat] \/ run.chat \in lost'  OBVIOUS
    <3>2. run.chat \in Chats /\ run.batch \in Int  BY <1>1, <3>1, RunTypes
    <3>3. run.batch <= stored[run.chat] \/ run.chat \in lost  BY <3>1 DEF BatchInv, Kept
    <3>. QED  BY <1>4, <2>2, <3>2, <3>3
  <2>7. BatchInv'  BY <1>2, <1>4, <2>3, <2>4, <2>5, <2>6 DEF BatchInv, Kept
  <2>. QED  BY <1>3, <2>1, <2>7
<1>5. \A c \in Chats : stored[c] \in Nat  BY <1>1
<1>. DEFINE Seen == [at : {"download", "signal"}, reply : Blobs, rest : Seq(Listeners)]
<1>6. ASSUME NEW r \in replies, Fill!Deliver(r) PROVE FillInv'
  <2>1. /\ replies' = replies \ {r} /\ dispatch' = [at |-> "download", reply |-> r, rest |-> handlers]
        /\ UNCHANGED <<stored, channel, lost>>
    BY <1>6 DEF Fill!Deliver
  <2>2. /\ dispatch' \in Dispatches /\ dispatch'.at = "download" /\ dispatch'.reply = r
        /\ r.batch <= stored[r.chat] + 1
    BY <1>1, <2>1 DEF Dispatches, BatchInv
  <2>. QED  BY <1>4, <1>5, <2>1, <2>2, <1>1 DEF FillTypes
<1>7. CASE Fill!Download
  <2>. DEFINE c == dispatch.reply.chat
              b == dispatch.reply.batch
  <2>1. /\ dispatch.at = "download" /\ dispatch.rest # <<>> /\ dispatch \in Seen /\ UNCHANGED <<channel, replies>>
        /\ dispatch # Fill!Quiet
    BY <1>1, <1>7, DispatchTypes DEF Fill!Download, Fill!Quiet
  <2>2. c \in Chats /\ b \in Nat /\ b <= stored[c] + 1  BY <2>1 DEF Blobs, BatchInv
  <2>3. CASE /\ stored' = [stored EXCEPT ![c] = IF b = @ + 1 THEN @ + 1 ELSE @] /\ lost' = lost
             /\ dispatch' = [dispatch EXCEPT !.at = "signal"]
    <3>1. /\ stored' \in [Chats -> Nat] /\ \A d \in Chats : stored[d] <= stored'[d]
          /\ b <= stored'[c]
      BY <1>1, <1>5, <2>2, <2>3
    <3>2. dispatch' \in Dispatches /\ dispatch'.reply = dispatch.reply  BY <2>1, <2>3 DEF Dispatches
    <3>3. stored'[c] \in Nat /\ b <= stored'[c] + 1  BY <2>2, <3>1
    <3>. QED  BY <1>1, <1>4, <2>1, <2>3, <3>1, <3>2, <3>3 DEF FillTypes
  <2>4. CASE /\ lost' = lost \cup {c} /\ stored' = stored
             /\ dispatch' = [dispatch EXCEPT !.at = "signal"]
    <3>1. dispatch' \in Dispatches /\ dispatch'.reply = dispatch.reply  BY <2>1, <2>4 DEF Dispatches
    <3>. QED  BY <1>1, <1>4, <1>5, <2>1, <2>2, <2>4, <3>1 DEF FillTypes
  <2>5. CASE dispatch' = [dispatch EXCEPT !.rest = Tail(@)] /\ UNCHANGED <<stored, lost>>
    <3>1. Tail(dispatch.rest) \in Seq(Listeners)  BY <2>1
    <3>2. dispatch' \in Dispatches /\ dispatch'.reply = dispatch.reply /\ dispatch'.at = "download"
      BY <2>1, <2>5, <3>1 DEF Dispatches
    <3>. QED  BY <3>2, <1>1, <1>4, <1>5, <2>1, <2>2, <2>5, <3>1 DEF FillTypes
  <2>. QED  BY <1>7, <2>3, <2>4, <2>5 DEF Fill!Download
<1>8. CASE Fill!Signal
  <2>1. dispatch.at = "signal" /\ dispatch \in Seen /\ UNCHANGED <<stored, replies, lost>>
    BY <1>1, <1>8, DispatchTypes DEF Fill!Signal
  <2>2. dispatch' = [dispatch EXCEPT !.at = "download", !.rest = Tail(@)]  BY <1>8 DEF Fill!Signal
  <2>3. \/ channel' = channel
        \/ run.chat = dispatch.reply.chat /\ channel' = [batch |-> dispatch.reply.batch]
    BY <1>8 DEF Fill!Signal
  <2>4. dispatch.reply \in Blobs  BY <2>1
  <2>5. channel' \in [batch : Int]  BY <2>3, <2>4 DEF FillTypes, Blobs
  <2>6. channel' # channel => Kept(run.chat, channel'.batch)  BY <2>1, <2>3 DEF BatchInv
  <2>7. dispatch'.reply = dispatch.reply /\ dispatch'.at = "download"  BY <2>1, <2>2
  <2>8. dispatch' \in Dispatches
    <3>1. Tail(dispatch.rest) \in Seq(Listeners)  BY <1>1, <2>1, DispatchTypes
    <3>. QED  BY <2>1, <2>2, <3>1 DEF Dispatches
  <2>9. dispatch # Fill!Quiet  BY <2>1 DEF Fill!Quiet
  <2>. QED  BY <1>1, <1>4, <1>5, <2>1, <2>5, <2>6, <2>7, <2>8, <2>9 DEF BatchInv
<1>9. CASE Fill!Dispatched
  <2>1. dispatch' = Fill!Quiet /\ UNCHANGED <<stored, channel, replies, lost>>  BY <1>9 DEF Fill!Dispatched
  <2>2. dispatch'.at = "quiet" /\ dispatch' \in Dispatches  BY <2>1 DEF Fill!Quiet, Dispatches
  <2>. QED  BY <1>1, <1>4, <1>5, <2>1, <2>2 DEF FillTypes
<1>. QED  BY <1>6, <1>7, <1>8, <1>9 DEF Fill!Dispatching

LEMMA FillKeeps == ASSUME FillInv, [Fill!Next]_(Fill!vars) PROVE FillInv'
<1>1. CASE UNCHANGED Fill!vars
  <2>1. \A x : Listening(x)' = Listening(x)  BY <1>1 DEF Listening, Fill!vars
  <2>2. FillTypes' /\ ListenInv'  BY <1>1, <2>1 DEF FillInv, FillTypes, ListenInv, Fill!vars
  <2>3. BatchInv'  BY <1>1 DEF FillInv, BatchInv, Kept, Fill!vars
  <2>. QED  BY <2>2, <2>3 DEF FillInv
<1>. QED  BY <1>1, HandlersKeep, LoopKeeps, DispatchKeeps DEF Fill!Next, Fill!Loop

LEMMA FillHears == ASSUME FillInv PROVE Fill!RepliesAreKept
<1>1. Fill!LateRepliesAreSeen
  <2>1. \A c \in due : \E i \in DOMAIN handlers : handlers[i] = Own(c) \/ handlers[i] = Late(c)
    BY DEF FillInv, ListenInv, Listening
  <2>2. \A c : Own(c).chat = c /\ Late(c).chat = c  BY DEF Own, Late
  <2>. QED  BY <2>1, <2>2 DEF Fill!LateRepliesAreSeen
<1>2. Fill!ResponsesAreStored  BY DEF FillInv, BatchInv, Kept, Fill!ResponsesAreStored
<1>. QED  BY <1>1, <1>2 DEF Fill!RepliesAreKept

\* Whatever the chats, their names and the delays of the phone: until the grace of a
\* backfill is over somebody listens for its replies, and its progress is judged on what
\* is stored.
THEOREM RepliesAreKeptAlways == (Fill!Spec => []Fill!RepliesAreKept) /\ (SyncSpec => []RepliesAreKept)
<1>. DEFINE Part == part = "backfill" => FillInv
<1>1. SyncInit => Part  BY FillStarts DEF SyncInit
<1>2. Part /\ [SyncNext]_syncVars => Part'
  <2>1. [SyncNext]_syncVars => part' = part /\ (part = "backfill" => [Fill!Next]_(Fill!vars))
    BY DEF SyncNext, syncVars, fillVars, Fill!vars
  <2>. QED  BY <2>1, FillKeeps
<1>3. Part => RepliesAreKept  BY FillHears DEF RepliesAreKept
<1>4. Fill!Spec => []Fill!RepliesAreKept
  BY FillStarts, FillKeeps, FillHears, PTL DEF Fill!Spec
<1>. HIDE DEF Part
<1>5. SyncSpec => []RepliesAreKept  BY <1>1, <1>2, <1>3, PTL DEF SyncSpec
<1>. QED  BY <1>4, <1>5

=============================================================================
