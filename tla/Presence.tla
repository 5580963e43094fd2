------------------------------ MODULE Presence ------------------------------
(***************************************************************************)
(* Presence: whether this device shows as online, and whose presence it    *)
(* asked WhatsApp for.                                                     *)
(*                                                                         *)
(* A following sync shows the device as available on every connection and  *)
(* then renews the subscriptions it was asked for, in a goroutine, one by  *)
(* one.  Connections come and go meanwhile, each with a Connected callback *)
(* of its own; delegated requests subscribe beside the renewal; and the    *)
(* sync's cleanup ends all of it and shows the device as unavailable, on   *)
(* the connection that is still open, while callbacks may be under way.    *)
(***************************************************************************)
EXTENDS Naturals, Sequences, SequencesExt

CONSTANTS Requests,   \* delegated `presence subscribe` of users (others are refused at once)
          Target,     \* whose presence each one asks for
          Earlier,    \* users asked for before
          Calls,      \* callbacks of Connected, one for each connection, and of PushNameSetting
          PushNames,  \* those of PushNameSetting
          MaxWatched, \* how many subscriptions are remembered (256)
          MaxDrops    \* connections lost

VARIABLES quiet,      \* the sync runs with --presence-mode quiet
          conn,       \* the connection is up
          drops,      \* connections that may still be lost
          available,  \* WhatsApp shows this device as online
          subs,       \* the subscriptions of this connection
          jids,       \* presenceWatch.jids, oldest first
          call,       \* where each callback is
          mu,         \* who holds syncPresence.mu
          cleanup,    \* cleanupStarted
          renewal,    \* the goroutine of the last renewal: its phase and the users left
          cancelled,  \* its context is cancelled
          known,      \* presenceWatch refers to it
          request,    \* where each request is
          sync        \* how far the sync's cleanup is

vars == <<quiet, conn, drops, available, subs, jids, call, mu, cleanup, renewal, cancelled, known,
          request, sync>>

whatsapp == <<quiet, conn, drops>>
watch == <<renewal, cancelled, known>>

\* The sync has connected, and may have been asked for somebody before.
Init ==
  /\ quiet \in BOOLEAN
  /\ conn = TRUE /\ drops = MaxDrops
  /\ available = FALSE /\ subs = {} /\ jids \in {<<>>} \cup {<<u>> : u \in Earlier}
  /\ call = [c \in Calls |-> "none"]
  /\ mu = "free" /\ cleanup = FALSE
  /\ renewal = [phase |-> "done", left |-> <<>>] /\ cancelled = FALSE /\ known = FALSE
  /\ request = [r \in Requests |-> "none"]
  /\ sync = "runs"

-----------------------------------------------------------------------------
(* The connection.  What it was asked for ends with it. *)

Disconnect ==
  /\ conn /\ drops > 0
  /\ conn' = FALSE /\ drops' = drops - 1
  /\ available' = FALSE /\ subs' = {}
  /\ UNCHANGED <<quiet, jids, call, mu, cleanup, watch, request, sync>>

Reconnect ==
  /\ ~conn /\ conn' = TRUE
  /\ UNCHANGED <<quiet, drops, available, subs, jids, call, mu, cleanup, watch, request, sync>>

\* whatsmeow calls the sync's handler from a goroutine, as long as it is there.
Dispatch(c) ==
  /\ call[c] = "none" /\ sync \in {"runs", "marked"}
  /\ call' = [call EXCEPT ![c] = "lock"]
  /\ UNCHANGED <<whatsapp, available, subs, jids, mu, cleanup, watch, request, sync>>

-----------------------------------------------------------------------------
(* presenceWatch *)

\* The user becomes the newest one; the oldest ones over the bound are forgotten.
Add(u) ==
  LET others == SelectSeq(jids, LAMBDA v : v # u) \o <<u>>
      over == IF Len(others) > MaxWatched THEN Len(others) - MaxWatched ELSE 0
  IN SubSeq(others, over + 1, Len(others))

\* stopRenewal cancels the renewal it finds, and its caller waits for that one.
CancelRenewal == cancelled' = (cancelled \/ known) /\ known' = FALSE

\* Subscriptions go out on the connection there is, or fail.
Subscribe(u) == subs' = IF conn THEN subs \cup {u} ELSE subs

\* SendPresence, bounded: it may fail.
ShowAs(online) == available' \in {available, IF conn THEN online ELSE available}

-----------------------------------------------------------------------------
(* Connected and PushNameSetting *)

\* Mutant: the callback looks whether the cleanup started before it takes the mutex.
LockUnseen(c) ==
  /\ call[c] = "lock" /\ mu = "free"
  /\ mu' = c /\ call' = [call EXCEPT ![c] = "show"]
  /\ UNCHANGED <<whatsapp, available, subs, jids, cleanup, watch, request, sync>>

LockPresence(c) ==
  /\ call[c] = "lock" /\ mu = "free"
  /\ IF cleanup \/ quiet
       THEN call' = [call EXCEPT ![c] = "returned"] /\ UNCHANGED mu
       ELSE mu' = c /\ call' = [call EXCEPT ![c] = "show"]
  /\ UNCHANGED <<whatsapp, available, subs, jids, cleanup, watch, request, sync>>

ShowAvailable(c) ==
  /\ call[c] = "show"
  /\ ShowAs(TRUE)
  /\ IF c \in PushNames
       THEN mu' = "free" /\ call' = [call EXCEPT ![c] = "returned"]
       ELSE UNCHANGED mu /\ call' = [call EXCEPT ![c] = "stop"]
  /\ UNCHANGED <<whatsapp, subs, jids, cleanup, watch, request, sync>>

StopEarlier(c) ==
  /\ call[c] = "stop"
  /\ CancelRenewal
  /\ call' = [call EXCEPT ![c] = IF known THEN "await" ELSE "renew"]
  /\ UNCHANGED <<whatsapp, available, subs, jids, mu, cleanup, renewal, request, sync>>

AwaitEarlier(c) ==
  /\ call[c] = "await" /\ renewal.phase = "done"
  /\ call' = [call EXCEPT ![c] = "renew"]
  /\ UNCHANGED <<whatsapp, available, subs, jids, mu, cleanup, watch, request, sync>>

RenewPresenceWatches(c) ==
  /\ call[c] = "renew"
  /\ IF jids = <<>>
       THEN UNCHANGED watch
       ELSE /\ renewal' = [phase |-> "next", left |-> jids]
            /\ cancelled' = FALSE /\ known' = TRUE
  /\ mu' = "free" /\ call' = [call EXCEPT ![c] = "returned"]
  /\ UNCHANGED <<whatsapp, available, subs, jids, cleanup, request, sync>>

\* The goroutine looks at its context before each user, and then asks, however long that takes.
RenewNext ==
  /\ renewal.phase = "next"
  /\ renewal' = [renewal EXCEPT !.phase = IF cancelled \/ renewal.left = <<>> THEN "done" ELSE "ask"]
  /\ UNCHANGED <<whatsapp, available, subs, jids, call, mu, cleanup, cancelled, known, request, sync>>

\* A failing or slow user costs the others nothing.
RenewAsks ==
  /\ renewal.phase = "ask"
  /\ Subscribe(Head(renewal.left)) \/ UNCHANGED subs
  /\ renewal' = [phase |-> "next", left |-> Tail(renewal.left)]
  /\ UNCHANGED <<whatsapp, available, jids, call, mu, cleanup, cancelled, known, request, sync>>

-----------------------------------------------------------------------------
(* presence subscribe, delegated to the sync *)

Watch(r) ==
  /\ request[r] = "none" /\ sync # "ended"
  /\ request' = [request EXCEPT ![r] = IF quiet THEN "refused" ELSE "subscribe"]
  /\ UNCHANGED <<whatsapp, available, subs, jids, call, mu, cleanup, watch, sync>>

WatchSubscribes(r) ==
  /\ request[r] = "subscribe"
  /\ \/ conn /\ Subscribe(Target[r]) /\ request' = [request EXCEPT ![r] = "remember"]
     \/ request' = [request EXCEPT ![r] = "failed"] /\ UNCHANGED subs
  /\ UNCHANGED <<whatsapp, available, jids, call, mu, cleanup, watch, sync>>

\* The answer, or the end of the wait, comes after that and changes nothing.
WatchRemembers(r) ==
  /\ request[r] = "remember"
  /\ jids' = Add(Target[r])
  /\ request' = [request EXCEPT ![r] = "watched"]
  /\ UNCHANGED <<whatsapp, available, subs, call, mu, cleanup, watch, sync>>

-----------------------------------------------------------------------------
(* The cleanup of sync *)

MarkCleanup ==
  /\ sync = "runs" /\ mu = "free"
  /\ cleanup' = TRUE /\ sync' = "marked"
  /\ UNCHANGED <<whatsapp, available, subs, jids, call, mu, watch, request>>

RemoveHandler ==
  /\ sync = "marked" /\ sync' = "stop"
  /\ UNCHANGED <<whatsapp, available, subs, jids, call, mu, cleanup, watch, request>>

StopLast ==
  /\ sync = "stop"
  /\ CancelRenewal
  /\ sync' = IF known THEN "await" ELSE "leave"
  /\ UNCHANGED <<whatsapp, available, subs, jids, call, mu, cleanup, renewal, request>>

AwaitLast ==
  /\ sync = "await" /\ renewal.phase = "done"
  /\ sync' = "leave"
  /\ UNCHANGED <<whatsapp, available, subs, jids, call, mu, cleanup, watch, request>>

ShowUnavailable ==
  /\ sync = "leave"
  /\ ShowAs(FALSE)
  /\ sync' = "left"
  /\ UNCHANGED <<whatsapp, subs, jids, call, mu, cleanup, watch, request>>

\* The delegate server stops after Sync has returned, and waits for its requests.
StopServer ==
  /\ sync = "left"
  /\ \A r \in Requests : request[r] \notin {"subscribe", "remember"}
  /\ sync' = "ended"
  /\ UNCHANGED <<whatsapp, available, subs, jids, call, mu, cleanup, watch, request>>

Callback(c) ==
  LockPresence(c) \/ ShowAvailable(c) \/ StopEarlier(c) \/ AwaitEarlier(c) \/ RenewPresenceWatches(c)

Renewal == RenewNext \/ RenewAsks

Cleanup == RemoveHandler \/ StopLast \/ AwaitLast \/ ShowUnavailable

Next ==
  \/ Disconnect \/ Reconnect
  \/ \E c \in Calls : Dispatch(c) \/ Callback(c)
  \/ Renewal
  \/ \E r \in Requests : Watch(r) \/ WatchSubscribes(r) \/ WatchRemembers(r)
  \/ MarkCleanup \/ Cleanup \/ StopServer

Spec == Init /\ [][Next]_vars

-----------------------------------------------------------------------------
(* Properties *)

Left == sync \in {"left", "ended"}

\* Once the sync has shown the device as unavailable, no callback that was under way shows
\* it as available again and no renewal asks for anybody's presence: on a connection that
\* stays up the device stays away (syncPresence, stopRenewal, Sync's cleanup).
KeepsAway == Left => (available' => available) /\ renewal'.left = renewal.left
StaysAway == [][KeepsAway]_vars
=============================================================================
