------------------------- MODULE StoreAccess_proofs -------------------------
(***************************************************************************)
(* Proofs about StoreAccess, for any processes, roles and bounds: the lock *)
(* decides who is connected and whose socket is there, and a call's        *)
(* request is executed at most once. Then about the modules that           *)
(* RequestsParts puts beside it: Session, MessageMedia, Presence and       *)
(* GroupInfo, each with an inductive invariant of its own.                 *)
(***************************************************************************)
EXTENDS RequestsParts, Sequences, FiniteSetTheorems, TLAPS

\* From taking the lock to giving it back.
Holding == {"open", "work", "sweep", "listen", "serving", "remove", "leave", "release"}
Connected == {"work", "sweep", "listen", "serving", "remove", "leave"}
\* A call whose request nobody has executed, ...
Before == {"start", "pin", "probe", "lock", "dial", "asked", "open", "work"}
\* ... and one whose end is decided.
Over == {"leave", "release", "end", "dead"}
Labels == Holding \cup Before \cup Over \cup {"executed"}
Ends == {"-", "refused", "failed", "done", "lost"}

TypeOK ==
  /\ path \in {"none", "stale"} \cup Daemons
  /\ lock \in {"none"} \cup Procs
  /\ conn \subseteq Procs
  /\ pc \in [Procs -> Labels]
  /\ asked \in [Callers -> {"none"} \cup Daemons]
  /\ ran \in [Callers -> Nat]
  /\ told \in [Procs -> Ends]

HoldersLock == \A p \in Procs : pc[p] \in Holding => lock = p
ConnectedHold == \A p \in conn : pc[p] \in Connected
CallsCount ==
  \A p \in Callers :
    /\ pc[p] \in Before => ran[p] = 0
    /\ pc[p] = "executed" => ran[p] = 1
    /\ pc[p] \notin Over => told[p] = "-"

IInv == TypeOK /\ HoldersLock /\ ConnectedHold /\ ServingIsReachable /\ CallsCount /\ CallRunsOnce

-----------------------------------------------------------------------------
\* The processes are the daemons and the callers.
LEMMA Parts == /\ Daemons \subseteq Procs /\ Callers \subseteq Procs
               /\ \A p \in Callers : p \notin Daemons
  BY DEF Daemons, Callers

\* In the first state nobody holds anything and nothing was executed.
LEMMA InitInv == Init => IInv
<1> SUFFICES ASSUME Init PROVE IInv
  OBVIOUS
<1>1. PICK cast \in Casts : pc = [p \in Procs |-> IF p \in cast THEN "start" ELSE "end"]
  BY DEF Init
<1>2. \A p \in Procs : pc[p] \in {"start", "end"}
  BY <1>1
<1>3. TypeOK
  BY <1>1 DEF Init, TypeOK, Labels, Before, Over, Ends
<1>4. HoldersLock /\ ConnectedHold /\ ServingIsReachable
  BY <1>2, Parts DEF Init, HoldersLock, ConnectedHold, ServingIsReachable, Holding
<1>5. CallsCount /\ CallRunsOnce
  BY <1>2, Parts DEF Init, CallsCount, CallRunsOnce, Over
<1> QED
  BY <1>3, <1>4, <1>5 DEF IInv

\* A step of one process that changes labels and answers only, from a label
\* that neither holds the lock nor has executed anything.
LEMMA Moves ==
  ASSUME IInv, NEW p \in Procs, NEW label \in {"pin", "probe", "lock", "dial"},
         pc[p] \in Before \ Holding, To(p, label), UNCHANGED told, Alone
  PROVE IInv'
<1>1. pc' = [pc EXCEPT ![p] = label] /\ label \in Labels /\ label \in Before
  BY DEF To, Labels, Before
<1>2. UNCHANGED <<path, lock, conn, asked, ran, told>>
  BY DEF Alone
<1>3. pc \in [Procs -> Labels] /\ pc[p] \notin Over /\ pc[p] \notin Connected
  BY DEF IInv, TypeOK, Before, Over, Holding, Connected
<1>4. TypeOK'
  BY <1>1, <1>2, <1>3 DEF IInv, TypeOK
<1>5. HoldersLock' /\ ConnectedHold' /\ ServingIsReachable'
  BY <1>1, <1>2, <1>3, Parts DEF IInv, HoldersLock, ConnectedHold, ServingIsReachable, Holding, Connected, TypeOK
<1>6. CallsCount' /\ CallRunsOnce'
  BY <1>1, <1>2, <1>3, Parts DEF IInv, CallsCount, CallRunsOnce, Over, Before
<1> QED
  BY <1>4, <1>5, <1>6 DEF IInv

\* A call that is refused has executed nothing.
LEMMA Refuses ==
  ASSUME IInv, NEW p \in Procs, pc[p] \in Before \ Holding, Refuse(p), Alone
  PROVE IInv'
<1>1. /\ pc' = [pc EXCEPT ![p] = "end"] /\ told' = [told EXCEPT ![p] = "refused"]
      /\ "end" \in Labels /\ "end" \in Over /\ "refused" \in Ends
  BY DEF Refuse, To, Tell, Labels, Over, Ends
<1>2. UNCHANGED <<path, lock, conn, asked, ran>>
  BY DEF Alone
<1>3. /\ pc \in [Procs -> Labels] /\ told \in [Procs -> Ends]
      /\ pc[p] \notin Over /\ pc[p] \notin Connected
  BY DEF IInv, TypeOK, Before, Over, Holding, Connected
<1>4. TypeOK'
  BY <1>1, <1>2, <1>3 DEF IInv, TypeOK
<1>5. HoldersLock' /\ ConnectedHold' /\ ServingIsReachable'
  BY <1>1, <1>2, <1>3, Parts DEF IInv, HoldersLock, ConnectedHold, ServingIsReachable, Holding, Connected, TypeOK
<1>6. CallsCount' /\ CallRunsOnce'
  BY <1>1, <1>2, <1>3, Parts DEF IInv, CallsCount, CallRunsOnce, Over, Before
<1> QED
  BY <1>4, <1>5, <1>6 DEF IInv

\* What a step may rely on: the types of the variables it reads.
LEMMA Types ==
  ASSUME IInv
  PROVE /\ pc \in [Procs -> Labels] /\ told \in [Procs -> Ends] /\ ran \in [Callers -> Nat]
        /\ asked \in [Callers -> {"none"} \cup Daemons]
        /\ path \in {"none", "stale"} \cup Daemons /\ lock \in {"none"} \cup Procs /\ conn \subseteq Procs
  BY DEF IInv, TypeOK

-----------------------------------------------------------------------------
(* The steps that hold the lock. *)

LEMMA TakesLock ==
  ASSUME IInv, NEW p \in Procs, TakeLock(p)
  PROVE IInv'
<1>1. /\ pc[p] = "lock" /\ lock = "none" /\ lock' = p /\ pc' = [pc EXCEPT ![p] = "open"]
      /\ UNCHANGED <<path, conn, asked, ran, told>>
  BY DEF TakeLock, To
<1>2. TypeOK'
  BY <1>1, Types DEF IInv, TypeOK, Labels, Holding
<1>3. \A q \in Procs : pc[q] \notin Holding
  BY <1>1, ProcsAssumption DEF IInv, HoldersLock
<1>4. HoldersLock' /\ ConnectedHold' /\ ServingIsReachable'
  BY <1>1, <1>3, Types, Parts DEF IInv, HoldersLock, ConnectedHold, ServingIsReachable, Holding, Connected
<1>5. CallsCount' /\ CallRunsOnce'
  BY <1>1, Types, Parts DEF IInv, CallsCount, CallRunsOnce, Over, Before
<1> QED
  BY <1>2, <1>4, <1>5 DEF IInv

LEMMA Connects ==
  ASSUME IInv, NEW p \in Procs, Connect(p)
  PROVE IInv'
<1>1. PICK label \in {"sweep", "work"} :
        /\ pc[p] = "open" /\ conn' = conn \cup {p} /\ pc' = [pc EXCEPT ![p] = label]
        /\ p \in Callers => label = "work"
        /\ UNCHANGED <<path, lock, asked, ran, told>>
  BY DEF Connect, To, Callers, Daemons
<1>2. TypeOK'
  BY <1>1, Types DEF IInv, TypeOK, Labels, Holding
<1>3. HoldersLock' /\ ConnectedHold' /\ ServingIsReachable'
  BY <1>1, Types, Parts DEF IInv, HoldersLock, ConnectedHold, ServingIsReachable, Holding, Connected
<1>4. CallsCount' /\ CallRunsOnce'
  BY <1>1, Types, Parts DEF IInv, CallsCount, CallRunsOnce, Over, Before
<1> QED
  BY <1>2, <1>3, <1>4 DEF IInv

LEMMA GivesUpHolds ==
  ASSUME IInv, NEW p \in Procs, GiveUp(p)
  PROVE IInv'
<1>1. /\ pc[p] \in {"open", "sweep", "listen"} /\ pc' = [pc EXCEPT ![p] = "leave"]
      /\ told' = [told EXCEPT ![p] = "failed"]
      /\ UNCHANGED <<path, lock, conn, asked, ran>>
  BY DEF GiveUp, To, Tell, Alone
<1>2. TypeOK'
  BY <1>1, Types DEF IInv, TypeOK, Labels, Holding, Ends
<1>3. HoldersLock' /\ ConnectedHold' /\ ServingIsReachable'
  BY <1>1, Types, Parts DEF IInv, HoldersLock, ConnectedHold, ServingIsReachable, Holding, Connected
<1>4. CallsCount' /\ CallRunsOnce'
  BY <1>1, Types, Parts DEF IInv, CallsCount, CallRunsOnce, Over, Before
<1> QED
  BY <1>2, <1>3, <1>4 DEF IInv

LEMMA Works ==
  ASSUME IInv, NEW p \in Callers, Work(p)
  PROVE IInv'
<1>1. PICK n \in {0, 1}, end \in {"done", "failed"} :
        /\ end = "done" => n = 1
        /\ pc[p] \in {"open", "work"} /\ pc' = [pc EXCEPT ![p] = "leave"]
        /\ told' = [told EXCEPT ![p] = end]
        /\ ran' = [ran EXCEPT ![p] = @ + n]
        /\ UNCHANGED <<path, lock, conn, asked>>
  <2>1. CASE UNCHANGED ran /\ Tell(p, "failed")
    <3>1. ran' = [ran EXCEPT ![p] = @ + 0]
      BY <2>1, Types
    <3> QED
      BY <2>1, <3>1 DEF Work, To, Tell
  <2>2. CASE ran' = [ran EXCEPT ![p] = @ + 1] /\ \E end \in {"done", "failed"} : Tell(p, end)
    BY <2>2 DEF Work, To, Tell
  <2> QED
    BY <2>1, <2>2 DEF Work
<1>2. p \in Procs /\ ran[p] = 0
  BY <1>1, Parts DEF IInv, CallsCount, Before
<1>3. TypeOK'
  BY <1>1, <1>2, Types DEF IInv, TypeOK, Labels, Holding, Ends
<1>4. HoldersLock' /\ ConnectedHold' /\ ServingIsReachable'
  BY <1>1, <1>2, Types, Parts DEF IInv, HoldersLock, ConnectedHold, ServingIsReachable, Holding, Connected
<1>5. CallsCount' /\ CallRunsOnce'
  BY <1>1, <1>2, Types, Parts DEF IInv, CallsCount, CallRunsOnce, Over, Before
<1> QED
  BY <1>3, <1>4, <1>5 DEF IInv

\* A daemon's steps at its socket: it holds the lock, so no other daemon serves.
LEMMA ServesAtSocket ==
  ASSUME IInv, NEW d \in Daemons, Serve(d)
  PROVE IInv'
<1>1. PICK label \in {"listen", "serving", "remove", "leave"} :
        /\ pc[d] \in {"sweep", "listen", "serving", "remove"}
        /\ pc' = [pc EXCEPT ![d] = label]
        /\ path' \in {"none", d}
        /\ label = "serving" => path' = d
        /\ UNCHANGED <<lock, conn, asked, ran, told>>
  BY DEF Serve, RemoveStaleSocket, Listen, CloseListener, RemoveSocket, To
<1>2. d \in Procs /\ d \notin Callers
  BY Parts
<1>3. TypeOK'
  BY <1>1, <1>2, Types DEF IInv, TypeOK, Labels, Holding
<1>4. \A e \in Daemons \ {d} : pc[e] # "serving"
  BY <1>1, <1>2, Parts DEF IInv, HoldersLock, Holding
<1>5. ServingIsReachable'
  BY <1>1, <1>2, <1>4, Types, Parts DEF ServingIsReachable
<1>6. HoldersLock' /\ ConnectedHold'
  BY <1>1, <1>2, Types DEF IInv, HoldersLock, ConnectedHold, Holding, Connected
<1>7. CallsCount' /\ CallRunsOnce'
  BY <1>1, <1>2, Types, Parts DEF IInv, CallsCount, CallRunsOnce
<1> QED
  BY <1>3, <1>5, <1>6, <1>7 DEF IInv

LEMMA Leaves ==
  ASSUME IInv, NEW p \in Procs, Disconnect(p) \/ Release(p)
  PROVE IInv'
<1>1. PICK label \in {"release", "end"} :
        /\ pc[p] = IF label = "end" THEN "release" ELSE "leave"
        /\ pc' = [pc EXCEPT ![p] = label]
        /\ conn' = IF label = "end" THEN conn ELSE conn \ {p}
        /\ lock' = IF label = "end" THEN "none" ELSE lock
        /\ UNCHANGED <<path, asked, ran, told>>
  BY DEF Disconnect, Release, To
<1>2. TypeOK'
  BY <1>1, Types DEF IInv, TypeOK, Labels, Holding, Over
<1>3. \A q \in Procs \ {p} : pc[q] \notin Holding
  BY <1>1 DEF IInv, HoldersLock, Holding
<1>4. HoldersLock' /\ ConnectedHold' /\ ServingIsReachable'
  BY <1>1, <1>3, Types, Parts DEF IInv, HoldersLock, ConnectedHold, ServingIsReachable, Holding, Connected
<1>5. CallsCount' /\ CallRunsOnce'
  BY <1>1, Types, Parts DEF IInv, CallsCount, CallRunsOnce, Over, Before
<1> QED
  BY <1>2, <1>4, <1>5 DEF IInv

-----------------------------------------------------------------------------
(* Delegated calls, and the death of a process. *)

LEMMA Delegates ==
  ASSUME IInv, NEW p \in Callers, DelegateSend(p) \/ Execute(p) \/ Answer(p) \/ AnswerLost(p)
  PROVE IInv'
<1>1. p \in Procs
  BY Parts
<1>2. CASE DelegateSend(p) /\ ~Listening
  BY <1>1, <1>2, Refuses DEF DelegateSend, Before, Holding, Alone
<1>3. CASE DelegateSend(p) /\ Listening
  <2>1. /\ pc[p] = "dial" /\ pc' = [pc EXCEPT ![p] = "asked"] /\ asked' = [asked EXCEPT ![p] = path]
        /\ path \in Daemons /\ UNCHANGED <<path, lock, conn, ran, told>>
    BY <1>3 DEF DelegateSend, Listening, To
  <2>2. TypeOK'
    BY <1>1, <2>1, Types DEF IInv, TypeOK, Labels, Before
  <2>3. HoldersLock' /\ ConnectedHold' /\ ServingIsReachable'
    BY <1>1, <2>1, Types, Parts DEF IInv, HoldersLock, ConnectedHold, ServingIsReachable, Holding, Connected
  <2>4. CallsCount' /\ CallRunsOnce'
    BY <1>1, <2>1, Types, Parts DEF IInv, CallsCount, CallRunsOnce, Over, Before
  <2> QED
    BY <2>2, <2>3, <2>4 DEF IInv
<1>4. CASE Execute(p)
  <2>1. /\ pc[p] = "asked" /\ pc' = [pc EXCEPT ![p] = "executed"] /\ ran' = [ran EXCEPT ![p] = @ + 1]
        /\ UNCHANGED <<path, lock, conn, asked, told>>
    BY <1>4 DEF Execute, To
  <2>2. ran[p] = 0 /\ told[p] = "-"
    BY <2>1 DEF IInv, CallsCount, Before, Over
  <2>3. TypeOK'
    BY <1>1, <2>1, Types DEF IInv, TypeOK, Labels
  <2>4. HoldersLock' /\ ConnectedHold' /\ ServingIsReachable'
    BY <1>1, <2>1, Types, Parts DEF IInv, HoldersLock, ConnectedHold, ServingIsReachable, Holding, Connected
  <2>5. CallsCount' /\ CallRunsOnce'
    BY <1>1, <2>1, <2>2, Types, Parts DEF IInv, CallsCount, CallRunsOnce, Over, Before
  <2> QED
    BY <2>3, <2>4, <2>5 DEF IInv
<1>5. CASE Answer(p) \/ AnswerLost(p)
  <2>1. PICK end \in {"done", "failed", "lost"} :
          /\ pc[p] \in {"asked", "executed"}
          /\ end = "done" => pc[p] = "executed"
          /\ pc' = [pc EXCEPT ![p] = "end"] /\ told' = [told EXCEPT ![p] = end]
          /\ UNCHANGED <<path, lock, conn, asked, ran>>
    BY <1>5 DEF Answer, AnswerLost, To, Tell, Alone
  <2>2. TypeOK'
    BY <1>1, <2>1, Types DEF IInv, TypeOK, Labels, Over, Ends
  <2>3. HoldersLock' /\ ConnectedHold' /\ ServingIsReachable'
    BY <1>1, <2>1, Types, Parts DEF IInv, HoldersLock, ConnectedHold, ServingIsReachable, Holding, Connected
  <2>4. CallsCount' /\ CallRunsOnce'
    BY <1>1, <2>1, Types, Parts DEF IInv, CallsCount, CallRunsOnce, Over, Before
  <2> QED
    BY <2>2, <2>3, <2>4 DEF IInv
<1> QED
  BY <1>2, <1>3, <1>4, <1>5 DEF DelegateSend

LEMMA Dies ==
  ASSUME IInv, NEW p \in Procs, Kill(p)
  PROVE IInv'
<1>1. /\ pc' = [pc EXCEPT ![p] = "dead"] /\ conn' = conn \ {p}
      /\ lock' = IF lock = p THEN "none" ELSE lock
      /\ path' = IF path = p THEN "stale" ELSE path
      /\ UNCHANGED <<asked, ran, told>>
  BY DEF Kill, To
<1>2. TypeOK'
  BY <1>1, Types DEF IInv, TypeOK, Labels, Over
<1>3. HoldersLock' /\ ConnectedHold' /\ ServingIsReachable'
  BY <1>1, Types, Parts DEF IInv, HoldersLock, ConnectedHold, ServingIsReachable, Holding
<1>4. CallsCount' /\ CallRunsOnce'
  BY <1>1, Types, Parts DEF IInv, CallsCount, CallRunsOnce, Over, Before
<1> QED
  BY <1>2, <1>3, <1>4 DEF IInv

-----------------------------------------------------------------------------
LEMMA StepInv == ASSUME IInv, [Next]_vars PROVE IInv'
<1>1. CASE Pin \/ UNCHANGED vars
  BY <1>1 DEF Pin, vars, IInv, TypeOK, HoldersLock, ConnectedHold, ServingIsReachable, CallsCount, CallRunsOnce
<1>2. ASSUME NEW p \in Procs, Own(p) PROVE IInv'
  <2>1. CASE StartExempt(p)
    BY <2>1, Moves DEF StartExempt, Before, Holding
  <2>2. CASE StoreIsDelegateOnly(p)
    BY <2>2, Moves DEF StoreIsDelegateOnly, Before, Holding
  <2>3. CASE LockFails(p)
    BY <2>3, Moves, Refuses DEF LockFails, Before, Holding
  <2> QED
    BY <1>2, <2>1, <2>2, <2>3, TakesLock, Connects, GivesUpHolds, Leaves, Dies DEF Own
<1>3. ASSUME NEW p \in Callers, Call(p) PROVE IInv'
  <2>1. p \in Procs
    BY Parts
  <2>2. CASE StartOnce(p)
    BY <2>1, <2>2, Moves, Refuses DEF StartOnce, Before, Holding
  <2>3. CASE StartKind(p)
    BY <2>1, <2>3, Moves DEF StartKind, Before, Holding
  <2>4. CASE StartOther(p)
    BY <2>1, <2>4, Moves DEF StartOther, Before, Holding
  <2>5. CASE OpenPinned(p)
    BY <2>1, <2>5, Moves, Refuses DEF OpenPinned, Before, Holding
  <2> QED
    BY <1>3, <2>2, <2>3, <2>4, <2>5, Works, Delegates DEF Call
<1> QED
  BY <1>1, <1>2, <1>3, ServesAtSocket DEF Next

\* The inductive invariant holds in every reachable state.
THEOREM Invariance == Spec => []IInv
<1>1. Init => IInv
  BY InitInv
<1>2. IInv /\ [Next]_vars => IInv'
  BY StepInv
<1> QED
  BY <1>1, <1>2, PTL DEF Spec

\* Who is connected holds the lock, so there is at most one.
LEMMA OneIsConnected == ASSUME IInv PROVE OneConnection
<1>1. conn \subseteq {lock}
  BY DEF IInv, TypeOK, ConnectedHold, HoldersLock, Connected, Holding
<1>2. CASE conn = {}
  BY <1>2, FS_EmptySet DEF OneConnection
<1>3. CASE conn = {lock}
  <2>1. Cardinality({lock}) = 1
    BY FS_Singleton, Zenon
  <2> QED
    BY <1>3, <2>1 DEF OneConnection
<1> QED
  BY <1>1, <1>2, <1>3

\* However many daemons, calls and pairings start, stop and die: one process at
\* most is connected, and no step of another hides a daemon that serves.
THEOREM AloneAlways == Spec => []DaemonIsAlone
<1>1. IInv => DaemonIsAlone
  BY OneIsConnected DEF IInv, DaemonIsAlone
<1> QED
  BY <1>1, Invariance, PTL

\* A call's request is executed at most once over the local and the delegated
\* path, and what the caller is told agrees with it.
THEOREM RunsOnceAlways == Spec => []CallRunsOnce
<1>1. IInv => CallRunsOnce
  BY DEF IInv
<1> QED
  BY <1>1, Invariance, PTL

-----------------------------------------------------------------------------
(* Session: a recorded logout stays, and an answer wakes who waits for it.  *)
(* `revoked`, `socket`, `at` and `recorded` are its marker, conn, pc and    *)
(* told.                                                                    *)

Kinds == {"Connected", "LoggedOut", "ConnectFailure", "Disconnected", "StreamReplaced"}
Observations == [revoked : BOOLEAN, confirmed : BOOLEAN, terminal : {"none", "failed", "revoked"},
                 persist : {"ok", "failed"}]

LoginTypes ==
  /\ paired \in Nat /\ row \in 0 .. paired /\ socket \in 0 .. paired
  /\ linked \subseteq 1 .. paired /\ recorded \subseteq 1 .. paired
  /\ calls \subseteq [kind : Kinds, device : 1 .. paired]
  /\ obs \in Observations
  /\ at \in [Waiters -> {"idle", "prepare", "connect", "check", "select"}]

\* A client is at work for the device of the row, and its socket, too, until that is deleted.
OneDevice ==
  /\ proc = "none" => calls = {} /\ socket = 0 /\ \A w \in Waiters : at[w] = "idle"
  /\ proc # "none" => dev = row
  /\ socket # 0 => socket = row \/ row = 0

\* What was unlinked does not come back, and a Connected event that may still clear the
\* marker is of a device whose logout nobody recorded.
LogoutsHold ==
  /\ recorded \cap linked = {}
  /\ \A e \in calls : e.kind \in {"LoggedOut", "ConnectFailure"} => e.device \notin linked
  /\ (\E e \in calls : e.kind = "Connected") /\ ~obs.revoked => row \notin recorded
  /\ row \in recorded => revoked

\* One request at a time waits, and no answer came without a wake-up.
OneWaits ==
  /\ \A w \in Waiters : at[w] # "idle" => gate = w
  /\ \A w \in Waiters : at[w] = "select" /\ Login!Answered => token

LoginInv == LoginTypes /\ OneDevice /\ LogoutsHold /\ OneWaits

LEMMA LoginStarts == Login!Init => LoginInv
  BY DEF Login!Init, LoginInv, LoginTypes, OneDevice, LogoutsHold, OneWaits, Login!Fresh, Observations, Kinds

\* The process starts, ends, connects and pairs.
LEMMA ProcessKeeps ==
  ASSUME LoginInv,
         (\E c \in {"auth", "sync", "command"} : Login!OpenWA(c)) \/ Login!Close \/ Login!Dial \/ Login!Pair
  PROVE  LoginInv'
<1>. USE DEF LoginInv, Login!disk, Login!socket, Login!waiting
<1>1. ASSUME NEW c \in {"auth", "sync", "command"}, Login!OpenWA(c) PROVE LoginInv'
  <2>1. /\ proc = "none" /\ proc' = c /\ dev' = row /\ obs' = Login!Fresh /\ token' = FALSE
        /\ UNCHANGED <<paired, linked, row, revoked, recorded, socket, greeted, deleting, calls, gate, at>>
    BY <1>1 DEF Login!OpenWA
  <2>2. LoginTypes'  BY <2>1 DEF LoginTypes, Login!Fresh, Observations
  <2>3. OneDevice'  BY <2>1 DEF OneDevice
  <2>4. LogoutsHold'  BY <2>1 DEF LogoutsHold, OneDevice
  <2>5. OneWaits'  BY <2>1 DEF OneWaits, OneDevice
  <2>. QED  BY <2>2, <2>3, <2>4, <2>5
<1>2. CASE Login!Close
  <2>1. /\ proc' = "none" /\ dev' = 0 /\ socket' = 0 /\ calls' = {} /\ obs' = Login!Fresh
        /\ at' = [w \in Waiters |-> "idle"]
        /\ UNCHANGED <<paired, linked, row, revoked, recorded>>
    BY <1>2 DEF Login!Close
  <2>2. LoginTypes'  BY <2>1 DEF LoginTypes, Login!Fresh, Observations
  <2>3. OneDevice'  BY <2>1 DEF OneDevice
  <2>4. LogoutsHold'  BY <2>1 DEF LogoutsHold
  <2>5. OneWaits'  BY <2>1 DEF OneWaits
  <2>. QED  BY <2>2, <2>3, <2>4, <2>5
<1>3. CASE Login!Dial
  <2>1. /\ proc # "none" /\ socket' = dev
        /\ UNCHANGED <<paired, linked, row, revoked, recorded, proc, dev, calls, obs, token, gate, at>>
    BY <1>3 DEF Login!Dial
  <2>2. LoginTypes' /\ OneDevice'  BY <2>1 DEF LoginTypes, OneDevice
  <2>3. LogoutsHold' /\ OneWaits'  BY <2>1 DEF LogoutsHold, OneWaits, Login!Answered
  <2>. QED  BY <2>2, <2>3
<1>4. CASE Login!Pair
  <2>1. /\ proc = "auth" /\ proc' = proc /\ paired' = paired + 1 /\ linked' = linked \cup {paired'}
        /\ row' = paired' /\ dev' = paired' /\ socket' = paired'
        /\ UNCHANGED <<revoked, recorded, calls, obs, token, gate, at>>
    BY <1>4 DEF Login!Pair
  <2>2. 1 .. paired \subseteq 1 .. paired' /\ paired' \in 1 .. paired' /\ paired' \in 0 .. paired'
        /\ paired' \notin 1 .. paired /\ paired' \in Nat
    BY <2>1 DEF LoginTypes
  <2>3. calls \subseteq [kind : Kinds, device : 1 .. paired']  BY <2>2 DEF LoginTypes
  <2>4. LoginTypes'  BY <2>1, <2>2, <2>3 DEF LoginTypes
  <2>5. OneDevice'  BY <2>1 DEF OneDevice
  <2>6. LogoutsHold'  BY <2>1, <2>2 DEF LogoutsHold, LoginTypes
  <2>7. OneWaits'  BY <2>1 DEF OneWaits, Login!Answered
  <2>. QED  BY <2>4, <2>5, <2>6, <2>7
<1>. QED  BY <1>1, <1>2, <1>3, <1>4

\* What WhatsApp does to the socket, and what whatsmeow says of it.
LEMMA WhatsAppKeeps ==
  ASSUME LoginInv,
         Login!Accept \/ Login!Refuse \/ Login!Unlink \/ Login!Drop \/ Login!DeleteDevice \/ Login!Logout
  PROVE  LoginInv'
<1>. USE DEF LoginInv, Login!disk, Login!socket, Login!waiting
<1>1. UNCHANGED <<paired, revoked, recorded, proc, obs, token, gate, at>>
  BY DEF Login!Accept, Login!Refuse, Login!Unlink, Login!Drop, Login!DeleteDevice, Login!Logout, Login!Take
<1>2. OneWaits'  BY <1>1 DEF OneWaits, Login!Answered
<1>3. socket # 0 => socket \in 1 .. paired /\ proc # "none"  BY DEF LoginTypes, OneDevice
<1>4. \A k \in Kinds, d \in 1 .. paired :
        /\ Login!Event(k, d) \in [kind : Kinds, device : 1 .. paired]
        /\ Login!Event(k, d).kind = k /\ Login!Event(k, d).device = d
  BY DEF Login!Event
<1>. HIDE DEF LoginInv
<1>5. ASSUME linked' \subseteq linked, dev' = dev, row' = row, socket' \in {socket, 0},
             \A e \in calls' : \/ e \in calls
                               \/ /\ e \in [kind : Kinds, device : 1 .. paired] /\ socket # 0
                                  /\ e.kind \in {"LoggedOut", "ConnectFailure"} => e.device \notin linked'
                                  /\ e.kind = "Connected" => row \notin recorded
      PROVE  LoginInv'
  <2>. USE DEF LoginInv
  <2>1. LoginTypes'  BY <1>1, <1>5 DEF LoginTypes
  <2>2. OneDevice'  BY <1>1, <1>3, <1>5 DEF OneDevice
  <2>3. LogoutsHold'  BY <1>1, <1>5 DEF LogoutsHold
  <2>. QED  BY <1>2, <2>1, <2>2, <2>3
<1>6. CASE Login!Accept
  <2>. DEFINE e == Login!Event("Connected", socket)
  <2>1. /\ socket \in linked /\ calls' = calls \cup {e} /\ socket # 0
        /\ UNCHANGED <<linked, row, dev, socket>>
    BY <1>6 DEF Login!Accept
  <2>2. e \in [kind : Kinds, device : 1 .. paired] /\ e.kind = "Connected"  BY <1>3, <1>4, <2>1 DEF Kinds
  <2>3. row \notin recorded  BY <2>1 DEF LoginInv, LoginTypes, OneDevice, LogoutsHold
  <2>. HIDE DEF e
  <2>. QED  BY <1>5, <2>1, <2>2, <2>3
<1>7. CASE Login!Refuse
  <2>. DEFINE e == Login!Event("ConnectFailure", socket)
  <2>1. /\ socket \notin linked /\ socket # 0 /\ calls' = calls \cup {e} /\ socket' = 0
        /\ UNCHANGED <<linked, row, dev>>
    BY <1>7 DEF Login!Refuse
  <2>2. e \in [kind : Kinds, device : 1 .. paired] /\ e.kind = "ConnectFailure" /\ e.device = socket
    BY <1>3, <1>4, <2>1 DEF Kinds
  <2>. HIDE DEF e
  <2>. QED  BY <1>5, <2>1, <2>2
<1>8. CASE Login!Unlink
  <2>1. PICK d \in linked :
          /\ linked' = linked \ {d} /\ UNCHANGED <<row, dev>>
          /\ \/ calls' = calls \cup {Login!Event("LoggedOut", d)} /\ socket' = 0 /\ socket = d
             \/ UNCHANGED <<calls, socket>>
    BY <1>8 DEF Login!Unlink
  <2>. DEFINE e == Login!Event("LoggedOut", d)
  <2>2. /\ e \in [kind : Kinds, device : 1 .. paired] /\ e.kind = "LoggedOut" /\ e.device = d
        /\ d # 0
    BY <1>4 DEF Kinds, LoginInv, LoginTypes
  <2>. HIDE DEF e
  <2>3. CASE calls' = calls \cup {e} /\ socket' = 0 /\ socket = d  BY <1>5, <2>1, <2>2, <2>3
  <2>4. CASE UNCHANGED <<calls, socket>>  BY <1>5, <2>1, <2>4
  <2>. QED  BY <2>1, <2>3, <2>4 DEF e
<1>9. CASE Login!Drop
  <2>1. PICK k \in {"Disconnected", "StreamReplaced"} : calls' = calls \cup {Login!Event(k, socket)}
    BY <1>9 DEF Login!Drop
  <2>2. socket # 0 /\ socket' = 0 /\ UNCHANGED <<linked, row, dev>>  BY <1>9 DEF Login!Drop
  <2>. DEFINE e == Login!Event(k, socket)
  <2>3. e \in [kind : Kinds, device : 1 .. paired] /\ e.kind = k  BY <1>3, <1>4, <2>2 DEF Kinds
  <2>. HIDE DEF e
  <2>. QED  BY <1>5, <2>1, <2>2, <2>3 DEF e
<1>10. CASE Login!DeleteDevice
  <2>1. row' = 0 /\ dev' = 0 /\ UNCHANGED <<linked, socket, calls>>  BY <1>10 DEF Login!DeleteDevice
  <2>2. 0 \notin recorded  BY DEF LoginInv, LoginTypes
  <2>3. LoginTypes'  BY <1>1, <2>1 DEF LoginInv, LoginTypes
  <2>4. OneDevice'  BY <1>1, <2>1 DEF LoginInv, OneDevice
  <2>5. LogoutsHold'  BY <1>1, <2>1, <2>2 DEF LoginInv, LogoutsHold
  <2>. QED  BY <1>2, <2>3, <2>4, <2>5 DEF LoginInv
<1>11. CASE Login!Logout
  <2>1. linked' \subseteq linked /\ socket' = 0 /\ UNCHANGED <<row, dev, calls>>
    BY <1>11 DEF Login!Logout
  <2>. QED  BY <1>5, <2>1
<1>. QED  BY <1>6, <1>7, <1>8, <1>9, <1>10, <1>11

\* The observer: only a login that no recorded logout is about clears the marker.
LEMMA ObserverKeeps == ASSUME LoginInv, Login!Deliver PROVE LoginInv'
<1>. USE DEF LoginInv
<1>1. PICK e \in calls : calls' = calls \ {e} /\ Login!Observe(e)
  BY DEF Login!Deliver
<1>2. /\ token' = TRUE /\ UNCHANGED <<paired, linked, row, proc, dev, socket, at, gate>>
  BY DEF Login!Deliver, Login!Notify, Login!socket, Login!waiting
<1>3. e.kind \in Kinds /\ e.device \in 1 .. paired  BY DEF LoginTypes
<1>4. OneDevice' /\ OneWaits'  BY <1>1, <1>2 DEF OneDevice, OneWaits
<1>5. ASSUME obs' \in Observations, recorded' \subseteq recorded \cup {e.device},
             obs.revoked => obs'.revoked,
             recorded' # recorded => obs'.revoked /\ e.device \notin linked /\ revoked',
             revoked' \/ revoked' = revoked \/ row \notin recorded
      PROVE  LoginInv'
  <2>1. LoginTypes'  BY <1>1, <1>2, <1>3, <1>5 DEF LoginTypes
  <2>2. recorded' \cap linked' = {}  BY <1>2, <1>5 DEF LogoutsHold
  <2>3. \A x \in calls' : x.kind \in {"LoggedOut", "ConnectFailure"} => x.device \notin linked'
    BY <1>1, <1>2 DEF LogoutsHold
  <2>4. (\E x \in calls' : x.kind = "Connected") /\ ~obs'.revoked => row' \notin recorded'
    <3>1. ~obs'.revoked => recorded' = recorded /\ ~obs.revoked  BY <1>5 DEF LoginTypes, Observations
    <3>. QED  BY <1>1, <1>2, <3>1 DEF LogoutsHold
  <2>5. row' \in recorded' => revoked'  BY <1>2, <1>5 DEF LogoutsHold
  <2>6. LogoutsHold'  BY <2>2, <2>3, <2>4, <2>5 DEF LogoutsHold
  <2>. QED  BY <1>4, <2>1, <2>6
<1>. HIDE DEF LoginInv
<1>6. obs \in Observations  BY DEF LoginInv, LoginTypes
<1>7. CASE e.kind = "Connected"
  <2>1. recorded' = recorded /\ Login!ConfirmLogin  BY <1>1, <1>7 DEF Login!Observe
  <2>2. CASE obs' = obs /\ revoked' = revoked  BY <1>5, <1>6, <2>1, <2>2
  <2>3. CASE ~obs.revoked /\ Login!ClearSessionRevoked
    <3>1. row \notin recorded  BY <1>7, <2>3 DEF LoginInv, LogoutsHold
    <3>2. obs' \in Observations  BY <1>6, <2>3 DEF Login!ClearSessionRevoked, Observations
    <3>. QED  BY <1>5, <2>1, <2>3, <3>1, <3>2
  <2>. QED  BY <2>1, <2>2, <2>3 DEF Login!ConfirmLogin
<1>8. CASE e.kind = "Disconnected"
  <2>1. obs' = [obs EXCEPT !.confirmed = FALSE] /\ UNCHANGED <<revoked, recorded>>
    BY <1>1, <1>8 DEF Login!Observe
  <2>2. obs' \in Observations /\ obs'.revoked = obs.revoked  BY <1>6, <2>1 DEF Observations
  <2>. QED  BY <1>5, <2>1, <2>2
<1>9. CASE e.kind \in {"LoggedOut", "ConnectFailure"}
  <2>1. Login!MarkSessionRevoked(e.device)  BY <1>1, <1>9 DEF Login!Observe, Login!RejectLogin
  <2>2. obs' \in Observations /\ obs'.revoked  BY <1>6, <2>1 DEF Login!MarkSessionRevoked, Observations
  <2>3. e.device \notin linked  BY <1>9 DEF LoginInv, LogoutsHold
  <2>4. \/ revoked' = TRUE /\ recorded' = recorded \cup {e.device}
        \/ UNCHANGED <<revoked, recorded>>
    BY <2>1 DEF Login!MarkSessionRevoked
  <2>. QED  BY <1>5, <2>2, <2>3, <2>4
<1>10. CASE e.kind = "StreamReplaced"
  <2>1. /\ obs' = [obs EXCEPT !.confirmed = FALSE, !.terminal = IF @ = "none" THEN "failed" ELSE @]
        /\ UNCHANGED <<revoked, recorded>>
    BY <1>1, <1>10 DEF Login!Observe, Login!RejectLogin
  <2>2. obs' \in Observations /\ obs'.revoked = obs.revoked  BY <1>6, <2>1 DEF Observations
  <2>. QED  BY <1>5, <2>1, <2>2
<1>. QED  BY <1>3, <1>7, <1>8, <1>9, <1>10 DEF Kinds

\* A request in App.Connect: the gate lets one in, so that no other takes its wake-up.
LEMMA ConnectKeeps == ASSUME LoginInv, NEW w \in Waiters, Login!Step(w) PROVE LoginInv'
<1>. USE DEF LoginInv, Login!disk, Login!socket, Login!waiting
<1>1. /\ UNCHANGED <<paired, linked, row, revoked, recorded, proc, dev, calls>>
      /\ obs' \in Observations /\ obs'.revoked = obs.revoked
  <2>1. /\ UNCHANGED <<paired, linked, row, revoked, recorded, proc, dev, calls>>
        /\ obs' \in {obs, [obs EXCEPT !.confirmed = FALSE, !.terminal = "none", !.persist = "ok"]}
    BY DEF Login!Step, Login!EnterGate, Login!PrepareConnect, Login!ConnectClient, Login!CheckLogin, Login!Wake
  <2>. QED  BY <2>1 DEF LoginTypes, Observations
<1>2. LogoutsHold'  BY <1>1 DEF LogoutsHold
<1>3. at' \in [Waiters -> {"idle", "prepare", "connect", "check", "select"}]
  BY DEF LoginTypes, Login!Step, Login!EnterGate, Login!PrepareConnect,
         Login!ConnectClient, Login!CheckLogin, Login!Wake, Login!Leave
<1>4. socket' = socket \/ (socket = 0 /\ socket' = dev /\ at[w] # "idle")
  BY DEF Login!Step, Login!EnterGate, Login!PrepareConnect, Login!ConnectClient, Login!CheckLogin, Login!Wake
<1>5. proc # "none"
  BY DEF OneDevice, Login!Step, Login!EnterGate, Login!PrepareConnect, Login!ConnectClient,
         Login!CheckLogin, Login!Wake
<1>6. LoginTypes' /\ OneDevice'  BY <1>1, <1>3, <1>4, <1>5 DEF LoginTypes, OneDevice
<1>7. OneWaits'
  <2>1. \A v \in Waiters : v # w => at[v] = "idle" /\ at'[v] = "idle"
    <3>1. gate \in {"free", w}
      BY DEF OneWaits, Login!Step, Login!EnterGate, Login!PrepareConnect,
             Login!ConnectClient, Login!CheckLogin, Login!Wake
    <3>2. \A v \in Waiters : v # w => at'[v] = at[v]
      BY DEF LoginTypes, Login!Step, Login!EnterGate, Login!PrepareConnect,
             Login!ConnectClient, Login!CheckLogin, Login!Wake, Login!Leave
    <3>. QED  BY <3>1, <3>2, NobodyAssumption DEF OneWaits
  <2>2. at'[w] # "idle" => gate' = w
    BY DEF OneWaits, LoginTypes, Login!Step, Login!EnterGate, Login!PrepareConnect,
           Login!ConnectClient, Login!CheckLogin, Login!Wake, Login!Leave
  <2>3. at'[w] = "select" => ~Login!Answered /\ obs' = obs
    BY DEF LoginTypes, Login!Step, Login!EnterGate, Login!PrepareConnect,
           Login!ConnectClient, Login!CheckLogin, Login!Wake, Login!Leave
  <2>. QED  BY <2>1, <2>2, <2>3 DEF OneWaits, Login!Answered
<1>. QED  BY <1>2, <1>6, <1>7

LEMMA LoginKeeps == ASSUME LoginInv, [Login!Next]_(Login!vars) PROVE LoginInv'
<1>1. CASE UNCHANGED Login!vars
  BY <1>1 DEF Login!vars, LoginInv, LoginTypes, OneDevice, LogoutsHold, OneWaits, Login!Answered
<1>. QED  BY <1>1, ProcessKeeps, WhatsAppKeeps, ObserverKeeps, ConnectKeeps DEF Login!Next

\* Whatever is lost, late or fails: what the status commands and doctor say follows the
\* last logout that was recorded, until another pairing is confirmed, ...
THEOREM RevokedStaysAlways == (Login!Spec => []Login!RevokedStays) /\ (RequestsSpec => []RevokedStays)
<1>. DEFINE Part == part = "session" => LoginInv
<1>1. RequestsInit => Part  BY LoginStarts DEF RequestsInit
<1>2. Part /\ [RequestsNext]_requestsVars => Part'
  <2>1. [RequestsNext]_requestsVars => part' = part /\ (part = "session" => [Login!Next]_(Login!vars))
    BY DEF RequestsNext, requestsVars, loginVars, Login!vars
  <2>. QED  BY <2>1, LoginKeeps
<1>3. LoginInv => Login!RevokedStays
  BY DEF LoginInv, LogoutsHold, Login!RevokedStays, Login!AuthStatus, Login!ReadOnlyAuthStatus,
         Login!DoctorReport, Login!SessionRevoked
<1>4. Part => RevokedStays  BY <1>3 DEF RevokedStays
<1>5. Login!Spec => []Login!RevokedStays  BY LoginStarts, LoginKeeps, <1>3, PTL DEF Login!Spec
<1>. HIDE DEF Part
<1>6. RequestsSpec => []RevokedStays  BY <1>1, <1>2, <1>4, PTL DEF RequestsSpec
<1>. QED  BY <1>5, <1>6

\* ... and a request that waits for its login is woken by every answer.
THEOREM LoginIsHeardAlways == (Login!Spec => []Login!LoginIsHeard) /\ (RequestsSpec => []LoginIsHeard)
<1>. DEFINE Part == part = "session" => LoginInv
<1>1. RequestsInit => Part  BY LoginStarts DEF RequestsInit
<1>2. Part /\ [RequestsNext]_requestsVars => Part'
  <2>1. [RequestsNext]_requestsVars => part' = part /\ (part = "session" => [Login!Next]_(Login!vars))
    BY DEF RequestsNext, requestsVars, loginVars, Login!vars
  <2>. QED  BY <2>1, LoginKeeps
<1>3. LoginInv => Login!LoginIsHeard  BY DEF LoginInv, OneWaits, Login!LoginIsHeard
<1>4. Part => LoginIsHeard  BY <1>3 DEF LoginIsHeard
<1>5. Login!Spec => []Login!LoginIsHeard  BY LoginStarts, LoginKeeps, <1>3, PTL DEF Login!Spec
<1>. HIDE DEF Part
<1>6. RequestsSpec => []LoginIsHeard  BY <1>1, <1>2, <1>4, PTL DEF RequestsSpec
<1>. QED  BY <1>5, <1>6

-----------------------------------------------------------------------------
(* MessageMedia: nothing is given up too early, and no damaged copy gets out. *)

MediaRow == [path : BOOLEAN, gone : BOOLEAN, deleted : BOOLEAN, purged : BOOLEAN]
Replies == {"refused", "uploaded", "not_found"}
Notes == Replies \cup {"none", "failed"}

MediaTypes ==
  /\ row \in [Msgs -> MediaRow] /\ notifs \in [Msgs -> Notes]
  /\ answers \subseteq Msgs \X Replies
  /\ out \in [Msgs -> {"theirs", "whole"}]

\* The phone never gets back what it lost, so that its last word about it stays true
\* on the way, in the map of the retry, and in the row.
PhoneHasNone ==
  /\ \A m \in Msgs : <<m, "not_found">> \in answers => m \notin held
  /\ \A m \in Msgs : notifs[m] = "not_found" => m \notin held

MediaInv == MediaTypes /\ PhoneHasNone /\ Media!GoneIsConfirmed

LEMMA MediaStarts == Media!Init => MediaInv
  BY DEF Media!Init, Media!Fresh, Media!NoAnswers, MediaInv, MediaTypes, PhoneHasNone, Media!GoneIsConfirmed,
         MediaRow, Notes, Replies

\* What each statement does to a row.
LEMMA RowStatements ==
  ASSUME row \in [Msgs -> MediaRow], NEW m,
         \/ Media!MarkMediaDownloaded(m) \/ Media!ClearMessageLocalMedia(m)
         \/ Media!MarkMessageDeletedForMe(m) \/ Media!PurgeMessage(m)
  PROVE  row' \in [Msgs -> MediaRow] /\ \A k \in Msgs : row'[k].gone => row[k].gone
<1>1. CASE Media!MarkMediaDownloaded(m)  BY <1>1 DEF Media!MarkMediaDownloaded, MediaRow
<1>2. CASE Media!ClearMessageLocalMedia(m)  BY <1>2 DEF Media!ClearMessageLocalMedia, MediaRow
<1>3. CASE Media!MarkMessageDeletedForMe(m)  BY <1>3 DEF Media!MarkMessageDeletedForMe, MediaRow
<1>4. CASE Media!PurgeMessage(m)  BY <1>4 DEF Media!PurgeMessage, MediaRow
<1>. QED  BY <1>1, <1>2, <1>3, <1>4

LEMMA Unavailable ==
  ASSUME row \in [Msgs -> MediaRow], NEW m, Media!MarkMediaUnavailable(m)
  PROVE  row' \in [Msgs -> MediaRow] /\ \A k \in Msgs : row'[k].gone => row[k].gone \/ k = m
  BY DEF Media!MarkMediaUnavailable, MediaRow

\* A step of anybody but the phone and the caller keeps the invariant, if it gives up only
\* what the phone does not have and the server no longer serves.
LEMMA StoreStep ==
  ASSUME MediaInv, UNCHANGED <<served, held, answers, out>>, row' \in [Msgs -> MediaRow],
         \A k \in Msgs : row'[k].gone => row[k].gone \/ (notifs[k] = "not_found" /\ k \notin served),
         notifs' = notifs \/ notifs' = [k \in Msgs |-> "none"]
  PROVE  MediaInv'
<1>. USE DEF MediaInv
<1>1. MediaTypes'  BY DEF MediaTypes, Notes
<1>2. \A k \in Msgs : notifs'[k] \in {notifs[k], "none"}  BY DEF MediaTypes
<1>3. PhoneHasNone'  BY <1>2 DEF PhoneHasNone
<1>4. (Media!GoneIsConfirmed)'  BY DEF PhoneHasNone, Media!GoneIsConfirmed
<1>. QED  BY <1>1, <1>3, <1>4

\* Steps that write rows.
LEMMA RowsKeep ==
  ASSUME MediaInv,
         \/ Media!JobRecords \/ Media!ExactRecords \/ Media!RecordRetried
         \/ Media!Unlink \/ Media!Clear \/ Media!Mark
         \/ \E m \in Msgs : Media!DeletedElsewhere(m) \/ Media!Classify(m)
  PROVE  MediaInv'
<1>1. row \in [Msgs -> MediaRow]  BY DEF MediaInv, MediaTypes
<1>2. UNCHANGED <<served, held, answers, out>> /\ (notifs' = notifs \/ notifs' = [k \in Msgs |-> "none"])
  BY DEF Media!JobRecords, Media!ExactRecords, Media!RecordRetried, Media!Unlink, Media!Clear, Media!Mark,
         Media!DeletedElsewhere, Media!Classify, Media!world, Media!NoAnswers
<1>3. \/ row' = row
      \/ \E m : \/ Media!MarkMediaDownloaded(m) \/ Media!ClearMessageLocalMedia(m)
                \/ Media!MarkMessageDeletedForMe(m) \/ Media!PurgeMessage(m)
      \/ \E m \in Msgs : Media!MarkMediaUnavailable(m) /\ notifs[m] = "not_found" /\ m \notin served
  <2>1. CASE Media!JobRecords \/ Media!ExactRecords \/ Media!RecordRetried
    BY <2>1, Zenon DEF Media!JobRecords, Media!ExactRecords, Media!RecordRetried
  <2>2. CASE Media!Unlink \/ Media!Clear \/ Media!Mark
    BY <2>2, Zenon DEF Media!Unlink, Media!Clear, Media!Mark
  <2>3. CASE \E m \in Msgs : Media!DeletedElsewhere(m)
    BY <2>3, Zenon DEF Media!DeletedElsewhere
  <2>4. ASSUME NEW m \in Msgs, Media!Classify(m)
        PROVE  row' = row \/ (Media!MarkMediaUnavailable(m) /\ notifs[m] = "not_found" /\ m \notin served)
    BY <2>4 DEF Media!Classify, Media!Expired
  <2>. QED  BY <2>1, <2>2, <2>3, <2>4
<1>4. CASE row' = row  BY <1>1, <1>2, <1>4, StoreStep
<1>5. ASSUME NEW m, \/ Media!MarkMediaDownloaded(m) \/ Media!ClearMessageLocalMedia(m)
                    \/ Media!MarkMessageDeletedForMe(m) \/ Media!PurgeMessage(m)
      PROVE  MediaInv'
  BY <1>1, <1>2, <1>5, RowStatements, StoreStep
<1>6. ASSUME NEW m \in Msgs, Media!MarkMediaUnavailable(m), notifs[m] = "not_found", m \notin served
      PROVE  MediaInv'
  BY <1>1, <1>2, <1>6, Unavailable, StoreStep
<1>. QED  BY <1>3, <1>4, <1>5, <1>6

\* Steps that write none.
LEMMA OthersKeep ==
  ASSUME MediaInv,
         \/ \E m \in Msgs : \/ Media!Enqueue(m) \/ Media!TakeJob(m) \/ Media!ExactDownload(m)
                            \/ Media!DeleteForMe(m) \/ Media!Purge(m) \/ Media!CopyBegins(m) \/ Media!Damaged(m)
         \/ Media!JobFetches \/ Media!RetryMedia \/ Media!RetryCancelled \/ Media!ExactServer
         \/ Media!NextBatch \/ Media!Sent \/ Media!WaitEnds \/ Media!BatchEnds
         \/ Media!ListPaths \/ Media!Scan \/ Media!CopyOut
         \/ \E o \in {"sync", "command"} : Media!NextOwner(o)
  PROVE  MediaInv'
<1>1. /\ UNCHANGED <<row, served, held, answers, out>>
      /\ notifs' = notifs \/ notifs' = [k \in Msgs |-> "none"]
  BY DEF Media!Enqueue, Media!TakeJob, Media!ExactDownload, Media!DeleteForMe, Media!Purge, Media!CopyBegins,
         Media!Damaged, Media!JobFetches, Media!RetryMedia, Media!RetryCancelled, Media!ExactServer,
         Media!NextBatch, Media!Sent, Media!WaitEnds, Media!BatchEnds, Media!ListPaths, Media!Scan,
         Media!CopyOut, Media!NextOwner, Media!RetryReturns, Media!NoAnswers, Media!store, Media!world
<1>. QED  BY <1>1, StoreStep DEF MediaInv, MediaTypes

\* The phone: it answers what it knows, once, and forgets.
LEMMA PhoneKeeps ==
  ASSUME MediaInv,
         \/ \E m \in Msgs : Media!SendReceipt(m) \/ Media!Expires(m) \/ Media!PhoneLoses(m)
         \/ \E a \in answers : Media!Notified(a)
  PROVE  MediaInv'
<1>. USE DEF MediaInv, Media!store
<1>1. UNCHANGED <<row, out>> /\ served' \subseteq served /\ held' \subseteq held
  BY DEF Media!SendReceipt, Media!Expires, Media!PhoneLoses, Media!Notified
<1>2. (Media!GoneIsConfirmed)'  BY <1>1 DEF Media!GoneIsConfirmed
<1>3. ASSUME NEW m \in Msgs, Media!SendReceipt(m) PROVE MediaTypes' /\ PhoneHasNone'
  <2>1. held' = held /\ \/ /\ notifs' = notifs
                           /\ \E a \in Replies : answers' = answers \cup {<<m, a>>}
                                                 /\ (a = "not_found" => m \notin held)
                        \/ UNCHANGED <<answers, notifs>>
                        \/ notifs' = [notifs EXCEPT ![m] = "failed"] /\ answers' = answers
    BY <1>3 DEF Media!SendReceipt, Replies
  <2>2. CASE notifs' = notifs /\ \E a \in Replies : answers' = answers \cup {<<m, a>>} /\ (a = "not_found" => m \notin held)
    BY <1>1, <2>1, <2>2 DEF MediaTypes, PhoneHasNone
  <2>3. CASE UNCHANGED <<answers, notifs>>  BY <1>1, <2>1, <2>3 DEF MediaTypes, PhoneHasNone
  <2>4. CASE notifs' = [notifs EXCEPT ![m] = "failed"] /\ answers' = answers
    BY <1>1, <2>1, <2>4 DEF MediaTypes, PhoneHasNone, Notes
  <2>. QED  BY <2>1, <2>2, <2>3, <2>4
<1>4. ASSUME NEW m \in Msgs, Media!Expires(m) \/ Media!PhoneLoses(m) PROVE MediaTypes' /\ PhoneHasNone'
  BY <1>1, <1>4 DEF Media!Expires, Media!PhoneLoses, MediaTypes, PhoneHasNone
<1>5. ASSUME NEW a \in answers, Media!Notified(a) PROVE MediaTypes' /\ PhoneHasNone'
  <2>1. a[1] \in Msgs /\ a[2] \in Replies /\ a = <<a[1], a[2]>>  BY DEF MediaTypes
  <2>2. /\ answers' = answers \ {a} /\ held' = held
        /\ notifs' = notifs \/ notifs' = [notifs EXCEPT ![a[1]] = a[2]]
    BY <1>5 DEF Media!Notified
  <2>3. MediaTypes'  BY <1>1, <2>1, <2>2 DEF MediaTypes, Notes
  <2>4. \A m \in Msgs : notifs'[m] = notifs[m] \/ (m = a[1] /\ notifs'[m] = a[2])  BY <2>1, <2>2 DEF MediaTypes
  <2>5. PhoneHasNone'  BY <2>1, <2>2, <2>4 DEF PhoneHasNone
  <2>. QED  BY <2>3, <2>5
<1>. QED  BY <1>2, <1>3, <1>4, <1>5

\* The caller's own output.
LEMMA OutputsKeep == ASSUME MediaInv, Media!PublishCopy \/ Media!DirectFetch PROVE MediaInv'
<1>1. UNCHANGED <<row, served, held, answers, notifs>>
  BY DEF Media!PublishCopy, Media!DirectFetch, Media!store, Media!world
<1>2. \E m : out' \in {out, [out EXCEPT ![m] = "whole"]}
  BY DEF Media!PublishCopy, Media!DirectFetch, Media!ReadBack
<1>3. out' \in [Msgs -> {"theirs", "whole"}]  BY <1>2 DEF MediaInv, MediaTypes
<1>. QED  BY <1>1, <1>3 DEF MediaInv, MediaTypes, PhoneHasNone, Media!GoneIsConfirmed

LEMMA MediaKeeps == ASSUME MediaInv, [Media!Next]_(Media!vars) PROVE MediaInv'
<1>1. CASE UNCHANGED Media!vars
  BY <1>1 DEF Media!vars, MediaInv, MediaTypes, PhoneHasNone, Media!GoneIsConfirmed
<1>. QED  BY <1>1, RowsKeep, OthersKeep, PhoneKeeps, OutputsKeep DEF Media!Next, Media!RetryStep

\* In whatever order answers, second attempts, deletions and other owners come: a message
\* is given up only when neither the phone nor the server has it, ...
THEOREM GoneIsConfirmedAlways == (Media!Spec => []Media!GoneIsConfirmed) /\ (RequestsSpec => []GoneIsConfirmed)
<1>. DEFINE Part == part = "media" => MediaInv
<1>1. RequestsInit => Part  BY MediaStarts DEF RequestsInit
<1>2. Part /\ [RequestsNext]_requestsVars => Part'
  <2>1. [RequestsNext]_requestsVars => part' = part /\ (part = "media" => [Media!Next]_(Media!vars))
    BY DEF RequestsNext, requestsVars, mediaVars, Media!vars
  <2>. QED  BY <2>1, MediaKeeps
<1>3. Part => GoneIsConfirmed  BY DEF MediaInv, GoneIsConfirmed
<1>4. MediaInv => Media!GoneIsConfirmed  BY DEF MediaInv
<1>5. Media!Spec => []Media!GoneIsConfirmed  BY MediaStarts, MediaKeeps, <1>4, PTL DEF Media!Spec
<1>. HIDE DEF Part
<1>6. RequestsSpec => []GoneIsConfirmed  BY <1>1, <1>2, <1>3, PTL DEF RequestsSpec
<1>. QED  BY <1>5, <1>6

\* ... and what a read-only download publishes is whole, whatever is done to the file it copies.
THEOREM OutputsAreVerifiedAlways ==
  (Media!Spec => []Media!OutputsAreVerified) /\ (RequestsSpec => []OutputsAreVerified)
<1>. DEFINE Part == part = "media" => MediaInv
<1>1. RequestsInit => Part  BY MediaStarts DEF RequestsInit
<1>2. Part /\ [RequestsNext]_requestsVars => Part'
  <2>1. [RequestsNext]_requestsVars => part' = part /\ (part = "media" => [Media!Next]_(Media!vars))
    BY DEF RequestsNext, requestsVars, mediaVars, Media!vars
  <2>. QED  BY <2>1, MediaKeeps
<1>3. MediaInv => Media!OutputsAreVerified  BY DEF MediaInv, MediaTypes, Media!OutputsAreVerified
<1>4. Part => OutputsAreVerified  BY <1>3 DEF OutputsAreVerified
<1>5. Media!Spec => []Media!OutputsAreVerified  BY MediaStarts, MediaKeeps, <1>3, PTL DEF Media!Spec
<1>. HIDE DEF Part
<1>6. RequestsSpec => []OutputsAreVerified  BY <1>1, <1>2, <1>4, PTL DEF RequestsSpec
<1>. QED  BY <1>5, <1>6

-----------------------------------------------------------------------------
(* Presence: the sync that has left stays away.  `up` is its conn.          *)

\* Who is past the look at cleanupStarted holds the mutex, and the cleanup found it free.
PresenceLocked ==
  /\ call \in [Calls -> {"none", "lock", "show", "stop", "await", "renew", "returned"}]
  /\ \A c \in Calls : call[c] \in {"show", "stop", "await", "renew"} => mu = c
  /\ sync # "runs" => cleanup
  /\ cleanup => mu = "free"

\* A renewal that nobody refers to any more is over, or somebody waits for it.
RenewalsEnd ==
  /\ ~known /\ renewal.phase # "done" => (\E c \in Calls : call[c] = "await") \/ sync = "await"
  /\ \A c \in Calls : call[c] = "renew" => renewal.phase = "done"
  /\ sync \in {"leave", "left", "ended"} => renewal.phase = "done"

WatchInv == PresenceLocked /\ RenewalsEnd

LEMMA WatchStarts == Watch!Init => WatchInv
  BY DEF Watch!Init, WatchInv, PresenceLocked, RenewalsEnd

\* Once the cleanup has begun no callback is between its look and its end.
LEMMA CleanupAlone ==
  ASSUME WatchInv, sync # "runs"
  PROVE  \A c \in Calls : call[c] \notin {"show", "stop", "await", "renew"}
  BY NobodyAssumption DEF WatchInv, PresenceLocked

LEMMA WatchKeeps == ASSUME WatchInv, [Watch!Next]_(Watch!vars) PROVE WatchInv'
<1>. USE DEF WatchInv
<1>1. CASE UNCHANGED Watch!vars  BY <1>1 DEF Watch!vars, PresenceLocked, RenewalsEnd
<1>2. CASE \/ Watch!Disconnect \/ Watch!Reconnect
           \/ \E r \in Requests : Watch!Watch(r) \/ Watch!WatchSubscribes(r) \/ Watch!WatchRemembers(r)
  <2>1. UNCHANGED <<call, mu, cleanup, renewal, known, sync>>
    BY <1>2 DEF Watch!Disconnect, Watch!Reconnect, Watch!Watch, Watch!WatchSubscribes, Watch!WatchRemembers,
                Watch!watch
  <2>. QED  BY <2>1 DEF PresenceLocked, RenewalsEnd
<1>3. ASSUME NEW c \in Calls, Watch!Dispatch(c) \/ Watch!LockPresence(c) \/ Watch!ShowAvailable(c) PROVE WatchInv'
  <2>1. /\ call' = [call EXCEPT ![c] = call'[c]] /\ call[c] \notin {"await", "renew"}
        /\ call'[c] \in {"lock", "show", "stop", "returned"}
        /\ UNCHANGED <<cleanup, renewal, known, sync>>
    BY <1>3 DEF PresenceLocked, Watch!Dispatch, Watch!LockPresence, Watch!ShowAvailable, Watch!watch
  <2>2. \/ call'[c] \in {"lock", "returned"} /\ mu' = mu /\ call[c] \in {"none", "lock"}
        \/ call'[c] = "show" /\ mu' = c /\ mu = "free" /\ ~cleanup
        \/ call'[c] = "returned" /\ mu' = "free" /\ call[c] = "show"
        \/ call'[c] = "stop" /\ mu' = mu /\ call[c] = "show"
    <3>1. CASE Watch!Dispatch(c)  BY <2>1, <3>1 DEF PresenceLocked, Watch!Dispatch
    <3>2. CASE Watch!LockPresence(c)  BY <2>1, <3>2 DEF PresenceLocked, Watch!LockPresence
    <3>3. CASE Watch!ShowAvailable(c)  BY <2>1, <3>3 DEF PresenceLocked, Watch!ShowAvailable
    <3>. QED  BY <1>3, <3>1, <3>2, <3>3
  <2>3. call' \in [Calls -> {"none", "lock", "show", "stop", "await", "renew", "returned"}]
        /\ \A d \in Calls : d # c => call'[d] = call[d]
    BY <2>1 DEF PresenceLocked
  <2>4. \A d \in Calls : call'[d] \in {"show", "stop", "await", "renew"} => mu' = d
    BY <2>2, <2>3, NobodyAssumption DEF PresenceLocked
  <2>5. cleanup => mu' = "free"  BY <2>2 DEF PresenceLocked
  <2>6. PresenceLocked'  BY <2>1, <2>3, <2>4, <2>5 DEF PresenceLocked
  <2>7. \A d \in Calls : call[d] = "await" => call'[d] = "await"  BY <2>1 DEF PresenceLocked
  <2>8. \A d \in Calls : call'[d] = "renew" => call[d] = "renew"  BY <2>1 DEF PresenceLocked
  <2>9. RenewalsEnd'  BY <2>1, <2>7, <2>8 DEF RenewalsEnd
  <2>. QED  BY <2>9, <2>6
<1>4. ASSUME NEW c \in Calls, Watch!StopEarlier(c) PROVE WatchInv'
  <2>1. /\ call[c] = "stop" /\ call' = [call EXCEPT ![c] = IF known THEN "await" ELSE "renew"]
        /\ known' = FALSE /\ UNCHANGED <<mu, cleanup, renewal, sync>>
    BY <1>4 DEF Watch!StopEarlier, Watch!CancelRenewal
  <2>2. mu = c /\ ~cleanup /\ sync = "runs"  BY <2>1, NobodyAssumption DEF PresenceLocked
  <2>3. \A d \in Calls : d # c => call[d] \notin {"await", "renew"} /\ call'[d] = call[d]
    BY <2>1, <2>2 DEF PresenceLocked
  <2>4. ~known => renewal.phase = "done"  BY <2>1, <2>2, <2>3 DEF RenewalsEnd
  <2>5. PresenceLocked'  BY <2>1, <2>2 DEF PresenceLocked
  <2>6. RenewalsEnd'  BY <2>1, <2>2, <2>3, <2>4 DEF RenewalsEnd, PresenceLocked
  <2>. QED  BY <2>5, <2>6
<1>5. ASSUME NEW c \in Calls, Watch!AwaitEarlier(c) PROVE WatchInv'
  <2>1. /\ call[c] = "await" /\ renewal.phase = "done" /\ call' = [call EXCEPT ![c] = "renew"]
        /\ UNCHANGED <<mu, cleanup, renewal, known, sync>>
    BY <1>5 DEF Watch!AwaitEarlier, Watch!watch
  <2>. QED  BY <2>1 DEF PresenceLocked, RenewalsEnd
<1>6. ASSUME NEW c \in Calls, Watch!RenewPresenceWatches(c) PROVE WatchInv'
  <2>1. /\ call[c] = "renew" /\ call' = [call EXCEPT ![c] = "returned"] /\ mu' = "free"
        /\ UNCHANGED <<cleanup, sync>> /\ (UNCHANGED <<renewal, known>> \/ known')
    BY <1>6 DEF Watch!RenewPresenceWatches, Watch!watch
  <2>2. mu = c /\ ~cleanup /\ sync = "runs" /\ renewal.phase = "done"
    BY <2>1, NobodyAssumption DEF PresenceLocked, RenewalsEnd
  <2>3. \A d \in Calls : call'[d] \notin {"show", "stop", "await", "renew"}
    BY <2>1, <2>2 DEF PresenceLocked
  <2>. QED  BY <2>1, <2>2, <2>3 DEF PresenceLocked, RenewalsEnd
<1>7. CASE Watch!Renewal
  <2>1. /\ renewal.phase \in {"next", "ask"} /\ UNCHANGED <<call, mu, cleanup, known, sync>>
    BY <1>7 DEF Watch!Renewal, Watch!RenewNext, Watch!RenewAsks
  <2>. QED  BY <2>1 DEF PresenceLocked, RenewalsEnd
<1>8. CASE Watch!MarkCleanup \/ Watch!RemoveHandler \/ Watch!StopServer
  <2>1. /\ UNCHANGED <<call, mu, renewal, known>>
        /\ \/ sync = "runs" /\ mu = "free" /\ sync' = "marked" /\ cleanup'
           \/ sync = "marked" /\ sync' = "stop" /\ cleanup' = cleanup
           \/ sync = "left" /\ sync' = "ended" /\ cleanup' = cleanup
    BY <1>8 DEF Watch!MarkCleanup, Watch!RemoveHandler, Watch!StopServer, Watch!watch
  <2>. QED  BY <2>1 DEF PresenceLocked, RenewalsEnd
<1>9. CASE Watch!StopLast \/ Watch!AwaitLast \/ Watch!ShowUnavailable
  <2>1. sync \in {"stop", "await", "leave"} /\ UNCHANGED <<call, mu, cleanup, renewal>>
    BY <1>9 DEF Watch!StopLast, Watch!AwaitLast, Watch!ShowUnavailable, Watch!watch
  <2>2. \/ sync = "stop" /\ known' = FALSE /\ sync' = IF known THEN "await" ELSE "leave"
        \/ sync = "await" /\ renewal.phase = "done" /\ sync' = "leave" /\ known' = known
        \/ sync = "leave" /\ sync' = "left" /\ known' = known
    BY <1>9 DEF Watch!StopLast, Watch!AwaitLast, Watch!ShowUnavailable, Watch!CancelRenewal, Watch!watch
  <2>3. \A c \in Calls : call[c] \notin {"await", "renew"}  BY <2>1, CleanupAlone
  <2>4. PresenceLocked'  BY <2>1, <2>2 DEF PresenceLocked
  <2>5. RenewalsEnd'  BY <2>1, <2>2, <2>3 DEF RenewalsEnd
  <2>. QED  BY <2>4, <2>5
<1>. QED  BY <1>1, <1>2, <1>3, <1>4, <1>5, <1>6, <1>7, <1>8, <1>9 DEF Watch!Next, Watch!Callback, Watch!Cleanup

\* Nothing that is still under way shows the device or asks for anybody.
LEMMA LeftKeepsAway == ASSUME WatchInv, [Watch!Next]_(Watch!vars) PROVE Watch!KeepsAway
<1>. SUFFICES ASSUME Watch!Left PROVE (available' => available) /\ renewal'.left = renewal.left
  BY DEF Watch!KeepsAway
<1>1. sync \in {"left", "ended"} /\ renewal.phase = "done"  BY DEF Watch!Left, WatchInv, RenewalsEnd
<1>2. \A c \in Calls : call[c] \notin {"show", "renew"}  BY <1>1, CleanupAlone
<1>3. CASE \E c \in Calls : Watch!Callback(c) \/ Watch!Dispatch(c)
  <2>1. PICK c \in Calls : Watch!Callback(c) \/ Watch!Dispatch(c)  BY <1>3
  <2>2. call[c] # "show" /\ call[c] # "renew"  BY <1>2
  <2>3. ~Watch!ShowAvailable(c) /\ ~Watch!RenewPresenceWatches(c)
    BY <2>2 DEF Watch!ShowAvailable, Watch!RenewPresenceWatches
  <2>4. Watch!LockPresence(c) \/ Watch!StopEarlier(c) \/ Watch!AwaitEarlier(c) \/ Watch!Dispatch(c)
    BY <2>1, <2>3 DEF Watch!Callback
  <2>5. UNCHANGED <<available, renewal>>
    BY <2>4 DEF Watch!Dispatch, Watch!LockPresence, Watch!StopEarlier, Watch!AwaitEarlier, Watch!watch
  <2>. QED  BY <2>5
<1>4. CASE Watch!Renewal  BY <1>1, <1>4 DEF Watch!Renewal, Watch!RenewNext, Watch!RenewAsks
<1>5. CASE Watch!Cleanup \/ Watch!MarkCleanup \/ Watch!StopServer
  <2>1. ~Watch!ShowUnavailable  BY <1>1 DEF Watch!ShowUnavailable
  <2>2. UNCHANGED <<available, renewal>>
    BY <1>5, <2>1
    DEF Watch!Cleanup, Watch!RemoveHandler, Watch!StopLast, Watch!AwaitLast, Watch!MarkCleanup,
        Watch!StopServer, Watch!watch
  <2>. QED  BY <2>2
<1>6. CASE \/ Watch!Disconnect \/ Watch!Reconnect \/ UNCHANGED Watch!vars
           \/ \E r \in Requests : Watch!Watch(r) \/ Watch!WatchSubscribes(r) \/ Watch!WatchRemembers(r)
  BY <1>6
  DEF Watch!Disconnect, Watch!Reconnect, Watch!vars, Watch!Watch, Watch!WatchSubscribes, Watch!WatchRemembers,
      Watch!watch
<1>. QED  BY <1>3, <1>4, <1>5, <1>6 DEF Watch!Next

\* Whatever callbacks, renewals and requests are under way when the sync leaves: the device
\* is not shown as available again, and nobody's presence is asked for.
THEOREM StaysAwayAlways == (Watch!Spec => Watch!StaysAway) /\ (RequestsSpec => StaysAway)
<1>. DEFINE Part == part = "presence" => WatchInv
<1>1. RequestsInit => Part  BY WatchStarts DEF RequestsInit
<1>2. [RequestsNext]_requestsVars => part' = part /\ (part = "presence" => [Watch!Next]_(Watch!vars))
  BY DEF RequestsNext, requestsVars, watchVars, Watch!vars
<1>3. Part /\ [RequestsNext]_requestsVars => Part'  BY <1>2, WatchKeeps
<1>4. Part /\ [RequestsNext]_requestsVars => (part = "presence" => Watch!KeepsAway)
  BY <1>2, LeftKeepsAway
<1>5. Watch!Spec => Watch!StaysAway
  <2>1. WatchInv /\ [Watch!Next]_(Watch!vars) => [Watch!KeepsAway]_(Watch!vars)  BY LeftKeepsAway
  <2>. QED  BY <2>1, WatchStarts, WatchKeeps, PTL DEF Watch!Spec, Watch!StaysAway
<1>. HIDE DEF Part
<1>6. Part /\ [RequestsNext]_requestsVars => [part = "presence" => Watch!KeepsAway]_requestsVars  BY <1>4
<1>7. RequestsSpec => StaysAway  BY <1>1, <1>3, <1>6, PTL DEF RequestsSpec, StaysAway
<1>. QED  BY <1>5, <1>7

-----------------------------------------------------------------------------
(* GroupInfo: what is stored of a group is no older than what the sync was  *)
(* told.  `heard` is its told.                                              *)

Slip == [open : BOOLEAN, ver : Nat, fresh : BOOLEAN, stored : BOOLEAN]
Snapshots == [ver : Nat, member : BOOLEAN]
WorkerStates ==
  [at : {"idle", "ask"}] \cup [at : {"wait", "fetch"}, for : Group!Answers]
    \cup [at : {"fetched"}, for : Group!Answers, ver : Nat]
    \cup [at : {"store"}, info : {0} \cup Group!Answers]
CommandStates ==
  [at : {"idle", "mark", "fetch"}] \cup [at : {"store"}, got : Snapshots, refresh : BOOLEAN]

GroupTypes ==
  /\ group \in Snapshots /\ notices \in Seq(Nat)
  /\ answers \in [Group!Answers -> Slip] /\ current \in {0} \cup Group!Answers
  /\ worker \in [Workers -> WorkerStates] /\ cmd \in [Group!Slots -> CommandStates]
  /\ db \in [ver : Nat, left : BOOLEAN]
  /\ heard \in Nat /\ moved \in Nat /\ raced \in BOOLEAN

\* Reports tell of changes that were made, and the answer in the cache, or on its way to
\* it, is no older than the last one.
AnswersAreCurrent ==
  /\ heard <= group.ver /\ \A i \in 1 .. Len(notices) : notices[i] <= group.ver
  /\ current # 0 => answers[current].ver = 0 \/ heard <= answers[current].ver
  /\ \A w \in Workers : worker[w].at = "fetched" /\ worker[w].for = current
                          => worker[w].ver = 0 \/ heard <= worker[w].ver

GroupInv == GroupTypes /\ AnswersAreCurrent /\ Group!LeftIsShown

LEMMA GroupStarts == Group!Init => GroupInv
<1>. SUFFICES ASSUME Group!Init PROVE GroupInv  OBVIOUS
<1>1. GroupTypes
  <2>1. group \in Snapshots /\ db \in [ver : Nat, left : BOOLEAN]  BY DEF Group!Init, Snapshots
  <2>2. notices \in Seq(Nat)  BY DEF Group!Init
  <2>3. answers \in [Group!Answers -> Slip]  BY DEF Group!Init, Group!NoAnswer, Slip
  <2>4. current = 0 /\ heard \in Nat /\ moved \in Nat /\ raced \in BOOLEAN  BY DEF Group!Init
  <2>5. worker \in [Workers -> WorkerStates]  BY DEF Group!Init, Group!Resting, WorkerStates
  <2>6. cmd \in [Group!Slots -> CommandStates]  BY DEF Group!Init, Group!Resting, CommandStates
  <2>. QED  BY <2>1, <2>2, <2>3, <2>4, <2>5, <2>6 DEF GroupTypes
<1>2. AnswersAreCurrent
  BY DEF Group!Init, Group!Resting, AnswersAreCurrent
<1>3. Group!LeftIsShown  BY DEF Group!Init, Group!LeftIsShown
<1>. QED  BY <1>1, <1>2, <1>3 DEF GroupInv

\* What a worker's state says.
LEMMA WorkerFacts ==
  ASSUME NEW r \in WorkerStates
  PROVE  /\ r.at \in {"idle", "ask", "wait", "fetch", "fetched", "store"}
         /\ r.at \in {"wait", "fetch", "fetched"} => r.for \in Group!Answers
         /\ r.at = "fetched" => r.ver \in Nat
         /\ r.at = "store" => r.info \in {0} \cup Group!Answers
  BY DEF WorkerStates

\* There is always an answer that neither the cache nor a worker refers to: the one who
\* asks for it refers to none.
LEMMA AnswerFree ==
  ASSUME GroupTypes, NEW w \in Workers, worker[w].at = "ask"
  PROVE  /\ Group!NewAnswer \in Group!Answers /\ Group!NewAnswer # current
         /\ \A v \in Workers : worker[v].at = "fetched" => worker[v].for # Group!NewAnswer
<1>. DEFINE refs(v) == {worker[v][f] : f \in DOMAIN worker[v] \ {"at", "ver"}}
            ref(v) == IF v = w THEN current
                      ELSE IF worker[v].at = "store" THEN worker[v].info
                      ELSE IF worker[v].at \in {"wait", "fetch", "fetched"} THEN worker[v].for ELSE 0
            f == [v \in Workers |-> ref(v)]
            T == {f[v] : v \in Workers}
            n == Cardinality(Workers)
<1>1. IsFiniteSet(Workers) /\ n \in Nat  BY GroupAssumption, FS_CardinalityType
<1>2. IsFiniteSet(T) /\ Cardinality(T) \in Nat /\ Cardinality(T) <= n
  <2>1. f \in Surjection(Workers, T)  BY DEF Surjection
  <2>. HIDE DEF f, T
  <2>2. IsFiniteSet(T) /\ Cardinality(T) <= n  BY <1>1, <2>1, FS_Surjection
  <2>. QED  BY <2>2, FS_CardinalityType
<1>3. \E i \in Group!Answers : i \notin T
  <2>1. Group!Answers = 1 .. (n + 1)  BY Zenon DEF Group!Answers, Group!Cardinality, Cardinality
  <2>2. Cardinality(Group!Answers) = n + 1  BY <1>1, <2>1, FS_Interval
  <2>. HIDE DEF T, n
  <2>3. ~(Group!Answers \subseteq T)
    <3>1. Group!Answers \subseteq T => Cardinality(Group!Answers) <= Cardinality(T)  BY <1>2, FS_Subset
    <3>. QED  BY <1>1, <1>2, <2>2, <3>1
  <2>. QED  BY <2>3
<1>4. \A v \in Workers : refs(v) \subseteq (IF v = w THEN {} ELSE {ref(v)})
  <2>1. SUFFICES ASSUME NEW v \in Workers PROVE refs(v) \subseteq (IF v = w THEN {} ELSE {ref(v)})  OBVIOUS
  <2>2. worker[v] \in WorkerStates  BY DEF GroupTypes
  <2>3. CASE worker[v] \in [at : {"idle", "ask"}]
    <3>1. DOMAIN worker[v] = {"at"}  BY <2>3
    <3>. QED  BY <3>1
  <2>4. CASE worker[v] \in [at : {"wait", "fetch"}, for : Group!Answers]
    <3>1. DOMAIN worker[v] = {"at", "for"} /\ worker[v].at \in {"wait", "fetch"}  BY <2>4
    <3>. QED  BY <3>1
  <2>5. CASE worker[v] \in [at : {"fetched"}, for : Group!Answers, ver : Nat]
    <3>1. DOMAIN worker[v] = {"at", "for", "ver"} /\ worker[v].at = "fetched"  BY <2>5
    <3>. QED  BY <3>1
  <2>6. CASE worker[v] \in [at : {"store"}, info : {0} \cup Group!Answers]
    <3>1. DOMAIN worker[v] = {"at", "info"} /\ worker[v].at = "store"  BY <2>6
    <3>. QED  BY <3>1
  <2>. QED  BY <2>2, <2>3, <2>4, <2>5, <2>6 DEF WorkerStates
<1>5. \A v \in Workers : ref(v) \in T /\ f[v] = ref(v)  OBVIOUS
<1>6. \E i \in Group!Answers : i # current /\ \A v \in Workers : i \notin refs(v)
  <2>1. PICK i \in Group!Answers : i \notin T  BY <1>3
  <2>2. i # current  BY <1>5, <2>1
  <2>. HIDE DEF refs, ref, f, T
  <2>3. \A v \in Workers : i \notin refs(v)  BY <1>4, <1>5, <2>1
  <2>. QED  BY <2>2, <2>3
<1>7. /\ Group!NewAnswer \in Group!Answers /\ Group!NewAnswer # current
      /\ \A v \in Workers : Group!NewAnswer \notin refs(v)
  BY <1>6, Zenon DEF Group!NewAnswer
<1>8. \A v \in Workers : worker[v].at = "fetched" => worker[v].for \in refs(v)
  <2>1. \A v \in Workers : worker[v].at = "fetched" => DOMAIN worker[v] = {"at", "for", "ver"}
    BY DEF GroupTypes, WorkerStates
  <2>. QED  BY <2>1
<1>. HIDE DEF refs
<1>. QED  BY <1>7, <1>8

\* Each step's new values have their types: first the requests of the workers ...
LEMMA WorkerTypes ==
  ASSUME GroupTypes, NEW w \in Workers, Group!Arrive(w) \/ Group!WorkerStep(w)
  PROVE  GroupTypes'
<1>. USE DEF Group!cache, Group!To
<1>1. worker[w] \in WorkerStates /\ group.ver \in Nat  BY DEF GroupTypes, Snapshots
<1>2. WorkerStates' = WorkerStates /\ Group!Answers' = Group!Answers /\ Group!Slots' = Group!Slots
      /\ CommandStates' = CommandStates
  BY DEF WorkerStates, Group!Answers, Group!Slots, CommandStates, Snapshots
<1>3. ASSUME NEW s \in WorkerStates, Group!To(w, s) PROVE worker' \in [Workers -> WorkerStates]
  BY <1>3 DEF GroupTypes
<1>4. {[at |-> "idle"], [at |-> "ask"]} \subseteq WorkerStates
      /\ (\A i \in Group!Answers : [at |-> "wait", for |-> i] \in WorkerStates
             /\ [at |-> "fetch", for |-> i] \in WorkerStates
             /\ (\A v \in Nat : [at |-> "fetched", for |-> i, ver |-> v] \in WorkerStates))
      /\ (\A i \in {0} \cup Group!Answers : [at |-> "store", info |-> i] \in WorkerStates)
  BY DEF WorkerStates
<1>5. CASE Group!Arrive(w)
  <2>1. worker' \in [Workers -> WorkerStates]  BY <1>3, <1>4, <1>5 DEF Group!Arrive, Group!Asking
  <2>. QED  BY <2>1, <1>2, <1>5 DEF Group!Arrive, GroupTypes
<1>6. CASE Group!Ask(w)
  <2>1. worker[w].at = "ask"  BY <1>6 DEF Group!Ask
  <2>2. Group!NewAnswer \in Group!Answers  BY <2>1, AnswerFree
  <2>3. worker' \in [Workers -> WorkerStates]
    <3>1. CASE current # 0 /\ answers[current].open /\ Group!To(w, [at |-> "wait", for |-> current])
      BY <1>3, <1>4, <3>1 DEF GroupTypes
    <3>2. CASE Group!Usable(current) /\ Group!To(w, Group!Storing(Group!Info(current)))
      <4>1. Group!Info(current) \in {0} \cup Group!Answers  BY DEF Group!Info, GroupTypes
      <4>. QED  BY <1>3, <1>4, <3>2, <4>1 DEF Group!Storing
    <3>3. CASE Group!To(w, [at |-> "fetch", for |-> Group!NewAnswer])
      BY <1>3, <1>4, <2>2, <3>3
    <3>. QED  BY <1>6, <3>1, <3>2, <3>3 DEF Group!Ask
  <2>4. answers' \in [Group!Answers -> Slip] /\ current' \in {0} \cup Group!Answers
    <3>1. CASE UNCHANGED Group!cache  BY <3>1 DEF GroupTypes
    <3>2. CASE /\ current' = Group!NewAnswer
               /\ answers' = [i \in Group!Answers |->
                                CASE i = Group!NewAnswer -> [Group!NoAnswer EXCEPT !.open = TRUE]
                                  [] i = current -> Group!NoAnswer
                                  [] OTHER -> answers[i]]
      <4>1. [Group!NoAnswer EXCEPT !.open = TRUE] \in Slip /\ Group!NoAnswer \in Slip  BY DEF Group!NoAnswer, Slip
      <4>. HIDE DEF Slip
      <4>. QED  BY <2>2, <3>2, <4>1 DEF GroupTypes
    <3>. QED  BY <1>6, <3>1, <3>2 DEF Group!Ask
  <2>5. UNCHANGED <<group, notices, online, stopping, cmd, db, events, heard, moved, raced>>  BY <1>6 DEF Group!Ask
  <2>. QED  BY <2>3, <2>4, <2>5, <1>2 DEF GroupTypes
<1>7. CASE Group!Wake(w)
  <2>1. worker' \in [Workers -> WorkerStates]
    BY <1>3, <1>4, <1>7 DEF Group!Wake, Group!Asking, Group!Storing
  <2>. QED  BY <2>1, <1>2, <1>7 DEF Group!Wake, GroupTypes
<1>8. CASE Group!Fetch(w)
  <2>1. worker[w].for \in Group!Answers  BY <1>1, <1>8, WorkerFacts DEF Group!Fetch
  <2>2. PICK v \in Nat : Group!To(w, [at |-> "fetched", for |-> worker[w].for, ver |-> v])
    BY <1>1, <1>8 DEF Group!Fetch
  <2>3. worker' \in [Workers -> WorkerStates]  BY <1>3, <1>4, <2>1, <2>2
  <2>. QED  BY <2>3, <1>2, <1>8 DEF Group!Fetch, GroupTypes
<1>9. CASE Group!Fetched(w)
  <2>1. worker[w].for \in Group!Answers /\ worker[w].ver \in Nat  BY <1>1, <1>9, WorkerFacts DEF Group!Fetched
  <2>2. worker' \in [Workers -> WorkerStates]
    <3>1. \/ Group!To(w, Group!Storing(0)) \/ Group!To(w, Group!Asking)
          \/ Group!To(w, Group!Storing(worker[w].for))
      BY <1>9 DEF Group!Fetched
    <3>. QED  BY <1>3, <1>4, <2>1, <3>1 DEF Group!Storing, Group!Asking
  <2>3. answers' \in [Group!Answers -> Slip] /\ current' \in {0} \cup Group!Answers
    <3>1. CASE UNCHANGED Group!cache  BY <3>1 DEF GroupTypes
    <3>2. CASE Group!Forgotten  BY <3>2 DEF Group!Forgotten, GroupTypes, Group!NoAnswer, Slip
    <3>3. CASE /\ answers' = [answers EXCEPT ![worker[w].for] =
                                [open |-> FALSE, ver |-> worker[w].ver, fresh |-> TRUE, stored |-> FALSE]]
               /\ UNCHANGED current
      <4>1. [open |-> FALSE, ver |-> worker[w].ver, fresh |-> TRUE, stored |-> FALSE] \in Slip  BY <2>1 DEF Slip
      <4>. HIDE DEF Slip
      <4>. QED  BY <3>3, <4>1 DEF GroupTypes
    <3>. QED  BY <1>9, <3>1, <3>2, <3>3 DEF Group!Fetched
  <2>4. UNCHANGED <<group, notices, online, stopping, cmd, db, events, heard, moved, raced>>  BY <1>9 DEF Group!Fetched
  <2>. QED  BY <2>2, <2>3, <2>4, <1>2 DEF GroupTypes
<1>10. CASE Group!Store(w)
  <2>1. worker' \in [Workers -> WorkerStates]
    <3>1. Group!To(w, Group!Resting) \/ Group!To(w, Group!Asking)  BY <1>10 DEF Group!Store
    <3>. QED  BY <1>3, <1>4, <3>1 DEF Group!Resting, Group!Asking
  <2>2. worker[w].info \in {0} \cup Group!Answers  BY <1>1, <1>10, WorkerFacts DEF Group!Store
  <2>3. /\ answers' \in [Group!Answers -> Slip] /\ db' \in [ver : Nat, left : BOOLEAN] /\ raced' \in BOOLEAN
    <3>1. CASE UNCHANGED <<db, answers, raced>>  BY <3>1 DEF GroupTypes
    <3>2. CASE /\ worker[w].info # 0 /\ Group!Snapshot(answers[worker[w].info].ver)
               /\ answers' = [answers EXCEPT ![worker[w].info].stored = TRUE]
               /\ raced' = (raced \/ db.left \/ ~group.member)
      <4>1. answers[worker[w].info] \in Slip  BY <2>2, <3>2 DEF GroupTypes
      <4>2. db' \in [ver : Nat, left : BOOLEAN]  BY <3>2, <4>1 DEF Group!Snapshot, Slip
      <4>3. answers' \in [Group!Answers -> Slip]  BY <3>2, <4>1 DEF GroupTypes, Slip
      <4>. QED  BY <3>2, <4>2, <4>3, Zenon DEF GroupTypes
    <3>. QED  BY <1>10, <3>1, <3>2 DEF Group!Store
  <2>4. UNCHANGED <<group, notices, online, current, stopping, cmd, events, heard, moved>>  BY <1>10 DEF Group!Store
  <2>. QED  BY <2>1, <2>3, <2>4, <1>2 DEF GroupTypes
<1>. QED  BY <1>5, <1>6, <1>7, <1>8, <1>9, <1>10 DEF Group!WorkerStep

\* ... then those of the reports, the connection and the commands.
LEMMA GroupTypesKept ==
  ASSUME GroupTypes, [Group!Next]_(Group!vars)
  PROVE  GroupTypes'
<1>. USE DEF Group!cache
<1>1. WorkerStates' = WorkerStates /\ Group!Answers' = Group!Answers /\ Group!Slots' = Group!Slots
      /\ CommandStates' = CommandStates
  BY DEF WorkerStates, Group!Answers, Group!Slots, CommandStates, Snapshots
<1>2. "queue" \in Group!Slots /\ "aside" \in Group!Slots  BY DEF Group!Slots
<1>3. ASSUME NEW s \in Group!Slots, NEW c \in CommandStates, Group!Command(s, c)
      PROVE  cmd' \in [Group!Slots -> CommandStates]
  BY <1>3 DEF Group!Command, GroupTypes
<1>4. {Group!Resting, Group!Fetching, [at |-> "mark"]} \subseteq CommandStates
  BY DEF Group!Resting, Group!Fetching, CommandStates
<1>5. group.ver \in Nat /\ group.member \in BOOLEAN  BY DEF GroupTypes, Snapshots
<1>6. Group!Forgotten => answers' \in [Group!Answers -> Slip] /\ current' \in {0} \cup Group!Answers
  BY DEF Group!Forgotten, GroupTypes, Group!NoAnswer, Slip
<1>7. ASSUME NEW m \in BOOLEAN, Group!Changed(m) PROVE group' \in Snapshots /\ notices' \in Seq(Nat)
  <2>1. group' \in Snapshots  BY <1>5, <1>7 DEF Group!Changed, Snapshots
  <2>2. notices \in Seq(Nat) /\ group.ver + 1 \in Nat  BY <1>5 DEF GroupTypes
  <2>3. notices' \in Seq(Nat)  BY <1>7, <2>2 DEF Group!Changed
  <2>. QED  BY <2>1, <2>3
<1>8. CASE UNCHANGED Group!vars  BY <1>1, <1>8 DEF Group!vars, GroupTypes
<1>9. ASSUME NEW w \in Workers, Group!Arrive(w) \/ Group!WorkerStep(w) PROVE GroupTypes'  BY <1>9, WorkerTypes
<1>10. ASSUME NEW m \in BOOLEAN, Group!ChangeElsewhere(m) PROVE GroupTypes'
  <2>1. group' \in Snapshots /\ notices' \in Seq(Nat)  BY <1>7, <1>10 DEF Group!ChangeElsewhere
  <2>2. moved' \in Nat  BY <1>5, <1>10 DEF Group!ChangeElsewhere, GroupTypes
  <2>. QED  BY <1>1, <1>10, <2>1, <2>2 DEF Group!ChangeElsewhere, GroupTypes
<1>11. CASE Group!Notice
  <2>1. notices \in Seq(Nat) /\ notices # <<>>  BY <1>11 DEF Group!Notice, GroupTypes
  <2>2. heard' \in Nat /\ notices' \in Seq(Nat)  BY <1>11, <2>1 DEF Group!Notice
  <2>. QED  BY <1>1, <1>6, <1>11, <2>2 DEF Group!Notice, GroupTypes
<1>12. CASE Group!Disconnected  BY <1>1, <1>12 DEF Group!Disconnected, GroupTypes
<1>13. CASE Group!Connected
  <2>1. heard' \in Nat /\ notices' \in Seq(Nat)  BY <1>5, <1>13 DEF Group!Connected
  <2>. QED  BY <1>1, <1>6, <1>13, <2>1 DEF Group!Connected, GroupTypes
<1>14. CASE Group!Expire
  <2>1. answers' \in [Group!Answers -> Slip]  BY <1>14 DEF Group!Expire, Group!Usable, GroupTypes, Slip
  <2>. QED  BY <1>1, <1>14, <2>1 DEF Group!Expire, GroupTypes
<1>15. CASE Group!Stop  BY <1>1, <1>15 DEF Group!Stop, GroupTypes
<1>16. CASE Group!Leave
  <2>1. group' \in Snapshots /\ notices' \in Seq(Nat)  BY <1>7, <1>16 DEF Group!Leave
  <2>2. moved' \in Nat  BY <1>5, <1>16 DEF Group!Leave
  <2>3. cmd' \in [Group!Slots -> CommandStates]  BY <1>2, <1>3, <1>4, <1>16 DEF Group!Leave
  <2>. QED  BY <1>1, <1>16, <2>1, <2>2, <2>3 DEF Group!Leave, GroupTypes
<1>17. CASE Group!MarkLeft
  <2>1. cmd' \in [Group!Slots -> CommandStates]  BY <1>2, <1>3, <1>4, <1>17 DEF Group!MarkLeft
  <2>2. db' \in [ver : Nat, left : BOOLEAN] /\ moved' \in Nat /\ raced' \in BOOLEAN
    BY <1>17 DEF Group!MarkLeft, GroupTypes
  <2>. QED  BY <1>1, <1>17, <2>1, <2>2 DEF Group!MarkLeft, GroupTypes
<1>18. CASE Group!Change
  <2>1. group' \in Snapshots /\ notices' \in Seq(Nat)  BY <1>7, <1>18 DEF Group!Change
  <2>2. moved' \in Nat  BY <1>5, <1>18 DEF Group!Change, GroupTypes
  <2>3. cmd' \in [Group!Slots -> CommandStates]  BY <1>2, <1>3, <1>4, <1>18 DEF Group!Change
  <2>. QED  BY <1>1, <1>18, <2>1, <2>2, <2>3 DEF Group!Change, GroupTypes
<1>19. CASE Group!Refresh
  <2>1. cmd' \in [Group!Slots -> CommandStates]  BY <1>2, <1>3, <1>4, <1>19 DEF Group!Refresh
  <2>. QED  BY <1>1, <1>19, <2>1 DEF Group!Refresh, GroupTypes
<1>20. ASSUME NEW s \in Group!Slots, Group!CommandFetch(s) PROVE GroupTypes'
  <2>1. [at |-> "store", got |-> group, refresh |-> s = "aside"] \in CommandStates  BY DEF GroupTypes, CommandStates
  <2>2. cmd' \in [Group!Slots -> CommandStates]  BY <1>3, <1>20, <2>1 DEF Group!CommandFetch
  <2>. QED  BY <1>1, <1>20, <2>2 DEF Group!CommandFetch, GroupTypes
<1>21. ASSUME NEW s \in Group!Slots, Group!CommandStore(s) PROVE GroupTypes'
  <2>1. cmd' \in [Group!Slots -> CommandStates]  BY <1>3, <1>4, <1>21 DEF Group!CommandStore
  <2>2. cmd[s] \in CommandStates /\ cmd[s].at = "store"  BY <1>21 DEF Group!CommandStore, GroupTypes
  <2>3. cmd[s].got \in Snapshots /\ cmd[s].refresh \in BOOLEAN  BY <2>2 DEF CommandStates
  <2>4. db' \in [ver : Nat, left : BOOLEAN]
    <3>1. db \in [ver : Nat, left : BOOLEAN]  BY DEF GroupTypes
    <3>2. Group!Snapshot(cmd[s].got.ver) \/ db' = Group!MissingMarked \/ db' = db
      BY <1>21, Zenon DEF Group!CommandStore
    <3>3. Group!Snapshot(cmd[s].got.ver) => db' \in [ver : Nat, left : BOOLEAN]
      BY <2>3 DEF Group!Snapshot, Snapshots
    <3>. QED  BY <3>1, <3>2, <3>3 DEF Group!MissingMarked
  <2>5. moved' \in Nat /\ raced' \in BOOLEAN
    <3>1. moved' = 0 \/ moved' = moved  BY <1>21, Zenon DEF Group!CommandStore
    <3>2. raced' \in BOOLEAN  BY <1>21, Zenon DEF Group!CommandStore
    <3>. QED  BY <3>1, <3>2 DEF GroupTypes
  <2>6. UNCHANGED <<group, notices, online, answers, current, worker, stopping, events, heard>>
    BY <1>21 DEF Group!CommandStore
  <2>. QED  BY <1>1, <2>1, <2>4, <2>5, <2>6 DEF GroupTypes
<1>22. ASSUME NEW s \in Group!Slots, Group!CommandFail(s) PROVE GroupTypes'
  <2>1. cmd' \in [Group!Slots -> CommandStates]  BY <1>3, <1>4, <1>22 DEF Group!CommandFail
  <2>. QED  BY <1>1, <1>22, <2>1 DEF Group!CommandFail, GroupTypes
<1>. QED
  BY <1>8, <1>9, <1>10, <1>11, <1>12, <1>13, <1>14, <1>15, <1>16, <1>17, <1>18, <1>19, <1>20, <1>21, <1>22, Zenon
     DEF Group!Next

LEMMA AnswersStayCurrent ==
  ASSUME GroupTypes, AnswersAreCurrent, [Group!Next]_(Group!vars)
  PROVE  AnswersAreCurrent'
<1>. USE DEF Group!cache
<1>1. group.ver \in Nat /\ heard \in Nat /\ notices \in Seq(Nat) /\ heard <= group.ver
      /\ answers \in [Group!Answers -> Slip] /\ 0 \notin Group!Answers
  BY DEF GroupTypes, Snapshots, AnswersAreCurrent, Group!Answers
<1>2. \A w \in Workers : worker[w] \in WorkerStates  BY DEF GroupTypes
\* The answers and the reports stay; a worker moves to where it refers to nothing it read.
<1>3. ASSUME UNCHANGED <<group, notices, heard, answers, current>>, NEW w \in Workers, NEW s,
             Group!To(w, s), s.at # "fetched"
      PROVE  AnswersAreCurrent'
  <2>1. \A v \in Workers : worker'[v] = worker[v] \/ worker'[v].at # "fetched"  BY <1>3 DEF GroupTypes, Group!To
  <2>. QED  BY <1>3, <2>1 DEF AnswersAreCurrent
<1>4. ASSUME UNCHANGED <<group, notices, heard, answers, current, worker>> PROVE AnswersAreCurrent'
  BY <1>4 DEF AnswersAreCurrent
<1>5. ASSUME NEW m, Group!Changed(m), UNCHANGED <<heard, answers, current, worker>> PROVE AnswersAreCurrent'
  <2>1. group'.ver = group.ver + 1  BY <1>5 DEF Group!Changed
  <2>2. \A i \in 1 .. Len(notices') : notices'[i] <= group'.ver
    <3>1. notices' = notices \/ notices' = Append(notices, group.ver + 1)  BY <1>5 DEF Group!Changed
    <3>2. CASE notices' = notices
      BY <1>1, <2>1, <3>2, \A i \in 1 .. Len(notices) : notices[i] \in Nat DEF AnswersAreCurrent
    <3>3. CASE notices' = Append(notices, group.ver + 1)
      <4>1. Len(notices') = Len(notices) + 1 /\ \A i \in 1 .. Len(notices') :
              notices'[i] = IF i <= Len(notices) THEN notices[i] ELSE group.ver + 1
        BY <1>1, <3>3
      <4>. QED  BY <1>1, <2>1, <4>1, \A i \in 1 .. Len(notices) : notices[i] \in Nat DEF AnswersAreCurrent
    <3>. QED  BY <3>1, <3>2, <3>3
  <2>. QED  BY <1>1, <1>5, <2>1, <2>2 DEF AnswersAreCurrent
<1>6. ASSUME current' = 0, UNCHANGED <<group, worker>>, heard' <= group.ver,
             \A i \in 1 .. Len(notices') : notices'[i] <= group.ver
      PROVE  AnswersAreCurrent'
  <2>1. \A w \in Workers : worker[w].at = "fetched" => worker[w].for # 0  BY <1>1, <1>2, WorkerFacts
  <2>. QED  BY <1>6, <2>1 DEF AnswersAreCurrent
<1>7. CASE UNCHANGED Group!vars  BY <1>4, <1>7 DEF Group!vars
<1>8. ASSUME NEW w \in Workers, Group!Arrive(w) PROVE AnswersAreCurrent'
  BY <1>3, <1>8 DEF Group!Arrive, Group!Asking
<1>9. ASSUME NEW w \in Workers, Group!Ask(w) PROVE AnswersAreCurrent'
  <2>1. CASE UNCHANGED Group!cache
    <3>1. \/ Group!To(w, [at |-> "wait", for |-> current]) \/ Group!To(w, Group!Storing(Group!Info(current)))
          \/ Group!To(w, [at |-> "fetch", for |-> Group!NewAnswer])
      BY <1>9 DEF Group!Ask
    <3>. QED  BY <1>3, <1>9, <2>1, <3>1 DEF Group!Ask, Group!Storing
  <2>2. CASE ~UNCHANGED Group!cache
    <3>1. /\ current' = Group!NewAnswer
          /\ answers' = [i \in Group!Answers |->
                           CASE i = Group!NewAnswer -> [Group!NoAnswer EXCEPT !.open = TRUE]
                             [] i = current -> Group!NoAnswer
                             [] OTHER -> answers[i]]
          /\ Group!To(w, [at |-> "fetch", for |-> Group!NewAnswer])
          /\ UNCHANGED <<group, notices, heard>>
      BY <1>9, <2>2 DEF Group!Ask
    <3>2. /\ Group!NewAnswer \in Group!Answers
          /\ \A v \in Workers : worker[v].at = "fetched" => worker[v].for # Group!NewAnswer
      BY <1>9, AnswerFree DEF Group!Ask
    <3>3. answers'[current'].ver = 0  BY <3>1, <3>2 DEF Group!NoAnswer
    <3>4. \A v \in Workers : worker'[v] = worker[v] \/ worker'[v].at = "fetch"  BY <3>1 DEF GroupTypes, Group!To
    <3>. QED  BY <3>1, <3>2, <3>3, <3>4 DEF AnswersAreCurrent
  <2>. QED  BY <2>1, <2>2
<1>10. ASSUME NEW w \in Workers, Group!Wake(w) PROVE AnswersAreCurrent'
  BY <1>3, <1>10 DEF Group!Wake, Group!Asking, Group!Storing
<1>11. ASSUME NEW w \in Workers, Group!Fetch(w) PROVE AnswersAreCurrent'
  <2>1. PICK v \in {group.ver, 0} : Group!To(w, [at |-> "fetched", for |-> worker[w].for, ver |-> v])
    BY <1>11 DEF Group!Fetch
  <2>2. \A x \in Workers : worker'[x] = worker[x] \/ worker'[x].ver = v  BY <2>1 DEF GroupTypes, Group!To
  <2>. QED  BY <1>1, <1>11, <2>2 DEF Group!Fetch, AnswersAreCurrent
<1>12. ASSUME NEW w \in Workers, Group!Fetched(w) PROVE AnswersAreCurrent'
  <2>1. worker[w].for \in Group!Answers /\ worker[w].ver \in Nat  BY <1>2, <1>12, WorkerFacts DEF Group!Fetched
  <2>2. \A v \in Workers : worker'[v] = worker[v] \/ worker'[v].at # "fetched"
    <3>1. \/ Group!To(w, Group!Storing(0)) \/ Group!To(w, Group!Asking)
          \/ Group!To(w, Group!Storing(worker[w].for))
      BY <1>12 DEF Group!Fetched
    <3>. QED  BY <3>1 DEF GroupTypes, Group!To, Group!Storing, Group!Asking
  <2>3. CASE UNCHANGED Group!cache  BY <1>12, <2>2, <2>3 DEF Group!Fetched, AnswersAreCurrent
  <2>4. CASE Group!Forgotten
    <3>1. current' = 0 /\ UNCHANGED <<group, notices, heard>>  BY <1>12, <2>4 DEF Group!Fetched, Group!Forgotten
    <3>2. \A v \in Workers : worker[v].at = "fetched" => worker[v].for # 0  BY <1>1, <1>2, WorkerFacts
    <3>. QED  BY <2>2, <3>1, <3>2 DEF AnswersAreCurrent
  <2>5. CASE ~UNCHANGED Group!cache /\ ~Group!Forgotten
    <3>1. /\ current = worker[w].for /\ UNCHANGED <<current, group, notices, heard>>
          /\ answers' = [answers EXCEPT ![current] =
                           [open |-> FALSE, ver |-> worker[w].ver, fresh |-> TRUE, stored |-> FALSE]]
      BY <1>12, <2>5 DEF Group!Fetched
    <3>2. worker[w].ver = 0 \/ heard <= worker[w].ver  BY <1>12, <3>1 DEF Group!Fetched, AnswersAreCurrent
    <3>3. answers'[current].ver = worker[w].ver  BY <1>1, <2>1, <3>1
    <3>. QED  BY <2>2, <3>1, <3>2, <3>3 DEF AnswersAreCurrent
  <2>. QED  BY <2>3, <2>4, <2>5
<1>13. ASSUME NEW w \in Workers, Group!Store(w) PROVE AnswersAreCurrent'
  <2>1. \A v \in Workers : worker'[v] = worker[v] \/ worker'[v].at # "fetched"
    <3>1. Group!To(w, Group!Resting) \/ Group!To(w, Group!Asking)  BY <1>13 DEF Group!Store
    <3>. QED  BY <3>1 DEF GroupTypes, Group!To, Group!Resting, Group!Asking
  <2>2. UNCHANGED <<current, group, notices, heard>>  BY <1>13 DEF Group!Store
  <2>3. \A i \in Group!Answers : answers'[i].ver = answers[i].ver
    <3>1. answers' = answers \/ answers' = [answers EXCEPT ![worker[w].info].stored = TRUE]
      BY <1>13 DEF Group!Store
    <3>2. \A i \in Group!Answers : answers[i] \in Slip  BY <1>1
    <3>. QED  BY <1>1, <3>1, <3>2 DEF Slip
  <2>4. current # 0 => current \in Group!Answers  BY DEF GroupTypes
  <2>. QED  BY <2>1, <2>2, <2>3, <2>4 DEF AnswersAreCurrent
<1>14. ASSUME NEW m \in BOOLEAN, Group!ChangeElsewhere(m) PROVE AnswersAreCurrent'
  BY <1>5, <1>14 DEF Group!ChangeElsewhere
<1>15. CASE Group!Notice
  <2>1. notices # <<>> /\ heard' = Head(notices) /\ notices' = Tail(notices) /\ current' = 0
        /\ UNCHANGED <<group, worker>>
    BY <1>15 DEF Group!Notice, Group!Forgotten
  <2>2. heard' <= group.ver
    <3>1. Len(notices) # 0 /\ Len(notices) \in Nat /\ Head(notices) = notices[1]  BY <1>1, <2>1
    <3>. QED  BY <2>1, <3>1 DEF AnswersAreCurrent
  <2>3. \A i \in 1 .. Len(notices') : notices'[i] <= group.ver
    <3>1. Len(notices') = Len(notices) - 1 /\ \A i \in 1 .. Len(notices') : notices'[i] = notices[i + 1]
      BY <1>1, <2>1
    <3>. QED  BY <1>1, <3>1 DEF AnswersAreCurrent
  <2>. QED  BY <1>6, <2>1, <2>2, <2>3
<1>16. CASE Group!Disconnected  BY <1>4, <1>16 DEF Group!Disconnected
<1>17. CASE Group!Connected
  <2>1. current' = 0 /\ heard' = group.ver /\ notices' = <<>> /\ UNCHANGED <<group, worker>>
    BY <1>17 DEF Group!Connected, Group!Forgotten
  <2>. QED  BY <1>1, <1>6, <2>1
<1>18. CASE Group!Expire
  <2>1. current \in Group!Answers /\ UNCHANGED <<current, group, notices, heard, worker>>
        /\ answers' = [answers EXCEPT ![current].fresh = FALSE]
    BY <1>18 DEF Group!Expire, Group!Usable, GroupTypes
  <2>2. answers'[current].ver = answers[current].ver  BY <1>1, <2>1 DEF Slip
  <2>. QED  BY <2>1, <2>2 DEF AnswersAreCurrent
<1>19. CASE Group!Stop  BY <1>4, <1>19 DEF Group!Stop
<1>20. CASE Group!Leave  BY <1>5, <1>20 DEF Group!Leave
<1>21. CASE Group!MarkLeft  BY <1>4, <1>21 DEF Group!MarkLeft
<1>22. CASE Group!Change  BY <1>5, <1>22 DEF Group!Change
<1>23. CASE Group!Refresh  BY <1>4, <1>23 DEF Group!Refresh
<1>24. ASSUME NEW s \in Group!Slots, Group!CommandFetch(s) \/ Group!CommandStore(s) \/ Group!CommandFail(s)
       PROVE  AnswersAreCurrent'
  <2>1. UNCHANGED <<group, notices, heard, answers, current, worker>>
    BY <1>24 DEF Group!CommandFetch, Group!CommandStore, Group!CommandFail
  <2>. QED  BY <1>4, <2>1
<1>. QED
  BY <1>7, <1>8, <1>9, <1>10, <1>11, <1>12, <1>13, <1>14, <1>15, <1>16, <1>17, <1>18, <1>19, <1>20, <1>21, <1>22,
     <1>23, <1>24, Zenon
     DEF Group!Next, Group!WorkerStep

\* A membership that changed is marked as unstored until it shows.
LEMMA LeftStaysShown ==
  ASSUME GroupTypes, Group!LeftIsShown, [Group!Next]_(Group!vars)
  PROVE  Group!LeftIsShown'
<1>. USE DEF Group!LeftIsShown
<1>1. group.ver \in Nat /\ group.member \in BOOLEAN /\ db \in [ver : Nat, left : BOOLEAN] /\ raced \in BOOLEAN
  BY DEF GroupTypes, Snapshots
<1>2. ASSUME UNCHANGED <<group, db, moved, raced>> PROVE Group!LeftIsShown'  BY <1>2
<1>3. ASSUME NEW m \in BOOLEAN, Group!Changed(m), UNCHANGED <<db, raced>>,
             moved' = group.ver + 1 \/ (m = group.member /\ moved' = moved)
      PROVE  Group!LeftIsShown'
  BY <1>1, <1>3 DEF Group!Changed
<1>4. CASE UNCHANGED Group!vars  BY <1>2, <1>4 DEF Group!vars
<1>5. ASSUME NEW w \in Workers, Group!Arrive(w) \/ Group!WorkerStep(w) PROVE Group!LeftIsShown'
  <2>1. CASE Group!Store(w)
    <3>1. UNCHANGED <<group, moved>>  BY <2>1 DEF Group!Store
    <3>2. CASE UNCHANGED <<db, raced>>  BY <1>2, <3>1, <3>2
    <3>3. CASE ~UNCHANGED <<db, raced>>
      <4>1. raced' = (raced \/ db.left \/ ~group.member) /\ db'.left = FALSE
        BY <2>1, <3>3 DEF Group!Store, Group!Snapshot
      <4>. QED  BY <1>1, <3>1, <4>1
    <3>. QED  BY <3>2, <3>3
  <2>2. CASE ~Group!Store(w)
    <3>1. UNCHANGED <<group, db, moved, raced>>
      BY <1>5, <2>2 DEF Group!WorkerStep, Group!Arrive, Group!Ask, Group!Wake, Group!Fetch, Group!Fetched
    <3>. QED  BY <1>2, <3>1
  <2>. QED  BY <2>1, <2>2
<1>6. ASSUME NEW m \in BOOLEAN, Group!ChangeElsewhere(m) PROVE Group!LeftIsShown'
  <2>1. Group!Changed(m) /\ UNCHANGED <<db, raced>>
        /\ (moved' = group.ver + 1 \/ (m = group.member /\ moved' = moved))
    BY <1>6 DEF Group!ChangeElsewhere
  <2>. QED  BY <1>3, <2>1
<1>7. ASSUME Group!Notice \/ Group!Disconnected \/ Group!Connected \/ Group!Expire \/ Group!Stop \/ Group!Refresh
      PROVE  Group!LeftIsShown'
  <2>1. UNCHANGED <<group, db, moved, raced>>
    BY <1>7 DEF Group!Notice, Group!Disconnected, Group!Connected, Group!Expire, Group!Stop, Group!Refresh
  <2>. QED  BY <1>2, <2>1
<1>8. CASE Group!Leave  BY <1>3, <1>8 DEF Group!Leave
<1>9. CASE Group!MarkLeft
  <2>1. /\ db' = IF db.ver = 0 THEN db ELSE [db EXCEPT !.left = TRUE]
        /\ raced' = (raced \/ group.member) /\ UNCHANGED group
    BY <1>9 DEF Group!MarkLeft
  <2>. QED  BY <1>1, <2>1
<1>10. CASE Group!Change
  <2>1. Group!Changed(TRUE) /\ UNCHANGED <<db, raced>>
        /\ (moved' = group.ver + 1 \/ (group.member /\ moved' = moved))
    BY <1>10 DEF Group!Change
  <2>. QED  BY <1>1, <1>3, <2>1
<1>11. ASSUME NEW s \in Group!Slots, Group!CommandStore(s) PROVE Group!LeftIsShown'
  <2>1. cmd[s] \in CommandStates /\ cmd[s].at = "store"  BY <1>11 DEF Group!CommandStore, GroupTypes
  <2>2. cmd[s].got \in Snapshots /\ cmd[s].refresh \in BOOLEAN  BY <2>1 DEF CommandStates
  <2>3. UNCHANGED group  BY <1>11 DEF Group!CommandStore
  <2>4. raced' = (raced \/ ((cmd[s].got.member \/ cmd[s].refresh) /\ cmd[s].got.member # group.member))
    BY <1>11 DEF Group!CommandStore
  <2>5. CASE cmd[s].got.member
    <3>1. db'.left = FALSE  BY <1>11, <2>5 DEF Group!CommandStore, Group!Snapshot
    <3>. QED  BY <1>1, <2>2, <2>3, <2>4, <2>5, <3>1
  <2>6. CASE ~cmd[s].got.member /\ cmd[s].refresh
    <3>1. db' = Group!MissingMarked  BY <1>11, <2>6 DEF Group!CommandStore
    <3>2. db'.ver = 0 \/ db'.left = TRUE  BY <1>1, <3>1 DEF Group!MissingMarked
    <3>. QED  BY <1>1, <2>2, <2>3, <2>4, <2>6, <3>2
  <2>7. CASE ~cmd[s].got.member /\ ~cmd[s].refresh
    <3>1. db' = db /\ moved' = moved  BY <1>11, <2>7 DEF Group!CommandStore
    <3>. QED  BY <1>1, <2>3, <2>4, <2>7, <3>1
  <2>. QED  BY <2>5, <2>6, <2>7
<1>12. ASSUME NEW s \in Group!Slots, Group!CommandFetch(s) \/ Group!CommandFail(s) PROVE Group!LeftIsShown'
  BY <1>2, <1>12 DEF Group!CommandFetch, Group!CommandFail
<1>. HIDE DEF Group!LeftIsShown
<1>. QED
  BY <1>4, <1>5, <1>6, <1>7, <1>8, <1>9, <1>10, <1>11, <1>12, Zenon DEF Group!Next

\* What a worker stores is the answer in the cache.
LEMMA StoredIsCurrent ==
  ASSUME GroupTypes, AnswersAreCurrent, Group!Next
  PROVE  Group!StoresCurrent
<1>. SUFFICES ASSUME NEW w \in Workers, worker[w].at = "store", db' # db, worker'[w].at = "idle"
              PROVE  db'.ver >= heard
  BY DEF Group!StoresCurrent
<1>1. heard \in Nat /\ answers \in [Group!Answers -> Slip]  BY DEF GroupTypes
<1>2. CASE \E v \in Workers : Group!Store(v)
  <2>1. PICK v \in Workers : Group!Store(v)  BY <1>2
  <2>2. /\ Group!Still(v) /\ worker[v].info # 0
        /\ Group!Snapshot(answers[worker[v].info].ver)
    BY <2>1 DEF Group!Store
  <2>3. current = worker[v].info /\ current \in Group!Answers /\ answers[current].ver # 0
    BY <2>2 DEF Group!Still, Group!Info, Group!Usable, GroupTypes
  <2>4. heard <= answers[current].ver /\ answers[current].ver \in Nat
    <3>1. answers[current] \in Slip /\ current # 0  BY <1>1, <2>3 DEF Group!Answers
    <3>. QED  BY <2>3, <3>1 DEF AnswersAreCurrent, Slip
  <2>. QED  BY <1>1, <2>2, <2>3, <2>4 DEF Group!Snapshot
<1>3. CASE ~\E v \in Workers : Group!Store(v)
  <2>1. db' = db \/ worker' = worker
    <3>1. ASSUME NEW v \in Workers, Group!Arrive(v) \/ Group!Ask(v) \/ Group!Wake(v) \/ Group!Fetch(v) \/ Group!Fetched(v)
          PROVE  db' = db
      BY <3>1 DEF Group!Arrive, Group!Ask, Group!Wake, Group!Fetch, Group!Fetched
    <3>2. ASSUME NEW m \in BOOLEAN, Group!ChangeElsewhere(m) PROVE db' = db  BY <3>2 DEF Group!ChangeElsewhere
    <3>3. Group!Notice \/ Group!Disconnected \/ Group!Connected \/ Group!Expire \/ Group!Stop => db' = db
      BY DEF Group!Notice, Group!Disconnected, Group!Connected, Group!Expire, Group!Stop
    <3>4. Group!Leave \/ Group!MarkLeft \/ Group!Change \/ Group!Refresh => worker' = worker
      BY DEF Group!Leave, Group!MarkLeft, Group!Change, Group!Refresh
    <3>5. ASSUME NEW s \in Group!Slots, Group!CommandFetch(s) \/ Group!CommandStore(s) \/ Group!CommandFail(s)
          PROVE  worker' = worker
      BY <3>5 DEF Group!CommandFetch, Group!CommandStore, Group!CommandFail
    <3>. QED  BY <1>3, <3>1, <3>2, <3>3, <3>4, <3>5, Zenon DEF Group!Next, Group!WorkerStep
  <2>. QED  BY <2>1
<1>. QED  BY <1>2, <1>3

LEMMA GroupKeeps == GroupInv /\ [Group!Next]_(Group!vars) => GroupInv'
<1>. SUFFICES ASSUME GroupInv, [Group!Next]_(Group!vars) PROVE GroupInv'  OBVIOUS
<1>1. GroupTypes /\ AnswersAreCurrent /\ Group!LeftIsShown  BY DEF GroupInv
<1>2. GroupTypes'  BY <1>1, GroupTypesKept
<1>3. AnswersAreCurrent'  BY <1>1, AnswersStayCurrent
<1>4. Group!LeftIsShown'  BY <1>1, LeftStaysShown
<1>. QED  BY <1>2, <1>3, <1>4 DEF GroupInv

LEMMA GroupStepKept == GroupInv /\ [Group!Next]_(Group!vars) => [Group!MembershipKept]_(Group!vars)
<1>. SUFFICES ASSUME GroupInv, Group!Next PROVE Group!MembershipKept  OBVIOUS
<1>1. Group!StoresCurrent  BY StoredIsCurrent DEF GroupInv
<1>2. GroupInv'  BY GroupKeeps
<1>. QED  BY <1>1, <1>2 DEF GroupInv, Group!MembershipKept

\* No message being stored puts back a snapshot of the group older than a change the sync
\* was told of, and a membership that changed shows, whatever the goroutines that share an
\* answer, the reports, the connection and the groups commands do.
THEOREM MembershipIsCurrentAlways ==
  (Group!Spec => [][Group!MembershipKept]_(Group!vars)) /\ (RequestsSpec => MembershipIsCurrent)
<1>. DEFINE Part == part = "group" => GroupInv
<1>1. RequestsInit => Part  BY GroupStarts DEF RequestsInit
<1>2. [RequestsNext]_requestsVars => part' = part /\ (part = "group" => [Group!Next]_(Group!vars))
  BY DEF RequestsNext, requestsVars, groupVars, Group!vars, Group!cache
<1>3. Part /\ [RequestsNext]_requestsVars => Part'  BY <1>2, GroupKeeps
<1>4. Part /\ [RequestsNext]_requestsVars => [part = "group" => Group!MembershipKept]_requestsVars
  <2>1. SUFFICES ASSUME Part, RequestsNext, part = "group" PROVE Group!MembershipKept  OBVIOUS
  <2>2. Group!Next  BY <2>1 DEF RequestsNext
  <2>. QED  BY <2>1, <2>2, StoredIsCurrent, GroupKeeps DEF GroupInv, Group!MembershipKept
<1>5. Group!Spec => [][Group!MembershipKept]_(Group!vars)
  BY GroupStarts, GroupKeeps, GroupStepKept, PTL DEF Group!Spec
<1>. HIDE DEF Part
<1>6. RequestsSpec => MembershipIsCurrent  BY <1>1, <1>3, <1>4, PTL DEF RequestsSpec, MembershipIsCurrent
<1>. QED  BY <1>5, <1>6

=============================================================================
