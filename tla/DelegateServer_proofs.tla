------------------------ MODULE DelegateServer_proofs ------------------------
(***************************************************************************)
(* Proofs about DelegateServer, for any requests, kinds, budgets, margins  *)
(* and lags: slots, what commands know, when requests start and how they   *)
(* are spaced, and what stop leaves behind.                                *)
(***************************************************************************)
EXTENDS DelegateServer, FiniteSetTheorems, TLAPS

\* A handler whose deadline is watched, and a connection not yet read.
Waiting == {"queue", "slot", "pace", "refused"}
Early == {"none", "dialed", "accepted", "decode"}

\* What the command has been told, or can be, against where its handler is.
AnswerAt(r) ==
  /\ client[r] = "idle" => pc[r] = "none"
  /\ pc[r] \in {"none", "closed"} => client[r] # "waiting"
  /\ r \in ran => pc[r] \in {"run", "reply", "closed"}
  /\ pc[r] \in {"run", "reply"} => r \in ran
  /\ client[r] \in {"not sent", "reset"} => pc[r] = "closed" /\ r \notin ran
  /\ pc[r] = "refused" => reply[r] = "not sent"
  /\ pc[r] = "reply" => reply[r] \in {"ok", "maybe", "error"}
AnswerInv == \A r \in Requests : AnswerAt(r)

\* A handler that waits moves before its caller gives up, if the caller left enough.
TimeAt(r) ==
  /\ pc[r] \in Early => left[r] = 0
  /\ pc[r] \in Waiting => /\ due[r] <= giveUp[r]
                          /\ Covered(r) => now <= due[r] + Lag /\ due[r] + Lag < giveUp[r]
  /\ client[r] = "timedOut" => now >= giveUp[r] /\ (Covered(r) => r \in ran)
TimeInv == \A r \in Requests : TimeAt(r)

\* No context outlives the sync's.
LiveInv == \A r \in Requests : Active(r) /\ pc[r] # "decode" /\ live[r] => syncing

\* Who holds a slot, and until when the pacer keeps it.
SlotAt(r) ==
  /\ r \in holds => Queues(r) /\ pc[r] \in {"slot", "pace", "run", "refused", "reply"}
  /\ pc[r] \in {"slot", "pace"} \/ (pc[r] = "run" /\ Queues(r)) => r \in holds
  /\ pc[r] = "pace" => kind[r] = "send" /\ sendOver # -1 /\ wake[r] >= sendOver + MinGap
SlotInv == (\A r \in Requests : SlotAt(r)) /\ SlotsKept
GapInv == MaxGap > 0 => lastEnd = sendOver

\* The wait group counts the handlers, and none starts once the accept loop ended.
Handlers == {r \in Requests : Active(r)}
CountInv ==
  /\ IsFiniteSet(Handlers) /\ handlers = Cardinality(Handlers)
  /\ stop \in {"draining", "drained", "expired"} => LoopIdle
  /\ stop = "drained" => Handlers = {}

IInv == TypeOK /\ AnswerInv /\ TimeInv /\ LiveInv /\ SlotInv /\ GapInv /\ CountInv

-----------------------------------------------------------------------------
(* Arithmetic of the margin. *)

LEMMA ClockFacts == /\ \A t : t \in Clock <=> t \in Nat /\ t <= MaxTime
                    /\ \A t \in Clock \cup {-1} : t \in Int /\ t >= -1 /\ (t # -1 => t \in Clock)
  BY TimesAssumption DEF Clock

\* The types of what steps compare.
LEMMA Types ==
  ASSUME TypeOK
  PROVE  /\ now \in Nat /\ now <= MaxTime
         /\ \A r \in Requests : giveUp[r] \in Nat /\ giveUp[r] <= MaxTime
         /\ \A r \in Requests : due[r] \in Int /\ left[r] \in Int /\ wake[r] \in Nat /\ live[r] \in BOOLEAN
<1>1. now \in Clock  BY DEF TypeOK
<1>2. ASSUME NEW r \in Requests PROVE giveUp[r] \in Clock /\ due[r] \in Clock \cup {-1}
  BY DEF TypeOK
<1>3. ASSUME NEW r \in Requests PROVE left[r] \in Int /\ wake[r] \in Nat /\ live[r] \in BOOLEAN
  BY DEF TypeOK
<1>. QED  BY <1>1, <1>2, <1>3, ClockFacts

\* A tenth of what is left is no more than what is left.
LEMMA ShareFacts ==
  ASSUME NEW a \in Nat, NEW s \in Nat \ {0}
  PROVE  a \div s \in Nat /\ a \div s <= a
OBVIOUS

LEMMA ShareCovers ==
  ASSUME NEW a \in Int, NEW s \in Nat \ {0}, NEW k \in Nat, a >= s * k
  PROVE  a \div s >= k
OBVIOUS

LEMMA ShareProduct ==
  ASSUME NEW s \in Nat \ {0}, NEW k \in Nat \ {0}
  PROVE  s * k \in Nat /\ s * k > 0
OBVIOUS

\* The handler's deadline is a time, never after the caller's; it is not before
\* now when the caller has time left.
LEMMA DueFacts ==
  ASSUME TypeOK, NEW r \in Requests
  PROVE  /\ Due(r) \in Clock /\ Due(r) <= giveUp[r]
         /\ now < giveUp[r] => now <= Due(r)
<1>. now \in Nat /\ now <= MaxTime /\ giveUp[r] \in Nat /\ giveUp[r] <= MaxTime  BY Types
<1>. Margin \in Nat /\ Share \in Nat \ {0} /\ MaxTime \in Nat  BY TimesAssumption
<1>. DEFINE share == (giveUp[r] - now) \div Share
<1>1. CASE now >= giveUp[r]  BY <1>1, ClockFacts DEF Due
<1>2. CASE now < giveUp[r]
  <2>1. share \in Nat /\ share <= giveUp[r] - now  BY <1>2, ShareFacts
  <2>. HIDE DEF share
  <2>2. Due(r) = giveUp[r] - IF share < Margin THEN share ELSE Margin  BY <1>2 DEF Due, share
  <2>. QED  BY <2>1, <2>2, <1>2, ClockFacts
<1>. QED  BY <1>1, <1>2

\* Enough time covers timers that fire late.
LEMMA DueCovers ==
  ASSUME TypeOK, NEW r \in Requests, giveUp[r] - now >= Share * (Lag + 1), Margin > Lag
  PROVE  now <= Due(r) + Lag /\ Due(r) + Lag < giveUp[r] /\ now < giveUp[r]
<1>. now \in Nat /\ giveUp[r] \in Nat  BY Types
<1>. Margin \in Nat /\ Share \in Nat \ {0} /\ Lag \in Nat  BY TimesAssumption
<1>. DEFINE share == (giveUp[r] - now) \div Share
<1>1. now < giveUp[r]
  <2>1. Share * (Lag + 1) > 0  BY ShareProduct
  <2>. QED  BY <2>1
<1>2. share >= Lag + 1
  <2>1. giveUp[r] - now \in Int /\ Lag + 1 \in Nat  OBVIOUS
  <2>. QED  BY <2>1, ShareCovers DEF share
<1>3. share \in Nat /\ share <= giveUp[r] - now  BY <1>1, ShareFacts
<1>. HIDE DEF share
<1>4. Due(r) = giveUp[r] - IF share < Margin THEN share ELSE Margin  BY <1>1 DEF Due, share
<1>. QED  BY <1>1, <1>2, <1>3, <1>4

\* A caller without time left is never covered.
LEMMA LateUncovered == ASSUME NEW r \in Requests, left[r] \in Int, left[r] <= 0 PROVE ~Covered(r)
<1>1. Share * (Lag + 1) > 0 /\ Share * (Lag + 1) \in Nat  BY ShareProduct, TimesAssumption
<1>. QED  BY <1>1 DEF Covered

-----------------------------------------------------------------------------
(* Types. *)

LEMMA InitInv == Init => IInv
<1>. SUFFICES ASSUME Init PROVE IInv  OBVIOUS
<1>. USE DEF Init
<1>1. TypeOK  BY TimesAssumption DEF TypeOK, Clock
<1>2. AnswerInv  BY DEF AnswerInv, AnswerAt
<1>3. TimeInv  BY DEF TimeInv, TimeAt, Early, Waiting
<1>4. LiveInv  BY DEF LiveInv
<1>5. SlotInv  BY DEF SlotInv, SlotAt, SlotsKept
<1>6. GapInv  BY DEF GapInv
<1>7. CountInv
  <2>1. Handlers = {}  BY DEF Handlers, Active
  <2>. QED  BY <2>1, FS_EmptySet DEF CountInv
<1>. QED  BY <1>1, <1>2, <1>3, <1>4, <1>5, <1>6, <1>7 DEF IInv

\* A handler that is there is counted.
LEMMA SomeHandler ==
  ASSUME TypeOK, CountInv, NEW r \in Requests, Active(r)
  PROVE  /\ handlers - 1 \in Nat /\ IsFiniteSet(Handlers \ {r})
         /\ handlers - 1 = Cardinality(Handlers \ {r})
<1>1. r \in Handlers  BY DEF Handlers
<1>2. /\ IsFiniteSet(Handlers \ {r})
      /\ Cardinality(Handlers \ {r}) = Cardinality(Handlers) - 1
  BY <1>1, FS_RemoveElement DEF CountInv
<1>3. Cardinality(Handlers \ {r}) \in Nat  BY <1>2, FS_CardinalityType
<1>. QED  BY <1>2, <1>3 DEF CountInv

LEMMA TypeStep ==
  ASSUME IInv, [Next]_vars
  PROVE  TypeOK'
<1>. TypeOK /\ CountInv  BY DEF IInv
<1>. USE DEF clientVars, handlerVars, historyVars, slotVars, stopVars
<1>1. CASE Tick
  <2>1. now' \in Clock  BY <1>1, Types, ClockFacts, TimesAssumption DEF Tick
  <2>. QED  BY <1>1, <2>1 DEF Tick, TypeOK
<1>2. ASSUME NEW r \in Requests, Dial(r) PROVE TypeOK'
  <2>1. PICK b \in Budgets : now + b + Lag <= MaxTime /\ giveUp' = [giveUp EXCEPT ![r] = now + b]
    BY <1>2 DEF Dial
  <2>2. now + b \in Clock  BY <2>1, Types, ClockFacts, TimesAssumption
  <2>. QED  BY <1>2, <2>1, <2>2 DEF Dial, TypeOK
<1>3. ASSUME NEW r \in Requests, ClientTimesOut(r) \/ HangUp(r) \/ Reset(r) \/ Accept(r) PROVE TypeOK'
  BY <1>3 DEF ClientTimesOut, HangUp, Reset, Accept, TypeOK
<1>4. ASSUME NEW r \in Requests, Serve(r) PROVE TypeOK'
  <2>1. handlers \in Nat  BY DEF TypeOK
  <2>2. handlers' \in Nat  BY <1>4, <2>1 DEF Serve
  <2>. QED  BY <1>4, <2>2 DEF Serve, TypeOK
<1>5. ASSUME NEW r \in Requests, Decode(r) PROVE TypeOK'
  <2>1. due' \in [Requests -> Clock \cup {-1}] /\ live' \in [Requests -> BOOLEAN]
    BY <1>5, DueFacts DEF Decode, TypeOK
  <2>2. left' \in [Requests -> Int]
    <3>1. giveUp[r] - now \in Int  BY Types
    <3>. QED  BY <1>5, <3>1 DEF Decode, TypeOK
  <2>. QED  BY <1>5, <2>1, <2>2 DEF Decode, Refuse, Start, TypeOK
<1>6. ASSUME NEW r \in Requests, DecodeFails(r) PROVE TypeOK'
  <2>1. handlers' \in Nat  BY <1>6, SomeHandler DEF DecodeFails, Active
  <2>. QED  BY <1>6, <2>1 DEF DecodeFails, TypeOK
<1>7. ASSUME NEW r \in Requests, TimerFires(r) \/ PeerGone(r) \/ QueueRefuse(r) PROVE TypeOK'
  BY <1>7 DEF TimerFires, PeerGone, QueueRefuse, Refuse, TypeOK
<1>8. ASSUME NEW r \in Requests, QueueTake(r) \/ SlotRefuse(r) \/ SlotStart(r) PROVE TypeOK'
  BY <1>8 DEF QueueTake, SlotRefuse, SlotStart, Refuse, Start, TypeOK
<1>9. ASSUME NEW r \in Requests, SlotPace(r) PROVE TypeOK'
  <2>1. PICK gap \in MinGap .. MaxGap : wake' = [wake EXCEPT ![r] = lastEnd + gap]
    BY <1>9 DEF SlotPace
  <2>2. lastEnd \in Clock  BY <1>9, ClockFacts DEF SlotPace, Paced, TypeOK
  <2>3. lastEnd + gap \in Nat  BY <2>2, ClockFacts, TimesAssumption
  <2>. QED  BY <1>9, <2>1, <2>3 DEF SlotPace, TypeOK
<1>10. ASSUME NEW r \in Requests, PaceEnds(r) PROVE TypeOK'
  BY <1>10 DEF PaceEnds, Refuse, Start, TypeOK
<1>11. ASSUME NEW r \in Requests, RunEnds(r) PROVE TypeOK'
  <2>1. PICK a \in {"ok", "maybe", "error"} :
          /\ reply' = [reply EXCEPT ![r] = a]
          /\ lastEnd' \in {now, lastEnd} /\ sendOver' \in {now, sendOver}
    BY <1>11 DEF RunEnds, Answers
  <2>. QED  BY <1>11, <2>1 DEF RunEnds, TypeOK
<1>12. ASSUME NEW r \in Requests, Answer(r) PROVE TypeOK'
  <2>1. handlers' \in Nat  BY <1>12, SomeHandler DEF Answer, Active
  <2>2. free' \subseteq Slots
    <3>1. CASE ~Releases(r)  BY <1>12, <3>1 DEF Answer, TypeOK
    <3>2. CASE Releases(r)
      <4>1. kind[r] \in Slots  BY <3>2 DEF Releases, IInv, SlotInv, SlotAt, Queues
      <4>. QED  BY <1>12, <3>2, <4>1 DEF Answer, TypeOK, Slots
    <3>. QED  BY <3>1, <3>2
  <2>3. client' \in [Requests -> {"idle", "waiting", "timedOut", "gone", "reset", "not sent", "ok", "maybe", "error"}]
    <3>1. reply[r] \in {"not sent", "ok", "maybe", "error"}
      BY <1>12 DEF Answer, IInv, AnswerInv, AnswerAt
    <3>. QED  BY <1>12, <3>1 DEF Answer, TypeOK
  <2>. QED  BY <1>12, <2>1, <2>2, <2>3 DEF Answer, TypeOK
<1>13. CASE SyncEnds \/ StopClose \/ StopReturns
  BY <1>13 DEF SyncEnds, StopClose, StopReturns, TypeOK
<1>14. CASE StopWait
  <2>1. graceEnd' \in Nat  BY <1>14, Types, TimesAssumption DEF StopWait
  <2>. QED  BY <1>14, <2>1 DEF StopWait, TypeOK
<1>15. CASE UNCHANGED vars  BY <1>15 DEF vars, TypeOK
<1>. QED
  BY <1>1, <1>2, <1>3, <1>4, <1>5, <1>6, <1>7, <1>8, <1>9, <1>10, <1>11, <1>12, <1>13, <1>14, <1>15
  DEF Next, Command, Server, Handler, Stopping

-----------------------------------------------------------------------------
(* What commands are told. *)

\* What a step for request r leaves alone.
Others(r) ==
  \A q \in Requests \ {r} :
    /\ client'[q] = client[q] /\ pc'[q] = pc[q] /\ reply'[q] = reply[q]
    /\ q \in ran' <=> q \in ran

LEMMA AnswerElse ==
  ASSUME AnswerInv, NEW r \in Requests, Others(r), AnswerAt(r)'
  PROVE  AnswerInv'
<1>1. ASSUME NEW q \in Requests \ {r} PROVE AnswerAt(q)'
  <2>1. /\ client'[q] = client[q] /\ pc'[q] = pc[q] /\ reply'[q] = reply[q]
        /\ q \in ran' <=> q \in ran
    BY DEF Others
  <2>2. AnswerAt(q)  BY DEF AnswerInv
  <2>. QED  BY <2>1, <2>2 DEF AnswerAt
<1>. QED  BY <1>1 DEF AnswerInv

LEMMA AnswerStep ==
  ASSUME IInv, [Next]_vars
  PROVE  AnswerInv'
<1>. TypeOK /\ AnswerInv  BY DEF IInv
<1>. USE DEF AnswerInv, AnswerAt, clientVars, handlerVars, historyVars, slotVars, stopVars
<1>1. CASE UNCHANGED <<client, pc, ran, reply>>
  BY <1>1
<1>2. ASSUME NEW r \in Requests, Dial(r) PROVE AnswerInv'
  BY <1>2 DEF Dial, TypeOK
<1>3. ASSUME NEW r \in Requests, ClientTimesOut(r) \/ HangUp(r) PROVE AnswerInv'
  <2>1. UNCHANGED <<pc, reply, ran>> /\ client[r] = "waiting"
        /\ \E c \in {"timedOut", "gone"} : client' = [client EXCEPT ![r] = c]
    BY <1>3 DEF ClientTimesOut, HangUp
  <2>2. Others(r) /\ client'[r] \in {"timedOut", "gone"}  BY <2>1 DEF Others, TypeOK
  <2>. QED  BY <2>1, <2>2, AnswerElse
<1>4. ASSUME NEW r \in Requests, Reset(r) PROVE AnswerInv'
  BY <1>4 DEF Reset, TypeOK
<1>5. ASSUME NEW r \in Requests, Accept(r) \/ Serve(r) PROVE AnswerInv'
  <2>1. UNCHANGED <<client, reply, ran>> /\ pc[r] \in {"dialed", "accepted"}
        /\ \E p \in {"accepted", "decode"} : pc' = [pc EXCEPT ![r] = p]
    BY <1>5 DEF Accept, Serve
  <2>2. Others(r) /\ pc'[r] \in {"accepted", "decode"}  BY <2>1 DEF Others, TypeOK
  <2>. QED  BY <2>1, <2>2, AnswerElse
<1>6. ASSUME NEW r \in Requests, Decode(r) PROVE AnswerInv'
  <2>1. client' = client /\ pc[r] = "decode"  BY <1>6 DEF Decode
  <2>2. CASE pc' = [pc EXCEPT ![r] = "queue"] /\ UNCHANGED <<reply, ran>>
    BY <2>1, <2>2 DEF TypeOK
  <2>3. CASE Refuse(r) /\ UNCHANGED ran  BY <2>1, <2>3 DEF Refuse, TypeOK
  <2>4. CASE Start(r) /\ UNCHANGED reply  BY <2>1, <2>4 DEF Start, TypeOK
  <2>. QED  BY <1>6, <2>2, <2>3, <2>4 DEF Decode
<1>7. ASSUME NEW r \in Requests, DecodeFails(r) PROVE AnswerInv'
  BY <1>7 DEF DecodeFails, TypeOK
<1>8. ASSUME NEW r \in Requests, QueueRefuse(r) \/ SlotRefuse(r) PROVE AnswerInv'
  <2>1. UNCHANGED <<client, ran>> /\ pc[r] \in {"queue", "slot"} /\ Refuse(r)
    BY <1>8 DEF QueueRefuse, SlotRefuse
  <2>2. Others(r) /\ pc'[r] = "refused" /\ reply'[r] = "not sent"  BY <2>1 DEF Refuse, Others, TypeOK
  <2>. QED  BY <2>1, <2>2, AnswerElse
<1>9. ASSUME NEW r \in Requests, QueueTake(r) \/ SlotPace(r) PROVE AnswerInv'
  <2>1. UNCHANGED <<client, reply, ran>> /\ pc[r] \in {"queue", "slot"}
        /\ \E p \in {"slot", "pace"} : pc' = [pc EXCEPT ![r] = p]
    BY <1>9 DEF QueueTake, SlotPace
  <2>2. Others(r) /\ pc'[r] \in {"slot", "pace"}  BY <2>1 DEF Others, TypeOK
  <2>. QED  BY <2>1, <2>2, AnswerElse
<1>10. ASSUME NEW r \in Requests, SlotStart(r) PROVE AnswerInv'
  BY <1>10 DEF SlotStart, Start, TypeOK
<1>11. ASSUME NEW r \in Requests, PaceEnds(r) PROVE AnswerInv'
  <2>1. client' = client /\ pc[r] = "pace"  BY <1>11 DEF PaceEnds
  <2>2. CASE Refuse(r) /\ UNCHANGED ran  BY <2>1, <2>2 DEF Refuse, TypeOK
  <2>3. CASE Start(r) /\ UNCHANGED reply  BY <2>1, <2>3 DEF Start, TypeOK
  <2>. QED  BY <1>11, <2>2, <2>3 DEF PaceEnds
<1>12. ASSUME NEW r \in Requests, RunEnds(r) PROVE AnswerInv'
  <2>1. UNCHANGED <<client, ran>> /\ pc[r] = "run" /\ pc' = [pc EXCEPT ![r] = "reply"]
        /\ \E a \in {"ok", "maybe", "error"} : reply' = [reply EXCEPT ![r] = a]
    BY <1>12 DEF RunEnds, Answers
  <2>2. Others(r) /\ pc'[r] = "reply" /\ reply'[r] \in {"ok", "maybe", "error"}  BY <2>1 DEF Others, TypeOK
  <2>. QED  BY <2>1, <2>2, AnswerElse
<1>13. ASSUME NEW r \in Requests, Answer(r) PROVE AnswerInv'
  BY <1>13 DEF Answer, TypeOK
<1>14. \/ UNCHANGED <<client, pc, ran, reply>>
       \/ \E r \in Requests :
            \/ Command(r) \/ Accept(r) \/ Serve(r) \/ Decode(r) \/ DecodeFails(r)
            \/ QueueRefuse(r) \/ QueueTake(r) \/ SlotRefuse(r) \/ SlotPace(r) \/ SlotStart(r)
            \/ PaceEnds(r) \/ Answer(r) \/ RunEnds(r)
  BY DEF Next, Server, Handler, Stopping, Tick, TimerFires, PeerGone, SyncEnds, StopClose, StopWait,
         StopReturns, vars
<1>. QED
  BY <1>1, <1>2, <1>3, <1>4, <1>5, <1>6, <1>7, <1>8, <1>9, <1>10, <1>11, <1>12, <1>13, <1>14 DEF Command

-----------------------------------------------------------------------------
(* Deadlines. *)

LEMMA TimeStep ==
  ASSUME IInv, [Next]_vars
  PROVE  TimeInv'
<1>. TypeOK /\ AnswerInv /\ TimeInv  BY DEF IInv
<1>. USE DEF clientVars, handlerVars, historyVars, slotVars, stopVars
<1>1. CASE UNCHANGED <<now, giveUp, client, pc, due, left, ran>>
  BY <1>1 DEF TimeInv, TimeAt, Covered
<1>2. CASE Tick
  <2>1. now' = now + 1 /\ UNCHANGED <<giveUp, client, pc, due, left, ran, live>>
    BY <1>2 DEF Tick
  <2>2. ASSUME NEW q \in Requests PROVE TimeAt(q)'
    <3>1. pc[q] \in Waiting => now < due[q] + Lag
      <4>1. ~Overdue(q)  BY <1>2 DEF Tick
      <4>. QED  BY <4>1, Types, TimesAssumption DEF Overdue, GivesUp, Waiting
    <3>. QED  BY <2>1, <3>1, Types, TimesAssumption DEF TimeInv, TimeAt, Covered
  <2>. QED  BY <2>2 DEF TimeInv
<1>3. ASSUME NEW r \in Requests, Dial(r) PROVE TimeInv'
  <2>1. /\ pc[r] = "none" /\ client[r] = "idle"
        /\ pc' = [pc EXCEPT ![r] = "dialed"] /\ client' = [client EXCEPT ![r] = "waiting"]
        /\ \E b : giveUp' = [giveUp EXCEPT ![r] = b]
        /\ UNCHANGED <<now, due, left, ran>>
    BY <1>3 DEF Dial, AnswerInv, AnswerAt
  <2>. QED  BY <2>1 DEF TimeInv, TimeAt, Covered, Early, Waiting, TypeOK
<1>4. ASSUME NEW r \in Requests, ClientTimesOut(r) PROVE TimeInv'
  <2>1. /\ client[r] = "waiting" /\ now >= giveUp[r] /\ client' = [client EXCEPT ![r] = "timedOut"]
        /\ UNCHANGED <<now, giveUp, pc, due, left, ran>>
    BY <1>4 DEF ClientTimesOut
  <2>2. Covered(r) => r \in ran
    <3>1. CASE pc[r] \in Early  BY <3>1, LateUncovered DEF TimeInv, TimeAt
    <3>2. CASE pc[r] \in Waiting  BY <2>1, <3>2, Types, TimesAssumption DEF TimeInv, TimeAt
    <3>3. CASE pc[r] \notin Early \cup Waiting
      <4>1. pc[r] \in {"run", "reply"}
        BY <2>1, <3>3 DEF Early, Waiting, TypeOK, AnswerInv, AnswerAt
      <4>. QED  BY <4>1 DEF AnswerInv, AnswerAt
    <3>. QED  BY <3>1, <3>2, <3>3
  <2>. QED  BY <2>1, <2>2 DEF TimeInv, TimeAt, Covered, TypeOK
<1>5. ASSUME NEW r \in Requests, HangUp(r) \/ Accept(r) \/ Serve(r) PROVE TimeInv'
  <2>1. /\ pc' = pc \/ \E p \in Early : pc' = [pc EXCEPT ![r] = p] /\ pc[r] \in Early
        /\ client' = client \/ client' = [client EXCEPT ![r] = "gone"]
        /\ UNCHANGED <<now, giveUp, due, left, ran>>
    BY <1>5 DEF HangUp, Accept, Serve, Early
  <2>. QED  BY <2>1 DEF TimeInv, TimeAt, Covered, TypeOK, Early, Waiting
<1>6. ASSUME NEW r \in Requests, Reset(r) \/ DecodeFails(r) PROVE TimeInv'
  <2>1. /\ pc' = [pc EXCEPT ![r] = "closed"]
        /\ client' = client \/ client' = [client EXCEPT ![r] = IF @ = "waiting" THEN "reset" ELSE @]
        /\ UNCHANGED <<now, giveUp, due, left, ran>>
    BY <1>6 DEF Reset, DecodeFails
  <2>. QED  BY <2>1 DEF TimeInv, TimeAt, Covered, TypeOK, Early, Waiting
<1>7. ASSUME NEW r \in Requests, Decode(r) PROVE TimeInv'
  <2>1. /\ \E p \in {"queue", "refused", "run"} : pc' = [pc EXCEPT ![r] = p]
        /\ due' = [due EXCEPT ![r] = Due(r)] /\ left' = [left EXCEPT ![r] = giveUp[r] - now]
        /\ ran \subseteq ran' /\ UNCHANGED <<now, giveUp, client>>
    BY <1>7 DEF Decode, Refuse, Start
  <2>2. ASSUME NEW q \in Requests, q # r PROVE TimeAt(q)'
    BY <2>1, <2>2 DEF TimeInv, TimeAt, Covered, TypeOK
  <2>3. /\ left'[r] = giveUp[r] - now /\ due'[r] = Due(r) /\ pc'[r] \notin Early
    BY <2>1 DEF TypeOK, Early
  <2>4. Covered(r)' => now <= Due(r) + Lag /\ Due(r) + Lag < giveUp[r] /\ now < giveUp[r]
    BY <2>3, DueCovers DEF Covered
  <2>5. Due(r) <= giveUp[r]  BY DueFacts
  <2>6. client[r] = "timedOut" => now >= giveUp[r]  BY DEF TimeInv, TimeAt
  <2>7. TimeAt(r)'
    BY <2>1, <2>3, <2>4, <2>5, <2>6, Types DEF TimeAt
  <2>. QED  BY <2>2, <2>7 DEF TimeInv
<1>8. ASSUME NEW r \in Requests, QueueRefuse(r) \/ SlotRefuse(r) \/ QueueTake(r) \/ SlotPace(r) PROVE TimeInv'
  <2>1. /\ pc[r] \in Waiting /\ \E p \in Waiting : pc' = [pc EXCEPT ![r] = p]
        /\ UNCHANGED <<now, giveUp, client, due, left, ran>>
    BY <1>8 DEF QueueRefuse, SlotRefuse, QueueTake, SlotPace, Refuse, Waiting
  <2>. QED  BY <2>1 DEF TimeInv, TimeAt, Covered, TypeOK, Early, Waiting
<1>9. ASSUME NEW r \in Requests, SlotStart(r) \/ PaceEnds(r) PROVE TimeInv'
  <2>1. /\ pc[r] \in Waiting /\ \E p \in {"refused", "run"} : pc' = [pc EXCEPT ![r] = p]
        /\ ran \subseteq ran' /\ UNCHANGED <<now, giveUp, client, due, left>>
    BY <1>9 DEF SlotStart, PaceEnds, Start, Refuse, Waiting
  <2>. QED  BY <2>1 DEF TimeInv, TimeAt, Covered, TypeOK, Early, Waiting
<1>10. ASSUME NEW r \in Requests, RunEnds(r) PROVE TimeInv'
  <2>1. /\ pc' = [pc EXCEPT ![r] = "reply"] /\ pc[r] = "run"
        /\ UNCHANGED <<now, giveUp, client, due, left, ran>>
    BY <1>10 DEF RunEnds
  <2>. QED  BY <2>1 DEF TimeInv, TimeAt, Covered, TypeOK, Early, Waiting
<1>11. ASSUME NEW r \in Requests, Answer(r) PROVE TimeInv'
  <2>1. /\ pc' = [pc EXCEPT ![r] = "closed"]
        /\ client' = [client EXCEPT ![r] = IF @ = "waiting" THEN reply[r] ELSE @]
        /\ reply[r] # "timedOut"
        /\ UNCHANGED <<now, giveUp, due, left, ran>>
    BY <1>11 DEF Answer, AnswerInv, AnswerAt
  <2>. QED  BY <2>1 DEF TimeInv, TimeAt, Covered, TypeOK, Early, Waiting
<1>12. \/ UNCHANGED <<now, giveUp, client, pc, due, left, ran>>
       \/ Tick
       \/ \E r \in Requests :
            \/ Command(r) \/ Accept(r) \/ Serve(r) \/ Decode(r) \/ DecodeFails(r)
            \/ QueueRefuse(r) \/ QueueTake(r) \/ SlotRefuse(r) \/ SlotPace(r) \/ SlotStart(r)
            \/ PaceEnds(r) \/ Answer(r) \/ RunEnds(r)
  BY DEF Next, Server, Handler, Stopping, TimerFires, PeerGone, SyncEnds, StopClose, StopWait,
         StopReturns, vars
<1>. QED
  BY <1>1, <1>2, <1>3, <1>4, <1>5, <1>6, <1>7, <1>8, <1>9, <1>10, <1>11, <1>12 DEF Command

-----------------------------------------------------------------------------
(* Contexts, slots and the gap. *)

LEMMA LiveStep ==
  ASSUME IInv, [Next]_vars
  PROVE  LiveInv'
<1>. TypeOK /\ LiveInv  BY DEF IInv
<1>. USE DEF LiveInv, Active, clientVars, handlerVars, historyVars, slotVars, stopVars
<1>1. CASE UNCHANGED <<pc, live, syncing>>
  BY <1>1
<1>2. ASSUME NEW r \in Requests, live' = [live EXCEPT ![r] = FALSE], UNCHANGED <<pc, syncing>> PROVE LiveInv'
  BY <1>2 DEF TypeOK
<1>3. ASSUME NEW r \in Requests, UNCHANGED <<live, syncing>>, pc[r] \in Waiting \cup {"run"},
             NEW p \in Waiting \cup {"run", "reply"}, pc' = [pc EXCEPT ![r] = p]
      PROVE LiveInv'
  BY <1>3 DEF TypeOK, Waiting
<1>4. ASSUME NEW r \in Requests, UNCHANGED <<live, syncing>>,
             NEW p \in Early \cup {"closed"}, pc' = [pc EXCEPT ![r] = p]
      PROVE LiveInv'
  BY <1>4 DEF TypeOK, Early
<1>5. ASSUME NEW r \in Requests, Decode(r) PROVE LiveInv'
  <2>1. /\ live' = [live EXCEPT ![r] = syncing /\ now < Due(r)] /\ UNCHANGED syncing
        /\ \E p : pc' = [pc EXCEPT ![r] = p]
    BY <1>5 DEF Decode, Refuse, Start
  <2>. QED  BY <2>1 DEF TypeOK
<1>6. ASSUME NEW r \in Requests, Answer(r) PROVE LiveInv'
  BY <1>6 DEF Answer, TypeOK
<1>7. CASE SyncEnds  BY <1>7 DEF SyncEnds, TypeOK
<1>8. ASSUME NEW r \in Requests, TimerFires(r) \/ PeerGone(r) PROVE LiveInv'
  BY <1>2, <1>8 DEF TimerFires, PeerGone
<1>9. ASSUME NEW r \in Requests,
             QueueRefuse(r) \/ SlotRefuse(r) \/ QueueTake(r) \/ SlotPace(r) \/ SlotStart(r) \/ PaceEnds(r) \/ RunEnds(r)
      PROVE LiveInv'
  <2>1. /\ UNCHANGED <<live, syncing>> /\ pc[r] \in Waiting \cup {"run"}
        /\ \E p \in Waiting \cup {"run", "reply"} : pc' = [pc EXCEPT ![r] = p]
    BY <1>9 DEF QueueRefuse, SlotRefuse, QueueTake, SlotPace, SlotStart, PaceEnds, RunEnds, Refuse, Start, Waiting
  <2>. QED  BY <1>3, <2>1
<1>10. ASSUME NEW r \in Requests, Dial(r) \/ Reset(r) \/ Accept(r) \/ Serve(r) \/ DecodeFails(r) PROVE LiveInv'
  <2>1. /\ UNCHANGED <<live, syncing>>
        /\ \E p \in Early \cup {"closed"} : pc' = [pc EXCEPT ![r] = p]
    BY <1>10 DEF Dial, Reset, Accept, Serve, DecodeFails, Early
  <2>. QED  BY <1>4, <2>1
<1>11. \/ UNCHANGED <<pc, live, syncing>>
       \/ SyncEnds
       \/ \E r \in Requests :
            \/ Dial(r) \/ Reset(r) \/ Accept(r) \/ Serve(r) \/ Decode(r) \/ DecodeFails(r) \/ TimerFires(r)
            \/ PeerGone(r) \/ QueueRefuse(r) \/ QueueTake(r) \/ SlotRefuse(r) \/ SlotPace(r) \/ SlotStart(r)
            \/ PaceEnds(r) \/ Answer(r) \/ RunEnds(r)
  BY DEF Next, Command, Server, Handler, Stopping, Tick, ClientTimesOut, HangUp, StopClose, StopWait,
         StopReturns, vars
<1>. QED
  BY <1>1, <1>5, <1>6, <1>7, <1>8, <1>9, <1>10, <1>11

\* A handler moves on without taking or giving back a slot.
LEMMA SlotMove ==
  ASSUME TypeOK, SlotInv, NEW r \in Requests, NEW p,
         pc' = [pc EXCEPT ![r] = p], UNCHANGED <<kind, free, holds, sendOver>>,
         \A q \in Requests \ {r} : wake'[q] = wake[q],
         r \in holds => p \in {"slot", "pace", "run", "refused", "reply"},
         p \in {"slot", "pace"} \/ (p = "run" /\ Queues(r)) => r \in holds,
         p = "pace" => kind[r] = "send" /\ sendOver # -1 /\ wake'[r] >= sendOver + MinGap
  PROVE  SlotInv'
<1>1. SlotsKept'  BY DEF SlotInv, SlotsKept
<1>2. ASSUME NEW q \in Requests, q # r PROVE SlotAt(q)'
  <2>1. pc'[q] = pc[q] /\ wake'[q] = wake[q]  BY <1>2 DEF TypeOK
  <2>. QED  BY <2>1 DEF SlotInv, SlotAt, Queues
<1>3. SlotAt(r)'
  <2>1. pc'[r] = p  BY DEF TypeOK
  <2>. QED  BY <2>1 DEF SlotInv, SlotAt, Queues
<1>. QED  BY <1>2, <1>3, <1>1 DEF SlotInv

\* A request that takes its kind's token is the only one with it.
LEMMA SlotTaken ==
  ASSUME TypeOK, SlotInv, NEW r \in Requests, QueueTake(r)
  PROVE  SlotInv'
<1>1. /\ kind[r] \in free /\ free' = free \ {kind[r]} /\ holds' = holds \cup {r}
      /\ pc' = [pc EXCEPT ![r] = "slot"] /\ UNCHANGED <<kind, wake, sendOver>>
  BY DEF QueueTake, clientVars, historyVars
<1>2. Queues(r) /\ \A q \in holds : kind[q] # kind[r]
  BY <1>1 DEF TypeOK, SlotInv, SlotsKept, Queues
<1>3. SlotsKept'  BY <1>1, <1>2 DEF SlotInv, SlotsKept
<1>4. ASSUME NEW q \in Requests PROVE SlotAt(q)'
  BY <1>1, <1>2 DEF SlotInv, SlotAt, Queues, TypeOK
<1>. QED  BY <1>3, <1>4 DEF SlotInv

\* The answer gives the token back.
LEMMA SlotGiven ==
  ASSUME TypeOK, SlotInv, NEW r \in Requests, Answer(r)
  PROVE  SlotInv'
<1>1. /\ free' = IF r \in holds THEN free \cup {kind[r]} ELSE free
      /\ holds' = holds \ {r}
      /\ pc' = [pc EXCEPT ![r] = "closed"] /\ UNCHANGED <<kind, wake, sendOver>>
  BY DEF Answer, Releases, historyVars
<1>2. SlotsKept'
  <2>1. \A s \in Slots : s \in free' <=> \A q \in holds' : kind[q] # s
    BY <1>1 DEF SlotInv, SlotsKept
  <2>. QED  BY <1>1, <2>1 DEF SlotInv, SlotsKept
<1>3. ASSUME NEW q \in Requests PROVE SlotAt(q)'
  BY <1>1 DEF SlotInv, SlotAt, Queues, TypeOK
<1>. QED  BY <1>2, <1>3 DEF SlotInv

\* While one send holds the slot, no other can end and move the gap.
LEMMA SlotStep ==
  ASSUME IInv, [Next]_vars
  PROVE  SlotInv'
<1>. TypeOK /\ SlotInv /\ GapInv  BY DEF IInv
<1>. USE DEF clientVars, handlerVars, historyVars, slotVars, stopVars
<1>1. CASE UNCHANGED <<kind, pc, wake, free, holds, sendOver>>
  BY <1>1 DEF SlotInv, SlotAt, SlotsKept, Queues
<1>2. ASSUME NEW r \in Requests, Dial(r) \/ Reset(r) \/ Accept(r) \/ Serve(r) \/ DecodeFails(r) PROVE SlotInv'
  <2>1. CASE Dial(r)
    <3>1. r \notin holds  BY <2>1, <1>2 DEF Dial, IInv, AnswerInv, AnswerAt, SlotInv, SlotAt
    <3>. QED  BY <2>1, <3>1, SlotMove DEF Dial
  <2>2. CASE ~Dial(r)
    <3>1. /\ r \notin holds /\ UNCHANGED <<kind, wake, free, holds, sendOver>>
          /\ \E p \in {"closed", "accepted", "decode"} : pc' = [pc EXCEPT ![r] = p]
      BY <1>2, <2>2 DEF Reset, Accept, Serve, DecodeFails, SlotInv, SlotAt
    <3>. QED  BY <3>1, SlotMove
  <2>. QED  BY <2>1, <2>2
<1>3. ASSUME NEW r \in Requests, Decode(r) PROVE SlotInv'
  <2>1. PICK p \in {"queue", "refused", "run"} :
          pc' = [pc EXCEPT ![r] = p] /\ (p = "run" => kind[r] \in {"direct", "appState"})
    BY <1>3 DEF Decode, Refuse, Start
  <2>2. r \notin holds /\ UNCHANGED <<kind, wake, free, holds, sendOver>>
    BY <1>3 DEF Decode, SlotInv, SlotAt
  <2>3. p = "run" => ~Queues(r)  BY <2>1 DEF Queues, Slots, Bulk
  <2>. QED  BY <2>1, <2>2, <2>3, SlotMove
<1>4. ASSUME NEW r \in Requests, QueueRefuse(r) \/ SlotRefuse(r) \/ SlotStart(r) PROVE SlotInv'
  <2>1. PICK p \in {"refused", "run"} :
          /\ pc' = [pc EXCEPT ![r] = p] /\ (p = "run" => pc[r] = "slot")
          /\ UNCHANGED <<kind, wake, free, holds, sendOver>>
    BY <1>4 DEF QueueRefuse, SlotRefuse, SlotStart, Refuse, Start
  <2>2. p = "run" => r \in holds  BY <2>1 DEF SlotInv, SlotAt
  <2>. QED  BY <2>1, <2>2, SlotMove
<1>5. ASSUME NEW r \in Requests, SlotPace(r) PROVE SlotInv'
  <2>1. PICK gap \in MinGap .. MaxGap : wake' = [wake EXCEPT ![r] = lastEnd + gap]
    BY <1>5 DEF SlotPace
  <2>2. /\ pc[r] = "slot" /\ pc' = [pc EXCEPT ![r] = "pace"] /\ UNCHANGED <<kind, free, holds, sendOver>>
        /\ kind[r] = "send" /\ MaxGap > 0 /\ lastEnd # -1
    BY <1>5 DEF SlotPace, Paced
  <2>3. r \in holds /\ lastEnd = sendOver  BY <2>2 DEF SlotInv, SlotAt, GapInv
  <2>4. lastEnd \in Clock  BY <2>2, ClockFacts DEF TypeOK
  <2>5. lastEnd + gap >= lastEnd + MinGap /\ lastEnd + gap \in Nat
    BY <2>4, ClockFacts, TimesAssumption
  <2>6. wake'[r] = lastEnd + gap /\ \A q \in Requests \ {r} : wake'[q] = wake[q]
    BY <2>1 DEF TypeOK
  <2>7. wake'[r] >= sendOver + MinGap /\ sendOver # -1  BY <2>2, <2>3, <2>5, <2>6
  <2>. QED  BY <2>2, <2>3, <2>6, <2>7, SlotMove
<1>6. ASSUME NEW r \in Requests, PaceEnds(r) PROVE SlotInv'
  <2>1. PICK p \in {"refused", "run"} :
          /\ pc[r] = "pace" /\ pc' = [pc EXCEPT ![r] = p]
          /\ UNCHANGED <<kind, free, holds, sendOver>> /\ wake' = [wake EXCEPT ![r] = 0]
    BY <1>6 DEF PaceEnds, Refuse, Start
  <2>2. r \in holds  BY <2>1 DEF SlotInv, SlotAt
  <2>3. \A q \in Requests \ {r} : wake'[q] = wake[q]  BY <2>1 DEF TypeOK
  <2>. QED  BY <2>1, <2>2, <2>3, SlotMove
<1>7. ASSUME NEW r \in Requests, RunEnds(r) PROVE SlotInv'
  <2>1. /\ pc[r] = "run" /\ pc' = [pc EXCEPT ![r] = "reply"] /\ UNCHANGED <<kind, wake, free, holds>>
        /\ sendOver' = IF kind[r] = "send" THEN now ELSE sendOver
    BY <1>7 DEF RunEnds
  <2>2. CASE kind[r] # "send"  BY <2>1, <2>2, SlotMove
  <2>3. CASE kind[r] = "send"
    <3>1. r \in holds  BY <2>1, <2>3 DEF SlotInv, SlotAt, Queues, Slots, TypeOK
    <3>2. \A q \in Requests : pc[q] # "pace"
      BY <2>1, <2>3, <3>1 DEF SlotInv, SlotAt, SlotsKept
    <3>3. SlotsKept'  BY <2>1 DEF SlotInv, SlotsKept
    <3>4. ASSUME NEW q \in Requests PROVE SlotAt(q)'
      BY <2>1, <3>2 DEF SlotInv, SlotAt, Queues, TypeOK
    <3>. QED  BY <3>3, <3>4 DEF SlotInv
  <2>. QED  BY <2>2, <2>3
<1>8. \/ UNCHANGED <<kind, pc, wake, free, holds, sendOver>>
      \/ \E r \in Requests :
           \/ Dial(r) \/ Reset(r) \/ Accept(r) \/ Serve(r) \/ Decode(r) \/ DecodeFails(r)
           \/ QueueRefuse(r) \/ QueueTake(r) \/ SlotRefuse(r) \/ SlotPace(r) \/ SlotStart(r)
           \/ PaceEnds(r) \/ Answer(r) \/ RunEnds(r)
  BY DEF Next, Command, Server, Handler, Stopping, Tick, ClientTimesOut, HangUp, TimerFires, PeerGone,
         SyncEnds, StopClose, StopWait, StopReturns, vars
<1>. QED
  BY <1>1, <1>2, <1>3, <1>4, <1>5, <1>6, <1>7, <1>8, SlotTaken, SlotGiven

\* The pacer remembers the end of every send.
LEMMA GapStep ==
  ASSUME IInv, [Next]_vars
  PROVE  GapInv'
<1>. GapInv  BY DEF IInv
<1>. USE DEF clientVars, handlerVars, historyVars, slotVars, stopVars, GapInv
<1>1. ASSUME NEW r \in Requests, RunEnds(r) PROVE GapInv'
  BY <1>1 DEF RunEnds, Records
<1>2. CASE UNCHANGED <<lastEnd, sendOver>>
  BY <1>2
<1>3. UNCHANGED <<lastEnd, sendOver>> \/ \E r \in Requests : RunEnds(r)
  BY DEF Next, Command, Server, Handler, Stopping, Tick, Dial, ClientTimesOut, HangUp, Reset, Accept, Serve,
         Decode, DecodeFails, TimerFires, PeerGone, QueueRefuse, QueueTake, SlotRefuse, SlotPace, SlotStart,
         PaceEnds, Answer, SyncEnds, StopClose, StopWait, StopReturns, vars
<1>. QED  BY <1>1, <1>2, <1>3

-----------------------------------------------------------------------------
(* The wait group. *)

LEMMA SameHandlers ==
  ASSUME CountInv, UNCHANGED handlers, Handlers' = Handlers,
         stop' \in {"draining", "drained", "expired"} => LoopIdle',
         stop' = "drained" => stop = "drained" \/ handlers = 0
  PROVE  CountInv'
<1>1. handlers = 0 => Handlers = {}  BY FS_EmptySet DEF CountInv
<1>. QED  BY <1>1 DEF CountInv

LEMMA CountStep ==
  ASSUME IInv, [Next]_vars
  PROVE  CountInv'
<1>. TypeOK /\ CountInv  BY DEF IInv
<1>. USE DEF clientVars, handlerVars, historyVars, slotVars, stopVars
<1>1. CASE UNCHANGED <<pc, handlers, stop>>
  <2>1. Handlers' = Handlers  BY <1>1 DEF Handlers, Active
  <2>2. LoopIdle => LoopIdle'  BY <1>1 DEF LoopIdle
  <2>. QED  BY <1>1, <2>1, <2>2, SameHandlers DEF CountInv
<1>2. ASSUME NEW r \in Requests, Dial(r) \/ Reset(r) \/ Accept(r) PROVE CountInv'
  <2>1. /\ \E p \in {"dialed", "closed", "accepted"} : pc' = [pc EXCEPT ![r] = p] /\ (p = "accepted" => stop = "none")
        /\ ~Active(r) /\ UNCHANGED <<handlers, stop>>
    BY <1>2 DEF Dial, Reset, Accept, IInv, AnswerInv, AnswerAt, Active
  <2>2. Handlers' = Handlers  BY <2>1 DEF Handlers, Active, TypeOK
  <2>3. stop # "none" /\ LoopIdle => LoopIdle'  BY <2>1 DEF LoopIdle, TypeOK
  <2>. QED  BY <2>1, <2>2, <2>3, SameHandlers DEF CountInv
<1>3. ASSUME NEW r \in Requests, Serve(r) PROVE CountInv'
  <2>1. /\ pc[r] = "accepted" /\ pc' = [pc EXCEPT ![r] = "decode"]
        /\ handlers' = handlers + 1 /\ UNCHANGED stop
    BY <1>3 DEF Serve
  <2>2. ~LoopIdle  BY <2>1 DEF LoopIdle
  <2>3. r \notin Handlers /\ Handlers' = Handlers \cup {r}
    BY <2>1 DEF Handlers, Active, TypeOK
  <2>4. IsFiniteSet(Handlers') /\ Cardinality(Handlers') = Cardinality(Handlers) + 1
    BY <2>3, FS_AddElement DEF CountInv
  <2>. QED  BY <2>1, <2>2, <2>4 DEF CountInv
<1>4. ASSUME NEW r \in Requests, DecodeFails(r) \/ Answer(r) PROVE CountInv'
  <2>1. /\ Active(r) /\ pc' = [pc EXCEPT ![r] = "closed"]
        /\ handlers' = handlers - 1 /\ UNCHANGED stop
    BY <1>4 DEF DecodeFails, Answer, Active
  <2>2. Handlers' = Handlers \ {r}  BY <2>1 DEF Handlers, Active, TypeOK
  <2>3. LoopIdle => LoopIdle'  BY <2>1 DEF LoopIdle, TypeOK
  <2>. QED  BY <2>1, <2>2, <2>3, SomeHandler DEF CountInv
<1>5. ASSUME NEW r \in Requests,
             \/ Decode(r) \/ QueueRefuse(r) \/ QueueTake(r) \/ SlotRefuse(r) \/ SlotPace(r) \/ SlotStart(r)
             \/ PaceEnds(r) \/ RunEnds(r)
      PROVE CountInv'
  <2>1. /\ Active(r) /\ UNCHANGED <<handlers, stop>>
        /\ \E p \in {"queue", "slot", "pace", "run", "refused", "reply"} : pc' = [pc EXCEPT ![r] = p]
    BY <1>5 DEF Decode, QueueRefuse, QueueTake, SlotRefuse, SlotPace, SlotStart, PaceEnds, RunEnds, Refuse,
                Start, Active
  <2>2. Handlers' = Handlers  BY <2>1 DEF Handlers, Active, TypeOK
  <2>3. LoopIdle => LoopIdle'  BY <2>1 DEF LoopIdle, TypeOK
  <2>. QED  BY <2>1, <2>2, <2>3, SameHandlers DEF CountInv
<1>6. CASE StopClose \/ StopWait \/ StopReturns
  <2>1. UNCHANGED <<pc, handlers>>  BY <1>6 DEF StopClose, StopWait, StopReturns
  <2>2. Handlers' = Handlers  BY <2>1 DEF Handlers, Active
  <2>3. stop' \in {"draining", "drained", "expired"} => LoopIdle'
    BY <1>6, <2>1 DEF StopClose, StopWait, StopReturns, LoopEnded, LoopIdle, CountInv
  <2>4. stop' = "drained" => handlers = 0  BY <1>6 DEF StopClose, StopWait, StopReturns
  <2>. QED  BY <2>1, <2>2, <2>3, <2>4, SameHandlers
<1>7. \/ UNCHANGED <<pc, handlers, stop>> \/ StopClose \/ StopWait \/ StopReturns
      \/ \E r \in Requests :
           \/ Dial(r) \/ Reset(r) \/ Accept(r) \/ Serve(r) \/ Decode(r) \/ DecodeFails(r)
           \/ QueueRefuse(r) \/ QueueTake(r) \/ SlotRefuse(r) \/ SlotPace(r) \/ SlotStart(r)
           \/ PaceEnds(r) \/ Answer(r) \/ RunEnds(r)
  BY DEF Next, Command, Server, Handler, Stopping, Tick, ClientTimesOut, HangUp, TimerFires, PeerGone,
         SyncEnds, vars
<1>. QED
  BY <1>1, <1>2, <1>3, <1>4, <1>5, <1>6, <1>7

-----------------------------------------------------------------------------
LEMMA StepInv == ASSUME IInv, [Next]_vars PROVE IInv'
BY TypeStep, AnswerStep, TimeStep, LiveStep, SlotStep, GapStep, CountStep DEF IInv

\* The inductive invariant holds in every reachable state.
THEOREM Invariance == Spec => []IInv
<1>1. IInv /\ [Next]_vars => IInv'  BY StepInv
<1>. QED  BY InitInv, <1>1, PTL DEF Spec

\* The variables keep their types; the wait group is never negative.
THEOREM TypeCorrect == Spec => []TypeOK
<1>1. IInv => TypeOK  BY DEF IInv
<1>. QED  BY <1>1, Invariance, PTL

\* No token is lost or taken twice; "not sent" is final, and a command that left
\* enough time and got no answer has had its request started.
THEOREM RequestsAreKnownAlways == Spec => []RequestsAreKnown
<1>1. ASSUME IInv PROVE RequestsAreKnown
  <2>1. SlotsKept  BY <1>1 DEF IInv, SlotInv
  <2>2. CommandsKnow  BY <1>1 DEF IInv, AnswerInv, AnswerAt, TimeInv, TimeAt, CommandsKnow
  <2>. QED  BY <2>1, <2>2 DEF RequestsAreKnown
<1>. QED  BY <1>1, Invariance, PTL

\* A stop that returned before its grace was over left no handler behind, and none
\* on its way from the accept loop.
THEOREM StopsQuietly == Spec => []StopIsQuiet
<1>1. ASSUME IInv PROVE StopIsQuiet
  BY <1>1 DEF IInv, CountInv, StopIsQuiet, Handlers, LoopIdle
<1>. QED  BY <1>1, Invariance, PTL

\* The steps that start a request, and what each has looked at.
LEMMA StartSteps ==
  ASSUME IInv, [Next]_vars, NEW r \in Requests, Starts(r)
  PROVE  /\ pc[r] \in {"decode", "slot", "pace"}
         /\ pc[r] = "decode" => kind[r] = "direct" \/ (kind[r] = "appState" /\ syncing /\ now < Due(r))
         /\ pc[r] = "slot" => MayStart(r) /\ ~Paced(r)
         /\ pc[r] = "pace" => InTime(r) /\ (now >= wake[r] \/ ~live[r])
<1>. TypeOK  BY DEF IInv
<1>. USE DEF clientVars, handlerVars, historyVars, slotVars, stopVars
<1>1. PICK q \in Requests : Decode(q) \/ SlotStart(q) \/ PaceEnds(q)
  <2>1. CASE UNCHANGED pc  BY <2>1 DEF Starts
  <2>2. CASE \E q \in Requests, p \in {"dialed", "accepted", "decode", "queue", "slot", "pace", "refused", "reply", "closed"} :
               pc' = [pc EXCEPT ![q] = p]
    BY <2>2 DEF Starts, TypeOK
  <2>3. \/ UNCHANGED pc
        \/ \E q \in Requests : Dial(q) \/ Reset(q) \/ Accept(q) \/ Serve(q) \/ DecodeFails(q) \/ QueueRefuse(q)
                               \/ QueueTake(q) \/ SlotRefuse(q) \/ SlotPace(q) \/ RunEnds(q) \/ Answer(q)
        \/ \E q \in Requests : Decode(q) \/ SlotStart(q) \/ PaceEnds(q)
    BY DEF Next, Command, Server, Handler, Stopping, Tick, ClientTimesOut, HangUp, TimerFires, PeerGone,
           SyncEnds, StopClose, StopWait, StopReturns, vars
  <2>. QED
    BY <2>1, <2>2, <2>3
    DEF Dial, Reset, Accept, Serve, DecodeFails, QueueRefuse, QueueTake, SlotRefuse, SlotPace, RunEnds, Answer, Refuse
<1>2. CASE Decode(q)
  <2>1. \E p \in {"queue", "refused", "run"} : pc' = [pc EXCEPT ![q] = p]
    BY <1>2 DEF Decode, Refuse, Start
  <2>2. r = q /\ pc[r] = "decode"  BY <1>2, <2>1 DEF Starts, Decode, TypeOK
  <2>3. pc'[r] = "run" => kind[r] = "direct" \/ (kind[r] = "appState" /\ live'[r])
    BY <1>2, <2>2 DEF Decode, Refuse, TypeOK
  <2>4. live'[r] = (syncing /\ now < Due(r))  BY <1>2, <2>2 DEF Decode, TypeOK
  <2>. QED  BY <2>2, <2>3, <2>4 DEF Starts
<1>3. CASE SlotStart(q)
  BY <1>3 DEF SlotStart, Start, Starts, TypeOK
<1>4. CASE PaceEnds(q)
  <2>1. \E p \in {"refused", "run"} : pc' = [pc EXCEPT ![q] = p]
    BY <1>4 DEF PaceEnds, Refuse, Start
  <2>2. r = q /\ pc[r] = "pace"  BY <1>4, <2>1 DEF Starts, PaceEnds, TypeOK
  <2>3. pc'[r] = "run" => InTime(r)  BY <1>4, <2>2 DEF PaceEnds, Refuse, TypeOK
  <2>. QED  BY <1>4, <2>2, <2>3 DEF Starts, PaceEnds
<1>. QED  BY <1>1, <1>2, <1>3, <1>4

\* What starts was still wanted: nothing that queues is started after its caller gave
\* up or the sync ended.
LEMMA StartInTime ==
  ASSUME IInv, [Next]_vars
  PROVE  AllInTime
<1>. TypeOK /\ AnswerInv /\ TimeInv /\ LiveInv /\ SlotInv  BY DEF IInv
<1>. SUFFICES ASSUME NEW r \in Requests, Starts(r), kind[r] # "direct"
              PROVE  /\ syncing
                     /\ (kind[r] \in Bulk /\ ~Covered(r)) \/ client[r] # "timedOut"
  BY DEF AllInTime
<1>1. client[r] = "timedOut" => now >= giveUp[r] /\ (Covered(r) => r \in ran)
  BY DEF TimeInv, TimeAt
<1>2. CASE pc[r] = "decode"
  <2>1. syncing /\ now < Due(r)  BY <1>2, StartSteps
  <2>. QED  BY <1>1, <2>1, DueFacts, Types, ClockFacts
<1>3. CASE pc[r] \in {"slot", "pace"}
  <2>1. live[r] /\ (kind[r] = "send" => now < due[r])
    BY <1>3, StartSteps DEF InTime, MayStart, SlotInv, SlotAt
  <2>2. syncing  BY <1>3, <2>1 DEF LiveInv, Active
  <2>3. kind[r] \in Bulk \cup {"send"}
    BY <1>3 DEF SlotInv, SlotAt, Queues, Slots
  <2>4. r \notin ran  BY <1>3 DEF AnswerInv, AnswerAt
  <2>5. due[r] <= giveUp[r]  BY <1>3 DEF TimeInv, TimeAt, Waiting
  <2>6. kind[r] = "send" => client[r] # "timedOut"  BY <1>1, <2>1, <2>5, Types
  <2>. QED  BY <1>1, <2>2, <2>3, <2>4, <2>6
<1>. QED  BY <1>2, <1>3, StartSteps

\* Sends keep their distance.
LEMMA StartSpaced ==
  ASSUME IInv, [Next]_vars
  PROVE  AllSpaced
<1>. TypeOK /\ SlotInv /\ GapInv  BY DEF IInv
<1>. SUFFICES ASSUME NEW r \in Requests, Starts(r), kind[r] = "send"
              PROVE  /\ \A q \in Requests : kind[q] = "send" => pc[q] # "run"
                     /\ MaxGap > 0 /\ sendOver # -1 => now >= sendOver + MinGap
  BY DEF AllSpaced
<1>1. pc[r] \in {"slot", "pace"}  BY StartSteps
<1>2. r \in holds  BY <1>1 DEF SlotInv, SlotAt
<1>3. ASSUME NEW q \in Requests, kind[q] = "send", pc[q] = "run" PROVE FALSE
  <2>1. "send" \in Kinds  BY DEF TypeOK
  <2>2. q \in holds  BY <1>3, <2>1 DEF SlotInv, SlotAt, Queues, Slots
  <2>3. q = r  BY <1>2, <1>3, <2>2 DEF SlotInv, SlotsKept
  <2>. QED  BY <1>1, <1>3, <2>3
<1>4. CASE pc[r] = "slot"
  <2>1. ~Paced(r)  BY <1>4, StartSteps
  <2>. QED  BY <1>3, <2>1 DEF Paced, GapInv
<1>5. CASE pc[r] = "pace"
  <2>1. now >= wake[r]  BY <1>5, StartSteps DEF InTime
  <2>2. wake[r] >= sendOver + MinGap  BY <1>5 DEF SlotInv, SlotAt
  <2>3. now \in Nat /\ wake[r] \in Nat /\ sendOver \in Int /\ MinGap \in Nat
    BY Types, ClockFacts, TimesAssumption DEF TypeOK
  <2>. QED  BY <1>3, <2>1, <2>2, <2>3
<1>. QED  BY <1>1, <1>4, <1>5

\* What starts was still wanted: nothing that queues is started after its caller gave
\* up or the sync ended, and sends keep their distance.
THEOREM StartsAreDueAlways == Spec => StartsAreDue
<1>1. IInv /\ [Next]_vars => [AllInTime /\ AllSpaced]_vars  BY StartInTime, StartSpaced
<1>. QED  BY <1>1, Invariance, PTL DEF StartsAreDue, Spec
=============================================================================
