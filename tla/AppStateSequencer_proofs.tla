---------------------- MODULE AppStateSequencer_proofs ----------------------
(***************************************************************************)
(* The sequencer keeps its promises for every number of tickets and every  *)
(* mix of holders, and it implements OrderedWrites.                        *)
(***************************************************************************)
EXTENDS AppStateSequencer, FiniteSetTheorems, TLAPS

\* One drain at a time; it works on the ticket being served.
SoleDrain ==
  /\ running => \E d : drains = {d}
  /\ ~running => drains = {}
Works(d) ==
  d.at # "loop" => d.task = serving /\ serving < next /\ Ready(serving) /\ serving <= d.until
DrainInv == SoleDrain /\ \A d \in drains : Works(d)

\* The map holds the tickets being served and those behind it.
QueueInv ==
  /\ serving <= next
  /\ \A t \in Tickets :
       /\ task[t] = "absent" <=> t < serving \/ t >= next
       /\ task[t] = "reserved" <=> pc[t] = "held"
       /\ pc[t] = "none" <=> t >= next

\* What ran is what was served, and the task a drain has just run.
LogInv ==
  /\ Len(ran) = IF \E d \in drains : d.at = "ran" THEN serving + 1 ELSE serving
  /\ InOrder

\* What the holders wait for.
WaitAt(t) ==
  /\ pc[t] = "none" => arrived[t] = {}
  /\ pc[t] = "held" => \A u \in arrived[t] : u < next /\ \A v \in t + 1 .. u : BlocksEarlier(v)
  /\ pc[t] \in {"wait", "asleep"} =>
       Waits(t) /\ t <= frontier[t] /\ \A u \in arrived[t] : u <= frontier[t]
  /\ pc[t] = "done" /\ Waits(t) => t < serving /\ \A u \in arrived[t] : u < serving
WaitInv == \A t \in Tickets : WaitAt(t)

CloseInv == closer = "closed" => serving = next

IInv == TypeOK /\ DrainInv /\ QueueInv /\ LogInv /\ NoStall /\ WaitInv /\ CloseInv

-----------------------------------------------------------------------------
(* Types. *)

LEMMA InitInv == Init => IInv
<1>. SUFFICES ASSUME Init PROVE IInv  OBVIOUS
<1>. USE MaxTicketsAssumption DEF Init
<1>1. TypeOK
  <2>1. drains \subseteq Drains /\ ran \in Seq(Tickets)  OBVIOUS
  <2>2. next \in 0 .. MaxTickets /\ serving \in 0 .. MaxTickets  OBVIOUS
  <2>. QED  BY <2>1, <2>2 DEF TypeOK
<1>2. DrainInv  BY DEF DrainInv, SoleDrain
<1>3. QueueInv  BY DEF QueueInv, Tickets
<1>4. LogInv  BY DEF LogInv, InOrder
<1>5. NoStall  BY DEF NoStall
<1>6. WaitInv  BY DEF WaitInv, WaitAt
<1>7. CloseInv  BY DEF CloseInv
<1>. QED  BY <1>1, <1>2, <1>3, <1>4, <1>5, <1>6, <1>7 DEF IInv

LEMMA TypeStep ==
  ASSUME IInv, [Next]_vars
  PROVE  TypeOK'
<1>. USE MaxTicketsAssumption, KindsAssumption
<1>. TypeOK /\ DrainInv /\ QueueInv  BY DEF IInv
<1>1. ASSUME NEW k \in Kinds, Reserve(k) PROVE TypeOK'
  <2>1. next \in Tickets  BY <1>1 DEF Reserve, TypeOK, Tickets
  <2>2. arrived' \in [Tickets -> SUBSET Tickets]
    BY <1>1, <2>1 DEF Reserve, TypeOK
  <2>. QED  BY <1>1, <2>1, <2>2 DEF Reserve, TypeOK, closeVars
<1>2. ASSUME NEW t \in Tickets, Complete(t) PROVE TypeOK'
  <2>1. frontier' \in [Tickets -> Tickets \cup {0}]  BY <1>2 DEF Complete, TypeOK
  <2>2. drains' \subseteq Drains
    BY <1>2 DEF Complete, TypeOK, Drains, HandedOff, closeVars
  <2>. QED  BY <1>2, <2>1, <2>2 DEF Complete, TypeOK, closeVars
<1>3. ASSUME NEW d \in drains, DrainEnd(d) PROVE TypeOK'
  <2>1. CASE HandsOff
    <3>1. serving \in Tickets  BY <2>1 DEF HandsOff, TypeOK, Tickets
    <3>2. HandOffFrontier \in Tickets  BY <2>1 DEF HandsOff, HandOffFrontier, TypeOK, Tickets
    <3>3. [by |-> HandedOff, at |-> "loop", task |-> serving, until |-> HandOffFrontier] \in Drains
      BY <3>1, <3>2 DEF Drains
    <3>4. drains' \subseteq Drains  BY <1>3, <2>1, <3>3 DEF DrainEnd, TypeOK
    <3>. QED  BY <1>3, <2>1, <3>4 DEF DrainEnd, TypeOK, holderVars, closeVars
  <2>2. CASE ~HandsOff
    BY <1>3, <2>2 DEF DrainEnd, HandsOff, TypeOK, holderVars, closeVars
  <2>. QED  BY <2>1, <2>2
<1>4. ASSUME NEW d \in drains, DrainStop(d) PROVE TypeOK'
  BY <1>4 DEF DrainStop, TypeOK, holderVars, closeVars
<1>5. ASSUME NEW d \in drains, DrainTake(d) PROVE TypeOK'
  <2>1. d \in Drains  BY DEF TypeOK
  <2>2. serving \in Tickets  BY <1>5, <2>1 DEF DrainTake, TypeOK, Drains, Tickets
  <2>3. Moved(d, "run", serving) \in Drains  BY <2>1, <2>2 DEF Drains, Moved
  <2>4. drains' \subseteq Drains  BY <1>5, <2>3 DEF DrainTake, TypeOK
  <2>. QED  BY <1>5, <2>4 DEF DrainTake, TypeOK, holderVars, closeVars
<1>6. ASSUME NEW d \in drains, DrainRun(d) PROVE TypeOK'
  <2>1. d \in Drains  BY DEF TypeOK
  <2>2. Moved(d, "ran", d.task) \in Drains  BY <2>1 DEF Drains, Moved
  <2>3. drains' \subseteq Drains  BY <1>6, <2>2 DEF DrainRun, TypeOK
  <2>4. ran' \in Seq(Tickets)  BY <1>6, <2>1 DEF DrainRun, TypeOK, Drains
  <2>. QED  BY <1>6, <2>3, <2>4 DEF DrainRun, TypeOK, holderVars, closeVars
<1>7. ASSUME NEW d \in drains, DrainAdvance(d) PROVE TypeOK'
  <2>1. d \in Drains  BY DEF TypeOK
  <2>2. Moved(d, "loop", d.task) \in Drains  BY <2>1 DEF Drains, Moved
  <2>3. drains' \subseteq Drains  BY <1>7, <2>2 DEF DrainAdvance, TypeOK
  <2>4. serving < next  BY <1>7 DEF DrainAdvance, DrainInv, Works
  <2>5. serving' \in 0 .. MaxTickets /\ changed' \in Nat
    <3>1. serving' = serving + 1 /\ changed' = changed + 1  BY <1>7 DEF DrainAdvance, WakesSleepers
    <3>. QED  BY <2>4, <3>1 DEF TypeOK
  <2>6. task' \in [Tickets -> {"absent", "reserved", "ready"}]  BY <1>7 DEF DrainAdvance, TypeOK
  <2>. QED  BY <1>7, <2>3, <2>5, <2>6 DEF DrainAdvance, TypeOK, holderVars, closeVars
<1>8. ASSUME NEW t \in Tickets, WaitLook(t) PROVE TypeOK'
  <2>1. CASE Leave(t, "done")
    BY <1>8, <2>1 DEF WaitLook, Leave, TypeOK, queueVars, closeVars
  <2>2. CASE /\ pc' = [pc EXCEPT ![t] = "asleep"]
             /\ seen' = [seen EXCEPT ![t] = changed]
             /\ UNCHANGED frontier
    BY <1>8, <2>2 DEF WaitLook, TypeOK, queueVars, closeVars
  <2>. QED  BY <1>8, <2>1, <2>2 DEF WaitLook
<1>9. ASSUME NEW t \in Tickets, WaitWake(t) PROVE TypeOK'
  BY <1>9 DEF WaitWake, TypeOK, queueVars, closeVars
<1>10. ASSUME NEW t \in Tickets, WaitCancel(t) PROVE TypeOK'
  BY <1>10 DEF WaitCancel, Leave, TypeOK, queueVars, closeVars
<1>11. CASE CloseBegin \/ CloseLook \/ CloseWake
  BY <1>11 DEF CloseBegin, CloseLook, CloseWake, TypeOK, queueVars, holderVars
<1>12. CASE UNCHANGED vars
  BY <1>12 DEF vars, TypeOK, queueVars, holderVars, closeVars
<1>. QED
  BY <1>1, <1>2, <1>3, <1>4, <1>5, <1>6, <1>7, <1>8, <1>9, <1>10, <1>11, <1>12
  DEF Next, Holder, DrainStep

-----------------------------------------------------------------------------
(* The queue and its one drain. *)

\* A drain that exists is the only one, and `running` tells.
LEMMA TheDrain ==
  ASSUME DrainInv, NEW d \in drains
  PROVE  drains = {d} /\ running
BY DEF DrainInv, SoleDrain

LEMMA NextDrain ==
  ASSUME NEW e, drains' = {e}, running', Works(e)'
  PROVE  DrainInv'
<1>1. SoleDrain'  BY Zenon DEF SoleDrain
<1>. QED  BY <1>1 DEF DrainInv

LEMMA NoDrain ==
  ASSUME drains' = {}, ~running'
  PROVE  DrainInv'
<1>1. SoleDrain'  BY Zenon DEF SoleDrain
<1>. QED  BY <1>1 DEF DrainInv

LEMMA SameDrain ==
  ASSUME DrainInv, UNCHANGED <<running, drains>>, \A d \in drains : Works(d) => Works(d)'
  PROVE  DrainInv'
<1>1. SoleDrain'  BY Zenon DEF SoleDrain, DrainInv
<1>. QED  BY <1>1 DEF DrainInv

\* Holders that wait and App.Close leave the queue alone.
LEMMA QuietQueue ==
  ASSUME \/ \E t \in Tickets : WaitLook(t) \/ WaitWake(t) \/ WaitCancel(t)
         \/ CloseBegin \/ CloseLook \/ CloseWake
         \/ UNCHANGED vars
  PROVE  UNCHANGED <<next, serving, running, task, drains, kind, ran, arrived>>
BY DEF WaitLook, WaitWake, WaitCancel, CloseBegin, CloseLook, CloseWake, vars, queueVars, holderVars

LEMMA DrainStepInv ==
  ASSUME IInv, [Next]_vars
  PROVE  DrainInv'
<1>. TypeOK /\ DrainInv /\ QueueInv  BY DEF IInv
<1>. USE MaxTicketsAssumption
<1>1. ASSUME NEW k \in Kinds, Reserve(k) PROVE DrainInv'
  <2>1. UNCHANGED <<serving, running, drains>> /\ next' = next + 1
        /\ task' = [task EXCEPT ![next] = "reserved"]
    BY <1>1 DEF Reserve
  <2>2. ASSUME NEW d \in drains, Works(d) PROVE Works(d)'
    <3>1. CASE d.at = "loop"  BY <3>1 DEF Works
    <3>2. CASE d.at # "loop"
      <4>1. d.task = serving /\ serving < next /\ Ready(serving) /\ serving <= d.until
        BY <2>2, <3>2 DEF Works
      <4>2. Ready(serving)'  BY <2>1, <4>1 DEF Ready, TypeOK, Tickets
      <4>. QED  BY <2>1, <4>1, <4>2 DEF Works, TypeOK
    <3>. QED  BY <3>1, <3>2
  <2>. QED  BY <2>1, <2>2, SameDrain
<1>2. ASSUME NEW t \in Tickets, Complete(t) PROVE DrainInv'
  <2>1. UNCHANGED <<serving, next>> /\ task' = [task EXCEPT ![t] = "ready"]
    BY <1>2 DEF Complete
  <2>2. CASE StartsDrain(t)
    <3>1. PICK w \in Tickets : drains' = drains \cup {[by |-> t, at |-> "loop", task |-> t, until |-> w]}
      BY <1>2, <2>2 DEF Complete
    <3>2. drains = {} /\ running'  BY <1>2, <2>2 DEF Complete, StartsDrain, DrainInv, SoleDrain
    <3>. DEFINE e == [by |-> t, at |-> "loop", task |-> t, until |-> w]
    <3>3. drains' = {e}  BY <3>1, <3>2
    <3>4. Works(e)'  BY DEF Works
    <3>. QED  BY <3>2, <3>3, <3>4, NextDrain
  <2>3. CASE ~StartsDrain(t)
    <3>1. UNCHANGED <<running, drains>>  BY <1>2, <2>3 DEF Complete
    <3>2. \A u \in Tickets : Ready(u) => Ready(u)'  BY <2>1 DEF Ready, TypeOK
    <3>3. ASSUME NEW d \in drains, Works(d) PROVE Works(d)'
      BY <2>1, <3>2, <3>3 DEF Works, TypeOK, Tickets
    <3>. QED  BY <3>1, <3>3, SameDrain
  <2>. QED  BY <2>2, <2>3
<1>3. ASSUME NEW d \in drains, DrainEnd(d) PROVE DrainInv'
  <2>1. drains = {d}  BY TheDrain
  <2>2. CASE HandsOff
    <3>0. PICK e : e = [by |-> HandedOff, at |-> "loop", task |-> serving, until |-> HandOffFrontier]
      OBVIOUS
    <3>1. running' /\ drains' = {e}  BY <1>3, <2>1, <2>2, <3>0 DEF DrainEnd, HandsOff
    <3>2. Works(e)'  BY <3>0 DEF Works
    <3>. QED  BY <3>1, <3>2, NextDrain
  <2>3. CASE ~HandsOff
    <3>1. ~running' /\ drains' = {}  BY <1>3, <2>1, <2>3 DEF DrainEnd, HandsOff
    <3>. QED  BY <3>1, NoDrain
  <2>. QED  BY <2>2, <2>3
<1>4. ASSUME NEW d \in drains, DrainStop(d) PROVE DrainInv'
  <2>1. ~running' /\ drains' = {}  BY <1>4, TheDrain DEF DrainStop
  <2>. QED  BY <2>1, NoDrain
<1>5. ASSUME NEW d \in drains, DrainTake(d) PROVE DrainInv'
  <2>0. PICK e : e = Moved(d, "run", serving)  OBVIOUS
  <2>1. drains' = {e} /\ running'  BY <1>5, <2>0, TheDrain DEF DrainTake
  <2>2. d \in Drains  BY DEF TypeOK
  <2>3. serving \in Tickets /\ serving < next
    BY <1>5, <2>2 DEF DrainTake, Drains, TypeOK, Tickets, QueueInv, Ready
  <2>4. Works(e)'  BY <1>5, <2>0, <2>3 DEF Works, Moved, DrainTake, Ready
  <2>. QED  BY <2>1, <2>4, NextDrain
<1>6. ASSUME NEW d \in drains, DrainRun(d) PROVE DrainInv'
  <2>1. drains' = {Moved(d, "ran", d.task)} /\ running'  BY <1>6, TheDrain DEF DrainRun
  <2>2. Works(d) /\ d.at # "loop"  BY <1>6 DEF DrainRun, DrainInv
  <2>3. Works(Moved(d, "ran", d.task))'  BY <1>6, <2>2 DEF DrainRun, Works, Moved, Ready
  <2>. QED  BY <2>1, <2>3, NextDrain
<1>7. ASSUME NEW d \in drains, DrainAdvance(d) PROVE DrainInv'
  <2>1. drains' = {Moved(d, "loop", d.task)} /\ running'  BY <1>7, TheDrain DEF DrainAdvance
  <2>2. Works(Moved(d, "loop", d.task))'  BY DEF Works, Moved
  <2>. QED  BY <2>1, <2>2, NextDrain
<1>8. ASSUME UNCHANGED <<next, serving, running, task, drains, kind, ran, arrived>> PROVE DrainInv'
  BY <1>8, SameDrain DEF Works, Ready
<1>. QED
  BY <1>1, <1>2, <1>3, <1>4, <1>5, <1>6, <1>7, <1>8, QuietQueue DEF Next, Holder, DrainStep

LEMMA QueueStepInv ==
  ASSUME IInv, [Next]_vars
  PROVE  QueueInv'
<1>. TypeOK /\ DrainInv /\ QueueInv  BY DEF IInv
<1>. USE MaxTicketsAssumption DEF Tickets
<1>1. ASSUME NEW k \in Kinds, Reserve(k) PROVE QueueInv'
  BY <1>1 DEF Reserve, TypeOK, QueueInv
<1>2. ASSUME NEW t \in Tickets, Complete(t) PROVE QueueInv'
  <2>1. UNCHANGED <<serving, next>> /\ task' = [task EXCEPT ![t] = "ready"]
        /\ pc[t] = "held" /\ \E s \in {"wait", "done"} : pc' = [pc EXCEPT ![t] = s]
    BY <1>2 DEF Complete
  <2>. QED  BY <2>1 DEF TypeOK, QueueInv
<1>3. ASSUME NEW d \in drains, DrainEnd(d) \/ DrainStop(d) \/ DrainTake(d) \/ DrainRun(d) PROVE QueueInv'
  BY <1>3 DEF DrainEnd, DrainStop, DrainTake, DrainRun, QueueInv, holderVars
<1>4. ASSUME NEW d \in drains, DrainAdvance(d) PROVE QueueInv'
  <2>1. serving < next /\ Ready(serving)  BY <1>4 DEF DrainAdvance, DrainInv, Works
  <2>. QED  BY <1>4, <2>1 DEF DrainAdvance, TypeOK, QueueInv, Ready, holderVars
<1>5. ASSUME NEW t \in Tickets, WaitLook(t) \/ WaitWake(t) \/ WaitCancel(t) PROVE QueueInv'
  <2>1. UNCHANGED <<next, serving, task>>
    BY <1>5 DEF WaitLook, WaitWake, WaitCancel, queueVars
  <2>2. pc[t] \in {"wait", "asleep"} /\ \E s \in {"wait", "asleep", "done", "cancelled"} : pc' = [pc EXCEPT ![t] = s]
    BY <1>5 DEF WaitLook, WaitWake, WaitCancel, Leave
  <2>. QED  BY <2>1, <2>2 DEF QueueInv, TypeOK
<1>6. CASE CloseBegin \/ CloseLook \/ CloseWake \/ UNCHANGED vars
  BY <1>6 DEF CloseBegin, CloseLook, CloseWake, vars, queueVars, holderVars, QueueInv
<1>. QED
  BY <1>1, <1>2, <1>3, <1>4, <1>5, <1>6 DEF Next, Holder, DrainStep

-----------------------------------------------------------------------------
(* What ran, and who has been told. *)

\* Steps in which no drain runs or finishes a task leave the log alone.
LEMMA SameLog ==
  ASSUME LogInv, UNCHANGED <<ran, serving>>,
         (\E d \in drains : d.at = "ran") <=> (\E d \in drains' : d.at = "ran")
  PROVE  LogInv'
BY DEF LogInv, InOrder

LEMMA LogStepInv ==
  ASSUME IInv, [Next]_vars
  PROVE  LogInv'
<1>. TypeOK /\ DrainInv /\ LogInv  BY DEF IInv
<1>1. ASSUME NEW k \in Kinds, Reserve(k) PROVE LogInv'
  BY <1>1, SameLog DEF Reserve
<1>2. ASSUME NEW t \in Tickets, Complete(t) PROVE LogInv'
  BY <1>2, SameLog DEF Complete
<1>3. ASSUME NEW d \in drains, DrainEnd(d) \/ DrainStop(d) \/ DrainTake(d) PROVE LogInv'
  <2>1. drains = {d} /\ d.at # "ran" /\ UNCHANGED <<ran, serving>>
    BY <1>3, TheDrain DEF DrainEnd, DrainStop, DrainTake
  <2>2. \A e \in drains' : e.at # "ran"
    BY <1>3, <2>1 DEF DrainEnd, DrainStop, DrainTake, Moved
  <2>. QED  BY <2>1, <2>2, SameLog
<1>4. ASSUME NEW d \in drains, DrainRun(d) PROVE LogInv'
  <2>1. drains = {d} /\ drains' = {Moved(d, "ran", d.task)} /\ serving' = serving
    BY <1>4, TheDrain DEF DrainRun
  <2>2. d.task = serving  BY <1>4 DEF DrainInv, Works, DrainRun
  <2>3. Len(ran) = serving  BY <1>4, <2>1 DEF LogInv, DrainRun
  <2>4. ran' = Append(ran, serving) /\ ran \in Seq(Tickets) /\ serving \in Nat
    BY <1>4, <2>2 DEF DrainRun, TypeOK
  <2>5. Len(ran') = serving + 1  BY <2>3, <2>4
  <2>6. ASSUME NEW i \in 1 .. Len(ran') PROVE ran'[i] = i - 1
    <3>1. CASE i \in 1 .. Len(ran)  BY <2>4, <3>1 DEF LogInv, InOrder
    <3>2. CASE i = Len(ran) + 1  BY <2>3, <2>4, <3>2
    <3>. QED  BY <2>3, <2>4, <2>5, <3>1, <3>2
  <2>7. \E e \in drains' : e.at = "ran"  BY <2>1 DEF Moved
  <2>. QED  BY <2>1, <2>5, <2>6, <2>7 DEF LogInv, InOrder
<1>5. ASSUME NEW d \in drains, DrainAdvance(d) PROVE LogInv'
  <2>1. drains' = {Moved(d, "loop", d.task)} /\ serving' = serving + 1 /\ ran' = ran
    BY <1>5, TheDrain DEF DrainAdvance
  <2>2. Len(ran) = serving + 1  BY <1>5 DEF LogInv, DrainAdvance
  <2>3. ~ \E e \in drains' : e.at = "ran"  BY <2>1 DEF Moved
  <2>. QED  BY <2>1, <2>2, <2>3 DEF LogInv, InOrder
<1>6. ASSUME UNCHANGED <<next, serving, running, task, drains, kind, ran, arrived>> PROVE LogInv'
  BY <1>6, SameLog
<1>. QED
  BY <1>1, <1>2, <1>3, <1>4, <1>5, <1>6, QuietQueue DEF Next, Holder, DrainStep

LEMMA StallStepInv ==
  ASSUME IInv, [Next]_vars
  PROVE  NoStall'
<1>. TypeOK /\ DrainInv /\ QueueInv /\ NoStall  BY DEF IInv
<1>. USE MaxTicketsAssumption
<1>1. ASSUME NEW k \in Kinds, Reserve(k) PROVE NoStall'
  <2>1. UNCHANGED <<serving, running>> /\ next' = next + 1 /\ task' = [task EXCEPT ![next] = "reserved"]
        /\ next < MaxTickets
    BY <1>1 DEF Reserve
  <2>2. Ready(serving)' => Ready(serving) /\ serving < next
    BY <2>1 DEF TypeOK, QueueInv, Ready, Tickets
  <2>. QED  BY <2>1, <2>2 DEF NoStall
<1>2. ASSUME NEW t \in Tickets, Complete(t) PROVE NoStall'
  <2>1. CASE StartsDrain(t)  BY <1>2, <2>1 DEF Complete, NoStall
  <2>2. CASE ~StartsDrain(t)
    <3>1. UNCHANGED <<running, serving, next>> /\ task' = [task EXCEPT ![t] = "ready"]
      BY <1>2, <2>2 DEF Complete
    <3>2. CASE t = serving
      <4>1. running  BY <2>2, <3>2 DEF StartsDrain
      <4>. QED  BY <3>1, <4>1 DEF NoStall
    <3>3. CASE t # serving
      <4>1. Ready(serving)' <=> Ready(serving)  BY <3>1, <3>3 DEF Ready, TypeOK
      <4>. QED  BY <3>1, <4>1 DEF NoStall
    <3>. QED  BY <3>2, <3>3
  <2>. QED  BY <2>1, <2>2
<1>3. ASSUME NEW d \in drains, DrainEnd(d) PROVE NoStall'
  BY <1>3 DEF DrainEnd, NoStall, HandsOff, Ready
<1>4. ASSUME NEW d \in drains, DrainStop(d) PROVE NoStall'
  BY <1>4 DEF DrainStop, NoStall, Ready
<1>5. ASSUME NEW d \in drains, DrainTake(d) \/ DrainRun(d) \/ DrainAdvance(d) PROVE NoStall'
  BY <1>5, TheDrain DEF DrainTake, DrainRun, DrainAdvance, NoStall
<1>6. ASSUME UNCHANGED <<next, serving, running, task, drains, kind, ran, arrived>> PROVE NoStall'
  BY <1>6 DEF NoStall, Ready
<1>. QED
  BY <1>1, <1>2, <1>3, <1>4, <1>5, <1>6, QuietQueue DEF Next, Holder, DrainStep

LEMMA CloseStepInv ==
  ASSUME IInv, [Next]_vars
  PROVE  CloseInv'
<1>. TypeOK /\ DrainInv /\ QueueInv /\ CloseInv  BY DEF IInv
<1>1. ASSUME NEW k \in Kinds, Reserve(k) PROVE CloseInv'
  BY <1>1 DEF Reserve, CloseInv, closeVars
<1>2. ASSUME NEW t \in Tickets, Holder(t) \/ WaitCancel(t) PROVE CloseInv'
  BY <1>2 DEF Holder, Complete, WaitLook, WaitWake, WaitCancel, CloseInv, closeVars, queueVars
<1>3. ASSUME NEW d \in drains, DrainEnd(d) \/ DrainStop(d) \/ DrainTake(d) \/ DrainRun(d) PROVE CloseInv'
  BY <1>3 DEF DrainEnd, DrainStop, DrainTake, DrainRun, CloseInv, closeVars
<1>4. ASSUME NEW d \in drains, DrainAdvance(d) PROVE CloseInv'
  <2>1. serving < next  BY <1>4 DEF DrainAdvance, DrainInv, Works
  <2>2. closer # "closed"  BY <2>1 DEF CloseInv, TypeOK
  <2>. QED  BY <1>4, <2>2 DEF DrainAdvance, CloseInv, closeVars
<1>5. CASE CloseBegin \/ CloseLook \/ CloseWake
  BY <1>5 DEF CloseBegin, CloseLook, CloseWake, CloseInv, queueVars, Idle
<1>6. CASE UNCHANGED vars
  BY <1>6 DEF vars, queueVars, closeVars, CloseInv
<1>. QED
  BY <1>1, <1>2, <1>3, <1>4, <1>5, <1>6 DEF Next, DrainStep

\* A step that leaves the holder t alone.
LEMMA SameWait ==
  ASSUME TypeOK, NEW t \in Tickets, WaitAt(t), UNCHANGED kind, next' >= next, serving' >= serving,
         pc'[t] = pc[t], frontier'[t] = frontier[t], arrived'[t] = arrived[t],
         next' \in Nat, serving' \in Nat
  PROVE  WaitAt(t)'
<1>1. arrived[t] \subseteq Tickets  BY DEF TypeOK
<1>. QED  BY <1>1 DEF WaitAt, Waits, BlocksEarlier, TypeOK, Tickets

LEMMA WaitStepInv ==
  ASSUME IInv, [Next]_vars
  PROVE  WaitInv'
<1>. TypeOK /\ QueueInv /\ WaitInv /\ TypeOK' /\ QueueInv'  BY TypeStep, QueueStepInv DEF IInv
<1>. USE MaxTicketsAssumption
<1>1. ASSUME NEW k \in Kinds, Reserve(k) PROVE WaitInv'
  <2>. SUFFICES ASSUME NEW t \in Tickets PROVE WaitAt(t)'  BY DEF WaitInv
  <2>1. /\ UNCHANGED <<serving, frontier>> /\ next' = next + 1 /\ next \in Tickets
        /\ kind' = [kind EXCEPT ![next] = k] /\ pc' = [pc EXCEPT ![next] = "held"]
    BY <1>1 DEF Reserve, TypeOK, Tickets
  <2>2. pc[next] = "none"  BY <2>1 DEF QueueInv, TypeOK
  <2>4. CASE t = next
    <3>1. arrived'[t] = arrived[t] /\ arrived[t] = {}
      BY <1>1, <2>1, <2>2, <2>4 DEF Reserve, WaitInv, WaitAt, TypeOK
    <3>. QED  BY <2>1, <2>4, <3>1 DEF WaitAt, TypeOK
  <2>5. CASE t # next /\ pc[t] = "held"
    <3>1. pc'[t] = "held"  BY <2>1, <2>5 DEF TypeOK
    <3>2. \A u \in arrived[t] : u < next /\ \A v \in t + 1 .. u : BlocksEarlier(v)
      BY <2>5 DEF WaitInv, WaitAt
    <3>3. arrived[t] \subseteq Tickets  BY DEF TypeOK
    <3>4. ASSUME NEW u \in arrived[t], NEW v \in t + 1 .. u PROVE BlocksEarlier(v)'
      <4>0. u \in Tickets /\ u < next /\ \A x \in t + 1 .. u : BlocksEarlier(x)  BY <3>2, <3>3
      <4>1. v \in Tickets /\ v # next /\ BlocksEarlier(v)
        <5>1. BlocksEarlier(v)  BY <4>0
        <5>2. u \in Nat /\ t \in Nat /\ next \in Nat /\ u < MaxTickets  BY <4>0 DEF Tickets, TypeOK
        <5>. QED  BY <4>0, <5>1, <5>2 DEF Tickets
      <4>. QED  BY <2>1, <4>1 DEF BlocksEarlier, TypeOK
    <3>5. CASE RightBehind(t, k)
      <4>1. arrived'[t] \subseteq arrived[t] \cup {next}  BY <1>1 DEF Reserve
      <4>2. ASSUME NEW v \in t + 1 .. next PROVE BlocksEarlier(v)'
        <5>1. CASE v = next  BY <2>1, <3>5, <5>1 DEF BlocksEarlier, RightBehind, TypeOK
        <5>2. CASE v \in t + 1 .. next - 1
          <6>1. v \in Tickets  BY <2>1, <5>2 DEF Tickets
          <6>. QED  BY <2>1, <3>5, <5>2, <6>1 DEF BlocksEarlier, RightBehind, TypeOK
        <5>. QED  BY <5>1, <5>2 DEF TypeOK, Tickets
      <4>3. \A u \in arrived'[t] : u < next' /\ \A v \in t + 1 .. u : BlocksEarlier(v)'
        BY <2>1, <3>2, <3>3, <3>4, <4>1, <4>2 DEF TypeOK, Tickets
      <4>. QED  BY <3>1, <4>3 DEF WaitAt
    <3>6. CASE ~RightBehind(t, k)
      <4>1. arrived'[t] = arrived[t]  BY <1>1, <3>6 DEF Reserve
      <4>2. \A u \in arrived'[t] : u < next' /\ \A v \in t + 1 .. u : BlocksEarlier(v)'
        BY <2>1, <3>2, <3>3, <3>4, <4>1 DEF TypeOK, Tickets
      <4>. QED  BY <3>1, <4>2 DEF WaitAt
    <3>. QED  BY <3>5, <3>6
  <2>6. CASE t # next /\ pc[t] # "held"
    <3>1. pc'[t] = pc[t] /\ kind'[t] = kind[t] /\ arrived'[t] = arrived[t]
      BY <1>1, <2>1, <2>6 DEF Reserve, TypeOK
    <3>. QED  BY <2>1, <2>6, <3>1 DEF WaitInv, WaitAt, Waits
  <2>. QED  BY <2>4, <2>5, <2>6
<1>2. ASSUME NEW t \in Tickets, Complete(t) PROVE WaitInv'
  <2>1. /\ UNCHANGED <<serving, next, kind, arrived>> /\ pc[t] = "held"
        /\ pc' = [pc EXCEPT ![t] = IF Waits(t) THEN "wait" ELSE "done"]
    BY <1>2 DEF Complete
  <2>2. PICK w \in Tickets : /\ IsWaitFrontier(t, w)
                            /\ frontier' = [frontier EXCEPT ![t] = IF Waits(t) THEN w ELSE @]
    BY <1>2 DEF Complete
  <2>3. ASSUME NEW u \in Tickets, u # t PROVE WaitAt(u)'
    BY <2>1, <2>2, <2>3, SameWait DEF WaitInv, TypeOK
  <2>4. WaitAt(t)'
    <3>1. CASE Waits(t)
      <4>1. frontier'[t] = w /\ pc'[t] = "wait" /\ Waits(t)'
        BY <2>1, <2>2, <3>1 DEF TypeOK, Waits
      <4>2. IncludesSuccessors(t)  BY <3>1 DEF Waits, IncludesSuccessors
      <4>3. /\ w \in t .. next - 1
            /\ w + 1 < next => ~BlocksEarlier(w + 1)
        BY <2>2, <4>2 DEF IsWaitFrontier
      <4>4. ASSUME NEW u \in arrived[t] PROVE u <= w
        <5>1. u \in Tickets /\ u < next /\ \A v \in t + 1 .. u : BlocksEarlier(v)
          BY <2>1 DEF WaitInv, WaitAt, TypeOK
        <5>2. ~(w + 1 \in t + 1 .. u)  BY <4>3, <5>1 DEF Tickets, TypeOK
        <5>. QED  BY <4>3, <5>1, <5>2 DEF Tickets, TypeOK
      <4>5. t <= w  BY <4>3 DEF Tickets, TypeOK
      <4>. QED  BY <2>1, <4>1, <4>4, <4>5 DEF WaitAt
    <3>2. CASE ~Waits(t)
      <4>1. pc'[t] = "done" /\ ~Waits(t)'  BY <2>1, <3>2 DEF TypeOK, Waits
      <4>. QED  BY <4>1 DEF WaitAt
    <3>. QED  BY <3>1, <3>2
  <2>. QED  BY <2>3, <2>4 DEF WaitInv
<1>3. ASSUME NEW d \in drains, DrainEnd(d) \/ DrainStop(d) \/ DrainTake(d) \/ DrainRun(d) \/ DrainAdvance(d)
      PROVE  WaitInv'
  <2>1. UNCHANGED <<next, kind, pc, frontier, arrived>> /\ (serving' = serving \/ serving' = serving + 1)
    BY <1>3 DEF DrainEnd, DrainStop, DrainTake, DrainRun, DrainAdvance, holderVars
  <2>2. next' >= next /\ serving' >= serving /\ next' \in Nat /\ serving' \in Nat
    BY <2>1 DEF TypeOK
  <2>3. ASSUME NEW u \in Tickets PROVE WaitAt(u)'
    BY <2>1, <2>2, SameWait DEF WaitInv
  <2>. QED  BY <2>3 DEF WaitInv
<1>4. ASSUME NEW t \in Tickets, WaitLook(t) \/ WaitWake(t) \/ WaitCancel(t) PROVE WaitInv'
  <2>1. UNCHANGED <<serving, next, kind, arrived>>
    BY <1>4 DEF WaitLook, WaitWake, WaitCancel, queueVars
  <2>2. \E s \in {"wait", "asleep", "done", "cancelled"} : pc' = [pc EXCEPT ![t] = s]
    BY <1>4 DEF WaitLook, WaitWake, WaitCancel, Leave
  <2>3. frontier' = frontier \/ frontier' = [frontier EXCEPT ![t] = 0]
    BY <1>4 DEF WaitLook, WaitWake, WaitCancel, Leave
  <2>4. ASSUME NEW u \in Tickets, u # t PROVE WaitAt(u)'
    BY <2>1, <2>2, <2>3, <2>4, SameWait DEF WaitInv, TypeOK
  <2>5. pc[t] \in {"wait", "asleep"} /\ WaitAt(t)
    BY <1>4 DEF WaitLook, WaitWake, WaitCancel, WaitInv
  <2>6. arrived[t] \subseteq Tickets /\ frontier[t] \in Nat  BY DEF TypeOK, Tickets
  <2>7. CASE pc' = [pc EXCEPT ![t] = "done"]
    <3>1. Passed(frontier[t])
      <4>1. pc'[t] = "done"  BY <2>7 DEF TypeOK
      <4>2. ~WaitWake(t)  BY <4>1 DEF WaitWake, TypeOK
      <4>3. ~WaitCancel(t)  BY <4>1 DEF WaitCancel, Leave, TypeOK
      <4>4. ~(pc' = [pc EXCEPT ![t] = "asleep"])  BY <4>1 DEF TypeOK
      <4>. QED  BY <1>4, <4>2, <4>3, <4>4 DEF WaitLook
    <3>2. serving > frontier[t] /\ serving \in Nat /\ t \in Nat  BY <3>1 DEF Passed, TypeOK, Tickets
    <3>3. t <= frontier[t] /\ \A u \in arrived[t] : u <= frontier[t]  BY <2>5 DEF WaitAt
    <3>4. t < serving /\ \A u \in arrived[t] : u < serving
      BY <2>6, <3>2, <3>3 DEF Tickets
    <3>5. WaitAt(t)'  BY <2>1, <2>7, <3>4 DEF WaitAt, TypeOK
    <3>. QED  BY <2>4, <3>5 DEF WaitInv
  <2>8. CASE pc' = [pc EXCEPT ![t] = "wait"] \/ pc' = [pc EXCEPT ![t] = "asleep"]
    <3>1. frontier' = frontier  BY <1>4, <2>5, <2>8 DEF WaitLook, WaitWake, WaitCancel, Leave, TypeOK
    <3>. QED  BY <2>1, <2>4, <2>5, <2>8, <3>1 DEF WaitInv, WaitAt, Waits, TypeOK
  <2>9. CASE pc' = [pc EXCEPT ![t] = "cancelled"]
    BY <2>1, <2>4, <2>9 DEF WaitInv, WaitAt, TypeOK
  <2>. QED  BY <2>2, <2>7, <2>8, <2>9
<1>5. CASE CloseBegin \/ CloseLook \/ CloseWake \/ UNCHANGED vars
  <2>1. UNCHANGED <<next, serving, kind, pc, frontier, arrived>>
    BY <1>5 DEF CloseBegin, CloseLook, CloseWake, vars, queueVars, holderVars
  <2>2. next' >= next /\ serving' >= serving /\ next' \in Nat /\ serving' \in Nat
    BY <2>1 DEF TypeOK
  <2>3. ASSUME NEW u \in Tickets PROVE WaitAt(u)'
    BY <2>1, <2>2, SameWait DEF WaitInv
  <2>. QED  BY <2>3 DEF WaitInv
<1>. QED
  BY <1>1, <1>2, <1>3, <1>4, <1>5 DEF Next, Holder, DrainStep

-----------------------------------------------------------------------------
(* The theorems. *)

LEMMA StepInv == IInv /\ [Next]_vars => IInv'
BY TypeStep, DrainStepInv, QueueStepInv, LogStepInv, StallStepInv, WaitStepInv, CloseStepInv DEF IInv

\* IInv is inductive.
THEOREM Invariance == Spec => []IInv
BY InitInv, StepInv, PTL DEF Spec

\* The variables keep their types, the tickets their bound.
THEOREM TypeCorrect == Spec => []TypeOK
<1>1. IInv => TypeOK  BY DEF IInv
<1>. QED  BY <1>1, Invariance, PTL

\* Completion, hand-off and stop never leave two drains, nor a drain that
\* `running` does not show.
THEOREM OneDrainAlways == Spec => []OneDrain
<1>1. ASSUME SoleDrain PROVE OneDrain
  <2>1. CASE running
    <3>1. PICK d : drains = {d}  BY <1>1, <2>1 DEF SoleDrain
    <3>2. Cardinality(drains) = 1  BY <3>1, FS_Singleton
    <3>3. drains # {}  BY <3>1
    <3>4. Cardinality(drains) <= 1  BY <3>2
    <3>. QED  BY <2>1, <3>3, <3>4, Zenon DEF OneDrain
  <2>2. CASE ~running
    <3>1. drains = {}  BY <1>1, <2>2 DEF SoleDrain
    <3>2. Cardinality(drains) = 0  BY <3>1, FS_EmptySet
    <3>3. Cardinality(drains) <= 1  BY <3>2
    <3>. QED  BY <2>2, <3>1, <3>3, Zenon DEF OneDrain
  <2>. QED  BY <2>1, <2>2
<1>2. IInv => SoleDrain  BY DEF IInv, DrainInv
<1>. QED  BY <1>1, <1>2, Invariance, PTL

\* Tasks run once each and in the order in which tickets were reserved.
THEOREM InOrderAlways == Spec => []InOrder
<1>1. IInv => InOrder  BY DEF IInv, LogInv
<1>. QED  BY <1>1, Invariance, PTL

\* The task that is next never lies ready with nobody draining.
THEOREM NoStallAlways == Spec => []NoStall
<1>1. IInv => NoStall  BY DEF IInv
<1>. QED  BY <1>1, Invariance, PTL

\* A ticket that is served has run, and so have the live events behind it.
LEMMA WaitersServed ==
  ASSUME IInv, NEW t \in Tickets, pc[t] = "done", Waits(t)
  PROVE  t < Len(ran) /\ \A u \in arrived[t] : u < Len(ran)
<1>1. TypeOK /\ LogInv /\ WaitInv  BY DEF IInv
<1>2. Len(ran) \in Nat /\ serving \in Nat /\ serving <= Len(ran)
  BY <1>1 DEF TypeOK, LogInv
<1>3. t < serving /\ \A u \in arrived[t] : u < serving
  BY <1>1 DEF WaitInv, WaitAt
<1>4. arrived[t] \subseteq Nat /\ t \in Nat  BY <1>1 DEF TypeOK, Tickets
<1>. QED  BY <1>2, <1>3, <1>4

\* A writer that is told has had its task run.
THEOREM ReturnsAfterRunAlways == Spec => []ReturnsAfterRun
<1>1. IInv => ReturnsAfterRun  BY WaitersServed DEF ReturnsAfterRun
<1>. QED  BY <1>1, Invariance, PTL

\* With its task every live event has run that was dispatched while it was being
\* prepared: the writer reads a store that has them.
THEOREM SeesLiveEventsAlways == Spec => []SeesLiveEvents
<1>1. IInv => SeesLiveEvents  BY WaitersServed DEF SeesLiveEvents
<1>. QED  BY <1>1, Invariance, PTL

\* The database is let go only when every reserved task has run and no drain
\* is inside one.
THEOREM ClosedIsDrainedAlways == Spec => []ClosedIsDrained
<1>1. ASSUME IInv, closer = "closed" PROVE Len(ran) = next /\ \A d \in drains : d.at = "loop"
  <2>1. TypeOK /\ DrainInv /\ LogInv /\ serving = next  BY <1>1 DEF IInv, CloseInv
  <2>2. ASSUME NEW d \in drains PROVE d.at = "loop"
    <3>1. ~(serving < next)  BY <2>1 DEF TypeOK
    <3>. QED  BY <2>1, <3>1 DEF DrainInv, Works
  <2>3. Len(ran) = serving  BY <2>1, <2>2 DEF LogInv
  <2>. QED  BY <2>1, <2>2, <2>3
<1>2. IInv => ClosedIsDrained  BY <1>1 DEF ClosedIsDrained
<1>. QED  BY <1>2, Invariance, PTL

-----------------------------------------------------------------------------
(* The sequencer implements OrderedWrites. *)

\* What OrderedWrites sees of the state.
HandedIn == {t \in Tickets : t < next /\ (t < serving \/ task[t] = "ready")}
Told == {t \in Tickets : pc[t] = "done" /\ Waits(t)}
Closed == closer = "closed"

LEMMA InitRefines == Init => Writes!Init
<1>. SUFFICES ASSUME Init PROVE Writes!Init  OBVIOUS
<1>1. HandedIn = {} /\ Told = {}  BY DEF Init, HandedIn, Told
<1>2. Closed = FALSE  BY DEF Init, Closed
<1>3. next = 0 /\ ran = <<>>  BY DEF Init
<1>. QED  BY <1>1, <1>2, <1>3, Zenon DEF Writes!Init, HandedIn, Told, Closed

\* A step the abstract system does not see.
LEMMA Stutter ==
  ASSUME UNCHANGED <<next, ran>>, HandedIn' = HandedIn, Told' = Told, Closed' = Closed
  PROVE  UNCHANGED Writes!vars
BY DEF Writes!vars, HandedIn, Told, Closed

LEMMA ReserveRefines ==
  ASSUME IInv, NEW k \in Kinds, Reserve(k)
  PROVE  Writes!Reserve
<1>. TypeOK /\ QueueInv  BY DEF IInv
<1>. USE MaxTicketsAssumption
<1>1. /\ UNCHANGED <<serving, ran, closer>> /\ next' = next + 1 /\ next \in Tickets /\ closer # "closed"
      /\ task' = [task EXCEPT ![next] = "reserved"]
      /\ kind' = [kind EXCEPT ![next] = k] /\ pc' = [pc EXCEPT ![next] = "held"]
  BY DEF Reserve, TypeOK, Tickets, closeVars
<1>2. HandedIn' = HandedIn
  <2>. SUFFICES ASSUME NEW t \in Tickets
                PROVE  (t < next /\ (t < serving \/ task[t] = "ready"))
                         <=> (t < next' /\ (t < serving' \/ task'[t] = "ready"))
    BY DEF HandedIn
  <2>1. CASE t = next  BY <1>1, <2>1 DEF TypeOK, QueueInv
  <2>2. CASE t # next  BY <1>1, <2>2 DEF TypeOK, Tickets
  <2>. QED  BY <2>1, <2>2
<1>3. Told' = Told
  <2>. SUFFICES ASSUME NEW t \in Tickets
                PROVE  (pc[t] = "done" /\ Waits(t)) <=> (pc'[t] = "done" /\ Waits(t)')
    BY DEF Told
  <2>1. CASE t = next  BY <1>1, <2>1 DEF TypeOK, QueueInv, Tickets
  <2>2. CASE t # next  BY <1>1, <2>2 DEF TypeOK, Waits
  <2>. QED  BY <2>1, <2>2
<1>4. Closed' = Closed /\ ~Closed  BY <1>1 DEF Closed
<1>. QED  BY <1>1, <1>2, <1>3, <1>4 DEF Writes!Reserve, HandedIn, Told, Closed

LEMMA CompleteRefines ==
  ASSUME IInv, NEW t \in Tickets, Complete(t)
  PROVE  Writes!HandIn
<1>. TypeOK /\ QueueInv  BY DEF IInv
<1>. USE MaxTicketsAssumption
<1>1. /\ UNCHANGED <<next, serving, ran, closer, kind>> /\ pc[t] = "held"
      /\ task' = [task EXCEPT ![t] = "ready"]
      /\ pc' = [pc EXCEPT ![t] = IF Waits(t) THEN "wait" ELSE "done"]
  BY DEF Complete, closeVars
<1>2. t < next /\ task[t] = "reserved" /\ ~(t < serving)  BY <1>1 DEF QueueInv, TypeOK, Tickets
<1>3. t \notin HandedIn  BY <1>2 DEF HandedIn
<1>4. HandedIn' = HandedIn \cup {t}
  BY <1>1, <1>2 DEF HandedIn, TypeOK
<1>5. Told' = Told  BY <1>1 DEF Told, Waits, TypeOK
<1>6. t \in 0 .. next - 1  BY <1>2 DEF Tickets, TypeOK
<1>7. Closed' = Closed  BY <1>1 DEF Closed
<1>. QED  BY <1>1, <1>3, <1>4, <1>5, <1>6, <1>7 DEF Writes!HandIn, HandedIn, Told, Closed

LEMMA DrainRefines ==
  ASSUME IInv, NEW d \in drains,
         DrainEnd(d) \/ DrainStop(d) \/ DrainTake(d) \/ DrainRun(d) \/ DrainAdvance(d)
  PROVE  Writes!Apply \/ UNCHANGED Writes!vars
<1>. TypeOK /\ DrainInv /\ QueueInv /\ LogInv /\ CloseInv  BY DEF IInv
<1>. USE MaxTicketsAssumption
<1>1. UNCHANGED <<next, kind, pc, closer>>
  BY DEF DrainEnd, DrainStop, DrainTake, DrainRun, DrainAdvance, holderVars, closeVars
<1>2. Told' = Told /\ Closed' = Closed  BY <1>1 DEF Told, Waits, Closed
<1>3. CASE DrainEnd(d) \/ DrainStop(d) \/ DrainTake(d)
  <2>1. UNCHANGED <<serving, task, ran>>  BY <1>3 DEF DrainEnd, DrainStop, DrainTake
  <2>2. HandedIn' = HandedIn  BY <1>1, <2>1 DEF HandedIn
  <2>. QED  BY <1>1, <1>2, <2>1, <2>2, Stutter
<1>4. CASE DrainRun(d)
  <2>1. d.task = serving /\ serving < next /\ Ready(serving)  BY <1>4 DEF DrainInv, Works, DrainRun
  <2>2. UNCHANGED <<serving, task>> /\ ran' = Append(ran, serving)  BY <1>4, <2>1 DEF DrainRun
  <2>3. Len(ran) = serving  BY <1>4, TheDrain DEF LogInv, DrainRun
  <2>4. ~Closed  BY <2>1 DEF Closed, CloseInv, TypeOK
  <2>5. serving \in HandedIn  BY <2>1 DEF HandedIn, Ready, Tickets, TypeOK
  <2>6. HandedIn' = HandedIn  BY <1>1, <2>2 DEF HandedIn
  <2>. QED  BY <1>1, <1>2, <2>2, <2>3, <2>4, <2>5, <2>6 DEF Writes!Apply, HandedIn, Told, Closed
<1>5. CASE DrainAdvance(d)
  <2>1. serving < next /\ Ready(serving)  BY <1>5 DEF DrainInv, Works, DrainAdvance
  <2>2. serving' = serving + 1 /\ task' = [task EXCEPT ![serving] = "absent"] /\ ran' = ran
    BY <1>5 DEF DrainAdvance
  <2>3. ASSUME NEW t \in Tickets
        PROVE  (t < next /\ (t < serving \/ task[t] = "ready"))
                 <=> (t < next' /\ (t < serving' \/ task'[t] = "ready"))
    <3>1. CASE t = serving  BY <1>1, <2>1, <2>2, <3>1 DEF TypeOK, Ready
    <3>2. CASE t # serving  BY <1>1, <2>2, <3>2 DEF TypeOK, Tickets
    <3>. QED  BY <3>1, <3>2
  <2>4. HandedIn' = HandedIn  BY <2>3 DEF HandedIn
  <2>. QED  BY <1>1, <1>2, <2>2, <2>4, Stutter
<1>. QED  BY <1>3, <1>4, <1>5

LEMMA WaitRefines ==
  ASSUME IInv, NEW t \in Tickets, WaitLook(t) \/ WaitWake(t) \/ WaitCancel(t)
  PROVE  Writes!Return \/ UNCHANGED Writes!vars
<1>. TypeOK /\ LogInv /\ WaitInv  BY DEF IInv
<1>1. UNCHANGED <<next, serving, task, kind, ran, closer>>
  BY DEF WaitLook, WaitWake, WaitCancel, queueVars, closeVars
<1>2. HandedIn' = HandedIn /\ Closed' = Closed  BY <1>1 DEF HandedIn, Closed
<1>3. CASE WaitLook(t) /\ Passed(frontier[t]) /\ Leave(t, "done")
  <2>1. pc[t] = "wait" /\ pc' = [pc EXCEPT ![t] = "done"] /\ serving > frontier[t]
    BY <1>3 DEF WaitLook, Leave, Passed
  <2>2. Waits(t) /\ t <= frontier[t]  BY <2>1 DEF WaitInv, WaitAt
  <2>3. t \in 0 .. Len(ran) - 1
    <3>1. t \in Nat /\ frontier[t] \in Nat /\ serving \in Nat  BY DEF TypeOK, Tickets
    <3>2. Len(ran) \in Nat /\ serving <= Len(ran)  BY DEF TypeOK, LogInv
    <3>. QED  BY <2>1, <2>2, <3>1, <3>2
  <2>4. t \notin Told  BY <2>1 DEF Told
  <2>5. Told' = Told \cup {t}  BY <1>1, <2>1, <2>2 DEF Told, Waits, TypeOK
  <2>. QED  BY <1>1, <1>2, <2>3, <2>4, <2>5 DEF Writes!Return, HandedIn, Told, Closed
<1>4. CASE ~(WaitLook(t) /\ Passed(frontier[t]) /\ Leave(t, "done"))
  <2>1. pc[t] # "done" /\ \E s \in {"wait", "asleep", "cancelled"} : pc' = [pc EXCEPT ![t] = s]
    BY <1>4 DEF WaitLook, WaitWake, WaitCancel, Leave
  <2>2. Told' = Told  BY <1>1, <2>1 DEF Told, Waits, TypeOK
  <2>. QED  BY <1>1, <1>2, <2>2, Stutter
<1>. QED  BY <1>3, <1>4

LEMMA CloseRefines ==
  ASSUME IInv, CloseBegin \/ CloseLook \/ CloseWake
  PROVE  Writes!Close \/ UNCHANGED Writes!vars
<1>. TypeOK /\ DrainInv /\ LogInv  BY DEF IInv
<1>1. UNCHANGED <<next, serving, task, drains, kind, pc, ran>>
  BY DEF CloseBegin, CloseLook, CloseWake, queueVars, holderVars
<1>2. HandedIn' = HandedIn /\ Told' = Told  BY <1>1 DEF HandedIn, Told, Waits
<1>3. CASE CloseLook /\ Idle /\ closer' = "closed"
  <2>1. ~Closed /\ Closed' = TRUE  BY <1>3 DEF CloseLook, Closed
  <2>2. serving = next  BY <1>3 DEF Idle
  <2>3. ASSUME NEW d \in drains PROVE d.at # "ran"
    <3>1. ~(serving < next)  BY <2>2 DEF TypeOK
    <3>. QED  BY <3>1 DEF DrainInv, Works
  <2>4. Len(ran) = next  BY <2>2, <2>3 DEF LogInv
  <2>. QED  BY <1>1, <1>2, <2>1, <2>4 DEF Writes!Close, HandedIn, Told, Closed
<1>4. CASE ~(CloseLook /\ Idle /\ closer' = "closed")
  <2>1. Closed' = Closed  BY <1>4 DEF CloseBegin, CloseLook, CloseWake, Closed
  <2>. QED  BY <1>1, <1>2, <2>1, Stutter
<1>. QED  BY <1>3, <1>4

LEMMA StepRefines ==
  ASSUME IInv, [Next]_vars
  PROVE  [Writes!Next]_Writes!vars
<1>1. ASSUME NEW k \in Kinds, Reserve(k) PROVE Writes!Next
  BY <1>1, ReserveRefines DEF Writes!Next
<1>2. ASSUME NEW t \in Tickets, Complete(t) PROVE Writes!Next
  BY <1>2, CompleteRefines DEF Writes!Next
<1>3. ASSUME NEW d \in drains, DrainEnd(d) \/ DrainStop(d) \/ DrainTake(d) \/ DrainRun(d) \/ DrainAdvance(d)
      PROVE  [Writes!Next]_Writes!vars
  BY <1>3, DrainRefines DEF Writes!Next
<1>4. ASSUME NEW t \in Tickets, WaitLook(t) \/ WaitWake(t) \/ WaitCancel(t)
      PROVE  [Writes!Next]_Writes!vars
  BY <1>4, WaitRefines DEF Writes!Next
<1>5. ASSUME CloseBegin \/ CloseLook \/ CloseWake PROVE [Writes!Next]_Writes!vars
  BY <1>5, CloseRefines DEF Writes!Next
<1>6. ASSUME UNCHANGED vars PROVE UNCHANGED Writes!vars
  BY <1>6, Stutter DEF vars, queueVars, holderVars, closeVars, HandedIn, Told, Closed, Waits
<1>. QED
  BY <1>1, <1>2, <1>3, <1>4, <1>5, <1>6 DEF Next, Holder, DrainStep

\* The sequencer is an implementation of OrderedWrites: every step of it
\* reserves, hands in, applies, returns or closes as OrderedWrites allows, or
\* is not seen there.
THEOREM Refinement == Spec => WritesSafety
<1>1. Init => Writes!Init  BY InitRefines
<1>2. IInv /\ [Next]_vars => [Writes!Next]_Writes!vars  BY StepRefines
<1>. QED  BY <1>1, <1>2, Invariance, PTL DEF Spec, WritesSafety, Writes!Spec
=============================================================================
