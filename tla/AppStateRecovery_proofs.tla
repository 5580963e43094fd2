---------------------- MODULE AppStateRecovery_proofs ----------------------
(***************************************************************************)
(* The recovery of a collection forgets no mutation, but for the cases     *)
(* that DebtKept names, and leaves no ticket without an owner, for every   *)
(* number of chats, mutations, intents, failed store calls and requests:   *)
(* the bounds of AppStateRecovery are parts of guards, and no step of the  *)
(* proof uses them.                                                        *)
(***************************************************************************)
EXTENDS AppStateRecovery, FiniteSetTheorems, TLAPS

Tickets == [by : {"live", "holder", "orphan", "capture", "late"}, ready : BOOLEAN,
            events : SUBSET Nat, g : Nat, awaited : BOOLEAN, tells : SUBSET Nat]
Frames == [on : BOOLEAN, events : SUBSET Nat, done : BOOLEAN]
Attempts == [who : {"command", "worker"}, how : Incremental \cup Full \cup {"snapshot", "send"},
             last : BOOLEAN, g : Nat \ {0}, res : Failures \cup {"ok", "unsaved"},
             phase : {"start", "out", "asking", "queued", "done", "recheck", "mark"}]

\* The types without the bounds.  A send's goroutine dispatches no sentinel.
Typed ==
  /\ log \in Seq(Chats) /\ cursor \in 0 .. Len(log)
  /\ outbox \in Seq(Nat) /\ batch \in Seq(Nat \ {0})
  /\ saved \subseteq Nat /\ intents \subseteq Nat \ {0}
  /\ queue \in Seq(Tickets)
  /\ holder \in Attempts \cup {Nobody}
  /\ capture \in Frames /\ late \in [g : Nat, capture : Frames] /\ owed \subseteq Nat
  /\ exposed \in BOOLEAN

\* The attempt waits for one ticket, at or behind its own.
AwaitInv ==
  /\ \A k \in 1 .. Len(queue) :
       /\ queue[k].awaited => holder # Nobody /\ holder.phase = "queued"
       /\ queue[k].by = "holder" /\ queue[k].ready =>
            /\ holder # Nobody /\ holder.phase = "queued"
            /\ \E j \in k .. Len(queue) : queue[j].awaited
  /\ \A j, k \in 1 .. Len(queue) : queue[j].awaited /\ queue[k].awaited => j = k

\* A capture is open while its attempt asks for a snapshot.
CaptureInv ==
  /\ capture.on => holder # Nobody /\ holder.how = "snapshot" /\ holder.phase = "asking"
  /\ capture.done => capture.on

\* An open ticket is the only one of its owner, and has nothing to write yet.
OpenInv ==
  /\ TicketsOwned
  /\ \A k \in 1 .. Len(queue) : ~queue[k].ready => queue[k].events = {}
  /\ \A j, k \in 1 .. Len(queue) :
       queue[j].by = queue[k].by /\ ~queue[j].ready /\ ~queue[k].ready => j = k

\* The generations of continuations, by which older intents may be cleared.
Gens == owed \cup {late.g} \cup UNION {queue[k].tells : k \in 1 .. Len(queue)}

\* An attempt that recovers is newer than any continuation, but for its own, and
\* no live event has its intent.
Recovers == holder # Nobody /\ holder.how # "send"
OrderInv ==
  Recovers => /\ \A t \in Gens : t <= holder.g
              /\ \A k \in 1 .. Len(queue) : queue[k].by = "live" => queue[k].g # holder.g

\* There is always a next id.
Bounded == \E b \in Nat : Known \subseteq 0 .. b

-----------------------------------------------------------------------------
(* Largest elements, and the order of dispatch. *)

LEMMA MaxOfBounded ==
  ASSUME NEW S, NEW b \in Nat, S \subseteq 0 .. b, S # {}
  PROVE  Max(S) \in S /\ \A x \in S : x <= Max(S)
<1>. DEFINE Above == {n \in 0 .. b : \A x \in S : x <= n}
<1>1. Above \subseteq Nat /\ b \in Above  OBVIOUS
<1>2. PICK n \in Above : \A k \in Above : ~ (<<k, n>> \in OpToRel(<, Nat))
  <2>1. Above # {}  BY <1>1
  <2>. HIDE DEF Above
  <2>. QED  BY <1>1, <2>1, WFMin, NatLessThanWellFounded, Zenon
<1>3. \A k \in Above : ~ (k < n)
  BY <1>1, <1>2 DEF OpToRel
<1>4. n \in S
  <2>1. SUFFICES ASSUME n \notin S PROVE FALSE  OBVIOUS
  <2>2. \A x \in S : x <= n - 1  BY <2>1, <1>1
  <2>3. n - 1 \in Above
    <3>1. PICK x \in S : TRUE  OBVIOUS
    <3>. QED  BY <2>2, <3>1, <1>1
  <2>. QED  BY <2>3, <1>3
<1>5. n \in S /\ \A y \in S : n >= y  BY <1>4
<1>. QED  BY <1>5 DEF Max

\* The last entry of l up to v that is c, or 0.
LastOf(l, c, v) == Max({0} \cup {i \in 1 .. v : l[i] = c})

LEMMA LastOfIs ==
  ASSUME NEW l, NEW v \in Nat, NEW c
  PROVE  /\ LastOf(l, c, v) \in 0 .. v
         /\ LastOf(l, c, v) # 0 => l[LastOf(l, c, v)] = c
         /\ \A i \in 1 .. v : l[i] = c => i <= LastOf(l, c, v)
<1>. DEFINE S == {0} \cup {i \in 1 .. v : l[i] = c}
<1>1. S \subseteq 0 .. v /\ S # {}  OBVIOUS
<1>2. Max(S) \in S /\ \A i \in S : i <= Max(S)
  <2>. HIDE DEF S
  <2>. QED  BY <1>1, MaxOfBounded
<1>3. LastOf(l, c, v) = Max(S)  BY DEF LastOf
<1>. QED  BY <1>2, <1>3

LEMMA LatestIs == \A c, v : Latest(c, v) = LastOf(log, c, v)
  BY DEF Latest, LastOf

LEMMA Wider ==
  ASSUME NEW S, NEW T, S \subseteq T, NEW q \in Seq(S)
  PROVE  q \in Seq(T)
  OBVIOUS

LEMMA InOrderHas ==
  ASSUME NEW S, NEW b \in Nat, S \subseteq 0 .. b
  PROVE  InOrder(S) \in Seq(S) /\ ToSet(InOrder(S)) = S
<1>. DEFINE Upto(x) == {f \in S : f <= x}
            rank == [x \in S |-> Cardinality(Upto(x))]
<1>1. IsFiniteSet(0 .. b)  BY FS_Interval
<1>2. IsFiniteSet(S)  BY <1>1, FS_Subset
<1>3. \A x \in S : IsFiniteSet(Upto(x)) /\ rank[x] \in 1 .. Cardinality(S)
  <2>. TAKE x \in S
  <2>1. Upto(x) \subseteq S /\ {x} \subseteq Upto(x)  OBVIOUS
  <2>2. IsFiniteSet(Upto(x)) /\ Cardinality(Upto(x)) <= Cardinality(S)  BY <1>2, <2>1, FS_Subset
  <2>3. Cardinality({x}) = 1  BY FS_Singleton, Zenon
  <2>4. Cardinality({x}) <= Cardinality(Upto(x))  BY <2>1, <2>2, FS_Subset
  <2>5. Cardinality(Upto(x)) \in Nat /\ Cardinality(S) \in Nat  BY <1>2, <2>2, FS_CardinalityType
  <2>. QED  BY <2>2, <2>3, <2>4, <2>5
<1>4. \A x, y \in S : x < y => rank[x] # rank[y]
  <2>. SUFFICES ASSUME NEW x \in S, NEW y \in S, x < y PROVE rank[x] # rank[y]  OBVIOUS
  <2>1. \A f \in S : f \in Nat  OBVIOUS
  <2>2. Upto(x) \subseteq Upto(y)
    <3>1. \A f \in S : f <= x => f <= y  BY <2>1
    <3>. QED  BY <3>1
  <2>3. y \in Upto(y) /\ y \notin Upto(x)
    <3>1. y <= y /\ ~(y <= x)  BY <2>1
    <3>. QED  BY <3>1
  <2>4. Cardinality(Upto(x)) < Cardinality(Upto(y))  BY <1>3, <2>2, <2>3, FS_Subset
  <2>5. Cardinality(Upto(x)) \in Nat /\ Cardinality(Upto(y)) \in Nat  BY <1>3, FS_CardinalityType
  <2>. QED  BY <2>4, <2>5
<1>5. \A x, y \in S : rank[x] = rank[y] => x = y  BY <1>4
<1>6. rank \in Injection(S, 1 .. Cardinality(S))
  <2>1. rank \in [S -> 1 .. Cardinality(S)]  BY <1>3
  <2>. HIDE DEF rank
  <2>. QED  BY <1>5, <2>1 DEF Injection, IsInjective
<1>7. Cardinality(S) \in Nat  BY <1>2, FS_CardinalityType
<1>8. IsFiniteSet(1 .. Cardinality(S)) /\ Cardinality(1 .. Cardinality(S)) = Cardinality(S)
  BY <1>7, FS_Interval
<1>9. rank \in Surjection(S, 1 .. Cardinality(S))
  <2>. HIDE DEF rank
  <2>. QED  BY <1>6, <1>8, FS_Injection
<1>10. \A k \in 1 .. Cardinality(S) : \E x \in S : Cardinality(Upto(x)) = k
  <2>1. \A k \in 1 .. Cardinality(S) : \E x \in S : rank[x] = k
    <3>. HIDE DEF rank
    <3>. QED  BY <1>9 DEF Surjection
  <2>. QED  BY <2>1
<1>11. \A k \in 1 .. Cardinality(S) : InOrder(S)[k] \in S /\ Cardinality(Upto(InOrder(S)[k])) = k
  BY <1>10 DEF InOrder
<1>12. InOrder(S) \in Seq(S) /\ DOMAIN InOrder(S) = 1 .. Cardinality(S)
  <2>1. InOrder(S) \in [1 .. Cardinality(S) -> S]  BY <1>11 DEF InOrder
  <2>. QED  BY <1>7, <2>1
<1>13. ASSUME NEW x \in S PROVE InOrder(S)[rank[x]] = x
  BY <1>3, <1>5, <1>11
<1>. QED  BY <1>3, <1>11, <1>12, <1>13 DEF ToSet

\* The next id is above all that are known.
LEMMA NewIdIsNew ==
  ASSUME Typed, Bounded
  PROVE  /\ Known \subseteq Nat /\ NewId \in Nat \ {0}
         /\ \A i \in Known : i < NewId
<1>1. PICK b \in Nat : Known \subseteq 0 .. b  BY DEF Bounded
<1>2. late.g \in Known  BY DEF Known
<1>3. Max(Known) \in Known /\ \A i \in Known : i <= Max(Known)
  <2>. HIDE DEF Known
  <2>. QED  BY <1>1, <1>2, MaxOfBounded
<1>4. Known \subseteq Nat  BY <1>1
<1>. DEFINE m == Max(Known)
<1>5. m \in Nat /\ NewId = 1 + m  BY <1>3, <1>4 DEF NewId
<1>6. \A i \in Known : i \in Nat /\ i <= m  BY <1>3, <1>4
<1>. HIDE DEF m
<1>. QED  BY <1>4, <1>5, <1>6

\* What there is among the known ids.
LEMMA KnownHas ==
  ASSUME Typed
  PROVE  /\ intents \subseteq Known /\ owed \subseteq Known /\ late.g \in Known
         /\ holder # Nobody /\ holder.how # "send" => holder.g \in Known
         /\ \A k \in 1 .. Len(queue) : queue[k].g \in Known /\ queue[k].tells \subseteq Known
<1>1. DOMAIN queue = 1 .. Len(queue)  BY DEF Typed
<1>. QED  BY <1>1 DEF Known

-----------------------------------------------------------------------------
(* The tickets one by one. *)

LEMMA NewTickets ==
  ASSUME NEW e \in Nat, NEW g \in Nat
  PROVE  /\ Live(e, g) \in Tickets
         /\ Live(e, g).by = "live" /\ Live(e, g).ready /\ Live(e, g).events = {e} /\ Live(e, g).g = g
         /\ ~Live(e, g).awaited /\ Live(e, g).tells = {}
         /\ \A by \in {"holder", "capture", "late"} :
              /\ Ticket(by) \in Tickets
              /\ Ticket(by).by = by /\ ~Ticket(by).ready /\ Ticket(by).events = {} /\ Ticket(by).g = 0
              /\ ~Ticket(by).awaited /\ Ticket(by).tells = {}
<1>1. \A by \in {"holder", "capture", "late", "live"} : Ticket(by) \in Tickets  BY DEF Ticket, Tickets
<1>2. Live(e, g) \in Tickets  BY <1>1 DEF Live, Tickets
<1>. QED  BY <1>1, <1>2 DEF Live, Ticket

LEMMA AppendIs ==
  ASSUME NEW q \in Seq(Tickets), NEW t \in Tickets
  PROVE  /\ Append(q, t) \in Seq(Tickets) /\ Len(Append(q, t)) = Len(q) + 1
         /\ \A k \in 1 .. Len(q) : Append(q, t)[k] = q[k]
         /\ Append(q, t)[Len(q) + 1] = t
  OBVIOUS

\* The last of the tickets that are ready after the one at i.
LEMMA FrontierIs ==
  ASSUME NEW q \in Seq(Tickets), NEW i \in 1 .. Len(q)
  PROVE  Frontier(q, i) \in i .. Len(q)
<1>. DEFINE S == {j \in i .. Len(q) : \A k \in i + 1 .. j : q[k].ready}
<1>1. Len(q) \in Nat /\ S \subseteq 0 .. Len(q) /\ i \in S  OBVIOUS
<1>2. Max(S) \in S
  <2>. HIDE DEF S
  <2>. QED  BY <1>1, MaxOfBounded
<1>. QED  BY <1>2 DEF Frontier

\* r is q with the ticket at i completed, and the one at f awaited.
Completed(q, r, i, f, events) ==
  /\ r \in Seq(Tickets) /\ Len(r) = Len(q)
  /\ \A k \in 1 .. Len(q) :
       /\ r[k].by = q[k].by /\ r[k].g = q[k].g /\ r[k].tells = q[k].tells
       /\ r[k].ready <=> q[k].ready \/ k = i
       /\ r[k].awaited <=> q[k].awaited \/ k = f
       /\ r[k].events = IF k = i THEN events ELSE q[k].events

LEMMA Replaced ==
  ASSUME NEW q \in Seq(Tickets), NEW i \in 1 .. Len(q), NEW t \in Tickets
  PROVE  LET r == [q EXCEPT ![i] = t] IN
           /\ r \in Seq(Tickets) /\ Len(r) = Len(q)
           /\ \A k \in 1 .. Len(q) : r[k] = IF k = i THEN t ELSE q[k]
  OBVIOUS

LEMMA CompletedIs ==
  ASSUME NEW q \in Seq(Tickets), NEW i \in 1 .. Len(q), NEW f \in 1 .. Len(q), NEW events \in SUBSET Nat
  PROVE  Completed(q, [[q EXCEPT ![i].ready = TRUE, ![i].events = events] EXCEPT ![f].awaited = TRUE], i, f, events)
<1>. DEFINE t == [q[i] EXCEPT !.ready = TRUE, !.events = events]
            p == [q EXCEPT ![i].ready = TRUE, ![i].events = events]
            u == [p[f] EXCEPT !.awaited = TRUE]
            r == [p EXCEPT ![f].awaited = TRUE]
<1>1. \A k \in 1 .. Len(q) : q[k] \in Tickets  OBVIOUS
<1>2. t \in Tickets  BY <1>1 DEF Tickets
<1>3. t.by = q[i].by /\ t.g = q[i].g /\ t.tells = q[i].tells /\ t.ready /\ t.events = events /\ t.awaited = q[i].awaited
  BY <1>1 DEF Tickets
<1>4. p = [q EXCEPT ![i] = t]  OBVIOUS
<1>. HIDE DEF t, p
<1>5. p \in Seq(Tickets) /\ Len(p) = Len(q) /\ \A k \in 1 .. Len(q) : p[k] = IF k = i THEN t ELSE q[k]
  BY <1>2, <1>4, Replaced
<1>6. p[f] \in Tickets  BY <1>5
<1>7. u \in Tickets  BY <1>6 DEF Tickets
<1>8. u.by = p[f].by /\ u.g = p[f].g /\ u.tells = p[f].tells /\ u.ready = p[f].ready /\ u.events = p[f].events /\ u.awaited
  BY <1>6 DEF Tickets
<1>9. r = [p EXCEPT ![f] = u]  BY <1>5
<1>. HIDE DEF u, r
<1>10. r \in Seq(Tickets) /\ Len(r) = Len(p) /\ \A k \in 1 .. Len(p) : r[k] = IF k = f THEN u ELSE p[k]
  BY <1>5, <1>7, <1>9, Replaced
<1>11. ASSUME NEW k \in 1 .. Len(q)
      PROVE  /\ r[k].by = q[k].by /\ r[k].g = q[k].g /\ r[k].tells = q[k].tells
             /\ r[k].ready <=> q[k].ready \/ k = i
             /\ r[k].awaited <=> q[k].awaited \/ k = f
             /\ r[k].events = IF k = i THEN events ELSE q[k].events
  BY <1>3, <1>5, <1>8, <1>10
<1>12. Completed(q, r, i, f, events)  BY <1>5, <1>10, <1>11 DEF Completed
<1>. QED  BY <1>12 DEF p, r

LEMMA PassedIs ==
  ASSUME NEW q \in Seq(Tickets), NEW a, NEW b \in {"live", "holder", "orphan", "capture", "late"}
  PROVE  /\ Passed(q, a, b) \in Seq(Tickets) /\ Len(Passed(q, a, b)) = Len(q)
         /\ \A k \in 1 .. Len(q) :
              LET r == Passed(q, a, b) IN
              /\ r[k].by = IF q[k].by = a THEN b ELSE q[k].by
              /\ r[k].ready = q[k].ready /\ r[k].events = q[k].events /\ r[k].g = q[k].g
              /\ r[k].awaited = q[k].awaited /\ r[k].tells = q[k].tells
<1>. DEFINE t(k) == [q[k] EXCEPT !.by = b]
<1>1. \A k \in 1 .. Len(q) : q[k] \in Tickets  OBVIOUS
<1>2. ASSUME NEW k \in 1 .. Len(q)
      PROVE  /\ t(k) \in Tickets /\ t(k).by = b
             /\ t(k).ready = q[k].ready /\ t(k).events = q[k].events /\ t(k).g = q[k].g
             /\ t(k).awaited = q[k].awaited /\ t(k).tells = q[k].tells
  BY <1>1 DEF Tickets
<1>. HIDE DEF t
<1>3. Passed(q, a, b) = [k \in 1 .. Len(q) |-> IF q[k].by = a THEN t(k) ELSE q[k]]  BY DEF Passed, t
<1>4. Passed(q, a, b) \in Seq(Tickets) /\ Len(Passed(q, a, b)) = Len(q)
  <2>1. Passed(q, a, b) \in [1 .. Len(q) -> Tickets]  BY <1>1, <1>2, <1>3
  <2>. QED  BY <2>1
<1>. QED  BY <1>2, <1>3, <1>4

LEMMA ReleasedIs ==
  ASSUME Typed, NEW by
  PROVE  /\ Released(by) \in Seq(Tickets) /\ Len(Released(by)) = Len(queue)
         /\ \A k \in 1 .. Len(queue) :
              LET r == Released(by) IN
              /\ r[k].ready <=> queue[k].ready \/ queue[k].by = by
              /\ r[k].by = queue[k].by /\ r[k].events = queue[k].events /\ r[k].g = queue[k].g
              /\ r[k].awaited = queue[k].awaited /\ r[k].tells = queue[k].tells
<1>. DEFINE t(k) == [queue[k] EXCEPT !.ready = TRUE]
<1>0. queue \in Seq(Tickets)  BY DEF Typed
<1>1. \A k \in 1 .. Len(queue) : queue[k] \in Tickets  BY <1>0
<1>2. ASSUME NEW k \in 1 .. Len(queue)
      PROVE  /\ t(k) \in Tickets /\ t(k).ready /\ t(k).by = queue[k].by
             /\ t(k).events = queue[k].events /\ t(k).g = queue[k].g
             /\ t(k).awaited = queue[k].awaited /\ t(k).tells = queue[k].tells
  BY <1>1 DEF Tickets
<1>. HIDE DEF t
<1>3. Released(by) = [k \in 1 .. Len(queue) |-> IF k \in At(by) THEN t(k) ELSE queue[k]]
  BY <1>0 DEF Released, t
<1>4. Released(by) \in Seq(Tickets) /\ Len(Released(by)) = Len(queue)
  <2>1. Released(by) \in [1 .. Len(queue) -> Tickets]  BY <1>1, <1>2, <1>3
  <2>2. Len(queue) \in Nat  BY <1>0
  <2>. QED  BY <2>1, <2>2
<1>5. \A k \in 1 .. Len(queue) : k \in At(by) <=> queue[k].by = by /\ ~queue[k].ready
  BY <1>0 DEF At
<1>. QED  BY <1>1, <1>2, <1>3, <1>4, <1>5

LEMMA AbandonedIs ==
  ASSUME Typed
  PROVE  /\ Abandoned \in Seq(Tickets) /\ Len(Abandoned) = Len(queue)
         /\ \A k \in 1 .. Len(queue) :
              /\ Abandoned[k].by = IF queue[k].by = "holder" THEN "orphan" ELSE queue[k].by
              /\ Abandoned[k].ready = queue[k].ready /\ Abandoned[k].events = queue[k].events
              /\ Abandoned[k].g = queue[k].g /\ Abandoned[k].tells = queue[k].tells
              /\ ~Abandoned[k].awaited
<1>. DEFINE p == Passed(queue, "holder", "orphan")
            t(k) == [p[k] EXCEPT !.awaited = FALSE]
<1>1. queue \in Seq(Tickets)  BY DEF Typed
<1>2. /\ p \in Seq(Tickets) /\ Len(p) = Len(queue)
      /\ \A k \in 1 .. Len(queue) :
              /\ p[k].by = IF queue[k].by = "holder" THEN "orphan" ELSE queue[k].by
              /\ p[k].ready = queue[k].ready /\ p[k].events = queue[k].events /\ p[k].g = queue[k].g
              /\ p[k].tells = queue[k].tells
  BY <1>1, PassedIs
<1>. HIDE DEF p
<1>3. \A k \in 1 .. Len(queue) : p[k] \in Tickets  BY <1>2
<1>4. ASSUME NEW k \in 1 .. Len(queue)
      PROVE  /\ t(k) \in Tickets /\ ~t(k).awaited /\ t(k).by = p[k].by
             /\ t(k).events = p[k].events /\ t(k).g = p[k].g
             /\ t(k).ready = p[k].ready /\ t(k).tells = p[k].tells
  BY <1>3 DEF Tickets
<1>. HIDE DEF t
<1>5. Abandoned = [k \in 1 .. Len(queue) |-> t(k)]  BY <1>1 DEF Abandoned, p, t
<1>6. Abandoned \in Seq(Tickets) /\ Len(Abandoned) = Len(queue)
  <2>1. Abandoned \in [1 .. Len(queue) -> Tickets]  BY <1>4, <1>5
  <2>2. Len(queue) \in Nat  BY <1>1
  <2>. QED  BY <2>1, <2>2
<1>. QED  BY <1>2, <1>4, <1>5, <1>6

\* r is q with the ticket at i completed for the continuation of g, and g told
\* to the ticket at f.
Told(q, r, i, f, g) ==
  /\ r \in Seq(Tickets) /\ Len(r) = Len(q)
  /\ \A k \in 1 .. Len(q) :
       /\ r[k].by = q[k].by /\ r[k].awaited = q[k].awaited
       /\ r[k].ready <=> q[k].ready \/ k = i
       /\ k # i => r[k].g = q[k].g /\ r[k].events = q[k].events
       /\ r[k].g \in {q[k].g, g}
       /\ r[k].tells = IF k = f THEN q[k].tells \cup {g} ELSE q[k].tells

LEMMA ToldIs ==
  ASSUME NEW q \in Seq(Tickets), NEW i \in 1 .. Len(q), NEW f \in 1 .. Len(q),
         NEW events \in SUBSET Nat, NEW g \in Nat
  PROVE  Told(q, [[q EXCEPT ![i].ready = TRUE, ![i].events = events, ![i].g = g] EXCEPT ![f].tells = @ \cup {g}], i, f, g)
<1>. DEFINE t == [q[i] EXCEPT !.ready = TRUE, !.events = events, !.g = g]
            p == [q EXCEPT ![i].ready = TRUE, ![i].events = events, ![i].g = g]
            u == [p[f] EXCEPT !.tells = @ \cup {g}]
            r == [p EXCEPT ![f].tells = @ \cup {g}]
<1>1. \A k \in 1 .. Len(q) : q[k] \in Tickets  OBVIOUS
<1>2. t \in Tickets  BY <1>1 DEF Tickets
<1>3. t.by = q[i].by /\ t.g = g /\ t.tells = q[i].tells /\ t.ready /\ t.awaited = q[i].awaited
  BY <1>1 DEF Tickets
<1>4. p = [q EXCEPT ![i] = t]  OBVIOUS
<1>. HIDE DEF t, p
<1>5. p \in Seq(Tickets) /\ Len(p) = Len(q) /\ \A k \in 1 .. Len(q) : p[k] = IF k = i THEN t ELSE q[k]
  BY <1>2, <1>4, Replaced
<1>6. p[f] \in Tickets  BY <1>5
<1>7. u \in Tickets  BY <1>6 DEF Tickets
<1>8. u.by = p[f].by /\ u.g = p[f].g /\ u.tells = p[f].tells \cup {g} /\ u.ready = p[f].ready
      /\ u.events = p[f].events /\ u.awaited = p[f].awaited
  BY <1>6 DEF Tickets
<1>9. r = [p EXCEPT ![f] = u]  BY <1>5
<1>. HIDE DEF u, r
<1>10. r \in Seq(Tickets) /\ Len(r) = Len(p) /\ \A k \in 1 .. Len(p) : r[k] = IF k = f THEN u ELSE p[k]
  BY <1>5, <1>7, <1>9, Replaced
<1>11. ASSUME NEW k \in 1 .. Len(q)
      PROVE  /\ r[k].by = q[k].by /\ r[k].awaited = q[k].awaited
             /\ r[k].ready <=> q[k].ready \/ k = i
             /\ k # i => r[k].g = q[k].g /\ r[k].events = q[k].events
             /\ r[k].g \in {q[k].g, g}
             /\ r[k].tells = IF k = f THEN q[k].tells \cup {g} ELSE q[k].tells
  <2>1. p[k] = IF k = i THEN t ELSE q[k]  BY <1>5
  <2>2. r[k] = IF k = f THEN u ELSE p[k]  BY <1>5, <1>10
  <2>3. /\ p[k].by = q[k].by /\ p[k].awaited = q[k].awaited /\ p[k].tells = q[k].tells
        /\ p[k].ready <=> q[k].ready \/ k = i
        /\ k # i => p[k].g = q[k].g /\ p[k].events = q[k].events
        /\ p[k].g \in {q[k].g, g}
    BY <1>3, <2>1
  <2>. QED  BY <1>8, <2>2, <2>3
<1>12. Told(q, r, i, f, g)  BY <1>5, <1>10, <1>11 DEF Told
<1>. QED  BY <1>12 DEF p, r

\* Serving takes the first ticket away, and of the others some of what they tell.
LEMMA ServedIs ==
  ASSUME Typed, NEW works \in BOOLEAN, Serve(works)
  PROVE  /\ queue' \in Seq(Tickets) /\ Len(queue) > 0 /\ Len(queue') = Len(queue) - 1
         /\ queue[1] = Head(queue)
         /\ \A k \in 1 .. Len(queue') :
              /\ k + 1 \in 1 .. Len(queue)
              /\ queue'[k].by = queue[k + 1].by /\ queue'[k].ready = queue[k + 1].ready
              /\ queue'[k].events = queue[k + 1].events /\ queue'[k].g = queue[k + 1].g
              /\ queue'[k].awaited = queue[k + 1].awaited
              /\ queue'[k].tells \subseteq queue[k + 1].tells
<1>. DEFINE e == Head(queue)
            t(k) == [queue[k + 1] EXCEPT !.tells = @ \ {e.g}]
            n == Len(queue) - 1
<1>1. queue \in Seq(Tickets) /\ queue # <<>>  BY DEF Typed, Serve
<1>2. Len(queue) > 0 /\ n \in Nat /\ queue[1] = e  BY <1>1
<1>3. \A k \in 1 .. n : k + 1 \in 1 .. Len(queue) /\ queue[k + 1] \in Tickets  BY <1>1
<1>4. ASSUME NEW k \in 1 .. n
      PROVE  /\ t(k) \in Tickets /\ t(k).by = queue[k + 1].by /\ t(k).ready = queue[k + 1].ready
             /\ t(k).events = queue[k + 1].events /\ t(k).g = queue[k + 1].g
             /\ t(k).awaited = queue[k + 1].awaited
             /\ t(k).tells \subseteq queue[k + 1].tells
  <2>. DEFINE u == queue[k + 1]
  <2>1. u \in Tickets  BY <1>3
  <2>. HIDE DEF u, e
  <2>2. LET v == [u EXCEPT !.tells = @ \ {e.g}] IN
          /\ v \in Tickets /\ v.by = u.by /\ v.ready = u.ready /\ v.events = u.events /\ v.g = u.g
          /\ v.awaited = u.awaited /\ v.tells \subseteq u.tells
    BY <2>1 DEF Tickets
  <2>. QED  BY <2>2 DEF u
<1>5. queue' = [k \in 1 .. n |-> IF e.by = "late" /\ ~works THEN t(k) ELSE queue[k + 1]]
  BY DEF Serve
<1>. HIDE DEF t, e
<1>6. queue' \in [1 .. n -> Tickets] /\ \A k \in 1 .. n : queue'[k] \in {t(k), queue[k + 1]}
  BY <1>3, <1>4, <1>5
<1>7. queue' \in Seq(Tickets) /\ Len(queue') = n  BY <1>2, <1>6
<1>8. ASSUME NEW k \in 1 .. n
      PROVE  /\ queue'[k].by = queue[k + 1].by /\ queue'[k].ready = queue[k + 1].ready
             /\ queue'[k].events = queue[k + 1].events /\ queue'[k].g = queue[k + 1].g
             /\ queue'[k].awaited = queue[k + 1].awaited
             /\ queue'[k].tells \subseteq queue[k + 1].tells
  BY <1>4, <1>6
<1>. HIDE DEF n
<1>9. n = Len(queue) - 1  BY DEF n
<1>. QED  BY <1>2, <1>3, <1>7, <1>8, <1>9 DEF e

\* The sentinel adds a ticket for each capture that it closes.
LEMMA ClosedIs ==
  ASSUME Typed, HandlerCompletes
  PROVE  /\ queue' \in Seq(Tickets) /\ Len(queue') >= Len(queue)
         /\ \A k \in 1 .. Len(queue) : queue'[k] = queue[k]
         /\ \A k \in Len(queue) + 1 .. Len(queue') :
              /\ ~queue'[k].ready /\ queue'[k].events = {} /\ queue'[k].g = 0
              /\ ~queue'[k].awaited /\ queue'[k].tells = {}
              /\ \/ queue'[k].by = "late" /\ late.capture.on /\ ~late.capture.done
                 \/ queue'[k].by = "capture" /\ capture.on /\ ~capture.done
         /\ \A j, k \in Len(queue) + 1 .. Len(queue') : queue'[j].by = queue'[k].by => j = k
<1>. DEFINE a == Ticket("late")  b == Ticket("capture")
            l == late.capture.on /\ ~late.capture.done
            c == capture.on /\ ~capture.done
<1>1. queue \in Seq(Tickets)  BY DEF Typed
<1>2. /\ a \in Tickets /\ a.by = "late" /\ ~a.ready /\ a.events = {} /\ a.g = 0 /\ ~a.awaited /\ a.tells = {}
      /\ b \in Tickets /\ b.by = "capture" /\ ~b.ready /\ b.events = {} /\ b.g = 0 /\ ~b.awaited /\ b.tells = {}
  <2>1. 0 \in Nat  OBVIOUS
  <2>. QED  BY <2>1, NewTickets
<1>3. queue' = queue \o (IF l THEN <<a>> ELSE <<>>) \o (IF c THEN <<b>> ELSE <<>>)
  BY DEF HandlerCompletes, Closes
<1>. HIDE DEF a, b
<1>4. queue' = IF l THEN IF c THEN Append(Append(queue, a), b) ELSE Append(queue, a)
                    ELSE IF c THEN Append(queue, b) ELSE queue
  <2>. DEFINE q == IF l THEN Append(queue, a) ELSE queue
  <2>1. queue \o <<a>> = Append(queue, a) /\ queue \o <<>> = queue /\ Append(queue, a) \in Seq(Tickets)
    BY <1>1, <1>2
  <2>2. q \in Seq(Tickets) /\ queue \o (IF l THEN <<a>> ELSE <<>>) = q
    <3>1. CASE l  BY <2>1, <3>1
    <3>2. CASE ~l  BY <1>1, <2>1, <3>2
    <3>. QED  BY <3>1, <3>2
  <2>. HIDE DEF q, l, c
  <2>3. queue' = q \o (IF c THEN <<b>> ELSE <<>>)  BY <1>3, <2>2
  <2>4. q \o <<b>> = Append(q, b) /\ q \o <<>> = q  BY <1>2, <2>2
  <2>5. queue' = IF c THEN Append(q, b) ELSE q
    <3>1. CASE c  BY <2>3, <2>4, <3>1
    <3>2. CASE ~c  BY <2>3, <2>4, <3>2
    <3>. QED  BY <3>1, <3>2
  <2>. QED  BY <2>5 DEF q
<1>5. /\ Append(queue, a) \in Seq(Tickets) /\ Len(Append(queue, a)) = Len(queue) + 1
      /\ \A k \in 1 .. Len(queue) : Append(queue, a)[k] = queue[k]
      /\ Append(queue, a)[Len(queue) + 1] = a
  BY <1>1, <1>2, AppendIs
<1>6. CASE l /\ c
  <2>. DEFINE q == Append(queue, a)
  <2>. HIDE DEF q
  <2>1. queue' = Append(q, b)  BY <1>4, <1>6 DEF q
  <2>2. /\ queue' \in Seq(Tickets) /\ Len(queue') = Len(queue) + 2
        /\ \A k \in 1 .. Len(queue) : queue'[k] = queue[k]
        /\ queue'[Len(queue) + 1] = a /\ queue'[Len(queue) + 2] = b
    BY <1>1, <1>2, <1>5, <2>1, AppendIs DEF q
  <2>. QED  BY <1>1, <1>2, <1>6, <2>2
<1>7. CASE l /\ ~c
  BY <1>1, <1>2, <1>4, <1>5, <1>7
<1>8. CASE ~l /\ c
  <2>1. /\ queue' \in Seq(Tickets) /\ Len(queue') = Len(queue) + 1
        /\ \A k \in 1 .. Len(queue) : queue'[k] = queue[k]
        /\ queue'[Len(queue) + 1] = b
    BY <1>1, <1>2, <1>4, <1>8, AppendIs
  <2>. QED  BY <1>1, <1>2, <1>8, <2>1
<1>9. CASE ~l /\ ~c
  BY <1>1, <1>4, <1>9
<1>. QED  BY <1>6, <1>7, <1>8, <1>9

-----------------------------------------------------------------------------
(* The holder. *)

Results == Failures \cup {"ok", "unsaved"}
Hows == Incremental \cup Full \cup {"snapshot", "send"}
Phases == {"start", "out", "asking", "queued", "done", "recheck", "mark"}

LEMMA SomebodyHolds == Nobody \notin Attempts
  BY DEF Attempts, Nobody

LEMMA AttemptIs ==
  ASSUME NEW who \in {"command", "worker"}, NEW how \in Hows, NewId \in Nat \ {0}
  PROVE  /\ Attempt(who, how) \in Attempts
         /\ Attempt(who, how).how = how /\ Attempt(who, how).phase = "start" /\ Attempt(who, how).g = NewId
  BY DEF Attempt, Attempts, Hows

LEMMA WaitsAre ==
  ASSUME Typed, holder # Nobody, NEW q \in Seq(Tickets), Len(q) = Len(queue),
         NEW events \in SUBSET Nat, NEW res \in Results, Waits(q, events, res)
  PROVE  /\ holder' \in Attempts /\ holder'.how = holder.how /\ holder'.g = holder.g
         /\ holder'.phase = "queued" /\ holder'.res = res
         /\ \E i, f \in 1 .. Len(queue) : i \in At("holder") /\ i <= f /\ Completed(q, queue', i, f, events)
<1>1. holder \in Attempts /\ queue \in Seq(Tickets)  BY DEF Typed
<1>2. PICK i \in At("holder") :
        /\ queue' = [[q EXCEPT ![i].ready = TRUE, ![i].events = events] EXCEPT ![Frontier(q, i)].awaited = TRUE]
        /\ holder' = [holder EXCEPT !.phase = "queued", !.res = res]
  BY DEF Waits
<1>3. i \in 1 .. Len(queue)  BY <1>1 DEF At
<1>4. Frontier(q, i) \in i .. Len(q)  BY <1>3, FrontierIs
<1>5. Frontier(q, i) \in 1 .. Len(queue) /\ i <= Frontier(q, i)  BY <1>1, <1>3, <1>4
<1>6. Completed(q, queue', i, Frontier(q, i), events)  BY <1>2, <1>3, <1>5, CompletedIs
<1>7. "queued" \in Phases  BY DEF Phases
<1>8. /\ holder' \in Attempts /\ holder'.how = holder.how /\ holder'.g = holder.g
      /\ holder'.phase = "queued" /\ holder'.res = res
  <2>. DEFINE a == [holder EXCEPT !.phase = "queued", !.res = res]
  <2>1. a \in Attempts /\ a.phase = "queued" /\ a.how = holder.how /\ a.g = holder.g /\ a.res = res
    BY <1>1 DEF Attempts, Results
  <2>2. holder' = a  BY <1>2
  <2>. HIDE DEF a
  <2>. QED  BY <2>1, <2>2
<1>. QED  BY <1>3, <1>5, <1>6, <1>8

-----------------------------------------------------------------------------
(* Types. *)

LEMMA TypedEvents ==
  ASSUME Typed, ~Dispatched
  PROVE  /\ NextEvent \in Nat
         /\ Handed => outbox' \in Seq(Nat) /\ batch' \in Seq(Nat \ {0})
         /\ Hears(capture) \in Frames /\ Hears(late.capture) \in Frames
<1>1. NextEvent \in Nat  BY DEF Typed, Dispatched, NextEvent
<1>2. Handed => outbox' \in Seq(Nat) /\ batch' \in Seq(Nat \ {0})
  <2>1. outbox \in Seq(Nat) /\ batch \in Seq(Nat \ {0})  BY DEF Typed
  <2>2. CASE outbox # <<>>
    <3>1. Tail(outbox) \in Seq(Nat)  BY <2>1, <2>2
    <3>. QED  BY <2>1, <2>2, <3>1 DEF Handed
  <2>3. CASE outbox = <<>>
    <3>1. Tail(batch) \in Seq(Nat \ {0})  BY <2>1, <2>3 DEF Dispatched
    <3>. QED  BY <2>1, <2>3, <3>1 DEF Handed
  <2>. QED  BY <2>2, <2>3
<1>3. capture \in Frames /\ late.capture \in Frames  BY DEF Typed
<1>4. \A c \in Frames : Hears(c) \in Frames  BY <1>1 DEF Hears, Frames
<1>. QED  BY <1>1, <1>2, <1>3, <1>4

LEMMA TypedServer ==
  ASSUME Typed, Server
  PROVE  log' \in Seq(Chats) /\ cursor' \in 0 .. Len(log') /\ outbox' \in Seq(Nat) /\ batch' \in Seq(Nat \ {0})
<1>. USE DEF Typed
<1>1. CASE OtherDeviceWrites  BY <1>1 DEF OtherDeviceWrites
<1>2. Len(log) \in Nat  OBVIOUS
<1>3. CASE LiveFetch
  <2>1. Behind \subseteq 0 .. Len(log)  BY DEF Behind
  <2>2. InOrder(Behind) \in Seq(Behind)  BY <1>2, <2>1, InOrderHas
  <2>3. InOrder(Behind) \in Seq(Nat)
    <3>1. Behind \subseteq Nat  BY <2>1
    <3>. QED  BY <2>2, <3>1, Wider
  <2>. QED  BY <1>2, <1>3, <2>3 DEF LiveFetch
<1>4. CASE PrimaryAnswers
  <2>1. CASE UNCHANGED <<cursor, outbox>>  BY <1>4, <2>1 DEF PrimaryAnswers
  <2>2. ASSUME NEW s \in Behind, cursor' = s, outbox' = Append(InOrder(StateAt(s)), Sentinel)
        PROVE  cursor' \in 0 .. Len(log) /\ outbox' \in Seq(Nat)
    <3>1. s \in 1 .. Len(log)  BY DEF Behind
    <3>2. StateAt(s) \subseteq 0 .. s
      <4>1. \A c : Latest(c, s) \in 0 .. s  BY <3>1, LastOfIs, LatestIs
      <4>. QED  BY <4>1 DEF StateAt
    <3>3. InOrder(StateAt(s)) \in Seq(StateAt(s))  BY <3>1, <3>2, InOrderHas
    <3>4. InOrder(StateAt(s)) \in Seq(Nat)
      <4>1. StateAt(s) \subseteq Nat  BY <3>1, <3>2
      <4>. QED  BY <3>3, <4>1, Wider
    <3>. QED  BY <2>2, <3>1, <3>4 DEF Sentinel
  <2>. QED  BY <1>4, <2>1, <2>2 DEF PrimaryAnswers
<1>. QED  BY <1>1, <1>3, <1>4 DEF Server

\* The queue of an attempt whose capture becomes a continuation.
Adopted == Passed(Released("late"), "capture", "late")

LEMMA AdoptedIs ==
  ASSUME Typed
  PROVE  /\ Adopted \in Seq(Tickets) /\ Len(Adopted) = Len(queue)
         /\ \A k \in 1 .. Len(queue) :
              /\ Adopted[k].by = IF queue[k].by = "capture" THEN "late" ELSE queue[k].by
              /\ Adopted[k].ready <=> queue[k].ready \/ queue[k].by = "late"
              /\ Adopted[k].events = queue[k].events /\ Adopted[k].g = queue[k].g
              /\ Adopted[k].awaited = queue[k].awaited /\ Adopted[k].tells = queue[k].tells
<1>. DEFINE q == Released("late")
<1>1. /\ q \in Seq(Tickets) /\ Len(q) = Len(queue)
      /\ \A k \in 1 .. Len(queue) :
              /\ q[k].ready <=> queue[k].ready \/ queue[k].by = "late"
              /\ q[k].by = queue[k].by /\ q[k].events = queue[k].events /\ q[k].g = queue[k].g
              /\ q[k].awaited = queue[k].awaited /\ q[k].tells = queue[k].tells
  BY ReleasedIs
<1>. HIDE DEF q
<1>2. /\ Passed(q, "capture", "late") \in Seq(Tickets) /\ Len(Passed(q, "capture", "late")) = Len(q)
      /\ \A k \in 1 .. Len(q) :
           LET r == Passed(q, "capture", "late") IN
           /\ r[k].by = IF q[k].by = "capture" THEN "late" ELSE q[k].by
           /\ r[k].ready = q[k].ready /\ r[k].events = q[k].events /\ r[k].g = q[k].g
           /\ r[k].awaited = q[k].awaited /\ r[k].tells = q[k].tells
  BY <1>1, PassedIs
<1>3. Adopted = Passed(q, "capture", "late")  BY DEF Adopted, q
<1>. QED  BY <1>1, <1>2, <1>3

\* Every wait begins with one of three queues.
WaitsOn(events, res) ==
  \/ holder.phase = "out" /\ UNCHANGED <<capture, late>> /\ Waits(queue, events, res)
  \/ SnapshotArrives /\ Waits(Released("capture"), events, res)
  \/ SnapshotTimesOut /\ Waits(Adopted, events, res)

WaitStep ==
  \/ FetchSucceeds \/ (\E res \in Failures : FetchFails(res)) \/ RequestFails
  \/ SnapshotArrives \/ SnapshotTimesOut \/ SendSucceeds \/ SendFails

LEMMA WaitStepIs ==
  ASSUME Typed, WaitStep
  PROVE  /\ holder # Nobody /\ holder.phase \in {"out", "asking"}
         /\ \E events \in SUBSET Nat, res \in Results : WaitsOn(events, res)
<1>1. capture.events \in SUBSET Nat /\ Len(log) \in Nat  BY DEF Typed, Frames
<1>2. CASE FetchSucceeds
  <2>1. Behind \in SUBSET Nat  BY <1>1 DEF Behind, Typed
  <2>2. StateAt(Len(log)) \in SUBSET Nat
    <3>1. \A c : Latest(c, Len(log)) \in 0 .. Len(log)  BY <1>1, LastOfIs, LatestIs
    <3>. QED  BY <1>1, <3>1 DEF StateAt
  <2>3. "ok" \in Results  BY DEF Results
  <2>4. /\ UNCHANGED <<capture, late>>
        /\ \/ Holds(Incremental, "out") /\ Waits(queue, Behind, "ok")
           \/ Holds(Full, "out") /\ Waits(queue, StateAt(Len(log)), "ok")
    BY <1>2 DEF FetchSucceeds, lateVars
  <2>. QED  BY <2>1, <2>2, <2>3, <2>4 DEF WaitsOn, Holds
<1>3. ASSUME NEW res \in Failures, FetchFails(res) PROVE WaitsOn({}, res) /\ holder # Nobody /\ holder.phase = "out"
  BY <1>3 DEF FetchFails, WaitsOn, Holds, lateVars
<1>4. CASE RequestFails
  BY <1>4 DEF RequestFails, WaitsOn, Holds, Results, Failures, lateVars
<1>5. CASE SnapshotArrives
  BY <1>1, <1>5 DEF SnapshotArrives, TimelyReleases, WaitsOn, Holds, Results
<1>6. CASE SnapshotTimesOut
  BY <1>6 DEF SnapshotTimesOut, Adopted, WaitsOn, Holds, Results, Failures
<1>7. CASE SendSucceeds
  <2>1. Len(log') \in Nat  BY <1>1, <1>7 DEF SendSucceeds, Typed
  <2>2. "ok" \in Results  BY DEF Results
  <2>3. Waits(queue, {Len(log')}, "ok") /\ Holds({"send"}, "out") /\ UNCHANGED <<capture, late>>
    BY <1>7 DEF SendSucceeds, lateVars
  <2>. QED  BY <2>1, <2>2, <2>3 DEF WaitsOn, Holds
<1>8. CASE SendFails
  BY <1>8 DEF SendFails, WaitsOn, Holds, Results, Failures, lateVars
<1>9. Failures \subseteq Results  BY DEF Results
<1>. QED  BY <1>2, <1>3, <1>4, <1>5, <1>6, <1>7, <1>8, <1>9 DEF WaitStep

\* What a wait that begins does to the tickets and the holder.
Waited(q, r, i, f, events) ==
  \A k \in 1 .. Len(q) :
    /\ r[k].g = q[k].g /\ r[k].tells = q[k].tells
    /\ r[k].events = IF k = i THEN events ELSE q[k].events
    /\ r[k].awaited <=> q[k].awaited \/ k = f
    /\ q[k].ready \/ k = i => r[k].ready
    /\ q[k].by # "capture" => r[k].by = q[k].by
    /\ q[k].by = "capture" => r[k].by \in {"capture", "late"}
    /\ q[k].by \in {"live", "holder", "orphan"} /\ k # i => (r[k].ready <=> q[k].ready)

\* q is the queue with some of its tickets released or passed on.
Adjusted(q) ==
  /\ q \in Seq(Tickets) /\ Len(q) = Len(queue)
  /\ \A k \in 1 .. Len(queue) :
       /\ q[k].g = queue[k].g /\ q[k].tells = queue[k].tells
       /\ q[k].events = queue[k].events /\ q[k].awaited = queue[k].awaited
       /\ queue[k].ready => q[k].ready
       /\ queue[k].by # "capture" => q[k].by = queue[k].by
       /\ queue[k].by = "capture" => q[k].by \in {"capture", "late"}
       /\ queue[k].by \in {"live", "holder", "orphan"} => (q[k].ready <=> queue[k].ready)

LEMMA WaitedIs ==
  ASSUME Typed, holder # Nobody, NEW q, Adjusted(q),
         NEW events \in SUBSET Nat, NEW res \in Results, Waits(q, events, res)
  PROVE  /\ holder' \in Attempts /\ holder'.how = holder.how /\ holder'.g = holder.g
         /\ holder'.phase = "queued" /\ holder'.res = res
         /\ queue' \in Seq(Tickets) /\ Len(queue') = Len(queue)
         /\ \E i, f \in 1 .. Len(queue) : i \in At("holder") /\ i <= f /\ Waited(queue, queue', i, f, events)
<1>1. q \in Seq(Tickets) /\ Len(q) = Len(queue)  BY DEF Adjusted
<1>2. /\ holder' \in Attempts /\ holder'.how = holder.how /\ holder'.g = holder.g
      /\ holder'.phase = "queued" /\ holder'.res = res
      /\ \E i, f \in 1 .. Len(queue) : i \in At("holder") /\ i <= f /\ Completed(q, queue', i, f, events)
  BY <1>1, WaitsAre
<1>3. PICK i, f \in 1 .. Len(queue) : i \in At("holder") /\ i <= f /\ Completed(q, queue', i, f, events)
  BY <1>2
<1>4. queue' \in Seq(Tickets) /\ Len(queue') = Len(queue)  BY <1>1, <1>3 DEF Completed
<1>5. ASSUME NEW k \in 1 .. Len(queue)
      PROVE  /\ queue'[k].by = q[k].by /\ queue'[k].g = q[k].g /\ queue'[k].tells = q[k].tells
             /\ queue'[k].ready <=> q[k].ready \/ k = i
             /\ queue'[k].awaited <=> q[k].awaited \/ k = f
             /\ queue'[k].events = IF k = i THEN events ELSE q[k].events
  BY <1>1, <1>3 DEF Completed
<1>6. ASSUME NEW k \in 1 .. Len(queue)
      PROVE  /\ queue'[k].g = queue[k].g /\ queue'[k].tells = queue[k].tells
             /\ queue'[k].events = IF k = i THEN events ELSE queue[k].events
             /\ queue'[k].awaited <=> queue[k].awaited \/ k = f
             /\ queue[k].ready \/ k = i => queue'[k].ready
             /\ queue[k].by # "capture" => queue'[k].by = queue[k].by
             /\ queue[k].by = "capture" => queue'[k].by \in {"capture", "late"}
             /\ queue[k].by \in {"live", "holder", "orphan"} /\ k # i => (queue'[k].ready <=> queue[k].ready)
  BY <1>5 DEF Adjusted
<1>7. Waited(queue, queue', i, f, events)  BY <1>6 DEF Waited
<1>. QED  BY <1>2, <1>3, <1>4, <1>7

LEMMA WaitsOnIs ==
  ASSUME Typed, holder # Nobody, NEW events \in SUBSET Nat, NEW res \in Results, WaitsOn(events, res)
  PROVE  /\ holder' \in Attempts /\ holder'.how = holder.how /\ holder'.g = holder.g
         /\ holder'.phase = "queued" /\ holder'.res = res
         /\ queue' \in Seq(Tickets) /\ Len(queue') = Len(queue)
         /\ \E i, f \in 1 .. Len(queue) : i \in At("holder") /\ i <= f /\ Waited(queue, queue', i, f, events)
<1>1. Adjusted(queue)  BY DEF Typed, Adjusted
<1>2. Adjusted(Released("capture"))  BY ReleasedIs DEF Adjusted
<1>3. Adjusted(Adopted)  BY AdoptedIs DEF Adjusted
<1>4. PICK q : Adjusted(q) /\ Waits(q, events, res)  BY <1>1, <1>2, <1>3 DEF WaitsOn
<1>. QED  BY <1>4, WaitedIs

\* The continuation completes its ticket, and tells the last that is ready.
LEMMA LateArrivesIs ==
  ASSUME Typed, LateArrives
  PROVE  \E i, f \in 1 .. Len(queue) : i \in At("late") /\ Told(queue, queue', i, f, late.g)
<1>1. queue \in Seq(Tickets)  BY DEF Typed
<1>2. PICK i \in At("late") :
        queue' = [[queue EXCEPT ![i].ready = TRUE, ![i].events = late.capture.events, ![i].g = late.g]
                    EXCEPT ![Frontier(queue, i)].tells = @ \cup {late.g}]
  BY DEF LateArrives
<1>. DEFINE f == Frontier(queue, i)  events == late.capture.events  g == late.g
<1>3. i \in 1 .. Len(queue)  BY <1>1 DEF At
<1>4. f \in i .. Len(queue)  BY <1>1, <1>3, FrontierIs
<1>5. events \in SUBSET Nat /\ g \in Nat  BY DEF Typed, Frames
<1>6. f \in 1 .. Len(queue)  BY <1>1, <1>3, <1>4
<1>7. queue' = [[queue EXCEPT ![i].ready = TRUE, ![i].events = events, ![i].g = g] EXCEPT ![f].tells = @ \cup {g}]
  BY <1>2
<1>. HIDE DEF f, events, g
<1>8. Told(queue, queue', i, f, g)
  <2>1. Told(queue, [[queue EXCEPT ![i].ready = TRUE, ![i].events = events, ![i].g = g] EXCEPT ![f].tells = @ \cup {g}], i, f, g)
    BY <1>1, <1>3, <1>5, <1>6, ToldIs
  <2>. QED  BY <1>7, <2>1
<1>. QED  BY <1>3, <1>6, <1>8 DEF g

\* The actions whose only effect on the holder is a move of its own.
Move ==
  \/ Reserves \/ SnapshotRequested \/ Clears \/ ClearsRechecked
  \/ DegradedProceeds \/ FallsBack \/ GivesUp \/ SendMarks

Begin == CommandBegins \/ WorkerBegins

LEMMA NextIs ==
  ASSUME [Next]_vars
  PROVE  \/ UNCHANGED vars
         \/ Server \/ HandlerMarks \/ HandlerUnmarked \/ HandlerCompletes
         \/ \E works \in BOOLEAN : Serve(works)
         \/ Begin \/ Move \/ WaitStep \/ FetchAbandoned
         \/ LateArrives \/ LateExpires \/ LateClears \/ Crash
  BY DEF Next, Handler, Sequencer, Fetch, Snapshot, Ladder, Send, Late, Begin, Move, WaitStep

LEMMA TypedQueue ==
  ASSUME Typed, Bounded, [Next]_vars
  PROVE  queue' \in Seq(Tickets)
<1>1. queue \in Seq(Tickets)  BY DEF Typed
<1>2. NewId \in Nat  BY NewIdIsNew
<1>3. CASE UNCHANGED vars  BY <1>1, <1>3 DEF vars
<1>4. CASE Server
  BY <1>1, <1>4 DEF Server, OtherDeviceWrites, LiveFetch, PrimaryAnswers
<1>5. CASE HandlerMarks
  <2>1. NextEvent \in Nat  BY <1>5, TypedEvents DEF HandlerMarks
  <2>2. Live(NextEvent, NewId) \in Tickets  BY <1>2, <2>1, NewTickets
  <2>. QED  BY <1>1, <1>5, <2>2 DEF HandlerMarks
<1>6. CASE HandlerUnmarked
  <2>1. NextEvent \in Nat  BY <1>6, TypedEvents DEF HandlerUnmarked
  <2>2. Live(NextEvent, NewId) \in Tickets /\ Live(NextEvent, 0) \in Tickets  BY <1>2, <2>1, NewTickets
  <2>3. queue' \in {Append(queue, Live(NextEvent, NewId)), Append(queue, Live(NextEvent, 0))}
    BY <1>6 DEF HandlerUnmarked
  <2>. QED  BY <1>1, <2>2, <2>3
<1>7. CASE HandlerCompletes  BY <1>7, ClosedIs
<1>8. ASSUME NEW works \in BOOLEAN, Serve(works) PROVE queue' \in Seq(Tickets)
  BY <1>8, ServedIs
<1>9. CASE Begin  BY <1>1, <1>9 DEF Begin, CommandBegins, WorkerBegins
<1>10. CASE Move
  <2>1. CASE Reserves
    <3>1. Ticket("holder") \in Tickets  BY DEF Ticket, Tickets
    <3>. QED  BY <1>1, <2>1, <3>1 DEF Reserves
  <2>2. CASE ~Reserves
    BY <1>1, <1>10, <2>2
       DEF Move, SnapshotRequested, Clears, ClearsRechecked, DegradedProceeds, FallsBack, GivesUp, SendMarks, storeVars
  <2>. QED  BY <2>1, <2>2
<1>11. CASE WaitStep  BY <1>11, WaitStepIs, WaitsOnIs
<1>12. CASE FetchAbandoned  BY <1>12, AbandonedIs DEF FetchAbandoned
<1>13. CASE LateArrives
  BY <1>13, LateArrivesIs DEF Told
<1>14. CASE LateExpires  BY <1>14, ReleasedIs DEF LateExpires
<1>15. CASE LateClears  BY <1>1, <1>15 DEF LateClears
<1>16. CASE Crash
  <2>1. queue' = <<>>  BY <1>16 DEF Crash
  <2>. QED  BY <2>1
<1>. QED  BY <1>3, <1>4, <1>5, <1>6, <1>7, <1>8, <1>9, <1>10, <1>11, <1>12, <1>13, <1>14, <1>15, <1>16, NextIs

LEMMA GoesIs ==
  ASSUME holder \in Attempts, NEW how \in Hows, NEW last \in BOOLEAN, NEW phase \in Phases, Goes(how, last, phase)
  PROVE  holder' \in Attempts
  BY DEF Goes, Attempts, Hows, Phases

LEMMA SucceedsIs ==
  ASSUME holder \in Attempts, Succeeds
  PROVE  holder' \in Attempts \cup {Nobody}
<1>1. "send" \in Hows /\ "mark" \in Phases  BY DEF Hows, Phases
<1>. QED  BY <1>1, GoesIs DEF Succeeds, Ends

LEMMA TypedHolder ==
  ASSUME Typed, Bounded, [Next]_vars
  PROVE  holder' \in Attempts \cup {Nobody}
<1>1. holder \in Attempts \cup {Nobody}  BY DEF Typed
<1>2. NewId \in Nat \ {0}  BY NewIdIsNew
<1>3. CASE Server \/ HandlerMarks \/ HandlerUnmarked \/ HandlerCompletes \/ LateArrives \/ LateExpires \/ LateClears
  BY <1>1, <1>3 DEF Server, OtherDeviceWrites, LiveFetch, PrimaryAnswers, HandlerMarks, HandlerUnmarked,
       HandlerCompletes, LateArrives, LateExpires, LateClears
<1>4. CASE FetchAbandoned \/ Crash  BY <1>4 DEF FetchAbandoned, Ends, Crash
<1>5. ASSUME NEW works \in BOOLEAN, Serve(works) PROVE holder' \in Attempts \cup {Nobody}
  BY <1>1, <1>5 DEF Serve, Attempts
<1>6. CASE CommandBegins
  BY <1>2, <1>6, AttemptIs DEF CommandBegins, Hows, Incremental, Full
<1>7. CASE WorkerBegins
  BY <1>2, <1>7, AttemptIs DEF WorkerBegins, Hows, Full
<1>8. CASE WaitStep  BY <1>8, WaitStepIs, WaitsOnIs
<1>9. CASE Reserves  BY <1>1, <1>9 DEF Reserves, Attempts
<1>10. CASE SnapshotRequested  BY <1>1, <1>10 DEF SnapshotRequested, Holds, Attempts
<1>11. ASSUME holder \in Attempts, NEW phase \in Phases, NEW res \in Results,
              holder' = [holder EXCEPT !.phase = phase, !.res = res]
       PROVE  holder' \in Attempts
  BY <1>11 DEF Attempts, Phases, Results
<1>12. CASE Clears
  <2>1. holder \in Attempts  BY <1>1, <1>12 DEF Clears, Holds
  <2>2. CASE intents' = {}  BY <1>12, <2>1, <2>2, SucceedsIs DEF Clears
  <2>3. CASE intents' # {}
    <3>1. holder' = [holder EXCEPT !.phase = "recheck"]  BY <1>12, <2>3 DEF Clears
    <3>. QED  BY <2>1, <3>1 DEF Attempts
  <2>. QED  BY <2>2, <2>3
<1>13. CASE ClearsRechecked
  <2>1. holder \in Attempts  BY <1>1, <1>13 DEF ClearsRechecked
  <2>2. CASE intents = {}  BY <1>13, <2>1, <2>2, SucceedsIs DEF ClearsRechecked
  <2>3. CASE intents # {}
    <3>1. "done" \in Phases /\ "error" \in Results  BY DEF Phases, Results, Failures
    <3>2. holder' = [holder EXCEPT !.phase = "done", !.res = "error"]  BY <1>13, <2>3 DEF ClearsRechecked
    <3>. QED  BY <1>11, <2>1, <3>1, <3>2
  <2>. QED  BY <2>2, <2>3
<1>14. CASE DegradedProceeds  BY <1>1, <1>14 DEF DegradedProceeds, Holds, Goes, Attempts
<1>15. CASE FallsBack
  <2>1. holder \in Attempts  BY <1>1, <1>15 DEF FallsBack
  <2>2. \E how \in Hows, last \in BOOLEAN : Goes(how, last, "start")
    BY <1>15 DEF FallsBack, Hows, Incremental, Full
  <2>. QED  BY <2>1, <2>2 DEF Goes, Attempts, Hows
<1>16. CASE GivesUp  BY <1>16 DEF GivesUp, Ends
<1>17. CASE SendMarks  BY <1>1, <1>17 DEF SendMarks, Holds, Ends, Attempts
<1>18. CASE UNCHANGED vars  BY <1>1, <1>18 DEF vars
<1>. QED
  BY <1>3, <1>4, <1>5, <1>6, <1>7, <1>8, <1>9, <1>10, <1>12, <1>13, <1>14, <1>15, <1>16, <1>17, <1>18, NextIs
     DEF Begin, Move

\* What whatsmeow and its dispatch keep.
LEMMA TypedLog ==
  ASSUME Typed, [Next]_vars
  PROVE  log' \in Seq(Chats) /\ cursor' \in 0 .. Len(log') /\ outbox' \in Seq(Nat) /\ batch' \in Seq(Nat \ {0})
<1>1. log \in Seq(Chats) /\ cursor \in 0 .. Len(log) /\ outbox \in Seq(Nat) /\ batch \in Seq(Nat \ {0})
  BY DEF Typed
<1>2. Len(log) \in Nat  BY <1>1
<1>3. CASE Server  BY <1>3, TypedServer
<1>4. CASE HandlerMarks \/ HandlerUnmarked \/ HandlerCompletes
  BY <1>1, <1>4, TypedEvents DEF HandlerMarks, HandlerUnmarked, HandlerCompletes
<1>5. ASSUME NEW works \in BOOLEAN, Serve(works) PROVE UNCHANGED serverVars
  BY <1>5 DEF Serve
<1>6. CASE Begin \/ Move \/ FetchAbandoned \/ LateArrives \/ LateExpires \/ LateClears \/ UNCHANGED vars
  <2>1. UNCHANGED serverVars
    BY <1>6 DEF Begin, CommandBegins, WorkerBegins, Move, Reserves, SnapshotRequested, Clears, ClearsRechecked,
         DegradedProceeds, FallsBack, GivesUp, SendMarks, FetchAbandoned, LateArrives, LateExpires, LateClears, vars
  <2>. QED  BY <1>1, <2>1 DEF serverVars
<1>7. CASE FetchSucceeds  BY <1>1, <1>2, <1>7 DEF FetchSucceeds
<1>8. ASSUME NEW res \in Failures, FetchFails(res) PROVE cursor' \in {0, cursor} /\ UNCHANGED <<log, outbox, batch>>
  BY <1>8 DEF FetchFails
<1>9. CASE RequestFails \/ SnapshotArrives \/ SnapshotTimesOut
  BY <1>1, <1>9 DEF RequestFails, SnapshotArrives, SnapshotTimesOut, serverVars
<1>10. CASE SendSucceeds
  <2>1. PICK c \in Chats : log' = Append(log, c)  BY <1>10 DEF SendSucceeds
  <2>2. log' \in Seq(Chats) /\ Len(log') = Len(log) + 1  BY <1>1, <2>1
  <2>3. cursor' = Len(log') /\ batch' = <<Len(log')>> /\ outbox' = outbox  BY <1>10 DEF SendSucceeds
  <2>4. Len(log') \in Nat \ {0}  BY <1>2, <2>2
  <2>5. <<Len(log')>> \in Seq(Nat \ {0})  BY <2>4
  <2>. QED  BY <1>1, <1>2, <2>2, <2>3, <2>5
<1>11. CASE SendFails
  <2>1. PICK l \in {log} \cup {Append(log, c) : c \in Chats} : log' = l
    BY <1>11 DEF SendFails
  <2>2. l \in Seq(Chats) /\ Len(l) \in {Len(log), Len(log) + 1}
    <3>1. CASE l = log  BY <1>1, <3>1
    <3>2. ASSUME NEW c \in Chats, l = Append(log, c)
          PROVE  l \in Seq(Chats) /\ Len(l) = Len(log) + 1
      BY <1>1, <3>2
    <3>. QED  BY <3>1, <3>2
  <2>3. UNCHANGED <<cursor, outbox, batch>>  BY <1>11 DEF SendFails
  <2>. QED  BY <1>1, <1>2, <2>1, <2>2, <2>3
<1>12. CASE Crash
  <2>1. batch' = <<>> /\ UNCHANGED <<log, cursor, outbox>>  BY <1>12 DEF Crash
  <2>. QED  BY <1>1, <2>1
<1>13. CASE WaitStep
  <2>1. ASSUME NEW res \in Failures, FetchFails(res)
        PROVE  log' \in Seq(Chats) /\ cursor' \in 0 .. Len(log') /\ outbox' \in Seq(Nat) /\ batch' \in Seq(Nat \ {0})
    BY <1>1, <1>2, <1>8, <2>1
  <2>. QED  BY <1>7, <1>9, <1>10, <1>11, <1>13, <2>1 DEF WaitStep
<1>14. (\E works \in BOOLEAN : Serve(works)) =>
         log' \in Seq(Chats) /\ cursor' \in 0 .. Len(log') /\ outbox' \in Seq(Nat) /\ batch' \in Seq(Nat \ {0})
  BY <1>1, <1>5 DEF serverVars
<1>. QED  BY <1>3, <1>4, <1>6, <1>12, <1>13, <1>14, NextIs

\* What is in the store.
LEMMA TypedStore ==
  ASSUME Typed, Bounded, [Next]_vars
  PROVE  saved' \subseteq Nat /\ intents' \subseteq Nat \ {0} /\ owed' \subseteq Nat /\ exposed' \in BOOLEAN
<1>1. saved \subseteq Nat /\ intents \subseteq Nat \ {0} /\ owed \subseteq Nat /\ exposed \in BOOLEAN
  BY DEF Typed
<1>2. NewId \in Nat \ {0}  BY NewIdIsNew
<1>3. CASE Server \/ HandlerCompletes \/ WaitStep \/ FetchAbandoned \/ LateArrives \/ LateExpires \/ UNCHANGED vars
  BY <1>1, <1>3
     DEF Server, OtherDeviceWrites, LiveFetch, PrimaryAnswers, HandlerCompletes, WaitStep, FetchSucceeds, FetchFails,
         RequestFails, SnapshotArrives, SnapshotTimesOut, SendSucceeds, SendFails, FetchAbandoned, LateArrives,
         LateExpires, vars, storeVars, lateVars
<1>4. CASE HandlerMarks  BY <1>1, <1>2, <1>4 DEF HandlerMarks, Marks
<1>5. CASE HandlerUnmarked
  <2>1. NextEvent \in Nat  BY <1>5, TypedEvents DEF HandlerUnmarked
  <2>. QED  BY <1>1, <1>2, <1>5, <2>1 DEF HandlerUnmarked, Marks
<1>6. ASSUME NEW works \in BOOLEAN, Serve(works)
      PROVE  saved' \subseteq Nat /\ intents' \subseteq Nat \ {0} /\ owed' \subseteq Nat /\ exposed' \in BOOLEAN
  <2>1. Head(queue) \in Tickets  BY <1>6 DEF Serve, Typed
  <2>2. Head(queue).events \subseteq Nat /\ Head(queue).tells \subseteq Nat  BY <2>1 DEF Tickets
  <2>3. intents' \in {intents, intents \ {Head(queue).g}, intents \cup {NewId}}  BY <1>6 DEF Serve, Marks
  <2>4. saved' \in {saved, saved \cup Head(queue).events} /\ exposed' = exposed  BY <1>6 DEF Serve
  <2>5. owed' \subseteq owed \cup Head(queue).tells  BY <1>6 DEF Serve
  <2>. QED  BY <1>1, <1>2, <2>2, <2>3, <2>4, <2>5
<1>7. CASE Begin  BY <1>1, <1>2, <1>7 DEF Begin, CommandBegins, WorkerBegins, Marks, lateVars
<1>8. CASE Move
  BY <1>1, <1>2, <1>8 DEF Move, Reserves, SnapshotRequested, Clears, ClearsRechecked, DegradedProceeds, DegradedLeaves,
       FallsBack, GivesUp, SendMarks, Marks, After, storeVars, lateVars
<1>9. CASE LateClears  BY <1>1, <1>9 DEF LateClears, After
<1>10. CASE Crash  BY <1>1, <1>10 DEF Crash, storeVars
<1>. QED  BY <1>3, <1>4, <1>5, <1>6, <1>7, <1>8, <1>9, <1>10, NextIs

LEMMA TypedCaptures ==
  ASSUME Typed, [Next]_vars
  PROVE  capture' \in Frames /\ late' \in [g : Nat, capture : Frames]
<1>1. capture \in Frames /\ late \in [g : Nat, capture : Frames]  BY DEF Typed
<1>2. NoCapture \in Frames /\ NoLate \in [g : Nat, capture : Frames]  BY DEF NoCapture, NoLate, Frames
<1>3. CASE HandlerMarks \/ HandlerUnmarked
  BY <1>1, <1>3, TypedEvents DEF HandlerMarks, HandlerUnmarked, CapturesHear
<1>4. CASE HandlerCompletes
  <2>1. \A c \in Frames : Closed(c) \in Frames  BY DEF Closed, Frames
  <2>. QED  BY <1>1, <1>4, <2>1 DEF HandlerCompletes
<1>5. CASE SnapshotRequested
  <2>1. [NoCapture EXCEPT !.on = TRUE] \in Frames  BY <1>2 DEF Frames
  <2>. QED  BY <1>1, <1>5, <2>1 DEF SnapshotRequested, lateVars
<1>6. CASE SnapshotTimesOut
  <2>1. holder.g \in Nat  BY <1>6 DEF SnapshotTimesOut, Holds, Typed, Attempts
  <2>. QED  BY <1>1, <1>2, <1>6, <2>1 DEF SnapshotTimesOut
<1>7. CASE SnapshotArrives  BY <1>1, <1>2, <1>7 DEF SnapshotArrives, lateVars
<1>8. CASE LateArrives \/ LateExpires  BY <1>1, <1>2, <1>8 DEF LateArrives, LateExpires
<1>9. CASE Crash  BY <1>2, <1>9 DEF Crash
<1>10. CASE UNCHANGED <<capture, late>>  BY <1>1, <1>10
<1>11. CASE Server \/ Begin \/ FetchAbandoned \/ LateClears \/ UNCHANGED vars
  BY <1>1, <1>11 DEF Server, OtherDeviceWrites, LiveFetch, PrimaryAnswers, Begin, CommandBegins, WorkerBegins,
       FetchAbandoned, LateClears, vars, lateVars
<1>12. ASSUME NEW works \in BOOLEAN, Serve(works) PROVE UNCHANGED <<capture, late>>
  BY <1>12 DEF Serve
<1>13. CASE Move
  BY <1>1, <1>5, <1>13 DEF Move, Reserves, Clears, ClearsRechecked, DegradedProceeds, FallsBack, GivesUp, SendMarks, lateVars
<1>14. CASE WaitStep
  BY <1>1, <1>6, <1>7, <1>14 DEF WaitStep, FetchSucceeds, FetchFails, RequestFails, SendSucceeds, SendFails, lateVars
<1>. QED  BY <1>3, <1>4, <1>8, <1>9, <1>10, <1>11, <1>12, <1>13, <1>14, NextIs

LEMMA TypedStep ==
  ASSUME Typed, Bounded, [Next]_vars
  PROVE  Typed'
  BY TypedQueue, TypedHolder, TypedLog, TypedStore, TypedCaptures DEF Typed

-----------------------------------------------------------------------------
(* Ids. *)

\* Every step marks at most one more, the next one.
LEMMA IntentsMove ==
  ASSUME [Next]_vars
  PROVE  intents' \subseteq intents \cup {NewId}
<1>1. CASE Server \/ HandlerCompletes \/ WaitStep \/ FetchAbandoned \/ LateArrives \/ LateExpires \/ UNCHANGED vars
  BY <1>1
     DEF Server, OtherDeviceWrites, LiveFetch, PrimaryAnswers, HandlerCompletes, WaitStep, FetchSucceeds, FetchFails,
         RequestFails, SnapshotArrives, SnapshotTimesOut, SendSucceeds, SendFails, FetchAbandoned, LateArrives,
         LateExpires, vars, storeVars
<1>2. CASE HandlerMarks \/ HandlerUnmarked  BY <1>2 DEF HandlerMarks, HandlerUnmarked, Marks
<1>3. ASSUME NEW works \in BOOLEAN, Serve(works) PROVE intents' \subseteq intents \cup {NewId}
  BY <1>3 DEF Serve, Marks
<1>4. CASE Begin  BY <1>4 DEF Begin, CommandBegins, WorkerBegins, Marks
<1>5. CASE Move
  BY <1>5 DEF Move, Reserves, SnapshotRequested, Clears, ClearsRechecked, DegradedProceeds, DegradedLeaves,
       FallsBack, GivesUp, SendMarks, Marks, After, storeVars
<1>6. CASE LateClears \/ Crash  BY <1>6 DEF LateClears, Crash, After, storeVars
<1>. QED  BY <1>1, <1>2, <1>3, <1>4, <1>5, <1>6, NextIs

\* An attempt keeps its generation, and a new one has the next id.
LEMMA HolderKeeps ==
  ASSUME Typed, Bounded, [Next]_vars, holder' # Nobody
  PROVE  /\ holder = Nobody => Begin
         /\ Begin => holder = Nobody /\ holder'.g = NewId /\ holder'.phase = "start"
         /\ ~Begin => holder'.g = holder.g /\ (holder'.how # "send" => holder.how # "send")
<1>1. holder \in Attempts \cup {Nobody}  BY DEF Typed
<1>2. NewId \in Nat \ {0}  BY NewIdIsNew
<1>3. CASE Begin
  <2>1. CASE CommandBegins
    BY <1>2, <1>3, <2>1, AttemptIs DEF CommandBegins, Hows, Incremental, Full
  <2>2. CASE WorkerBegins
    BY <1>2, <1>3, <2>2, AttemptIs DEF WorkerBegins, Hows, Full
  <2>. QED  BY <1>3, <2>1, <2>2 DEF Begin
<1>. SUFFICES ASSUME ~Begin
              PROVE  holder # Nobody /\ holder'.g = holder.g /\ (holder'.how # "send" => holder.how # "send")
  BY <1>3
<1>4. CASE UNCHANGED holder  BY <1>4
<1>5. CASE Server \/ HandlerMarks \/ HandlerUnmarked \/ HandlerCompletes \/ LateArrives \/ LateExpires \/ LateClears
           \/ UNCHANGED vars
  <2>1. UNCHANGED holder
    BY <1>5 DEF Server, OtherDeviceWrites, LiveFetch, PrimaryAnswers, HandlerMarks, HandlerUnmarked,
         HandlerCompletes, LateArrives, LateExpires, LateClears, vars
  <2>. QED  BY <1>4, <2>1
<1>6. CASE FetchAbandoned \/ Crash \/ GivesUp  BY <1>6 DEF FetchAbandoned, Ends, Crash, GivesUp
<1>7. ASSUME NEW works \in BOOLEAN, Serve(works)
      PROVE  holder # Nobody /\ holder'.g = holder.g /\ (holder'.how # "send" => holder.how # "send")
  BY <1>1, <1>7 DEF Serve, Attempts
<1>8. CASE WaitStep  BY <1>8, WaitStepIs, WaitsOnIs
<1>9. CASE Move
  <2>1. CASE Reserves  BY <1>1, <2>1 DEF Reserves, Attempts
  <2>2. CASE SnapshotRequested  BY <1>1, <2>2 DEF SnapshotRequested, Holds, Attempts
  <2>3. CASE Clears  BY <1>1, <2>3 DEF Clears, Holds, Succeeds, Goes, Ends, Attempts
  <2>4. CASE ClearsRechecked  BY <1>1, <2>4 DEF ClearsRechecked, Succeeds, Goes, Ends, Attempts
  <2>5. CASE DegradedProceeds  BY <1>1, <2>5 DEF DegradedProceeds, Holds, Goes, Attempts
  <2>6. CASE FallsBack  BY <1>1, <2>6 DEF FallsBack, Goes, Attempts
  <2>7. CASE SendMarks  BY <1>1, <2>7 DEF SendMarks, Holds, Ends, Attempts
  <2>. QED  BY <1>6, <1>9, <2>1, <2>2, <2>3, <2>4, <2>5, <2>6, <2>7 DEF Move
<1>. QED  BY <1>5, <1>6, <1>7, <1>8, <1>9, NextIs

\* Where the tickets of the next state come from: they were there, or are new.
Stems(t, u, extra) ==
  /\ u.by = "live" <=> t.by = "live"
  /\ t.by = "live" => u.g = t.g /\ u.events = t.events
  /\ u.g \in {t.g, late.g}
  /\ u.tells \subseteq t.tells \cup extra
Fresh(u) ==
  /\ u.tells = {}
  /\ u.by # "live" => u.g = 0
  /\ u.by = "live" =>
       /\ u.events = {NextEvent}
       /\ \/ HandlerMarks /\ u.g = NewId
          \/ HandlerUnmarked /\ u.g \in {NewId, 0}
Extra == IF LateArrives THEN {late.g} ELSE {}

LEMMA TicketsStem ==
  ASSUME Typed, Bounded, [Next]_vars, NEW k \in 1 .. Len(queue')
  PROVE  Fresh(queue'[k]) \/ \E j \in 1 .. Len(queue) : Stems(queue[j], queue'[k], Extra)
<1>1. queue \in Seq(Tickets)  BY DEF Typed
<1>2. NewId \in Nat  BY NewIdIsNew
<1>3. CASE UNCHANGED queue  BY <1>1, <1>3 DEF Stems
<1>4. CASE Server \/ Begin \/ LateClears \/ UNCHANGED vars
  <2>1. UNCHANGED queue
    BY <1>4 DEF Server, OtherDeviceWrites, LiveFetch, PrimaryAnswers, Begin, CommandBegins, WorkerBegins, LateClears, vars
  <2>. QED  BY <1>3, <2>1
<1>5. ASSUME NEW t \in Tickets, queue' = Append(queue, t), Fresh(t)
      PROVE  Fresh(queue'[k]) \/ \E j \in 1 .. Len(queue) : Stems(queue[j], queue'[k], Extra)
  <2>1. Len(queue') = Len(queue) + 1 /\ queue'[Len(queue) + 1] = t
        /\ \A j \in 1 .. Len(queue) : queue'[j] = queue[j]
    BY <1>1, <1>5, AppendIs
  <2>2. CASE k = Len(queue) + 1  BY <1>5, <2>1, <2>2
  <2>3. CASE k \in 1 .. Len(queue)  BY <2>1, <2>3 DEF Stems
  <2>. QED  BY <1>1, <2>1, <2>2, <2>3
<1>6. CASE HandlerMarks
  <2>1. NextEvent \in Nat  BY <1>6, TypedEvents DEF HandlerMarks
  <2>2. Live(NextEvent, NewId) \in Tickets /\ Fresh(Live(NextEvent, NewId))  BY <1>2, <1>6, <2>1, NewTickets DEF Fresh
  <2>. QED  BY <1>5, <1>6, <2>2 DEF HandlerMarks
<1>7. CASE HandlerUnmarked
  <2>1. NextEvent \in Nat  BY <1>7, TypedEvents DEF HandlerUnmarked
  <2>2. /\ Live(NextEvent, NewId) \in Tickets /\ Fresh(Live(NextEvent, NewId))
        /\ Live(NextEvent, 0) \in Tickets /\ Fresh(Live(NextEvent, 0))
    BY <1>2, <1>7, <2>1, NewTickets DEF Fresh
  <2>3. queue' \in {Append(queue, Live(NextEvent, NewId)), Append(queue, Live(NextEvent, 0))}
    BY <1>7 DEF HandlerUnmarked
  <2>. QED  BY <1>5, <2>2, <2>3
<1>8. CASE HandlerCompletes
  <2>1. CASE k \in 1 .. Len(queue)  BY <1>8, <2>1, ClosedIs DEF Stems
  <2>2. CASE k \in Len(queue) + 1 .. Len(queue')  BY <1>8, <2>2, ClosedIs DEF Fresh
  <2>. QED  BY <1>1, <2>1, <2>2
<1>9. ASSUME NEW works \in BOOLEAN, Serve(works)
      PROVE  \E j \in 1 .. Len(queue) : Stems(queue[j], queue'[k], Extra)
  BY <1>9, ServedIs DEF Stems
<1>10. CASE Move
  <2>1. CASE Reserves
    <3>1. Ticket("holder") \in Tickets /\ Fresh(Ticket("holder"))  BY NewTickets, <1>2 DEF Fresh
    <3>. QED  BY <1>5, <2>1, <3>1 DEF Reserves
  <2>2. CASE ~Reserves
    <3>1. UNCHANGED queue
      BY <1>10, <2>2 DEF Move, SnapshotRequested, Clears, ClearsRechecked, DegradedProceeds, FallsBack, GivesUp, SendMarks, storeVars
    <3>. QED  BY <1>3, <3>1
  <2>. QED  BY <2>1, <2>2
<1>11. CASE WaitStep
  <2>1. PICK events \in SUBSET Nat, res \in Results : WaitsOn(events, res)  BY <1>11, WaitStepIs
  <2>2. PICK i \in 1 .. Len(queue), f \in 1 .. Len(queue) :
          i \in At("holder") /\ i <= f /\ Waited(queue, queue', i, f, events)
    BY <1>11, <2>1, WaitStepIs, WaitsOnIs
  <2>3. k \in 1 .. Len(queue)  BY <1>11, <2>1, WaitStepIs, WaitsOnIs
  <2>4. queue[i].by = "holder"  BY <2>2 DEF At
  <2>. QED  BY <2>2, <2>3, <2>4 DEF Waited, Stems
<1>12. CASE FetchAbandoned
  BY <1>12, AbandonedIs DEF FetchAbandoned, Stems
<1>13. CASE LateArrives
  <2>1. PICK i \in 1 .. Len(queue), f \in 1 .. Len(queue) : i \in At("late") /\ Told(queue, queue', i, f, late.g)
    BY <1>13, LateArrivesIs
  <2>2. queue[i].by = "late"  BY <2>1 DEF At
  <2>. QED  BY <1>13, <2>1, <2>2 DEF Told, Stems, Extra
<1>14. CASE LateExpires  BY <1>14, ReleasedIs DEF LateExpires, Stems
<1>15. CASE Crash
  <2>1. queue' = <<>>  BY <1>15 DEF Crash
  <2>. QED  BY <2>1
<1>. QED  BY <1>4, <1>6, <1>7, <1>8, <1>9, <1>10, <1>11, <1>12, <1>13, <1>14, <1>15, NextIs

\* The continuation and what it owes.
LEMMA OwedMove ==
  ASSUME Typed, Bounded, [Next]_vars
  PROVE  /\ \/ late'.g \in {late.g, 0}
            \/ SnapshotTimesOut /\ late'.g = holder.g /\ holder # Nobody /\ holder.how = "snapshot"
         /\ \A t \in owed' : t \in owed \/ \E k \in 1 .. Len(queue) : t \in queue[k].tells
<1>1. queue \in Seq(Tickets) /\ owed \subseteq Nat /\ late \in [g : Nat, capture : Frames]  BY DEF Typed
<1>2. CASE HandlerMarks \/ HandlerUnmarked \/ HandlerCompletes
  BY <1>1, <1>2 DEF HandlerMarks, HandlerUnmarked, HandlerCompletes, CapturesHear
<1>3. ASSUME NEW works \in BOOLEAN, Serve(works)
      PROVE  UNCHANGED late /\ \A t \in owed' : t \in owed \/ \E k \in 1 .. Len(queue) : t \in queue[k].tells
  <2>1. Len(queue) > 0 /\ queue[1] = Head(queue)  BY <1>3, ServedIs
  <2>2. owed' \subseteq owed \cup Head(queue).tells /\ UNCHANGED late  BY <1>3 DEF Serve
  <2>. QED  BY <1>1, <2>1, <2>2
<1>4. CASE SnapshotTimesOut  BY <1>4 DEF SnapshotTimesOut, Holds
<1>5. CASE LateArrives \/ LateExpires \/ Crash
  <2>1. NoLate.g = 0  BY DEF NoLate
  <2>2. late' = NoLate /\ owed' \subseteq owed  BY <1>5 DEF LateArrives, LateExpires, Crash
  <2>. QED  BY <2>1, <2>2
<1>6. CASE LateClears  BY <1>6 DEF LateClears
<1>7. CASE Server \/ Begin \/ Move \/ FetchAbandoned \/ UNCHANGED vars
  BY <1>7 DEF Server, OtherDeviceWrites, LiveFetch, PrimaryAnswers, Begin, CommandBegins, WorkerBegins,
       Move, Reserves, SnapshotRequested, Clears, ClearsRechecked, DegradedProceeds, FallsBack, GivesUp, SendMarks,
       FetchAbandoned, vars, lateVars
<1>8. CASE FetchSucceeds \/ (\E res \in Failures : FetchFails(res)) \/ RequestFails \/ SnapshotArrives
           \/ SendSucceeds \/ SendFails
  BY <1>8 DEF FetchSucceeds, FetchFails, RequestFails, SnapshotArrives, SendSucceeds, SendFails, lateVars
<1>. QED  BY <1>2, <1>3, <1>4, <1>5, <1>6, <1>7, <1>8, NextIs DEF WaitStep

LEMMA BoundedStep ==
  ASSUME Typed, Bounded, [Next]_vars
  PROVE  Bounded'
<1>1. Typed'  BY TypedStep
<1>2. Known \subseteq Nat /\ NewId \in Nat /\ \A i \in Known : i < NewId  BY NewIdIsNew
<1>. DEFINE Ids0 == 0 .. NewId
<1>3. Known \subseteq Ids0 /\ NewId \in Ids0 /\ 0 \in Ids0  BY <1>2
<1>4. intents' \subseteq Ids0  BY <1>3, IntentsMove, KnownHas
<1>5. late'.g \in Ids0  BY <1>3, OwedMove, KnownHas
<1>6. owed' \subseteq Ids0  BY <1>3, OwedMove, KnownHas
<1>7. holder' # Nobody /\ holder'.how # "send" => holder'.g \in Ids0  BY <1>3, HolderKeeps, KnownHas
<1>8. ASSUME NEW k \in 1 .. Len(queue') PROVE queue'[k].g \in Ids0 /\ queue'[k].tells \subseteq Ids0
  <2>1. CASE Fresh(queue'[k])  BY <1>3, <2>1 DEF Fresh
  <2>2. ASSUME NEW j \in 1 .. Len(queue), Stems(queue[j], queue'[k], Extra)
        PROVE  queue'[k].g \in Ids0 /\ queue'[k].tells \subseteq Ids0
    BY <1>3, <2>2, KnownHas DEF Stems, Extra
  <2>. QED  BY <2>1, <2>2, TicketsStem
<1>9. DOMAIN queue' = 1 .. Len(queue')  BY <1>1 DEF Typed
<1>. HIDE DEF Ids0
<1>10. Known' \subseteq Ids0  BY <1>3, <1>4, <1>5, <1>6, <1>7, <1>8, <1>9 DEF Known
<1>. QED  BY <1>2, <1>10 DEF Bounded, Ids0

-----------------------------------------------------------------------------
(* Owners. *)

\* TicketsOwned at one place of a queue.
OwnedAt(t, h, c, l) ==
  ~t.ready =>
    \/ t.by = "holder" /\ h # Nobody /\ h.phase \in {"out", "asking"}
    \/ t.by = "capture" /\ c.done
    \/ t.by = "late" /\ l.capture.done

LEMMA OwnedIs ==
  ASSUME Typed
  PROVE  TicketsOwned <=> \A k \in 1 .. Len(queue) : OwnedAt(queue[k], holder, capture, late)
<1>1. DOMAIN queue = 1 .. Len(queue)  BY DEF Typed
<1>. QED  BY <1>1 DEF TicketsOwned, OwnedAt

LEMMA OwnedIsNext ==
  ASSUME Typed'
  PROVE  TicketsOwned' <=> \A k \in 1 .. Len(queue') : OwnedAt(queue'[k], holder', capture', late')
<1>1. DOMAIN queue' = 1 .. Len(queue')  BY DEF Typed
<1>. QED  BY <1>1 DEF TicketsOwned, OwnedAt

\* Between its tickets an attempt has none, and is not asking.
LEMMA Between ==
  ASSUME Typed, AwaitInv, OpenInv, CaptureInv,
         holder = Nobody \/ holder.phase \in {"start", "done", "recheck", "mark"}
  PROVE  /\ \A k \in 1 .. Len(queue) : queue[k].by # "holder" /\ ~queue[k].awaited
         /\ ~capture.on /\ ~capture.done
<1>1. \A k \in 1 .. Len(queue) : OwnedAt(queue[k], holder, capture, late)  BY OwnedIs DEF OpenInv
<1>. QED  BY <1>1 DEF OwnedAt, AwaitInv, CaptureInv

Owners == AwaitInv /\ OpenInv /\ CaptureInv

\* With one ticket of the attempt, completed now, and the wait for it or one behind it.
LEMMA AwaitsOne ==
  ASSUME NEW i \in 1 .. Len(queue), NEW f \in 1 .. Len(queue), i <= f, Len(queue') = Len(queue),
         \A k \in 1 .. Len(queue) : /\ queue'[k].by = "holder" => k = i
                                    /\ queue'[k].awaited <=> k = f,
         holder' # Nobody, holder'.phase = "queued"
  PROVE  AwaitInv'
  BY DEF AwaitInv

LEMMA OwnersWait ==
  ASSUME Typed, Typed', Owners, holder # Nobody, holder.phase \in {"out", "asking"},
         NEW events \in SUBSET Nat, NEW res \in Results, WaitsOn(events, res)
  PROVE  Owners'
<1>. USE DEF Owners
<1>1. /\ \A k \in 1 .. Len(queue) : OwnedAt(queue[k], holder, capture, late)
      /\ \A k \in 1 .. Len(queue) : ~queue[k].ready => queue[k].events = {}
      /\ \A j, k \in 1 .. Len(queue) :
           queue[j].by = queue[k].by /\ ~queue[j].ready /\ ~queue[k].ready => j = k
  BY OwnedIs DEF OpenInv
<1>2. \A k \in 1 .. Len(queue) : ~queue[k].awaited /\ (queue[k].by = "holder" => ~queue[k].ready)
  BY DEF AwaitInv
<1>3. queue \in Seq(Tickets) /\ Len(queue) \in Nat  BY DEF Typed
<1>4. CASE holder.phase = "out" /\ UNCHANGED <<capture, late>> /\ Waits(queue, events, res)
  <2>1. PICK i, f \in 1 .. Len(queue) : i \in At("holder") /\ i <= f /\ Completed(queue, queue', i, f, events)
    BY <1>3, <1>4, WaitsAre
  <2>2. holder' \in Attempts /\ holder'.phase = "queued" /\ holder' # Nobody
    BY <1>3, <1>4, WaitsAre, SomebodyHolds
  <2>3. queue[i].by = "holder" /\ ~queue[i].ready  BY <2>1 DEF At
  <2>4. /\ Len(queue') = Len(queue)
        /\ \A k \in 1 .. Len(queue) :
             /\ queue'[k].by = queue[k].by /\ (queue'[k].awaited <=> k = f)
             /\ queue'[k].by = "holder" => k = i
             /\ ~queue'[k].ready => ~queue[k].ready /\ queue'[k].by # "holder" /\ queue'[k].events = queue[k].events
    BY <1>1, <1>2, <2>1, <2>3 DEF Completed
  <2>5. AwaitInv'  BY <2>1, <2>2, <2>4, AwaitsOne
  <2>6. OpenInv'
    <3>1. \A k \in 1 .. Len(queue') : OwnedAt(queue'[k], holder', capture', late')
      BY <1>1, <1>4, <2>4 DEF OwnedAt
    <3>. QED  BY <1>1, <2>4, <3>1, OwnedIsNext DEF OpenInv
  <2>7. CaptureInv'  BY <1>4 DEF CaptureInv
  <2>. QED  BY <2>5, <2>6, <2>7
<1>5. CASE SnapshotArrives /\ Waits(Released("capture"), events, res)
  <2>. DEFINE q == Released("capture")
  <2>1. /\ q \in Seq(Tickets) /\ Len(q) = Len(queue)
        /\ \A k \in 1 .. Len(queue) :
              /\ q[k].ready <=> queue[k].ready \/ queue[k].by = "capture"
              /\ q[k].by = queue[k].by /\ q[k].events = queue[k].events /\ q[k].g = queue[k].g
              /\ q[k].awaited = queue[k].awaited /\ q[k].tells = queue[k].tells
    BY ReleasedIs
  <2>2. Waits(q, events, res)  BY <1>5
  <2>. HIDE DEF q
  <2>3. PICK i, f \in 1 .. Len(queue) : i \in At("holder") /\ i <= f /\ Completed(q, queue', i, f, events)
    BY <2>1, <2>2, WaitsAre
  <2>4. holder' \in Attempts /\ holder'.phase = "queued" /\ holder' # Nobody
    BY <2>1, <2>2, WaitsAre, SomebodyHolds
  <2>5. queue[i].by = "holder" /\ ~queue[i].ready  BY <2>3 DEF At
  <2>6. AwaitInv'
    <3>1. \A k \in 1 .. Len(queue) : /\ queue'[k].by = "holder" => k = i
                                     /\ queue'[k].awaited <=> k = f
      BY <1>1, <1>2, <2>1, <2>3, <2>5 DEF Completed
    <3>2. Len(queue') = Len(queue)  BY <2>1, <2>3 DEF Completed
    <3>. QED  BY <2>3, <2>4, <3>1, <3>2, AwaitsOne
  <2>7. UNCHANGED late /\ capture' = NoCapture  BY <1>5 DEF SnapshotArrives, lateVars
  <2>8. /\ Len(queue') = Len(queue)
        /\ \A k \in 1 .. Len(queue) :
             /\ queue'[k].by = queue[k].by
             /\ ~queue'[k].ready => /\ ~queue[k].ready /\ k # i /\ queue[k].by # "capture"
                                    /\ queue'[k].events = queue[k].events
    BY <2>1, <2>3 DEF Completed
  <2>9. \A k \in 1 .. Len(queue') : OwnedAt(queue'[k], holder', capture', late')
    <3>1. \A k \in 1 .. Len(queue) : queue[k].by = "holder" /\ ~queue[k].ready => k = i  BY <1>1, <2>5
    <3>. QED  BY <1>1, <2>7, <2>8, <3>1 DEF OwnedAt
  <2>10. OpenInv'  BY <1>1, <2>8, <2>9, OwnedIsNext DEF OpenInv
  <2>11. CaptureInv'  BY <2>7 DEF CaptureInv, NoCapture
  <2>. QED  BY <2>6, <2>10, <2>11
<1>6. CASE SnapshotTimesOut /\ Waits(Adopted, events, res)
  <2>1. PICK i, f \in 1 .. Len(queue) : i \in At("holder") /\ i <= f /\ Completed(Adopted, queue', i, f, events)
    BY <1>6, AdoptedIs, WaitsAre
  <2>2. holder' \in Attempts /\ holder'.phase = "queued" /\ holder' # Nobody
    BY <1>6, AdoptedIs, WaitsAre, SomebodyHolds
  <2>3. queue[i].by = "holder" /\ ~queue[i].ready  BY <2>1 DEF At
  <2>4. /\ Len(queue') = Len(queue)
         /\ \A k \in 1 .. Len(queue) :
              /\ queue'[k].by = "holder" => k = i
              /\ queue'[k].awaited <=> k = f
    BY <1>1, <1>2, <2>1, <2>3, AdoptedIs DEF Completed
  <2>5. AwaitInv'  BY <2>1, <2>2, <2>4, AwaitsOne
  <2>6. late'.capture = capture /\ capture' = NoCapture  BY <1>6 DEF SnapshotTimesOut
  <2>7. ASSUME NEW k \in 1 .. Len(queue), ~queue'[k].ready
        PROVE  /\ ~queue[k].ready /\ queue[k].by = "capture" /\ capture.done
               /\ queue'[k].by = "late" /\ queue'[k].events = queue[k].events
    <3>1. /\ ~Adopted[k].ready /\ k # i /\ queue'[k].by = Adopted[k].by /\ queue'[k].events = Adopted[k].events
      BY <2>1, <2>7, AdoptedIs DEF Completed
    <3>2. ~queue[k].ready /\ queue[k].by # "late" /\ queue'[k].events = queue[k].events  BY <3>1, AdoptedIs
    <3>3. queue[k].by # "holder"  BY <1>1, <2>3, <3>1, <3>2
    <3>4. queue[k].by = "capture" /\ capture.done  BY <1>1, <3>2, <3>3 DEF OwnedAt
    <3>. QED  BY <3>1, <3>2, <3>4, AdoptedIs
  <2>8. OpenInv'
    <3>1. \A k \in 1 .. Len(queue') : OwnedAt(queue'[k], holder', capture', late')
      BY <2>4, <2>6, <2>7 DEF OwnedAt
    <3>. QED  BY <1>1, <2>4, <2>7, <3>1, OwnedIsNext DEF OpenInv
  <2>9. CaptureInv'  BY <2>6 DEF CaptureInv, NoCapture
  <2>. QED  BY <2>5, <2>8, <2>9
<1>. QED  BY <1>4, <1>5, <1>6 DEF WaitsOn

\* Steps that leave the tickets alone, at most for one of the holder.
LEMMA OwnersMove ==
  ASSUME Typed, Typed', Owners, Bounded, Begin \/ Move
  PROVE  Owners'
<1>. USE DEF Owners
<1>1. /\ \A k \in 1 .. Len(queue) : OwnedAt(queue[k], holder, capture, late)
      /\ \A k \in 1 .. Len(queue) : ~queue[k].ready => queue[k].events = {}
      /\ \A j, k \in 1 .. Len(queue) :
           queue[j].by = queue[k].by /\ ~queue[j].ready /\ ~queue[k].ready => j = k
  BY OwnedIs DEF OpenInv
<1>2. queue \in Seq(Tickets) /\ Len(queue) \in Nat  BY DEF Typed
<1>3. holder \in Attempts \cup {Nobody}  BY DEF Typed
<1>4. CASE Reserves
  <2>1. /\ holder # Nobody /\ holder.phase = "start" /\ holder' = [holder EXCEPT !.phase = "out"]
        /\ queue' = Append(queue, Ticket("holder")) /\ UNCHANGED <<capture, late>>
    BY <1>4 DEF Reserves, lateVars
  <2>2. /\ \A k \in 1 .. Len(queue) : queue[k].by # "holder" /\ ~queue[k].awaited
        /\ ~capture.on /\ ~capture.done
    BY <2>1, Between
  <2>3. holder' \in Attempts /\ holder' # Nobody /\ holder'.phase = "out"
    BY <1>3, <2>1, SomebodyHolds DEF Attempts
  <2>. DEFINE t == Ticket("holder")
  <2>4. t \in Tickets /\ t.by = "holder" /\ ~t.ready /\ t.events = {} /\ ~t.awaited
    BY DEF Ticket, Tickets
  <2>. HIDE DEF t
  <2>5. /\ Len(queue') = Len(queue) + 1 /\ queue'[Len(queue) + 1] = t
        /\ \A k \in 1 .. Len(queue) : queue'[k] = queue[k]
    BY <1>2, <2>1, <2>4, AppendIs DEF t
  <2>6. AwaitInv'  BY <1>2, <2>2, <2>4, <2>5 DEF AwaitInv
  <2>7. \A k \in 1 .. Len(queue') : OwnedAt(queue'[k], holder', capture', late')
    BY <1>1, <1>2, <2>1, <2>2, <2>3, <2>4, <2>5 DEF OwnedAt
  <2>8. OpenInv'  BY <1>1, <1>2, <2>2, <2>4, <2>5, <2>7, OwnedIsNext DEF OpenInv
  <2>9. CaptureInv'  BY <2>1, <2>2 DEF CaptureInv
  <2>. QED  BY <2>6, <2>8, <2>9
<1>5. CASE SnapshotRequested
  <2>1. /\ holder # Nobody /\ holder.how = "snapshot" /\ holder.phase = "out"
        /\ holder' = [holder EXCEPT !.phase = "asking"]
        /\ UNCHANGED <<queue, late>> /\ capture' = [NoCapture EXCEPT !.on = TRUE]
    BY <1>5 DEF SnapshotRequested, Holds, lateVars
  <2>2. capture'.on /\ ~capture'.done  BY <2>1 DEF NoCapture
  <2>3. holder' \in Attempts /\ holder' # Nobody /\ holder'.phase = "asking" /\ holder'.how = "snapshot"
    BY <1>3, <2>1, SomebodyHolds DEF Attempts
  <2>4. ~capture.done  BY <2>1 DEF CaptureInv
  <2>5. AwaitInv'  BY <2>1 DEF AwaitInv
  <2>6. \A k \in 1 .. Len(queue') : OwnedAt(queue'[k], holder', capture', late')
    BY <1>1, <2>1, <2>2, <2>3, <2>4 DEF OwnedAt
  <2>7. OpenInv'  BY <1>1, <2>1, <2>6, OwnedIsNext DEF OpenInv
  <2>8. CaptureInv'  BY <2>2, <2>3 DEF CaptureInv
  <2>. QED  BY <2>5, <2>7, <2>8
<1>6. CASE \/ Begin \/ Clears \/ ClearsRechecked \/ DegradedProceeds \/ FallsBack \/ GivesUp \/ SendMarks
  <2>1. UNCHANGED <<queue, capture, late>> /\ (holder = Nobody \/ holder.phase \in {"done", "recheck", "mark"})
    BY <1>6 DEF Begin, CommandBegins, WorkerBegins, Clears, ClearsRechecked, DegradedProceeds, FallsBack, GivesUp,
         SendMarks, Holds, storeVars, lateVars
  <2>2. /\ \A k \in 1 .. Len(queue) : queue[k].by # "holder" /\ ~queue[k].awaited
        /\ ~capture.on /\ ~capture.done
    BY <2>1, Between
  <2>3. AwaitInv'  BY <2>1, <2>2 DEF AwaitInv
  <2>4. \A k \in 1 .. Len(queue') : OwnedAt(queue'[k], holder', capture', late')
    BY <1>1, <2>1, <2>2 DEF OwnedAt
  <2>5. OpenInv'  BY <1>1, <2>1, <2>4, OwnedIsNext DEF OpenInv
  <2>6. CaptureInv'  BY <2>1, <2>2 DEF CaptureInv
  <2>. QED  BY <2>3, <2>5, <2>6
<1>. QED  BY <1>4, <1>5, <1>6 DEF Move

LEMMA OwnersServe ==
  ASSUME Typed, Typed', Owners, NEW works \in BOOLEAN, Serve(works)
  PROVE  Owners'
<1>. USE DEF Owners
<1>1. /\ \A k \in 1 .. Len(queue) : OwnedAt(queue[k], holder, capture, late)
      /\ \A k \in 1 .. Len(queue) : ~queue[k].ready => queue[k].events = {}
      /\ \A j, k \in 1 .. Len(queue) :
           queue[j].by = queue[k].by /\ ~queue[j].ready /\ ~queue[k].ready => j = k
  BY OwnedIs DEF OpenInv
<1>2. queue \in Seq(Tickets) /\ Len(queue) \in Nat /\ holder \in Attempts \cup {Nobody}  BY DEF Typed
<1>3. /\ Len(queue) > 0 /\ Len(queue') = Len(queue) - 1
      /\ \A k \in 1 .. Len(queue') :
           /\ k + 1 \in 1 .. Len(queue)
           /\ queue'[k].by = queue[k + 1].by /\ queue'[k].ready = queue[k + 1].ready
           /\ queue'[k].events = queue[k + 1].events /\ queue'[k].awaited = queue[k + 1].awaited
  BY ServedIs
<1>4. UNCHANGED <<capture, late>>  BY DEF Serve
<1>5. queue[1].ready  BY ServedIs DEF Serve
<1>6. /\ holder = Nobody => holder' = Nobody
      /\ holder # Nobody => /\ holder' # Nobody /\ holder'.how = holder.how
                            /\ holder'.phase = IF queue[1].awaited THEN "done" ELSE holder.phase
  <2>1. queue[1] = Head(queue)  BY ServedIs
  <2>. QED  BY <1>2, <2>1, SomebodyHolds DEF Serve, Attempts
<1>7. \A k \in 1 .. Len(queue') : ~queue'[k].ready => queue'[k].events = {}  BY <1>1, <1>3
<1>8. ASSUME NEW j \in 1 .. Len(queue'), NEW k \in 1 .. Len(queue'),
             queue'[j].by = queue'[k].by, ~queue'[j].ready, ~queue'[k].ready
      PROVE  j = k
  <2>1. j + 1 = k + 1  BY <1>1, <1>3, <1>8
  <2>. QED  BY <2>1
<1>9. CASE queue[1].awaited
  <2>1. holder # Nobody /\ holder.phase = "queued"  BY <1>3, <1>9 DEF AwaitInv
  <2>2. \A k \in 1 .. Len(queue) : queue[k].by = "holder" => queue[k].ready
    BY <1>1, <2>1 DEF OwnedAt
  <2>3. \A k \in 1 .. Len(queue') : queue'[k].by # "holder" /\ ~queue'[k].awaited
    BY <1>3, <1>9, <2>2 DEF AwaitInv
  <2>4. AwaitInv'  BY <2>3 DEF AwaitInv
  <2>5. \A k \in 1 .. Len(queue') : OwnedAt(queue'[k], holder', capture', late')
    BY <1>1, <1>3, <1>4, <2>3 DEF OwnedAt
  <2>6. ~capture.on  BY <2>1 DEF CaptureInv
  <2>7. CaptureInv'  BY <1>4, <2>6 DEF CaptureInv
  <2>8. OpenInv'  BY <1>7, <1>8, <2>5, OwnedIsNext DEF OpenInv
  <2>. QED  BY <2>4, <2>7, <2>8
<1>10. CASE ~queue[1].awaited
  <2>1. \A k \in 1 .. Len(queue') : queue'[k].by = "holder" /\ queue'[k].ready =>
          \E j \in k .. Len(queue') : queue'[j].awaited
    <3>. SUFFICES ASSUME NEW k \in 1 .. Len(queue'), queue'[k].by = "holder", queue'[k].ready
                  PROVE  \E j \in k .. Len(queue') : queue'[j].awaited
      OBVIOUS
    <3>. k + 1 \in 1 .. Len(queue) /\ queue[k + 1].by = "holder" /\ queue[k + 1].ready  BY <1>3
    <3>1. PICK j \in k + 1 .. Len(queue) : queue[j].awaited  BY DEF AwaitInv
    <3>2. j \in Int /\ j >= k + 1 /\ j <= Len(queue) /\ Len(queue') = Len(queue) - 1  BY <1>2, <1>3, <3>1
    <3>3. j - 1 \in k .. Len(queue') /\ (j - 1) + 1 = j  BY <1>2, <3>2
    <3>4. j - 1 \in 1 .. Len(queue')  BY <3>3
    <3>5. queue'[j - 1].awaited = queue[(j - 1) + 1].awaited  BY <1>3, <3>4
    <3>6. queue'[j - 1].awaited  BY <3>1, <3>3, <3>5
    <3>. QED  BY <3>3, <3>6
  <2>2. AwaitInv'
    <3>1. ASSUME NEW k \in 1 .. Len(queue'), queue'[k].awaited \/ (queue'[k].by = "holder" /\ queue'[k].ready)
          PROVE  holder' # Nobody /\ holder'.phase = "queued"
      BY <1>3, <1>6, <1>10, <3>1 DEF AwaitInv
    <3>2. ASSUME NEW j \in 1 .. Len(queue'), NEW k \in 1 .. Len(queue'), queue'[j].awaited, queue'[k].awaited
          PROVE  j = k
      <4>1. j + 1 = k + 1  BY <1>3, <3>2 DEF AwaitInv
      <4>. QED  BY <4>1
    <3>. QED  BY <2>1, <3>1, <3>2 DEF AwaitInv
  <2>3. \A k \in 1 .. Len(queue') : OwnedAt(queue'[k], holder', capture', late')
    BY <1>1, <1>3, <1>4, <1>6, <1>10 DEF OwnedAt
  <2>4. OpenInv'  BY <1>7, <1>8, <2>3, OwnedIsNext DEF OpenInv
  <2>5. CaptureInv'  BY <1>4, <1>6, <1>10 DEF CaptureInv
  <2>. QED  BY <2>2, <2>4, <2>5
<1>. QED  BY <1>9, <1>10

LEMMA OwnersHandle ==
  ASSUME Typed, Typed', Bounded, Owners, HandlerMarks \/ HandlerUnmarked \/ HandlerCompletes
  PROVE  Owners'
<1>. USE DEF Owners
<1>1. /\ \A k \in 1 .. Len(queue) : OwnedAt(queue[k], holder, capture, late)
      /\ \A k \in 1 .. Len(queue) : ~queue[k].ready => queue[k].events = {}
      /\ \A j, k \in 1 .. Len(queue) :
           queue[j].by = queue[k].by /\ ~queue[j].ready /\ ~queue[k].ready => j = k
  BY OwnedIs DEF OpenInv
<1>2. queue \in Seq(Tickets) /\ Len(queue) \in Nat /\ NewId \in Nat  BY NewIdIsNew DEF Typed
<1>3. capture \in Frames /\ late \in [g : Nat, capture : Frames]  BY DEF Typed
<1>4. UNCHANGED holder  BY DEF HandlerMarks, HandlerUnmarked, HandlerCompletes
<1>5. CASE HandlerMarks \/ HandlerUnmarked
  <2>1. NextEvent \in Nat  BY <1>5, TypedEvents DEF HandlerMarks, HandlerUnmarked
  <2>2. PICK g \in {NewId, 0} : queue' = Append(queue, Live(NextEvent, g))
    BY <1>5 DEF HandlerMarks, HandlerUnmarked
  <2>. DEFINE t == Live(NextEvent, g)
  <2>3. t \in Tickets /\ t.by = "live" /\ t.ready /\ ~t.awaited
    <3>1. g \in Nat  BY <1>2, <2>2
    <3>. QED  BY <2>1, <3>1, NewTickets
  <2>. HIDE DEF t
  <2>4. /\ Len(queue') = Len(queue) + 1 /\ queue'[Len(queue) + 1] = t
        /\ \A k \in 1 .. Len(queue) : queue'[k] = queue[k]
    BY <1>2, <2>2, <2>3, AppendIs DEF t
  <2>5. CapturesHear  BY <1>5 DEF HandlerMarks, HandlerUnmarked
  <2>6. \A c \in Frames : Hears(c).on = c.on /\ Hears(c).done = c.done  BY DEF Hears, Frames
  <2>7. capture'.on = capture.on /\ capture'.done = capture.done /\ late'.capture.done = late.capture.done
    BY <1>3, <2>5, <2>6 DEF CapturesHear
  <2>8. AwaitInv'
    <3>1. ASSUME NEW k \in 1 .. Len(queue'), queue'[k].awaited \/ (queue'[k].by = "holder" /\ queue'[k].ready)
          PROVE  k \in 1 .. Len(queue) /\ queue'[k] = queue[k]
      BY <1>2, <2>3, <2>4, <3>1
    <3>2. \A k \in 1 .. Len(queue) : k \in 1 .. Len(queue')  BY <1>2, <2>4
    <3>. QED  BY <1>2, <1>4, <2>4, <3>1, <3>2 DEF AwaitInv
  <2>9. \A k \in 1 .. Len(queue') : OwnedAt(queue'[k], holder', capture', late')
    BY <1>1, <1>2, <1>4, <2>3, <2>4, <2>7 DEF OwnedAt
  <2>10. OpenInv'  BY <1>1, <1>2, <2>3, <2>4, <2>9, OwnedIsNext DEF OpenInv
  <2>11. CaptureInv'  BY <1>4, <2>7 DEF CaptureInv
  <2>. QED  BY <2>8, <2>10, <2>11
<1>6. CASE HandlerCompletes
  <2>1. \A c \in Frames : Closed(c).on = c.on /\ Closed(c).done = (c.done \/ c.on)  BY DEF Closed, Frames
  <2>2. /\ capture'.on = capture.on /\ capture'.done = (capture.done \/ capture.on)
        /\ late'.capture.done = (late.capture.done \/ late.capture.on)
    BY <1>3, <1>6, <2>1 DEF HandlerCompletes
  <2>3. /\ Len(queue') \in Nat /\ Len(queue') >= Len(queue)
        /\ \A k \in 1 .. Len(queue) : queue'[k] = queue[k]
        /\ \A k \in Len(queue) + 1 .. Len(queue') :
             /\ ~queue'[k].ready /\ queue'[k].events = {} /\ ~queue'[k].awaited
             /\ \/ queue'[k].by = "late" /\ late.capture.on /\ ~late.capture.done
                \/ queue'[k].by = "capture" /\ capture.on /\ ~capture.done
        /\ \A j, k \in Len(queue) + 1 .. Len(queue') : queue'[j].by = queue'[k].by => j = k
    BY <1>6, ClosedIs
  <2>4. AwaitInv'
    <3>1. ASSUME NEW k \in 1 .. Len(queue'), queue'[k].awaited \/ (queue'[k].by = "holder" /\ queue'[k].ready)
          PROVE  k \in 1 .. Len(queue) /\ queue'[k] = queue[k]
      BY <1>2, <2>3, <3>1
    <3>2. \A k \in 1 .. Len(queue) : k \in 1 .. Len(queue')  BY <1>2, <2>3
    <3>3. \A k \in 1 .. Len(queue) : \A j \in k .. Len(queue) : j \in k .. Len(queue')  BY <1>2, <2>3
    <3>4. \A k \in 1 .. Len(queue') : queue'[k].awaited => holder' # Nobody /\ holder'.phase = "queued"
      BY <1>4, <3>1 DEF AwaitInv
    <3>5. ASSUME NEW k \in 1 .. Len(queue'), queue'[k].by = "holder", queue'[k].ready
          PROVE  holder' # Nobody /\ holder'.phase = "queued" /\ \E j \in k .. Len(queue') : queue'[j].awaited
      <4>1. k \in 1 .. Len(queue) /\ queue'[k] = queue[k]  BY <3>1, <3>5
      <4>2. holder # Nobody /\ holder.phase = "queued"  BY <3>5, <4>1 DEF AwaitInv
      <4>3. PICK j \in k .. Len(queue) : queue[j].awaited  BY <3>5, <4>1 DEF AwaitInv
      <4>4. j \in 1 .. Len(queue) /\ j \in k .. Len(queue')  BY <1>2, <3>3, <4>1
      <4>5. queue'[j].awaited  BY <2>3, <4>3, <4>4
      <4>. QED  BY <1>4, <4>2, <4>4, <4>5
    <3>6. ASSUME NEW j \in 1 .. Len(queue'), NEW k \in 1 .. Len(queue'), queue'[j].awaited, queue'[k].awaited
          PROVE  j = k
      BY <3>1, <3>6 DEF AwaitInv
    <3>. QED  BY <3>4, <3>5, <3>6 DEF AwaitInv
  <2>5. \A k \in 1 .. Len(queue') : OwnedAt(queue'[k], holder', capture', late')
    <3>1. \A k \in 1 .. Len(queue) : OwnedAt(queue'[k], holder', capture', late')
      BY <1>1, <1>4, <2>2, <2>3 DEF OwnedAt
    <3>2. \A k \in Len(queue) + 1 .. Len(queue') : OwnedAt(queue'[k], holder', capture', late')
      BY <2>2, <2>3 DEF OwnedAt
    <3>. QED  BY <1>2, <2>3, <3>1, <3>2
  <2>6. ASSUME NEW j \in 1 .. Len(queue'), NEW k \in 1 .. Len(queue'),
               queue'[j].by = queue'[k].by, ~queue'[j].ready, ~queue'[k].ready
        PROVE  j = k
    <3>1. CASE j \in 1 .. Len(queue) /\ k \in 1 .. Len(queue)  BY <1>1, <2>3, <2>6, <3>1
    <3>2. \A m \in 1 .. Len(queue), n \in Len(queue) + 1 .. Len(queue') :
            ~(queue'[m].by = queue'[n].by /\ ~queue'[m].ready)
      BY <1>1, <2>3 DEF OwnedAt
    <3>. QED  BY <1>2, <2>3, <2>6, <3>1, <3>2
  <2>7. OpenInv'
    <3>1. \A k \in 1 .. Len(queue') : ~queue'[k].ready => queue'[k].events = {}  BY <1>1, <1>2, <2>3
    <3>. QED  BY <2>5, <2>6, <3>1, OwnedIsNext DEF OpenInv
  <2>8. CaptureInv'  BY <1>4, <2>2 DEF CaptureInv
  <2>. QED  BY <2>4, <2>7, <2>8
<1>. QED  BY <1>5, <1>6

LEMMA OwnersLeave ==
  ASSUME Typed, Typed', Owners, FetchAbandoned \/ LateArrives \/ LateExpires \/ Crash
  PROVE  Owners'
<1>. USE DEF Owners
<1>1. /\ \A k \in 1 .. Len(queue) : OwnedAt(queue[k], holder, capture, late)
      /\ \A k \in 1 .. Len(queue) : ~queue[k].ready => queue[k].events = {}
      /\ \A j, k \in 1 .. Len(queue) :
           queue[j].by = queue[k].by /\ ~queue[j].ready /\ ~queue[k].ready => j = k
  BY OwnedIs DEF OpenInv
<1>2. queue \in Seq(Tickets) /\ Len(queue) \in Nat  BY DEF Typed
<1>3. CASE FetchAbandoned
  <2>1. holder.phase = "queued" /\ holder' = Nobody /\ UNCHANGED <<capture, late>> /\ queue' = Abandoned
    BY <1>3 DEF FetchAbandoned, Holds, Ends, lateVars
  <2>2. ~capture.on /\ ~capture.done  BY <2>1 DEF CaptureInv
  <2>3. /\ Len(queue') = Len(queue)
        /\ \A k \in 1 .. Len(queue) :
             /\ queue'[k].by = IF queue[k].by = "holder" THEN "orphan" ELSE queue[k].by
             /\ queue'[k].ready = queue[k].ready /\ queue'[k].events = queue[k].events /\ ~queue'[k].awaited
    BY <2>1, AbandonedIs
  <2>4. \A k \in 1 .. Len(queue) : ~queue[k].ready => queue[k].by = "late" /\ late.capture.done
    BY <1>1, <2>1, <2>2 DEF OwnedAt
  <2>5. AwaitInv'  BY <2>3 DEF AwaitInv
  <2>6. \A k \in 1 .. Len(queue') : OwnedAt(queue'[k], holder', capture', late')
    BY <2>1, <2>3, <2>4 DEF OwnedAt
  <2>7. OpenInv'  BY <1>1, <2>3, <2>4, <2>6, OwnedIsNext DEF OpenInv
  <2>8. CaptureInv'  BY <2>1, <2>2 DEF CaptureInv
  <2>. QED  BY <2>5, <2>7, <2>8
<1>4. ASSUME UNCHANGED <<holder, capture>>, Len(queue') = Len(queue),
             \A k \in 1 .. Len(queue) :
               /\ queue'[k].by = queue[k].by /\ queue'[k].awaited = queue[k].awaited
               /\ queue[k].by # "late" => queue'[k].ready = queue[k].ready /\ queue'[k].events = queue[k].events
               /\ queue[k].by = "late" => queue'[k].ready
      PROVE  Owners'
  <2>1. AwaitInv'  BY <1>4 DEF AwaitInv
  <2>2. \A k \in 1 .. Len(queue') : OwnedAt(queue'[k], holder', capture', late')
    BY <1>1, <1>4 DEF OwnedAt
  <2>3. OpenInv'  BY <1>1, <1>4, <2>2, OwnedIsNext DEF OpenInv
  <2>4. CaptureInv'  BY <1>4 DEF CaptureInv
  <2>. QED  BY <2>1, <2>3, <2>4
<1>5. CASE LateArrives
  <2>1. PICK i \in 1 .. Len(queue), f \in 1 .. Len(queue) : i \in At("late") /\ Told(queue, queue', i, f, late.g)
    BY <1>5, LateArrivesIs
  <2>2. queue[i].by = "late" /\ ~queue[i].ready  BY <2>1 DEF At
  <2>3. \A k \in 1 .. Len(queue) : queue[k].by = "late" => queue[k].ready \/ k = i  BY <1>1, <2>2
  <2>4. UNCHANGED <<holder, capture>>  BY <1>5 DEF LateArrives
  <2>5. /\ Len(queue') = Len(queue)
        /\ \A k \in 1 .. Len(queue) :
               /\ queue'[k].by = queue[k].by /\ queue'[k].awaited = queue[k].awaited
               /\ queue[k].by # "late" => queue'[k].ready = queue[k].ready /\ queue'[k].events = queue[k].events
               /\ queue[k].by = "late" => queue'[k].ready
    <3>1. \A k \in 1 .. Len(queue) : queue[k] \in Tickets /\ queue'[k] \in Tickets
      BY <1>2, <2>1 DEF Told
    <3>2. \A k \in 1 .. Len(queue) : queue[k].ready \in BOOLEAN /\ queue'[k].ready \in BOOLEAN
      BY <3>1 DEF Tickets
    <3>3. ASSUME NEW k \in 1 .. Len(queue)
          PROVE  /\ queue'[k].by = queue[k].by /\ queue'[k].awaited = queue[k].awaited
                 /\ queue[k].by # "late" => queue'[k].ready = queue[k].ready /\ queue'[k].events = queue[k].events
                 /\ queue[k].by = "late" => queue'[k].ready
      <4>1. /\ queue'[k].by = queue[k].by /\ queue'[k].awaited = queue[k].awaited
            /\ queue'[k].ready <=> queue[k].ready \/ k = i
            /\ k # i => queue'[k].events = queue[k].events
        BY <2>1 DEF Told
      <4>2. queue[k].by # "late" => k # i  BY <2>2
      <4>. QED  BY <2>3, <3>2, <4>1, <4>2
    <3>. QED  BY <2>1, <3>3 DEF Told
  <2>. QED  BY <1>4, <2>4, <2>5
<1>6. CASE LateExpires
  <2>1. UNCHANGED <<holder, capture>> /\ queue' = Released("late")  BY <1>6 DEF LateExpires
  <2>2. /\ Len(queue') = Len(queue)
        /\ \A k \in 1 .. Len(queue) :
               /\ queue'[k].by = queue[k].by /\ queue'[k].awaited = queue[k].awaited
               /\ queue[k].by # "late" => queue'[k].ready = queue[k].ready /\ queue'[k].events = queue[k].events
               /\ queue[k].by = "late" => queue'[k].ready
    <3>1. /\ queue' \in Seq(Tickets) /\ Len(queue') = Len(queue)
          /\ \A k \in 1 .. Len(queue) :
              /\ queue'[k].ready <=> queue[k].ready \/ queue[k].by = "late"
              /\ queue'[k].by = queue[k].by /\ queue'[k].events = queue[k].events
              /\ queue'[k].awaited = queue[k].awaited
      BY <2>1, ReleasedIs
    <3>2. \A k \in 1 .. Len(queue) : queue[k] \in Tickets /\ queue'[k] \in Tickets  BY <1>2, <3>1
    <3>3. \A k \in 1 .. Len(queue) : queue[k].ready \in BOOLEAN /\ queue'[k].ready \in BOOLEAN
      BY <3>2 DEF Tickets
    <3>. QED  BY <3>1, <3>3
  <2>. QED  BY <1>4, <2>1, <2>2
<1>7. CASE Crash
  <2>1. Len(queue') = 0 /\ capture' = NoCapture  BY <1>7 DEF Crash
  <2>. QED  BY <2>1, OwnedIsNext DEF AwaitInv, OpenInv, CaptureInv, NoCapture
<1>. QED  BY <1>3, <1>5, <1>6, <1>7

LEMMA OwnersStep ==
  ASSUME Typed, Bounded, Owners, [Next]_vars
  PROVE  Owners'
<1>1. Typed'  BY TypedStep
<1>2. CASE UNCHANGED <<queue, holder, capture, late>>
  BY <1>2 DEF Owners, AwaitInv, OpenInv, TicketsOwned, CaptureInv
<1>3. CASE Server \/ LateClears \/ UNCHANGED vars
  <2>1. UNCHANGED <<queue, holder, capture, late>>
    BY <1>3 DEF Server, OtherDeviceWrites, LiveFetch, PrimaryAnswers, LateClears, vars, lateVars
  <2>. QED  BY <1>2, <2>1
<1>4. CASE WaitStep  BY <1>1, <1>4, WaitStepIs, OwnersWait
<1>5. ASSUME NEW works \in BOOLEAN, Serve(works) PROVE Owners'  BY <1>1, <1>5, OwnersServe
<1>6. CASE Begin \/ Move  BY <1>1, <1>6, OwnersMove
<1>7. CASE HandlerMarks \/ HandlerUnmarked \/ HandlerCompletes  BY <1>1, <1>7, OwnersHandle
<1>8. CASE FetchAbandoned \/ LateArrives \/ LateExpires \/ Crash  BY <1>1, <1>8, OwnersLeave
<1>. QED  BY <1>3, <1>4, <1>5, <1>6, <1>7, <1>8, NextIs

-----------------------------------------------------------------------------
(* Generations. *)

LEMMA GensAreKnown ==
  ASSUME Typed
  PROVE  Gens \subseteq Known
  BY KnownHas DEF Gens

LEMMA GensMove ==
  ASSUME Typed, Bounded, [Next]_vars, NEW t \in Gens'
  PROVE  t \in Gens \/ t = 0 \/ (SnapshotTimesOut /\ t = holder.g /\ holder # Nobody /\ holder.how = "snapshot")
<1>1. CASE t \in owed'  BY <1>1, OwedMove DEF Gens
<1>2. CASE t = late'.g  BY <1>2, OwedMove DEF Gens
<1>3. ASSUME NEW k \in 1 .. Len(queue'), t \in queue'[k].tells PROVE t \in Gens
  <2>1. CASE Fresh(queue'[k])  BY <1>3, <2>1 DEF Fresh
  <2>2. ASSUME NEW j \in 1 .. Len(queue), Stems(queue[j], queue'[k], Extra) PROVE t \in Gens
    BY <1>3, <2>2 DEF Stems, Extra, Gens
  <2>. QED  BY <2>1, <2>2, TicketsStem
<1>. QED  BY <1>1, <1>2, <1>3 DEF Gens

LEMMA OrderStep ==
  ASSUME Typed, Bounded, OrderInv, [Next]_vars
  PROVE  OrderInv'
<1>1. /\ Known \subseteq Nat /\ NewId \in Nat \ {0}
      /\ \A i \in Known : i < NewId
  BY NewIdIsNew
<1>. SUFFICES ASSUME Recovers'
              PROVE  /\ \A t \in Gens' : t <= holder'.g
                     /\ \A k \in 1 .. Len(queue') : queue'[k].by = "live" => queue'[k].g # holder'.g
  BY DEF OrderInv
<1>2. holder' # Nobody /\ holder'.how # "send"  BY DEF Recovers
<1>3. CASE Begin
  <2>1. holder = Nobody /\ holder'.g = NewId  BY <1>2, <1>3, HolderKeeps
  <2>2. \A t \in Gens' : t \in Gens \/ t = 0  BY <2>1, GensMove
  <2>3. ASSUME NEW t \in Gens' PROVE t <= holder'.g
    <3>1. CASE t = 0  BY <1>1, <2>1, <3>1
    <3>2. CASE t \in Gens
      <4>1. t \in Known /\ t \in Nat /\ t < NewId  BY <1>1, <3>2, GensAreKnown
      <4>. QED  BY <1>1, <2>1, <4>1
    <3>. QED  BY <2>2, <3>1, <3>2
  <2>4. UNCHANGED queue  BY <1>3 DEF Begin, CommandBegins, WorkerBegins
  <2>5. \A k \in 1 .. Len(queue) : queue[k].g < NewId  BY <1>1, KnownHas
  <2>6. \A k \in 1 .. Len(queue) : queue[k].g \in Nat  BY <1>1, KnownHas
  <2>. QED  BY <1>1, <2>1, <2>3, <2>4, <2>5, <2>6
<1>4. CASE ~Begin
  <2>1. Recovers /\ holder'.g = holder.g  BY <1>2, <1>4, HolderKeeps DEF Recovers
  <2>2. holder.g \in Known /\ holder.g \in Nat \ {0}
    <3>1. holder \in Attempts  BY <2>1 DEF Recovers, Typed
    <3>. QED  BY <2>1, <3>1, KnownHas DEF Recovers, Attempts
  <2>3. \A t \in Gens' : t <= holder'.g
    <3>1. \A t \in Gens' : t \in Gens \/ t = 0 \/ t = holder.g  BY GensMove
    <3>. QED  BY <2>1, <2>2, <3>1 DEF OrderInv
  <2>4. ASSUME NEW k \in 1 .. Len(queue'), queue'[k].by = "live" PROVE queue'[k].g # holder.g
    <3>1. CASE Fresh(queue'[k])
      <4>1. queue'[k].g \in {NewId, 0}  BY <2>4, <3>1 DEF Fresh
      <4>. QED  BY <1>1, <2>2, <4>1
    <3>2. ASSUME NEW j \in 1 .. Len(queue), Stems(queue[j], queue'[k], Extra) PROVE queue'[k].g # holder.g
      BY <2>1, <2>4, <3>2 DEF Stems, OrderInv
    <3>. QED  BY <3>1, <3>2, TicketsStem
  <2>. QED  BY <2>1, <2>3, <2>4
<1>. QED  BY <1>3, <1>4

-----------------------------------------------------------------------------
(* Debts: what whatsmeow will not hand over again. *)

\* All that could be forgotten: the last mutation of each chat up to the cursor.
Needs == {Latest(c, cursor) : c \in Chats} \ {0}

\* No live event's task clears intent i without having written m.
Covers(q, i, m) == \A k \in 1 .. Len(q) : q[k].by = "live" /\ q[k].g = i => m \in q[k].events
\* An intent other than x says that m is owed, and outlives a continuation of t.
Remembers(t, x, m) == \E i \in intents : i > t /\ i # x /\ Covers(queue, i, m)
Held(E, t, x) == \A m \in Needs : m \in saved \cup ToSet(outbox) \cup E \/ Remembers(t, x, m)

\* The intent of an attempt under way: nothing clears it, and it is the newest.
Frees(i) ==
  /\ i \in intents
  /\ \A k \in 1 .. Len(queue) : queue[k].by = "live" => queue[k].g # i
  /\ \A t \in Gens : t < i

\* What the attempt's own task is going to write.
HolderEvents == UNION {queue[k].events : k \in {j \in 1 .. Len(queue) : queue[j].by = "holder"}}

Ending == 0 \in ToSet(outbox)
Hearing(c) == c.on /\ (c.done \/ Ending)

Recovering(how, phase) == holder # Nobody /\ holder.how \in how /\ holder.phase \in phase
Written(how) == Recovering(how, {"queued", "done"}) /\ holder.res = "ok"

\* Generations that may yet clear every older intent.
Threat(t) ==
  \/ t = 0
  \/ t \in owed \/ \E k \in 1 .. Len(queue) : t \in queue[k].tells
  \/ t = late.g /\ Hearing(late.capture)
  \/ /\ holder # Nobody /\ t = holder.g
     /\ Hearing(capture) \/ Written({"snapshot"}) \/ Recovering({"incremental"}, {"start", "out"})

Fetched == Written({"incremental"} \cup Full)
Degrading == Recovering({"degraded"}, {"start", "out"}) \/ Written({"degraded"})

ThreatsHeld == \A t \in Nat : Threat(t) => Held({}, t, 0)
FetchedHeld == Fetched => Held(HolderEvents, holder.g, 0)
DegradedHeld == Degrading => \A t \in Nat : Threat(t) => Held(HolderEvents, t, holder.g)
AttemptFree == Recovering(Incremental \cup Full, {"start", "out", "queued"}) => Frees(holder.g)
SendFree == Recovering({"send"}, {"start", "out"}) => \E i \in intents : Frees(i)

\* A continuation whose capture is closed has been opened.
LateInv == late.capture.done => late.capture.on

Debts == ~exposed => ThreatsHeld /\ FetchedHeld /\ DegradedHeld /\ AttemptFree /\ SendFree

IInv == Typed /\ Bounded /\ Owners /\ OrderInv /\ LateInv /\ Debts

LEMMA NeedsAre ==
  ASSUME Typed
  PROVE  Needs \subseteq 1 .. cursor
<1>1. cursor \in Nat  BY DEF Typed
<1>2. \A c : Latest(c, cursor) \in 0 .. cursor  BY <1>1, LastOfIs, LatestIs
<1>. QED  BY <1>1, <1>2 DEF Needs

\* Between two versions the last mutation of a chat is new or stays.
LEMMA LatestGrows ==
  ASSUME NEW l, NEW c, NEW v \in Nat, NEW w \in Nat, v <= w
  PROVE  LastOf(l, c, w) \in {0, LastOf(l, c, v)} \cup v + 1 .. w
<1>1. w \in Nat /\ v <= w  OBVIOUS
<1>. DEFINE m == LastOf(l, c, w)  n == LastOf(l, c, v)
<1>2. /\ m \in 0 .. w /\ (m # 0 => l[m] = c)
      /\ \A i \in 1 .. w : l[i] = c => i <= m
  BY <1>1, LastOfIs
<1>3. /\ n \in 0 .. v /\ (n # 0 => l[n] = c)
      /\ \A i \in 1 .. v : l[i] = c => i <= n
  BY LastOfIs
<1>. HIDE DEF m, n
<1>4. CASE m \in 1 .. v
  <2>1. m <= n  BY <1>2, <1>3, <1>4
  <2>2. n \in 1 .. w /\ l[n] = c  BY <1>1, <1>3, <1>4, <2>1
  <2>3. n <= m  BY <1>2, <2>2
  <2>. QED  BY <1>2, <1>3, <2>1, <2>3 DEF m, n
<1>5. CASE m \notin 1 .. v
  BY <1>1, <1>2, <1>5 DEF m
<1>. QED  BY <1>4, <1>5

LEMMA LatestStays ==
  ASSUME NEW l \in Seq(Chats), NEW d \in Chats, NEW c, NEW v \in 0 .. Len(l)
  PROVE  LastOf(Append(l, d), c, v) = LastOf(l, c, v)
<1>1. \A i \in 1 .. v : Append(l, d)[i] = l[i]  OBVIOUS
<1>2. {i \in 1 .. v : Append(l, d)[i] = c} = {i \in 1 .. v : l[i] = c}  BY <1>1
<1>. QED  BY <1>2 DEF LastOf

LEMMA NothingAtZero == ASSUME NEW l, NEW c PROVE LastOf(l, c, 0) = 0
  BY LastOfIs

LEMMA NeedsIs ==
  /\ Needs = {LastOf(log, c, cursor) : c \in Chats} \ {0}
  /\ Needs' = {LastOf(log', c, cursor') : c \in Chats} \ {0}
  BY DEF Needs, Latest, LastOf

\* The steps that whatsmeow's cursor takes.
LEMMA CursorMoves ==
  ASSUME [Next]_vars
  PROVE  \/ UNCHANGED <<log, cursor>>
         \/ OtherDeviceWrites \/ SendFails
         \/ \E res \in Failures : FetchFails(res)
         \/ LiveFetch \/ PrimaryAnswers \/ FetchSucceeds \/ SendSucceeds
<1>1. CASE HandlerMarks \/ HandlerUnmarked \/ HandlerCompletes
  BY <1>1 DEF HandlerMarks, HandlerUnmarked, HandlerCompletes
<1>2. ASSUME NEW works \in BOOLEAN, Serve(works) PROVE UNCHANGED <<log, cursor>>
  BY <1>2 DEF Serve, serverVars
<1>3. CASE Begin \/ Move \/ FetchAbandoned \/ LateArrives \/ LateExpires \/ LateClears \/ Crash \/ UNCHANGED vars
  BY <1>3 DEF Begin, CommandBegins, WorkerBegins, Move, Reserves, SnapshotRequested, Clears, ClearsRechecked,
       DegradedProceeds, FallsBack, GivesUp, SendMarks, FetchAbandoned, LateArrives, LateExpires, LateClears, Crash,
       vars, serverVars
<1>4. CASE RequestFails \/ SnapshotArrives \/ SnapshotTimesOut
  BY <1>4 DEF RequestFails, SnapshotArrives, SnapshotTimesOut, serverVars
<1>. QED  BY <1>1, <1>2, <1>3, <1>4, NextIs DEF Server, WaitStep

\* A snapshot that whatsmeow adopts is dispatched with all that could be needed.
LEMMA AnswerCovers ==
  ASSUME Typed, PrimaryAnswers, ~UNCHANGED <<cursor, outbox>>
  PROVE  Needs' \subseteq ToSet(outbox')
<1>1. Len(log) \in Nat /\ cursor \in Nat /\ UNCHANGED log  BY DEF Typed, PrimaryAnswers
<1>2. PICK s \in Behind : cursor' = s /\ outbox' = Append(InOrder(StateAt(s)), Sentinel)
  BY DEF PrimaryAnswers
<1>3. s \in 1 .. Len(log)  BY <1>1 DEF Behind
<1>4. \A d : Latest(d, s) \in 0 .. s  BY <1>3, LastOfIs, LatestIs
<1>5. StateAt(s) \subseteq 0 .. s  BY <1>4 DEF StateAt
<1>. DEFINE q == InOrder(StateAt(s))
<1>6. ToSet(q) = StateAt(s) /\ q \in Seq(StateAt(s))  BY <1>3, <1>5, InOrderHas
<1>7. Needs' = StateAt(s)  BY <1>1, <1>2, NeedsIs, LatestIs DEF StateAt
<1>. HIDE DEF q
<1>8. \A m \in ToSet(q) : m \in ToSet(Append(q, Sentinel))  BY <1>6 DEF ToSet
<1>. QED  BY <1>2, <1>6, <1>7, <1>8 DEF q

\* What is new among the needs is dispatched, or an attempt's or a send's.
LEMMA NeedsMove ==
  ASSUME Typed, [Next]_vars, NEW m \in Needs'
  PROVE  \/ m \in Needs
         \/ m \in ToSet(outbox')
         \/ FetchSucceeds /\ m \in Behind
         \/ SendSucceeds
<1>1. log \in Seq(Chats) /\ Len(log) \in Nat /\ cursor \in 0 .. Len(log)  BY DEF Typed
<1>2. PICK c \in Chats : m = LastOf(log', c, cursor') /\ m # 0  BY NeedsIs
<1>3. LastOf(log, c, cursor) # 0 => LastOf(log, c, cursor) \in Needs  BY NeedsIs
<1>4. CASE UNCHANGED <<log, cursor>>  BY <1>2, <1>3, <1>4
<1>5. CASE OtherDeviceWrites \/ SendFails
  <2>1. UNCHANGED cursor /\ (UNCHANGED log \/ \E d \in Chats : log' = Append(log, d))
    BY <1>5 DEF OtherDeviceWrites, SendFails
  <2>2. ASSUME NEW d \in Chats PROVE LastOf(Append(log, d), c, cursor) = LastOf(log, c, cursor)
    <3>1. cursor \in 0 .. Len(log) /\ log \in Seq(Chats)  BY <1>1
    <3>. QED  BY <3>1, LatestStays, Zenon
  <2>3. LastOf(log', c, cursor) = LastOf(log, c, cursor)
    <3>1. CASE log' = log  BY <3>1
    <3>2. ASSUME NEW d \in Chats, log' = Append(log, d)
          PROVE  LastOf(log', c, cursor) = LastOf(log, c, cursor)
      BY <2>2, <3>2
    <3>. QED  BY <2>1, <3>1, <3>2
  <2>. QED  BY <1>2, <1>3, <2>1, <2>3
<1>6. ASSUME NEW res \in Failures, FetchFails(res) PROVE m \in Needs
  <2>1. cursor' \in {0, cursor} /\ UNCHANGED log  BY <1>6 DEF FetchFails
  <2>. QED  BY <1>2, <1>3, <2>1, NothingAtZero
<1>7. CASE LiveFetch \/ FetchSucceeds
  <2>1. cursor' = Len(log) /\ UNCHANGED log  BY <1>7 DEF LiveFetch, FetchSucceeds
  <2>2. m \in {0, LastOf(log, c, cursor)} \cup cursor + 1 .. Len(log)  BY <1>1, <1>2, <2>1, LatestGrows
  <2>3. CASE m = LastOf(log, c, cursor)  BY <1>2, <1>3, <2>3
  <2>4. CASE m \in Behind
    <3>1. Behind \subseteq 0 .. Len(log)  BY <1>1 DEF Behind
    <3>2. ToSet(InOrder(Behind)) = Behind  BY <1>1, <3>1, InOrderHas
    <3>3. LiveFetch => outbox' = InOrder(Behind)  BY DEF LiveFetch
    <3>. QED  BY <1>7, <2>4, <3>2, <3>3
  <2>. QED  BY <1>2, <2>2, <2>3, <2>4 DEF Behind
<1>8. CASE PrimaryAnswers
  <2>1. CASE UNCHANGED <<cursor, outbox>>  BY <1>4, <1>8, <2>1 DEF PrimaryAnswers
  <2>2. CASE ~UNCHANGED <<cursor, outbox>>  BY <1>8, <2>2, AnswerCovers
  <2>. QED  BY <2>1, <2>2
<1>. QED  BY <1>4, <1>5, <1>6, <1>7, <1>8, CursorMoves

\* After a full sync, the needs are the state that the attempt is going to write.
LEMMA FullNeeds ==
  ASSUME Typed, FetchSucceeds
  PROVE  Needs' = StateAt(Len(log))
<1>1. cursor' = Len(log) /\ UNCHANGED log  BY DEF FetchSucceeds
<1>. QED  BY <1>1, NeedsIs, LatestIs DEF StateAt

-----------------------------------------------------------------------------
(* What is remembered stays remembered. *)

LEMMA SavedGrows ==
  ASSUME [Next]_vars
  PROVE  saved \subseteq saved'
<1>1. CASE Server \/ HandlerMarks \/ HandlerUnmarked \/ HandlerCompletes
  BY <1>1 DEF Server, OtherDeviceWrites, LiveFetch, PrimaryAnswers, HandlerMarks, HandlerUnmarked, HandlerCompletes, storeVars
<1>2. ASSUME NEW works \in BOOLEAN, Serve(works) PROVE saved \subseteq saved'
  BY <1>2 DEF Serve
<1>3. CASE Begin \/ Move \/ FetchAbandoned \/ LateArrives \/ LateExpires \/ LateClears \/ Crash \/ UNCHANGED vars
  BY <1>3 DEF Begin, CommandBegins, WorkerBegins, Move, Reserves, SnapshotRequested, Clears, ClearsRechecked,
       DegradedProceeds, FallsBack, GivesUp, SendMarks, FetchAbandoned, LateArrives, LateExpires, LateClears, Crash,
       vars, storeVars
<1>4. CASE WaitStep
  BY <1>4 DEF WaitStep, FetchSucceeds, FetchFails, RequestFails, SnapshotArrives, SnapshotTimesOut, SendSucceeds,
       SendFails, storeVars
<1>. QED  BY <1>1, <1>2, <1>3, <1>4, NextIs

\* History: once exposed, always.
LEMMA ExposedStays ==
  ASSUME [Next]_vars, exposed
  PROVE  exposed'
<1>1. CASE Server \/ HandlerMarks \/ HandlerUnmarked \/ HandlerCompletes
  BY <1>1 DEF Server, OtherDeviceWrites, LiveFetch, PrimaryAnswers, HandlerMarks, HandlerUnmarked, HandlerCompletes, storeVars
<1>2. ASSUME NEW works \in BOOLEAN, Serve(works) PROVE exposed'
  BY <1>2 DEF Serve
<1>3. CASE Begin \/ Move \/ FetchAbandoned \/ LateArrives \/ LateExpires \/ LateClears \/ Crash \/ UNCHANGED vars
  BY <1>3 DEF Begin, CommandBegins, WorkerBegins, Move, Reserves, SnapshotRequested, Clears, ClearsRechecked,
       DegradedProceeds, FallsBack, GivesUp, SendMarks, FetchAbandoned, LateArrives, LateExpires, LateClears, Crash,
       vars, storeVars
<1>4. CASE WaitStep
  BY <1>4 DEF WaitStep, FetchSucceeds, FetchFails, RequestFails, SnapshotArrives, SnapshotTimesOut, SendSucceeds,
       SendFails, storeVars
<1>. QED  BY <1>1, <1>2, <1>3, <1>4, NextIs

LEMMA CoversKept ==
  ASSUME Typed, Bounded, [Next]_vars, NEW i \in Nat \ {0}, i < NewId, NEW m, Covers(queue, i, m)
  PROVE  Covers(queue', i, m)
<1>1. NewId \in Nat  BY NewIdIsNew
<1>. SUFFICES ASSUME NEW k \in 1 .. Len(queue'), queue'[k].by = "live", queue'[k].g = i
              PROVE  m \in queue'[k].events
  BY DEF Covers
<1>2. ~Fresh(queue'[k])  BY <1>1 DEF Fresh
<1>3. PICK j \in 1 .. Len(queue) : Stems(queue[j], queue'[k], Extra)  BY <1>2, TicketsStem
<1>. QED  BY <1>3 DEF Stems, Covers

\* The intent of a live event is its own.
LEMMA NewCovers ==
  ASSUME Typed, Bounded, [Next]_vars, HandlerMarks \/ HandlerUnmarked
  PROVE  Covers(queue', NewId, NextEvent)
<1>1. NewId \in Nat /\ \A k \in 1 .. Len(queue) : queue[k].g < NewId  BY NewIdIsNew, KnownHas
<1>2. \A k \in 1 .. Len(queue) : queue[k].g # NewId
  <2>1. \A k \in 1 .. Len(queue) : queue[k].g \in Nat  BY NewIdIsNew, KnownHas
  <2>. QED  BY <1>1, <2>1
<1>. SUFFICES ASSUME NEW k \in 1 .. Len(queue'), queue'[k].by = "live", queue'[k].g = NewId
              PROVE  NextEvent \in queue'[k].events
  BY DEF Covers
<1>3. ASSUME NEW j \in 1 .. Len(queue), Stems(queue[j], queue'[k], Extra) PROVE FALSE
  BY <1>2, <1>3 DEF Stems
<1>. QED  BY <1>3, TicketsStem DEF Fresh

\* An event that is dispatched has been written, or has its intent, or both failed.
LEMMA OutboxMove ==
  ASSUME Typed, Bounded, [Next]_vars, ~exposed',
         NEW m \in ToSet(outbox), m # 0, NEW t \in Nat, t < NewId, NEW x, x # NewId
  PROVE  m \in saved' \cup ToSet(outbox') \/ Remembers(t, x, m)'
<1>1. outbox \in Seq(Nat)  BY DEF Typed
<1>2. PICK k \in 1 .. Len(outbox) : m = outbox[k]  BY <1>1 DEF ToSet
<1>3. outbox # <<>>  BY <1>1, <1>2
<1>4. CASE UNCHANGED outbox  BY <1>4
<1>5. CASE HandlerMarks \/ HandlerUnmarked \/ HandlerCompletes
  <2>1. outbox' = Tail(outbox) /\ NextEvent = Head(outbox)
    BY <1>3, <1>5 DEF HandlerMarks, HandlerUnmarked, HandlerCompletes, Handed, NextEvent
  <2>2. CASE k = 1
    <3>1. m = NextEvent  BY <1>1, <1>2, <1>3, <2>1, <2>2
    <3>2. HandlerMarks \/ HandlerUnmarked  BY <1>5, <3>1 DEF HandlerCompletes, Sentinel
    <3>3. NewId \in intents' \/ m \in saved'
      <4>1. CASE HandlerMarks  BY <4>1 DEF HandlerMarks, Marks
      <4>2. CASE HandlerUnmarked
        <5>1. PICK wrote \in BOOLEAN, marked \in BOOLEAN :
                /\ saved' = IF wrote THEN saved \cup {NextEvent} ELSE saved
                /\ IF marked THEN Marks ELSE UNCHANGED intents
                /\ exposed' = (exposed \/ ~(wrote \/ marked))
          BY <4>2 DEF HandlerUnmarked
        <5>. QED  BY <3>1, <5>1 DEF Marks
      <4>. QED  BY <3>2, <4>1, <4>2
    <3>4. CASE m \in saved'  BY <3>4
    <3>5. CASE NewId \in intents'
      <4>. DEFINE n == NewId
      <4>1. n \in intents' /\ n > t /\ n # x /\ Covers(queue', n, m)
        <5>1. NewId \in Nat  BY NewIdIsNew
        <5>. QED  BY <3>1, <3>2, <3>5, <5>1, NewCovers
      <4>. HIDE DEF n
      <4>. QED  BY <4>1 DEF Remembers
    <3>. QED  BY <3>3, <3>4, <3>5
  <2>3. CASE k # 1
    <3>. DEFINE rest == Tail(outbox)
    <3>1. k - 1 \in 1 .. Len(rest) /\ rest[k - 1] = m  BY <1>1, <1>2, <1>3, <2>3
    <3>2. rest \in Seq(Nat)  BY <1>1, <1>3
    <3>. HIDE DEF rest
    <3>3. k - 1 \in DOMAIN rest  BY <3>1, <3>2
    <3>4. m \in ToSet(rest)  BY <3>1, <3>3 DEF ToSet
    <3>. QED  BY <2>1, <3>4 DEF rest
  <2>. QED  BY <2>2, <2>3
<1>6. CASE Server
  <2>1. UNCHANGED outbox
    BY <1>3, <1>6 DEF Server, OtherDeviceWrites, LiveFetch, PrimaryAnswers, Dispatched
  <2>. QED  BY <1>4, <2>1
<1>7. ASSUME NEW works \in BOOLEAN, Serve(works) PROVE UNCHANGED outbox
  BY <1>7 DEF Serve, serverVars
<1>8. CASE Begin \/ Move \/ FetchAbandoned \/ LateArrives \/ LateExpires \/ LateClears \/ Crash \/ UNCHANGED vars
  <2>1. UNCHANGED outbox
    BY <1>8 DEF Begin, CommandBegins, WorkerBegins, Move, Reserves, SnapshotRequested, Clears, ClearsRechecked,
       DegradedProceeds, FallsBack, GivesUp, SendMarks, FetchAbandoned, LateArrives, LateExpires, LateClears, Crash,
       vars, serverVars
  <2>. QED  BY <1>4, <2>1
<1>9. CASE WaitStep
  <2>1. UNCHANGED outbox
    BY <1>9 DEF WaitStep, FetchSucceeds, FetchFails, RequestFails, SnapshotArrives, SnapshotTimesOut, SendSucceeds,
       SendFails, serverVars
  <2>. QED  BY <1>4, <2>1
<1>. QED  BY <1>4, <1>5, <1>6, <1>7, <1>8, <1>9, NextIs

\* Only what clears older intents can make a mutation forgotten.
LEMMA StillHeld ==
  ASSUME Typed, Bounded, [Next]_vars, ~exposed',
         NEW m, m # 0, NEW t \in Nat, t < NewId, NEW x, x # NewId,
         m \in saved \cup ToSet(outbox) \/ Remembers(t, x, m),
         \A i \in intents : i > t /\ i # x /\ Covers(queue, i, m) => i \in intents' \/ m \in saved'
  PROVE  m \in saved' \cup ToSet(outbox') \/ Remembers(t, x, m)'
<1>1. CASE m \in saved  BY <1>1, SavedGrows
<1>2. CASE m \in ToSet(outbox)  BY <1>2, OutboxMove
<1>3. CASE Remembers(t, x, m)
  <2>1. PICK i \in intents : i > t /\ i # x /\ Covers(queue, i, m)  BY <1>3 DEF Remembers
  <2>2. i \in Nat \ {0} /\ i < NewId  BY NewIdIsNew, KnownHas DEF Typed
  <2>3. Covers(queue', i, m)  BY <2>1, <2>2, CoversKept
  <2>. QED  BY <2>1, <2>3 DEF Remembers
<1>. QED  BY <1>1, <1>2, <1>3

\* The task of a live event clears its own intent, and writes first.
LEMMA IntentsStay ==
  ASSUME Typed, [Next]_vars, ~Clears, ~LateClears, ~DegradedProceeds,
         NEW i \in intents, NEW m, Covers(queue, i, m)
  PROVE  i \in intents' \/ m \in saved'
<1>1. CASE Server \/ HandlerMarks \/ HandlerUnmarked \/ HandlerCompletes
  BY <1>1 DEF Server, OtherDeviceWrites, LiveFetch, PrimaryAnswers, HandlerMarks, HandlerUnmarked, HandlerCompletes,
     storeVars, Marks
<1>2. ASSUME NEW works \in BOOLEAN, Serve(works) PROVE i \in intents' \/ m \in saved'
  <2>1. queue[1] = Head(queue) /\ 1 \in 1 .. Len(queue)
    <3>1. Len(queue) > 0 /\ queue[1] = Head(queue)  BY <1>2, ServedIs
    <3>2. Len(queue) \in Nat  BY DEF Typed
    <3>. QED  BY <3>1, <3>2
  <2>2. CASE Head(queue).by = "live" /\ works
    <3>1. intents' = intents \ {Head(queue).g} /\ saved' = saved \cup Head(queue).events
      BY <1>2, <2>2 DEF Serve
    <3>. QED  BY <2>1, <2>2, <3>1 DEF Covers
  <2>3. CASE ~(Head(queue).by = "live" /\ works)
    BY <1>2, <2>3 DEF Serve, Marks
  <2>. QED  BY <2>2, <2>3
<1>3. CASE Begin \/ Move \/ FetchAbandoned \/ LateArrives \/ LateExpires \/ Crash \/ UNCHANGED vars
  BY <1>3 DEF Begin, CommandBegins, WorkerBegins, Move, Reserves, SnapshotRequested, ClearsRechecked,
     FallsBack, GivesUp, SendMarks, FetchAbandoned, LateArrives, LateExpires, Crash, vars, storeVars, Marks
<1>4. CASE WaitStep
  BY <1>4 DEF WaitStep, FetchSucceeds, FetchFails, RequestFails, SnapshotArrives, SnapshotTimesOut, SendSucceeds,
       SendFails, storeVars
<1>. QED  BY <1>1, <1>2, <1>3, <1>4, NextIs

-----------------------------------------------------------------------------
(* Threats. *)

\* The sentinel is dispatched from the outbox.
LEMMA SentinelIsOut ==
  ASSUME Typed, HandlerCompletes
  PROVE  Ending
<1>1. outbox \in Seq(Nat) /\ batch \in Seq(Nat \ {0})  BY DEF Typed
<1>2. ~Dispatched /\ NextEvent = 0  BY DEF HandlerCompletes, Sentinel
<1>3. CASE outbox = <<>>
  <2>1. batch # <<>> /\ Head(batch) = 0  BY <1>2, <1>3 DEF Dispatched, NextEvent
  <2>. QED  BY <1>1, <2>1
<1>4. CASE outbox # <<>>
  <2>1. Head(outbox) = 0 /\ 1 \in DOMAIN outbox /\ Head(outbox) = outbox[1]  BY <1>1, <1>2, <1>4 DEF NextEvent
  <2>. QED  BY <2>1 DEF Ending, ToSet
<1>. QED  BY <1>3, <1>4

LEMMA EndingMove ==
  ASSUME Typed, [Next]_vars, Ending'
  PROVE  Ending \/ Needs' \subseteq ToSet(outbox')
<1>1. outbox \in Seq(Nat)  BY DEF Typed
<1>2. CASE UNCHANGED outbox  BY <1>2 DEF Ending
<1>3. CASE HandlerMarks \/ HandlerUnmarked \/ HandlerCompletes
  <2>1. CASE outbox # <<>>
    <3>. DEFINE rest == Tail(outbox)
    <3>1. outbox' = rest  BY <1>3, <2>1 DEF HandlerMarks, HandlerUnmarked, HandlerCompletes, Handed
    <3>2. rest \in Seq(Nat) /\ \A k \in 1 .. Len(rest) : k + 1 \in DOMAIN outbox /\ rest[k] = outbox[k + 1]
      BY <1>1, <2>1
    <3>. HIDE DEF rest
    <3>3. PICK k \in 1 .. Len(rest) : rest[k] = 0  BY <3>1, <3>2 DEF Ending, ToSet
    <3>. QED  BY <3>2, <3>3 DEF Ending, ToSet
  <2>2. CASE outbox = <<>>
    BY <1>2, <1>3, <2>2 DEF HandlerMarks, HandlerUnmarked, HandlerCompletes, Handed
  <2>. QED  BY <2>1, <2>2
<1>4. CASE LiveFetch
  <2>1. Len(log) \in Nat /\ cursor \in Nat  BY DEF Typed
  <2>2. Behind \subseteq 0 .. Len(log) /\ 0 \notin Behind  BY <2>1 DEF Behind
  <2>3. ToSet(outbox') = Behind  BY <1>4, <2>1, <2>2, InOrderHas DEF LiveFetch
  <2>. QED  BY <2>2, <2>3 DEF Ending
<1>5. CASE PrimaryAnswers
  BY <1>2, <1>5, AnswerCovers
<1>6. CASE OtherDeviceWrites  BY <1>2, <1>6 DEF OtherDeviceWrites
<1>7. ASSUME NEW works \in BOOLEAN, Serve(works) PROVE UNCHANGED outbox
  BY <1>7 DEF Serve, serverVars
<1>8. CASE Begin \/ Move \/ FetchAbandoned \/ LateArrives \/ LateExpires \/ LateClears \/ Crash \/ UNCHANGED vars
  <2>1. UNCHANGED outbox
    BY <1>8 DEF Begin, CommandBegins, WorkerBegins, Move, Reserves, SnapshotRequested, Clears, ClearsRechecked,
       DegradedProceeds, FallsBack, GivesUp, SendMarks, FetchAbandoned, LateArrives, LateExpires, LateClears, Crash,
       vars, serverVars
  <2>. QED  BY <1>2, <2>1
<1>9. CASE WaitStep
  <2>1. UNCHANGED outbox
    BY <1>9 DEF WaitStep, FetchSucceeds, FetchFails, RequestFails, SnapshotArrives, SnapshotTimesOut, SendSucceeds,
       SendFails, serverVars
  <2>. QED  BY <1>2, <2>1
<1>. QED  BY <1>2, <1>3, <1>4, <1>5, <1>6, <1>7, <1>8, <1>9, NextIs DEF Server

LEMMA CapturesMove ==
  ASSUME Typed, [Next]_vars
  PROVE  /\ \/ /\ late'.g = late.g /\ (late'.capture.on <=> late.capture.on)
               /\ late'.capture.done <=> late.capture.done \/ (HandlerCompletes /\ late.capture.on)
            \/ SnapshotTimesOut /\ late' = [g |-> holder.g, capture |-> capture]
            \/ late' = NoLate
         /\ \/ /\ capture'.on <=> capture.on
               /\ capture'.done <=> capture.done \/ (HandlerCompletes /\ capture.on)
            \/ SnapshotRequested /\ ~capture'.done
            \/ capture' = NoCapture
<1>1. capture \in Frames /\ late \in [g : Nat, capture : Frames]  BY DEF Typed
<1>2. CASE UNCHANGED <<capture, late>> /\ ~HandlerCompletes  BY <1>2
<1>3. CASE HandlerMarks \/ HandlerUnmarked
  <2>1. \A c \in Frames : Hears(c).on = c.on /\ Hears(c).done = c.done  BY DEF Hears, Frames
  <2>2. capture' = Hears(capture) /\ late' = [late EXCEPT !.capture = Hears(@)]
    BY <1>3 DEF HandlerMarks, HandlerUnmarked, CapturesHear
  <2>3. late'.g = late.g /\ late'.capture = Hears(late.capture)  BY <1>1, <2>2
  <2>4. ~HandlerCompletes  BY <1>3 DEF HandlerMarks, HandlerUnmarked, HandlerCompletes
  <2>. QED  BY <1>1, <2>1, <2>2, <2>3, <2>4
<1>4. CASE HandlerCompletes
  <2>1. \A c \in Frames : Closed(c).on = c.on /\ Closed(c).done = (c.done \/ c.on)  BY DEF Closed, Frames
  <2>2. capture' = Closed(capture) /\ late' = [late EXCEPT !.capture = Closed(@)]
    BY <1>4 DEF HandlerCompletes
  <2>3. late'.g = late.g /\ late'.capture = Closed(late.capture)  BY <1>1, <2>2
  <2>. QED  BY <1>1, <1>4, <2>1, <2>2, <2>3
<1>. SUFFICES ASSUME ~(HandlerMarks \/ HandlerUnmarked \/ HandlerCompletes)
              PROVE  /\ UNCHANGED late \/ (SnapshotTimesOut /\ late' = [g |-> holder.g, capture |-> capture]) \/ late' = NoLate
                     /\ UNCHANGED capture \/ (SnapshotRequested /\ ~capture'.done) \/ capture' = NoCapture
  BY <1>3, <1>4
<1>5. CASE SnapshotRequested  BY <1>5 DEF SnapshotRequested, NoCapture, lateVars
<1>6. CASE SnapshotTimesOut  BY <1>6 DEF SnapshotTimesOut
<1>7. CASE SnapshotArrives  BY <1>7 DEF SnapshotArrives, lateVars
<1>8. CASE LateArrives \/ LateExpires \/ Crash  BY <1>8 DEF LateArrives, LateExpires, Crash
<1>9. CASE Server \/ Begin \/ FetchAbandoned \/ LateClears \/ UNCHANGED vars
  BY <1>9 DEF Server, OtherDeviceWrites, LiveFetch, PrimaryAnswers, Begin, CommandBegins, WorkerBegins,
       FetchAbandoned, LateClears, vars, lateVars
<1>10. ASSUME NEW works \in BOOLEAN, Serve(works) PROVE UNCHANGED <<capture, late>>
  BY <1>10 DEF Serve
<1>11. CASE Move
  BY <1>5, <1>11 DEF Move, Reserves, Clears, ClearsRechecked, DegradedProceeds, FallsBack, GivesUp, SendMarks, lateVars
<1>12. CASE WaitStep
  BY <1>6, <1>7, <1>12 DEF WaitStep, FetchSucceeds, FetchFails, RequestFails, SendSucceeds, SendFails, lateVars
<1>. QED  BY <1>8, <1>9, <1>10, <1>11, <1>12, NextIs

LEMMA LateStep ==
  ASSUME Typed, Owners, LateInv, [Next]_vars
  PROVE  LateInv'
<1>1. CASE SnapshotTimesOut /\ late' = [g |-> holder.g, capture |-> capture]
  BY <1>1 DEF LateInv, Owners, CaptureInv
<1>2. CASE late' = NoLate  BY <1>2 DEF LateInv, NoLate, NoCapture
<1>3. CASE /\ late'.capture.on <=> late.capture.on
           /\ late'.capture.done <=> late.capture.done \/ (HandlerCompletes /\ late.capture.on)
  BY <1>3 DEF LateInv
<1>. QED  BY <1>1, <1>2, <1>3, CapturesMove

\* Steps of others than the attempt.
Bystander ==
  \/ Server \/ HandlerMarks \/ HandlerUnmarked \/ HandlerCompletes
  \/ \E works \in BOOLEAN : Serve(works)
  \/ LateArrives \/ LateExpires \/ LateClears \/ UNCHANGED vars

\* They end at most a wait.
LEMMA BystanderIs ==
  ASSUME Typed, Owners, Bystander
  PROVE  /\ holder' = Nobody <=> holder = Nobody
         /\ holder # Nobody =>
              /\ holder'.g = holder.g /\ holder'.how = holder.how
              /\ holder'.res \in {holder.res, "unsaved"}
              /\ holder'.phase = holder.phase \/ (holder.phase = "queued" /\ holder'.phase = "done")
<1>1. holder \in Attempts \cup {Nobody}  BY DEF Typed
<1>2. CASE Server \/ HandlerMarks \/ HandlerUnmarked \/ HandlerCompletes \/ LateArrives \/ LateExpires \/ LateClears
           \/ UNCHANGED vars
  <2>1. UNCHANGED holder
    BY <1>2 DEF Server, OtherDeviceWrites, LiveFetch, PrimaryAnswers, HandlerMarks, HandlerUnmarked,
         HandlerCompletes, LateArrives, LateExpires, LateClears, vars
  <2>. QED  BY <2>1
<1>3. ASSUME NEW works \in BOOLEAN, Serve(works)
      PROVE  /\ holder' = Nobody <=> holder = Nobody
             /\ holder # Nobody =>
              /\ holder'.g = holder.g /\ holder'.how = holder.how
              /\ holder'.res \in {holder.res, "unsaved"}
              /\ holder'.phase = holder.phase \/ (holder.phase = "queued" /\ holder'.phase = "done")
  <2>1. queue[1] = Head(queue) /\ 1 \in 1 .. Len(queue)
    <3>1. Len(queue) > 0 /\ queue[1] = Head(queue)  BY <1>3, ServedIs
    <3>2. Len(queue) \in Nat  BY DEF Typed
    <3>. QED  BY <3>1, <3>2
  <2>2. CASE holder = Nobody  BY <1>3, <2>2 DEF Serve
  <2>3. CASE holder # Nobody
    <3>1. holder' = [holder EXCEPT !.phase = IF Head(queue).awaited THEN "done" ELSE @,
                                   !.res = IF Head(queue).by = "holder" /\ ~works THEN "unsaved" ELSE @]
      BY <1>3, <2>3 DEF Serve
    <3>2. holder \in Attempts  BY <1>1, <2>3
    <3>3. Head(queue).awaited => holder.phase = "queued"  BY <2>1 DEF Owners, AwaitInv
    <3>4. holder' \in Attempts  BY <3>1, <3>2 DEF Attempts
    <3>5. /\ holder'.g = holder.g /\ holder'.how = holder.how
          /\ holder'.res \in {holder.res, "unsaved"}
          /\ holder'.phase = IF Head(queue).awaited THEN "done" ELSE holder.phase
      BY <3>1, <3>2 DEF Attempts
    <3>. QED  BY <2>3, <3>3, <3>4, <3>5, SomebodyHolds
  <2>. QED  BY <2>2, <2>3
<1>. QED  BY <1>2, <1>3 DEF Bystander

\* Where a move leaves the attempt.
LEMMA MoveIs ==
  ASSUME Typed, Move, holder' # Nobody
  PROVE  /\ holder # Nobody /\ holder'.g = holder.g
         /\ \/ Reserves /\ holder.phase = "start" /\ holder'.phase = "out" /\ holder'.how = holder.how
            \/ SnapshotRequested /\ holder'.phase = "asking" /\ holder'.how = "snapshot"
            \/ FallsBack /\ holder'.phase = "start" /\ holder'.how \in {"snapshot", "replay", "full"}
            \/ SendMarks /\ Marks /\ holder'.phase = "start" /\ holder'.how = "send"
            \/ holder'.phase \in {"recheck", "mark"}
            \/ holder'.phase = "done" /\ holder'.res = "error"
<1>1. holder # Nobody
  BY DEF Move, Reserves, SnapshotRequested, Clears, ClearsRechecked, DegradedProceeds, FallsBack, GivesUp, SendMarks, Holds
<1>2. holder \in Attempts  BY <1>1 DEF Typed
<1>3. CASE Reserves  BY <1>1, <1>2, <1>3 DEF Reserves, Attempts
<1>4. CASE SnapshotRequested  BY <1>1, <1>2, <1>4 DEF SnapshotRequested, Holds, Attempts
<1>5. CASE Clears  BY <1>1, <1>2, <1>5 DEF Clears, Holds, Succeeds, Goes, Ends, Attempts
<1>6. CASE ClearsRechecked  BY <1>1, <1>2, <1>6 DEF ClearsRechecked, Succeeds, Goes, Ends, Attempts
<1>7. CASE DegradedProceeds  BY <1>1, <1>2, <1>7 DEF DegradedProceeds, Holds, Goes, Attempts
<1>8. CASE FallsBack
  <2>1. \E how \in {"snapshot", "replay", "full"}, last \in BOOLEAN : Goes(how, last, "start")
    BY <1>8 DEF FallsBack
  <2>. QED  BY <1>1, <1>2, <1>8, <2>1 DEF Goes, Attempts
<1>9. CASE SendMarks  BY <1>1, <1>2, <1>9 DEF SendMarks, Holds, Ends, Attempts
<1>. QED  BY <1>3, <1>4, <1>5, <1>6, <1>7, <1>8, <1>9 DEF Move, GivesUp, Ends

\* The kinds of steps, for what they do to the attempt.
LEMMA KindsOfSteps ==
  ASSUME [Next]_vars
  PROVE  Bystander \/ Begin \/ Move \/ WaitStep \/ FetchAbandoned \/ Crash
  BY NextIs DEF Bystander

\* Only a step that succeeds leaves its attempt with something to write.
LEMMA WaitIs ==
  ASSUME Typed, WaitStep
  PROVE  /\ holder # Nobody /\ holder' # Nobody
         /\ holder.phase \in {"out", "asking"} /\ holder'.phase = "queued"
         /\ holder'.g = holder.g /\ holder'.how = holder.how
         /\ holder'.res = "ok" =>
              \/ FetchSucceeds /\ holder.phase = "out" /\ holder.how \in Incremental \cup Full
              \/ SnapshotArrives /\ capture.done /\ holder.how = "snapshot"
              \/ SendSucceeds /\ holder.how = "send"
<1>1. /\ holder # Nobody /\ holder.phase \in {"out", "asking"}
      /\ \E events \in SUBSET Nat, res \in Results : WaitsOn(events, res)
  BY WaitStepIs
<1>2. /\ holder' \in Attempts /\ holder'.how = holder.how /\ holder'.g = holder.g /\ holder'.phase = "queued"
  BY <1>1, WaitsOnIs
<1>3. {} \in SUBSET Nat /\ Failures \subseteq Results /\ "error" \in Failures /\ "ok" \notin Failures
  BY DEF Results, Failures
<1>4. \A res \in Failures : WaitsOn({}, res) => holder'.res # "ok"
  BY <1>1, <1>3, WaitsOnIs
<1>5. (\E res \in Failures : FetchFails(res)) \/ RequestFails \/ SnapshotTimesOut \/ SendFails => holder'.res # "ok"
  <2>1. ASSUME NEW res \in Failures, FetchFails(res) PROVE WaitsOn({}, res)
    BY <2>1 DEF FetchFails, WaitsOn, Holds, lateVars
  <2>2. RequestFails => WaitsOn({}, "error")  BY DEF RequestFails, WaitsOn, Holds, lateVars
  <2>3. SnapshotTimesOut => WaitsOn({}, "error")  BY DEF SnapshotTimesOut, Adopted, WaitsOn, Holds
  <2>4. SendFails => WaitsOn({}, "error")  BY DEF SendFails, WaitsOn, Holds, lateVars
  <2>. QED  BY <1>3, <1>4, <2>1, <2>2, <2>3, <2>4
<1>6. FetchSucceeds => holder.phase = "out" /\ holder.how \in Incremental \cup Full
  BY DEF FetchSucceeds, Holds
<1>7. SnapshotArrives => capture.done /\ holder.how = "snapshot"  BY DEF SnapshotArrives, Holds
<1>8. SendSucceeds => holder.how = "send"  BY DEF SendSucceeds, Holds
<1>. QED  BY <1>1, <1>2, <1>5, <1>6, <1>7, <1>8, SomebodyHolds DEF WaitStep

\* A new threat comes with an attempt that finds no intents, or when everything is
\* dispatched again.
LEMMA ThreatsMove ==
  ASSUME Typed, Bounded, Owners, LateInv, [Next]_vars, ~exposed', NEW t \in Nat, Threat(t)'
  PROVE  \/ Threat(t)
         \/ CommandBegins /\ intents = {} /\ t = NewId
         \/ Needs' \subseteq ToSet(outbox')
<1>1. CASE t = 0  BY <1>1 DEF Threat
<1>2. CASE t \in owed'  BY <1>2, OwedMove DEF Threat
<1>3. ASSUME NEW k \in 1 .. Len(queue'), t \in queue'[k].tells PROVE Threat(t)
  <2>1. ~Fresh(queue'[k])  BY <1>3 DEF Fresh
  <2>2. PICK j \in 1 .. Len(queue) : Stems(queue[j], queue'[k], Extra)  BY <2>1, TicketsStem
  <2>3. CASE t \in queue[j].tells  BY <2>3 DEF Threat
  <2>4. CASE t \notin queue[j].tells
    <3>1. LateArrives /\ t = late.g  BY <1>3, <2>2, <2>4 DEF Stems, Extra
    <3>2. PICK i \in 1 .. Len(queue) : i \in At("late")  BY <3>1, LateArrivesIs
    <3>3. OwnedAt(queue[i], holder, capture, late)  BY OwnedIs DEF Owners, OpenInv
    <3>4. late.capture.done  BY <3>2, <3>3 DEF At, OwnedAt
    <3>. QED  BY <3>1, <3>4 DEF Threat, Hearing, LateInv
  <2>. QED  BY <2>3, <2>4
<1>4. ASSUME t = late'.g, Hearing(late.capture)' PROVE Threat(t) \/ Needs' \subseteq ToSet(outbox')
  <2>1. CASE SnapshotTimesOut /\ late' = [g |-> holder.g, capture |-> capture]
    <3>1. UNCHANGED outbox /\ holder # Nobody  BY <2>1 DEF SnapshotTimesOut, Holds, serverVars
    <3>. QED  BY <1>4, <2>1, <3>1 DEF Threat, Hearing, Ending
  <2>2. CASE late' = NoLate  BY <1>4, <2>2 DEF NoLate, NoCapture, Hearing
  <2>3. CASE /\ late'.g = late.g /\ (late'.capture.on <=> late.capture.on)
             /\ late'.capture.done <=> late.capture.done \/ (HandlerCompletes /\ late.capture.on)
    BY <1>4, <2>3, SentinelIsOut, EndingMove DEF Threat, Hearing
  <2>. QED  BY <2>1, <2>2, <2>3, CapturesMove
<1>5. ASSUME holder' # Nobody, t = holder'.g, Hearing(capture)' PROVE Threat(t) \/ Needs' \subseteq ToSet(outbox')
  <2>1. CASE SnapshotRequested /\ ~capture'.done
    <3>1. exposed' = (exposed \/ 0 \in ToSet(outbox)) /\ UNCHANGED outbox
      BY <2>1 DEF SnapshotRequested, Sentinel, serverVars
    <3>. QED  BY <1>5, <2>1, <3>1 DEF Hearing, Ending
  <2>2. CASE capture' = NoCapture  BY <1>5, <2>2 DEF NoCapture, Hearing
  <2>3. CASE /\ capture'.on <=> capture.on
             /\ capture'.done <=> capture.done \/ (HandlerCompletes /\ capture.on)
    <3>1. capture.on  BY <1>5, <2>3 DEF Hearing
    <3>2. holder # Nobody  BY <3>1 DEF Owners, CaptureInv
    <3>3. holder'.g = holder.g  BY <1>5, <3>2, HolderKeeps
    <3>. QED  BY <1>5, <2>3, <3>1, <3>2, <3>3, SentinelIsOut, EndingMove DEF Threat, Hearing
  <2>. QED  BY <2>1, <2>2, <2>3, CapturesMove
<1>6. ASSUME holder' # Nobody, t = holder'.g, Written({"snapshot"})' PROVE Threat(t)
  <2>1. holder'.how = "snapshot" /\ holder'.phase \in {"queued", "done"} /\ holder'.res = "ok"
    BY <1>6 DEF Written, Recovering
  <2>2. CASE Bystander  BY <1>6, <2>1, <2>2, BystanderIs DEF Threat, Written, Recovering
  <2>3. CASE Begin  BY <1>6, <2>1, <2>3, HolderKeeps
  <2>4. CASE Move  BY <1>6, <2>1, <2>4, MoveIs
  <2>5. CASE WaitStep
    <3>1. holder # Nobody /\ holder'.g = holder.g /\ SnapshotArrives /\ capture.done
      BY <2>1, <2>5, WaitIs DEF Incremental, Full
    <3>2. capture.on  BY <3>1 DEF Owners, CaptureInv
    <3>. QED  BY <1>6, <3>1, <3>2 DEF Threat, Hearing
  <2>6. CASE FetchAbandoned \/ Crash  BY <1>6, <2>6 DEF FetchAbandoned, Ends, Crash
  <2>. QED  BY <2>2, <2>3, <2>4, <2>5, <2>6, KindsOfSteps
<1>7. ASSUME holder' # Nobody, t = holder'.g, Recovering({"incremental"}, {"start", "out"})'
      PROVE  Threat(t) \/ (CommandBegins /\ intents = {} /\ t = NewId)
  <2>1. holder'.how = "incremental" /\ holder'.phase \in {"start", "out"}
    BY <1>7 DEF Recovering
  <2>2. CASE Bystander  BY <1>7, <2>1, <2>2, BystanderIs DEF Threat, Recovering
  <2>3. CASE CommandBegins
    <3>1. NewId \in Nat \ {0}  BY NewIdIsNew
    <3>2. intents = {}
      <4>1. SUFFICES ASSUME intents # {} PROVE FALSE  OBVIOUS
      <4>2. holder' = Attempt("command", "degraded") \/ holder' = Attempt("command", "replay")
        BY <2>3, <4>1 DEF CommandBegins
      <4>. QED  BY <2>1, <4>2 DEF Attempt
    <3>. QED  BY <1>7, <2>3, <3>2, HolderKeeps DEF Begin
  <2>4. CASE WorkerBegins
    <3>1. PICK how \in {"snapshot", "full"} : holder' = Attempt("worker", how)  BY <2>4 DEF WorkerBegins
    <3>. QED  BY <2>1, <3>1 DEF Attempt
  <2>5. CASE Move  BY <1>7, <2>1, <2>5, MoveIs DEF Threat, Recovering
  <2>6. CASE WaitStep  BY <2>1, <2>6, WaitIs
  <2>7. CASE FetchAbandoned \/ Crash  BY <1>7, <2>7 DEF FetchAbandoned, Ends, Crash
  <2>. QED  BY <2>2, <2>3, <2>4, <2>5, <2>6, <2>7, KindsOfSteps DEF Begin
<1>. QED  BY <1>1, <1>2, <1>3, <1>4, <1>5, <1>6, <1>7 DEF Threat

LEMMA ThreatsAre ==
  ASSUME Typed, Bounded, Owners, NEW t \in Nat, Threat(t)
  PROVE  /\ t < NewId
         /\ t = 0 \/ t \in Gens \/ (Recovers /\ t = holder.g)
<1>1. t = 0 \/ t \in Gens \/ (Recovers /\ t = holder.g)
  <2>1. ASSUME Hearing(capture) PROVE Recovers
    <3>1. holder # Nobody /\ holder.how = "snapshot"  BY <2>1 DEF Hearing, Owners, CaptureInv
    <3>. QED  BY <3>1 DEF Recovers
  <2>2. Written({"snapshot"}) \/ Recovering({"incremental"}, {"start", "out"}) => Recovers
    BY DEF Written, Recovering, Recovers
  <2>. QED  BY <2>1, <2>2 DEF Threat, Gens
<1>2. t = 0 \/ t \in Known  BY <1>1, GensAreKnown, KnownHas DEF Recovers
<1>. QED  BY <1>1, <1>2, NewIdIsNew

-----------------------------------------------------------------------------
(* What the attempt's own task is going to write. *)

LEMMA NoHolderEvents ==
  ASSUME Typed, Owners, holder = Nobody \/ holder.phase # "queued"
  PROVE  HolderEvents = {}
<1>1. \A k \in 1 .. Len(queue) : queue[k].by = "holder" => queue[k].events = {}
  BY DEF Owners, AwaitInv, OpenInv
<1>. QED  BY <1>1 DEF HolderEvents

LEMMA WaitWrites ==
  ASSUME Typed, holder # Nobody, NEW events \in SUBSET Nat, NEW res \in Results, WaitsOn(events, res)
  PROVE  events \subseteq HolderEvents'
<1>1. Len(queue') = Len(queue)  BY WaitsOnIs
<1>2. PICK i \in 1 .. Len(queue), f \in 1 .. Len(queue) : i \in At("holder") /\ Waited(queue, queue', i, f, events)
  BY WaitsOnIs
<1>3. queue[i].by = "holder"  BY <1>2 DEF At
<1>4. queue'[i].by = "holder" /\ queue'[i].events = events  BY <1>2, <1>3 DEF Waited
<1>. QED  BY <1>1, <1>4 DEF HolderEvents

LEMMA HolderWrites ==
  ASSUME Typed, Bounded, Owners, Bystander, holder # Nobody, holder'.res = "ok", NEW m \in HolderEvents
  PROVE  m \in HolderEvents' \cup saved'
<1>1. queue \in Seq(Tickets) /\ Len(queue) \in Nat  BY DEF Typed
<1>2. PICK k \in 1 .. Len(queue) : queue[k].by = "holder" /\ m \in queue[k].events  BY DEF HolderEvents
<1>3. ASSUME NEW j \in 1 .. Len(queue'), queue'[j].by = "holder", queue'[j].events = queue[k].events
      PROVE  m \in HolderEvents'
  BY <1>2, <1>3 DEF HolderEvents
<1>4. CASE UNCHANGED queue  BY <1>2, <1>3, <1>4
<1>5. CASE Server \/ LateClears \/ UNCHANGED vars
  <2>1. UNCHANGED queue
    BY <1>5 DEF Server, OtherDeviceWrites, LiveFetch, PrimaryAnswers, LateClears, vars
  <2>. QED  BY <1>4, <2>1
<1>6. CASE HandlerMarks \/ HandlerUnmarked
  <2>1. NextEvent \in Nat /\ NewId \in Nat  BY <1>6, TypedEvents, NewIdIsNew DEF HandlerMarks, HandlerUnmarked
  <2>2. PICK g \in {NewId, 0} : queue' = Append(queue, Live(NextEvent, g))
    BY <1>6 DEF HandlerMarks, HandlerUnmarked
  <2>3. Live(NextEvent, g) \in Tickets
    <3>1. g \in Nat  BY <2>1, <2>2
    <3>. QED  BY <2>1, <3>1, NewTickets
  <2>4. Len(queue') = Len(queue) + 1 /\ queue'[k] = queue[k]  BY <1>1, <2>2, <2>3, AppendIs
  <2>5. k \in 1 .. Len(queue')  BY <1>1, <2>4
  <2>. QED  BY <1>2, <1>3, <2>4, <2>5
<1>7. CASE HandlerCompletes
  <2>1. k \in 1 .. Len(queue') /\ queue'[k] = queue[k]
    <3>1. Len(queue') \in Nat /\ Len(queue') >= Len(queue) /\ queue'[k] = queue[k]  BY <1>7, ClosedIs
    <3>. QED  BY <1>1, <3>1
  <2>. QED  BY <1>2, <1>3, <2>1
<1>8. ASSUME NEW works \in BOOLEAN, Serve(works) PROVE m \in HolderEvents' \cup saved'
  <2>1. /\ queue[1] = Head(queue) /\ Len(queue') = Len(queue) - 1
        /\ \A j \in 1 .. Len(queue') : queue'[j].by = queue[j + 1].by /\ queue'[j].events = queue[j + 1].events
    BY <1>8, ServedIs
  <2>2. CASE k = 1
    <3>1. CASE works
      <4>1. saved' = saved \cup Head(queue).events  BY <1>8, <3>1 DEF Serve
      <4>. QED  BY <1>2, <2>1, <2>2, <4>1
    <3>2. CASE ~works
      <4>1. holder' = [holder EXCEPT !.phase = IF Head(queue).awaited THEN "done" ELSE @, !.res = "unsaved"]
        BY <1>2, <1>8, <2>1, <2>2, <3>2 DEF Serve
      <4>2. holder \in Attempts  BY DEF Typed
      <4>. QED  BY <4>1, <4>2 DEF Attempts
    <3>. QED  BY <3>1, <3>2
  <2>3. CASE k # 1
    <3>1. k - 1 \in 1 .. Len(queue') /\ (k - 1) + 1 = k  BY <1>1, <2>1, <2>3
    <3>2. queue'[k - 1].by = "holder" /\ queue'[k - 1].events = queue[k].events  BY <1>2, <2>1, <3>1
    <3>. QED  BY <1>3, <3>1, <3>2
  <2>. QED  BY <2>2, <2>3
<1>9. CASE LateArrives
  <2>1. PICK i \in 1 .. Len(queue), f \in 1 .. Len(queue) : i \in At("late") /\ Told(queue, queue', i, f, late.g)
    BY <1>9, LateArrivesIs
  <2>2. i # k  BY <1>2, <2>1 DEF At
  <2>. QED  BY <1>2, <1>3, <2>1, <2>2 DEF Told
<1>10. CASE LateExpires  BY <1>2, <1>3, <1>10, ReleasedIs DEF LateExpires
<1>. QED  BY <1>5, <1>6, <1>7, <1>8, <1>9, <1>10 DEF Bystander

-----------------------------------------------------------------------------
(* The intents of those under way. *)

LEMMA FreesKept ==
  ASSUME Typed, Bounded, [Next]_vars, ~SnapshotTimesOut, ~Clears, ~DegradedProceeds, NEW i, Frees(i)
  PROVE  Frees(i)'
<1>1. /\ i \in intents
      /\ \A k \in 1 .. Len(queue) : queue[k].by = "live" => queue[k].g # i
      /\ \A t \in Gens : t < i
  BY DEF Frees
<1>2. i \in Nat \ {0} /\ i < NewId /\ NewId \in Nat  BY <1>1, NewIdIsNew, KnownHas DEF Typed
<1>3. i \in intents'
  <2>1. CASE LateClears
    <3>1. PICK g \in owed : intents' = After(g)  BY <2>1 DEF LateClears
    <3>2. g < i /\ g \in Nat  BY <1>1, <3>1 DEF Gens, Typed
    <3>. QED  BY <1>1, <1>2, <3>1, <3>2 DEF After
  <2>2. CASE ~LateClears
    <3>. DEFINE none == -1
    <3>1. Covers(queue, i, none)  BY <1>1 DEF Covers
    <3>2. saved' \subseteq Nat  BY TypedStore
    <3>3. none \notin saved'  BY <3>2
    <3>. HIDE DEF none
    <3>. QED  BY <1>1, <2>2, <3>1, <3>3, IntentsStay
  <2>. QED  BY <2>1, <2>2
<1>4. ASSUME NEW k \in 1 .. Len(queue'), queue'[k].by = "live" PROVE queue'[k].g # i
  <2>1. CASE Fresh(queue'[k])  BY <1>2, <1>4, <2>1 DEF Fresh
  <2>2. ASSUME NEW j \in 1 .. Len(queue), Stems(queue[j], queue'[k], Extra) PROVE queue'[k].g # i
    BY <1>1, <1>4, <2>2 DEF Stems
  <2>. QED  BY <2>1, <2>2, TicketsStem
<1>5. ASSUME NEW t \in Gens' PROVE t < i
  <2>1. t \in Gens \/ t = 0  BY GensMove
  <2>. QED  BY <1>1, <1>2, <2>1
<1>. QED  BY <1>3, <1>4, <1>5 DEF Frees

\* The intent that an attempt or a send makes is the newest.
LEMMA NewFrees ==
  ASSUME Typed, Bounded, [Next]_vars, ~SnapshotTimesOut, UNCHANGED queue, Marks, NEW n, n = NewId
  PROVE  Frees(n)'
<1>1. n \in Nat \ {0} /\ \A i \in Known : i \in Nat /\ i < n  BY NewIdIsNew
<1>2. n \in intents'  BY DEF Marks
<1>3. \A k \in 1 .. Len(queue) : queue[k].g \in Known  BY KnownHas
<1>4. \A k \in 1 .. Len(queue') : queue'[k].g # n  BY <1>1, <1>3
<1>5. ASSUME NEW t \in Gens' PROVE t < n
  <2>1. t \in Gens \/ t = 0  BY GensMove
  <2>. QED  BY <1>1, <2>1, GensAreKnown
<1>. QED  BY <1>2, <1>4, <1>5 DEF Frees

LEMMA BeginIs ==
  ASSUME Typed, Bounded, Begin
  PROVE  /\ holder = Nobody /\ holder' # Nobody /\ holder'.phase = "start" /\ holder'.g = NewId /\ holder'.how # "send"
         /\ Marks /\ UNCHANGED <<serverVars, saved, queue, exposed>>
         /\ holder'.how \in {"incremental", "degraded"} => CommandBegins /\ (holder'.how = "degraded" => intents # {})
<1>1. NewId \in Nat \ {0}  BY NewIdIsNew
<1>2. CASE CommandBegins
  <2>1. holder = Nobody /\ Marks /\ UNCHANGED <<serverVars, saved, queue, exposed>>  BY <1>2 DEF CommandBegins
  <2>2. PICK how \in {"incremental", "degraded", "replay"} :
          holder' = Attempt("command", how) /\ (how = "degraded" => intents # {})
    BY <1>2 DEF CommandBegins
  <2>3. how \in Hows /\ how # "send"  BY <2>2 DEF Hows, Incremental, Full
  <2>4. holder' \in Attempts /\ holder'.phase = "start" /\ holder'.g = NewId /\ holder'.how = how
    BY <1>1, <2>2, <2>3, AttemptIs
  <2>. QED  BY <1>2, <2>1, <2>2, <2>3, <2>4, SomebodyHolds
<1>3. CASE WorkerBegins
  <2>1. holder = Nobody /\ Marks /\ UNCHANGED <<serverVars, saved, queue, exposed>>  BY <1>3 DEF WorkerBegins
  <2>2. PICK how \in {"snapshot", "full"} : holder' = Attempt("worker", how)  BY <1>3 DEF WorkerBegins
  <2>3. how \in Hows  BY <2>2 DEF Hows, Full
  <2>4. holder' \in Attempts /\ holder'.phase = "start" /\ holder'.g = NewId /\ holder'.how = how
    BY <1>1, <2>2, <2>3, AttemptIs
  <2>. QED  BY <2>1, <2>2, <2>3, <2>4, SomebodyHolds
<1>. QED  BY <1>2, <1>3 DEF Begin

LEMMA AttemptFreeStep ==
  ASSUME Typed, Bounded, Owners, OrderInv, AttemptFree, [Next]_vars, ~exposed'
  PROVE  AttemptFree'
<1>. DEFINE Fetches == Incremental \cup Full
<1>1. "snapshot" \notin Fetches /\ "send" \notin Fetches  BY DEF Incremental, Full
<1>. HIDE DEF Fetches
<1>. SUFFICES ASSUME holder' # Nobody, holder'.how \in Fetches, holder'.phase \in {"start", "out", "queued"}
              PROVE  Frees(holder.g)'
  BY DEF AttemptFree, Recovering, Fetches
<1>. PICK g : g = holder'.g  OBVIOUS
<1>. SUFFICES Frees(g)'  BY DEF Frees
<1>2. ASSUME holder # Nobody, holder.g = g, holder.how \in Fetches, holder.phase \in {"start", "out", "queued"}
      PROVE  Frees(g)'
  <2>1. Frees(g)  BY <1>2 DEF AttemptFree, Recovering, Fetches
  <2>2. ~SnapshotTimesOut /\ ~Clears /\ ~DegradedProceeds
    BY <1>1, <1>2 DEF SnapshotTimesOut, Clears, DegradedProceeds, Holds
  <2>. QED  BY <2>1, <2>2, FreesKept
<1>3. CASE Bystander
  <2>1. holder # Nobody /\ holder.g = g /\ holder.how \in Fetches /\ holder.phase \in {"start", "out", "queued"}
    BY <1>3, BystanderIs
  <2>. QED  BY <1>2, <2>1
<1>4. CASE Begin
  <2>1. holder = Nobody /\ g = NewId /\ Marks /\ UNCHANGED queue  BY <1>4, BeginIs
  <2>2. ~SnapshotTimesOut  BY <2>1 DEF SnapshotTimesOut, Holds
  <2>. QED  BY <2>1, <2>2, NewFrees
<1>5. CASE Move
  <2>1. holder # Nobody /\ holder.g = g  BY <1>5, MoveIs
  <2>2. Reserves \/ FallsBack  BY <1>1, <1>5, MoveIs
  <2>3. CASE Reserves
    <3>1. holder.how \in Fetches /\ holder.phase = "start"
      <4>1. holder \in Attempts /\ holder' = [holder EXCEPT !.phase = "out"] /\ holder.phase = "start"
        BY <2>1, <2>3 DEF Reserves, Typed
      <4>. QED  BY <4>1 DEF Attempts
    <3>. QED  BY <1>2, <2>1, <3>1
  <2>4. CASE FallsBack
    <3>1. /\ ~LosesIntent(g) /\ holder.how # "send"
          /\ UNCHANGED <<intents, queue, late, owed>>
      BY <2>1, <2>4 DEF FallsBack, storeVars, lateVars
    <3>2. DOMAIN queue = 1 .. Len(queue)  BY DEF Typed
    <3>3. g \in intents /\ g \notin Gens  BY <3>1, <3>2 DEF LosesIntent, Gens
    <3>4. /\ \A t \in Gens : t <= g
          /\ \A k \in 1 .. Len(queue) : queue[k].by = "live" => queue[k].g # g
      BY <2>1, <3>1 DEF OrderInv, Recovers
    <3>5. \A t \in Gens : t \in Nat  BY GensAreKnown, NewIdIsNew
    <3>6. g \in Nat  BY <3>3 DEF Typed
    <3>7. \A t \in Gens : t < g  BY <3>3, <3>4, <3>5, <3>6
    <3>8. Gens' = Gens  BY <3>1 DEF Gens
    <3>. QED  BY <3>1, <3>3, <3>4, <3>7, <3>8 DEF Frees
  <2>. QED  BY <2>2, <2>3, <2>4
<1>6. CASE WaitStep
  <2>1. holder # Nobody /\ holder.g = g /\ holder.how \in Fetches  BY <1>6, WaitIs
  <2>2. holder.phase = "out"
    BY <1>1, <1>6, <2>1 DEF WaitStep, FetchSucceeds, FetchFails, RequestFails, SnapshotArrives, SnapshotTimesOut,
         SendSucceeds, SendFails, Holds
  <2>. QED  BY <1>2, <2>1, <2>2
<1>7. CASE FetchAbandoned \/ Crash  BY <1>7 DEF FetchAbandoned, Ends, Crash
<1>. QED  BY <1>3, <1>4, <1>5, <1>6, <1>7, KindsOfSteps

LEMMA SendFreeStep ==
  ASSUME Typed, Bounded, Owners, SendFree, [Next]_vars
  PROVE  SendFree'
<1>. SUFFICES ASSUME holder' # Nobody, holder'.how = "send", holder'.phase \in {"start", "out"}
              PROVE  \E i : Frees(i)'
  BY DEF SendFree, Recovering, Frees
<1>1. ASSUME holder # Nobody, holder.how = "send", holder.phase \in {"start", "out"}
      PROVE  \E i : Frees(i)'
  <2>1. PICK i \in intents : Frees(i)  BY <1>1 DEF SendFree, Recovering
  <2>2. ~SnapshotTimesOut /\ ~Clears /\ ~DegradedProceeds
    BY <1>1 DEF SnapshotTimesOut, Clears, DegradedProceeds, Holds
  <2>. QED  BY <2>1, <2>2, FreesKept
<1>2. CASE Bystander  BY <1>1, <1>2, BystanderIs
<1>3. CASE Begin  BY <1>3, BeginIs
<1>4. CASE Move
  <2>1. CASE Reserves
    <3>1. holder \in Attempts /\ holder' = [holder EXCEPT !.phase = "out"] /\ holder.phase = "start" /\ holder # Nobody
      BY <2>1 DEF Reserves, Typed
    <3>2. holder.how = "send"  BY <3>1 DEF Attempts
    <3>. QED  BY <1>1, <3>1, <3>2
  <2>2. CASE SendMarks /\ Marks
    <3>1. UNCHANGED queue /\ ~SnapshotTimesOut  BY <2>2 DEF SendMarks, SnapshotTimesOut, Holds
    <3>2. PICK n : n = NewId  OBVIOUS
    <3>. QED  BY <2>2, <3>1, <3>2, NewFrees
  <2>. QED  BY <1>4, <2>1, <2>2, MoveIs
<1>5. CASE WaitStep  BY <1>5, WaitIs
<1>6. CASE FetchAbandoned \/ Crash  BY <1>6 DEF FetchAbandoned, Ends, Crash
<1>. QED  BY <1>2, <1>3, <1>4, <1>5, <1>6, KindsOfSteps

-----------------------------------------------------------------------------
(* No debt is lost. *)

LEMMA NoWait ==
  ASSUME Typed, Owners, Bystander, WaitStep
  PROVE  FALSE
  BY BystanderIs, WaitIs

LEMMA FreesRemembers ==
  ASSUME Typed', NEW t \in Nat, NEW m, t = 0 \/ t \in Gens', NEW i, Frees(i)'
  PROVE  Remembers(t, 0, m)'
<1>1. i \in intents' /\ i \in Nat \ {0}  BY DEF Frees, Typed
<1>2. i > t  BY <1>1 DEF Frees
<1>3. Covers(queue', i, m)  BY DEF Frees, Covers
<1>. QED  BY <1>1, <1>2, <1>3 DEF Remembers

LEMMA RemembersMore ==
  ASSUME Typed', NEW t \in Nat, NEW u \in Nat, t <= u, NEW x, NEW m, Remembers(u, x, m)'
  PROVE  Remembers(t, x, m)' /\ Remembers(t, 0, m)'
<1>1. PICK i \in intents' : i > u /\ i # x /\ Covers(queue', i, m)  BY DEF Remembers
<1>2. i \in Nat \ {0}  BY <1>1 DEF Typed
<1>3. i > t /\ i # 0  BY <1>1, <1>2
<1>. QED  BY <1>1, <1>3 DEF Remembers

LEMMA ThreatsHeldStep ==
  ASSUME Typed, Bounded, Owners, OrderInv, LateInv, [Next]_vars, ~exposed',
         ThreatsHeld, FetchedHeld, DegradedHeld, AttemptFree, SendFree
  PROVE  ThreatsHeld'
<1>1. Typed'  BY TypedStep
<1>. SUFFICES ASSUME NEW t \in Nat, Threat(t)', NEW m \in Needs'
              PROVE  m \in saved' \cup ToSet(outbox') \/ Remembers(t, 0, m)'
  BY DEF ThreatsHeld, Held
<1>2. m # 0 /\ NewId \in Nat \ {0}  BY NeedsIs, NewIdIsNew
<1>3. CASE m \in ToSet(outbox')  BY <1>3
<1>4. CASE FetchSucceeds \/ SendSucceeds
  <2>1. holder # Nobody /\ holder.phase = "out" /\ WaitStep /\ holder.how \in Incremental \cup Full \cup {"send"}
    BY <1>4 DEF FetchSucceeds, SendSucceeds, Holds, WaitStep
  <2>2. PICK i : Frees(i)
    <3>1. CASE FetchSucceeds  BY <2>1, <3>1 DEF FetchSucceeds, Holds, AttemptFree, Recovering
    <3>2. CASE SendSucceeds  BY <2>1, <3>2 DEF SendSucceeds, Holds, SendFree, Recovering
    <3>. QED  BY <1>4, <3>1, <3>2
  <2>3. "snapshot" \notin Incremental \cup Full \cup {"send"}  BY DEF Incremental, Full
  <2>4. ~SnapshotTimesOut /\ ~Clears /\ ~DegradedProceeds
    BY <2>1 DEF SnapshotTimesOut, Clears, DegradedProceeds, Holds
  <2>5. Frees(i)'  BY <2>2, <2>4, FreesKept
  <2>6. holder'.how # "snapshot" /\ holder'.phase = "queued"  BY <2>1, <2>3, WaitIs
  <2>7. ~Hearing(capture)'
    <3>1. UNCHANGED capture  BY <1>4 DEF FetchSucceeds, SendSucceeds
    <3>2. ~capture.on  BY <2>1, <2>3 DEF Owners, CaptureInv
    <3>. QED  BY <3>1, <3>2 DEF Hearing
  <2>8. t = 0 \/ t \in Gens'  BY <2>6, <2>7 DEF Threat, Gens, Written, Recovering
  <2>. QED  BY <1>1, <2>5, <2>8, FreesRemembers
<1>5. CASE CommandBegins /\ intents = {} /\ t = NewId
  <2>1. Begin  BY <1>5 DEF Begin
  <2>2. UNCHANGED <<log, cursor, outbox, saved>>  BY <2>1, BeginIs DEF serverVars
  <2>3. m \in Needs  BY <2>2, NeedsIs
  <2>4. m \in saved \cup ToSet(outbox) \/ Remembers(0, 0, m)  BY <2>3 DEF ThreatsHeld, Threat, Held
  <2>. QED  BY <1>5, <2>2, <2>4 DEF Remembers
<1>6. CASE m \in Needs /\ Threat(t)
  <2>1. t < NewId /\ (t = 0 \/ t \in Gens \/ (Recovers /\ t = holder.g))  BY <1>6, ThreatsAre
  <2>2. \A u \in Nat : Threat(u) => m \in saved \cup ToSet(outbox) \/ Remembers(u, 0, m)
    BY <1>6 DEF ThreatsHeld, Held
  <2>3. CASE Clears
    <3>1. PICK g : g = holder.g  OBVIOUS
    <3>2. /\ holder # Nobody /\ holder.phase = "done" /\ holder.res = "ok" /\ intents' = After(g)
          /\ holder.how \in Full \cup {"incremental", "snapshot"}
      BY <2>3, <3>1 DEF Clears, Holds
    <3>3. Recovers /\ g \in Nat \ {0} /\ g < NewId
      <4>1. Recovers  BY <3>2 DEF Recovers, Full
      <4>2. g \in Known  BY <3>1, <4>1, KnownHas DEF Recovers
      <4>3. g \in Nat \ {0}  BY <3>1, <3>2 DEF Typed, Attempts
      <4>. QED  BY <4>1, <4>2, <4>3, NewIdIsNew
    <3>4. t <= g  BY <2>1, <3>1, <3>3 DEF OrderInv
    <3>5. m \in saved \cup ToSet(outbox) \/ Remembers(g, 0, m)
      <4>1. CASE holder.how = "snapshot"
        <5>1. Threat(g)  BY <3>1, <3>2, <4>1 DEF Threat, Written, Recovering
        <5>. QED  BY <2>2, <3>3, <5>1
      <4>2. CASE holder.how # "snapshot"
        <5>1. Fetched  BY <3>2, <4>2 DEF Fetched, Written, Recovering
        <5>2. HolderEvents = {}  BY <3>2, NoHolderEvents
        <5>. QED  BY <1>6, <3>1, <5>1, <5>2 DEF FetchedHeld, Held
      <4>. QED  BY <4>1, <4>2
    <3>6. \A i \in intents : i > g => i \in intents'  BY <3>2 DEF After
    <3>7. m \in saved' \cup ToSet(outbox') \/ Remembers(g, 0, m)'
      BY <1>2, <3>3, <3>5, <3>6, StillHeld
    <3>. QED  BY <1>1, <3>3, <3>4, <3>7, RemembersMore
  <2>4. CASE LateClears
    <3>1. PICK g \in owed : intents' = After(g)  BY <2>4 DEF LateClears
    <3>2. g \in Nat /\ Threat(g)  BY <3>1 DEF Typed, Threat
    <3>3. PICK u \in {t, g} : u \in Nat /\ t <= u /\ g <= u  BY <3>2
    <3>4. Threat(u) /\ u < NewId  BY <1>6, <3>2, <3>3, ThreatsAre
    <3>5. m \in saved \cup ToSet(outbox) \/ Remembers(u, 0, m)  BY <2>2, <3>3, <3>4
    <3>6. \A i \in intents : i > u => i \in intents'
      <4>1. \A i \in intents : i \in Nat  BY DEF Typed
      <4>. QED  BY <3>1, <3>2, <3>3, <4>1 DEF After
    <3>7. m \in saved' \cup ToSet(outbox') \/ Remembers(u, 0, m)'
      BY <1>2, <3>3, <3>4, <3>5, <3>6, StillHeld
    <3>. QED  BY <1>1, <3>3, <3>7, RemembersMore
  <2>5. CASE DegradedProceeds
    <3>1. PICK g : g = holder.g  OBVIOUS
    <3>2. /\ holder # Nobody /\ holder.phase = "done" /\ holder.res = "ok" /\ holder.how = "degraded"
          /\ intents' = intents \ {g}
      BY <2>5, <3>1 DEF DegradedProceeds, DegradedLeaves, Holds
    <3>3. g < NewId
      <4>1. g \in Known  BY <3>1, <3>2, KnownHas
      <4>. QED  BY <4>1, NewIdIsNew
    <3>4. HolderEvents = {}  BY <3>2, NoHolderEvents
    <3>5. Degrading  BY <3>2 DEF Degrading, Written, Recovering
    <3>6. m \in saved \cup ToSet(outbox) \/ Remembers(t, g, m)
      BY <1>6, <3>1, <3>4, <3>5 DEF DegradedHeld, Held
    <3>7. g # NewId  BY <1>2, <3>3
    <3>8. m \in saved' \cup ToSet(outbox') \/ Remembers(t, g, m)'
      BY <1>2, <2>1, <3>2, <3>6, <3>7, StillHeld
    <3>9. t <= t  OBVIOUS
    <3>. QED  BY <1>1, <3>8, <3>9, RemembersMore
  <2>6. CASE ~Clears /\ ~LateClears /\ ~DegradedProceeds
    <3>1. \A i \in intents : Covers(queue, i, m) => i \in intents' \/ m \in saved'  BY <2>6, IntentsStay
    <3>2. m \in saved \cup ToSet(outbox) \/ Remembers(t, 0, m)  BY <1>6, <2>2
    <3>. QED  BY <1>2, <2>1, <3>1, <3>2, StillHeld
  <2>. QED  BY <2>3, <2>4, <2>5, <2>6
<1>. QED  BY <1>3, <1>4, <1>5, <1>6, ThreatsMove, NeedsMove

\* What a fetch has brought, the attempt's task is going to write.
LEMMA FetchWrites ==
  ASSUME Typed, FetchSucceeds
  PROVE  /\ holder.how \in Incremental => Behind \subseteq HolderEvents'
         /\ holder.how \in Full => StateAt(Len(log)) \subseteq HolderEvents'
<1>1. Len(log) \in Nat /\ cursor \in Nat  BY DEF Typed
<1>2. Behind \in SUBSET Nat  BY <1>1 DEF Behind
<1>3. \A c : Latest(c, Len(log)) \in 0 .. Len(log)  BY <1>1, LastOfIs, LatestIs
<1>4. StateAt(Len(log)) \in SUBSET Nat  BY <1>1, <1>3 DEF StateAt
<1>5. "ok" \in Results /\ holder # Nobody  BY DEF Results, FetchSucceeds, Holds
<1>6. Incremental \cap Full = {}  BY DEF Incremental, Full
<1>7. \/ holder.how \in Incremental /\ WaitsOn(Behind, "ok")
      \/ holder.how \in Full /\ WaitsOn(StateAt(Len(log)), "ok")
  BY DEF FetchSucceeds, Holds, WaitsOn, lateVars
<1>. QED  BY <1>2, <1>4, <1>5, <1>6, <1>7, WaitWrites

LEMMA FetchedHeldStep ==
  ASSUME Typed, Bounded, Owners, OrderInv, LateInv, [Next]_vars, ~exposed', ThreatsHeld, FetchedHeld
  PROVE  FetchedHeld'
<1>1. Typed'  BY TypedStep
<1>2. PICK g : g = holder'.g  OBVIOUS
<1>. SUFFICES ASSUME holder' # Nobody, holder'.how \in {"incremental"} \cup Full,
                     holder'.phase \in {"queued", "done"}, holder'.res = "ok", NEW m \in Needs'
              PROVE  m \in saved' \cup ToSet(outbox') \cup HolderEvents' \/ Remembers(g, 0, m)'
  BY <1>2 DEF FetchedHeld, Fetched, Written, Recovering, Held
<1>3. m # 0 /\ NewId \in Nat \ {0}  BY NeedsIs, NewIdIsNew
<1>4. CASE m \in ToSet(outbox')  BY <1>4
<1>5. ASSUME holder # Nobody, holder.g = g, holder.how # "send" PROVE g \in Nat \ {0} /\ g < NewId
  <2>1. g \in Known  BY <1>5, KnownHas
  <2>2. g \in Nat \ {0}  BY <1>5 DEF Typed, Attempts
  <2>. QED  BY <2>1, <2>2, NewIdIsNew
<1>6. CASE Bystander
  <2>1. /\ holder # Nobody /\ holder.g = g /\ holder.how \in {"incremental"} \cup Full
        /\ holder.phase \in {"queued", "done"} /\ holder.res = "ok"
    BY <1>2, <1>6, BystanderIs
  <2>2. Recovers  BY <2>1 DEF Recovers, Full
  <2>3. g \in Nat \ {0} /\ g < NewId  BY <1>5, <2>1, <2>2 DEF Recovers
  <2>4. ~FetchSucceeds /\ ~SendSucceeds  BY <1>6, NoWait DEF WaitStep
  <2>5. CASE m \in Needs
    <3>1. m \in saved \cup ToSet(outbox) \cup HolderEvents \/ Remembers(g, 0, m)
      BY <2>1, <2>5 DEF FetchedHeld, Fetched, Written, Recovering, Held
    <3>2. CASE m \in HolderEvents  BY <1>6, <2>1, <3>2, HolderWrites
    <3>3. CASE m \notin HolderEvents
      <4>1. ASSUME NEW i \in intents, i > g, Covers(queue, i, m) PROVE i \in intents' \/ m \in saved'
        <5>1. CASE Clears  BY <2>1, <4>1, <5>1 DEF Clears, After
        <5>2. CASE LateClears
          <6>1. PICK t \in owed : intents' = After(t)  BY <5>2 DEF LateClears
          <6>2. t <= g /\ t \in Nat /\ i \in Nat  BY <2>1, <2>2, <6>1 DEF OrderInv, Gens, Typed
          <6>. QED  BY <2>3, <4>1, <6>1, <6>2 DEF After
        <5>3. ~DegradedProceeds  BY <2>1 DEF DegradedProceeds, Holds, Full
        <5>. QED  BY <4>1, <5>1, <5>2, <5>3, IntentsStay
      <4>2. m \in saved \cup ToSet(outbox) \/ Remembers(g, 0, m)  BY <3>1, <3>3
      <4>3. m \in saved' \cup ToSet(outbox') \/ Remembers(g, 0, m)'
        BY <1>3, <2>3, <4>1, <4>2, StillHeld
      <4>. QED  BY <4>3
    <3>. QED  BY <3>2, <3>3
  <2>. QED  BY <1>4, <2>4, <2>5, NeedsMove
<1>7. CASE Begin  BY <1>7, BeginIs
<1>8. CASE Move  BY <1>8, MoveIs
<1>9. CASE WaitStep
  <2>1. holder # Nobody /\ holder.g = g /\ holder.how = holder'.how  BY <1>2, <1>9, WaitIs
  <2>2. FetchSucceeds /\ holder.phase = "out"
    <3>1. holder.how # "snapshot" /\ holder.how # "send"  BY <2>1 DEF Full
    <3>. QED  BY <1>9, <3>1, WaitIs
  <2>3. CASE holder.how \in Full
    <3>1. m \in StateAt(Len(log))  BY <2>2, FullNeeds
    <3>. QED  BY <2>2, <2>3, <3>1, FetchWrites
  <2>4. CASE holder.how = "incremental"
    <3>1. Behind \subseteq HolderEvents'  BY <2>2, <2>4, FetchWrites DEF Incremental
    <3>2. CASE m \in Needs
      <4>1. Threat(g)  BY <2>1, <2>2, <2>4 DEF Threat, Recovering
      <4>2. g \in Nat \ {0} /\ g < NewId  BY <1>5, <2>1, <2>4
      <4>3. m \in saved \cup ToSet(outbox) \/ Remembers(g, 0, m)  BY <3>2, <4>1, <4>2 DEF ThreatsHeld, Held
      <4>4. ~Clears /\ ~DegradedProceeds /\ ~LateClears
        <5>1. ~Clears /\ ~DegradedProceeds  BY <2>2 DEF Clears, DegradedProceeds, Holds
        <5>2. ~LateClears  BY <1>9, NoWait DEF Bystander
        <5>. QED  BY <5>1, <5>2
      <4>5. \A i \in intents : Covers(queue, i, m) => i \in intents' \/ m \in saved'  BY <4>4, IntentsStay
      <4>6. m \in saved' \cup ToSet(outbox') \/ Remembers(g, 0, m)'
        BY <1>3, <4>2, <4>3, <4>5, StillHeld
      <4>. QED  BY <4>6
    <3>3. ~SendSucceeds  BY <2>4 DEF SendSucceeds, Holds
    <3>. QED  BY <1>4, <3>1, <3>2, <3>3, NeedsMove
  <2>. QED  BY <2>1, <2>3, <2>4
<1>10. CASE FetchAbandoned \/ Crash  BY <1>10 DEF FetchAbandoned, Ends, Crash
<1>. QED  BY <1>6, <1>7, <1>8, <1>9, <1>10, KindsOfSteps

LEMMA DegradedHeldStep ==
  ASSUME Typed, Bounded, Owners, OrderInv, LateInv, [Next]_vars, ~exposed', ThreatsHeld, DegradedHeld
  PROVE  DegradedHeld'
<1>1. Typed'  BY TypedStep
<1>2. PICK g : g = holder'.g  OBVIOUS
<1>. SUFFICES ASSUME holder' # Nobody, holder'.how = "degraded",
                     \/ holder'.phase \in {"start", "out"}
                     \/ holder'.phase \in {"queued", "done"} /\ holder'.res = "ok",
                     NEW t \in Nat, Threat(t)', NEW m \in Needs'
              PROVE  m \in saved' \cup ToSet(outbox') \cup HolderEvents' \/ Remembers(t, g, m)'
  BY <1>2 DEF DegradedHeld, Degrading, Written, Recovering, Held
<1>3. m # 0 /\ NewId \in Nat \ {0}  BY NeedsIs, NewIdIsNew
<1>4. CASE m \in ToSet(outbox')  BY <1>4
<1>5. ASSUME holder # Nobody, holder.g = g, holder.how # "send" PROVE g # NewId
  <2>1. g \in Known  BY <1>5, KnownHas
  <2>. QED  BY <1>3, <2>1, NewIdIsNew
<1>6. holder # Nobody => ~CommandBegins  BY DEF CommandBegins
\* A step of the attempt or of another, once it degrades.
<1>7. ASSUME holder # Nobody, holder.g = g, holder.how = "degraded", Degrading, ~Clears, ~DegradedProceeds,
             m \in Needs, m \notin HolderEvents, m \notin ToSet(outbox')
      PROVE  m \in saved' \cup ToSet(outbox') \/ Remembers(t, g, m)'
  <2>1. Threat(t)  BY <1>6, <1>7, ThreatsMove
  <2>2. g # NewId  BY <1>5, <1>7
  <2>3. PICK u \in Nat : Threat(u) /\ t <= u /\ \A i \in intents : i > u /\ Covers(queue, i, m) => i \in intents' \/ m \in saved'
    <3>1. CASE LateClears
      <4>1. PICK s \in owed : intents' = After(s)  BY <3>1 DEF LateClears
      <4>2. s \in Nat /\ Threat(s)  BY <4>1 DEF Typed, Threat
      <4>3. PICK u \in {t, s} : u \in Nat /\ t <= u /\ s <= u  BY <4>2
      <4>4. \A i \in intents : i \in Nat  BY DEF Typed
      <4>5. \A i \in intents : i > u => i \in intents'  BY <4>1, <4>2, <4>3, <4>4 DEF After
      <4>. QED  BY <2>1, <4>2, <4>3, <4>5
    <3>2. CASE ~LateClears
      <4>1. \A i \in intents : Covers(queue, i, m) => i \in intents' \/ m \in saved'  BY <1>7, <3>2, IntentsStay
      <4>2. t <= t  OBVIOUS
      <4>. QED  BY <2>1, <4>1, <4>2
    <3>. QED  BY <3>1, <3>2
  <2>4. u < NewId  BY <2>3, ThreatsAre
  <2>5. m \in saved \cup ToSet(outbox) \/ Remembers(u, g, m)  BY <1>7, <2>3 DEF DegradedHeld, Held
  <2>6. m \in saved' \cup ToSet(outbox') \/ Remembers(u, g, m)'
    BY <1>3, <2>2, <2>3, <2>4, <2>5, StillHeld
  <2>. QED  BY <1>1, <2>3, <2>6, RemembersMore
<1>8. CASE Bystander
  <2>1. /\ holder # Nobody /\ holder.g = g /\ holder.how = "degraded"
        /\ \/ holder.phase \in {"start", "out"} /\ holder'.phase = holder.phase
           \/ holder.phase \in {"queued", "done"} /\ holder.res = "ok" /\ holder'.res = "ok"
    BY <1>2, <1>8, BystanderIs
  <2>2. Degrading  BY <2>1 DEF Degrading, Written, Recovering
  <2>3. ~Clears /\ ~DegradedProceeds
    <3>1. ~Clears  BY <2>1 DEF Clears, Holds, Full
    <3>2. ~DegradedProceeds
      <4>1. DegradedProceeds => holder' = [holder EXCEPT !.how = "send", !.last = TRUE, !.phase = "mark", !.res = "ok"]
        BY DEF DegradedProceeds, Goes
      <4>2. holder \in Attempts  BY <2>1 DEF Typed
      <4>. QED  BY <4>1, <4>2 DEF Attempts
    <3>. QED  BY <3>1, <3>2
  <2>4. ~FetchSucceeds /\ ~SendSucceeds  BY <1>8, NoWait DEF WaitStep
  <2>5. CASE m \in HolderEvents
    <3>1. holder.phase = "queued"  BY <2>5, NoHolderEvents
    <3>. QED  BY <1>8, <2>1, <2>5, <3>1, HolderWrites
  <2>. QED  BY <1>4, <1>7, <2>1, <2>2, <2>3, <2>4, <2>5, NeedsMove
<1>9. CASE Begin
  <2>1. /\ g = NewId /\ CommandBegins /\ intents # {} /\ UNCHANGED <<log, cursor, outbox, saved, queue>> /\ Marks
    BY <1>2, <1>9, BeginIs DEF serverVars
  <2>2. m \in Needs  BY <2>1, NeedsIs
  <2>3. CASE m \notin ToSet(outbox')
    <3>1. Threat(t)  BY <2>1, <2>3, ThreatsMove
    <3>2. m \in saved \cup ToSet(outbox) \/ Remembers(t, 0, m)  BY <2>2, <3>1 DEF ThreatsHeld, Held
    <3>3. ASSUME Remembers(t, 0, m) PROVE Remembers(t, g, m)'
      <4>1. PICK i \in intents : i > t /\ Covers(queue, i, m)  BY <3>3 DEF Remembers
      <4>2. i < NewId  BY NewIdIsNew, KnownHas
      <4>3. i # g /\ i \in intents'  BY <1>3, <2>1, <4>2 DEF Marks
      <4>. QED  BY <2>1, <4>1, <4>3 DEF Remembers
    <3>. QED  BY <2>1, <3>2, <3>3
  <2>. QED  BY <1>4, <2>3
<1>10. CASE Move
  <2>1. Reserves /\ holder # Nobody /\ holder.g = g /\ holder.how = "degraded" /\ holder.phase = "start"
    BY <1>2, <1>10, MoveIs
  <2>2. Degrading /\ HolderEvents = {}  BY <2>1, NoHolderEvents DEF Degrading, Recovering
  <2>3. ~Clears /\ ~DegradedProceeds /\ ~FetchSucceeds /\ ~SendSucceeds
    BY <2>1 DEF Clears, DegradedProceeds, FetchSucceeds, SendSucceeds, Holds
  <2>. QED  BY <1>4, <1>7, <2>1, <2>2, <2>3, NeedsMove
<1>11. CASE WaitStep
  <2>1. holder # Nobody /\ holder.g = g /\ holder.how = "degraded"  BY <1>2, <1>11, WaitIs
  <2>2. FetchSucceeds /\ holder.phase = "out"
    <3>1. holder'.res = "ok"  BY <1>11, WaitIs
    <3>. QED  BY <1>11, <2>1, <3>1, WaitIs
  <2>3. Behind \subseteq HolderEvents'  BY <2>1, <2>2, FetchWrites DEF Incremental
  <2>4. Degrading /\ HolderEvents = {}  BY <2>1, <2>2, NoHolderEvents DEF Degrading, Recovering
  <2>5. ~Clears /\ ~DegradedProceeds /\ ~SendSucceeds
    BY <2>1, <2>2 DEF Clears, DegradedProceeds, SendSucceeds, Holds
  <2>. QED  BY <1>4, <1>7, <2>1, <2>3, <2>4, <2>5, NeedsMove
<1>12. CASE FetchAbandoned \/ Crash  BY <1>12 DEF FetchAbandoned, Ends, Crash
<1>. QED  BY <1>8, <1>9, <1>10, <1>11, <1>12, KindsOfSteps

LEMMA DebtsStep ==
  ASSUME Typed, Bounded, Owners, OrderInv, LateInv, Debts, [Next]_vars
  PROVE  Debts'
<1>. SUFFICES ASSUME ~exposed'
              PROVE  ThreatsHeld' /\ FetchedHeld' /\ DegradedHeld' /\ AttemptFree' /\ SendFree'
  BY DEF Debts
<1>1. ThreatsHeld /\ FetchedHeld /\ DegradedHeld /\ AttemptFree /\ SendFree
  BY ExposedStays DEF Debts
<1>2. ThreatsHeld'  BY <1>1, ThreatsHeldStep
<1>3. FetchedHeld'  BY <1>1, FetchedHeldStep
<1>4. DegradedHeld'  BY <1>1, DegradedHeldStep
<1>5. AttemptFree'  BY <1>1, AttemptFreeStep
<1>6. SendFree'  BY <1>1, SendFreeStep
<1>. QED  BY <1>2, <1>3, <1>4, <1>5, <1>6

-----------------------------------------------------------------------------
(* The theorems. *)

LEMMA InitInv ==
  ASSUME Init
  PROVE  IInv
<1>. USE DEF Init, NoLate, NoCapture, Nobody
<1>1. Len(queue) = 0 /\ queue \in Seq(Tickets) /\ DOMAIN queue = {}  OBVIOUS
<1>2. Typed
  <2>1. log \in Seq(Chats) /\ Len(log) = 0 /\ outbox \in Seq(Nat) /\ batch \in Seq(Nat \ {0})  OBVIOUS
  <2>2. capture \in Frames /\ late \in [g : Nat, capture : Frames]  BY DEF Frames
  <2>3. cursor \in 0 .. Len(log) /\ saved \subseteq Nat /\ intents \subseteq Nat \ {0} /\ owed \subseteq Nat
    BY <2>1
  <2>4. holder \in Attempts \cup {Nobody} /\ exposed \in BOOLEAN  OBVIOUS
  <2>. QED  BY <1>1, <2>1, <2>2, <2>3, <2>4 DEF Typed
<1>3. Bounded
  <2>1. Known = {0}  BY <1>1 DEF Known
  <2>. QED  BY <2>1 DEF Bounded
<1>4. Owners /\ OrderInv /\ LateInv
  BY <1>1 DEF Owners, AwaitInv, OpenInv, TicketsOwned, CaptureInv, OrderInv, Recovers, LateInv
<1>5. Needs = {}  BY <1>2, NeedsAre
<1>6. Debts
  BY <1>5 DEF Debts, ThreatsHeld, FetchedHeld, DegradedHeld, AttemptFree, SendFree, Held, Fetched, Degrading,
     Written, Recovering
<1>. QED  BY <1>2, <1>3, <1>4, <1>6 DEF IInv

LEMMA NextInv ==
  ASSUME IInv, [Next]_vars
  PROVE  IInv'
<1>. USE DEF IInv
<1>1. Typed'  BY TypedStep
<1>2. Bounded'  BY BoundedStep
<1>3. Owners'  BY OwnersStep
<1>4. OrderInv'  BY OrderStep
<1>5. LateInv'  BY LateStep
<1>6. Debts'  BY DebtsStep
<1>. QED  BY <1>1, <1>2, <1>3, <1>4, <1>5, <1>6

\* The inductive invariant: the types, the ownership and the order of tickets and
\* generations, and what every possible clearing of intents leaves remembered.
THEOREM Invariance == Spec => []IInv
<1>1. Init => IInv  BY InitInv
<1>2. IInv /\ [Next]_vars => IInv'  BY NextInv
<1>. QED  BY <1>1, <1>2, PTL DEF Spec

\* A reserved ticket always has somebody who completes it, whatever fetches,
\* snapshots, timeouts and late answers come in what order (Reserve and complete in
\* internal/app/app_state_sequencer.go, as chat_state.go and sync_recovery.go call
\* them): no store write of the sequencer waits for ever behind a ticket that all
\* have forgotten.
THEOREM TicketsOwnedAlways == Spec => []TicketsOwned
<1>1. IInv => TicketsOwned  BY DEF IInv, Owners, OpenInv
<1>. QED  BY <1>1, Invariance, PTL

\* No mutation that whatsmeow has handed over is forgotten: it is in the store, or
\* to be dispatched yet, or a durable intent says that the collection has to be
\* recovered (internal/store/app_state.go), at every moment at which the process
\* may die, but for the three cases that DebtKept names.
THEOREM DebtKeptAlways == Spec => []DebtKept
<1>1. ASSUME IInv PROVE DebtKept
  <2>. SUFFICES ASSUME ~exposed, Owed # {} PROVE intents # {} \/ outbox # <<>>
    BY DEF DebtKept, DebtAlwaysKept
  <2>1. Typed /\ Held({}, 0, 0)  BY <1>1 DEF IInv, Debts, ThreatsHeld, Threat
  <2>2. PICK c \in Chats : Latest(c, cursor) \notin saved \cup {0}  BY DEF Owed
  <2>3. Latest(c, cursor) \in Needs  BY <2>2 DEF Needs
  <2>4. Latest(c, cursor) \in ToSet(outbox) \/ intents # {}  BY <2>1, <2>2, <2>3 DEF Held, Remembers
  <2>. QED  BY <2>4 DEF ToSet
<1>. QED  BY <1>1, Invariance, PTL
=============================================================================
