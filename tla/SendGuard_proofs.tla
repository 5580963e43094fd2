-------------------------- MODULE SendGuard_proofs --------------------------
(***************************************************************************)
(* The guard holds for every number of attempts, ids and messages.         *)
(***************************************************************************)
EXTENDS SendGuard, TLAPS

\* Who may run: a handler holds the lock, or the slot of a daemon that does.
HoldersInv ==
  \A a \in Attempts :
    /\ Running(a) => \/ path[a] = "local" /\ lock = a
                     \/ path[a] = "daemon" /\ lock = "daemon" /\ slot = a
    /\ pc[a] = "queued" => path[a] = "daemon" /\ lock = "daemon"
    /\ pc[a] = "idle" => path[a] = "none"

\* Where the goroutine and its frame are, seen from the handler.
SendAt(a) ==
  /\ op[a] \in {"prep", "marked"} /\ live[a] => pc[a] = "await"
  /\ pc[a] \in {"idle", "queued", "check", "begin", "prepare"} => op[a] = "none" /\ err[a] = "nil"
  /\ op[a] \in {"none", "prep", "marked"} => net[a] = "none"
  /\ sent[a] = IF net[a] = "accepted" THEN 1 ELSE 0
  /\ Running(a) /\ (op[a] \in {"marked", "wire", "acked"} \/ net[a] # "none") => dispatched[a]
  /\ op[a] = "acked" => net[a] = "accepted"
  /\ op[a] = "ret" /\ pc[a] = "await" =>
       /\ res[a] = "ok" => net[a] = "accepted"
       /\ res[a] = "server" => net[a] = "rejected"
       /\ res[a] = "lookup" => net[a] = "none"
       /\ res[a] # "none"
  /\ pc[a] = "reconnect" => net[a] = "none" /\ op[a] = "ret" /\ err[a] = "nil"
  /\ pc[a] = "await" => err[a] = "nil"
  /\ pc[a] = "persist" => net[a] = "accepted" /\ op[a] = "ret" /\ err[a] = "nil"
  /\ pc[a] = "finish" /\ err[a] = "server" => net[a] \in {"none", "rejected"}
  /\ pc[a] = "finish" /\ err[a] = "nil" => op[a] \in {"none", "ret"}
SendInv == \A a \in Attempts : SendAt(a)

\* A send that succeeded is in the store, or its warning says it is not.
PersistInv ==
  \A a \in Attempts :
    /\ pc[a] = "await" /\ op[a] = "ret" /\ res[a] = "ok" /\ PersistsInOp(Msg(a)) => warn[a] \/ Found(a)
    /\ pc[a] = "finish" /\ err[a] = "nil" /\ FrameOut(a) => warn[a] \/ Found(a)

\* The row and the frames of an id.
MemoryInv ==
  /\ DeliveredIsRemembered
  /\ \A b \in Attempts : Owns(b) => row[Id(b)].state = "in_flight"
  /\ \A a, b \in Attempts :
       a # b /\ Id(a) = Id(b) /\ Promised(Id(a)) /\ FrameOut(a) =>
         /\ ~Owns(b)
         /\ ~FrameOut(b)
         /\ pc[b] = "begin" => row[Id(a)].state = "in_flight"

IInv == TypeOK /\ HoldersInv /\ SendInv /\ PersistInv /\ MemoryInv

-----------------------------------------------------------------------------
(* Types. *)

\* What a handler that ends leaves behind has the right types.
LEMMA LocalsGoneType ==
  ASSUME MainTypeOK, OpTypeOK, NEW S, LocalsGone(S)
  PROVE  /\ err' \in [Attempts -> {"nil", "other", "server"}]
         /\ warn' \in [Attempts -> BOOLEAN]
         /\ retried' \in [Attempts -> BOOLEAN]
         /\ dispatched' \in [Attempts -> BOOLEAN]
         /\ res' \in [Attempts -> {"none", "ok", "other", "server", "lookup"}]
<1>1. err' \in [Attempts -> {"nil", "other", "server"}]  BY DEF LocalsGone, MainTypeOK
<1>2. warn' \in [Attempts -> BOOLEAN]  BY DEF LocalsGone, MainTypeOK
<1>3. retried' \in [Attempts -> BOOLEAN]  BY DEF LocalsGone, MainTypeOK
<1>4. dispatched' \in [Attempts -> BOOLEAN]  BY DEF LocalsGone, OpTypeOK
<1>5. res' \in [Attempts -> {"none", "ok", "other", "server", "lookup"}]  BY DEF LocalsGone, OpTypeOK
<1>. QED  BY <1>1, <1>2, <1>3, <1>4, <1>5

LEMMA ReturnType ==
  ASSUME MainTypeOK, OpTypeOK, NEW a \in Attempts,
         NEW w \in {"none", "sent", "error", "already_sent", "id_reused", "resultado_incerto"},
         Return(a, w), path' = path
  PROVE  MainTypeOK' /\ OpTypeOK'
<1>1. LocalsGone({a})  BY DEF Return
<1>2. pc' \in [Attempts -> {"idle", "queued", "check", "begin", "prepare", "await", "reconnect",
                            "persist", "finish", "done", "dead"}]
  BY DEF Return, MainTypeOK
<1>3. answer' \in [Attempts -> {"none", "sent", "error", "already_sent", "id_reused",
                                "resultado_incerto"}]
  BY DEF Return, MainTypeOK
<1>4. op' \in [Attempts -> {"none", "prep", "marked", "wire", "acked", "ret", "gone"}]
  BY DEF Return, OpTypeOK
<1>5. live' \in [Attempts -> BOOLEAN]  BY DEF Return, OpTypeOK
<1>6. path' \in [Attempts -> {"none", "local", "daemon"}]  BY DEF MainTypeOK
<1>. QED  BY <1>1, <1>2, <1>3, <1>4, <1>5, <1>6, LocalsGoneType DEF MainTypeOK, OpTypeOK

\* What beginIDSend does to the handler.
LEMMA BeginCases ==
  ASSUME NEW a \in Attempts, beginIDSend(a)
  PROVE  /\ pc[a] = "begin"
         /\ UNCHANGED <<req, path, netVars, stored>>
         /\ \/ /\ pc' = [pc EXCEPT ![a] = "prepare"]
               /\ UNCHANGED <<err, warn, retried, answer, opVars, heldVars>>
            \/ \E w \in {"id_reused", "resultado_incerto", "error"} : Return(a, w)
  BY DEF beginIDSend

LEMMA MainTypeStep == ASSUME TypeOK, SendInv, [Next]_vars PROVE MainTypeOK'
<1>0. MainTypeOK /\ OpTypeOK  BY DEF TypeOK
<1>1. ASSUME NEW a \in Attempts, StartLocal(a) PROVE MainTypeOK'
  BY <1>1, <1>0 DEF StartLocal, MainTypeOK, opVars, netVars, storeVars
<1>2. ASSUME NEW a \in Attempts, StartDelegated(a) PROVE MainTypeOK'
  BY <1>2, <1>0 DEF StartDelegated, MainTypeOK, opVars, netVars, storeVars, heldVars
<1>3. ASSUME NEW a \in Attempts, StartRefused(a) PROVE MainTypeOK'
  BY <1>3, <1>0 DEF StartRefused, MainTypeOK, opVars, netVars, storeVars, heldVars
<1>4. ASSUME NEW a \in Attempts, TakeSlot(a) PROVE MainTypeOK'
  BY <1>4, <1>0 DEF TakeSlot, MainTypeOK, opVars, netVars, storeVars
<1>5. ASSUME NEW a \in Attempts, QueueRefuse(a) PROVE MainTypeOK'
  BY <1>5, <1>0 DEF QueueRefuse, MainTypeOK, opVars, netVars, storeVars, heldVars
<1>6. ASSUME NEW a \in Attempts, alreadySentResponse(a) PROVE MainTypeOK'
  <2>1. StoredAnswer(a) \in {"id_reused", "already_sent"} /\ PendingAnswer(a) \in {"id_reused", "already_sent"}
    BY DEF StoredAnswer, PendingAnswer
  <2>2. path' = path  BY <1>6 DEF alreadySentResponse
  <2>3. CASE \E w \in {"id_reused", "already_sent", "error"} : Return(a, w)
    BY <1>0, <2>2, <2>3, ReturnType
  <2>4. CASE pc' = [pc EXCEPT ![a] = "begin"] /\ UNCHANGED <<err, warn, retried, answer>>
    BY <1>0, <2>2, <2>4 DEF MainTypeOK
  <2>. QED  BY <1>6, <2>1, <2>3, <2>4 DEF alreadySentResponse
<1>7. ASSUME NEW a \in Attempts, beginIDSend(a) PROVE MainTypeOK'
  <2>1. CASE pc' = [pc EXCEPT ![a] = "prepare"] /\ UNCHANGED <<path, err, warn, retried, answer>>
    BY <1>0, <2>1 DEF MainTypeOK
  <2>2. CASE path' = path /\ \E w \in {"id_reused", "resultado_incerto", "error"} : Return(a, w)
    BY <1>0, <2>2, ReturnType
  <2>. QED  BY <1>7, <2>1, <2>2, BeginCases
<1>8. ASSUME NEW a \in Attempts, Prepare(a) PROVE MainTypeOK'
  BY <1>8, <1>0 DEF Prepare, Spawn, Fail, EarlyErr, MainTypeOK, netVars, storeVars, heldVars
<1>9. ASSUME NEW a \in Attempts, OpFailEarly(a) PROVE MainTypeOK'
  BY <1>9, <1>0 DEF OpFailEarly, MainTypeOK, mainVars, netVars, storeVars, heldVars
<1>10. ASSUME NEW a \in Attempts, OpMark(a) PROVE MainTypeOK'
  BY <1>10, <1>0 DEF OpMark, MainTypeOK, mainVars, netVars, storeVars, heldVars
<1>11. ASSUME NEW a \in Attempts, OpFailMarked(a) PROVE MainTypeOK'
  BY <1>11, <1>0 DEF OpFailMarked, MainTypeOK, mainVars, netVars, storeVars, heldVars
<1>12. ASSUME NEW a \in Attempts, OpWrite(a) PROVE MainTypeOK'
  BY <1>12, <1>0 DEF OpWrite, MainTypeOK, mainVars, storeVars, heldVars
<1>13. ASSUME NEW a \in Attempts, OpAnswer(a) PROVE MainTypeOK'
  BY <1>13, <1>0 DEF OpAnswer, MainTypeOK, mainVars, netVars, storeVars, heldVars
<1>14. ASSUME NEW a \in Attempts, OpPersist(a) PROVE MainTypeOK'
  BY <1>14, <1>0 DEF OpPersist, OpReturn, StoreWrite, MainTypeOK, netVars, heldVars
<1>15. ASSUME NEW a \in Attempts, AwaitResult(a) PROVE MainTypeOK'
  <2>1. res[a] # "none" /\ res[a] \in {"none", "ok", "other", "server", "lookup"}
    BY <1>15, <1>0 DEF AwaitResult, SendInv, SendAt, OpTypeOK
  <2>2. res[a] # "ok" => Errors(res[a]) \subseteq {"nil", "other", "server"}  BY <2>1 DEF Errors
  <2>3. CASE res[a] = "ok"  BY <1>15, <1>0, <2>3 DEF AwaitResult, MainTypeOK
  <2>4. CASE res[a] # "ok" /\ CanRetry(a)  BY <1>15, <1>0, <2>4 DEF AwaitResult, MainTypeOK
  <2>5. CASE res[a] # "ok" /\ ~CanRetry(a)
    BY <1>15, <1>0, <2>2, <2>5 DEF AwaitResult, Fail, MainTypeOK
  <2>. QED  BY <2>3, <2>4, <2>5
<1>16. ASSUME NEW a \in Attempts, AwaitTimeout(a) PROVE MainTypeOK'
  BY <1>16, <1>0 DEF AwaitTimeout, Fail, MainTypeOK, opVars, netVars, storeVars, heldVars
<1>17. ASSUME NEW a \in Attempts, Reconnect(a) PROVE MainTypeOK'
  BY <1>17, <1>0 DEF Reconnect, Spawn, Fail, MainTypeOK, netVars, storeVars, heldVars
<1>18. ASSUME NEW a \in Attempts, Persist(a) PROVE MainTypeOK'
  BY <1>18, <1>0 DEF Persist, StoreWrite, MainTypeOK, opVars, netVars, heldVars
<1>19. ASSUME NEW a \in Attempts, Finish(a) PROVE MainTypeOK'
  <2>1. answer[a] \in {"none", "sent", "error", "already_sent", "id_reused", "resultado_incerto"}
    BY <1>0 DEF MainTypeOK
  <2>. QED  BY <1>19, <1>0, <2>1, ReturnType DEF Finish
<1>20. ASSUME NEW a \in Attempts, ServerTakes(a) PROVE MainTypeOK'
  BY <1>20, <1>0 DEF ServerTakes, MainTypeOK, mainVars, opVars, storeVars, heldVars
<1>21. ASSUME NEW a \in Attempts, CtxEnd(a) PROVE MainTypeOK'
  BY <1>21, <1>0 DEF CtxEnd, MainTypeOK, mainVars, netVars, storeVars, heldVars
<1>22. ASSUME NEW a \in Attempts, LocalCrash(a) PROVE MainTypeOK'
  BY <1>22, <1>0 DEF LocalCrash, LocalsGone, MainTypeOK, netVars, storeVars
<1>23. ASSUME NEW a \in Attempts, SyncStores(a) PROVE MainTypeOK'
  BY <1>23, <1>0 DEF SyncStores, MainTypeOK, mainVars, opVars, netVars, heldVars
<1>24. ASSUME DaemonStart PROVE MainTypeOK'
  BY <1>24, <1>0 DEF DaemonStart, MainTypeOK, mainVars, opVars, netVars, storeVars
<1>25. ASSUME DaemonExit PROVE MainTypeOK'
  BY <1>25, <1>0 DEF DaemonExit, LocalsGone, MainTypeOK, netVars, storeVars
<1>26. ASSUME StoreRebuilt PROVE MainTypeOK'
  BY <1>26, <1>0 DEF StoreRebuilt, MainTypeOK, mainVars, opVars, netVars, heldVars
<1>27. ASSUME NEW i \in Ids, PendingSendsClear(i) PROVE MainTypeOK'
  BY <1>27, <1>0 DEF PendingSendsClear, MainTypeOK, mainVars, opVars, netVars, heldVars
<1>28. ASSUME NEW i \in Ids, RowAges(i) PROVE MainTypeOK'
  BY <1>28, <1>0 DEF RowAges, MainTypeOK, mainVars, opVars, netVars, heldVars
<1>29. ASSUME NEW i \in Ids, StoredChanges(i) PROVE MainTypeOK'
  BY <1>29, <1>0 DEF StoredChanges, MainTypeOK, mainVars, opVars, netVars, heldVars
<1>30. CASE UNCHANGED vars
  BY <1>30, <1>0 DEF vars, mainVars, opVars, netVars, storeVars, heldVars, MainTypeOK
<1>. QED BY <1>1, <1>2, <1>3, <1>4, <1>5, <1>6, <1>7, <1>8, <1>9, <1>10, <1>11, <1>12, <1>13,
    <1>14, <1>15, <1>16, <1>17, <1>18, <1>19, <1>20, <1>21, <1>22, <1>23, <1>24, <1>25, <1>26,
    <1>27, <1>28, <1>29, <1>30 DEF Next, Start, Handler, Goroutine

LEMMA OpTypeStep == ASSUME MainTypeOK, OpTypeOK, [Next]_vars PROVE OpTypeOK'
<1>1. ASSUME NEW a \in Attempts, StartLocal(a) PROVE OpTypeOK'
  BY <1>1 DEF StartLocal, OpTypeOK, opVars, netVars, storeVars
<1>2. ASSUME NEW a \in Attempts, StartDelegated(a) PROVE OpTypeOK'
  BY <1>2 DEF StartDelegated, OpTypeOK, opVars, netVars, storeVars, heldVars
<1>3. ASSUME NEW a \in Attempts, StartRefused(a) PROVE OpTypeOK'
  BY <1>3 DEF StartRefused, OpTypeOK, opVars, netVars, storeVars, heldVars
<1>4. ASSUME NEW a \in Attempts, TakeSlot(a) PROVE OpTypeOK'
  BY <1>4 DEF TakeSlot, OpTypeOK, opVars, netVars, storeVars
<1>5. ASSUME NEW a \in Attempts, QueueRefuse(a) PROVE OpTypeOK'
  BY <1>5 DEF QueueRefuse, OpTypeOK, opVars, netVars, storeVars, heldVars
<1>6. ASSUME NEW a \in Attempts, alreadySentResponse(a) PROVE OpTypeOK'
  <2>1. CASE UNCHANGED opVars  BY <2>1 DEF OpTypeOK, opVars
  <2>2. ASSUME NEW w, path' = path, Return(a, w) PROVE OpTypeOK'
    BY <2>2 DEF Return, LocalsGone, OpTypeOK
  <2>. QED  BY <1>6, <2>1, <2>2 DEF alreadySentResponse
<1>7. ASSUME NEW a \in Attempts, beginIDSend(a) PROVE OpTypeOK'
  <2>1. CASE UNCHANGED opVars  BY <2>1 DEF OpTypeOK, opVars
  <2>2. CASE path' = path /\ \E w \in {"id_reused", "resultado_incerto", "error"} : Return(a, w)
    BY <2>2, ReturnType
  <2>. QED  BY <1>7, <2>1, <2>2, BeginCases
<1>8. ASSUME NEW a \in Attempts, Prepare(a) PROVE OpTypeOK'
  BY <1>8 DEF Prepare, Spawn, OpTypeOK, netVars, storeVars, heldVars
<1>9. ASSUME NEW a \in Attempts, OpFailEarly(a) PROVE OpTypeOK'
  BY <1>9 DEF OpFailEarly, OpReturn, OpTypeOK, mainVars, netVars, storeVars, heldVars
<1>10. ASSUME NEW a \in Attempts, OpMark(a) PROVE OpTypeOK'
  BY <1>10 DEF OpMark, OpTypeOK, mainVars, netVars, storeVars, heldVars
<1>11. ASSUME NEW a \in Attempts, OpFailMarked(a) PROVE OpTypeOK'
  BY <1>11 DEF OpFailMarked, OpReturn, OpTypeOK, mainVars, netVars, storeVars, heldVars
<1>12. ASSUME NEW a \in Attempts, OpWrite(a) PROVE OpTypeOK'
  BY <1>12 DEF OpWrite, OpTypeOK, mainVars, storeVars, heldVars
<1>13. ASSUME NEW a \in Attempts, OpAnswer(a) PROVE OpTypeOK'
  BY <1>13 DEF OpAnswer, OpReturn, OpTypeOK, mainVars, netVars, storeVars, heldVars
<1>14. ASSUME NEW a \in Attempts, OpPersist(a) PROVE OpTypeOK'
  BY <1>14 DEF OpPersist, OpReturn, OpTypeOK, netVars, heldVars
<1>15. ASSUME NEW a \in Attempts, AwaitResult(a) PROVE OpTypeOK'
  BY <1>15 DEF AwaitResult, OpTypeOK, opVars, netVars, storeVars, heldVars
<1>16. ASSUME NEW a \in Attempts, AwaitTimeout(a) PROVE OpTypeOK'
  BY <1>16 DEF AwaitTimeout, OpTypeOK, opVars, netVars, storeVars, heldVars
<1>17. ASSUME NEW a \in Attempts, Reconnect(a) PROVE OpTypeOK'
  BY <1>17 DEF Reconnect, Spawn, OpTypeOK, netVars, storeVars, heldVars
<1>18. ASSUME NEW a \in Attempts, Persist(a) PROVE OpTypeOK'
  BY <1>18 DEF Persist, OpTypeOK, opVars, netVars, heldVars
<1>19. ASSUME NEW a \in Attempts, Finish(a) PROVE OpTypeOK'
  BY <1>19 DEF Finish, Return, LocalsGone, OpTypeOK, netVars
<1>20. ASSUME NEW a \in Attempts, ServerTakes(a) PROVE OpTypeOK'
  BY <1>20 DEF ServerTakes, OpTypeOK, mainVars, opVars, storeVars, heldVars
<1>21. ASSUME NEW a \in Attempts, CtxEnd(a) PROVE OpTypeOK'
  BY <1>21 DEF CtxEnd, OpTypeOK, mainVars, netVars, storeVars, heldVars
<1>22. ASSUME NEW a \in Attempts, LocalCrash(a) PROVE OpTypeOK'
  BY <1>22 DEF LocalCrash, LocalsGone, OpTypeOK, netVars, storeVars
<1>23. ASSUME NEW a \in Attempts, SyncStores(a) PROVE OpTypeOK'
  BY <1>23 DEF SyncStores, OpTypeOK, mainVars, opVars, netVars, heldVars
<1>24. ASSUME DaemonStart PROVE OpTypeOK'
  BY <1>24 DEF DaemonStart, OpTypeOK, mainVars, opVars, netVars, storeVars
<1>25. ASSUME DaemonExit PROVE OpTypeOK'
  BY <1>25 DEF DaemonExit, LocalsGone, OpTypeOK, netVars, storeVars
<1>26. ASSUME StoreRebuilt PROVE OpTypeOK'
  BY <1>26 DEF StoreRebuilt, OpTypeOK, mainVars, opVars, netVars, heldVars
<1>27. ASSUME NEW i \in Ids, PendingSendsClear(i) PROVE OpTypeOK'
  BY <1>27 DEF PendingSendsClear, OpTypeOK, mainVars, opVars, netVars, heldVars
<1>28. ASSUME NEW i \in Ids, RowAges(i) PROVE OpTypeOK'
  BY <1>28 DEF RowAges, OpTypeOK, mainVars, opVars, netVars, heldVars
<1>29. ASSUME NEW i \in Ids, StoredChanges(i) PROVE OpTypeOK'
  BY <1>29 DEF StoredChanges, OpTypeOK, mainVars, opVars, netVars, heldVars
<1>30. CASE UNCHANGED vars
  BY <1>30 DEF vars, mainVars, opVars, netVars, storeVars, heldVars, OpTypeOK
<1>. QED BY <1>1, <1>2, <1>3, <1>4, <1>5, <1>6, <1>7, <1>8, <1>9, <1>10, <1>11, <1>12, <1>13,
    <1>14, <1>15, <1>16, <1>17, <1>18, <1>19, <1>20, <1>21, <1>22, <1>23, <1>24, <1>25, <1>26,
    <1>27, <1>28, <1>29, <1>30 DEF Next, Start, Handler, Goroutine

-----------------------------------------------------------------------------
(* Handlers, goroutines and frames. *)

LEMMA HoldersStep == ASSUME MainTypeOK, HoldersInv, [Next]_vars PROVE HoldersInv'
<1>. USE AttemptsAssumption DEF HoldersInv, Running, MainTypeOK
<1>1. ASSUME NEW a \in Attempts, StartLocal(a) PROVE HoldersInv'
  BY <1>1 DEF StartLocal, opVars, netVars, storeVars
<1>2. ASSUME NEW a \in Attempts, StartDelegated(a) PROVE HoldersInv'
  BY <1>2 DEF StartDelegated, opVars, netVars, storeVars, heldVars
<1>3. ASSUME NEW a \in Attempts, StartRefused(a) PROVE HoldersInv'
  BY <1>3 DEF StartRefused, opVars, netVars, storeVars, heldVars
<1>4. ASSUME NEW a \in Attempts, TakeSlot(a) PROVE HoldersInv'
  BY <1>4 DEF TakeSlot, SlotFree, opVars, netVars, storeVars
<1>5. ASSUME NEW a \in Attempts, QueueRefuse(a) PROVE HoldersInv'
  BY <1>5 DEF QueueRefuse, opVars, netVars, storeVars, heldVars
<1>6. ASSUME NEW a \in Attempts, alreadySentResponse(a) PROVE HoldersInv'
  BY <1>6 DEF alreadySentResponse, Return, opVars, netVars, storeVars, heldVars
<1>7. ASSUME NEW a \in Attempts, beginIDSend(a) PROVE HoldersInv'
  BY <1>7 DEF beginIDSend, Return, opVars, netVars, heldVars
<1>8. ASSUME NEW a \in Attempts, Prepare(a) PROVE HoldersInv'
  BY <1>8 DEF Prepare, Spawn, Fail, netVars, storeVars, heldVars
<1>9. ASSUME NEW a \in Attempts, OpFailEarly(a) PROVE HoldersInv'
  BY <1>9 DEF OpFailEarly, mainVars, netVars, storeVars, heldVars
<1>10. ASSUME NEW a \in Attempts, OpMark(a) PROVE HoldersInv'
  BY <1>10 DEF OpMark, mainVars, netVars, storeVars, heldVars
<1>11. ASSUME NEW a \in Attempts, OpFailMarked(a) PROVE HoldersInv'
  BY <1>11 DEF OpFailMarked, mainVars, netVars, storeVars, heldVars
<1>12. ASSUME NEW a \in Attempts, OpWrite(a) PROVE HoldersInv'
  BY <1>12 DEF OpWrite, mainVars, storeVars, heldVars
<1>13. ASSUME NEW a \in Attempts, OpAnswer(a) PROVE HoldersInv'
  BY <1>13 DEF OpAnswer, mainVars, netVars, storeVars, heldVars
<1>14. ASSUME NEW a \in Attempts, OpPersist(a) PROVE HoldersInv'
  BY <1>14 DEF OpPersist, netVars, heldVars
<1>15. ASSUME NEW a \in Attempts, AwaitResult(a) PROVE HoldersInv'
  BY <1>15 DEF AwaitResult, Fail, opVars, netVars, storeVars, heldVars
<1>16. ASSUME NEW a \in Attempts, AwaitTimeout(a) PROVE HoldersInv'
  BY <1>16 DEF AwaitTimeout, Fail, opVars, netVars, storeVars, heldVars
<1>17. ASSUME NEW a \in Attempts, Reconnect(a) PROVE HoldersInv'
  BY <1>17 DEF Reconnect, Spawn, Fail, netVars, storeVars, heldVars
<1>18. ASSUME NEW a \in Attempts, Persist(a) PROVE HoldersInv'
  BY <1>18 DEF Persist, opVars, netVars, heldVars
<1>19. ASSUME NEW a \in Attempts, Finish(a) PROVE HoldersInv'
  BY <1>19 DEF Finish, Return, netVars
<1>20. ASSUME NEW a \in Attempts, ServerTakes(a) PROVE HoldersInv'
  BY <1>20 DEF ServerTakes, mainVars, opVars, storeVars, heldVars
<1>21. ASSUME NEW a \in Attempts, CtxEnd(a) PROVE HoldersInv'
  BY <1>21 DEF CtxEnd, mainVars, netVars, storeVars, heldVars
<1>22. ASSUME NEW a \in Attempts, LocalCrash(a) PROVE HoldersInv'
  BY <1>22 DEF LocalCrash, netVars, storeVars
<1>23. ASSUME NEW a \in Attempts, SyncStores(a) PROVE HoldersInv'
  BY <1>23 DEF SyncStores, mainVars, opVars, netVars, heldVars
<1>24. ASSUME DaemonStart PROVE HoldersInv'
  BY <1>24 DEF DaemonStart, mainVars, opVars, netVars, storeVars
<1>25. ASSUME DaemonExit PROVE HoldersInv'
  BY <1>25 DEF DaemonExit, netVars, storeVars
<1>26. ASSUME StoreRebuilt PROVE HoldersInv'
  BY <1>26 DEF StoreRebuilt, mainVars, opVars, netVars, heldVars
<1>27. ASSUME NEW i \in Ids, PendingSendsClear(i) PROVE HoldersInv'
  BY <1>27 DEF PendingSendsClear, mainVars, opVars, netVars, heldVars
<1>28. ASSUME NEW i \in Ids, RowAges(i) PROVE HoldersInv'
  BY <1>28 DEF RowAges, mainVars, opVars, netVars, heldVars
<1>29. ASSUME NEW i \in Ids, StoredChanges(i) PROVE HoldersInv'
  BY <1>29 DEF StoredChanges, mainVars, opVars, netVars, heldVars
<1>30. CASE UNCHANGED vars
  BY <1>30 DEF vars, mainVars, opVars, netVars, storeVars, heldVars
<1>. QED BY <1>1, <1>2, <1>3, <1>4, <1>5, <1>6, <1>7, <1>8, <1>9, <1>10, <1>11, <1>12, <1>13,
    <1>14, <1>15, <1>16, <1>17, <1>18, <1>19, <1>20, <1>21, <1>22, <1>23, <1>24, <1>25, <1>26,
    <1>27, <1>28, <1>29, <1>30 DEF Next, Start, Handler, Goroutine

\* The frame of an attempt does not need its handler to return.
LEMMA ReturnSend ==
  ASSUME MainTypeOK, OpTypeOK, NetTypeOK, SendInv, NEW a \in Attempts, NEW w, Return(a, w),
         UNCHANGED <<path, netVars>>
  PROVE  SendInv'
  BY DEF SendInv, SendAt, MainTypeOK, OpTypeOK, NetTypeOK, Running, Return, LocalsGone, netVars

LEMMA SendStep ==
  ASSUME MainTypeOK, OpTypeOK, NetTypeOK, HoldersInv, SendInv, [Next]_vars PROVE SendInv'
<1>. USE DEF SendInv, SendAt, MainTypeOK, OpTypeOK, NetTypeOK, Running
<1>1. ASSUME NEW a \in Attempts, StartLocal(a) PROVE SendInv'
  BY <1>1 DEF StartLocal, opVars, netVars, storeVars
<1>2. ASSUME NEW a \in Attempts, StartDelegated(a) PROVE SendInv'
  BY <1>2 DEF StartDelegated, opVars, netVars, storeVars, heldVars
<1>3. ASSUME NEW a \in Attempts, StartRefused(a) PROVE SendInv'
  BY <1>3 DEF StartRefused, opVars, netVars, storeVars, heldVars
<1>4. ASSUME NEW a \in Attempts, TakeSlot(a) PROVE SendInv'
  BY <1>4 DEF TakeSlot, opVars, netVars, storeVars
<1>5. ASSUME NEW a \in Attempts, QueueRefuse(a) PROVE SendInv'
  BY <1>5 DEF QueueRefuse, opVars, netVars, storeVars, heldVars
<1>6. ASSUME NEW a \in Attempts, alreadySentResponse(a) PROVE SendInv'
  <2>1. CASE \E w : Return(a, w)  BY <1>6, <2>1, ReturnSend DEF alreadySentResponse
  <2>2. CASE pc' = [pc EXCEPT ![a] = "begin"] /\ UNCHANGED <<err, warn, retried, answer, opVars, heldVars>>
    BY <1>6, <2>2 DEF alreadySentResponse, opVars, netVars
  <2>. QED  BY <1>6, <2>1, <2>2 DEF alreadySentResponse
<1>7. ASSUME NEW a \in Attempts, beginIDSend(a) PROVE SendInv'
  <2>1. CASE \E w : Return(a, w)  BY <1>7, <2>1, ReturnSend, BeginCases
  <2>2. CASE pc' = [pc EXCEPT ![a] = "prepare"] /\ UNCHANGED <<err, warn, retried, answer, opVars, heldVars>>
    BY <1>7, <2>2, BeginCases DEF opVars, netVars
  <2>. QED  BY <1>7, <2>1, <2>2, BeginCases
<1>8. ASSUME NEW a \in Attempts, Prepare(a) PROVE SendInv'
  BY <1>8 DEF Prepare, Spawn, Fail, EarlyErr, netVars, storeVars, heldVars
<1>9. ASSUME NEW a \in Attempts, OpFailEarly(a) PROVE SendInv'
  BY <1>9 DEF OpFailEarly, OpReturn, mainVars, netVars, storeVars, heldVars
<1>10. ASSUME NEW a \in Attempts, OpMark(a) PROVE SendInv'
  BY <1>10 DEF OpMark, mainVars, netVars, storeVars, heldVars
<1>11. ASSUME NEW a \in Attempts, OpFailMarked(a) PROVE SendInv'
  BY <1>11 DEF OpFailMarked, OpReturn, mainVars, netVars, storeVars, heldVars
<1>12. ASSUME NEW a \in Attempts, OpWrite(a) PROVE SendInv'
  BY <1>12 DEF OpWrite, mainVars, storeVars, heldVars
<1>13. ASSUME NEW a \in Attempts, OpAnswer(a) PROVE SendInv'
  BY <1>13 DEF OpAnswer, OpReturn, mainVars, netVars, storeVars, heldVars
<1>14. ASSUME NEW a \in Attempts, OpPersist(a) PROVE SendInv'
  BY <1>14 DEF OpPersist, OpReturn, StoreWrite, netVars, heldVars
<1>15. ASSUME NEW a \in Attempts, AwaitResult(a) PROVE SendInv'
  <2>1. pc[a] = "await" /\ op[a] = "ret" /\ UNCHANGED <<opVars, netVars>>  BY <1>15 DEF AwaitResult
  <2>2. CASE res[a] = "ok"  BY <1>15, <2>1, <2>2 DEF AwaitResult, opVars, netVars
  <2>3. CASE res[a] # "ok" /\ CanRetry(a)
    BY <1>15, <2>1, <2>3 DEF AwaitResult, CanRetry, Retryable, opVars, netVars
  <2>4. CASE res[a] # "ok" /\ ~CanRetry(a)
    <3>1. PICK e \in Errors(res[a]) : Fail(a, e)  BY <1>15, <2>4 DEF AwaitResult
    <3>2. e # "nil" /\ (e = "server" => net[a] \in {"none", "rejected"})
      BY <2>1, <3>1 DEF Errors
    <3>. QED  BY <2>1, <3>1, <3>2 DEF Fail, opVars, netVars
  <2>. QED  BY <2>2, <2>3, <2>4
<1>16. ASSUME NEW a \in Attempts, AwaitTimeout(a) PROVE SendInv'
  BY <1>16 DEF AwaitTimeout, Fail, GivesUp, opVars, netVars, storeVars, heldVars
<1>17. ASSUME NEW a \in Attempts, Reconnect(a) PROVE SendInv'
  BY <1>17 DEF Reconnect, Spawn, Fail, netVars, storeVars, heldVars
<1>18. ASSUME NEW a \in Attempts, Persist(a) PROVE SendInv'
  BY <1>18 DEF Persist, StoreWrite, opVars, netVars, heldVars
<1>19. ASSUME NEW a \in Attempts, Finish(a) PROVE SendInv'
  BY <1>19 DEF Finish, Return, LocalsGone, netVars
<1>20. ASSUME NEW a \in Attempts, ServerTakes(a) PROVE SendInv'
  BY <1>20 DEF ServerTakes, mainVars, opVars, storeVars, heldVars
<1>21. ASSUME NEW a \in Attempts, CtxEnd(a) PROVE SendInv'
  BY <1>21 DEF CtxEnd, mainVars, netVars, storeVars, heldVars
<1>22. ASSUME NEW a \in Attempts, LocalCrash(a) PROVE SendInv'
  BY <1>22 DEF LocalCrash, LocalsGone, netVars, storeVars
<1>23. ASSUME NEW a \in Attempts, SyncStores(a) PROVE SendInv'
  BY <1>23 DEF SyncStores, mainVars, opVars, netVars, heldVars
<1>24. ASSUME DaemonStart PROVE SendInv'
  BY <1>24 DEF DaemonStart, mainVars, opVars, netVars, storeVars
<1>25. ASSUME DaemonExit PROVE SendInv'
  BY <1>25 DEF DaemonExit, LocalsGone, netVars, storeVars
<1>26. ASSUME StoreRebuilt PROVE SendInv'
  BY <1>26 DEF StoreRebuilt, mainVars, opVars, netVars, heldVars
<1>27. ASSUME NEW i \in Ids, PendingSendsClear(i) PROVE SendInv'
  BY <1>27 DEF PendingSendsClear, mainVars, opVars, netVars, heldVars
<1>28. ASSUME NEW i \in Ids, RowAges(i) PROVE SendInv'
  BY <1>28 DEF RowAges, mainVars, opVars, netVars, heldVars
<1>29. ASSUME NEW i \in Ids, StoredChanges(i) PROVE SendInv'
  BY <1>29 DEF StoredChanges, mainVars, opVars, netVars, heldVars
<1>30. CASE UNCHANGED vars
  BY <1>30 DEF vars, mainVars, opVars, netVars, storeVars, heldVars
<1>. QED BY <1>1, <1>2, <1>3, <1>4, <1>5, <1>6, <1>7, <1>8, <1>9, <1>10, <1>11, <1>12, <1>13,
    <1>14, <1>15, <1>16, <1>17, <1>18, <1>19, <1>20, <1>21, <1>22, <1>23, <1>24, <1>25, <1>26,
    <1>27, <1>28, <1>29, <1>30 DEF Next, Start, Handler, Goroutine

LEMMA NetTypeStep == ASSUME NetTypeOK, [Next]_vars PROVE NetTypeOK'
<1>. USE DEF NetTypeOK
<1>1. ASSUME NEW a \in Attempts, StartLocal(a) PROVE NetTypeOK'
  BY <1>1 DEF StartLocal, opVars, netVars, storeVars
<1>2. ASSUME NEW a \in Attempts, StartDelegated(a) PROVE NetTypeOK'
  BY <1>2 DEF StartDelegated, opVars, netVars, storeVars, heldVars
<1>3. ASSUME NEW a \in Attempts, StartRefused(a) PROVE NetTypeOK'
  BY <1>3 DEF StartRefused, opVars, netVars, storeVars, heldVars
<1>4. ASSUME NEW a \in Attempts, TakeSlot(a) PROVE NetTypeOK'
  BY <1>4 DEF TakeSlot, opVars, netVars, storeVars
<1>5. ASSUME NEW a \in Attempts, QueueRefuse(a) PROVE NetTypeOK'
  BY <1>5 DEF QueueRefuse, opVars, netVars, storeVars, heldVars
<1>6. ASSUME NEW a \in Attempts, alreadySentResponse(a) PROVE NetTypeOK'
  BY <1>6 DEF alreadySentResponse, opVars, netVars, storeVars, heldVars
<1>7. ASSUME NEW a \in Attempts, beginIDSend(a) PROVE NetTypeOK'
  BY <1>7 DEF beginIDSend, netVars, opVars, heldVars
<1>8. ASSUME NEW a \in Attempts, Prepare(a) PROVE NetTypeOK'
  BY <1>8 DEF Prepare, netVars, storeVars, heldVars
<1>9. ASSUME NEW a \in Attempts, OpFailEarly(a) PROVE NetTypeOK'
  BY <1>9 DEF OpFailEarly, mainVars, netVars, storeVars, heldVars
<1>10. ASSUME NEW a \in Attempts, OpMark(a) PROVE NetTypeOK'
  BY <1>10 DEF OpMark, mainVars, netVars, storeVars, heldVars
<1>11. ASSUME NEW a \in Attempts, OpFailMarked(a) PROVE NetTypeOK'
  BY <1>11 DEF OpFailMarked, mainVars, netVars, storeVars, heldVars
<1>12. ASSUME NEW a \in Attempts, OpWrite(a) PROVE NetTypeOK'
  BY <1>12 DEF OpWrite, mainVars, storeVars, heldVars
<1>13. ASSUME NEW a \in Attempts, OpAnswer(a) PROVE NetTypeOK'
  BY <1>13 DEF OpAnswer, mainVars, netVars, storeVars, heldVars
<1>14. ASSUME NEW a \in Attempts, OpPersist(a) PROVE NetTypeOK'
  BY <1>14 DEF OpPersist, netVars, heldVars
<1>15. ASSUME NEW a \in Attempts, AwaitResult(a) PROVE NetTypeOK'
  BY <1>15 DEF AwaitResult, opVars, netVars, storeVars, heldVars
<1>16. ASSUME NEW a \in Attempts, AwaitTimeout(a) PROVE NetTypeOK'
  BY <1>16 DEF AwaitTimeout, opVars, netVars, storeVars, heldVars
<1>17. ASSUME NEW a \in Attempts, Reconnect(a) PROVE NetTypeOK'
  BY <1>17 DEF Reconnect, netVars, storeVars, heldVars
<1>18. ASSUME NEW a \in Attempts, Persist(a) PROVE NetTypeOK'
  BY <1>18 DEF Persist, opVars, netVars, heldVars
<1>19. ASSUME NEW a \in Attempts, Finish(a) PROVE NetTypeOK'
  BY <1>19 DEF Finish, netVars
<1>20. ASSUME NEW a \in Attempts, ServerTakes(a) PROVE NetTypeOK'
  BY <1>20 DEF ServerTakes, mainVars, opVars, storeVars, heldVars
<1>21. ASSUME NEW a \in Attempts, CtxEnd(a) PROVE NetTypeOK'
  BY <1>21 DEF CtxEnd, mainVars, netVars, storeVars, heldVars
<1>22. ASSUME NEW a \in Attempts, LocalCrash(a) PROVE NetTypeOK'
  BY <1>22 DEF LocalCrash, netVars, storeVars
<1>23. ASSUME NEW a \in Attempts, SyncStores(a) PROVE NetTypeOK'
  BY <1>23 DEF SyncStores, mainVars, opVars, netVars, heldVars
<1>24. ASSUME DaemonStart PROVE NetTypeOK'
  BY <1>24 DEF DaemonStart, mainVars, opVars, netVars, storeVars
<1>25. ASSUME DaemonExit PROVE NetTypeOK'
  BY <1>25 DEF DaemonExit, netVars, storeVars
<1>26. ASSUME StoreRebuilt PROVE NetTypeOK'
  BY <1>26 DEF StoreRebuilt, mainVars, opVars, netVars, heldVars
<1>27. ASSUME NEW i \in Ids, PendingSendsClear(i) PROVE NetTypeOK'
  BY <1>27 DEF PendingSendsClear, mainVars, opVars, netVars, heldVars
<1>28. ASSUME NEW i \in Ids, RowAges(i) PROVE NetTypeOK'
  BY <1>28 DEF RowAges, mainVars, opVars, netVars, heldVars
<1>29. ASSUME NEW i \in Ids, StoredChanges(i) PROVE NetTypeOK'
  BY <1>29 DEF StoredChanges, mainVars, opVars, netVars, heldVars
<1>30. CASE UNCHANGED vars
  BY <1>30 DEF vars, mainVars, opVars, netVars, storeVars, heldVars
<1>. QED BY <1>1, <1>2, <1>3, <1>4, <1>5, <1>6, <1>7, <1>8, <1>9, <1>10, <1>11, <1>12, <1>13,
    <1>14, <1>15, <1>16, <1>17, <1>18, <1>19, <1>20, <1>21, <1>22, <1>23, <1>24, <1>25, <1>26,
    <1>27, <1>28, <1>29, <1>30 DEF Next, Start, Handler, Goroutine

LEMMA HeldTypeStep == ASSUME HeldTypeOK, [Next]_vars PROVE HeldTypeOK'
<1>. USE DEF HeldTypeOK
<1>1. ASSUME NEW a \in Attempts, StartLocal(a) PROVE HeldTypeOK'
  BY <1>1 DEF StartLocal, opVars, netVars, storeVars
<1>2. ASSUME NEW a \in Attempts, StartDelegated(a) PROVE HeldTypeOK'
  BY <1>2 DEF StartDelegated, opVars, netVars, storeVars, heldVars
<1>3. ASSUME NEW a \in Attempts, StartRefused(a) PROVE HeldTypeOK'
  BY <1>3 DEF StartRefused, opVars, netVars, storeVars, heldVars
<1>4. ASSUME NEW a \in Attempts, TakeSlot(a) PROVE HeldTypeOK'
  BY <1>4 DEF TakeSlot, SlotFree, opVars, netVars, storeVars
<1>5. ASSUME NEW a \in Attempts, QueueRefuse(a) PROVE HeldTypeOK'
  BY <1>5 DEF QueueRefuse, opVars, netVars, storeVars, heldVars
<1>6. ASSUME NEW a \in Attempts, alreadySentResponse(a) PROVE HeldTypeOK'
  BY <1>6 DEF alreadySentResponse, Return, opVars, netVars, storeVars, heldVars
<1>7. ASSUME NEW a \in Attempts, beginIDSend(a) PROVE HeldTypeOK'
  BY <1>7 DEF beginIDSend, Return, opVars, netVars, heldVars
<1>8. ASSUME NEW a \in Attempts, Prepare(a) PROVE HeldTypeOK'
  BY <1>8 DEF Prepare, netVars, storeVars, heldVars
<1>9. ASSUME NEW a \in Attempts, OpFailEarly(a) PROVE HeldTypeOK'
  BY <1>9 DEF OpFailEarly, mainVars, netVars, storeVars, heldVars
<1>10. ASSUME NEW a \in Attempts, OpMark(a) PROVE HeldTypeOK'
  BY <1>10 DEF OpMark, mainVars, netVars, storeVars, heldVars
<1>11. ASSUME NEW a \in Attempts, OpFailMarked(a) PROVE HeldTypeOK'
  BY <1>11 DEF OpFailMarked, mainVars, netVars, storeVars, heldVars
<1>12. ASSUME NEW a \in Attempts, OpWrite(a) PROVE HeldTypeOK'
  BY <1>12 DEF OpWrite, mainVars, storeVars, heldVars
<1>13. ASSUME NEW a \in Attempts, OpAnswer(a) PROVE HeldTypeOK'
  BY <1>13 DEF OpAnswer, mainVars, netVars, storeVars, heldVars
<1>14. ASSUME NEW a \in Attempts, OpPersist(a) PROVE HeldTypeOK'
  BY <1>14 DEF OpPersist, netVars, heldVars
<1>15. ASSUME NEW a \in Attempts, AwaitResult(a) PROVE HeldTypeOK'
  BY <1>15 DEF AwaitResult, opVars, netVars, storeVars, heldVars
<1>16. ASSUME NEW a \in Attempts, AwaitTimeout(a) PROVE HeldTypeOK'
  BY <1>16 DEF AwaitTimeout, opVars, netVars, storeVars, heldVars
<1>17. ASSUME NEW a \in Attempts, Reconnect(a) PROVE HeldTypeOK'
  BY <1>17 DEF Reconnect, netVars, storeVars, heldVars
<1>18. ASSUME NEW a \in Attempts, Persist(a) PROVE HeldTypeOK'
  BY <1>18 DEF Persist, opVars, netVars, heldVars
<1>19. ASSUME NEW a \in Attempts, Finish(a) PROVE HeldTypeOK'
  BY <1>19 DEF Finish, Return, netVars
<1>20. ASSUME NEW a \in Attempts, ServerTakes(a) PROVE HeldTypeOK'
  BY <1>20 DEF ServerTakes, mainVars, opVars, storeVars, heldVars
<1>21. ASSUME NEW a \in Attempts, CtxEnd(a) PROVE HeldTypeOK'
  BY <1>21 DEF CtxEnd, mainVars, netVars, storeVars, heldVars
<1>22. ASSUME NEW a \in Attempts, LocalCrash(a) PROVE HeldTypeOK'
  BY <1>22 DEF LocalCrash, netVars, storeVars
<1>23. ASSUME NEW a \in Attempts, SyncStores(a) PROVE HeldTypeOK'
  BY <1>23 DEF SyncStores, mainVars, opVars, netVars, heldVars
<1>24. ASSUME DaemonStart PROVE HeldTypeOK'
  BY <1>24 DEF DaemonStart, mainVars, opVars, netVars, storeVars
<1>25. ASSUME DaemonExit PROVE HeldTypeOK'
  BY <1>25 DEF DaemonExit, netVars, storeVars
<1>26. ASSUME StoreRebuilt PROVE HeldTypeOK'
  BY <1>26 DEF StoreRebuilt, mainVars, opVars, netVars, heldVars
<1>27. ASSUME NEW i \in Ids, PendingSendsClear(i) PROVE HeldTypeOK'
  BY <1>27 DEF PendingSendsClear, mainVars, opVars, netVars, heldVars
<1>28. ASSUME NEW i \in Ids, RowAges(i) PROVE HeldTypeOK'
  BY <1>28 DEF RowAges, mainVars, opVars, netVars, heldVars
<1>29. ASSUME NEW i \in Ids, StoredChanges(i) PROVE HeldTypeOK'
  BY <1>29 DEF StoredChanges, mainVars, opVars, netVars, heldVars
<1>30. CASE UNCHANGED vars
  BY <1>30 DEF vars, mainVars, opVars, netVars, storeVars, heldVars
<1>. QED BY <1>1, <1>2, <1>3, <1>4, <1>5, <1>6, <1>7, <1>8, <1>9, <1>10, <1>11, <1>12, <1>13,
    <1>14, <1>15, <1>16, <1>17, <1>18, <1>19, <1>20, <1>21, <1>22, <1>23, <1>24, <1>25, <1>26,
    <1>27, <1>28, <1>29, <1>30 DEF Next, Start, Handler, Goroutine

-----------------------------------------------------------------------------
(* What is stored. *)

\* A stored message is a message.
LEMMA StoredFormType ==
  ASSUME NEW m \in Msgs
  PROVE  StoredForm(m) \in Messages /\ StoredForm(m).media # "none"
<1>1. m.kind \in Kinds /\ m.text \in Texts /\ "" \in Texts  BY MsgsAssumption
<1>2. StoredMedia(m) \in {"", "file", "location"}  BY DEF StoredMedia
<1>3. StoredPrefix(m) \in {"", "Poll: "}  BY DEF StoredPrefix
<1>4. StoredText(m) \in Texts  BY <1>1 DEF StoredText
<1>. QED  BY <1>2, <1>3, <1>4 DEF StoredForm, Messages

LEMMA BlankTypes ==
  /\ NoRow \in Rows /\ NoRow.state = "none"
  /\ NoMessage \in Messages /\ NoMessage.media = "none"
  BY MsgsAssumption DEF NoRow, NoMessage, Rows, Messages, Hashes, ContentHash, Kinds

\* A changed message is still a message.
LEMMA ChangedFormType ==
  ASSUME NEW r \in Messages
  PROVE  \A ref \in ChangedForm(r) : ref \in Messages /\ (r.media # "none" => ref.media # "none")
<1>1. \A t \in Texts : /\ [r EXCEPT !.prefix = "", !.text = t] \in Messages
                       /\ [r EXCEPT !.prefix = "", !.text = t].media = r.media
  BY DEF Messages
<1>2. LET blank == [media |-> "", prefix |-> "", text |-> ""]
      IN  blank \in Messages /\ blank.media # "none"
  BY MsgsAssumption DEF Messages
<1>3. \A ref \in ChangedForm(r) :
        \/ \E t \in Texts : ref = [r EXCEPT !.prefix = "", !.text = t]
        \/ ref = [media |-> "", prefix |-> "", text |-> ""]
  BY Zenon DEF ChangedForm
<1>. QED  BY <1>1, <1>2, <1>3, Zenon

LEMMA InFlightType ==
  ASSUME req \in [Attempts -> [id : Ids, msg : Msgs]], NEW a \in Attempts
  PROVE  InFlight(a) \in Rows /\ InFlight(a).state = "in_flight"
<1>0. Msg(a) \in Msgs  BY DEF Msg
<1>1. Msg(a).kind \in Kinds /\ Msg(a).text \in Texts /\ "" \in Texts  BY <1>0, MsgsAssumption
<1>2. Hash(a) \in Hashes  BY <1>1 DEF Hash, requestContentHash, ContentHash, Hashes
<1>. QED  BY <1>2 DEF InFlight, Rows

LEMMA StoreWriteStored ==
  ASSUME TypeOK, NEW a \in Attempts, StoreWrite(a)
  PROVE  /\ stored' \in [Ids -> Messages]
         /\ \A i \in Ids : HasMessage(i) => HasMessage(i)'
         /\ \A i \in Ids : HasMessage(i)' => HasMessage(i) \/ i = Id(a)
         /\ Running(a) /\ req' = req => warn'[a] \/ Found(a)'
         /\ \A b \in Attempts : b # a => warn'[b] = warn[b]
<1>1. PICK chatOK \in BOOLEAN, messageOK \in BOOLEAN :
        /\ stored' = IF messageOK THEN [stored EXCEPT ![Id(a)] = StoredForm(Msg(a))] ELSE stored
        /\ warn' = [warn EXCEPT ![a] = Running(a) /\ ~(chatOK /\ messageOK)]
  BY DEF StoreWrite
<1>2. Id(a) \in Ids /\ Msg(a) \in Msgs  BY DEF TypeOK, Id, Msg
<1>3. StoredForm(Msg(a)) \in Messages /\ StoredForm(Msg(a)).media # "none"
  BY <1>2, StoredFormType
<1>4. /\ stored \in [Ids -> Messages]
      /\ warn \in [Attempts -> BOOLEAN]
  BY DEF TypeOK, StoreTypeOK, MainTypeOK
<1>5. CASE messageOK
  <2>1. stored' = [stored EXCEPT ![Id(a)] = StoredForm(Msg(a))]  BY <1>1, <1>5
  <2>2. stored'[Id(a)].media # "none"  BY <1>2, <1>3, <1>4, <2>1
  <2>3. req' = req => Found(a)'  BY <2>2 DEF Found, HasMessage, Id
  <2>. QED  BY <1>1, <1>2, <1>3, <1>4, <2>1, <2>3 DEF HasMessage
<1>6. CASE ~messageOK
  <2>1. stored' = stored /\ (Running(a) => warn'[a])  BY <1>1, <1>4, <1>6
  <2>. QED  BY <1>1, <1>4, <2>1 DEF HasMessage
<1>. QED  BY <1>1, <1>5, <1>6

\* What finish writes is a row; it keeps the row, drops it or sets its state.
LEMMA FinishedRowType ==
  ASSUME StoreTypeOK, NEW a \in Attempts, Id(a) \in Ids
  PROVE  FinishedRow(a) \in Rows
<1>1. row[Id(a)] \in Rows  BY DEF StoreTypeOK
<1>2. \A s \in {"sent", "done"} : [row[Id(a)] EXCEPT !.state = s] \in Rows  BY <1>1 DEF Rows
<1>. QED  BY <1>1, <1>2, BlankTypes DEF FinishedRow

LEMMA StoreTypeStep == ASSUME TypeOK, [Next]_vars PROVE StoreTypeOK'
<1>0. StoreTypeOK /\ (\A a \in Attempts : Id(a) \in Ids)  BY DEF TypeOK, Id
<1>. USE DEF StoreTypeOK
<1>1. ASSUME NEW a \in Attempts, StartLocal(a) PROVE StoreTypeOK'
  BY <1>1, <1>0 DEF StartLocal, opVars, netVars, storeVars
<1>2. ASSUME NEW a \in Attempts, StartDelegated(a) PROVE StoreTypeOK'
  BY <1>2, <1>0 DEF StartDelegated, opVars, netVars, storeVars, heldVars
<1>3. ASSUME NEW a \in Attempts, StartRefused(a) PROVE StoreTypeOK'
  BY <1>3, <1>0 DEF StartRefused, opVars, netVars, storeVars, heldVars
<1>4. ASSUME NEW a \in Attempts, TakeSlot(a) PROVE StoreTypeOK'
  BY <1>4, <1>0 DEF TakeSlot, opVars, netVars, storeVars
<1>5. ASSUME NEW a \in Attempts, QueueRefuse(a) PROVE StoreTypeOK'
  BY <1>5, <1>0 DEF QueueRefuse, opVars, netVars, storeVars, heldVars
<1>6. ASSUME NEW a \in Attempts, alreadySentResponse(a) PROVE StoreTypeOK'
  BY <1>6, <1>0 DEF alreadySentResponse, opVars, netVars, storeVars, heldVars
<1>7. ASSUME NEW a \in Attempts, beginIDSend(a) PROVE StoreTypeOK'
  <2>1. \A drop \in BOOLEAN : Purged(drop) \in [Ids -> Rows]  BY <1>0, BlankTypes DEF Purged
  <2>2. InFlight(a) \in Rows  BY InFlightType DEF TypeOK
  <2>3. released' \in SUBSET Ids /\ stored' = stored  BY <1>0, <1>7 DEF beginIDSend
  <2>4. row' \in [Ids -> Rows]  BY <1>7, <1>0, <2>1, <2>2 DEF beginIDSend
  <2>. QED  BY <1>0, <2>3, <2>4
<1>8. ASSUME NEW a \in Attempts, Prepare(a) PROVE StoreTypeOK'
  BY <1>8, <1>0 DEF Prepare, netVars, storeVars, heldVars
<1>9. ASSUME NEW a \in Attempts, OpFailEarly(a) PROVE StoreTypeOK'
  BY <1>9, <1>0 DEF OpFailEarly, mainVars, netVars, storeVars, heldVars
<1>10. ASSUME NEW a \in Attempts, OpMark(a) PROVE StoreTypeOK'
  BY <1>10, <1>0 DEF OpMark, mainVars, netVars, storeVars, heldVars
<1>11. ASSUME NEW a \in Attempts, OpFailMarked(a) PROVE StoreTypeOK'
  BY <1>11, <1>0 DEF OpFailMarked, mainVars, netVars, storeVars, heldVars
<1>12. ASSUME NEW a \in Attempts, OpWrite(a) PROVE StoreTypeOK'
  BY <1>12, <1>0 DEF OpWrite, mainVars, storeVars, heldVars
<1>13. ASSUME NEW a \in Attempts, OpAnswer(a) PROVE StoreTypeOK'
  BY <1>13, <1>0 DEF OpAnswer, mainVars, netVars, storeVars, heldVars
<1>14. ASSUME NEW a \in Attempts, OpPersist(a) PROVE StoreTypeOK'
  BY <1>14, <1>0, StoreWriteStored DEF OpPersist
<1>15. ASSUME NEW a \in Attempts, AwaitResult(a) PROVE StoreTypeOK'
  BY <1>15, <1>0 DEF AwaitResult, opVars, netVars, storeVars, heldVars
<1>16. ASSUME NEW a \in Attempts, AwaitTimeout(a) PROVE StoreTypeOK'
  BY <1>16, <1>0 DEF AwaitTimeout, opVars, netVars, storeVars, heldVars
<1>17. ASSUME NEW a \in Attempts, Reconnect(a) PROVE StoreTypeOK'
  BY <1>17, <1>0 DEF Reconnect, netVars, storeVars, heldVars
<1>18. ASSUME NEW a \in Attempts, Persist(a) PROVE StoreTypeOK'
  BY <1>18, <1>0, StoreWriteStored DEF Persist
<1>19. ASSUME NEW a \in Attempts, Finish(a) PROVE StoreTypeOK'
  <2>1. row' \in [Ids -> Rows]  BY <1>19, <1>0, FinishedRowType DEF Finish
  <2>. QED  BY <1>19, <1>0, <2>1 DEF Finish
<1>20. ASSUME NEW a \in Attempts, ServerTakes(a) PROVE StoreTypeOK'
  BY <1>20, <1>0 DEF ServerTakes, mainVars, opVars, storeVars, heldVars
<1>21. ASSUME NEW a \in Attempts, CtxEnd(a) PROVE StoreTypeOK'
  BY <1>21, <1>0 DEF CtxEnd, mainVars, netVars, storeVars, heldVars
<1>22. ASSUME NEW a \in Attempts, LocalCrash(a) PROVE StoreTypeOK'
  BY <1>22, <1>0 DEF LocalCrash, netVars, storeVars
<1>23. ASSUME NEW a \in Attempts, SyncStores(a) PROVE StoreTypeOK'
  <2>1. StoredForm(Msg(a)) \in Messages  BY StoredFormType DEF TypeOK, Msg
  <2>. QED  BY <1>23, <1>0, <2>1 DEF SyncStores
<1>24. ASSUME DaemonStart PROVE StoreTypeOK'
  BY <1>24, <1>0 DEF DaemonStart, mainVars, opVars, netVars, storeVars
<1>25. ASSUME DaemonExit PROVE StoreTypeOK'
  BY <1>25, <1>0 DEF DaemonExit, netVars, storeVars
<1>26. ASSUME StoreRebuilt PROVE StoreTypeOK'
  BY <1>26, <1>0, BlankTypes DEF StoreRebuilt
<1>27. ASSUME NEW i \in Ids, PendingSendsClear(i) PROVE StoreTypeOK'
  BY <1>27, <1>0, BlankTypes DEF PendingSendsClear
<1>28. ASSUME NEW i \in Ids, RowAges(i) PROVE StoreTypeOK'
  <2>1. [row[i] EXCEPT !.old = TRUE] \in Rows  BY <1>0 DEF Rows
  <2>2. row' = [row EXCEPT ![i] = [row[i] EXCEPT !.old = TRUE]]  BY <1>28 DEF RowAges
  <2>. QED  BY <1>28, <1>0, <2>1, <2>2 DEF RowAges
<1>29. ASSUME NEW i \in Ids, StoredChanges(i) PROVE StoreTypeOK'
  <2>1. ChangedForm(stored[i]) \subseteq Messages  BY <1>0, ChangedFormType
  <2>. QED  BY <1>29, <1>0, <2>1 DEF StoredChanges
<1>30. CASE UNCHANGED vars
  BY <1>30, <1>0 DEF vars, mainVars, opVars, netVars, storeVars, heldVars
<1>. QED BY <1>1, <1>2, <1>3, <1>4, <1>5, <1>6, <1>7, <1>8, <1>9, <1>10, <1>11, <1>12, <1>13,
    <1>14, <1>15, <1>16, <1>17, <1>18, <1>19, <1>20, <1>21, <1>22, <1>23, <1>24, <1>25, <1>26,
    <1>27, <1>28, <1>29, <1>30 DEF Next, Start, Handler, Goroutine

LEMMA ReqStep == ASSUME req \in [Attempts -> [id : Ids, msg : Msgs]], [Next]_vars
                 PROVE  req' \in [Attempts -> [id : Ids, msg : Msgs]] /\ req' = req
<1>1. ASSUME NEW a \in Attempts, StartLocal(a) PROVE req' \in [Attempts -> [id : Ids, msg : Msgs]] /\ req' = req
  BY <1>1 DEF StartLocal, opVars, netVars, storeVars
<1>2. ASSUME NEW a \in Attempts, StartDelegated(a) PROVE req' \in [Attempts -> [id : Ids, msg : Msgs]] /\ req' = req
  BY <1>2 DEF StartDelegated, opVars, netVars, storeVars, heldVars
<1>3. ASSUME NEW a \in Attempts, StartRefused(a) PROVE req' \in [Attempts -> [id : Ids, msg : Msgs]] /\ req' = req
  BY <1>3 DEF StartRefused, opVars, netVars, storeVars, heldVars
<1>4. ASSUME NEW a \in Attempts, TakeSlot(a) PROVE req' \in [Attempts -> [id : Ids, msg : Msgs]] /\ req' = req
  BY <1>4 DEF TakeSlot, opVars, netVars, storeVars
<1>5. ASSUME NEW a \in Attempts, QueueRefuse(a) PROVE req' \in [Attempts -> [id : Ids, msg : Msgs]] /\ req' = req
  BY <1>5 DEF QueueRefuse, opVars, netVars, storeVars, heldVars
<1>6. ASSUME NEW a \in Attempts, alreadySentResponse(a) PROVE req' \in [Attempts -> [id : Ids, msg : Msgs]] /\ req' = req
  BY <1>6 DEF alreadySentResponse, opVars, netVars, storeVars, heldVars
<1>7. ASSUME NEW a \in Attempts, beginIDSend(a) PROVE req' \in [Attempts -> [id : Ids, msg : Msgs]] /\ req' = req
  BY <1>7 DEF beginIDSend, opVars, netVars, heldVars
<1>8. ASSUME NEW a \in Attempts, Prepare(a) PROVE req' \in [Attempts -> [id : Ids, msg : Msgs]] /\ req' = req
  BY <1>8 DEF Prepare, netVars, storeVars, heldVars
<1>9. ASSUME NEW a \in Attempts, OpFailEarly(a) PROVE req' \in [Attempts -> [id : Ids, msg : Msgs]] /\ req' = req
  BY <1>9 DEF OpFailEarly, mainVars, netVars, storeVars, heldVars
<1>10. ASSUME NEW a \in Attempts, OpMark(a) PROVE req' \in [Attempts -> [id : Ids, msg : Msgs]] /\ req' = req
  BY <1>10 DEF OpMark, mainVars, netVars, storeVars, heldVars
<1>11. ASSUME NEW a \in Attempts, OpFailMarked(a) PROVE req' \in [Attempts -> [id : Ids, msg : Msgs]] /\ req' = req
  BY <1>11 DEF OpFailMarked, mainVars, netVars, storeVars, heldVars
<1>12. ASSUME NEW a \in Attempts, OpWrite(a) PROVE req' \in [Attempts -> [id : Ids, msg : Msgs]] /\ req' = req
  BY <1>12 DEF OpWrite, mainVars, storeVars, heldVars
<1>13. ASSUME NEW a \in Attempts, OpAnswer(a) PROVE req' \in [Attempts -> [id : Ids, msg : Msgs]] /\ req' = req
  BY <1>13 DEF OpAnswer, mainVars, netVars, storeVars, heldVars
<1>14. ASSUME NEW a \in Attempts, OpPersist(a) PROVE req' \in [Attempts -> [id : Ids, msg : Msgs]] /\ req' = req
  BY <1>14 DEF OpPersist, netVars, heldVars
<1>15. ASSUME NEW a \in Attempts, AwaitResult(a) PROVE req' \in [Attempts -> [id : Ids, msg : Msgs]] /\ req' = req
  BY <1>15 DEF AwaitResult, opVars, netVars, storeVars, heldVars
<1>16. ASSUME NEW a \in Attempts, AwaitTimeout(a) PROVE req' \in [Attempts -> [id : Ids, msg : Msgs]] /\ req' = req
  BY <1>16 DEF AwaitTimeout, opVars, netVars, storeVars, heldVars
<1>17. ASSUME NEW a \in Attempts, Reconnect(a) PROVE req' \in [Attempts -> [id : Ids, msg : Msgs]] /\ req' = req
  BY <1>17 DEF Reconnect, netVars, storeVars, heldVars
<1>18. ASSUME NEW a \in Attempts, Persist(a) PROVE req' \in [Attempts -> [id : Ids, msg : Msgs]] /\ req' = req
  BY <1>18 DEF Persist, opVars, netVars, heldVars
<1>19. ASSUME NEW a \in Attempts, Finish(a) PROVE req' \in [Attempts -> [id : Ids, msg : Msgs]] /\ req' = req
  BY <1>19 DEF Finish, netVars
<1>20. ASSUME NEW a \in Attempts, ServerTakes(a) PROVE req' \in [Attempts -> [id : Ids, msg : Msgs]] /\ req' = req
  BY <1>20 DEF ServerTakes, mainVars, opVars, storeVars, heldVars
<1>21. ASSUME NEW a \in Attempts, CtxEnd(a) PROVE req' \in [Attempts -> [id : Ids, msg : Msgs]] /\ req' = req
  BY <1>21 DEF CtxEnd, mainVars, netVars, storeVars, heldVars
<1>22. ASSUME NEW a \in Attempts, LocalCrash(a) PROVE req' \in [Attempts -> [id : Ids, msg : Msgs]] /\ req' = req
  BY <1>22 DEF LocalCrash, netVars, storeVars
<1>23. ASSUME NEW a \in Attempts, SyncStores(a) PROVE req' \in [Attempts -> [id : Ids, msg : Msgs]] /\ req' = req
  BY <1>23 DEF SyncStores, mainVars, opVars, netVars, heldVars
<1>24. ASSUME DaemonStart PROVE req' \in [Attempts -> [id : Ids, msg : Msgs]] /\ req' = req
  BY <1>24 DEF DaemonStart, mainVars, opVars, netVars, storeVars
<1>25. ASSUME DaemonExit PROVE req' \in [Attempts -> [id : Ids, msg : Msgs]] /\ req' = req
  BY <1>25 DEF DaemonExit, netVars, storeVars
<1>26. ASSUME StoreRebuilt PROVE req' \in [Attempts -> [id : Ids, msg : Msgs]] /\ req' = req
  BY <1>26 DEF StoreRebuilt, mainVars, opVars, netVars, heldVars
<1>27. ASSUME NEW i \in Ids, PendingSendsClear(i) PROVE req' \in [Attempts -> [id : Ids, msg : Msgs]] /\ req' = req
  BY <1>27 DEF PendingSendsClear, mainVars, opVars, netVars, heldVars
<1>28. ASSUME NEW i \in Ids, RowAges(i) PROVE req' \in [Attempts -> [id : Ids, msg : Msgs]] /\ req' = req
  BY <1>28 DEF RowAges, mainVars, opVars, netVars, heldVars
<1>29. ASSUME NEW i \in Ids, StoredChanges(i) PROVE req' \in [Attempts -> [id : Ids, msg : Msgs]] /\ req' = req
  BY <1>29 DEF StoredChanges, mainVars, opVars, netVars, heldVars
<1>30. CASE UNCHANGED vars
  BY <1>30 DEF vars, mainVars, opVars, netVars, storeVars, heldVars
<1>. QED BY <1>1, <1>2, <1>3, <1>4, <1>5, <1>6, <1>7, <1>8, <1>9, <1>10, <1>11, <1>12, <1>13,
    <1>14, <1>15, <1>16, <1>17, <1>18, <1>19, <1>20, <1>21, <1>22, <1>23, <1>24, <1>25, <1>26,
    <1>27, <1>28, <1>29, <1>30 DEF Next, Start, Handler, Goroutine

-----------------------------------------------------------------------------
(* What the store remembers. *)

\* Handlers exclude each other, and a free lock excludes them all.
LEMMA HandlersExclude ==
  ASSUME HoldersInv
  PROVE  OneHandler /\ (lock = "none" => \A a \in Attempts : ~Running(a))
  BY AttemptsAssumption DEF HoldersInv, OneHandler

LEMMA ReturnPersist ==
  ASSUME TypeOK, PersistInv, NEW a \in Attempts, NEW w, Return(a, w),
         UNCHANGED <<req, path, netVars, stored>>
  PROVE  PersistInv'
  BY DEF TypeOK, MainTypeOK, OpTypeOK, Return, LocalsGone, netVars, PersistInv, FrameOut, PersistsInOp,
         Msg, Id, Found, HasMessage

\* The store write is what the send's end relies on.
LEMMA StoreWritePersist ==
  ASSUME TypeOK, HoldersInv, PersistInv, NEW a \in Attempts, StoreWrite(a), UNCHANGED <<req, err, netVars>>,
         \A b \in Attempts : b # a => pc'[b] = pc[b] /\ op'[b] = op[b] /\ res'[b] = res[b],
         pc'[a] \in {"await", "finish"} => Running(a)
  PROVE  PersistInv'
<1>. USE DEF PersistInv, FrameOut, PersistsInOp, Msg, Id, netVars
<1>1. \A b \in Attempts : Id(b) \in Ids /\ (Found(b) => Found(b)') /\ (b # a => warn'[b] = warn[b])
  BY StoreWriteStored DEF TypeOK, Found, HasMessage
<1>2. pc'[a] \in {"await", "finish"} => warn'[a] \/ Found(a)'  BY StoreWriteStored
<1>. QED  BY <1>1, <1>2

LEMMA PersistStep ==
  ASSUME TypeOK, HoldersInv, SendInv, PersistInv, [Next]_vars PROVE PersistInv'
<1>0. MainTypeOK /\ OpTypeOK /\ NetTypeOK /\ HeldTypeOK  BY DEF TypeOK
<1>. USE <1>0 DEF PersistInv, FrameOut, MainTypeOK, OpTypeOK, NetTypeOK, PersistsInOp, Msg, Id, Found, HasMessage
<1>1. ASSUME NEW a \in Attempts, StartLocal(a) PROVE PersistInv'
  BY <1>1 DEF StartLocal, opVars, netVars, storeVars
<1>2. ASSUME NEW a \in Attempts, StartDelegated(a) PROVE PersistInv'
  BY <1>2 DEF StartDelegated, opVars, netVars, storeVars, heldVars
<1>3. ASSUME NEW a \in Attempts, StartRefused(a) PROVE PersistInv'
  BY <1>3 DEF StartRefused, opVars, netVars, storeVars, heldVars
<1>4. ASSUME NEW a \in Attempts, TakeSlot(a) PROVE PersistInv'
  BY <1>4 DEF TakeSlot, opVars, netVars, storeVars
<1>5. ASSUME NEW a \in Attempts, QueueRefuse(a) PROVE PersistInv'
  BY <1>5 DEF QueueRefuse, opVars, netVars, storeVars, heldVars
<1>6. ASSUME NEW a \in Attempts, alreadySentResponse(a) PROVE PersistInv'
  <2>1. CASE \E w : Return(a, w)
    BY <1>6, <2>1, ReturnPersist DEF alreadySentResponse, storeVars
  <2>2. CASE pc' = [pc EXCEPT ![a] = "begin"] /\ UNCHANGED <<err, warn, retried, answer, opVars, heldVars>>
    BY <1>6, <2>2 DEF alreadySentResponse, opVars, netVars, storeVars
  <2>. QED  BY <1>6, <2>1, <2>2 DEF alreadySentResponse
<1>7. ASSUME NEW a \in Attempts, beginIDSend(a) PROVE PersistInv'
  <2>1. CASE \E w : Return(a, w)  BY <1>7, <2>1, ReturnPersist, BeginCases DEF netVars
  <2>2. CASE pc' = [pc EXCEPT ![a] = "prepare"] /\ UNCHANGED <<err, warn, retried, answer, opVars, heldVars>>
    BY <1>7, <2>2, BeginCases DEF opVars, netVars
  <2>. QED  BY <1>7, <2>1, <2>2, BeginCases
<1>8. ASSUME NEW a \in Attempts, Prepare(a) PROVE PersistInv'
  <2>1. ~FrameOut(a)  BY <1>8 DEF Prepare, SendInv, SendAt
  <2>. QED  BY <1>8, <2>1 DEF Prepare, Spawn, Fail, netVars, storeVars
<1>9. ASSUME NEW a \in Attempts, OpFailEarly(a) PROVE PersistInv'
  BY <1>9 DEF OpFailEarly, OpReturn, mainVars, netVars, storeVars, heldVars
<1>10. ASSUME NEW a \in Attempts, OpMark(a) PROVE PersistInv'
  BY <1>10 DEF OpMark, mainVars, netVars, storeVars, heldVars
<1>11. ASSUME NEW a \in Attempts, OpFailMarked(a) PROVE PersistInv'
  BY <1>11 DEF OpFailMarked, OpReturn, mainVars, netVars, storeVars, heldVars
<1>12. ASSUME NEW a \in Attempts, OpWrite(a) PROVE PersistInv'
  <2>1. pc[a] = "await"  BY <1>12 DEF OpWrite, SendInv, SendAt
  <2>. QED  BY <1>12, <2>1 DEF OpWrite, mainVars, storeVars
<1>13. ASSUME NEW a \in Attempts, OpAnswer(a) PROVE PersistInv'
  BY <1>13 DEF OpAnswer, OpReturn, mainVars, netVars, storeVars, heldVars
<1>14. ASSUME NEW a \in Attempts, OpPersist(a) PROVE PersistInv'
  BY <1>14, StoreWritePersist DEF OpPersist, OpReturn, Running
<1>15. ASSUME NEW a \in Attempts, AwaitResult(a) PROVE PersistInv'
  BY <1>15 DEF AwaitResult, Fail, Errors, opVars, netVars, storeVars, heldVars
<1>16. ASSUME NEW a \in Attempts, AwaitTimeout(a) PROVE PersistInv'
  BY <1>16 DEF AwaitTimeout, Fail, opVars, netVars, storeVars, heldVars
<1>17. ASSUME NEW a \in Attempts, Reconnect(a) PROVE PersistInv'
  BY <1>17 DEF Reconnect, Spawn, Fail, netVars, storeVars, heldVars
<1>18. ASSUME NEW a \in Attempts, Persist(a) PROVE PersistInv'
  BY <1>18, StoreWritePersist DEF Persist, Running, opVars
<1>19. ASSUME NEW a \in Attempts, Finish(a) PROVE PersistInv'
  BY <1>19 DEF Finish, Return, LocalsGone, netVars
<1>20. ASSUME NEW a \in Attempts, ServerTakes(a) PROVE PersistInv'
  BY <1>20 DEF ServerTakes, mainVars, opVars, storeVars, heldVars
<1>21. ASSUME NEW a \in Attempts, CtxEnd(a) PROVE PersistInv'
  BY <1>21 DEF CtxEnd, mainVars, netVars, storeVars, heldVars
<1>22. ASSUME NEW a \in Attempts, LocalCrash(a) PROVE PersistInv'
  BY <1>22 DEF LocalCrash, LocalsGone, netVars, storeVars
<1>23. ASSUME NEW a \in Attempts, SyncStores(a) PROVE PersistInv'
  BY <1>23 DEF SyncStores, mainVars, opVars, netVars, heldVars
<1>24. ASSUME DaemonStart PROVE PersistInv'
  BY <1>24 DEF DaemonStart, mainVars, opVars, netVars, storeVars
<1>25. ASSUME DaemonExit PROVE PersistInv'
  BY <1>25 DEF DaemonExit, LocalsGone, netVars, storeVars
<1>26. ASSUME StoreRebuilt PROVE PersistInv'
  <2>1. \A a \in Attempts : pc[a] \notin {"await", "finish"}
    BY <1>26, AttemptsAssumption DEF StoreRebuilt, HoldersInv, Running
  <2>. QED  BY <1>26, <2>1 DEF StoreRebuilt, mainVars
<1>27. ASSUME NEW i \in Ids, PendingSendsClear(i) PROVE PersistInv'
  BY <1>27 DEF PendingSendsClear, mainVars, opVars, netVars, heldVars
<1>28. ASSUME NEW i \in Ids, RowAges(i) PROVE PersistInv'
  BY <1>28 DEF RowAges, mainVars, opVars, netVars, heldVars
<1>29. ASSUME NEW i \in Ids, StoredChanges(i) PROVE PersistInv'
  <2>1. \A b \in Attempts : Found(b) => Found(b)'
    <3>0. stored[i] \in Messages /\ stored[i].media # "none"
      BY <1>29 DEF TypeOK, StoreTypeOK, StoredChanges, HasMessage
    <3>1. \A ref \in ChangedForm(stored[i]) : ref.media # "none"  BY <3>0, ChangedFormType
    <3>. QED  BY <1>29, <3>1 DEF StoredChanges, TypeOK, StoreTypeOK
  <2>. QED  BY <1>29, <2>1 DEF StoredChanges, mainVars, opVars, netVars
<1>30. CASE UNCHANGED vars
  BY <1>30 DEF vars, mainVars, opVars, netVars, storeVars, heldVars
<1>. QED BY <1>1, <1>2, <1>3, <1>4, <1>5, <1>6, <1>7, <1>8, <1>9, <1>10, <1>11, <1>12, <1>13,
    <1>14, <1>15, <1>16, <1>17, <1>18, <1>19, <1>20, <1>21, <1>22, <1>23, <1>24, <1>25, <1>26,
    <1>27, <1>28, <1>29, <1>30 DEF Next, Start, Handler, Goroutine

\* A step that leaves the rows, the owners and the frames of MemoryInv alone.
Quiet ==
  /\ req' = req
  /\ \A i \in Ids : /\ row'[i].state = row[i].state
                    /\ HasMessage(i) => HasMessage(i)'
                    /\ Promised(i)' => Promised(i)
  /\ \A a \in Attempts : /\ FrameOut(a)' => FrameOut(a)
                         /\ Owns(a)' => Owns(a)
                         /\ pc'[a] = "begin" => pc[a] = "begin"

LEMMA QuietMemory ==
  ASSUME req \in [Attempts -> [id : Ids, msg : Msgs]], MemoryInv, Quiet PROVE MemoryInv'
<1>1. \A a \in Attempts : Id(a) \in Ids /\ Id(a)' = Id(a)  BY DEF Id, Quiet
<1>2. DeliveredIsRemembered'
  BY <1>1 DEF MemoryInv, DeliveredIsRemembered, Remembered, Quiet
<1>3. \A b \in Attempts : Owns(b)' => row'[Id(b)'].state = "in_flight"
  BY <1>1 DEF MemoryInv, Quiet
<1>4. \A a, b \in Attempts :
        a # b /\ Id(a)' = Id(b)' /\ Promised(Id(a))' /\ FrameOut(a)' =>
          /\ ~Owns(b)' /\ ~FrameOut(b)'
          /\ pc'[b] = "begin" => row'[Id(a)'].state = "in_flight"
  BY <1>1 DEF MemoryInv, Quiet
<1>. QED  BY <1>2, <1>3, <1>4 DEF MemoryInv

\* Nothing that stops a retry is lost but by an action that says so.
LEMMA MemoryStep ==
  ASSUME TypeOK, HoldersInv, SendInv, PersistInv, MemoryInv, [Next]_vars PROVE MemoryInv'
<1>0. /\ MainTypeOK /\ OpTypeOK /\ NetTypeOK /\ HeldTypeOK /\ StoreTypeOK
      /\ req \in [Attempts -> [id : Ids, msg : Msgs]]
  BY DEF TypeOK
<1>. USE DEF Quiet, Promised, Unguarded, FrameOut, Owns, HasMessage, Id, Msg
<1>1. ASSUME NEW a \in Attempts, StartLocal(a) PROVE MemoryInv'
  <2>1. path[a] = "none"  BY <1>1 DEF StartLocal, HoldersInv
  <2>2. Quiet
    BY <1>1, <1>0, <2>1 DEF StartLocal, MainTypeOK, opVars, netVars, storeVars
  <2>. QED  BY <2>2, <1>0, QuietMemory
<1>2. ASSUME NEW a \in Attempts, StartDelegated(a) PROVE MemoryInv'
  <2>1. Quiet
    BY <1>2, <1>0 DEF StartDelegated, MainTypeOK, OpTypeOK, NetTypeOK, opVars, netVars, storeVars, heldVars
  <2>. QED  BY <2>1, <1>0, QuietMemory
<1>3. ASSUME NEW a \in Attempts, StartRefused(a) PROVE MemoryInv'
  <2>1. Quiet
    BY <1>3, <1>0 DEF StartRefused, MainTypeOK, OpTypeOK, NetTypeOK, opVars, netVars, storeVars, heldVars
  <2>. QED  BY <2>1, <1>0, QuietMemory
<1>4. ASSUME NEW a \in Attempts, TakeSlot(a) PROVE MemoryInv'
  <2>1. Quiet
    BY <1>4, <1>0 DEF TakeSlot, SlotFree, MainTypeOK, OpTypeOK, NetTypeOK, opVars, netVars, storeVars
  <2>. QED  BY <2>1, <1>0, QuietMemory
<1>5. ASSUME NEW a \in Attempts, QueueRefuse(a) PROVE MemoryInv'
  <2>1. Quiet
    BY <1>5, <1>0 DEF QueueRefuse, MainTypeOK, OpTypeOK, NetTypeOK, opVars, netVars, storeVars, heldVars
  <2>. QED  BY <2>1, <1>0, QuietMemory
<1>6. ASSUME NEW a \in Attempts, alreadySentResponse(a) PROVE MemoryInv'
  <2>1. CASE \E w : Return(a, w)
    <3>1. Quiet
      BY <1>6, <1>0, <2>1 DEF alreadySentResponse, Return, MainTypeOK, netVars, storeVars
    <3>. QED  BY <3>1, <1>0, QuietMemory
  <2>2. CASE /\ ~Found(a) /\ ~WentOut(row[Id(a)])
             /\ pc' = [pc EXCEPT ![a] = "begin"]
    <3>1. UNCHANGED <<req, path, netVars, storeVars>>  BY <1>6 DEF alreadySentResponse
    <3>2. \A b \in Attempts : FrameOut(b) /\ Promised(Id(b)) /\ Id(b) = Id(a) => row[Id(b)].state = "in_flight"
      BY <2>2 DEF MemoryInv, DeliveredIsRemembered, Remembered, Found, WentOut
    <3>3. /\ UNCHANGED <<row, stored, released, net, sent>>
          /\ \A b \in Attempts : Owns(b)' => Owns(b) /\ b # a
          /\ \A b \in Attempts : pc'[b] = "begin" => pc[b] = "begin" \/ b = a
      BY <1>0, <2>2, <3>1 DEF MainTypeOK, netVars, storeVars
    <3>4. DeliveredIsRemembered'
      BY <3>1, <3>3 DEF MemoryInv, DeliveredIsRemembered, Remembered
    <3>. QED  BY <3>1, <3>2, <3>3, <3>4 DEF MemoryInv
  <2>. QED  BY <1>6, <2>1, <2>2 DEF alreadySentResponse
<1>7. ASSUME NEW a \in Attempts, beginIDSend(a) PROVE MemoryInv'
  <2>0. /\ pc[a] = "begin" /\ UNCHANGED <<req, path, netVars, stored>>
        /\ \A b \in Attempts : b # a => ~Running(b)
    BY <1>7, BeginCases, HandlersExclude DEF OneHandler, Running
  <2>1. PICK drop \in BOOLEAN, replaced \in BOOLEAN :
          /\ released' = released \cup {i \in Ids : drop /\ row[i].old}
          /\ \/ /\ Purged(drop)[Id(a)].state \in {"none", "done"}
                /\ row' = [Purged(drop) EXCEPT ![Id(a)] = InFlight(a)]
                /\ pc' = [pc EXCEPT ![a] = "prepare"]
             \/ /\ row' = Purged(drop)
                /\ pc' = [pc EXCEPT ![a] = "done"]
    BY <1>7 DEF beginIDSend, StartsOver, Return
  <2>2. \A i \in Ids : i \notin released' => i \notin released /\ Purged(drop)[i] = row[i]
    BY <2>1 DEF Purged
  <2>3. \A i \in Ids : Promised(i)' => Promised(i) /\ Purged(drop)[i] = row[i]
    BY <2>0, <2>2
  <2>4. Id(a) \in Ids /\ Purged(drop) = [i \in Ids |-> Purged(drop)[i]] /\ InFlight(a).state = "in_flight"
    BY <1>0, InFlightType DEF Purged
  <2>5. \A b \in Attempts : FrameOut(b)' = FrameOut(b) /\ (Owns(b)' => b = a) /\ (pc'[b] = "begin" => FALSE)
    BY <1>0, <2>0, <2>1 DEF netVars, Running, MainTypeOK
  <2>6. CASE row' = Purged(drop) /\ pc' = [pc EXCEPT ![a] = "done"]
    <3>1. ~Owns(a)'  BY <1>0, <2>6 DEF MainTypeOK
    <3>. QED  BY <1>0, <2>0, <2>3, <2>5, <2>6, <3>1
              DEF MemoryInv, DeliveredIsRemembered, Remembered
  <2>7. CASE /\ Purged(drop)[Id(a)].state \in {"none", "done"}
             /\ row' = [Purged(drop) EXCEPT ![Id(a)] = InFlight(a)]
    <3>1. \A b \in Attempts : b # a /\ Id(b) = Id(a) /\ Promised(Id(a))' => ~FrameOut(b)
      BY <2>0, <2>3, <2>4, <2>7 DEF MemoryInv
    <3>2. row'[Id(a)].state = "in_flight" /\ \A i \in Ids : i # Id(a) => row'[i] = Purged(drop)[i]
      BY <2>4, <2>7
    <3>3. DeliveredIsRemembered'
      BY <1>0, <2>0, <2>3, <2>5, <3>2 DEF MemoryInv, DeliveredIsRemembered, Remembered
    <3>. QED  BY <1>0, <2>0, <2>3, <2>5, <3>1, <3>2, <3>3 DEF MemoryInv
  <2>. QED  BY <2>1, <2>6, <2>7
<1>8. ASSUME NEW a \in Attempts, Prepare(a) PROVE MemoryInv'
  <2>1. Quiet
    BY <1>8, <1>0 DEF Prepare, Spawn, Fail, MainTypeOK, OpTypeOK, NetTypeOK, netVars, storeVars, heldVars
  <2>. QED  BY <2>1, <1>0, QuietMemory
<1>9. ASSUME NEW a \in Attempts, OpFailEarly(a) PROVE MemoryInv'
  <2>1. Quiet
    BY <1>9, <1>0 DEF OpFailEarly, MainTypeOK, OpTypeOK, NetTypeOK, mainVars, netVars, storeVars, heldVars
  <2>. QED  BY <2>1, <1>0, QuietMemory
<1>10. ASSUME NEW a \in Attempts, OpMark(a) PROVE MemoryInv'
  <2>1. Quiet
    BY <1>10, <1>0 DEF OpMark, MainTypeOK, OpTypeOK, NetTypeOK, mainVars, netVars, storeVars, heldVars
  <2>. QED  BY <2>1, <1>0, QuietMemory
<1>11. ASSUME NEW a \in Attempts, OpFailMarked(a) PROVE MemoryInv'
  <2>1. Quiet
    BY <1>11, <1>0 DEF OpFailMarked, MainTypeOK, OpTypeOK, NetTypeOK, mainVars, netVars, storeVars, heldVars
  <2>. QED  BY <2>1, <1>0, QuietMemory
<1>12. ASSUME NEW a \in Attempts, OpWrite(a) PROVE MemoryInv'
  <2>1. pc[a] = "await" /\ Owns(a) /\ \A b \in Attempts : b # a => ~Running(b)
    BY <1>12, HandlersExclude DEF OpWrite, SendInv, SendAt, OneHandler, Running
  <2>2. row[Id(a)].state = "in_flight"  BY <2>1 DEF MemoryInv
  <2>3. \A b \in Attempts : b # a /\ Id(b) = Id(a) /\ Promised(Id(a)) => ~FrameOut(b)
    BY <2>1 DEF MemoryInv
  <2>4. \A b \in Attempts : b # a => FrameOut(b)' = FrameOut(b) /\ ~Owns(b) /\ pc[b] # "begin"
    BY <1>12, <1>0, <2>1 DEF OpWrite, Running, NetTypeOK
  <2>. QED  BY <1>12, <1>0, <2>1, <2>2, <2>3, <2>4
            DEF OpWrite, MemoryInv, DeliveredIsRemembered, Remembered, mainVars, storeVars
<1>13. ASSUME NEW a \in Attempts, OpAnswer(a) PROVE MemoryInv'
  <2>1. Quiet
    BY <1>13, <1>0 DEF OpAnswer, MainTypeOK, OpTypeOK, NetTypeOK, mainVars, netVars, storeVars, heldVars
  <2>. QED  BY <2>1, <1>0, QuietMemory
<1>14. ASSUME NEW a \in Attempts, OpPersist(a) PROVE MemoryInv'
  <2>1. Quiet
    BY <1>14, <1>0, StoreWriteStored DEF OpPersist, netVars
  <2>. QED  BY <2>1, <1>0, QuietMemory
<1>15. ASSUME NEW a \in Attempts, AwaitResult(a) PROVE MemoryInv'
  <2>1. Quiet
    BY <1>15, <1>0 DEF AwaitResult, Fail, MainTypeOK, OpTypeOK, NetTypeOK, opVars, netVars, storeVars, heldVars
  <2>. QED  BY <2>1, <1>0, QuietMemory
<1>16. ASSUME NEW a \in Attempts, AwaitTimeout(a) PROVE MemoryInv'
  <2>1. Quiet
    BY <1>16, <1>0 DEF AwaitTimeout, Fail, MainTypeOK, OpTypeOK, NetTypeOK, opVars, netVars, storeVars, heldVars
  <2>. QED  BY <2>1, <1>0, QuietMemory
<1>17. ASSUME NEW a \in Attempts, Reconnect(a) PROVE MemoryInv'
  <2>1. Quiet
    BY <1>17, <1>0 DEF Reconnect, Spawn, Fail, MainTypeOK, OpTypeOK, NetTypeOK, netVars, storeVars, heldVars
  <2>. QED  BY <2>1, <1>0, QuietMemory
<1>18. ASSUME NEW a \in Attempts, Persist(a) PROVE MemoryInv'
  <2>1. Quiet
    BY <1>18, <1>0, StoreWriteStored DEF Persist, MainTypeOK, opVars, netVars
  <2>. QED  BY <2>1, <1>0, QuietMemory
<1>19. ASSUME NEW a \in Attempts, Finish(a) PROVE MemoryInv'
  <2>1. /\ pc[a] = "finish" /\ pc' = [pc EXCEPT ![a] = "done"]
        /\ UNCHANGED <<req, path, netVars, stored, released>>
        /\ \A b \in Attempts : b # a => ~Running(b)
    BY <1>19, HandlersExclude DEF Finish, Return, OneHandler, Running
  <2>2. \A b \in Attempts : FrameOut(b)' = FrameOut(b) /\ ~Owns(b)' /\ pc'[b] # "begin"
    BY <1>0, <2>1 DEF netVars, Running, MainTypeOK
  <2>3. Id(a) \in Ids /\ row[Id(a)] \in Rows /\ row[Id(a)].state = "in_flight"
    BY <1>0, <2>1 DEF MemoryInv, StoreTypeOK
  <2>4. \A b \in Attempts : b # a /\ Id(b) = Id(a) /\ Promised(Id(a)) => ~FrameOut(b)
    BY <2>1 DEF MemoryInv
  <2>5. FrameOut(a) /\ Promised(Id(a)) /\ ~Found(a) => FinishedRow(a).state \in {"in_flight", "sent"}
    <3>. SUFFICES ASSUME FrameOut(a), Promised(Id(a)), ~Found(a)
                  PROVE  FinishedRow(a).state \in {"in_flight", "sent"}
      OBVIOUS
    <3>1. CASE err[a] = "nil"
      <4>1. WarnSeen(a)  BY <2>1, <3>1 DEF PersistInv, WarnSeen
      <4>2. [row[Id(a)] EXCEPT !.state = "sent"].state = "sent"  BY <2>3 DEF Rows
      <4>. QED  BY <2>3, <3>1, <4>1, <4>2 DEF FinishedRow
    <3>2. CASE err[a] # "nil"
      <4>1. dispatched[a] /\ err[a] # "server"
        BY <1>0, <2>1 DEF SendInv, SendAt, Running, NetTypeOK
      <4>. QED  BY <2>3, <3>2, <4>1 DEF FinishedRow
    <3>. QED  BY <3>1, <3>2
  <2>6. /\ row'[Id(a)] \in {row[Id(a)], FinishedRow(a)}
        /\ \A i \in Ids : i # Id(a) => row'[i] = row[i]
    BY <1>19, <1>0 DEF Finish, StoreTypeOK
  <2>7. DeliveredIsRemembered'
    BY <1>0, <2>1, <2>2, <2>3, <2>4, <2>5, <2>6 DEF MemoryInv, DeliveredIsRemembered, Remembered, Found
  <2>. QED  BY <1>0, <2>1, <2>2, <2>7 DEF MemoryInv
<1>20. ASSUME NEW a \in Attempts, ServerTakes(a) PROVE MemoryInv'
  <2>1. Quiet
    BY <1>20, <1>0 DEF ServerTakes, MainTypeOK, OpTypeOK, NetTypeOK, mainVars, opVars, storeVars, heldVars
  <2>. QED  BY <2>1, <1>0, QuietMemory
<1>21. ASSUME NEW a \in Attempts, CtxEnd(a) PROVE MemoryInv'
  <2>1. Quiet
    BY <1>21, <1>0 DEF CtxEnd, MainTypeOK, OpTypeOK, NetTypeOK, mainVars, netVars, storeVars, heldVars
  <2>. QED  BY <2>1, <1>0, QuietMemory
<1>22. ASSUME NEW a \in Attempts, LocalCrash(a) PROVE MemoryInv'
  <2>1. Quiet
    BY <1>22, <1>0 DEF LocalCrash, MainTypeOK, OpTypeOK, NetTypeOK, netVars, storeVars
  <2>. QED  BY <2>1, <1>0, QuietMemory
<1>23. ASSUME NEW a \in Attempts, SyncStores(a) PROVE MemoryInv'
  <2>1. StoredForm(Msg(a)).media # "none"  BY <1>0, StoredFormType
  <2>2. \A i \in Ids : HasMessage(i) => HasMessage(i)'
    BY <1>23, <1>0, <2>1 DEF SyncStores, StoreTypeOK
  <2>3. Quiet
    BY <1>23, <1>0, <2>2 DEF SyncStores, mainVars, netVars
  <2>. QED  BY <2>3, <1>0, QuietMemory
<1>24. ASSUME DaemonStart PROVE MemoryInv'
  <2>1. Quiet
    BY <1>24, <1>0 DEF DaemonStart, MainTypeOK, OpTypeOK, NetTypeOK, mainVars, opVars, netVars, storeVars
  <2>. QED  BY <2>1, <1>0, QuietMemory
<1>25. ASSUME DaemonExit PROVE MemoryInv'
  <2>1. Quiet
    BY <1>25, <1>0 DEF DaemonExit, MainTypeOK, OpTypeOK, NetTypeOK, netVars, storeVars
  <2>. QED  BY <2>1, <1>0, QuietMemory
<1>26. ASSUME StoreRebuilt PROVE MemoryInv'
  <2>1. \A b \in Attempts : ~Owns(b)' /\ pc'[b] # "begin" /\ ~Promised(Id(b))'
    BY <1>26, <1>0, HandlersExclude DEF StoreRebuilt, Running, mainVars
  <2>. QED  BY <2>1 DEF MemoryInv, DeliveredIsRemembered
<1>27. ASSUME NEW i \in Ids, PendingSendsClear(i) PROVE MemoryInv'
  <2>1. \A b \in Attempts : ~Owns(b)' /\ pc'[b] # "begin"
    BY <1>27, <1>0, HandlersExclude DEF PendingSendsClear, Running, mainVars
  <2>2. \A j \in Ids : Promised(j)' => Promised(j) /\ row'[j] = row[j]
    BY <1>27, <1>0 DEF PendingSendsClear, mainVars, StoreTypeOK
  <2>. QED  BY <1>27, <1>0, <2>1, <2>2
            DEF PendingSendsClear, MemoryInv, DeliveredIsRemembered, Remembered, netVars, mainVars
<1>28. ASSUME NEW i \in Ids, RowAges(i) PROVE MemoryInv'
  <2>1. Quiet
    BY <1>28, <1>0 DEF RowAges, MainTypeOK, OpTypeOK, NetTypeOK, mainVars, opVars, netVars, heldVars
  <2>. QED  BY <2>1, <1>0, QuietMemory
<1>29. ASSUME NEW i \in Ids, StoredChanges(i) PROVE MemoryInv'
  <2>1. \A j \in Ids : HasMessage(j) => HasMessage(j)'
    <3>0. stored[i] \in Messages /\ stored[i].media # "none"
      BY <1>29, <1>0 DEF StoreTypeOK, StoredChanges
    <3>1. \A ref \in ChangedForm(stored[i]) : ref.media # "none"  BY <3>0, ChangedFormType
    <3>. QED  BY <1>29, <1>0, <3>1 DEF StoredChanges, StoreTypeOK
  <2>2. Quiet
    BY <1>29, <1>0, <2>1 DEF StoredChanges, mainVars, netVars
  <2>. QED  BY <2>2, <1>0, QuietMemory
<1>30. CASE UNCHANGED vars
  <2>1. Quiet
    BY <1>30, <1>0 DEF vars, mainVars, opVars, netVars, storeVars, heldVars, MainTypeOK, OpTypeOK, NetTypeOK
  <2>. QED  BY <2>1, <1>0, QuietMemory
<1>. QED BY <1>1, <1>2, <1>3, <1>4, <1>5, <1>6, <1>7, <1>8, <1>9, <1>10, <1>11, <1>12, <1>13,
    <1>14, <1>15, <1>16, <1>17, <1>18, <1>19, <1>20, <1>21, <1>22, <1>23, <1>24, <1>25, <1>26,
    <1>27, <1>28, <1>29, <1>30 DEF Next, Start, Handler, Goroutine

-----------------------------------------------------------------------------
(* The theorems. *)

LEMMA InitIInv == Init => IInv
<1>. SUFFICES ASSUME Init PROVE IInv  OBVIOUS
<1>1. TypeOK
  BY BlankTypes DEF Init, TypeOK, MainTypeOK, OpTypeOK, NetTypeOK, HeldTypeOK, StoreTypeOK
<1>2. HoldersInv /\ SendInv  BY DEF Init, HoldersInv, SendInv, SendAt, Running
<1>3. PersistInv  BY DEF Init, PersistInv
<1>4. MemoryInv  BY DEF Init, MemoryInv, DeliveredIsRemembered, FrameOut, Owns
<1>. QED  BY <1>1, <1>2, <1>3, <1>4 DEF IInv

LEMMA NextIInv == IInv /\ [Next]_vars => IInv'
<1>. SUFFICES ASSUME IInv, [Next]_vars PROVE IInv'  OBVIOUS
<1>1. TypeOK'
  BY ReqStep, MainTypeStep, OpTypeStep, NetTypeStep, HeldTypeStep, StoreTypeStep DEF IInv, TypeOK
<1>2. HoldersInv' /\ SendInv'  BY HoldersStep, SendStep DEF IInv, TypeOK
<1>3. PersistInv' /\ MemoryInv'  BY PersistStep, MemoryStep DEF IInv
<1>. QED  BY <1>1, <1>2, <1>3 DEF IInv

THEOREM Invariance == Spec => []IInv
  BY InitIInv, NextIInv, PTL DEF Spec

\* TypeOK holds for every instance of the constants.
THEOREM TypeCorrect == Spec => []TypeOK
<1>. IInv => TypeOK  BY DEF IInv
<1>. QED  BY Invariance, PTL

\* One handler at a time, among processes and inside the daemon.
THEOREM HandlersAlone == Spec => []OneHandler
<1>. IInv => OneHandler  BY HandlersExclude DEF IInv
<1>. QED  BY Invariance, PTL

\* A frame the recipient may receive always leaves what stops its retry.
THEOREM Remembers == Spec => []DeliveredIsRemembered
<1>. IInv => DeliveredIsRemembered  BY DEF IInv, MemoryInv
<1>. QED  BY Invariance, PTL

\* However many attempts are made under one id, in whatever order processes
\* die, contexts end, acks are lost and store writes fail, at most one of them
\* puts a message in the chat.
THEOREM SendsAtMostOnce == Spec => []AtMostOnce
<1>1. IInv => AtMostOnce
  <2>. SUFFICES ASSUME IInv PROVE AtMostOnce  OBVIOUS
  <2>1. ASSUME NEW a \in Attempts PROVE sent[a] <= 1
    <3>1. SendAt(a)  BY DEF IInv, SendInv
    <3>2. sent[a] = 0 \/ sent[a] = 1  BY <3>1 DEF SendAt
    <3>. QED  BY <3>2
  <2>2. \A a \in Attempts : sent[a] > 0 => FrameOut(a)  BY DEF FrameOut
  <2>. QED  BY <2>1, <2>2 DEF IInv, MemoryInv, AtMostOnce
<1>. QED  BY <1>1, Invariance, PTL

-----------------------------------------------------------------------------
(* Answers and rows. *)

\* Some attempt under the id had its message accepted.
Vouched(i) == \E b \in Attempts : Id(b) = i /\ sent[b] > 0

\* Whatever the guard answers from is true.
AnswersInv ==
  /\ \A a \in Attempts : /\ answer[a] = "sent" \/ warn[a] => sent[a] > 0
                         /\ answer[a] = "already_sent" => Vouched(Id(a))
  /\ \A i \in Ids : HasMessage(i) \/ row[i].state = "sent" => Vouched(i)

\* A step that gives no new answer and no new evidence.
Mute ==
  /\ \A a \in Attempts : /\ sent[a] > 0 => sent'[a] > 0
                         /\ answer'[a] \in {"sent", "already_sent"} => answer'[a] = answer[a]
                         /\ warn'[a] => warn[a]
  /\ \A i \in Ids : /\ HasMessage(i)' => HasMessage(i)
                    /\ row'[i].state = "sent" => row[i].state = "sent"

LEMMA VouchedStays ==
  ASSUME req' = req, \A a \in Attempts : sent[a] > 0 => sent'[a] > 0
  PROVE  \A i \in Ids : Vouched(i) => Vouched(i)'
  BY DEF Vouched, Id

LEMMA MuteAnswers ==
  ASSUME req \in [Attempts -> [id : Ids, msg : Msgs]], AnswersInv, Mute, req' = req PROVE AnswersInv'
<1>1. \A a \in Attempts : Id(a) \in Ids /\ Id(a)' = Id(a)  BY DEF Id
<1>2. \A i \in Ids : Vouched(i) => Vouched(i)'  BY VouchedStays DEF Mute
<1>3. \A a \in Attempts : /\ answer'[a] = "sent" \/ warn'[a] => sent'[a] > 0
                          /\ answer'[a] = "already_sent" => Vouched(Id(a))'
  BY <1>1, <1>2 DEF AnswersInv, Mute
<1>4. \A i \in Ids : HasMessage(i)' \/ row'[i].state = "sent" => Vouched(i)'
  BY <1>2 DEF AnswersInv, Mute
<1>. QED  BY <1>1, <1>3, <1>4 DEF AnswersInv, Vouched

\* New evidence and new answers under an id some attempt vouches for.
LEMMA VouchedAnswers ==
  ASSUME req \in [Attempts -> [id : Ids, msg : Msgs]], AnswersInv, req' = req, sent' = sent,
         NEW a \in Attempts, Vouched(Id(a)),
         answer'[a] = "sent" \/ warn'[a] => sent[a] > 0,
         \A b \in Attempts : b # a => answer'[b] = answer[b] /\ (warn'[b] => warn[b]),
         \A i \in Ids : i # Id(a) => /\ HasMessage(i)' => HasMessage(i)
                                     /\ row'[i].state = "sent" => row[i].state = "sent"
  PROVE  AnswersInv'
<1>1. \A b \in Attempts : Id(b) \in Ids /\ Id(b)' = Id(b)  BY DEF Id
<1>2. \A i \in Ids : Vouched(i) => Vouched(i)'  BY VouchedStays
<1>3. \A b \in Attempts : /\ answer'[b] = "sent" \/ warn'[b] => sent'[b] > 0
                          /\ answer'[b] = "already_sent" => Vouched(Id(b))'
  BY <1>1, <1>2 DEF AnswersInv
<1>4. \A i \in Ids : HasMessage(i)' \/ row'[i].state = "sent" => Vouched(i)'
  BY <1>1, <1>2 DEF AnswersInv
<1>. QED  BY <1>1, <1>3, <1>4 DEF AnswersInv, Vouched

\* An accepted frame vouches for its id.
LEMMA AcceptedVouches ==
  ASSUME NetTypeOK, SendInv, NEW a \in Attempts, net[a] = "accepted"
  PROVE  sent[a] > 0 /\ Vouched(Id(a))
<1>1. SendAt(a)  BY DEF SendInv
<1>2. sent[a] = 1  BY <1>1 DEF SendAt
<1>. QED  BY <1>2 DEF Vouched

LEMMA AnswersStep ==
  ASSUME TypeOK, HoldersInv, SendInv, AnswersInv, [Next]_vars PROVE AnswersInv'
<1>0. /\ MainTypeOK /\ NetTypeOK /\ StoreTypeOK
      /\ req \in [Attempts -> [id : Ids, msg : Msgs]] /\ req' = req
  BY ReqStep DEF TypeOK
<1>. USE DEF Mute, HasMessage
<1>1. ASSUME NEW a \in Attempts, StartLocal(a) PROVE AnswersInv'
  <2>1. Mute
    BY <1>1, <1>0 DEF StartLocal, MainTypeOK, NetTypeOK, opVars, netVars, storeVars
  <2>. QED  BY <2>1, <1>0, MuteAnswers
<1>2. ASSUME NEW a \in Attempts, StartDelegated(a) PROVE AnswersInv'
  <2>1. Mute
    BY <1>2, <1>0 DEF StartDelegated, MainTypeOK, NetTypeOK, opVars, netVars, storeVars, heldVars
  <2>. QED  BY <2>1, <1>0, MuteAnswers
<1>3. ASSUME NEW a \in Attempts, StartRefused(a) PROVE AnswersInv'
  <2>1. Mute
    BY <1>3, <1>0 DEF StartRefused, MainTypeOK, NetTypeOK, opVars, netVars, storeVars, heldVars
  <2>. QED  BY <2>1, <1>0, MuteAnswers
<1>4. ASSUME NEW a \in Attempts, TakeSlot(a) PROVE AnswersInv'
  <2>1. Mute
    BY <1>4, <1>0 DEF TakeSlot, MainTypeOK, NetTypeOK, opVars, netVars, storeVars
  <2>. QED  BY <2>1, <1>0, MuteAnswers
<1>5. ASSUME NEW a \in Attempts, QueueRefuse(a) PROVE AnswersInv'
  <2>1. Mute
    BY <1>5, <1>0 DEF QueueRefuse, MainTypeOK, NetTypeOK, opVars, netVars, storeVars, heldVars
  <2>. QED  BY <2>1, <1>0, MuteAnswers
<1>6. ASSUME NEW a \in Attempts, alreadySentResponse(a) PROVE AnswersInv'
  <2>0. /\ Id(a) \in Ids /\ UNCHANGED <<path, sent, row, stored>>
        /\ warn \in [Attempts -> BOOLEAN]
    BY <1>6, <1>0 DEF alreadySentResponse, Id, netVars, storeVars, MainTypeOK
  <2>1. CASE /\ Found(a) \/ WentOut(row[Id(a)])
             /\ \E w \in {"id_reused", "already_sent"} : Return(a, w)
    <3>1. Vouched(Id(a))  BY <2>0, <2>1 DEF AnswersInv, Found, WentOut
    <3>2. answer'[a] # "sent" /\ (warn'[a] => FALSE)
      BY <1>0, <2>1 DEF Return, LocalsGone, MainTypeOK
    <3>3. \A b \in Attempts : b # a => answer'[b] = answer[b] /\ (warn'[b] => warn[b])
      BY <1>0, <2>1 DEF Return, LocalsGone, MainTypeOK
    <3>. QED  BY <1>0, <2>0, <3>1, <3>2, <3>3, VouchedAnswers
  <2>2. CASE Return(a, "error")
    <3>1. Mute
      BY <1>0, <2>0, <2>2 DEF Return, LocalsGone, MainTypeOK
    <3>. QED  BY <3>1, <1>0, MuteAnswers
  <2>3. CASE UNCHANGED <<warn, answer>>
    <3>1. Mute  BY <2>0, <2>3
    <3>. QED  BY <3>1, <1>0, MuteAnswers
  <2>. QED  BY <1>6, <2>1, <2>2, <2>3 DEF alreadySentResponse, StoredAnswer, PendingAnswer
<1>7. ASSUME NEW a \in Attempts, beginIDSend(a) PROVE AnswersInv'
  <2>1. UNCHANGED <<sent, stored>>  BY <1>7 DEF beginIDSend, netVars
  <2>2. \A i \in Ids : row'[i].state = "sent" => row[i].state = "sent"
    <3>1. \A drop \in BOOLEAN, i \in Ids : Purged(drop)[i].state = "sent" => row[i].state = "sent"
      BY BlankTypes DEF Purged
    <3>2. InFlight(a).state = "in_flight"  BY <1>0, InFlightType
    <3>3. \E drop \in BOOLEAN : row' \in {Purged(drop), [Purged(drop) EXCEPT ![Id(a)] = InFlight(a)]}
      BY <1>7 DEF beginIDSend
    <3>. QED  BY <3>1, <3>2, <3>3 DEF Purged
  <2>3. \A b \in Attempts : /\ answer'[b] \in {"sent", "already_sent"} => answer'[b] = answer[b]
                            /\ warn'[b] => warn[b]
    <3>1. CASE UNCHANGED <<warn, answer>>  BY <3>1
    <3>2. CASE \E w \in {"id_reused", "resultado_incerto", "error"} : Return(a, w)
      BY <1>0, <3>2 DEF Return, LocalsGone, MainTypeOK
    <3>. QED  BY <1>7, <3>1, <3>2, BeginCases
  <2>4. Mute  BY <2>1, <2>2, <2>3
  <2>. QED  BY <2>4, <1>0, MuteAnswers
<1>8. ASSUME NEW a \in Attempts, Prepare(a) PROVE AnswersInv'
  <2>1. Mute
    BY <1>8, <1>0 DEF Prepare, Spawn, Fail, EarlyErr, MainTypeOK, NetTypeOK, netVars, storeVars, heldVars
  <2>. QED  BY <2>1, <1>0, MuteAnswers
<1>9. ASSUME NEW a \in Attempts, OpFailEarly(a) PROVE AnswersInv'
  <2>1. Mute
    BY <1>9, <1>0 DEF OpFailEarly, MainTypeOK, NetTypeOK, mainVars, netVars, storeVars, heldVars
  <2>. QED  BY <2>1, <1>0, MuteAnswers
<1>10. ASSUME NEW a \in Attempts, OpMark(a) PROVE AnswersInv'
  <2>1. Mute
    BY <1>10, <1>0 DEF OpMark, MainTypeOK, NetTypeOK, mainVars, netVars, storeVars, heldVars
  <2>. QED  BY <2>1, <1>0, MuteAnswers
<1>11. ASSUME NEW a \in Attempts, OpFailMarked(a) PROVE AnswersInv'
  <2>1. Mute
    BY <1>11, <1>0 DEF OpFailMarked, MainTypeOK, NetTypeOK, mainVars, netVars, storeVars, heldVars
  <2>. QED  BY <2>1, <1>0, MuteAnswers
<1>12. ASSUME NEW a \in Attempts, OpWrite(a) PROVE AnswersInv'
  <2>1. Mute
    BY <1>12, <1>0 DEF OpWrite, MainTypeOK, NetTypeOK, mainVars, storeVars, heldVars
  <2>. QED  BY <2>1, <1>0, MuteAnswers
<1>13. ASSUME NEW a \in Attempts, OpAnswer(a) PROVE AnswersInv'
  <2>1. Mute
    BY <1>13, <1>0 DEF OpAnswer, MainTypeOK, NetTypeOK, mainVars, netVars, storeVars, heldVars
  <2>. QED  BY <2>1, <1>0, MuteAnswers
<1>14. ASSUME NEW a \in Attempts, OpPersist(a) PROVE AnswersInv'
  <2>1. sent[a] > 0 /\ Vouched(Id(a))
    BY <1>14, <1>0, AcceptedVouches DEF OpPersist, SendInv, SendAt
  <2>. QED  BY <1>14, <1>0, <2>1, StoreWriteStored, VouchedAnswers DEF OpPersist, netVars
<1>15. ASSUME NEW a \in Attempts, AwaitResult(a) PROVE AnswersInv'
  <2>0. UNCHANGED <<sent, row, stored, warn>>  BY <1>15 DEF AwaitResult, netVars, storeVars
  <2>1. CASE res[a] = "ok"
    <3>1. sent[a] > 0 /\ Vouched(Id(a))
      BY <1>15, <1>0, <2>1, AcceptedVouches DEF AwaitResult, SendInv, SendAt
    <3>. QED  BY <1>15, <1>0, <2>0, <2>1, <3>1, VouchedAnswers DEF AwaitResult, MainTypeOK
  <2>2. CASE res[a] # "ok"
    <3>1. Mute  BY <1>15, <1>0, <2>0, <2>2 DEF AwaitResult, Fail, MainTypeOK
    <3>. QED  BY <3>1, <1>0, MuteAnswers
  <2>. QED  BY <2>1, <2>2
<1>16. ASSUME NEW a \in Attempts, AwaitTimeout(a) PROVE AnswersInv'
  <2>1. Mute
    BY <1>16, <1>0 DEF AwaitTimeout, Fail, MainTypeOK, NetTypeOK, opVars, netVars, storeVars, heldVars
  <2>. QED  BY <2>1, <1>0, MuteAnswers
<1>17. ASSUME NEW a \in Attempts, Reconnect(a) PROVE AnswersInv'
  <2>1. Mute
    BY <1>17, <1>0 DEF Reconnect, Spawn, Fail, MainTypeOK, NetTypeOK, netVars, storeVars, heldVars
  <2>. QED  BY <2>1, <1>0, MuteAnswers
<1>18. ASSUME NEW a \in Attempts, Persist(a) PROVE AnswersInv'
  <2>1. sent[a] > 0 /\ Vouched(Id(a))
    BY <1>18, <1>0, AcceptedVouches DEF Persist, SendInv, SendAt
  <2>. QED  BY <1>18, <1>0, <2>1, StoreWriteStored, VouchedAnswers DEF Persist, netVars
<1>19. ASSUME NEW a \in Attempts, Finish(a) PROVE AnswersInv'
  <2>1. /\ UNCHANGED <<sent, stored>>
        /\ \A b \in Attempts : answer'[b] = answer[b] /\ (warn'[b] => warn[b])
    BY <1>19, <1>0 DEF Finish, Return, LocalsGone, MainTypeOK, netVars
  <2>2. \A i \in Ids : i # Id(a) => row'[i] = row[i]  BY <1>19, <1>0 DEF Finish, StoreTypeOK
  <2>3. Id(a) \in Ids /\ row[Id(a)] \in Rows  BY <1>0 DEF Id, StoreTypeOK
  <2>4. row'[Id(a)].state = "sent" => row[Id(a)].state = "sent" \/ warn[a]
    <3>1. row'[Id(a)] \in {row[Id(a)], FinishedRow(a)}  BY <1>19, <1>0, <2>3 DEF Finish, StoreTypeOK
    <3>2. [row[Id(a)] EXCEPT !.state = "done"].state = "done"  BY <2>3 DEF Rows
    <3>3. FinishedRow(a).state = "sent" => row[Id(a)].state = "sent" \/ WarnSeen(a)
      BY <3>2, BlankTypes DEF FinishedRow
    <3>. QED  BY <3>1, <3>3 DEF WarnSeen
  <2>5. CASE warn[a]
    <3>1. sent[a] > 0 /\ Vouched(Id(a))  BY <2>5 DEF AnswersInv, Vouched
    <3>. QED  BY <1>0, <2>1, <2>2, <3>1, VouchedAnswers
  <2>6. CASE ~warn[a]
    <3>1. Mute  BY <2>1, <2>2, <2>4, <2>6
    <3>. QED  BY <3>1, <1>0, MuteAnswers
  <2>. QED  BY <2>5, <2>6
<1>20. ASSUME NEW a \in Attempts, ServerTakes(a) PROVE AnswersInv'
  <2>1. Mute
    BY <1>20, <1>0 DEF ServerTakes, MainTypeOK, NetTypeOK, mainVars, opVars, storeVars, heldVars
  <2>. QED  BY <2>1, <1>0, MuteAnswers
<1>21. ASSUME NEW a \in Attempts, CtxEnd(a) PROVE AnswersInv'
  <2>1. Mute
    BY <1>21, <1>0 DEF CtxEnd, MainTypeOK, NetTypeOK, mainVars, netVars, storeVars, heldVars
  <2>. QED  BY <2>1, <1>0, MuteAnswers
<1>22. ASSUME NEW a \in Attempts, LocalCrash(a) PROVE AnswersInv'
  <2>1. Mute
    BY <1>22, <1>0 DEF LocalCrash, LocalsGone, MainTypeOK, NetTypeOK, netVars, storeVars
  <2>. QED  BY <2>1, <1>0, MuteAnswers
<1>23. ASSUME NEW a \in Attempts, SyncStores(a) PROVE AnswersInv'
  <2>1. sent[a] > 0 /\ Vouched(Id(a))  BY <1>23, <1>0, AcceptedVouches DEF SyncStores
  <2>2. UNCHANGED <<sent, row, warn, answer>>  BY <1>23 DEF SyncStores, mainVars, netVars
  <2>3. \A i \in Ids : i # Id(a) => stored'[i] = stored[i]  BY <1>23, <1>0 DEF SyncStores, StoreTypeOK
  <2>. QED  BY <1>0, <2>1, <2>2, <2>3, VouchedAnswers
<1>24. ASSUME DaemonStart PROVE AnswersInv'
  <2>1. Mute
    BY <1>24, <1>0 DEF DaemonStart, MainTypeOK, NetTypeOK, mainVars, opVars, netVars, storeVars
  <2>. QED  BY <2>1, <1>0, MuteAnswers
<1>25. ASSUME DaemonExit PROVE AnswersInv'
  <2>1. Mute
    BY <1>25, <1>0 DEF DaemonExit, LocalsGone, MainTypeOK, NetTypeOK, netVars, storeVars
  <2>. QED  BY <2>1, <1>0, MuteAnswers
<1>26. ASSUME StoreRebuilt PROVE AnswersInv'
  <2>1. Mute  BY <1>26, BlankTypes DEF StoreRebuilt, mainVars, netVars
  <2>. QED  BY <2>1, <1>0, MuteAnswers
<1>27. ASSUME NEW i \in Ids, PendingSendsClear(i) PROVE AnswersInv'
  <2>1. Mute  BY <1>27, <1>0, BlankTypes DEF PendingSendsClear, mainVars, netVars, StoreTypeOK
  <2>. QED  BY <2>1, <1>0, MuteAnswers
<1>28. ASSUME NEW i \in Ids, RowAges(i) PROVE AnswersInv'
  <2>1. Mute
    BY <1>28, <1>0 DEF RowAges, MainTypeOK, NetTypeOK, mainVars, opVars, netVars, heldVars
  <2>. QED  BY <2>1, <1>0, MuteAnswers
<1>29. ASSUME NEW i \in Ids, StoredChanges(i) PROVE AnswersInv'
  <2>1. Mute
    BY <1>29, <1>0 DEF StoredChanges, MainTypeOK, NetTypeOK, mainVars, opVars, netVars, heldVars
  <2>. QED  BY <2>1, <1>0, MuteAnswers
<1>30. CASE UNCHANGED vars
  <2>1. Mute
    BY <1>30, <1>0 DEF vars, mainVars, opVars, netVars, storeVars, heldVars, MainTypeOK, NetTypeOK
  <2>. QED  BY <2>1, <1>0, MuteAnswers
<1>. QED BY <1>1, <1>2, <1>3, <1>4, <1>5, <1>6, <1>7, <1>8, <1>9, <1>10, <1>11, <1>12, <1>13,
    <1>14, <1>15, <1>16, <1>17, <1>18, <1>19, <1>20, <1>21, <1>22, <1>23, <1>24, <1>25, <1>26,
    <1>27, <1>28, <1>29, <1>30 DEF Next, Start, Handler, Goroutine

LEMMA InitAnswers == Init => AnswersInv
  BY BlankTypes DEF Init, AnswersInv, HasMessage

\* "sent" and "already_sent" are never said of a message nobody accepted.
THEOREM AnswersTruly == Spec => []AnswersAreTrue
<1>1. IInv /\ AnswersInv /\ [Next]_vars => AnswersInv'
  BY AnswersStep DEF IInv
<1>2. AnswersInv => AnswersAreTrue  BY DEF AnswersInv, AnswersAreTrue, Vouched
<1>. QED  BY <1>1, <1>2, InitAnswers, Invariance, PTL DEF Spec

LEMMA InFlightStep ==
  ASSUME TypeOK, [Next]_vars, NEW j \in Ids, row[j].state = "in_flight", row'[j].state # "in_flight"
  PROVE  j \in released' \/ \E a \in Attempts : Id(a) = j /\ pc[a] = "finish" /\ pc'[a] = "done"
<1>0. /\ MainTypeOK /\ StoreTypeOK /\ req \in [Attempts -> [id : Ids, msg : Msgs]]
  BY DEF TypeOK
<1>. DEFINE Goal == j \in released' \/ \E a \in Attempts : Id(a) = j /\ pc[a] = "finish" /\ pc'[a] = "done"
<1>1. ASSUME NEW a \in Attempts, StartLocal(a) PROVE Goal
  BY <1>1, <1>0 DEF StartLocal, opVars, netVars, storeVars
<1>2. ASSUME NEW a \in Attempts, StartDelegated(a) PROVE Goal
  BY <1>2, <1>0 DEF StartDelegated, opVars, netVars, storeVars, heldVars
<1>3. ASSUME NEW a \in Attempts, StartRefused(a) PROVE Goal
  BY <1>3, <1>0 DEF StartRefused, opVars, netVars, storeVars, heldVars
<1>4. ASSUME NEW a \in Attempts, TakeSlot(a) PROVE Goal
  BY <1>4, <1>0 DEF TakeSlot, opVars, netVars, storeVars
<1>5. ASSUME NEW a \in Attempts, QueueRefuse(a) PROVE Goal
  BY <1>5, <1>0 DEF QueueRefuse, opVars, netVars, storeVars, heldVars
<1>6. ASSUME NEW a \in Attempts, alreadySentResponse(a) PROVE Goal
  BY <1>6, <1>0 DEF alreadySentResponse, opVars, netVars, storeVars, heldVars
<1>7. ASSUME NEW a \in Attempts, beginIDSend(a) PROVE Goal
  <2>1. InFlight(a).state = "in_flight"  BY <1>0, InFlightType
  <2>2. PICK drop \in BOOLEAN :
          /\ released' = released \cup {i \in Ids : drop /\ row[i].old}
          /\ row' \in {Purged(drop), [Purged(drop) EXCEPT ![Id(a)] = InFlight(a)]}
    BY <1>7 DEF beginIDSend
  <2>3. row'[j] \in {Purged(drop)[j], InFlight(a)}  BY <2>2 DEF Purged
  <2>. QED  BY <2>1, <2>2, <2>3 DEF Purged
<1>8. ASSUME NEW a \in Attempts, Prepare(a) PROVE Goal
  BY <1>8, <1>0 DEF Prepare, netVars, storeVars, heldVars
<1>9. ASSUME NEW a \in Attempts, OpFailEarly(a) PROVE Goal
  BY <1>9, <1>0 DEF OpFailEarly, mainVars, netVars, storeVars, heldVars
<1>10. ASSUME NEW a \in Attempts, OpMark(a) PROVE Goal
  BY <1>10, <1>0 DEF OpMark, mainVars, netVars, storeVars, heldVars
<1>11. ASSUME NEW a \in Attempts, OpFailMarked(a) PROVE Goal
  BY <1>11, <1>0 DEF OpFailMarked, mainVars, netVars, storeVars, heldVars
<1>12. ASSUME NEW a \in Attempts, OpWrite(a) PROVE Goal
  BY <1>12, <1>0 DEF OpWrite, mainVars, storeVars, heldVars
<1>13. ASSUME NEW a \in Attempts, OpAnswer(a) PROVE Goal
  BY <1>13, <1>0 DEF OpAnswer, mainVars, netVars, storeVars, heldVars
<1>14. ASSUME NEW a \in Attempts, OpPersist(a) PROVE Goal
  BY <1>14, <1>0 DEF OpPersist, netVars, heldVars
<1>15. ASSUME NEW a \in Attempts, AwaitResult(a) PROVE Goal
  BY <1>15, <1>0 DEF AwaitResult, opVars, netVars, storeVars, heldVars
<1>16. ASSUME NEW a \in Attempts, AwaitTimeout(a) PROVE Goal
  BY <1>16, <1>0 DEF AwaitTimeout, opVars, netVars, storeVars, heldVars
<1>17. ASSUME NEW a \in Attempts, Reconnect(a) PROVE Goal
  BY <1>17, <1>0 DEF Reconnect, netVars, storeVars, heldVars
<1>18. ASSUME NEW a \in Attempts, Persist(a) PROVE Goal
  BY <1>18, <1>0 DEF Persist, opVars, netVars, heldVars
<1>19. ASSUME NEW a \in Attempts, Finish(a) PROVE Goal
  <2>1. j = Id(a)  BY <1>19, <1>0 DEF Finish, StoreTypeOK
  <2>. QED  BY <1>19, <1>0, <2>1 DEF Finish, Return, MainTypeOK
<1>20. ASSUME NEW a \in Attempts, ServerTakes(a) PROVE Goal
  BY <1>20, <1>0 DEF ServerTakes, mainVars, opVars, storeVars, heldVars
<1>21. ASSUME NEW a \in Attempts, CtxEnd(a) PROVE Goal
  BY <1>21, <1>0 DEF CtxEnd, mainVars, netVars, storeVars, heldVars
<1>22. ASSUME NEW a \in Attempts, LocalCrash(a) PROVE Goal
  BY <1>22, <1>0 DEF LocalCrash, netVars, storeVars
<1>23. ASSUME NEW a \in Attempts, SyncStores(a) PROVE Goal
  BY <1>23, <1>0 DEF SyncStores, mainVars, opVars, netVars, heldVars
<1>24. ASSUME DaemonStart PROVE Goal
  BY <1>24, <1>0 DEF DaemonStart, mainVars, opVars, netVars, storeVars
<1>25. ASSUME DaemonExit PROVE Goal
  BY <1>25, <1>0 DEF DaemonExit, netVars, storeVars
<1>26. ASSUME StoreRebuilt PROVE Goal
  BY <1>26 DEF StoreRebuilt
<1>27. ASSUME NEW i \in Ids, PendingSendsClear(i) PROVE Goal
  BY <1>27, <1>0 DEF PendingSendsClear, StoreTypeOK
<1>28. ASSUME NEW i \in Ids, RowAges(i) PROVE Goal
  <2>1. [row[i] EXCEPT !.old = TRUE].state = row[i].state  BY <1>0 DEF StoreTypeOK, Rows
  <2>2. row' = [row EXCEPT ![i] = [row[i] EXCEPT !.old = TRUE]]  BY <1>28 DEF RowAges
  <2>. QED  BY <1>0, <2>1, <2>2 DEF StoreTypeOK
<1>29. ASSUME NEW i \in Ids, StoredChanges(i) PROVE Goal
  BY <1>29, <1>0 DEF StoredChanges, mainVars, opVars, netVars, heldVars
<1>30. CASE UNCHANGED vars
  BY <1>30, <1>0 DEF vars, mainVars, opVars, netVars, storeVars, heldVars
<1>. QED BY <1>1, <1>2, <1>3, <1>4, <1>5, <1>6, <1>7, <1>8, <1>9, <1>10, <1>11, <1>12, <1>13,
    <1>14, <1>15, <1>16, <1>17, <1>18, <1>19, <1>20, <1>21, <1>22, <1>23, <1>24, <1>25, <1>26,
    <1>27, <1>28, <1>29, <1>30 DEF Next, Start, Handler, Goroutine

\* An unknown outcome is settled by the handler that caused it, or let go on
\* purpose, and by nobody else.
THEOREM InFlightSettledByOwner == Spec => InFlightIsOwned
<1>1. IInv /\ [Next]_vars =>
        [\A i \in Ids : row[i].state = "in_flight" /\ row'[i].state # "in_flight" =>
           i \in released' \/ \E a \in Attempts : Id(a) = i /\ pc[a] = "finish" /\ pc'[a] = "done"]_vars
  BY InFlightStep DEF IInv
<1>. QED  BY <1>1, Invariance, PTL DEF Spec, InFlightIsOwned
=============================================================================
