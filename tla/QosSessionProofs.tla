--------------------------- MODULE QosSessionProofs ---------------------------
(***************************************************************************)
(* Theorems about QosSession for every set of requests, AFs, ids and PCFs: *)
(* type correctness, OneRecordPerSession and DeleteIsFinal.                *)
(*                                                                         *)
(* None of the three is inductive.  ControlInv ties the program counter of *)
(* a task to its local variables; HolderInv says who holds a PCF session   *)
(* between the PCF's answer and the record; FinalInv says why an id whose  *)
(* record was removed is not stored again.                                 *)
(***************************************************************************)
EXTENDS QosSession, FiniteSetTheorems, TLAPS

Deletes == {"delete", "qdelete"}

\* What a task's program counter says of its local variables.
ControlInv ==
    \A t \in Tasks :
        /\ pc[t] = "idle" => call[t] = "none"
        /\ pc[t] \in {"idle", "bsf"} => sid[t] = None
        /\ pc[t] \in {"bsf", "check", "pcf", "insert", "stored", "reinsert",
                      "restored"} => op[t] = "create"
        /\ pc[t] \in {"get", "term", "count", "remove", "recount"} =>
               op[t] \in Deletes
        /\ pc[t] \in {"bsf", "check", "get"} => call[t] = "none"
        /\ pc[t] \in {"insert", "stored", "reinsert", "restored"} =>
               call[t] = "ok"
        /\ op[t] = "create" => af[t] \in Afs
        /\ pc[t] \in {"check", "pcf", "insert", "stored", "reinsert",
                      "restored", "get", "term", "count", "remove", "recount"}
               => sid[t] \in Ids
        /\ op[t] \in Deletes => sid[t] \in Ids
        /\ call[t] # "none" => sid[t] \in Ids
        /\ pc[t] = "check" => host[t] \in Pcfs
        /\ (op[t] = "create" /\ call[t] # "none") => host[t] \in Pcfs
        /\ (op[t] = "create" /\ call[t] = "ok") => loc[t] \in Sessions
        /\ (op[t] \in Deletes /\ call[t] # "none") => loc[t] \in Sessions
        /\ (op[t] \in Deletes /\ pc[t] \in {"term", "count", "remove", "recount"})
               => call[t] # "none"

\* A session a create handler got has one holder: that handler or one record.
Got(t) == op[t] = "create" /\ call[t] = "ok"

HolderInv ==
    /\ \A i \in Ids : docs[i] # None => sess[docs[i].loc] # "none"
    /\ \A t \in Tasks : Got(t) => sess[loc[t]] # "none"
    /\ \A t, u \in Tasks : (Got(t) /\ Got(u) /\ loc[t] = loc[u]) => t = u
    /\ \A t \in Tasks, i \in Ids :
           (Got(t) /\ docs[i] # None /\ docs[i].loc = loc[t]) =>
               pc[t] \notin {"pcf", "insert", "reinsert"}
    /\ \A i, j \in Ids :
           (docs[i] # None /\ docs[j] # None /\ docs[i].loc = docs[j].loc)
               => i = j

\* A create handler past its insert: its id is in the collection, or was once,
\* or never will be.
Past(t) == op[t] = "create" /\ pc[t] \in {"stored", "restored", "done", "dead"}

\* A delete handler that found a record under its id; one that removed it.
Aimed(t) ==
    /\ op[t] \in Deletes
    /\ \/ pc[t] \in {"term", "count", "remove", "recount"}
       \/ pc[t] = "done" /\ reply[t].ans = "deleted"
Removed(t) ==
    /\ op[t] \in Deletes
    /\ \/ pc[t] = "recount"
       \/ pc[t] = "done" /\ reply[t].ans = "deleted"

UniqueIds == \A t, u \in Tasks :
    (op[t] = "create" /\ op[u] = "create" /\ sid[t] = sid[u] /\ sid[t] # None)
        => t = u
RecordPast == \A i \in Ids : docs[i] # None =>
    \E u \in Tasks : Past(u) /\ sid[u] = i
AimedPast == \A t \in Tasks : Aimed(t) =>
    \E u \in Tasks : Past(u) /\ sid[u] = sid[t]
AimedOwn == \A t \in Tasks :
    (Aimed(t) /\ docs[sid[t]] # None) =>
        /\ op[t] = "qdelete" \/ docs[sid[t]].owner = af[t]
        /\ docs[sid[t]].loc = loc[t]
RemovedGone == \A t \in Tasks : Removed(t) => docs[sid[t]] = None

FinalInv == ~UuidRepeat =>
    UniqueIds /\ RecordPast /\ AimedPast /\ AimedOwn /\ RemovedGone

\* The notification URI of a session ends in the id its holder has.
CallbackInv == ~UuidRepeat =>
    /\ \A t \in Tasks : Got(t) => cb[loc[t]] = sid[t]
    /\ \A i \in Ids : docs[i] # None => cb[docs[i].loc] = i

\* The session of an accepted delete call is not live any more, and a DELETE
\* goes past the call only when it was accepted.
EndedInv ==
    \A t \in Tasks :
        /\ (op[t] \in Deletes /\ call[t] = "ok") => sess[Target(t)] = "ended"
        /\ (op[t] = "delete" /\ pc[t] \in {"count", "remove", "recount"}) =>
               call[t] = "ok"
        /\ (op[t] = "delete" /\ pc[t] = "done" /\ reply[t].ans = "deleted") =>
               call[t] = "ok"


USE DEF request, locals, pcf, shared, vars

-----------------------------------------------------------------------------
(* Type correctness.  ControlInv is needed: a record is typed only because *)
(* a handler that inserts it is a create handler whose PCF call ended well.*)

LEMMA TypeControlInit == Init => TypeOK /\ ControlInv
<1> SUFFICES ASSUME Init PROVE TypeOK /\ ControlInv
    OBVIOUS
<1>1. TypeOK
  <2>1. /\ pc \in [Tasks -> Waiting \cup {"idle", "done", "dead"}]
        /\ call \in [Tasks -> {"none", "sent", "ok", "refused"}]
        /\ sess \in [Sessions -> {"none", "live", "ended"}]
    BY DEF Init
  <2>2. /\ op \in [Tasks -> AllOps \cup {None}]
        /\ af \in [Tasks -> Afs \cup {None}]
        /\ sid \in [Tasks -> Ids \cup {None}]
        /\ host \in [Tasks -> Pcfs \cup {None}]
        /\ loc \in [Tasks -> Sessions \cup {None}]
        /\ reply \in [Tasks -> Replies \cup {None}]
        /\ docs \in [Ids -> Docs \cup {None}]
        /\ cb \in [Sessions -> Ids \cup {None}]
    BY DEF Init
  <2>3. cnt \in [Tasks -> Int] /\ hdrLoc \in Locations \cup {None}
    BY DEF Init
  <2>4. wiping \in BOOLEAN /\ calm \in BOOLEAN
    BY Zenon DEF Init
  <2> QED
    BY <2>1, <2>2, <2>3, <2>4 DEF TypeOK
<1>2. ControlInv
    BY NoneAssumption DEF Init, ControlInv, Deletes, AllOps
<1> QED
    BY <1>1, <1>2

LEMMA TypeStep ==
    ASSUME TypeOK, ControlInv, [Next]_vars
    PROVE  TypeOK'
<1> USE HostAssumption, FlagAssumption, OpsAssumption, IdsAssumption, NoneAssumption
    DEF TypeOK, Goto, Answer, Accept, Replies, Answers, Waiting, AllOps, Draw
<1>1. ASSUME NEW t \in Tasks, QosCreateInvalid(t) PROVE TypeOK'
    BY <1>1 DEF QosCreateInvalid, ControlInv, Deletes
<1>2. ASSUME NEW t \in Tasks, QosCreate(t) PROVE TypeOK'
    BY <1>2 DEF QosCreate, ControlInv, Deletes
<1>3. ASSUME NEW t \in Tasks, QosDelete(t) PROVE TypeOK'
    BY <1>3 DEF QosDelete, ControlInv, Deletes
<1>4. ASSUME NEW t \in Tasks, QosRead(t) PROVE TypeOK'
    BY <1>4 DEF QosRead, ControlInv, Deletes
<1>5. ASSUME NEW t \in Tasks, QosUpdate(t) PROVE TypeOK'
    BY <1>5 DEF QosUpdate, ControlInv, Deletes
<1>6. ASSUME NEW t \in Tasks, Clean(t) PROVE TypeOK'
    BY <1>6 DEF Clean, ControlInv, Deletes
<1>7. ASSUME NEW t \in Tasks, BsfFound(t) PROVE TypeOK'
    BY <1>7 DEF BsfFound, ControlInv, Deletes
<1>8. ASSUME NEW t \in Tasks, BsfNone(t) PROVE TypeOK'
    BY <1>8 DEF BsfNone, ControlInv, Deletes
<1>9. ASSUME NEW t \in Tasks, IdTaken(t) PROVE TypeOK'
    BY <1>9 DEF IdTaken, ControlInv, Deletes
<1>10. ASSUME NEW t \in Tasks, IdFree(t) PROVE TypeOK'
    BY <1>10 DEF IdFree, ControlInv, Deletes
<1>11. ASSUME NEW t \in Tasks, Unbuildable(t) PROVE TypeOK'
    BY <1>11 DEF Unbuildable, ControlInv, Deletes
<1>12. ASSUME NEW t \in Tasks, SessionOpened(t) PROVE TypeOK'
    BY <1>12 DEF SessionOpened, ControlInv, Deletes
<1>13. ASSUME NEW t \in Tasks, SessionRefused(t) PROVE TypeOK'
    BY <1>13 DEF SessionRefused, ControlInv, Deletes
<1>14. ASSUME NEW t \in Tasks, InsertOne(t) PROVE TypeOK'
  <2>1. [owner |-> af[t], loc |-> loc[t]] \in Docs
    BY <1>14 DEF InsertOne, ControlInv, Docs
  <2>2. sid[t] \in Ids
    BY <1>14 DEF InsertOne, ControlInv
  <2>3. pc' \in [Tasks -> Waiting \cup {"idle", "done", "dead"}]
    BY <1>14 DEF InsertOne
  <2>4. docs' \in [Ids -> Docs \cup {None}]
    BY <1>14, <2>1, <2>2 DEF InsertOne
  <2> QED
    BY <1>14, <2>3, <2>4 DEF InsertOne
<1>15. ASSUME NEW t \in Tasks, InsertDuplicate(t) PROVE TypeOK'
    BY <1>15 DEF InsertDuplicate, ControlInv, Deletes
<1>16. ASSUME NEW t \in Tasks, ReinsertDuplicate(t) PROVE TypeOK'
    BY <1>16 DEF ReinsertDuplicate, ControlInv, Deletes
<1>17. ASSUME NEW t \in Tasks, QosCreated(t) PROVE TypeOK'
    BY <1>17 DEF QosCreated, ControlInv, Deletes
<1>18. ASSUME NEW t \in Tasks, DeleteFound(t) PROVE TypeOK'
  <2>1. docs[sid[t]].loc \in Sessions
    BY <1>18 DEF DeleteFound, ControlInv, Finds, Docs
  <2> QED
    BY <1>18, <2>1 DEF DeleteFound
<1>19. ASSUME NEW t \in Tasks, DeleteNotFound(t) PROVE TypeOK'
    BY <1>19 DEF DeleteNotFound, ControlInv, Deletes
<1>20. ASSUME NEW t \in Tasks, SessionTerminated(t) PROVE TypeOK'
    BY <1>20 DEF SessionTerminated, ControlInv, Deletes
<1>21. ASSUME NEW t \in Tasks, SessionUnknown(t) PROVE TypeOK'
    BY <1>21 DEF SessionUnknown, ControlInv, Deletes
<1>22. ASSUME NEW t \in Tasks, CountBefore(t) PROVE TypeOK'
  <2>1. Cardinality(Stored) \in Int
    BY IdsAssumption, FS_Subset, FS_CardinalityType DEF Stored
  <2> QED
    BY <1>22, <2>1 DEF CountBefore
<1>23. ASSUME NEW t \in Tasks, DeleteOne(t) PROVE TypeOK'
    BY <1>23 DEF DeleteOne, ControlInv, Deletes
<1>24. ASSUME NEW t \in Tasks, CountAfter(t) PROVE TypeOK'
    BY <1>24 DEF CountAfter, ControlInv, Deletes
<1>25. ASSUME NEW t \in Tasks, ReadDone(t) PROVE TypeOK'
  <2>1. PICK a \in {"ok", "not_found"}, l \in Locations \cup {None} : Answer(t, a, l)
    BY <1>25, Zenon DEF ReadDone, TypeOK
  <2> QED
    BY <1>25, <2>1 DEF ReadDone
<1>26. ASSUME NEW t \in Tasks, PcfCreate(t) PROVE TypeOK'
  <2>1. PICK c \in Ctxs :
           /\ sess' = [sess EXCEPT ![<<host[t], c>>] = "live"]
           /\ cb' = [cb EXCEPT ![<<host[t], c>>] = sid[t]]
           /\ loc' = [loc EXCEPT ![t] = <<host[t], c>>]
    BY <1>26 DEF PcfCreate
  <2>2. <<host[t], c>> \in Sessions
    BY <1>26 DEF PcfCreate, ControlInv, Sessions
  <2> QED
    BY <1>26, <2>1, <2>2 DEF PcfCreate
<1>27. ASSUME NEW t \in Tasks, PcfDelete(t) PROVE TypeOK'
    BY <1>27 DEF PcfDelete, ControlInv, Deletes
<1>28. ASSUME NEW t \in Tasks, PcfReject(t) PROVE TypeOK'
    BY <1>28 DEF PcfReject, ControlInv, Deletes
<1>29. ASSUME NEW t \in Tasks, HttpTimeout(t) PROVE TypeOK'
    BY <1>29 DEF HttpTimeout, ControlInv, Deletes
<1>30. ASSUME NEW t \in Tasks, DbFault(t) PROVE TypeOK'
  <2>1. PICK a \in Answers : Answer(t, a, None)
    BY <1>30 DEF DbFault
  <2> QED
    BY <1>30, <2>1 DEF DbFault
<1>31. CASE Wipe
    BY <1>31 DEF Wipe
<1>32. CASE Crash
    BY <1>32 DEF Crash, Die
<1>33. CASE UNCHANGED vars
    BY <1>33
<1> QED
    BY <1>1, <1>2, <1>3, <1>4, <1>5, <1>6, <1>7, <1>8, <1>9, <1>10, <1>11, <1>12,
       <1>13, <1>14, <1>15, <1>16, <1>17, <1>18, <1>19, <1>20, <1>21, <1>22, <1>23,
       <1>24, <1>25, <1>26, <1>27, <1>28, <1>29, <1>30, <1>31, <1>32, <1>33
       DEF Next, Client, Handler, Pcf, Failure

LEMMA ControlStep ==
    ASSUME TypeOK, ControlInv, [Next]_vars
    PROVE  ControlInv'
<1> USE HostAssumption, NoneAssumption
    DEF TypeOK, ControlInv, Goto, Answer, Accept, Deletes, AllOps, Draw
<1>1. ASSUME NEW t \in Tasks, QosCreateInvalid(t) PROVE ControlInv'
    BY <1>1 DEF QosCreateInvalid
<1>2. ASSUME NEW t \in Tasks, QosCreate(t) PROVE ControlInv'
    BY <1>2 DEF QosCreate
<1>3. ASSUME NEW t \in Tasks, QosDelete(t) PROVE ControlInv'
    BY <1>3 DEF QosDelete
<1>4. ASSUME NEW t \in Tasks, QosRead(t) PROVE ControlInv'
    BY <1>4 DEF QosRead
<1>5. ASSUME NEW t \in Tasks, QosUpdate(t) PROVE ControlInv'
    BY <1>5 DEF QosUpdate
<1>6. ASSUME NEW t \in Tasks, Clean(t) PROVE ControlInv'
    BY <1>6 DEF Clean
<1>7. ASSUME NEW t \in Tasks, BsfFound(t) PROVE ControlInv'
    BY <1>7 DEF BsfFound
<1>8. ASSUME NEW t \in Tasks, BsfNone(t) PROVE ControlInv'
    BY <1>8 DEF BsfNone
<1>9. ASSUME NEW t \in Tasks, IdTaken(t) PROVE ControlInv'
    BY <1>9 DEF IdTaken
<1>10. ASSUME NEW t \in Tasks, IdFree(t) PROVE ControlInv'
    BY <1>10 DEF IdFree
<1>11. ASSUME NEW t \in Tasks, Unbuildable(t) PROVE ControlInv'
    BY <1>11 DEF Unbuildable
<1>12. ASSUME NEW t \in Tasks, SessionOpened(t) PROVE ControlInv'
    BY <1>12 DEF SessionOpened
<1>13. ASSUME NEW t \in Tasks, SessionRefused(t) PROVE ControlInv'
    BY <1>13 DEF SessionRefused
<1>14. ASSUME NEW t \in Tasks, InsertOne(t) PROVE ControlInv'
    BY <1>14 DEF InsertOne
<1>15. ASSUME NEW t \in Tasks, InsertDuplicate(t) PROVE ControlInv'
    BY <1>15 DEF InsertDuplicate
<1>16. ASSUME NEW t \in Tasks, ReinsertDuplicate(t) PROVE ControlInv'
    BY <1>16 DEF ReinsertDuplicate
<1>17. ASSUME NEW t \in Tasks, QosCreated(t) PROVE ControlInv'
    BY <1>17 DEF QosCreated
<1>18. ASSUME NEW t \in Tasks, DeleteFound(t) PROVE ControlInv'
  <2>1. docs[sid[t]].loc \in Sessions
    BY <1>18 DEF DeleteFound, Finds, Docs
  <2> QED
    BY <1>18, <2>1 DEF DeleteFound
<1>19. ASSUME NEW t \in Tasks, DeleteNotFound(t) PROVE ControlInv'
    BY <1>19 DEF DeleteNotFound
<1>20. ASSUME NEW t \in Tasks, SessionTerminated(t) PROVE ControlInv'
    BY <1>20 DEF SessionTerminated
<1>21. ASSUME NEW t \in Tasks, SessionUnknown(t) PROVE ControlInv'
    BY <1>21 DEF SessionUnknown
<1>22. ASSUME NEW t \in Tasks, CountBefore(t) PROVE ControlInv'
    BY <1>22 DEF CountBefore
<1>23. ASSUME NEW t \in Tasks, DeleteOne(t) PROVE ControlInv'
    BY <1>23 DEF DeleteOne
<1>24. ASSUME NEW t \in Tasks, CountAfter(t) PROVE ControlInv'
    BY <1>24 DEF CountAfter
<1>25. ASSUME NEW t \in Tasks, ReadDone(t) PROVE ControlInv'
    BY <1>25 DEF ReadDone
<1>26. ASSUME NEW t \in Tasks, PcfCreate(t) PROVE ControlInv'
  <2>1. PICK c \in Ctxs :
           /\ sess[<<host[t], c>>] = "none"
           /\ sess' = [sess EXCEPT ![<<host[t], c>>] = "live"]
           /\ loc' = [loc EXCEPT ![t] = <<host[t], c>>]
    BY <1>26 DEF PcfCreate
  <2> DEFINE s == <<host[t], c>>
  <2>2. /\ s \in Sessions /\ loc' = [loc EXCEPT ![t] = s]
        /\ call[t] = "sent" /\ op[t] = "create"
        /\ call' = [call EXCEPT ![t] = "ok"]
        /\ UNCHANGED <<pc, op, af, sid, host>>
    BY <1>26, <2>1 DEF PcfCreate, Sessions
  <2> HIDE DEF s
  <2> QED
    BY <2>2
<1>27. ASSUME NEW t \in Tasks, PcfDelete(t) PROVE ControlInv'
    BY <1>27 DEF PcfDelete
<1>28. ASSUME NEW t \in Tasks, PcfReject(t) PROVE ControlInv'
    BY <1>28 DEF PcfReject
<1>29. ASSUME NEW t \in Tasks, HttpTimeout(t) PROVE ControlInv'
    BY <1>29 DEF HttpTimeout
<1>30. ASSUME NEW t \in Tasks, DbFault(t) PROVE ControlInv'
    BY <1>30 DEF DbFault
<1>31. CASE Wipe
    BY <1>31 DEF Wipe
<1>32. CASE Crash
    BY <1>32 DEF Crash, Die, Waiting
<1>33. CASE UNCHANGED vars
    BY <1>33
<1> QED
    BY <1>1, <1>2, <1>3, <1>4, <1>5, <1>6, <1>7, <1>8, <1>9, <1>10,
       <1>11, <1>12, <1>13, <1>14, <1>15, <1>16, <1>17, <1>18, <1>19, <1>20,
       <1>21, <1>22, <1>23, <1>24, <1>25, <1>26, <1>27, <1>28, <1>29, <1>30, <1>31,
       <1>32, <1>33
       DEF Next, Client, Handler, Pcf, Failure

-----------------------------------------------------------------------------
(* Sessions and their holders.                                             *)

LEMMA HolderStep ==
    ASSUME TypeOK, ControlInv, HolderInv, [Next]_vars
    PROVE  HolderInv'
<1> USE NoneAssumption
    DEF TypeOK, ControlInv, HolderInv, Got, Goto, Answer, Accept, Deletes, AllOps
<1>1. ASSUME NEW t \in Tasks, QosCreateInvalid(t) PROVE HolderInv'
    BY <1>1 DEF QosCreateInvalid
<1>2. ASSUME NEW t \in Tasks, QosCreate(t) PROVE HolderInv'
    BY <1>2 DEF QosCreate
<1>3. ASSUME NEW t \in Tasks, QosDelete(t) PROVE HolderInv'
    BY <1>3 DEF QosDelete
<1>4. ASSUME NEW t \in Tasks, QosRead(t) PROVE HolderInv'
    BY <1>4 DEF QosRead
<1>5. ASSUME NEW t \in Tasks, QosUpdate(t) PROVE HolderInv'
    BY <1>5 DEF QosUpdate
<1>6. ASSUME NEW t \in Tasks, Clean(t) PROVE HolderInv'
    BY <1>6 DEF Clean
<1>7. ASSUME NEW t \in Tasks, BsfFound(t) PROVE HolderInv'
    BY <1>7 DEF BsfFound
<1>8. ASSUME NEW t \in Tasks, BsfNone(t) PROVE HolderInv'
    BY <1>8 DEF BsfNone
<1>9. ASSUME NEW t \in Tasks, IdTaken(t) PROVE HolderInv'
    BY <1>9 DEF IdTaken
<1>10. ASSUME NEW t \in Tasks, IdFree(t) PROVE HolderInv'
    BY <1>10 DEF IdFree
<1>11. ASSUME NEW t \in Tasks, Unbuildable(t) PROVE HolderInv'
    BY <1>11 DEF Unbuildable
<1>12. ASSUME NEW t \in Tasks, SessionOpened(t) PROVE HolderInv'
    BY <1>12 DEF SessionOpened
<1>13. ASSUME NEW t \in Tasks, SessionRefused(t) PROVE HolderInv'
    BY <1>13 DEF SessionRefused
<1>14. ASSUME NEW t \in Tasks, InsertOne(t) PROVE HolderInv'
    BY <1>14 DEF InsertOne
<1>15. ASSUME NEW t \in Tasks, InsertDuplicate(t) PROVE HolderInv'
    BY <1>15 DEF InsertDuplicate
<1>16. ASSUME NEW t \in Tasks, ReinsertDuplicate(t) PROVE HolderInv'
    BY <1>16 DEF ReinsertDuplicate
<1>17. ASSUME NEW t \in Tasks, QosCreated(t) PROVE HolderInv'
    BY <1>17 DEF QosCreated
<1>18. ASSUME NEW t \in Tasks, DeleteFound(t) PROVE HolderInv'
    BY <1>18 DEF DeleteFound
<1>19. ASSUME NEW t \in Tasks, DeleteNotFound(t) PROVE HolderInv'
    BY <1>19 DEF DeleteNotFound
<1>20. ASSUME NEW t \in Tasks, SessionTerminated(t) PROVE HolderInv'
    BY <1>20 DEF SessionTerminated
<1>21. ASSUME NEW t \in Tasks, SessionUnknown(t) PROVE HolderInv'
    BY <1>21 DEF SessionUnknown
<1>22. ASSUME NEW t \in Tasks, CountBefore(t) PROVE HolderInv'
    BY <1>22 DEF CountBefore
<1>23. ASSUME NEW t \in Tasks, DeleteOne(t) PROVE HolderInv'
    BY <1>23 DEF DeleteOne
<1>24. ASSUME NEW t \in Tasks, CountAfter(t) PROVE HolderInv'
    BY <1>24 DEF CountAfter
<1>25. ASSUME NEW t \in Tasks, ReadDone(t) PROVE HolderInv'
    BY <1>25 DEF ReadDone
<1>26. ASSUME NEW t \in Tasks, PcfCreate(t) PROVE HolderInv'
  <2>1. PICK c \in Ctxs :
           /\ sess[<<host[t], c>>] = "none"
           /\ sess' = [sess EXCEPT ![<<host[t], c>>] = "live"]
           /\ loc' = [loc EXCEPT ![t] = <<host[t], c>>]
    BY <1>26 DEF PcfCreate
  <2> DEFINE s == <<host[t], c>>
  <2>2. s \in Sessions
    BY <1>26 DEF PcfCreate, Sessions
  <2>3. /\ sess[s] = "none" /\ sess' = [sess EXCEPT ![s] = "live"]
        /\ loc' = [loc EXCEPT ![t] = s]
    BY <2>1
  <2> HIDE DEF s
  <2>4. \A i \in Ids : docs[i] # None => docs[i].loc \in Sessions /\ docs[i].loc # s
    BY <2>3 DEF Docs
  <2>5. \A u \in Tasks : Got(u) => loc[u] \in Sessions /\ loc[u] # s
    BY <2>3
  <2>6. \A u \in Tasks : u # t => (Got(u)' <=> Got(u)) /\ loc'[u] = loc[u]
    BY <1>26, <2>3 DEF PcfCreate
  <2>7. loc'[t] = s
    BY <2>3
  <2> HIDE DEF Got
  <2>8. UNCHANGED docs /\ UNCHANGED pc
    BY <1>26 DEF PcfCreate
  <2> QED
    BY <2>2, <2>3, <2>4, <2>5, <2>6, <2>7, <2>8
<1>27. ASSUME NEW t \in Tasks, PcfDelete(t) PROVE HolderInv'
  <2>1. Target(t) \in Sessions
    BY <1>27, HostAssumption DEF PcfDelete, Target, Sessions
  <2>2. \A s \in Sessions : sess[s] # "none" => sess'[s] # "none"
    BY <1>27, <2>1 DEF PcfDelete
  <2>3. \A i \in Ids : docs[i] # None => docs[i].loc \in Sessions
    BY DEF Docs
  <2>4. \A u \in Tasks : Got(u) => loc[u] \in Sessions
    OBVIOUS
  <2>5. \A u \in Tasks : Got(u)' <=> Got(u)
    BY <1>27 DEF PcfDelete
  <2>6. UNCHANGED <<docs, pc, loc>>
    BY <1>27 DEF PcfDelete
  <2> HIDE DEF Got
  <2> QED
    BY <2>2, <2>3, <2>4, <2>5, <2>6
<1>28. ASSUME NEW t \in Tasks, PcfReject(t) PROVE HolderInv'
    BY <1>28 DEF PcfReject
<1>29. ASSUME NEW t \in Tasks, HttpTimeout(t) PROVE HolderInv'
    BY <1>29 DEF HttpTimeout
<1>30. ASSUME NEW t \in Tasks, DbFault(t) PROVE HolderInv'
    BY <1>30 DEF DbFault
<1>31. CASE Wipe
    BY <1>31 DEF Wipe
<1>32. CASE Crash
    BY <1>32 DEF Crash, Die, Waiting
<1>33. CASE UNCHANGED vars
    BY <1>33
<1> QED
    BY <1>1, <1>2, <1>3, <1>4, <1>5, <1>6, <1>7, <1>8, <1>9, <1>10,
       <1>11, <1>12, <1>13, <1>14, <1>15, <1>16, <1>17, <1>18, <1>19, <1>20,
       <1>21, <1>22, <1>23, <1>24, <1>25, <1>26, <1>27, <1>28, <1>29, <1>30, <1>31,
       <1>32, <1>33
       DEF Next, Client, Handler, Pcf, Failure

-----------------------------------------------------------------------------
(* Terminated sessions.                                                    *)

LEMMA EndedStep ==
    ASSUME TypeOK, ControlInv, EndedInv, [Next]_vars
    PROVE  EndedInv'
<1> USE NoneAssumption, HostAssumption
    DEF TypeOK, ControlInv, EndedInv, Goto, Answer, Accept, Deletes, AllOps, Target
<1>1. ASSUME NEW t \in Tasks, QosCreateInvalid(t) PROVE EndedInv'
    BY <1>1 DEF QosCreateInvalid
<1>2. ASSUME NEW t \in Tasks, QosCreate(t) PROVE EndedInv'
    BY <1>2 DEF QosCreate
<1>3. ASSUME NEW t \in Tasks, QosDelete(t) PROVE EndedInv'
    BY <1>3 DEF QosDelete
<1>4. ASSUME NEW t \in Tasks, QosRead(t) PROVE EndedInv'
    BY <1>4 DEF QosRead
<1>5. ASSUME NEW t \in Tasks, QosUpdate(t) PROVE EndedInv'
    BY <1>5 DEF QosUpdate
<1>6. ASSUME NEW t \in Tasks, Clean(t) PROVE EndedInv'
    BY <1>6 DEF Clean
<1>7. ASSUME NEW t \in Tasks, BsfFound(t) PROVE EndedInv'
    BY <1>7 DEF BsfFound
<1>8. ASSUME NEW t \in Tasks, BsfNone(t) PROVE EndedInv'
    BY <1>8 DEF BsfNone
<1>9. ASSUME NEW t \in Tasks, IdTaken(t) PROVE EndedInv'
    BY <1>9 DEF IdTaken
<1>10. ASSUME NEW t \in Tasks, IdFree(t) PROVE EndedInv'
    BY <1>10 DEF IdFree
<1>11. ASSUME NEW t \in Tasks, Unbuildable(t) PROVE EndedInv'
    BY <1>11 DEF Unbuildable
<1>12. ASSUME NEW t \in Tasks, SessionOpened(t) PROVE EndedInv'
    BY <1>12 DEF SessionOpened
<1>13. ASSUME NEW t \in Tasks, SessionRefused(t) PROVE EndedInv'
    BY <1>13 DEF SessionRefused
<1>14. ASSUME NEW t \in Tasks, InsertOne(t) PROVE EndedInv'
    BY <1>14 DEF InsertOne
<1>15. ASSUME NEW t \in Tasks, InsertDuplicate(t) PROVE EndedInv'
    BY <1>15 DEF InsertDuplicate
<1>16. ASSUME NEW t \in Tasks, ReinsertDuplicate(t) PROVE EndedInv'
    BY <1>16 DEF ReinsertDuplicate
<1>17. ASSUME NEW t \in Tasks, QosCreated(t) PROVE EndedInv'
    BY <1>17 DEF QosCreated
<1>18. ASSUME NEW t \in Tasks, DeleteFound(t) PROVE EndedInv'
  <2>1. docs[sid[t]].loc \in Sessions
    BY <1>18 DEF DeleteFound, Finds, Docs
  <2> QED
    BY <1>18, <2>1 DEF DeleteFound
<1>19. ASSUME NEW t \in Tasks, DeleteNotFound(t) PROVE EndedInv'
    BY <1>19 DEF DeleteNotFound
<1>20. ASSUME NEW t \in Tasks, SessionTerminated(t) PROVE EndedInv'
    BY <1>20 DEF SessionTerminated
<1>21. ASSUME NEW t \in Tasks, SessionUnknown(t) PROVE EndedInv'
    BY <1>21 DEF SessionUnknown
<1>22. ASSUME NEW t \in Tasks, CountBefore(t) PROVE EndedInv'
    BY <1>22 DEF CountBefore
<1>23. ASSUME NEW t \in Tasks, DeleteOne(t) PROVE EndedInv'
    BY <1>23 DEF DeleteOne
<1>24. ASSUME NEW t \in Tasks, CountAfter(t) PROVE EndedInv'
    BY <1>24 DEF CountAfter
<1>25. ASSUME NEW t \in Tasks, ReadDone(t) PROVE EndedInv'
    BY <1>25 DEF ReadDone
<1>26. ASSUME NEW t \in Tasks, PcfCreate(t) PROVE EndedInv'
  <2>1. PICK c \in Ctxs :
           /\ sess[<<host[t], c>>] = "none"
           /\ sess' = [sess EXCEPT ![<<host[t], c>>] = "live"]
           /\ loc' = [loc EXCEPT ![t] = <<host[t], c>>]
    BY <1>26 DEF PcfCreate
  <2>2. <<host[t], c>> \in Sessions
    BY <1>26 DEF PcfCreate, Sessions
  <2> QED
    BY <1>26, <2>1, <2>2 DEF PcfCreate
<1>27. ASSUME NEW t \in Tasks, PcfDelete(t) PROVE EndedInv'
  <2>1. \A u \in Tasks : (op[u] \in Deletes /\ call[u] # "none") => Target(u) \in Sessions
    BY DEF Sessions
  <2>2. \A u \in Tasks : Target(u)' = Target(u)
    BY <1>27 DEF PcfDelete
  <2> HIDE DEF Target
  <2> QED
    BY <1>27, <2>1, <2>2 DEF PcfDelete
<1>28. ASSUME NEW t \in Tasks, PcfReject(t) PROVE EndedInv'
    BY <1>28 DEF PcfReject
<1>29. ASSUME NEW t \in Tasks, HttpTimeout(t) PROVE EndedInv'
    BY <1>29 DEF HttpTimeout
<1>30. ASSUME NEW t \in Tasks, DbFault(t) PROVE EndedInv'
    BY <1>30 DEF DbFault
<1>31. CASE Wipe
    BY <1>31 DEF Wipe
<1>32. CASE Crash
    BY <1>32 DEF Crash, Die, Waiting
<1>33. CASE UNCHANGED vars
    BY <1>33
<1> QED
    BY <1>1, <1>2, <1>3, <1>4, <1>5, <1>6, <1>7, <1>8, <1>9, <1>10,
       <1>11, <1>12, <1>13, <1>14, <1>15, <1>16, <1>17, <1>18, <1>19, <1>20,
       <1>21, <1>22, <1>23, <1>24, <1>25, <1>26, <1>27, <1>28, <1>29, <1>30, <1>31,
       <1>32, <1>33
       DEF Next, Client, Handler, Pcf, Failure

-----------------------------------------------------------------------------
(* Removed records.                                                        *)

\* A step that only moves creates on and deletes out.
LEMMA FinalQuiet ==
    ASSUME FinalInv, UNCHANGED <<op, af, sid, loc, docs>>,
           \A u \in Tasks : (Past(u) => Past(u)') /\ (Removed(u)' => Removed(u))
                                /\ (Aimed(u)' => Aimed(u))
    PROVE  FinalInv'
BY DEF FinalInv, UniqueIds, RecordPast, AimedPast, AimedOwn, RemovedGone

LEMMA FinalStep ==
    ASSUME TypeOK, ControlInv, FinalInv, [Next]_vars
    PROVE  FinalInv'
<1> USE NoneAssumption, FlagAssumption
    DEF TypeOK, ControlInv, FinalInv, Past, Aimed, Removed,
        UniqueIds, RecordPast, AimedPast, AimedOwn, RemovedGone, Goto, Answer,
        Accept, Deletes, AllOps, Draw, Finds
<1>1. ASSUME NEW t \in Tasks, QosCreateInvalid(t) PROVE FinalInv'
    BY <1>1 DEF QosCreateInvalid
<1>2. ASSUME NEW t \in Tasks, QosCreate(t) PROVE FinalInv'
    BY <1>2 DEF QosCreate
<1>3. ASSUME NEW t \in Tasks, QosDelete(t) PROVE FinalInv'
    BY <1>3 DEF QosDelete
<1>4. ASSUME NEW t \in Tasks, QosRead(t) PROVE FinalInv'
    BY <1>4 DEF QosRead
<1>5. ASSUME NEW t \in Tasks, QosUpdate(t) PROVE FinalInv'
    BY <1>5 DEF QosUpdate
<1>6. ASSUME NEW t \in Tasks, Clean(t) PROVE FinalInv'
    BY <1>6 DEF Clean
<1>7. ASSUME NEW t \in Tasks, BsfFound(t) PROVE FinalInv'
    BY <1>7 DEF BsfFound
<1>8. ASSUME NEW t \in Tasks, BsfNone(t) PROVE FinalInv'
    BY <1>8 DEF BsfNone
<1>9. ASSUME NEW t \in Tasks, IdTaken(t) PROVE FinalInv'
    BY <1>9 DEF IdTaken
<1>10. ASSUME NEW t \in Tasks, IdFree(t) PROVE FinalInv'
    BY <1>10 DEF IdFree
<1>11. ASSUME NEW t \in Tasks, Unbuildable(t) PROVE FinalInv'
    BY <1>11 DEF Unbuildable
<1>12. ASSUME NEW t \in Tasks, SessionOpened(t) PROVE FinalInv'
    BY <1>12 DEF SessionOpened
<1>13. ASSUME NEW t \in Tasks, SessionRefused(t) PROVE FinalInv'
    BY <1>13 DEF SessionRefused
<1>14. ASSUME NEW t \in Tasks, InsertOne(t) PROVE FinalInv'
  <2> SUFFICES ASSUME ~UuidRepeat PROVE FinalInv'
    OBVIOUS
  <2>1. /\ op[t] = "create" /\ sid[t] \in Ids /\ sid[t] # None /\ ~Past(t)
        /\ Past(t)' /\ UNCHANGED <<op, af, sid, loc, reply>>
        /\ docs' = [docs EXCEPT ![sid[t]] = [owner |-> af[t], loc |-> loc[t]]]
    BY <1>14 DEF InsertOne
  <2>2. \A u \in Tasks : u # t => pc'[u] = pc[u]
    BY <1>14 DEF InsertOne
  <2>3. \A u \in Tasks : Past(u) => Past(u)'
    BY <2>1, <2>2
  <2>4. \A u \in Tasks : Aimed(u)' =>
            Aimed(u) /\ sid[u] # sid[t] /\ docs'[sid[u]] = docs[sid[u]]
    <3> SUFFICES ASSUME NEW u \in Tasks, Aimed(u)'
                 PROVE  Aimed(u) /\ sid[u] # sid[t] /\ docs'[sid[u]] = docs[sid[u]]
        OBVIOUS
    <3>1. u # t /\ Aimed(u)
        BY <2>1, <2>2
    <3>2. PICK v \in Tasks : Past(v) /\ sid[v] = sid[u]
        BY <3>1
    <3>3. sid[u] # sid[t]
        BY <2>1, <3>2
    <3> QED
        BY <2>1, <3>1, <3>3
  <2>5. \A u \in Tasks : Removed(u)' => Removed(u) /\ Aimed(u)'
    BY <2>1, <2>2
  <2> HIDE DEF Past, Aimed, Removed
  <2> QED
    BY <2>1, <2>3, <2>4, <2>5
<1>15. ASSUME NEW t \in Tasks, InsertDuplicate(t) PROVE FinalInv'
  <2> SUFFICES ASSUME ~UuidRepeat PROVE FALSE
    OBVIOUS
  <2>1. /\ pc[t] = "insert" /\ op[t] = "create" /\ sid[t] \in Ids
        /\ docs[sid[t]] # None
    BY <1>15 DEF InsertDuplicate
  <2>2. PICK u \in Tasks : Past(u) /\ sid[u] = sid[t]
    BY <2>1
  <2>3. u = t
    BY <2>1, <2>2, NoneAssumption
  <2> QED
    BY <2>1, <2>2, <2>3
<1>16. ASSUME NEW t \in Tasks, ReinsertDuplicate(t) PROVE FinalInv'
    BY <1>16 DEF ReinsertDuplicate
<1>17. ASSUME NEW t \in Tasks, QosCreated(t) PROVE FinalInv'
    BY <1>17 DEF QosCreated
<1>18. ASSUME NEW t \in Tasks, DeleteFound(t) PROVE FinalInv'
    BY <1>18 DEF DeleteFound
<1>19. ASSUME NEW t \in Tasks, DeleteNotFound(t) PROVE FinalInv'
    BY <1>19 DEF DeleteNotFound
<1>20. ASSUME NEW t \in Tasks, SessionTerminated(t) PROVE FinalInv'
    BY <1>20 DEF SessionTerminated
<1>21. ASSUME NEW t \in Tasks, SessionUnknown(t) PROVE FinalInv'
    BY <1>21 DEF SessionUnknown
<1>22. ASSUME NEW t \in Tasks, CountBefore(t) PROVE FinalInv'
    BY <1>22 DEF CountBefore
<1>23. ASSUME NEW t \in Tasks, DeleteOne(t) PROVE FinalInv'
    BY <1>23 DEF DeleteOne
<1>24. ASSUME NEW t \in Tasks, CountAfter(t) PROVE FinalInv'
  <2>1. PICK a \in {"deleted", "failed_to_delete"}, l \in Locations \cup {None} :
            Answer(t, a, l)
    <3>1. hdrLoc \in Locations \cup {None}
        OBVIOUS
    <3> HIDE DEF TypeOK, ControlInv, FinalInv, Answer
    <3> QED
        BY <1>24, <3>1, Zenon DEF CountAfter
  <2>2. /\ pc[t] = "recount" /\ op[t] \in Deletes
        /\ UNCHANGED <<op, af, sid, loc, docs>>
    BY <1>24 DEF CountAfter
  <2>3. \A u \in Tasks \ {t} : pc'[u] = pc[u] /\ reply'[u] = reply[u]
    BY <2>1
  <2>4. pc'[t] = "done" /\ reply'[t].ans = a
    BY <2>1
  <2>5. \A u \in Tasks \ {t} : (Past(u) => Past(u)') /\ (Removed(u)' => Removed(u))
                                 /\ (Aimed(u)' => Aimed(u))
    BY <2>2, <2>3
  <2>6. (Past(t) => Past(t)') /\ (Removed(t)' => Removed(t)) /\ (Aimed(t)' => Aimed(t))
    BY <2>2, <2>4
  <2> QED
    BY <2>2, <2>5, <2>6, FinalQuiet
<1>25. ASSUME NEW t \in Tasks, ReadDone(t) PROVE FinalInv'
  <2>1. PICK a \in {"ok", "not_found"}, l \in Locations \cup {None} : Answer(t, a, l)
    <3>1. hdrLoc \in Locations \cup {None}
        OBVIOUS
    <3> HIDE DEF TypeOK, ControlInv, FinalInv, Answer
    <3> QED
        BY <1>25, <3>1, Zenon DEF ReadDone
  <2>2. pc[t] = "read" /\ UNCHANGED <<op, af, sid, loc, docs>>
    BY <1>25 DEF ReadDone
  <2>3. \A u \in Tasks \ {t} : pc'[u] = pc[u] /\ reply'[u] = reply[u]
    BY <2>1
  <2>4. pc'[t] = "done" /\ reply'[t].ans = a
    BY <2>1
  <2>5. \A u \in Tasks \ {t} : (Past(u) => Past(u)') /\ (Removed(u)' => Removed(u))
                                 /\ (Aimed(u)' => Aimed(u))
    BY <2>2, <2>3
  <2>6. (Past(t) => Past(t)') /\ (Removed(t)' => Removed(t)) /\ (Aimed(t)' => Aimed(t))
    BY <2>2, <2>4
  <2> QED
    BY <2>2, <2>5, <2>6, FinalQuiet
<1>26. ASSUME NEW t \in Tasks, PcfCreate(t) PROVE FinalInv'
    BY <1>26 DEF PcfCreate
<1>27. ASSUME NEW t \in Tasks, PcfDelete(t) PROVE FinalInv'
    BY <1>27 DEF PcfDelete
<1>28. ASSUME NEW t \in Tasks, PcfReject(t) PROVE FinalInv'
    BY <1>28 DEF PcfReject
<1>29. ASSUME NEW t \in Tasks, HttpTimeout(t) PROVE FinalInv'
    BY <1>29 DEF HttpTimeout
<1>30. ASSUME NEW t \in Tasks, DbFault(t) PROVE FinalInv'
  <2>1. PICK a \in Answers \ {"deleted"} : Answer(t, a, None)
    BY <1>30 DEF DbFault, Answers
  <2> QED
    BY <1>30, <2>1 DEF DbFault
<1>31. CASE Wipe
    BY <1>31 DEF Wipe
<1>32. CASE Crash
    BY <1>32 DEF Crash, Die, Waiting
<1>33. CASE UNCHANGED vars
    BY <1>33
<1> QED
    BY <1>1, <1>2, <1>3, <1>4, <1>5, <1>6, <1>7, <1>8, <1>9, <1>10,
       <1>11, <1>12, <1>13, <1>14, <1>15, <1>16, <1>17, <1>18, <1>19, <1>20,
       <1>21, <1>22, <1>23, <1>24, <1>25, <1>26, <1>27, <1>28, <1>29, <1>30, <1>31,
       <1>32, <1>33
       DEF Next, Client, Handler, Pcf, Failure

-----------------------------------------------------------------------------
(* Notification URIs, and the location header.                             *)

LEMMA CallbackStep ==
    ASSUME TypeOK, ControlInv, HolderInv, FinalInv, CallbackInv, [Next]_vars
    PROVE  CallbackInv'
<1> USE NoneAssumption
    DEF TypeOK, ControlInv, HolderInv, CallbackInv, Got, Goto, Answer, Accept,
        Deletes, AllOps
<1>1. ASSUME NEW t \in Tasks, QosCreateInvalid(t) PROVE CallbackInv'
    BY <1>1 DEF QosCreateInvalid
<1>2. ASSUME NEW t \in Tasks, QosCreate(t) PROVE CallbackInv'
    BY <1>2 DEF QosCreate
<1>3. ASSUME NEW t \in Tasks, QosDelete(t) PROVE CallbackInv'
    BY <1>3 DEF QosDelete
<1>4. ASSUME NEW t \in Tasks, QosRead(t) PROVE CallbackInv'
    BY <1>4 DEF QosRead
<1>5. ASSUME NEW t \in Tasks, QosUpdate(t) PROVE CallbackInv'
    BY <1>5 DEF QosUpdate
<1>6. ASSUME NEW t \in Tasks, Clean(t) PROVE CallbackInv'
    BY <1>6 DEF Clean
<1>7. ASSUME NEW t \in Tasks, BsfFound(t) PROVE CallbackInv'
    BY <1>7 DEF BsfFound
<1>8. ASSUME NEW t \in Tasks, BsfNone(t) PROVE CallbackInv'
    BY <1>8 DEF BsfNone
<1>9. ASSUME NEW t \in Tasks, IdTaken(t) PROVE CallbackInv'
    BY <1>9 DEF IdTaken
<1>10. ASSUME NEW t \in Tasks, IdFree(t) PROVE CallbackInv'
    BY <1>10 DEF IdFree
<1>11. ASSUME NEW t \in Tasks, Unbuildable(t) PROVE CallbackInv'
    BY <1>11 DEF Unbuildable
<1>12. ASSUME NEW t \in Tasks, SessionOpened(t) PROVE CallbackInv'
    BY <1>12 DEF SessionOpened
<1>13. ASSUME NEW t \in Tasks, SessionRefused(t) PROVE CallbackInv'
    BY <1>13 DEF SessionRefused
<1>14. ASSUME NEW t \in Tasks, InsertOne(t) PROVE CallbackInv'
    BY <1>14 DEF InsertOne
<1>15. ASSUME NEW t \in Tasks, InsertDuplicate(t) PROVE CallbackInv'
  <2> SUFFICES ASSUME ~UuidRepeat PROVE FALSE
    OBVIOUS
  <2>1. PICK u \in Tasks : Past(u) /\ sid[u] = sid[t]
    BY <1>15 DEF InsertDuplicate, FinalInv, RecordPast
  <2>2. u = t
    BY <1>15, <2>1 DEF InsertDuplicate, FinalInv, UniqueIds, Past
  <2> QED
    BY <1>15, <2>1, <2>2 DEF InsertDuplicate, Past
<1>16. ASSUME NEW t \in Tasks, ReinsertDuplicate(t) PROVE CallbackInv'
    BY <1>16 DEF ReinsertDuplicate
<1>17. ASSUME NEW t \in Tasks, QosCreated(t) PROVE CallbackInv'
    BY <1>17 DEF QosCreated
<1>18. ASSUME NEW t \in Tasks, DeleteFound(t) PROVE CallbackInv'
    BY <1>18 DEF DeleteFound
<1>19. ASSUME NEW t \in Tasks, DeleteNotFound(t) PROVE CallbackInv'
    BY <1>19 DEF DeleteNotFound
<1>20. ASSUME NEW t \in Tasks, SessionTerminated(t) PROVE CallbackInv'
    BY <1>20 DEF SessionTerminated
<1>21. ASSUME NEW t \in Tasks, SessionUnknown(t) PROVE CallbackInv'
    BY <1>21 DEF SessionUnknown
<1>22. ASSUME NEW t \in Tasks, CountBefore(t) PROVE CallbackInv'
    BY <1>22 DEF CountBefore
<1>23. ASSUME NEW t \in Tasks, DeleteOne(t) PROVE CallbackInv'
    BY <1>23 DEF DeleteOne
<1>24. ASSUME NEW t \in Tasks, CountAfter(t) PROVE CallbackInv'
    BY <1>24 DEF CountAfter
<1>25. ASSUME NEW t \in Tasks, ReadDone(t) PROVE CallbackInv'
    BY <1>25 DEF ReadDone
<1>26. ASSUME NEW t \in Tasks, PcfCreate(t) PROVE CallbackInv'
  <2>1. PICK c \in Ctxs :
           /\ sess[<<host[t], c>>] = "none"
           /\ cb' = [cb EXCEPT ![<<host[t], c>>] = sid[t]]
           /\ loc' = [loc EXCEPT ![t] = <<host[t], c>>]
    BY <1>26 DEF PcfCreate
  <2> DEFINE s == <<host[t], c>>
  <2>2. s \in Sessions
    BY <1>26 DEF PcfCreate, Sessions
  <2>3. /\ sess[s] = "none" /\ cb' = [cb EXCEPT ![s] = sid[t]]
        /\ loc' = [loc EXCEPT ![t] = s]
    BY <2>1
  <2> HIDE DEF s
  <2>4. \A i \in Ids : docs[i] # None => docs[i].loc \in Sessions /\ docs[i].loc # s
    BY <2>3 DEF Docs
  <2>5. \A u \in Tasks : Got(u) => loc[u] \in Sessions /\ loc[u] # s
    BY <2>3
  <2>6. \A u \in Tasks : u # t => (Got(u)' <=> Got(u)) /\ loc'[u] = loc[u]
    BY <1>26, <2>3 DEF PcfCreate
  <2>7. loc'[t] = s
    BY <2>3
  <2> HIDE DEF Got
  <2>8. UNCHANGED <<docs, pc, sid>>
    BY <1>26 DEF PcfCreate
  <2> QED
    BY <2>2, <2>3, <2>4, <2>5, <2>6, <2>7, <2>8
<1>27. ASSUME NEW t \in Tasks, PcfDelete(t) PROVE CallbackInv'
    BY <1>27 DEF PcfDelete
<1>28. ASSUME NEW t \in Tasks, PcfReject(t) PROVE CallbackInv'
    BY <1>28 DEF PcfReject
<1>29. ASSUME NEW t \in Tasks, HttpTimeout(t) PROVE CallbackInv'
    BY <1>29 DEF HttpTimeout
<1>30. ASSUME NEW t \in Tasks, DbFault(t) PROVE CallbackInv'
    BY <1>30 DEF DbFault
<1>31. CASE Wipe
    BY <1>31 DEF Wipe
<1>32. CASE Crash
    BY <1>32 DEF Crash, Die, Waiting
<1>33. CASE UNCHANGED vars
    BY <1>33
<1> QED
    BY <1>1, <1>2, <1>3, <1>4, <1>5, <1>6, <1>7, <1>8, <1>9, <1>10,
       <1>11, <1>12, <1>13, <1>14, <1>15, <1>16, <1>17, <1>18, <1>19, <1>20,
       <1>21, <1>22, <1>23, <1>24, <1>25, <1>26, <1>27, <1>28, <1>29, <1>30, <1>31,
       <1>32, <1>33
       DEF Next, Client, Handler, Pcf, Failure

-----------------------------------------------------------------------------
(* The theorems.                                                           *)

IInv ==
    /\ TypeOK /\ ControlInv /\ HolderInv /\ EndedInv /\ FinalInv
    /\ CallbackInv

LEMMA IInvInit == Init => IInv
<1> SUFFICES ASSUME Init PROVE IInv
    OBVIOUS
<1>1. TypeOK /\ ControlInv
    BY TypeControlInit
<1>2. HolderInv
    BY DEF Init, HolderInv, Got
<1>3. EndedInv
    BY NoneAssumption DEF Init, EndedInv, Deletes, AllOps
<1>4. FinalInv
    BY NoneAssumption DEF Init, FinalInv, UniqueIds, RecordPast, AimedPast,
       AimedOwn, RemovedGone, Aimed, Removed, Deletes, AllOps
<1>5. CallbackInv
    BY DEF Init, CallbackInv, Got
<1> QED
    BY <1>1, <1>2, <1>3, <1>4, <1>5 DEF IInv

LEMMA IInvStep ==
    ASSUME IInv, [Next]_vars
    PROVE  IInv'
BY TypeStep, ControlStep, HolderStep, EndedStep, FinalStep,
   CallbackStep DEF IInv

\* Every reachable state satisfies the inductive invariant.
THEOREM Invariance == Spec => []IInv
<1>1. Init => IInv
    BY IInvInit
<1>2. IInv /\ [Next]_vars => IInv'
    BY IInvStep
<1> QED
    BY <1>1, <1>2, PTL DEF Spec

\* The handlers keep every variable in its type: what InsertOne stores is a
\* record of an AF that names a session of a PCF.
THEOREM TypeCorrect == Spec => []TypeOK
<1>1. IInv => TypeOK
    BY DEF IInv
<1> QED
    BY <1>1, Invariance, PTL

\* No two records ever name the same PCF session, and none names a session
\* that was not opened, whatever fails in between.
THEOREM SessionsNotShared == Spec => []OneRecordPerSession
<1>1. IInv => OneRecordPerSession
    BY DEF IInv, HolderInv, OneRecordPerSession, Stored
<1> QED
    BY <1>1, Invariance, PTL

LEMMA FinalDeletes == IInv => DeleteIsFinal
<1> SUFFICES ASSUME IInv, Pcfs = {HostPcf}, ~UuidRepeat,
                    NEW t \in Tasks, op[t] = "delete", pc[t] = "done",
                    reply[t].ans = "deleted"
             PROVE  docs[sid[t]] = None /\ sess[loc[t]] = "ended"
    BY DEF DeleteIsFinal
<1>1. docs[sid[t]] = None
    BY DEF IInv, FinalInv, RemovedGone, Removed, Deletes
<1>2. call[t] = "ok" /\ sess[Target(t)] = "ended"
    BY DEF IInv, EndedInv, Deletes
<1>3. loc[t] \in Sessions
    BY <1>2 DEF IInv, ControlInv, Deletes
<1>4. Target(t) = loc[t]
    BY <1>3 DEF Target, Sessions
<1> QED
    BY <1>1, <1>2, <1>4

\* 204 to a DELETE is final in a core network with one PCF.
THEOREM DeletesFinal == Spec => []DeleteIsFinal
BY FinalDeletes, Invariance, PTL

\* The notification URI of a recorded session leads to its record, as long as
\* uuid4 draws no id twice.
THEOREM CallbacksMatch == Spec => []CallbackNamesRecord
<1>1. IInv => CallbackNamesRecord
    BY DEF IInv, CallbackInv, CallbackNamesRecord, Stored
<1> QED
    BY <1>1, Invariance, PTL

\* What RemovedByRight says of one record in one step.
ByRight(i) ==
    (docs[i] # None /\ docs'[i] # docs[i]) =>
      /\ docs'[i] = None
      /\ \/ wiping
         \/ \E t \in Tasks :
               /\ pc[t] = "remove" /\ pc'[t] = "recount" /\ sid[t] = i
               /\ op[t] = "qdelete" \/ af[t] = docs[i].owner
               /\ UuidRepeat \/ loc[t] = docs[i].loc

LEMMA RemovesByRight ==
    ASSUME IInv, [Next]_vars, NEW i \in Ids
    PROVE  ByRight(i)
<1> USE DEF Goto, Answer, ByRight
<1>1. CASE UNCHANGED docs
    BY <1>1
<1>2. CASE Wipe
    BY <1>2 DEF Wipe, IInv, TypeOK
<1>3. ASSUME NEW t \in Tasks, InsertOne(t) PROVE ByRight(i)
    BY <1>3 DEF InsertOne, IInv, TypeOK
<1>4. ASSUME NEW t \in Tasks, DeleteOne(t) PROVE ByRight(i)
  <2>1. CASE docs'[i] = docs[i]
      BY <2>1
  <2>2. CASE docs'[i] # docs[i]
    <3>1. sid[t] = i /\ Finds(t) /\ docs'[i] = None
        BY <1>4, <2>2 DEF DeleteOne, IInv, TypeOK
    <3>2. pc[t] = "remove" /\ pc'[t] = "recount" /\ op[t] \in Deletes
        BY <1>4 DEF DeleteOne, IInv, TypeOK, ControlInv
    <3>3. op[t] = "qdelete" \/ af[t] = docs[i].owner
        BY <3>1, <3>2 DEF Finds, Deletes
    <3>4. UuidRepeat \/ loc[t] = docs[i].loc
        BY <3>1, <3>2, FlagAssumption
           DEF IInv, FinalInv, AimedOwn, Aimed, Finds
    <3> QED
        BY <3>1, <3>2, <3>3, <3>4
  <2> QED
      BY <2>1, <2>2
<1>5. \/ UNCHANGED docs
      \/ Wipe
      \/ \E t \in Tasks : InsertOne(t) \/ DeleteOne(t)
  <2> USE DEF QosCreateInvalid, QosCreate, QosDelete, QosRead, QosUpdate,
          Clean, BsfFound, BsfNone, IdTaken, IdFree, Unbuildable,
          SessionOpened, SessionRefused, InsertDuplicate,
          ReinsertDuplicate, QosCreated, DeleteFound, DeleteNotFound,
          SessionTerminated, SessionUnknown, CountBefore, CountAfter,
          ReadDone, PcfCreate, PcfDelete, PcfReject, HttpTimeout, DbFault
  <2>1. ASSUME NEW t \in Tasks, Client(t) PROVE UNCHANGED docs
      BY <2>1 DEF Client
  <2>2. ASSUME NEW t \in Tasks, Handler(t)
        PROVE  UNCHANGED docs \/ InsertOne(t) \/ DeleteOne(t)
      BY <2>2 DEF Handler
  <2>3. ASSUME NEW t \in Tasks, Pcf(t) \/ Failure(t) PROVE UNCHANGED docs
      BY <2>3 DEF Pcf, Failure
  <2>4. CASE Crash
      BY <2>4 DEF Crash, Die
  <2> QED
      BY <2>1, <2>2, <2>3, <2>4 DEF Next
<1> QED
    BY <1>1, <1>2, <1>3, <1>4, <1>5

\* Records are removed by right, and a delete handler removes the record whose
\* session it terminated.
THEOREM RemovalsByRight == Spec => RemovedByRight
<1>1. IInv /\ [Next]_vars => [\A i \in Ids : ByRight(i)]_vars
    BY RemovesByRight
<1> QED
    BY <1>1, Invariance, PTL DEF Spec, RemovedByRight, ByRight

=============================================================================
