----------------------------- MODULE QosCalmProofs -----------------------------
(***************************************************************************)
(* The theorems about CalmCoherence and LeftoversExplained of QosSession,  *)
(* with one PCF and ids that are drawn once, for any number of requests in *)
(* any interleaving: as long as no call, no database operation and no      *)
(* process has failed, records and live PCF sessions agree, and whatever   *)
(* fails, what is left over goes back to requests that were not answered   *)
(* as if all were well.                                                    *)
(*                                                                         *)
(* CalmCoherence does not carry over a step: a live session is stored only *)
(* if its create still waits for it, and a record of an ended session is   *)
(* removed only if the delete whose call was accepted goes on.  AddressedInv *)
(* says that nobody stores a session a delete has addressed, CalmFacts     *)
(* where each handler can be while nothing has failed.  For the leftovers, *)
(* Served says what became of the handler of a call that is still under    *)
(* way, and EndedBy that some delete called for every session that ended.  *)
(***************************************************************************)
EXTENDS QosSessionProofs

\* The session a delete addresses was opened, no create is still about to store
\* it, no record but the one the delete found names it, and it was opened for
\* the subscription the delete names.
AddressedInv ==
    \A u \in Tasks : (op[u] \in Deletes /\ call[u] # "none") =>
        /\ sess[loc[u]] # "none"
        /\ \A t \in Tasks : (Got(t) /\ loc[t] = loc[u]) =>
               pc[t] \notin {"pcf", "insert", "reinsert"}
        /\ \A i \in Ids : (docs[i] # None /\ docs[i].loc = loc[u]) => i = sid[u]
        /\ ~UuidRepeat => cb[loc[u]] = sid[u]

\* Nothing is wiped, no handler is lost or inserts twice, and the handler of
\* every call waits for it.
Steady ==
    /\ ~wiping
    /\ \A t \in Tasks :
        /\ pc[t] \notin {"reinsert", "restored", "dead"}
        /\ call[t] = "sent" => pc[t] \in {"pcf", "term"}

\* Sessions waiting to be stored are live, those whose deletion was answered
\* are not.
Known ==
    \A t \in Tasks :
        /\ Storing(t) => sess[loc[t]] = "live"
        /\ (op[t] \in Deletes /\ call[t] \in {"ok", "refused"}) =>
               sess[loc[t]] = "ended"

LiveKept ==
    \A s \in Sessions : sess[s] = "live" =>
        \/ \E i \in Ids : docs[i] # None /\ docs[i].loc = s
        \/ \E t \in Tasks : Storing(t) /\ loc[t] = s

\* A record whose session is not live is about to be removed by the delete that
\* ended it; a delete that was refused gives up and counts for nothing.
DeadLeft ==
    \A i \in Ids : docs[i] # None =>
        \/ sess[docs[i].loc] = "live"
        \/ \E t \in Tasks : Removing(t) /\ call[t] = "ok" /\ sid[t] = i

CalmFacts == Steady /\ Known /\ LiveKept /\ DeadLeft

CalmInv == (calm /\ ~UuidRepeat /\ Pcfs = {HostPcf}) => CalmFacts

\* A call under way is waited for, or its handler died or answered an error.
Served ==
    \A t \in Tasks :
        /\ call[t] = "sent" => pc[t] \in {"pcf", "term", "done", "dead"}
        /\ (call[t] = "sent" /\ pc[t] = "done") => reply[t].ans = "server_error"

\* Nothing is wiped before a /clean.
Cleaned == \E t \in Tasks : op[t] = "clean"

WipesAsked ==
    /\ wiping => Cleaned
    /\ \A t \in Tasks : op[t] = "clean" => pc[t] = "done"

\* A session ends by the accepted call of a delete that addressed it.
EndedBy ==
    \A s \in Sessions : sess[s] = "ended" =>
        \E t \in Tasks : op[t] \in Deletes /\ call[t] = "ok" /\ loc[t] = s

\* The two halves of LeftoversExplained.
LiveExplained ==
    \A s \in Sessions : sess[s] = "live" =>
        \/ \E i \in Ids : docs[i] # None /\ docs[i].loc = s
        \/ \E t \in Tasks : (Untold(t) \/ Discarding(t)) /\ loc[t] = s
        \/ Cleaned

EndedExplained ==
    \A i \in Ids : (docs[i] # None /\ sess[docs[i].loc] = "ended") =>
        \E t \in Tasks : Unfinished(t) /\ sid[t] = i

LeftInv ==
    /\ Served /\ WipesAsked
    /\ (~UuidRepeat /\ Pcfs = {HostPcf}) => EndedBy /\ LiveExplained /\ EndedExplained

USE DEF request, locals, pcf, shared, vars

-----------------------------------------------------------------------------
LEMMA AddressedStep ==
    ASSUME TypeOK, ControlInv, HolderInv, CallbackInv, AddressedInv, [Next]_vars
    PROVE  AddressedInv'
<1> USE NoneAssumption, HostAssumption, OpsAssumption
    DEF TypeOK, ControlInv, HolderInv, AddressedInv, Got, Goto, Answer, Accept,
        Deletes, AllOps
<1>1. ASSUME NEW t \in Tasks, QosCreateInvalid(t) PROVE AddressedInv'
    BY <1>1 DEF QosCreateInvalid
<1>2. ASSUME NEW t \in Tasks, QosCreate(t) PROVE AddressedInv'
    BY <1>2 DEF QosCreate
<1>3. ASSUME NEW t \in Tasks, QosDelete(t) PROVE AddressedInv'
    BY <1>3 DEF QosDelete
<1>4. ASSUME NEW t \in Tasks, QosRead(t) PROVE AddressedInv'
    BY <1>4 DEF QosRead
<1>5. ASSUME NEW t \in Tasks, QosUpdate(t) PROVE AddressedInv'
    BY <1>5 DEF QosUpdate
<1>6. ASSUME NEW t \in Tasks, Clean(t) PROVE AddressedInv'
    BY <1>6 DEF Clean
<1>7. ASSUME NEW t \in Tasks, BsfFound(t) PROVE AddressedInv'
    BY <1>7 DEF BsfFound
<1>8. ASSUME NEW t \in Tasks, BsfNone(t) PROVE AddressedInv'
    BY <1>8 DEF BsfNone
<1>9. ASSUME NEW t \in Tasks, IdTaken(t) PROVE AddressedInv'
    BY <1>9 DEF IdTaken
<1>10. ASSUME NEW t \in Tasks, IdFree(t) PROVE AddressedInv'
    BY <1>10 DEF IdFree
<1>11. ASSUME NEW t \in Tasks, Unbuildable(t) PROVE AddressedInv'
    BY <1>11 DEF Unbuildable
<1>12. ASSUME NEW t \in Tasks, SessionOpened(t) PROVE AddressedInv'
    BY <1>12 DEF SessionOpened
<1>13. ASSUME NEW t \in Tasks, SessionRefused(t) PROVE AddressedInv'
    BY <1>13 DEF SessionRefused
<1>14. ASSUME NEW t \in Tasks, InsertOne(t) PROVE AddressedInv'
    BY <1>14 DEF InsertOne
<1>15. ASSUME NEW t \in Tasks, InsertDuplicate(t) PROVE AddressedInv'
    BY <1>15 DEF InsertDuplicate
<1>16. ASSUME NEW t \in Tasks, ReinsertDuplicate(t) PROVE AddressedInv'
    BY <1>16 DEF ReinsertDuplicate
<1>17. ASSUME NEW t \in Tasks, QosCreated(t) PROVE AddressedInv'
    BY <1>17 DEF QosCreated
<1>18. ASSUME NEW t \in Tasks, DeleteFound(t) PROVE AddressedInv'
  <2>1. docs[sid[t]] # None /\ docs[sid[t]].loc \in Sessions
    BY <1>18 DEF DeleteFound, Finds, Docs
  <2> QED
    BY <1>18, <2>1 DEF DeleteFound, CallbackInv
<1>19. ASSUME NEW t \in Tasks, DeleteNotFound(t) PROVE AddressedInv'
    BY <1>19 DEF DeleteNotFound
<1>20. ASSUME NEW t \in Tasks, SessionTerminated(t) PROVE AddressedInv'
    BY <1>20 DEF SessionTerminated
<1>21. ASSUME NEW t \in Tasks, SessionUnknown(t) PROVE AddressedInv'
    BY <1>21 DEF SessionUnknown
<1>22. ASSUME NEW t \in Tasks, CountBefore(t) PROVE AddressedInv'
    BY <1>22 DEF CountBefore
<1>23. ASSUME NEW t \in Tasks, DeleteOne(t) PROVE AddressedInv'
    BY <1>23 DEF DeleteOne, Finds
<1>24. ASSUME NEW t \in Tasks, CountAfter(t) PROVE AddressedInv'
    BY <1>24 DEF CountAfter
<1>25. ASSUME NEW t \in Tasks, ReadDone(t) PROVE AddressedInv'
    BY <1>25 DEF ReadDone
<1>26. ASSUME NEW t \in Tasks, PcfCreate(t) PROVE AddressedInv'
  <2>1. PICK c \in Ctxs :
           /\ sess[<<host[t], c>>] = "none"
           /\ sess' = [sess EXCEPT ![<<host[t], c>>] = "live"]
           /\ loc' = [loc EXCEPT ![t] = <<host[t], c>>]
           /\ cb' = [cb EXCEPT ![<<host[t], c>>] = sid[t]]
    BY <1>26 DEF PcfCreate
  <2>2. <<host[t], c>> \in Sessions
    BY <1>26 DEF PcfCreate, Sessions
  <2>3. UNCHANGED <<pc, op, sid, docs>> /\ op[t] = "create"
        /\ \A u \in Tasks \ {t} : call'[u] = call[u] /\ loc'[u] = loc[u]
    BY <1>26, <2>1 DEF PcfCreate
  <2>4. ASSUME NEW u \in Tasks, op[u] \in Deletes, call[u] # "none"
        PROVE  /\ u # t /\ loc[u] # <<host[t], c>>
               /\ sess'[loc[u]] = sess[loc[u]] /\ cb'[loc[u]] = cb[loc[u]]
    <3>1. u # t /\ loc[u] \in Sessions /\ sess[loc[u]] # "none"
        BY <2>3, <2>4
    <3> HIDE DEF TypeOK, ControlInv, HolderInv, AddressedInv
    <3>2. loc[u] # <<host[t], c>>
        BY <2>1, <3>1
    <3>3. sess'[loc[u]] = sess[loc[u]] /\ cb'[loc[u]] = cb[loc[u]]
        BY <2>1, <2>2, <3>1, <3>2 DEF TypeOK
    <3> QED
        BY <3>1, <3>2, <3>3
  <2>5. loc'[t] = <<host[t], c>>
    BY <2>1
  <2> QED
    BY <2>3, <2>4, <2>5
<1>27. ASSUME NEW t \in Tasks, PcfDelete(t) PROVE AddressedInv'
  <2>1. \A u \in Tasks : (op[u] \in Deletes /\ call[u] # "none") => Target(u) \in Sessions
    BY DEF Sessions, Target
  <2> QED
    BY <1>27, <2>1 DEF PcfDelete
<1>28. ASSUME NEW t \in Tasks, PcfReject(t) PROVE AddressedInv'
    BY <1>28 DEF PcfReject
<1>29. ASSUME NEW t \in Tasks, HttpTimeout(t) PROVE AddressedInv'
    BY <1>29 DEF HttpTimeout
<1>30. ASSUME NEW t \in Tasks, DbFault(t) PROVE AddressedInv'
    BY <1>30 DEF DbFault
<1>31. CASE Wipe
    BY <1>31 DEF Wipe
<1>32. CASE Crash
    BY <1>32 DEF Crash, Die, Waiting
<1>33. CASE UNCHANGED vars
    BY <1>33
<1> QED
    BY <1>1, <1>2, <1>3, <1>4, <1>5, <1>6, <1>7, <1>8, <1>9, <1>10, <1>11,
       <1>12, <1>13, <1>14, <1>15, <1>16, <1>17, <1>18, <1>19, <1>20,
       <1>21, <1>22, <1>23, <1>24, <1>25, <1>26, <1>27, <1>28, <1>29,
       <1>30, <1>31, <1>32, <1>33
       DEF Next, Client, Handler, Pcf, Failure

LEMMA CalmStep ==
    ASSUME IInv, AddressedInv, CalmInv, ~UuidRepeat, Pcfs = {HostPcf}, calm',
    [Next]_vars
    PROVE  CalmFacts'
<1> USE NoneAssumption, HostAssumption, OpsAssumption
    DEF IInv, TypeOK, ControlInv, CalmInv, CalmFacts, Steady, Known, LiveKept, DeadLeft,
        Storing, Removing, Goto, Answer, Accept, Deletes, AllOps
<1>1. ASSUME NEW t \in Tasks, QosCreateInvalid(t) PROVE CalmFacts'
    BY <1>1 DEF QosCreateInvalid
<1>2. ASSUME NEW t \in Tasks, QosCreate(t) PROVE CalmFacts'
    BY <1>2 DEF QosCreate
<1>3. ASSUME NEW t \in Tasks, QosDelete(t) PROVE CalmFacts'
    BY <1>3 DEF QosDelete
<1>4. ASSUME NEW t \in Tasks, QosRead(t) PROVE CalmFacts'
    BY <1>4 DEF QosRead
<1>5. ASSUME NEW t \in Tasks, QosUpdate(t) PROVE CalmFacts'
    BY <1>5 DEF QosUpdate
<1>6. ASSUME NEW t \in Tasks, Clean(t) PROVE CalmFacts'
    BY <1>6 DEF Clean
<1>7. ASSUME NEW t \in Tasks, BsfFound(t) PROVE CalmFacts'
    BY <1>7 DEF BsfFound
<1>8. ASSUME NEW t \in Tasks, BsfNone(t) PROVE CalmFacts'
    BY <1>8 DEF BsfNone
<1>9. ASSUME NEW t \in Tasks, IdTaken(t) PROVE CalmFacts'
    BY <1>9 DEF IdTaken
<1>10. ASSUME NEW t \in Tasks, IdFree(t) PROVE CalmFacts'
    BY <1>10 DEF IdFree
<1>11. ASSUME NEW t \in Tasks, Unbuildable(t) PROVE CalmFacts'
    BY <1>11 DEF Unbuildable
<1>12. ASSUME NEW t \in Tasks, SessionOpened(t) PROVE CalmFacts'
    BY <1>12 DEF SessionOpened
<1>13. ASSUME NEW t \in Tasks, SessionRefused(t) PROVE CalmFacts'
    BY <1>13 DEF SessionRefused
<1>14. ASSUME NEW t \in Tasks, InsertOne(t) PROVE CalmFacts'
  <2>1. pc[t] = "insert" /\ op[t] = "create" /\ call[t] = "ok" /\ sid[t] \in Ids
        /\ sess[loc[t]] = "live" /\ loc[t] \in Sessions /\ calm
    BY <1>14 DEF InsertOne
  <2>2. /\ UNCHANGED <<op, sid, loc, call, wiping, sess>>
        /\ docs[sid[t]] = None /\ docs'[sid[t]] # None /\ docs'[sid[t]].loc = loc[t]
        /\ \A i \in Ids \ {sid[t]} : docs'[i] = docs[i]
    BY <1>14, <2>1 DEF InsertOne, Docs
  <2>3. /\ pc'[t] = "stored"
        /\ \A u \in Tasks \ {t} : pc'[u] = pc[u]
    BY <1>14, <2>1 DEF InsertOne
  <2>4. Steady' /\ Known'
    BY <1>14, <2>1, <2>2, <2>3 DEF InsertOne
  <2>5. LiveKept'
    <3> SUFFICES ASSUME NEW s \in Sessions, sess[s] = "live"
                 PROVE  \/ \E i \in Ids : docs'[i] # None /\ docs'[i].loc = s
                        \/ \E u \in Tasks : Storing(u)' /\ loc[u] = s
        BY <2>2
    <3>1. CASE \E i \in Ids : docs[i] # None /\ docs[i].loc = s
        BY <2>2, <3>1
    <3>2. CASE loc[t] = s
        BY <2>1, <2>2, <3>2
    <3>3. CASE \E u \in Tasks \ {t} : Storing(u) /\ loc[u] = s
        BY <2>2, <2>3, <3>3
    <3> QED
        BY <2>1, <3>1, <3>2, <3>3
  <2>6. DeadLeft'
    <3> SUFFICES ASSUME NEW i \in Ids, docs'[i] # None, sess[docs'[i].loc] # "live"
                 PROVE  \E u \in Tasks : Removing(u)' /\ call[u] = "ok" /\ sid[u] = i
        BY <2>2
    <3>1. i # sid[t] /\ docs'[i] = docs[i]
        BY <2>1, <2>2
    <3>2. PICK u \in Tasks : Removing(u) /\ call[u] = "ok" /\ sid[u] = i
        BY <2>1, <3>1
    <3>3. u # t /\ Removing(u)'
        BY <2>1, <2>2, <2>3, <3>2
    <3> QED
        BY <3>2, <3>3
  <2> QED
    BY <2>4, <2>5, <2>6
<1>15. ASSUME NEW t \in Tasks, InsertDuplicate(t) PROVE CalmFacts'
  <2>1. pc[t] = "insert" /\ docs[sid[t]] # None /\ op[t] = "create" /\ sid[t] \in Ids
    BY <1>15 DEF InsertDuplicate
  <2>2. PICK u \in Tasks : Past(u) /\ sid[u] = sid[t]
    BY <2>1 DEF FinalInv, RecordPast
  <2>3. u = t
    BY <2>1, <2>2 DEF FinalInv, UniqueIds, Past
  <2> QED
    BY <2>1, <2>2, <2>3 DEF Past
<1>16. ASSUME NEW t \in Tasks, ReinsertDuplicate(t) PROVE CalmFacts'
    BY <1>16 DEF ReinsertDuplicate
<1>17. ASSUME NEW t \in Tasks, QosCreated(t) PROVE CalmFacts'
    BY <1>17 DEF QosCreated
<1>18. ASSUME NEW t \in Tasks, DeleteFound(t) PROVE CalmFacts'
    BY <1>18 DEF DeleteFound
<1>19. ASSUME NEW t \in Tasks, DeleteNotFound(t) PROVE CalmFacts'
    BY <1>19 DEF DeleteNotFound
<1>20. ASSUME NEW t \in Tasks, SessionTerminated(t) PROVE CalmFacts'
    BY <1>20 DEF SessionTerminated
<1>21. ASSUME NEW t \in Tasks, SessionUnknown(t) PROVE CalmFacts'
    BY <1>21 DEF SessionUnknown
<1>22. ASSUME NEW t \in Tasks, CountBefore(t) PROVE CalmFacts'
    BY <1>22 DEF CountBefore
<1>23. ASSUME NEW t \in Tasks, DeleteOne(t) PROVE CalmFacts'
  <2>1. /\ pc[t] = "remove" /\ op[t] \in Deletes /\ sid[t] \in Ids
        /\ call[t] \in {"ok", "refused"}
        /\ sess[loc[t]] = "ended" /\ calm
    BY <1>23 DEF DeleteOne
  <2>2. docs[sid[t]] # None => Finds(t) /\ docs[sid[t]].loc = loc[t]
    BY <2>1 DEF FinalInv, AimedOwn, Aimed, Finds
  <2>3. /\ UNCHANGED <<op, sid, loc, call, wiping, sess>>
        /\ docs'[sid[t]] = None
        /\ \A i \in Ids \ {sid[t]} : docs'[i] = docs[i]
    BY <1>23, <2>1, <2>2 DEF DeleteOne, Finds
  <2>4. /\ pc'[t] = "recount"
        /\ \A u \in Tasks \ {t} : pc'[u] = pc[u]
    BY <1>23, <2>1 DEF DeleteOne
  <2>5. Steady' /\ Known'
    BY <1>23, <2>1, <2>3, <2>4 DEF DeleteOne
  <2>6. LiveKept'
    <3> SUFFICES ASSUME NEW s \in Sessions, sess[s] = "live"
                 PROVE  \/ \E i \in Ids : docs'[i] # None /\ docs'[i].loc = s
                        \/ \E u \in Tasks : Storing(u)' /\ loc[u] = s
        BY <2>3
    <3>1. ASSUME NEW i \in Ids, docs[i] # None, docs[i].loc = s
          PROVE  docs'[i] # None /\ docs'[i].loc = s
        BY <2>1, <2>2, <2>3, <3>1
    <3>2. ASSUME NEW u \in Tasks, Storing(u), loc[u] = s
          PROVE  Storing(u)'
        BY <2>1, <2>3, <2>4, <3>2
    <3> QED
        BY <2>1, <3>1, <3>2
  <2>7. DeadLeft'
    <3> SUFFICES ASSUME NEW i \in Ids, docs'[i] # None, sess[docs'[i].loc] # "live"
                 PROVE  \E u \in Tasks : Removing(u)' /\ call[u] = "ok" /\ sid[u] = i
        BY <2>3
    <3>1. i # sid[t] /\ docs'[i] = docs[i]
        BY <2>1, <2>3
    <3>2. PICK u \in Tasks : Removing(u) /\ call[u] = "ok" /\ sid[u] = i
        BY <2>1, <3>1
    <3>3. u # t /\ Removing(u)'
        BY <2>1, <2>3, <2>4, <3>1, <3>2
    <3> QED
        BY <3>2, <3>3
  <2> QED
    BY <2>5, <2>6, <2>7
<1>24. ASSUME NEW t \in Tasks, CountAfter(t) PROVE CalmFacts'
    BY <1>24 DEF CountAfter
<1>25. ASSUME NEW t \in Tasks, ReadDone(t) PROVE CalmFacts'
    BY <1>25 DEF ReadDone
<1>26. ASSUME NEW t \in Tasks, PcfCreate(t) PROVE CalmFacts'
  <2>1. PICK c \in Ctxs :
           /\ sess[<<host[t], c>>] = "none"
           /\ sess' = [sess EXCEPT ![<<host[t], c>>] = "live"]
           /\ loc' = [loc EXCEPT ![t] = <<host[t], c>>]
    <3> HIDE DEF IInv, TypeOK, ControlInv, CalmInv, CalmFacts, Steady, Known, LiveKept,
                DeadLeft, Storing, Removing
    <3> QED
        BY <1>26 DEF PcfCreate
  <2> DEFINE s == <<host[t], c>>
  <2>2. s \in Sessions
    BY <1>26 DEF PcfCreate, Sessions
  <2>3. /\ UNCHANGED <<pc, op, sid, docs, wiping>> /\ calm
        /\ op[t] = "create" /\ call[t] = "sent" /\ pc[t] = "pcf"
    BY <1>26 DEF PcfCreate
  <2>4. /\ call'[t] = "ok" /\ loc'[t] = s
        /\ \A u \in Tasks \ {t} : call'[u] = call[u] /\ loc'[u] = loc[u]
    BY <1>26, <2>1 DEF PcfCreate
  <2>5. /\ sess'[s] = "live" /\ sess[s] = "none"
        /\ \A r \in Sessions \ {s} : sess'[r] = sess[r]
    BY <2>1, <2>2
  <2> HIDE DEF s
  <2>6. Steady'
    BY <2>3, <2>4
  <2>7. Known'
    BY <2>2, <2>3, <2>4, <2>5
  <2>8. LiveKept'
    BY <2>2, <2>3, <2>4, <2>5
  <2>9. DeadLeft'
    <3>1. \A i \in Ids : docs[i] # None => docs[i].loc \in Sessions
        BY DEF Docs
    <3> QED
        BY <2>2, <2>3, <2>4, <2>5, <3>1
  <2> QED
    BY <2>6, <2>7, <2>8, <2>9
<1>27. ASSUME NEW t \in Tasks, PcfDelete(t) PROVE CalmFacts'
  <2> DEFINE s == loc[t]
  <2>1. /\ UNCHANGED <<pc, op, sid, loc, docs, wiping>> /\ calm
        /\ op[t] \in Deletes /\ call[t] = "sent" /\ pc[t] = "term"
        /\ \A u \in Tasks \ {t} : call'[u] = call[u]
    BY <1>27 DEF PcfDelete
  <2>2. s \in Sessions /\ Target(t) = s
    BY <2>1 DEF Target, Sessions
  <2>3. sess[s] # "none"
    BY <2>1 DEF AddressedInv
  <2>4. \/ /\ sess[s] = "live" /\ call'[t] = "ok"
           /\ sess' = [sess EXCEPT ![s] = "ended"]
        \/ /\ sess[s] = "ended" /\ call'[t] = "refused"
           /\ sess' = sess
    BY <1>27, <2>2, <2>3 DEF PcfDelete
  <2> HIDE DEF s
  <2>5. sess'[s] = "ended" /\ \A r \in Sessions \ {s} : sess'[r] = sess[r]
    BY <2>2, <2>4
  <2>6. Steady'
    BY <2>1, <2>4
  <2>7. \A u \in Tasks : Storing(u)' <=> Storing(u)
    BY <2>1
  <2>8. \A u \in Tasks : Storing(u) => loc[u] # s /\ loc[u] \in Sessions
    BY <2>1 DEF AddressedInv, Got, s
  <2>9. Known'
    <3>1. \A u \in Tasks : (op[u] \in Deletes /\ call[u] # "none") => loc[u] \in Sessions
        OBVIOUS
    <3>2. loc[t] = s
        BY DEF s
    <3> QED
        BY <2>1, <2>4, <2>5, <2>7, <2>8, <3>1, <3>2
  <2>10. LiveKept'
    BY <2>1, <2>2, <2>5, <2>7
  <2>11. DeadLeft'
    <3> SUFFICES ASSUME NEW i \in Ids, docs[i] # None, sess'[docs[i].loc] # "live"
                 PROVE  \E u \in Tasks : Removing(u)' /\ call'[u] = "ok" /\ sid[u] = i
        BY <2>1
    <3>1. docs[i].loc \in Sessions
        BY DEF Docs
    <3>2. CASE sess[docs[i].loc] = "live"
      <4>1. docs[i].loc = s /\ sess[s] = "live"
          BY <2>5, <3>1, <3>2
      <4>2. i = sid[t] /\ call'[t] = "ok"
          BY <2>1, <2>4, <4>1 DEF AddressedInv, s
      <4> QED
          BY <2>1, <4>2
    <3>3. CASE sess[docs[i].loc] # "live"
      <4>1. PICK u \in Tasks : Removing(u) /\ call[u] = "ok" /\ sid[u] = i
          BY <2>1, <3>3
      <4> QED
          BY <2>1, <4>1
    <3> QED
        BY <3>2, <3>3
  <2> QED
    BY <2>6, <2>9, <2>10, <2>11
<1>28. ASSUME NEW t \in Tasks, PcfReject(t) PROVE CalmFacts'
  <2>0. op[t] = "create" /\ calm
    <3> HIDE DEF IInv, TypeOK, ControlInv, CalmInv, CalmFacts, Steady, Known, LiveKept,
                DeadLeft, Storing, Removing
    <3> QED
        BY <1>28, Zenon DEF PcfReject
  <2>1. /\ UNCHANGED <<pc, op, sid, loc, docs, wiping, sess>> /\ calm
        /\ op[t] = "create" /\ call[t] = "sent" /\ call'[t] = "refused"
        /\ \A u \in Tasks \ {t} : call'[u] = call[u]
    BY <1>28, <2>0 DEF PcfReject
  <2>2. \A u \in Tasks : Storing(u)' <=> Storing(u)
    BY <2>1
  <2>3. Steady' /\ Known'
    BY <2>1, <2>2
  <2>4. LiveKept'
    BY <2>1, <2>2
  <2>5. DeadLeft'
    BY <2>1
  <2> QED
    BY <2>3, <2>4, <2>5
<1>29. ASSUME NEW t \in Tasks, HttpTimeout(t) PROVE CalmFacts'
    BY <1>29 DEF HttpTimeout
<1>30. ASSUME NEW t \in Tasks, DbFault(t) PROVE CalmFacts'
    BY <1>30 DEF DbFault
<1>31. CASE Wipe
    BY <1>31 DEF Wipe
<1>32. CASE Crash
    BY <1>32 DEF Crash, Die, Waiting
<1>33. CASE UNCHANGED vars
    BY <1>33
<1> QED
    BY <1>1, <1>2, <1>3, <1>4, <1>5, <1>6, <1>7, <1>8, <1>9, <1>10, <1>11,
       <1>12, <1>13, <1>14, <1>15, <1>16, <1>17, <1>18, <1>19, <1>20,
       <1>21, <1>22, <1>23, <1>24, <1>25, <1>26, <1>27, <1>28, <1>29,
       <1>30, <1>31, <1>32, <1>33
       DEF Next, Client, Handler, Pcf, Failure

-----------------------------------------------------------------------------
(* Leftovers.                                                              *)

LEMMA ServedStep ==
    ASSUME TypeOK, ControlInv, Served, WipesAsked, [Next]_vars
    PROVE  Served' /\ WipesAsked'
<1> USE NoneAssumption, HostAssumption, OpsAssumption
    DEF TypeOK, ControlInv, Served, WipesAsked, Cleaned, Goto, Answer,
        Accept, Deletes, AllOps
<1>1. ASSUME NEW t \in Tasks, QosCreateInvalid(t) PROVE Served' /\ WipesAsked'
    BY <1>1 DEF QosCreateInvalid
<1>2. ASSUME NEW t \in Tasks, QosCreate(t) PROVE Served' /\ WipesAsked'
    BY <1>2 DEF QosCreate
<1>3. ASSUME NEW t \in Tasks, QosDelete(t) PROVE Served' /\ WipesAsked'
    BY <1>3 DEF QosDelete
<1>4. ASSUME NEW t \in Tasks, QosRead(t) PROVE Served' /\ WipesAsked'
    BY <1>4 DEF QosRead
<1>5. ASSUME NEW t \in Tasks, QosUpdate(t) PROVE Served' /\ WipesAsked'
    BY <1>5 DEF QosUpdate
<1>6. ASSUME NEW t \in Tasks, Clean(t) PROVE Served' /\ WipesAsked'
    BY <1>6 DEF Clean
<1>7. ASSUME NEW t \in Tasks, BsfFound(t) PROVE Served' /\ WipesAsked'
    BY <1>7 DEF BsfFound
<1>8. ASSUME NEW t \in Tasks, BsfNone(t) PROVE Served' /\ WipesAsked'
    BY <1>8 DEF BsfNone
<1>9. ASSUME NEW t \in Tasks, IdTaken(t) PROVE Served' /\ WipesAsked'
    BY <1>9 DEF IdTaken
<1>10. ASSUME NEW t \in Tasks, IdFree(t) PROVE Served' /\ WipesAsked'
    BY <1>10 DEF IdFree
<1>11. ASSUME NEW t \in Tasks, Unbuildable(t) PROVE Served' /\ WipesAsked'
    BY <1>11 DEF Unbuildable
<1>12. ASSUME NEW t \in Tasks, SessionOpened(t) PROVE Served' /\ WipesAsked'
    BY <1>12 DEF SessionOpened
<1>13. ASSUME NEW t \in Tasks, SessionRefused(t) PROVE Served' /\ WipesAsked'
    BY <1>13 DEF SessionRefused
<1>14. ASSUME NEW t \in Tasks, InsertOne(t) PROVE Served' /\ WipesAsked'
    BY <1>14 DEF InsertOne
<1>15. ASSUME NEW t \in Tasks, InsertDuplicate(t) PROVE Served' /\ WipesAsked'
    BY <1>15 DEF InsertDuplicate
<1>16. ASSUME NEW t \in Tasks, ReinsertDuplicate(t) PROVE Served' /\ WipesAsked'
    BY <1>16 DEF ReinsertDuplicate
<1>17. ASSUME NEW t \in Tasks, QosCreated(t) PROVE Served' /\ WipesAsked'
    BY <1>17 DEF QosCreated
<1>18. ASSUME NEW t \in Tasks, DeleteFound(t) PROVE Served' /\ WipesAsked'
    BY <1>18 DEF DeleteFound
<1>19. ASSUME NEW t \in Tasks, DeleteNotFound(t) PROVE Served' /\ WipesAsked'
    BY <1>19 DEF DeleteNotFound
<1>20. ASSUME NEW t \in Tasks, SessionTerminated(t) PROVE Served' /\ WipesAsked'
    BY <1>20 DEF SessionTerminated
<1>21. ASSUME NEW t \in Tasks, SessionUnknown(t) PROVE Served' /\ WipesAsked'
    BY <1>21 DEF SessionUnknown
<1>22. ASSUME NEW t \in Tasks, CountBefore(t) PROVE Served' /\ WipesAsked'
    BY <1>22 DEF CountBefore
<1>23. ASSUME NEW t \in Tasks, DeleteOne(t) PROVE Served' /\ WipesAsked'
    BY <1>23 DEF DeleteOne
<1>24. ASSUME NEW t \in Tasks, CountAfter(t) PROVE Served' /\ WipesAsked'
    BY <1>24 DEF CountAfter
<1>25. ASSUME NEW t \in Tasks, ReadDone(t) PROVE Served' /\ WipesAsked'
    BY <1>25 DEF ReadDone
<1>26. ASSUME NEW t \in Tasks, PcfCreate(t) PROVE Served' /\ WipesAsked'
    BY <1>26 DEF PcfCreate
<1>27. ASSUME NEW t \in Tasks, PcfDelete(t) PROVE Served' /\ WipesAsked'
    BY <1>27 DEF PcfDelete
<1>28. ASSUME NEW t \in Tasks, PcfReject(t) PROVE Served' /\ WipesAsked'
    BY <1>28 DEF PcfReject
<1>29. ASSUME NEW t \in Tasks, HttpTimeout(t) PROVE Served' /\ WipesAsked'
    BY <1>29 DEF HttpTimeout
<1>30. ASSUME NEW t \in Tasks, DbFault(t) PROVE Served' /\ WipesAsked'
    BY <1>30 DEF DbFault
<1>31. CASE Wipe
    BY <1>31 DEF Wipe
<1>32. CASE Crash
  <2>1. Served'
    BY <1>32 DEF Crash, Die, Waiting
  <2>2. wiping' = wiping \/ wiping' = FALSE
    BY <1>32, Zenon DEF Crash, Die
  <2>3. op' = op /\ (wiping' => wiping)
    BY <1>32, <2>2 DEF Crash, Die
  <2>4. \A t \in Tasks : pc[t] = "done" => pc'[t] = "done"
    BY <1>32 DEF Crash, Die, Waiting
  <2> QED
    BY <2>1, <2>3, <2>4
<1>33. CASE UNCHANGED vars
    BY <1>33
<1> QED
    BY <1>1, <1>2, <1>3, <1>4, <1>5, <1>6, <1>7, <1>8, <1>9, <1>10, <1>11,
       <1>12, <1>13, <1>14, <1>15, <1>16, <1>17, <1>18, <1>19, <1>20,
       <1>21, <1>22, <1>23, <1>24, <1>25, <1>26, <1>27, <1>28, <1>29,
       <1>30, <1>31, <1>32, <1>33
       DEF Next, Client, Handler, Pcf, Failure

LEMMA EndedByStep ==
    ASSUME TypeOK, ControlInv, EndedBy, Pcfs = {HostPcf}, [Next]_vars
    PROVE  EndedBy'
<1> USE NoneAssumption, HostAssumption, OpsAssumption
    DEF TypeOK, ControlInv, EndedBy, Goto, Answer, Accept, Deletes, AllOps
<1>1. ASSUME NEW t \in Tasks, QosCreateInvalid(t) PROVE EndedBy'
    BY <1>1 DEF QosCreateInvalid
<1>2. ASSUME NEW t \in Tasks, QosCreate(t) PROVE EndedBy'
    BY <1>2 DEF QosCreate
<1>3. ASSUME NEW t \in Tasks, QosDelete(t) PROVE EndedBy'
    BY <1>3 DEF QosDelete
<1>4. ASSUME NEW t \in Tasks, QosRead(t) PROVE EndedBy'
    BY <1>4 DEF QosRead
<1>5. ASSUME NEW t \in Tasks, QosUpdate(t) PROVE EndedBy'
    BY <1>5 DEF QosUpdate
<1>6. ASSUME NEW t \in Tasks, Clean(t) PROVE EndedBy'
    BY <1>6 DEF Clean
<1>7. ASSUME NEW t \in Tasks, BsfFound(t) PROVE EndedBy'
    BY <1>7 DEF BsfFound
<1>8. ASSUME NEW t \in Tasks, BsfNone(t) PROVE EndedBy'
    BY <1>8 DEF BsfNone
<1>9. ASSUME NEW t \in Tasks, IdTaken(t) PROVE EndedBy'
    BY <1>9 DEF IdTaken
<1>10. ASSUME NEW t \in Tasks, IdFree(t) PROVE EndedBy'
    BY <1>10 DEF IdFree
<1>11. ASSUME NEW t \in Tasks, Unbuildable(t) PROVE EndedBy'
    BY <1>11 DEF Unbuildable
<1>12. ASSUME NEW t \in Tasks, SessionOpened(t) PROVE EndedBy'
    BY <1>12 DEF SessionOpened
<1>13. ASSUME NEW t \in Tasks, SessionRefused(t) PROVE EndedBy'
    BY <1>13 DEF SessionRefused
<1>14. ASSUME NEW t \in Tasks, InsertOne(t) PROVE EndedBy'
    BY <1>14 DEF InsertOne
<1>15. ASSUME NEW t \in Tasks, InsertDuplicate(t) PROVE EndedBy'
    BY <1>15 DEF InsertDuplicate
<1>16. ASSUME NEW t \in Tasks, ReinsertDuplicate(t) PROVE EndedBy'
    BY <1>16 DEF ReinsertDuplicate
<1>17. ASSUME NEW t \in Tasks, QosCreated(t) PROVE EndedBy'
    BY <1>17 DEF QosCreated
<1>18. ASSUME NEW t \in Tasks, DeleteFound(t) PROVE EndedBy'
    BY <1>18 DEF DeleteFound
<1>19. ASSUME NEW t \in Tasks, DeleteNotFound(t) PROVE EndedBy'
    BY <1>19 DEF DeleteNotFound
<1>20. ASSUME NEW t \in Tasks, SessionTerminated(t) PROVE EndedBy'
    BY <1>20 DEF SessionTerminated
<1>21. ASSUME NEW t \in Tasks, SessionUnknown(t) PROVE EndedBy'
    BY <1>21 DEF SessionUnknown
<1>22. ASSUME NEW t \in Tasks, CountBefore(t) PROVE EndedBy'
    BY <1>22 DEF CountBefore
<1>23. ASSUME NEW t \in Tasks, DeleteOne(t) PROVE EndedBy'
    BY <1>23 DEF DeleteOne
<1>24. ASSUME NEW t \in Tasks, CountAfter(t) PROVE EndedBy'
    BY <1>24 DEF CountAfter
<1>25. ASSUME NEW t \in Tasks, ReadDone(t) PROVE EndedBy'
    BY <1>25 DEF ReadDone
<1>26. ASSUME NEW t \in Tasks, PcfCreate(t) PROVE EndedBy'
  <2>1. PICK c \in Ctxs :
           /\ sess' = [sess EXCEPT ![<<host[t], c>>] = "live"]
           /\ loc' = [loc EXCEPT ![t] = <<host[t], c>>]
    BY <1>26 DEF PcfCreate
  <2>2. \A s \in Sessions : sess'[s] = "ended" => sess[s] = "ended"
    BY <2>1
  <2>3. UNCHANGED op /\ op[t] = "create"
        /\ \A u \in Tasks \ {t} : call'[u] = call[u] /\ loc'[u] = loc[u]
    BY <1>26, <2>1 DEF PcfCreate
  <2> QED
    BY <2>2, <2>3
<1>27. ASSUME NEW t \in Tasks, PcfDelete(t) PROVE EndedBy'
  <2>1. loc[t] \in Sessions /\ Target(t) = loc[t]
    BY <1>27 DEF PcfDelete, Target, Sessions
  <2> QED
    BY <1>27, <2>1 DEF PcfDelete
<1>28. ASSUME NEW t \in Tasks, PcfReject(t) PROVE EndedBy'
    BY <1>28 DEF PcfReject
<1>29. ASSUME NEW t \in Tasks, HttpTimeout(t) PROVE EndedBy'
    BY <1>29 DEF HttpTimeout
<1>30. ASSUME NEW t \in Tasks, DbFault(t) PROVE EndedBy'
    BY <1>30 DEF DbFault
<1>31. CASE Wipe
    BY <1>31 DEF Wipe
<1>32. CASE Crash
    BY <1>32 DEF Crash, Die, Waiting
<1>33. CASE UNCHANGED vars
    BY <1>33
<1> QED
    BY <1>1, <1>2, <1>3, <1>4, <1>5, <1>6, <1>7, <1>8, <1>9, <1>10, <1>11,
       <1>12, <1>13, <1>14, <1>15, <1>16, <1>17, <1>18, <1>19, <1>20,
       <1>21, <1>22, <1>23, <1>24, <1>25, <1>26, <1>27, <1>28, <1>29,
       <1>30, <1>31, <1>32, <1>33
       DEF Next, Client, Handler, Pcf, Failure

\* A step that moves no record and no session and after which every request
\* that accounts for a leftover still does.
LEMMA LeftQuiet ==
    ASSUME LiveExplained, EndedExplained, UNCHANGED <<docs, sess>>, Cleaned => Cleaned',
           \A t \in Tasks :
               /\ (Untold(t) \/ Discarding(t)) =>
                      (Untold(t)' \/ Discarding(t)') /\ loc'[t] = loc[t]
               /\ Unfinished(t) => Unfinished(t)' /\ sid'[t] = sid[t]
    PROVE  LiveExplained' /\ EndedExplained'
BY DEF LiveExplained, EndedExplained

LEMMA LeftStep ==
    ASSUME IInv, AddressedInv, Served, WipesAsked, EndedBy,
           LiveExplained, EndedExplained, ~UuidRepeat, Pcfs = {HostPcf}, [Next]_vars
    PROVE  LiveExplained' /\ EndedExplained'
<1> USE NoneAssumption, HostAssumption, OpsAssumption
    DEF IInv, TypeOK, ControlInv, Goto, Answer, Accept, Deletes, AllOps
<1> DEFINE Quiet ==
        /\ UNCHANGED <<docs, sess>> /\ (Cleaned => Cleaned')
        /\ \A t \in Tasks :
               /\ (Untold(t) \/ Discarding(t)) =>
                      (Untold(t)' \/ Discarding(t)') /\ loc'[t] = loc[t]
               /\ Unfinished(t) => Unfinished(t)' /\ sid'[t] = sid[t]
<1>q. Quiet => LiveExplained' /\ EndedExplained'
    BY LeftQuiet
<1>1. ASSUME NEW t \in Tasks, QosCreateInvalid(t) PROVE LiveExplained' /\ EndedExplained'
  <2>1. Quiet
    BY <1>1 DEF QosCreateInvalid, Untold, Discarding, Unfinished, Cleaned, WipesAsked
  <2> QED
    BY <2>1, <1>q
<1>2. ASSUME NEW t \in Tasks, QosCreate(t) PROVE LiveExplained' /\ EndedExplained'
  <2>1. Quiet
    BY <1>2 DEF QosCreate, Untold, Discarding, Unfinished, Cleaned, WipesAsked
  <2> QED
    BY <2>1, <1>q
<1>3. ASSUME NEW t \in Tasks, QosDelete(t) PROVE LiveExplained' /\ EndedExplained'
  <2>1. Quiet
    BY <1>3 DEF QosDelete, Untold, Discarding, Unfinished, Cleaned, WipesAsked
  <2> QED
    BY <2>1, <1>q
<1>4. ASSUME NEW t \in Tasks, QosRead(t) PROVE LiveExplained' /\ EndedExplained'
  <2>1. Quiet
    BY <1>4 DEF QosRead, Untold, Discarding, Unfinished, Cleaned, WipesAsked
  <2> QED
    BY <2>1, <1>q
<1>5. ASSUME NEW t \in Tasks, QosUpdate(t) PROVE LiveExplained' /\ EndedExplained'
  <2>1. Quiet
    BY <1>5 DEF QosUpdate, Untold, Discarding, Unfinished, Cleaned, WipesAsked
  <2> QED
    BY <2>1, <1>q
<1>6. ASSUME NEW t \in Tasks, Clean(t) PROVE LiveExplained' /\ EndedExplained'
  <2>1. Quiet
    BY <1>6 DEF Clean, Untold, Discarding, Unfinished, Cleaned, WipesAsked
  <2> QED
    BY <2>1, <1>q
<1>7. ASSUME NEW t \in Tasks, BsfFound(t) PROVE LiveExplained' /\ EndedExplained'
  <2>1. Quiet
    BY <1>7 DEF BsfFound, Untold, Discarding, Unfinished, Cleaned, WipesAsked
  <2> QED
    BY <2>1, <1>q
<1>8. ASSUME NEW t \in Tasks, BsfNone(t) PROVE LiveExplained' /\ EndedExplained'
  <2>1. Quiet
    BY <1>8 DEF BsfNone, Untold, Discarding, Unfinished, Cleaned, WipesAsked
  <2> QED
    BY <2>1, <1>q
<1>9. ASSUME NEW t \in Tasks, IdTaken(t) PROVE LiveExplained' /\ EndedExplained'
  <2>1. Quiet
    BY <1>9 DEF IdTaken, Untold, Discarding, Unfinished, Cleaned, WipesAsked
  <2> QED
    BY <2>1, <1>q
<1>10. ASSUME NEW t \in Tasks, IdFree(t) PROVE LiveExplained' /\ EndedExplained'
  <2>1. Quiet
    BY <1>10 DEF IdFree, Untold, Discarding, Unfinished, Cleaned, WipesAsked
  <2> QED
    BY <2>1, <1>q
<1>11. ASSUME NEW t \in Tasks, Unbuildable(t) PROVE LiveExplained' /\ EndedExplained'
  <2>1. Quiet
    BY <1>11 DEF Unbuildable, Untold, Discarding, Unfinished, Cleaned, WipesAsked
  <2> QED
    BY <2>1, <1>q
<1>12. ASSUME NEW t \in Tasks, SessionOpened(t) PROVE LiveExplained' /\ EndedExplained'
  <2>1. Quiet
    BY <1>12 DEF SessionOpened, Untold, Discarding, Unfinished, Cleaned, WipesAsked
  <2> QED
    BY <2>1, <1>q
<1>13. ASSUME NEW t \in Tasks, SessionRefused(t) PROVE LiveExplained' /\ EndedExplained'
  <2>1. Quiet
    BY <1>13 DEF SessionRefused, Untold, Discarding, Unfinished, Cleaned, WipesAsked
  <2> QED
    BY <2>1, <1>q
<1>14. ASSUME NEW t \in Tasks, InsertOne(t) PROVE LiveExplained' /\ EndedExplained'
  <2>1. Got(t) /\ loc[t] \in Sessions /\ sid[t] \in Ids
    BY <1>14 DEF InsertOne, Got
  <2>2. /\ docs[sid[t]] = None
        /\ docs' = [docs EXCEPT ![sid[t]] = [owner |-> af[t], loc |-> loc[t]]]
        /\ pc[t] \in {"insert", "reinsert"} /\ UNCHANGED <<locals, call, reply, sess>>
        /\ \A u \in Tasks \ {t} : pc'[u] = pc[u]
    BY <1>14 DEF InsertOne
  <2>3. sess[loc[t]] # "ended"
    BY <2>1, <2>2 DEF EndedBy, AddressedInv
  <2>4. docs'[sid[t]] # None /\ docs'[sid[t]].loc = loc[t]
    BY <2>1, <2>2 DEF Docs, Sessions
  <2>5. \A i \in Ids \ {sid[t]} : docs'[i] = docs[i]
    BY <2>1, <2>2
  <2>6. \A u \in Tasks \ {t} : Untold(u)' = Untold(u) /\ Discarding(u)' = Discarding(u)
    BY <2>2 DEF Untold, Discarding
  <2>7. ~Discarding(t) /\ (Cleaned => Cleaned')
    BY <2>2 DEF Discarding, Cleaned
  <2>8. \A u \in Tasks : Unfinished(u) => Unfinished(u)'
    BY <2>1, <2>2 DEF Unfinished, Got
  <2>9. LiveExplained'
    BY <2>1, <2>2, <2>4, <2>5, <2>6, <2>7 DEF LiveExplained
  <2>10. EndedExplained'
    BY <2>1, <2>2, <2>3, <2>4, <2>5, <2>8 DEF EndedExplained
  <2> QED
    BY <2>9, <2>10
<1>15. ASSUME NEW t \in Tasks, InsertDuplicate(t) PROVE LiveExplained' /\ EndedExplained'
  <2>1. Quiet
    BY <1>15 DEF InsertDuplicate, Untold, Discarding, Unfinished, Cleaned, WipesAsked
  <2> QED
    BY <2>1, <1>q
<1>16. ASSUME NEW t \in Tasks, ReinsertDuplicate(t)
    PROVE LiveExplained' /\ EndedExplained'
  <2>1. Quiet
    BY <1>16 DEF ReinsertDuplicate, Untold, Discarding, Unfinished, Cleaned, WipesAsked
  <2> QED
    BY <2>1, <1>q
<1>17. ASSUME NEW t \in Tasks, QosCreated(t) PROVE LiveExplained' /\ EndedExplained'
  <2>1. Quiet
    BY <1>17 DEF QosCreated, Untold, Discarding, Unfinished, Cleaned, WipesAsked
  <2> QED
    BY <2>1, <1>q
<1>18. ASSUME NEW t \in Tasks, DeleteFound(t) PROVE LiveExplained' /\ EndedExplained'
  <2>1. Quiet
    BY <1>18 DEF DeleteFound, Untold, Discarding, Unfinished, Cleaned, WipesAsked
  <2> QED
    BY <2>1, <1>q
<1>19. ASSUME NEW t \in Tasks, DeleteNotFound(t) PROVE LiveExplained' /\ EndedExplained'
  <2>1. Quiet
    BY <1>19 DEF DeleteNotFound, Untold, Discarding, Unfinished, Cleaned, WipesAsked
  <2> QED
    BY <2>1, <1>q
<1>20. ASSUME NEW t \in Tasks, SessionTerminated(t)
    PROVE LiveExplained' /\ EndedExplained'
  <2>1. Quiet
    BY <1>20 DEF SessionTerminated, Untold, Discarding, Unfinished, Cleaned, WipesAsked
  <2> QED
    BY <2>1, <1>q
<1>21. ASSUME NEW t \in Tasks, SessionUnknown(t) PROVE LiveExplained' /\ EndedExplained'
  <2>1. Quiet
    BY <1>21 DEF SessionUnknown, Untold, Discarding, Unfinished, Cleaned, WipesAsked
  <2> QED
    BY <2>1, <1>q
<1>22. ASSUME NEW t \in Tasks, CountBefore(t) PROVE LiveExplained' /\ EndedExplained'
  <2>1. Quiet
    BY <1>22 DEF CountBefore, Untold, Discarding, Unfinished, Cleaned, WipesAsked
  <2> QED
    BY <2>1, <1>q
<1>23. ASSUME NEW t \in Tasks, DeleteOne(t) PROVE LiveExplained' /\ EndedExplained'
  <2>1. /\ pc[t] = "remove" /\ pc' = [pc EXCEPT ![t] = "recount"]
        /\ UNCHANGED <<locals, call, reply, sess>>
    BY <1>23 DEF DeleteOne
  <2>2. /\ op[t] \in Deletes /\ sid[t] \in Ids /\ loc[t] \in Sessions
        /\ call[t] \in {"ok", "refused"}
    BY <2>1 DEF Served
  <2>3. docs[sid[t]] # None => Finds(t) /\ docs[sid[t]].loc = loc[t]
    BY <2>1, <2>2 DEF FinalInv, AimedOwn, Aimed, Finds
  <2>4. docs' = [docs EXCEPT ![sid[t]] = None]
    BY <1>23, <2>2, <2>3 DEF DeleteOne
  <2>5. call[t] = "ok" => sess[loc[t]] = "ended"
    BY <2>2 DEF EndedInv, Target, Sessions
  <2>6. call[t] = "refused" => Discarding(t)'
    BY <2>1, <2>2 DEF EndedInv, Discarding
  <2>7. \A u \in Tasks : /\ Untold(u) => Untold(u)'
                         /\ Discarding(u) => Discarding(u)'
    BY <2>1, <2>2 DEF Untold, Discarding
  <2>8. \A u \in Tasks \ {t} : Unfinished(u) => Unfinished(u)'
    BY <2>1 DEF Unfinished
  <2>9. LiveExplained'
    <3>1. SUFFICES ASSUME NEW s \in Sessions, sess[s] = "live"
                   PROVE  \/ \E i \in Ids : docs'[i] # None /\ docs'[i].loc = s
                          \/ \E u \in Tasks :
                                 (Untold(u)' \/ Discarding(u)') /\ loc'[u] = s
                          \/ Cleaned'
      BY <2>1 DEF LiveExplained
    <3>2. (Cleaned => Cleaned') /\ UNCHANGED loc
      BY <2>1 DEF Cleaned
    <3>3. CASE docs[sid[t]] # None /\ docs[sid[t]].loc = s
      BY <2>2, <2>3, <2>5, <2>6, <3>1, <3>2, <3>3
    <3>4. CASE ~(docs[sid[t]] # None /\ docs[sid[t]].loc = s)
      <4>1. \A i \in Ids : (docs[i] # None /\ docs[i].loc = s) =>
                docs'[i] # None /\ docs'[i].loc = s
        BY <2>2, <2>4, <3>4
      <4> HIDE DEF TypeOK, ControlInv, Quiet
      <4> QED
        BY <2>7, <3>1, <3>2, <4>1 DEF LiveExplained
    <3> QED
      BY <3>3, <3>4
  <2>10. EndedExplained'
    BY <2>1, <2>2, <2>4, <2>8 DEF EndedExplained
  <2> QED
    BY <2>9, <2>10
<1>24. ASSUME NEW t \in Tasks, CountAfter(t) PROVE LiveExplained' /\ EndedExplained'
  <2>1. Quiet
    BY <1>24 DEF CountAfter, Untold, Discarding, Unfinished, Cleaned, WipesAsked
  <2> QED
    BY <2>1, <1>q
<1>25. ASSUME NEW t \in Tasks, ReadDone(t) PROVE LiveExplained' /\ EndedExplained'
  <2>1. Quiet
    BY <1>25 DEF ReadDone, Untold, Discarding, Unfinished, Cleaned, WipesAsked
  <2> QED
    BY <2>1, <1>q
<1>26. ASSUME NEW t \in Tasks, PcfCreate(t) PROVE LiveExplained' /\ EndedExplained'
  <2>1. PICK c \in Ctxs :
           /\ sess[<<host[t], c>>] = "none"
           /\ sess' = [sess EXCEPT ![<<host[t], c>>] = "live"]
           /\ loc' = [loc EXCEPT ![t] = <<host[t], c>>]
    BY <1>26 DEF PcfCreate
  <2>2. /\ call[t] = "sent" /\ op[t] = "create" /\ call' = [call EXCEPT ![t] = "ok"]
        /\ UNCHANGED <<pc, op, sid, reply, docs>>
    BY <1>26 DEF PcfCreate
  <2>3. <<host[t], c>> \in Sessions
    BY <2>2 DEF Sessions
  <2>4. Untold(t)' /\ loc'[t] = <<host[t], c>>
    BY <2>1, <2>2, <2>3 DEF Untold, Served
  <2>5. \A s \in Sessions \ {<<host[t], c>>} : sess'[s] = sess[s]
    BY <2>1
  <2>6. ~Untold(t) /\ ~Discarding(t) /\ (Cleaned => Cleaned')
    BY <2>2 DEF Untold, Discarding, Cleaned
  <2>7. \A u \in Tasks \ {t} : /\ Untold(u)' = Untold(u)
                               /\ Discarding(u)' = Discarding(u) /\ loc'[u] = loc[u]
    BY <2>1, <2>2 DEF Untold, Discarding
  <2>8. \A u \in Tasks : Unfinished(u) => Unfinished(u)'
    BY <2>2 DEF Unfinished
  <2>9. LiveExplained'
    BY <2>2, <2>4, <2>5, <2>6, <2>7 DEF LiveExplained
  <2>10. \A s \in Sessions : sess'[s] = "ended" => sess[s] = "ended"
    BY <2>1, <2>3, <2>5
  <2>11. EndedExplained'
    BY <2>2, <2>8, <2>10 DEF EndedExplained, Docs
  <2> QED
    BY <2>9, <2>11
<1>27. ASSUME NEW t \in Tasks, PcfDelete(t) PROVE LiveExplained' /\ EndedExplained'
  <2>1. /\ call[t] = "sent" /\ op[t] \in Deletes
        /\ UNCHANGED <<pc, locals, reply, docs>>
    BY <1>27 DEF PcfDelete
  <2>2. loc[t] \in Sessions /\ Target(t) = loc[t]
    BY <2>1 DEF Target, Sessions
  <2>3. CASE sess[loc[t]] = "live"
    <3>1. /\ sess' = [sess EXCEPT ![loc[t]] = "ended"]
          /\ call' = [call EXCEPT ![t] = "ok"]
      BY <1>27, <2>2, <2>3 DEF PcfDelete
    <3>2. Unfinished(t)'
      BY <2>1, <3>1 DEF Unfinished, Served
    <3>3. \A i \in Ids : (docs[i] # None /\ docs[i].loc = loc[t]) => i = sid[t]
      BY <2>1 DEF AddressedInv
    <3>4. \A u \in Tasks : /\ Untold(u) => Untold(u)'
                           /\ Discarding(u) => Discarding(u)'
                           /\ Unfinished(u) => Unfinished(u)'
      BY <2>1, <3>1 DEF Untold, Discarding, Unfinished
    <3>5. \A s \in Sessions \ {loc[t]} : sess'[s] = sess[s]
      BY <3>1
    <3>6. sess'[loc[t]] = "ended"
      BY <2>2, <3>1
    <3>7. LiveExplained'
      <4>1. SUFFICES ASSUME NEW s \in Sessions, sess'[s] = "live"
                     PROVE  \/ \E i \in Ids : docs'[i] # None /\ docs'[i].loc = s
                            \/ \E u \in Tasks :
                                 (Untold(u)' \/ Discarding(u)') /\ loc'[u] = s
                            \/ Cleaned'
        BY DEF LiveExplained
      <4>2. sess[s] = "live"
        BY <3>5, <3>6, <4>1
      <4>3. (Cleaned => Cleaned') /\ UNCHANGED <<docs, loc>>
        BY <2>1 DEF Cleaned
      <4> HIDE DEF TypeOK, ControlInv, Quiet
      <4> QED
        BY <3>4, <4>2, <4>3 DEF LiveExplained
    <3>8. EndedExplained'
      <4>1. SUFFICES ASSUME NEW i \in Ids, docs[i] # None,
                            sess'[docs[i].loc] = "ended"
                     PROVE  \E u \in Tasks : Unfinished(u)' /\ sid[u] = i
        BY <2>1 DEF EndedExplained
      <4>2. CASE docs[i].loc = loc[t]
        BY <3>2, <3>3, <4>1, <4>2
      <4>3. CASE docs[i].loc # loc[t]
        <5>1. sess[docs[i].loc] = "ended"
          BY <3>5, <4>1, <4>3 DEF Docs
        <5> HIDE DEF TypeOK, ControlInv, Quiet
        <5> QED
          BY <3>4, <4>1, <5>1 DEF EndedExplained
      <4> QED
        BY <4>2, <4>3
    <3> QED
      BY <3>7, <3>8
  <2>4. CASE sess[loc[t]] # "live"
    <3>1. UNCHANGED sess /\ call' = [call EXCEPT ![t] = "refused"]
      BY <1>27, <2>2, <2>4 DEF PcfDelete
    <3>2. Quiet
      BY <2>1, <3>1 DEF Untold, Discarding, Unfinished, Cleaned
    <3> QED
      BY <3>2, <1>q
  <2> QED
    BY <2>3, <2>4
<1>28. ASSUME NEW t \in Tasks, PcfReject(t) PROVE LiveExplained' /\ EndedExplained'
  <2>1. Quiet
    BY <1>28 DEF PcfReject, Untold, Discarding, Unfinished, Cleaned, WipesAsked
  <2> QED
    BY <2>1, <1>q
<1>29. ASSUME NEW t \in Tasks, HttpTimeout(t) PROVE LiveExplained' /\ EndedExplained'
  <2>1. Quiet
    BY <1>29 DEF HttpTimeout, Untold, Discarding, Unfinished, Cleaned, WipesAsked
  <2> QED
    BY <2>1, <1>q
<1>30. ASSUME NEW t \in Tasks, DbFault(t) PROVE LiveExplained' /\ EndedExplained'
  <2>1. Quiet
    BY <1>30 DEF DbFault, Untold, Discarding, Unfinished, Cleaned, WipesAsked
  <2> QED
    BY <2>1, <1>q
<1>31. CASE Wipe
  <2>1. Cleaned /\ (Cleaned => Cleaned') /\ docs' = [i \in Ids |-> None]
    BY <1>31 DEF Wipe, WipesAsked, Cleaned
  <2> QED
    BY <2>1 DEF LiveExplained, EndedExplained
<1>32. CASE Crash
  <2>1. Quiet
    BY <1>32 DEF Crash, Die, Waiting, Untold, Discarding, Unfinished, Cleaned
  <2> QED
    BY <2>1, <1>q
<1>33. CASE UNCHANGED vars
  <2>1. Quiet
    BY <1>33 DEF Untold, Discarding, Unfinished, Cleaned
  <2> QED
    BY <2>1, <1>q
<1> QED
    BY <1>1, <1>2, <1>3, <1>4, <1>5, <1>6, <1>7, <1>8, <1>9, <1>10, <1>11,
       <1>12, <1>13, <1>14, <1>15, <1>16, <1>17, <1>18, <1>19, <1>20,
       <1>21, <1>22, <1>23, <1>24, <1>25, <1>26, <1>27, <1>28, <1>29,
       <1>30, <1>31, <1>32, <1>33
       DEF Next, Client, Handler, Pcf, Failure

-----------------------------------------------------------------------------
(* The theorems.                                                           *)

LEMMA CalmInit == Init => AddressedInv /\ CalmInv
<1> SUFFICES ASSUME Init PROVE AddressedInv /\ CalmInv
    OBVIOUS
<1>1. AddressedInv
    BY DEF Init, AddressedInv
<1>2. CalmFacts
    BY DEF Init, CalmFacts, Steady, Known, LiveKept, DeadLeft, Storing
<1> QED
    BY <1>1, <1>2 DEF CalmInv

LEMMA CalmNextStep ==
    ASSUME IInv, AddressedInv, CalmInv, [Next]_vars
    PROVE  AddressedInv' /\ CalmInv'
<1>1. AddressedInv'
    BY AddressedStep DEF IInv
<1>2. CASE calm' /\ ~UuidRepeat /\ Pcfs = {HostPcf}
    BY <1>1, <1>2, CalmStep DEF CalmInv
<1>3. CASE ~(calm' /\ ~UuidRepeat /\ Pcfs = {HostPcf})
    BY <1>1, <1>3 DEF CalmInv
<1> QED
    BY <1>2, <1>3

LEMMA CalmAgrees == CalmInv => CalmCoherence
BY DEF CalmInv, CalmFacts, LiveKept, DeadLeft, CalmCoherence, Stored, Removing

\* While nothing has failed, records and live PCF sessions agree but for the
\* handlers at work: the theorem of CalmCoherence.
THEOREM CalmCoherent == Spec => []CalmCoherence
BY CalmAgrees, CalmInit, CalmNextStep, Invariance, PTL DEF Spec

LEMMA LeftInit == Init => LeftInv
<1> SUFFICES ASSUME Init PROVE LeftInv
    OBVIOUS
<1>1. Served /\ WipesAsked
    BY NoneAssumption DEF Init, Served, WipesAsked, Cleaned, AllOps
<1>2. EndedBy /\ LiveExplained /\ EndedExplained
    BY DEF Init, EndedBy, LiveExplained, EndedExplained
<1> QED
    BY <1>1, <1>2 DEF LeftInv

LEMMA LeftNextStep ==
    ASSUME IInv, AddressedInv, LeftInv, [Next]_vars
    PROVE  LeftInv'
<1>1. Served' /\ WipesAsked'
    BY ServedStep DEF IInv, LeftInv
<1>2. CASE ~UuidRepeat /\ Pcfs = {HostPcf}
  <2>1. EndedBy'
    BY <1>2, EndedByStep DEF IInv, LeftInv
  <2>2. LiveExplained' /\ EndedExplained'
    BY <1>2, LeftStep DEF LeftInv
  <2> QED
    BY <1>1, <2>1, <2>2 DEF LeftInv
<1>3. CASE ~(~UuidRepeat /\ Pcfs = {HostPcf})
    BY <1>1, <1>3 DEF LeftInv
<1> QED
    BY <1>2, <1>3

LEMMA LeftAgrees == LeftInv => LeftoversExplained
BY DEF LeftInv, LiveExplained, EndedExplained, Cleaned, LeftoversExplained, Stored

\* Whatever fails, a live session without a record and a record of an ended
\* session go back to requests that were not answered as if all were well: the
\* theorem of LeftoversExplained.
THEOREM LeftoversAccounted == Spec => []LeftoversExplained
<1>1. Init => AddressedInv /\ CalmInv /\ LeftInv
    BY CalmInit, LeftInit
<1>2. IInv /\ AddressedInv /\ CalmInv /\ LeftInv /\ [Next]_vars
          => (AddressedInv /\ CalmInv /\ LeftInv)'
    BY CalmNextStep, LeftNextStep
<1> QED
    BY <1>1, <1>2, LeftAgrees, Invariance, PTL DEF Spec

=============================================================================
