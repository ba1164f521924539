--------------------------- MODULE QosRegistryProofs ---------------------------
(***************************************************************************)
(* QosSession implements SubscriptionRegistry when uuid4 draws no id twice: *)
(* the initial states are mapped to initial states, and each step to a step *)
(* of the registry or to a stutter, under the invariant of QosSessionProofs *)
(* and RegInv.                                                             *)
(***************************************************************************)
EXTENDS QosSessionProofs

\* What the registry needs beyond IInv: who sent a request, what a read asks for,
\* and that records are wiped only after a /clean.
RegInv ==
    /\ \A t \in Tasks :
        /\ pc[t] = "idle" <=> op[t] = None
        /\ pc[t] = "read" =>
               op[t] \in {"get", "list", "qget"} /\ sid[t] \in Ids
        /\ op[t] \in {"get", "list"} => af[t] \in Afs
        /\ op[t] = "qdelete" => af[t] = None
    /\ wiping => \E t \in Tasks : op[t] = "clean"

USE DEF request, locals, pcf, shared, vars

LEMMA RegInit == Init => RegInv
    BY NoneAssumption DEF Init, RegInv, AllOps

LEMMA RegStep ==
    ASSUME TypeOK, ControlInv, RegInv, [Next]_vars
    PROVE  RegInv'
<1> USE OpsAssumption, NoneAssumption
    DEF TypeOK, RegInv, Goto, Answer, Accept, AllOps
<1>1. ASSUME NEW t \in Tasks, QosCreateInvalid(t) PROVE RegInv'
    BY <1>1 DEF QosCreateInvalid
<1>2. ASSUME NEW t \in Tasks, QosCreate(t) PROVE RegInv'
    BY <1>2 DEF QosCreate
<1>3. ASSUME NEW t \in Tasks, QosDelete(t) PROVE RegInv'
    BY <1>3 DEF QosDelete
<1>4. ASSUME NEW t \in Tasks, QosRead(t) PROVE RegInv'
    BY <1>4 DEF QosRead
<1>5. ASSUME NEW t \in Tasks, QosUpdate(t) PROVE RegInv'
    BY <1>5 DEF QosUpdate
<1>6. ASSUME NEW t \in Tasks, Clean(t) PROVE RegInv'
    BY <1>6 DEF Clean
<1>7. ASSUME NEW t \in Tasks, BsfFound(t) PROVE RegInv'
    BY <1>7 DEF BsfFound
<1>8. ASSUME NEW t \in Tasks, BsfNone(t) PROVE RegInv'
    BY <1>8 DEF BsfNone
<1>9. ASSUME NEW t \in Tasks, IdTaken(t) PROVE RegInv'
    BY <1>9 DEF IdTaken
<1>10. ASSUME NEW t \in Tasks, IdFree(t) PROVE RegInv'
    BY <1>10 DEF IdFree
<1>11. ASSUME NEW t \in Tasks, Unbuildable(t) PROVE RegInv'
    BY <1>11 DEF Unbuildable
<1>12. ASSUME NEW t \in Tasks, SessionOpened(t) PROVE RegInv'
    BY <1>12 DEF SessionOpened
<1>13. ASSUME NEW t \in Tasks, SessionRefused(t) PROVE RegInv'
    BY <1>13 DEF SessionRefused
<1>14. ASSUME NEW t \in Tasks, InsertOne(t) PROVE RegInv'
    BY <1>14 DEF InsertOne
<1>15. ASSUME NEW t \in Tasks, InsertDuplicate(t) PROVE RegInv'
    BY <1>15 DEF InsertDuplicate
<1>16. ASSUME NEW t \in Tasks, ReinsertDuplicate(t) PROVE RegInv'
    BY <1>16 DEF ReinsertDuplicate
<1>17. ASSUME NEW t \in Tasks, QosCreated(t) PROVE RegInv'
    BY <1>17 DEF QosCreated
<1>18. ASSUME NEW t \in Tasks, DeleteFound(t) PROVE RegInv'
    BY <1>18 DEF DeleteFound
<1>19. ASSUME NEW t \in Tasks, DeleteNotFound(t) PROVE RegInv'
    BY <1>19 DEF DeleteNotFound
<1>20. ASSUME NEW t \in Tasks, SessionTerminated(t) PROVE RegInv'
    BY <1>20 DEF SessionTerminated
<1>21. ASSUME NEW t \in Tasks, SessionUnknown(t) PROVE RegInv'
    BY <1>21 DEF SessionUnknown
<1>22. ASSUME NEW t \in Tasks, CountBefore(t) PROVE RegInv'
    BY <1>22 DEF CountBefore
<1>23. ASSUME NEW t \in Tasks, DeleteOne(t) PROVE RegInv'
    BY <1>23 DEF DeleteOne
<1>24. ASSUME NEW t \in Tasks, CountAfter(t) PROVE RegInv'
    BY <1>24 DEF CountAfter
<1>25. ASSUME NEW t \in Tasks, ReadDone(t) PROVE RegInv'
    BY <1>25 DEF ReadDone
<1>26. ASSUME NEW t \in Tasks, PcfCreate(t) PROVE RegInv'
    BY <1>26 DEF PcfCreate
<1>27. ASSUME NEW t \in Tasks, PcfDelete(t) PROVE RegInv'
    BY <1>27 DEF PcfDelete
<1>28. ASSUME NEW t \in Tasks, PcfReject(t) PROVE RegInv'
    BY <1>28 DEF PcfReject
<1>29. ASSUME NEW t \in Tasks, HttpTimeout(t) PROVE RegInv'
    BY <1>29 DEF HttpTimeout
<1>30. ASSUME NEW t \in Tasks, DbFault(t) PROVE RegInv'
    BY <1>30 DEF DbFault
<1>31. CASE Wipe
    BY <1>31 DEF Wipe
<1>32. CASE Crash
  <2>1. UNCHANGED <<op, af, sid>> /\ wiping' \in {wiping, FALSE}
    BY <1>32 DEF Crash, Die
  <2>2. \A t \in Tasks : pc'[t] = pc[t] \/ (pc[t] \in Waiting /\ pc'[t] = "dead")
    BY <1>32 DEF Crash, Die
  <2>3. wiping' => \E t \in Tasks : op'[t] = "clean"
    BY <2>1
  <2> QED
    BY <2>1, <2>2, <2>3 DEF Waiting
<1>33. CASE UNCHANGED vars
    BY <1>33
<1> HIDE DEF TypeOK, RegInv
<1> QED
    BY <1>1, <1>2, <1>3, <1>4, <1>5, <1>6, <1>7, <1>8, <1>9, <1>10,
       <1>11, <1>12, <1>13, <1>14, <1>15, <1>16, <1>17, <1>18, <1>19, <1>20,
       <1>21, <1>22, <1>23, <1>24, <1>25, <1>26, <1>27, <1>28, <1>29, <1>30, <1>31,
       <1>32, <1>33
       DEF Next, Client, Handler, Pcf, Failure

-----------------------------------------------------------------------------
(* Steps of the registry, from what a handler does to a few variables.      *)

\* What the registry sees of a request and of an id.
Same == UNCHANGED <<op, af, sid, docs>>

\* A step of a handler that neither stores, removes nor answers anything.
LEMMA Stutter ==
    ASSUME NEW t \in Tasks, NEW l, TypeOK,
           pc' = [pc EXCEPT ![t] = l], Same, reply' = reply,
           pc[t] \notin {"stored", "restored", "done", "dead"},
           l \notin {"stored", "restored", "done", "dead"}
    PROVE  UNCHANGED Registry!vars
<1>1. \A u \in Tasks : Outcome(u)' = Outcome(u)
    BY DEF TypeOK, Same, Outcome
<1>2. \A i \in Ids : Spent(i)' <=> Spent(i)
    BY DEF TypeOK, Same, Spent
<1>3. \A i \in Ids : Life(i)' = Life(i)
    BY <1>2 DEF Same, Life
<1> QED
    BY <1>1, <1>3 DEF Same, Registry!vars

\* Neither does a step that changes none of these variables.
LEMMA Untouched ==
    ASSUME Same, UNCHANGED <<pc, reply>>
    PROVE  UNCHANGED Registry!vars
    BY DEF Same, Outcome, Life, Spent, Registry!vars

\* A request that is answered, with an answer that is true.
LEMMA Answered ==
    ASSUME NEW t \in Tasks, NEW a, NEW l, TypeOK, RegInv,
           pc[t] \in Waiting, Answer(t, a, l), Same,
           NEW r \in {"created", "deleted", "found", "absent", "other"},
           Outcome(t)' = r, Registry!True(t, r)
    PROVE  Registry!Answer(t)
<1>1. \A u \in Tasks \ {t} : Outcome(u)' = Outcome(u)
    BY DEF TypeOK, Same, Outcome, Answer, Goto
<1>2. [u \in Tasks |-> Outcome(u)]' = [[u \in Tasks |-> Outcome(u)] EXCEPT ![t] = r]
    BY <1>1
<1>3. \A i \in Ids : Spent(i)' <=> Spent(i) \/ (op[t] = "create" /\ sid[t] = i)
    BY DEF TypeOK, Same, Spent, Answer, Goto, Waiting
<1>4. \A u \in Tasks : Verb(op[u]) = "create" <=> op[u] = "create"
    BY NoneAssumption DEF TypeOK, Verb, AllOps
<1>5. \A i \in Ids : Life(i)' =
          IF Life(i) = "free" /\ op[t] = "create" /\ sid[t] = i
          THEN "over" ELSE Life(i)
    BY <1>3 DEF Same, Life
<1>6. Registry!Abandon({t})
    BY <1>4, <1>5 DEF Registry!Abandon
<1>7. Registry!Pending(t)
    BY NoneAssumption DEF Registry!Pending, RegInv, Verb, Waiting, Outcome, TypeOK,
       AllOps
<1> QED
    BY <1>2, <1>6, <1>7 DEF Registry!Answer, Registry!request, Same

\* An error says nothing.
LEMMA AnsweredOther ==
    ASSUME NEW t \in Tasks, NEW a, NEW l, TypeOK, RegInv,
           pc[t] \in Waiting, Answer(t, a, l), Same,
           a \in {"failed_to_delete", "server_error", "returned_exception",
                  "pcf_status"}
           \/ (a = "not_found" /\ op[t] \notin {"get", "list"})
    PROVE  Registry!Answer(t)
<1>1. Outcome(t)' = "other"
    BY DEF TypeOK, Same, Outcome, Answer, Goto
<1>2. Registry!True(t, "other")
    BY DEF Registry!True
<1> QED
    BY <1>1, <1>2, Answered

\* A request arrives at an endpoint.
LEMMA Submitted ==
    ASSUME NEW t \in Tasks, NEW o \in AllOps, NEW a \in Afs \cup {None},
           NEW i \in Ids \cup {None}, NEW r \in {"none", "other"},
           TypeOK, ControlInv, RegInv, Accept(t, o, a),
           pc' = [pc EXCEPT ![t] = pc'[t]], sid' = [sid EXCEPT ![t] = i],
           docs' = docs, \A u \in Tasks \ {t} : reply'[u] = reply[u],
           Outcome(t)' = r,
           o = "create" => i = None \/ i \notin {sid[u] : u \in Tasks},
           (o = "create" /\ i # None) => pc'[t] = "check"
    PROVE  Registry!Submit(t)
<1>1. /\ pc[t] = "idle" /\ op[t] = None
      /\ op' = [op EXCEPT ![t] = o] /\ af' = [af EXCEPT ![t] = a]
    BY DEF Accept, RegInv
<1>2. /\ Verb(None) = None /\ Verb(o) \in Registry!Verbs
      /\ Verb(o) = "create" => o = "create"
    BY NoneAssumption DEF Verb, AllOps, Registry!Verbs
<1>3. [u \in Tasks |-> Verb(op[u])]'
          = [[u \in Tasks |-> Verb(op[u])] EXCEPT ![t] = Verb(o)]
    BY <1>1 DEF TypeOK
<1>4. [u \in Tasks |-> Outcome(u)]'
          = [[u \in Tasks |-> Outcome(u)] EXCEPT ![t] = r]
  <2>1. \A u \in Tasks \ {t} :
            pc'[u] = pc[u] /\ op'[u] = op[u] /\ reply'[u] = reply[u]
    BY <1>1 DEF TypeOK
  <2>2. \A u \in Tasks \ {t} : Outcome(u)' = Outcome(u)
    BY <2>1 DEF Outcome
  <2> QED
    BY <2>2
<1>5. \A j \in Ids : Spent(j)' <=> Spent(j)
    BY <1>1, NoneAssumption DEF TypeOK, Spent
<1>6. \A j \in Ids : Life(j)' = Life(j)
    BY <1>5 DEF Life
<1>7. Verb(o) = "create" => i = None \/ Registry!Unused(i)
    BY <1>2 DEF Registry!Unused
<1>8. [u \in Tasks |-> Verb(op[u])][t] = None
      /\ [u \in Tasks |-> Verb(op[u])]'[t] = Verb(o)
    BY <1>1, <1>2, <1>3
<1>9. UNCHANGED <<[j \in Ids |-> Life(j)],
                  [j \in Ids |-> IF docs[j] = None THEN None ELSE docs[j].owner]>>
    BY <1>6
<1> HIDE DEF Registry!Unused, Verb, Outcome, Life
<1> QED
    BY <1>1, <1>2, <1>3, <1>4, <1>7, <1>8, <1>9 DEF Registry!Submit

LEMMA RegistryStep ==
    ASSUME ~UuidRepeat, TypeOK, ControlInv, FinalInv, RegInv, [Next]_vars
    PROVE  [Registry!Next]_(Registry!vars)
<1>1. ASSUME NEW t \in Tasks, QosCreateInvalid(t)
     PROVE  [Registry!Next]_(Registry!vars)
  <2>1. PICK a \in Afs : /\ Accept(t, "create", a)
                        /\ Answer(t, "bad_request", None)
                        /\ UNCHANGED <<sid, docs>>
    BY <1>1 DEF QosCreateInvalid
  <2>2. sid' = [sid EXCEPT ![t] = None] /\ pc' = [pc EXCEPT ![t] = pc'[t]]
    BY <2>1 DEF TypeOK, ControlInv, Accept, Answer, Goto
  <2>3. Outcome(t)' = "other"
    BY <2>1 DEF TypeOK, Outcome, Answer, Goto
  <2>4. \A u \in Tasks \ {t} : reply'[u] = reply[u]
    BY <2>1 DEF TypeOK, Answer
  <2>5. Registry!Submit(t)
    BY <2>1, <2>2, <2>3, <2>4, Submitted DEF AllOps
  <2> QED
    BY <2>5 DEF Registry!Next
<1>2. ASSUME NEW t \in Tasks, QosCreate(t)
     PROVE  [Registry!Next]_(Registry!vars)
  <2>1. PICK a \in Afs : /\ Accept(t, "create", a)
                        /\ UNCHANGED <<docs, reply>>
                        /\ IF BsfKnown
                           THEN Goto(t, "bsf") /\ UNCHANGED <<sid, host>>
                           ELSE /\ Goto(t, "check")
                                /\ host' = [host EXCEPT ![t] = HostPcf]
                                /\ \E i \in Draw : sid' = [sid EXCEPT ![t] = i]
    BY <1>2 DEF QosCreate
  <2>2. PICK i \in Ids \cup {None} :
            /\ sid' = [sid EXCEPT ![t] = i]
            /\ i = None \/ (i \notin {sid[u] : u \in Tasks} /\ pc'[t] = "check")
    BY <2>1 DEF TypeOK, ControlInv, Accept, Goto, Draw
  <2>3. pc' = [pc EXCEPT ![t] = pc'[t]] /\ Outcome(t)' = "none"
    BY <2>1 DEF TypeOK, Outcome, Goto
  <2>4. Registry!Submit(t)
    BY <2>1, <2>2, <2>3, Submitted DEF AllOps
  <2> QED
    BY <2>4 DEF Registry!Next
<1>3. ASSUME NEW t \in Tasks, QosDelete(t)
     PROVE  [Registry!Next]_(Registry!vars)
  <2>1. PICK i \in Ids, o \in {"delete", "qdelete"}, a \in Afs \cup {None} :
            /\ Accept(t, o, a) /\ Goto(t, "get")
            /\ sid' = [sid EXCEPT ![t] = i] /\ UNCHANGED <<docs, reply>>
    BY <1>3 DEF QosDelete
  <2>2. pc' = [pc EXCEPT ![t] = pc'[t]] /\ Outcome(t)' = "none"
    BY <2>1 DEF TypeOK, Outcome, Goto
  <2>3. Registry!Submit(t)
    BY <2>1, <2>2, Submitted DEF AllOps
  <2> QED
    BY <2>3 DEF Registry!Next
<1>4. ASSUME NEW t \in Tasks, QosRead(t)
     PROVE  [Registry!Next]_(Registry!vars)
  <2>1. PICK i \in Ids, o \in {"get", "list", "qget"}, a \in Afs \cup {None} :
            /\ Accept(t, o, a) /\ Goto(t, "read")
            /\ sid' = [sid EXCEPT ![t] = i] /\ UNCHANGED <<docs, reply>>
    BY <1>4 DEF QosRead
  <2>2. pc' = [pc EXCEPT ![t] = pc'[t]] /\ Outcome(t)' = "none"
    BY <2>1 DEF TypeOK, Outcome, Goto
  <2>3. Registry!Submit(t)
    BY <2>1, <2>2, Submitted DEF AllOps
  <2> QED
    BY <2>3 DEF Registry!Next
<1>5. ASSUME NEW t \in Tasks, QosUpdate(t)
     PROVE  [Registry!Next]_(Registry!vars)
  <2>1. PICK a \in Afs : /\ Accept(t, "update", a)
                        /\ Answer(t, "server_error", None)
                        /\ UNCHANGED <<sid, docs>>
    BY <1>5 DEF QosUpdate
  <2>2. sid' = [sid EXCEPT ![t] = None] /\ pc' = [pc EXCEPT ![t] = pc'[t]]
    BY <2>1 DEF TypeOK, ControlInv, Accept, Answer, Goto
  <2>3. Outcome(t)' = "other"
    BY <2>1 DEF TypeOK, Outcome, Answer, Goto
  <2>4. \A u \in Tasks \ {t} : reply'[u] = reply[u]
    BY <2>1 DEF TypeOK, Answer
  <2>5. Registry!Submit(t)
    BY <2>1, <2>2, <2>3, <2>4, Submitted DEF AllOps
  <2> QED
    BY <2>5 DEF Registry!Next
<1>6. ASSUME NEW t \in Tasks, Clean(t)
     PROVE  [Registry!Next]_(Registry!vars)
  <2>1. /\ Accept(t, "clean", None) /\ Answer(t, "cleaned", None)
        /\ UNCHANGED <<sid, docs>>
    BY <1>6 DEF Clean
  <2>2. sid' = [sid EXCEPT ![t] = None] /\ pc' = [pc EXCEPT ![t] = pc'[t]]
    BY <2>1 DEF TypeOK, ControlInv, Accept, Answer, Goto
  <2>3. Outcome(t)' = "other"
    BY <2>1 DEF TypeOK, Outcome, Answer, Goto
  <2>4. \A u \in Tasks \ {t} : reply'[u] = reply[u]
    BY <2>1 DEF TypeOK, Answer
  <2>5. Registry!Submit(t)
    BY <2>1, <2>2, <2>3, <2>4, Submitted DEF AllOps
  <2> QED
    BY <2>5 DEF Registry!Next
<1>7. ASSUME NEW t \in Tasks, BsfFound(t)
     PROVE  [Registry!Next]_(Registry!vars)
  <2>1. /\ pc[t] = "bsf" /\ Goto(t, "check")
        /\ UNCHANGED <<op, af, reply, docs>>
    BY <1>7 DEF BsfFound
  <2>2. PICK i \in Ids : /\ i \notin {sid[u] : u \in Tasks}
                        /\ sid' = [sid EXCEPT ![t] = i]
    BY <1>7 DEF BsfFound, Draw
  <2>3. op[t] = "create" /\ sid[t] = None /\ Verb("create") = "create"
    BY <2>1 DEF ControlInv, Verb
  <2>4. Registry!Pending(t) /\ Registry!Unused(i)
    BY <2>1, <2>2, <2>3, NoneAssumption
       DEF Registry!Pending, Registry!Unused, Outcome, AllOps, TypeOK
  <2>5. \A u \in Tasks : Outcome(u)' = Outcome(u)
    BY <2>1 DEF TypeOK, Outcome, Goto
  <2>6. \A j \in Ids : Spent(j)' <=> Spent(j)
    BY <2>1, <2>2, <2>3, NoneAssumption DEF TypeOK, Spent, Goto
  <2>7. \A j \in Ids : Life(j)' = Life(j)
    BY <2>1, <2>6 DEF Life
  <2>8. Registry!Name(t)
    BY <2>1, <2>2, <2>3, <2>4, <2>5, <2>7 DEF Registry!Name, TypeOK
  <2> QED
    BY <2>8 DEF Registry!Next
<1>8. ASSUME NEW t \in Tasks, BsfNone(t)
     PROVE  [Registry!Next]_(Registry!vars)
  <2>1. Registry!Answer(t)
    BY <1>8, AnsweredOther DEF BsfNone, ControlInv, Deletes, Waiting, Same
  <2> QED
    BY <2>1 DEF Registry!Next
<1>9. ASSUME NEW t \in Tasks, IdTaken(t)
     PROVE  [Registry!Next]_(Registry!vars)
  <2>1. PICK u \in Tasks : Past(u) /\ sid[u] = sid[t]
    BY <1>9 DEF IdTaken, ControlInv, FinalInv, RecordPast
  <2>2. u = t
    BY <1>9, <2>1, NoneAssumption
       DEF IdTaken, ControlInv, FinalInv, UniqueIds, Past
  <2> QED
    BY <1>9, <2>1, <2>2 DEF IdTaken, Past
<1>10. ASSUME NEW t \in Tasks, IdFree(t)
     PROVE  [Registry!Next]_(Registry!vars)
    BY <1>10, Stutter DEF IdFree, Goto, Same
<1>11. ASSUME NEW t \in Tasks, Unbuildable(t)
     PROVE  [Registry!Next]_(Registry!vars)
  <2>1. Registry!Answer(t)
    BY <1>11, AnsweredOther DEF Unbuildable, ControlInv, Deletes, Waiting, Same
  <2> QED
    BY <2>1 DEF Registry!Next
<1>12. ASSUME NEW t \in Tasks, SessionOpened(t)
     PROVE  [Registry!Next]_(Registry!vars)
    BY <1>12, Stutter DEF SessionOpened, Goto, Same
<1>13. ASSUME NEW t \in Tasks, SessionRefused(t)
     PROVE  [Registry!Next]_(Registry!vars)
  <2>1. Registry!Answer(t)
    BY <1>13, AnsweredOther DEF SessionRefused, ControlInv, Deletes, Waiting, Same
  <2> QED
    BY <2>1 DEF Registry!Next
<1>14. ASSUME NEW t \in Tasks, InsertOne(t)
     PROVE  [Registry!Next]_(Registry!vars)
  <2>1. /\ pc[t] \in {"insert", "reinsert"} /\ docs[sid[t]] = None
        /\ \/ Goto(t, "stored")
           \/ Goto(t, "restored")
        /\ docs' = [docs EXCEPT ![sid[t]] = [owner |-> af[t], loc |-> loc[t]]]
        /\ UNCHANGED <<op, af, sid, reply>>
    BY <1>14 DEF InsertOne
  <2>2. /\ op[t] = "create" /\ sid[t] \in Ids /\ Verb("create") = "create"
        /\ af[t] \in Afs /\ loc[t] \in Sessions
    BY <2>1 DEF ControlInv, Verb
  <2>3. Life(sid[t]) = "free"
    BY <2>1, <2>2, NoneAssumption DEF Life, Spent, FinalInv, UniqueIds
  <2>4. Registry!Pending(t)
    BY <2>1, <2>2, NoneAssumption DEF Registry!Pending, Outcome, AllOps
  <2>5. \A u \in Tasks : Outcome(u)' = Outcome(u)
    BY <2>1 DEF TypeOK, Outcome, Goto
  <2>6. \A j \in Ids \ {sid[t]} : Spent(j)' <=> Spent(j)
    BY <2>1 DEF TypeOK, Spent, Goto
  <2>7. PICK d \in Docs : d.owner = af[t] /\ docs' = [docs EXCEPT ![sid[t]] = d]
    BY <2>1, <2>2 DEF Docs
  <2>8. /\ d # None /\ docs'[sid[t]] = d
        /\ \A j \in Ids \ {sid[t]} : docs'[j] = docs[j]
    BY <2>2, <2>7, NoneAssumption DEF TypeOK
  <2>9. [j \in Ids |-> Life(j)]' = [[j \in Ids |-> Life(j)] EXCEPT ![sid[t]] = "held"]
    <3>1. \A j \in Ids : Life(j)' = IF j = sid[t] THEN "held" ELSE Life(j)
      BY <2>2, <2>6, <2>7, <2>8 DEF Life
    <3> QED
      BY <2>2, <3>1
  <2>10. [j \in Ids |-> IF docs[j] = None THEN None ELSE docs[j].owner]'
             = [[j \in Ids |-> IF docs[j] = None THEN None ELSE docs[j].owner]
                    EXCEPT ![sid[t]] = af[t]]
    <3>1. \A j \in Ids : (IF docs[j] = None THEN None ELSE docs[j].owner)'
              = IF j = sid[t] THEN af[t]
                ELSE IF docs[j] = None THEN None ELSE docs[j].owner
      BY <2>7, <2>8
    <3> QED
      BY <2>2, <3>1
  <2>11. Registry!Begin(t)
    BY <2>1, <2>2, <2>3, <2>4, <2>5, <2>9, <2>10
       DEF Registry!Begin, Registry!request
  <2> QED
    BY <2>11 DEF Registry!Next
<1>15. ASSUME NEW t \in Tasks, InsertDuplicate(t)
     PROVE  [Registry!Next]_(Registry!vars)
  <2>1. PICK u \in Tasks : Past(u) /\ sid[u] = sid[t]
    BY <1>15 DEF InsertDuplicate, ControlInv, FinalInv, RecordPast
  <2>2. u = t
    BY <1>15, <2>1, NoneAssumption
       DEF InsertDuplicate, ControlInv, FinalInv, UniqueIds, Past
  <2> QED
    BY <1>15, <2>1, <2>2 DEF InsertDuplicate, Past
<1>16. ASSUME NEW t \in Tasks, ReinsertDuplicate(t)
     PROVE  [Registry!Next]_(Registry!vars)
  <2>1. PICK u \in Tasks : Past(u) /\ sid[u] = sid[t]
    BY <1>16 DEF ReinsertDuplicate, ControlInv, FinalInv, RecordPast
  <2>2. u = t
    BY <1>16, <2>1, NoneAssumption
       DEF ReinsertDuplicate, ControlInv, FinalInv, UniqueIds, Past
  <2> QED
    BY <1>16, <2>1, <2>2 DEF ReinsertDuplicate, Past
<1>17. ASSUME NEW t \in Tasks, QosCreated(t)
     PROVE  [Registry!Next]_(Registry!vars)
  <2>1. /\ pc[t] \in {"stored", "restored"} /\ Same
        /\ Answer(t, "created", hdrLoc')
    BY <1>17 DEF QosCreated, Same
  <2>2. op[t] = "create" /\ sid[t] \in Ids
    BY <2>1 DEF ControlInv
  <2>3. Outcome(t)' = "created"
    BY <2>1 DEF TypeOK, Outcome, Answer, Goto
  <2>4. Registry!True(t, "created")
    BY <2>1, <2>2 DEF Registry!True, Verb, Life, Spent
  <2>5. Registry!Answer(t)
    BY <2>1, <2>3, <2>4, Answered DEF Waiting
  <2> QED
    BY <2>5 DEF Registry!Next
<1>18. ASSUME NEW t \in Tasks, DeleteFound(t)
     PROVE  [Registry!Next]_(Registry!vars)
    BY <1>18, Stutter DEF DeleteFound, Goto, Same
<1>19. ASSUME NEW t \in Tasks, DeleteNotFound(t)
     PROVE  [Registry!Next]_(Registry!vars)
  <2>1. Registry!Answer(t)
    BY <1>19, AnsweredOther DEF DeleteNotFound, ControlInv, Deletes, Waiting, Same
  <2> QED
    BY <2>1 DEF Registry!Next
<1>20. ASSUME NEW t \in Tasks, SessionTerminated(t)
     PROVE  [Registry!Next]_(Registry!vars)
    BY <1>20, Stutter DEF SessionTerminated, Goto, Same
<1>21. ASSUME NEW t \in Tasks, SessionUnknown(t)
     PROVE  [Registry!Next]_(Registry!vars)
  <2>1. Registry!Answer(t)
    BY <1>21, AnsweredOther DEF SessionUnknown, ControlInv, Deletes, Waiting, Same
  <2> QED
    BY <2>1 DEF Registry!Next
<1>22. ASSUME NEW t \in Tasks, CountBefore(t)
     PROVE  [Registry!Next]_(Registry!vars)
    BY <1>22, Stutter DEF CountBefore, Goto, Same
<1>23. ASSUME NEW t \in Tasks, DeleteOne(t)
     PROVE  [Registry!Next]_(Registry!vars)
  <2>1. /\ pc[t] = "remove" /\ Goto(t, "recount")
        /\ docs' = IF Finds(t) THEN [docs EXCEPT ![sid[t]] = None] ELSE docs
        /\ UNCHANGED <<op, af, sid, reply>>
    BY <1>23 DEF DeleteOne
  <2>2. op[t] \in Deletes /\ sid[t] \in Ids
    BY <2>1 DEF ControlInv
  <2>3. CASE ~Finds(t)
    BY <2>1, <2>3, Stutter DEF Goto, Same
  <2>4. CASE Finds(t)
    <3>1. /\ docs[sid[t]] # None
          /\ op[t] = "qdelete" \/ docs[sid[t]].owner = af[t]
      BY <2>2, <2>4 DEF Finds, Deletes
    <3>2. Life(sid[t]) = "held" /\ af[t] \in {None, docs[sid[t]].owner}
      BY <3>1 DEF Life, RegInv
    <3>3. Registry!Pending(t) /\ Verb(op[t]) = "delete"
      BY <2>1, <2>2, NoneAssumption
         DEF Registry!Pending, Outcome, AllOps, Verb, Deletes
    <3>4. \A u \in Tasks : Outcome(u)' = Outcome(u)
      BY <2>1 DEF TypeOK, Outcome, Goto
    <3>5. \A j \in Ids : Spent(j)' <=> Spent(j)
      BY <2>1 DEF TypeOK, Spent, Goto
    <3>6. Spent(sid[t])
      BY <2>2, <3>1 DEF FinalInv, RecordPast, Past, Spent
    <3>7. docs' = [docs EXCEPT ![sid[t]] = None]
      BY <2>1, <2>4
    <3>8. [j \in Ids |-> Life(j)]' = [[j \in Ids |-> Life(j)] EXCEPT ![sid[t]] = "over"]
      BY <2>2, <3>5, <3>6, <3>7 DEF Life, TypeOK
    <3>9. [j \in Ids |-> IF docs[j] = None THEN None ELSE docs[j].owner]'
              = [[j \in Ids |-> IF docs[j] = None THEN None ELSE docs[j].owner]
                     EXCEPT ![sid[t]] = None]
      BY <2>2, <3>7 DEF TypeOK
    <3>10. Registry!End(t)
      BY <2>1, <2>2, <3>1, <3>2, <3>3, <3>4, <3>8, <3>9
         DEF Registry!End, Registry!request
    <3> QED
      BY <3>10 DEF Registry!Next
  <2> QED
    BY <2>3, <2>4
<1>24. ASSUME NEW t \in Tasks, CountAfter(t)
     PROVE  [Registry!Next]_(Registry!vars)
  <2>1. pc[t] = "recount" /\ Same
    BY <1>24 DEF CountAfter, Same
  <2>2. op[t] \in Deletes /\ sid[t] \in Ids
    BY <2>1 DEF ControlInv
  <2>3. CASE \E l \in Locations \cup {None} : Answer(t, "deleted", l)
    <3>1. Outcome(t)' = "deleted"
      BY <2>3 DEF TypeOK, Outcome, Answer, Goto
    <3>2. Removed(t) /\ Aimed(t)
      BY <2>1, <2>2 DEF Removed, Aimed
    <3>3. docs[sid[t]] = None /\ Spent(sid[t])
      BY <3>2 DEF FinalInv, RemovedGone, AimedPast, Past, Spent
    <3>4. Registry!True(t, "deleted")
      BY <2>2, <3>3 DEF Registry!True, Verb, Deletes, Life
    <3>5. Registry!Answer(t)
      BY <2>1, <2>3, <3>1, <3>4, Answered DEF Waiting
    <3> QED
      BY <3>5 DEF Registry!Next
  <2>4. CASE Answer(t, "failed_to_delete", None)
    <3>1. Registry!Answer(t)
      BY <2>1, <2>4, AnsweredOther DEF Waiting
    <3> QED
      BY <3>1 DEF Registry!Next
  <2> QED
    BY <1>24, <2>3, <2>4 DEF CountAfter, TypeOK
<1>25. ASSUME NEW t \in Tasks, ReadDone(t)
     PROVE  [Registry!Next]_(Registry!vars)
  <2>1. /\ pc[t] = "read" /\ Same /\ op[t] \in {"get", "list", "qget"}
        /\ sid[t] \in Ids
        /\ op[t] # "qget" => af[t] \in Afs
    BY <1>25 DEF ReadDone, Same, RegInv
  <2>2. CASE op[t] = "qget"
    <3>1. Answer(t, "ok", None)
      BY <1>25, <2>2 DEF ReadDone
    <3>2. Outcome(t)' = "other"
      BY <2>1, <2>2, <3>1 DEF TypeOK, Outcome, Answer, Goto, Same
    <3>3. Registry!True(t, "other")
      BY DEF Registry!True
    <3>4. Registry!Answer(t)
      BY <2>1, <3>1, <3>2, <3>3, Answered DEF Waiting
    <3> QED
      BY <3>4 DEF Registry!Next
  <2>3. CASE op[t] # "qget" /\ Answer(t, "ok", hdrLoc)
    <3>1. Outcome(t)' = "found"
      BY <2>1, <2>3 DEF TypeOK, Outcome, Answer, Goto, Same
    <3>2. /\ op[t] = "get" => docs[sid[t]] # None /\ docs[sid[t]].owner = af[t]
          /\ op[t] = "list" => \E i \in Ids : docs[i] # None /\ docs[i].owner = af[t]
      BY <1>25, <2>1, <2>3 DEF ReadDone, Finds, Stored, Answer, TypeOK
    <3>3. Registry!True(t, "found")
      <4>1. CASE op[t] = "get"
        BY <2>1, <3>2, <4>1 DEF Registry!True, Verb
      <4>2. CASE op[t] = "list"
        <5>1. PICK i \in Ids : docs[i] # None /\ docs[i].owner = af[t]
          BY <3>2, <4>2
        <5>2. [j \in Ids |-> IF docs[j] = None THEN None ELSE docs[j].owner][i] = af[t]
          BY <5>1
        <5> QED
          BY <4>2, <5>2 DEF Registry!True, Verb
      <4> QED
        BY <2>1, <2>3, <4>1, <4>2
    <3>4. Registry!Answer(t)
      BY <2>1, <2>3, <3>1, <3>3, Answered DEF Waiting
    <3> QED
      BY <3>4 DEF Registry!Next
  <2>4. CASE op[t] # "qget" /\ Answer(t, "not_found", None)
    <3>1. Outcome(t)' = "absent"
      BY <2>1, <2>4 DEF TypeOK, Outcome, Answer, Goto, Same
    <3>2. /\ op[t] = "get" => docs[sid[t]] = None \/ docs[sid[t]].owner # af[t]
          /\ op[t] = "list" => \A i \in Ids : docs[i] = None \/ docs[i].owner # af[t]
      BY <1>25, <2>1, <2>4 DEF ReadDone, Finds, Stored, Answer, TypeOK
    <3>3. Registry!True(t, "absent")
      <4>1. CASE op[t] = "get"
        <5>1. (IF docs[sid[t]] = None THEN None ELSE docs[sid[t]].owner) # af[t]
          <6>1. CASE docs[sid[t]] = None
            BY <2>1, <4>1, <6>1, NoneAssumption
          <6>2. CASE docs[sid[t]] # None
            BY <3>2, <4>1, <6>2
          <6> QED
            BY <6>1, <6>2
        <5> QED
          BY <2>1, <4>1, <5>1 DEF Registry!True, Verb
      <4>2. CASE op[t] = "list"
        <5>1. \A i \in Ids :
                  (IF docs[i] = None THEN None ELSE docs[i].owner) # af[t]
          <6>1. None # af[t]
            BY <2>1, <4>2, NoneAssumption
          <6> QED
            BY <3>2, <4>2, <6>1
        <5> QED
          BY <4>2, <5>1 DEF Registry!True, Verb
      <4> QED
        BY <2>1, <2>4, <4>1, <4>2
    <3>4. Registry!Answer(t)
      BY <2>1, <2>4, <3>1, <3>3, Answered DEF Waiting
    <3> QED
      BY <3>4 DEF Registry!Next
  <2> QED
    BY <1>25, <2>2, <2>3, <2>4 DEF ReadDone
<1>26. ASSUME NEW t \in Tasks, PcfCreate(t)
     PROVE  [Registry!Next]_(Registry!vars)
    BY <1>26, Untouched DEF PcfCreate, Same
<1>27. ASSUME NEW t \in Tasks, PcfDelete(t)
     PROVE  [Registry!Next]_(Registry!vars)
    BY <1>27, Untouched DEF PcfDelete, Same
<1>28. ASSUME NEW t \in Tasks, PcfReject(t)
     PROVE  [Registry!Next]_(Registry!vars)
    BY <1>28, Untouched DEF PcfReject, Same
<1>29. ASSUME NEW t \in Tasks, HttpTimeout(t)
     PROVE  [Registry!Next]_(Registry!vars)
  <2>1. Registry!Answer(t)
    BY <1>29, AnsweredOther DEF HttpTimeout, ControlInv, Deletes, Waiting, Same
  <2> QED
    BY <2>1 DEF Registry!Next
<1>30. ASSUME NEW t \in Tasks, DbFault(t)
     PROVE  [Registry!Next]_(Registry!vars)
  <2>1. Registry!Answer(t)
    BY <1>30, AnsweredOther DEF DbFault, ControlInv, Deletes, Waiting, Same
  <2> QED
    BY <2>1 DEF Registry!Next
<1>31. CASE Wipe
  <2>1. /\ docs' = [i \in Ids |-> None] /\ wiping
        /\ UNCHANGED <<pc, op, af, sid, reply>>
    BY <1>31 DEF Wipe
  <2>2. \E t \in Tasks : Verb(op[t]) = "clean"
    BY <2>1 DEF RegInv, Verb
  <2>3. \A i \in Ids : docs[i] # None => Spent(i)
    BY DEF FinalInv, RecordPast, Past, Spent
  <2>4. \A i \in Ids : Spent(i)' <=> Spent(i)
    BY <2>1 DEF Spent
  <2>5. \A i \in Ids : Life(i)' = IF Life(i) = "held" THEN "over" ELSE Life(i)
    BY <2>1, <2>3, <2>4 DEF Life
  <2>6. \A t \in Tasks : Outcome(t)' = Outcome(t)
    BY <2>1 DEF Outcome
  <2>7. Registry!EndAll
    BY <2>1, <2>2, <2>5, <2>6 DEF Registry!EndAll, Registry!request
  <2> QED
    BY <2>7 DEF Registry!Next
<1>32. CASE Crash
  <2>1. /\ pc' = [t \in Tasks |-> IF pc[t] \in Waiting THEN "dead" ELSE pc[t]]
        /\ UNCHANGED <<op, af, sid, docs, reply>>
    BY <1>32 DEF Crash, Die
  <2>2. \A t \in Tasks : Registry!Pending(t) <=> pc[t] \in Waiting
    BY NoneAssumption
       DEF Registry!Pending, RegInv, TypeOK, Outcome, Verb, Waiting, AllOps
  <2>3. \A t \in Tasks :
            Outcome(t)' = IF Registry!Pending(t) THEN "lost" ELSE Outcome(t)
    BY <2>1, <2>2 DEF TypeOK, Outcome, Waiting
  <2>4. \A i \in Ids : Spent(i)' <=>
            \/ Spent(i)
            \/ \E t \in {u \in Tasks : Registry!Pending(u)} :
                   op[t] = "create" /\ sid[t] = i
    BY <2>1, <2>2 DEF TypeOK, Spent, Waiting
  <2>5. \A t \in Tasks : Verb(op[t]) = "create" <=> op[t] = "create"
    BY NoneAssumption DEF TypeOK, Verb, AllOps
  <2>6. \A i \in Ids : Life(i)' =
            IF /\ Life(i) = "free"
               /\ \E t \in {u \in Tasks : Registry!Pending(u)} :
                      op[t] = "create" /\ sid[t] = i
            THEN "over" ELSE Life(i)
    BY <2>1, <2>4 DEF Life
  <2>7. Registry!Abandon({u \in Tasks : Registry!Pending(u)})
    BY <2>5, <2>6 DEF Registry!Abandon
  <2>8. Registry!Lose
    BY <2>1, <2>3, <2>7 DEF Registry!Lose, Registry!request
  <2> QED
    BY <2>8 DEF Registry!Next
<1>33. CASE UNCHANGED vars
    BY <1>33, Untouched DEF Same
<1> QED
    BY <1>1, <1>2, <1>3, <1>4, <1>5, <1>6, <1>7, <1>8, <1>9, <1>10,
       <1>11, <1>12, <1>13, <1>14, <1>15, <1>16, <1>17, <1>18, <1>19, <1>20,
       <1>21, <1>22, <1>23, <1>24, <1>25, <1>26, <1>27, <1>28, <1>29, <1>30,
       <1>31, <1>32, <1>33
       DEF Next, Client, Handler, Pcf, Failure

LEMMA RegistryInit == Init => Registry!Init
    BY NoneAssumption DEF Init, Registry!Init, Verb, Outcome, Life, Spent, AllOps

\* The handlers implement the registry of subscriptions: the theorem of
\* ImplementsRegistry, for ids that are not drawn again.
THEOREM RegistryImplemented == ~UuidRepeat => (Spec => ImplementsRegistry)
<1> SUFFICES ASSUME ~UuidRepeat PROVE Spec => ImplementsRegistry
    OBVIOUS
<1>1. Init => Registry!Init /\ RegInv
    BY RegInit, RegistryInit
<1>2. IInv /\ RegInv /\ [Next]_vars => RegInv'
    BY RegStep DEF IInv
<1>3. IInv /\ RegInv /\ [Next]_vars => [Registry!Next]_(Registry!vars)
    BY RegistryStep DEF IInv
<1> QED
    BY <1>1, <1>2, <1>3, Invariance, PTL
       DEF Spec, ImplementsRegistry, Registry!Spec

=============================================================================
