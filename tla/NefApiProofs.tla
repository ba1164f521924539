----------------------------- MODULE NefApiProofs -----------------------------
(***************************************************************************)
(* The properties of Nef as theorems: the AsSessionWithQoS and the traffic *)
(* influence API keep what they promise at one PCF, with one /clean, one   *)
(* crash and one dictionary of headers, beside the monitoring API, for any *)
(* number of requests to each.                                             *)
(*                                                                         *)
(* Neither API's own theorems apply as they stand: the other one opens and *)
(* ends sessions at the PCF between any two of its steps.  But a session   *)
(* of one is nothing to the other.  Each API is given a view of the PCF in *)
(* which the sessions of the other are not open (QosSess, TiSess); a step  *)
(* of one API is a step of its specification on its view, and changes      *)
(* nothing in the other's view.  What is left to the other API is then the *)
(* header, the /clean flag and calm, on which its invariants hardly depend.*)
(***************************************************************************)
EXTENDS Nef, TLAPS

\* The sessions as each API sees them: the notification URI of a session of the
\* QoS API ends in the id of its subscription, and only this API sets cb.
QosSess == [s \in {HostPcf} \X Ctxs |-> IF cb[s] = None THEN "none" ELSE sess[s]]
TiSess  == [s \in {HostPcf} \X Ctxs |-> IF cb[s] = None THEN sess[s] ELSE "none"]

QP == INSTANCE QosCalmProofs WITH
         Tasks <- QosTasks, Ids <- QosIds, Pcfs <- {HostPcf},
         Locations <- AllLocations,
         BsfKnown <- FALSE, UuidRepeat <- FALSE,
         Ops <- {"create", "delete", "qdelete"},
         sess <- QosSess
TP == INSTANCE TrafficInfluenceCalmProofs WITH
         Tasks <- TiTasks, Ids <- TiIds, Pcfs <- {HostPcf}, Bodies <- TiBodies,
         Locations <- AllLocations,
         BsfKnown <- FALSE, UuidRepeat <- FALSE,
         Ops <- {"create", "delete", "tidelete"},
         req <- tiReq, docs <- tiDocs, wiping <- tiWiping,
         sess <- TiSess

\* What each specification assumes of its constants holds of what Nef gives it.
LEMMA QosAssumed ==
    /\ QP!HostAssumption /\ QP!FlagAssumption /\ QP!OpsAssumption
    /\ QP!IdsAssumption /\ QP!NoneAssumption
<1>1. QP!HostAssumption
    BY DEF QP!HostAssumption
<1>2. QP!FlagAssumption
    BY DEF QP!FlagAssumption
<1>3. QP!OpsAssumption
    BY QosAssumption DEF QP!OpsAssumption, QP!AllOps, QP!AllFaults,
                         Q!OpsAssumption, Q!AllOps, Q!AllFaults
<1>4. QP!IdsAssumption
    BY QosAssumption, Zenon DEF QP!IdsAssumption, QP!IsFiniteSet,
                                Q!IdsAssumption, Q!IsFiniteSet
<1>5. QP!NoneAssumption
    BY QosAssumption DEF QP!NoneAssumption, QP!Sessions, QP!Docs, QP!AllOps,
                         Q!NoneAssumption, Q!Sessions, Q!Docs, Q!AllOps
<1> QED
    BY <1>1, <1>2, <1>3, <1>4, <1>5

LEMMA TiAssumed ==
    /\ TP!HostAssumption /\ TP!FlagAssumption /\ TP!OpsAssumption
    /\ TP!BodyAssumption /\ TP!IdsAssumption /\ TP!NoneAssumption
<1>1. TP!HostAssumption
    BY TiAssumption DEF TP!HostAssumption, T!HostAssumption
<1>2. TP!FlagAssumption
    BY DEF TP!FlagAssumption
<1>3. TP!OpsAssumption
    BY TiAssumption DEF TP!OpsAssumption, TP!AllOps, TP!AllFaults,
                        T!OpsAssumption, T!AllOps, T!AllFaults
<1>4. TP!BodyAssumption
    BY TiAssumption DEF TP!BodyAssumption, TP!AllBodies, TP!Fields, TP!Filters,
                        TP!Targets, T!BodyAssumption, T!AllBodies, T!Fields,
                        T!Filters, T!Targets
<1>5. TP!IdsAssumption
    BY TiAssumption, Zenon DEF TP!IdsAssumption, TP!IsFiniteSet,
                               T!IdsAssumption, T!IsFiniteSet
<1>6. TP!NoneAssumption
    BY TiAssumption DEF TP!NoneAssumption, TP!Resources, TP!Sessions, TP!Influence,
                        TP!Docs, TP!AllOps, TP!Answers,
                        T!NoneAssumption, T!Resources, T!Sessions, T!Influence,
                        T!Docs, T!AllOps, T!Answers
<1> QED
    BY <1>1, <1>2, <1>3, <1>4, <1>5, <1>6


-----------------------------------------------------------------------------
(* A step of one API, as that API sees it.                                 *)

\* A session nobody touches looks as before to both.
LEMMA ViewsStay == UNCHANGED <<sess, cb>> => UNCHANGED <<QosSess, TiSess>>
BY DEF QosSess, TiSess

USE DEF Q!request, Q!locals, Q!pcf, Q!shared, QP!request, QP!locals, QP!pcf,
        QP!shared, Q!Accept, QP!Accept, Q!Answer, QP!Answer, Q!Goto, QP!Goto,
        Q!Draw, QP!Draw, Q!Finds, QP!Finds

\* Nef's instance and the one the lemmas are about count and act alike.
LEMMA QosCount == Q!Cardinality(Q!Stored) = QP!Cardinality(QP!Stored)
BY DEF Q!Cardinality, QP!Cardinality, Q!Stored, QP!Stored

LEMMA QosSame ==
    ASSUME NEW t \in QosTasks,
           Q!Client(t) \/ Q!Handler(t) \/ Q!PcfReject(t) \/ Q!Failure(t)
    PROVE  /\ QP!Client(t) \/ QP!Handler(t) \/ QP!PcfReject(t) \/ QP!Failure(t)
           /\ UNCHANGED <<sess, cb>>
<1>1. ASSUME Q!QosCreateInvalid(t) \/ Q!QosCreate(t) \/ Q!QosDelete(t)
              \/ Q!QosRead(t) \/ Q!QosUpdate(t) \/ Q!Clean(t)
      PROVE  QP!Client(t) /\ UNCHANGED <<sess, cb>>
    BY <1>1, ViewsStay, QosCount
       DEF QP!Client, Q!QosCreateInvalid, QP!QosCreateInvalid, Q!QosCreate,
           QP!QosCreate, Q!QosDelete, QP!QosDelete, Q!QosRead, QP!QosRead,
           Q!QosUpdate, QP!QosUpdate, Q!Clean, QP!Clean
<1>2. ASSUME Q!BsfFound(t) \/ Q!BsfNone(t) \/ Q!IdTaken(t) \/ Q!IdFree(t)
              \/ Q!Unbuildable(t) \/ Q!SessionOpened(t)
      PROVE  QP!Handler(t) /\ UNCHANGED <<sess, cb>>
    BY <1>2, ViewsStay, QosCount
       DEF QP!Handler, Q!BsfFound, QP!BsfFound, Q!BsfNone, QP!BsfNone, Q!IdTaken,
           QP!IdTaken, Q!IdFree, QP!IdFree, Q!Unbuildable, QP!Unbuildable,
           Q!SessionOpened, QP!SessionOpened
<1>3. ASSUME Q!SessionRefused(t) \/ Q!InsertOne(t) \/ Q!InsertDuplicate(t)
              \/ Q!ReinsertDuplicate(t) \/ Q!QosCreated(t) \/ Q!DeleteFound(t)
      PROVE  QP!Handler(t) /\ UNCHANGED <<sess, cb>>
    BY <1>3, ViewsStay, QosCount
       DEF QP!Handler, Q!SessionRefused, QP!SessionRefused, Q!InsertOne,
           QP!InsertOne, Q!InsertDuplicate, QP!InsertDuplicate,
           Q!ReinsertDuplicate, QP!ReinsertDuplicate, Q!QosCreated,
           QP!QosCreated, Q!DeleteFound, QP!DeleteFound
<1>4. ASSUME Q!DeleteNotFound(t) \/ Q!SessionTerminated(t)
              \/ Q!SessionUnknown(t) \/ Q!CountBefore(t) \/ Q!DeleteOne(t)
              \/ Q!CountAfter(t)
      PROVE  QP!Handler(t) /\ UNCHANGED <<sess, cb>>
    BY <1>4, ViewsStay, QosCount
       DEF QP!Handler, Q!DeleteNotFound, QP!DeleteNotFound, Q!SessionTerminated,
           QP!SessionTerminated, Q!SessionUnknown, QP!SessionUnknown,
           Q!CountBefore, QP!CountBefore, Q!DeleteOne, QP!DeleteOne,
           Q!CountAfter, QP!CountAfter
<1>5. ASSUME Q!ReadDone(t)
      PROVE  QP!Handler(t) /\ UNCHANGED <<sess, cb>>
    BY <1>5, ViewsStay, QosCount
       DEF QP!Handler, Q!ReadDone, QP!ReadDone, Q!Stored, QP!Stored
<1>6. ASSUME Q!HttpTimeout(t) \/ Q!DbFault(t)
      PROVE  QP!Failure(t) /\ UNCHANGED <<sess, cb>>
    BY <1>6, ViewsStay, QosCount
       DEF QP!Failure, Q!HttpTimeout, QP!HttpTimeout, Q!DbFault, QP!DbFault
<1>7. ASSUME Q!PcfReject(t) PROVE QP!PcfReject(t) /\ UNCHANGED <<sess, cb>>
    BY <1>7, ViewsStay DEF Q!PcfReject, QP!PcfReject
<1> QED
    BY <1>1, <1>2, <1>3, <1>4, <1>5, <1>6, <1>7 DEF Q!Client, Q!Handler, Q!Failure

\* What the PCF of both APIs holds.
Owned ==
    /\ sess \in [Q!Sessions -> {"none", "live", "ended"}]
    /\ \A s \in Q!Sessions : cb[s] # None => sess[s] # "none"

QosInv == QP!IInv /\ QP!AddressedInv /\ QP!CalmInv

\* The PCF opens a session for one of its creates.
LEMMA QosOpens ==
    ASSUME QosInv, Owned, NEW t \in QosTasks, Q!PcfCreate(t)
    PROVE  QP!PcfCreate(t) /\ UNCHANGED TiSess /\ Owned'
<1>1. sid[t] \in QosIds /\ host[t] = HostPcf /\ None \notin QosIds
    BY QosAssumption
       DEF QosInv, QP!IInv, QP!ControlInv, Q!PcfCreate, Q!NoneAssumption
<1>2. PICK c \in Ctxs :
        /\ sess[<<HostPcf, c>>] = "none"
        /\ sess' = [sess EXCEPT ![<<HostPcf, c>>] = "live"]
        /\ cb' = [cb EXCEPT ![<<HostPcf, c>>] = sid[t]]
        /\ loc' = [loc EXCEPT ![t] = <<HostPcf, c>>]
    BY <1>1 DEF Q!PcfCreate
<1>3. /\ <<HostPcf, c>> \in Q!Sessions /\ cb[<<HostPcf, c>>] = None
      /\ cb \in [Q!Sessions -> QosIds \cup {None}]
    BY <1>2 DEF Owned, Q!Sessions, QosInv, QP!IInv, QP!TypeOK, QP!Sessions
<1>4. QosSess' = [QosSess EXCEPT ![<<HostPcf, c>>] = "live"]
    BY <1>1, <1>2, <1>3 DEF QosSess, Owned, Q!Sessions
<1>5. UNCHANGED TiSess
    BY <1>1, <1>2, <1>3 DEF TiSess, Owned, Q!Sessions
<1>6. Owned'
    BY <1>1, <1>2, <1>3 DEF Owned
<1>7. QosSess[<<HostPcf, c>>] = "none"
    BY <1>2, <1>3 DEF QosSess, Q!Sessions
<1> QED
    BY <1>1, <1>2, <1>4, <1>5, <1>6, <1>7 DEF Q!PcfCreate, QP!PcfCreate

\* The PCF is asked to terminate a session by one of its deletions: it is one
\* this API opened.
LEMMA QosTerminates ==
    ASSUME QosInv, Owned, NEW t \in QosTasks, Q!PcfDelete(t)
    PROVE  QP!PcfDelete(t) /\ UNCHANGED TiSess /\ Owned'
<1>1. /\ op[t] \in QP!Deletes /\ call[t] = "sent"
      /\ loc[t] \in Q!Sessions
    BY DEF Q!PcfDelete, QosInv, QP!IInv, QP!ControlInv, QP!Deletes, Q!Sessions,
           QP!Sessions
<1>2. Q!Target(t) = loc[t] /\ QP!Target(t) = loc[t]
    BY <1>1 DEF Q!Target, QP!Target, Q!Sessions
<1>3. QosSess[loc[t]] # "none"
    BY <1>1 DEF QosInv, QP!AddressedInv
<1>4. cb[loc[t]] # None /\ QosSess[loc[t]] = sess[loc[t]]
    BY <1>1, <1>3 DEF QosSess, Q!Sessions
<1>5. CASE sess[loc[t]] = "live"
  <2>1. sess' = [sess EXCEPT ![loc[t]] = "ended"] /\ UNCHANGED cb
      BY <1>2, <1>5 DEF Q!PcfDelete
  <2>2. QosSess' = [QosSess EXCEPT ![loc[t]] = "ended"]
      BY <1>1, <1>4, <2>1 DEF QosSess, Owned, Q!Sessions
  <2>3. UNCHANGED TiSess /\ Owned'
      BY <1>1, <1>4, <2>1 DEF TiSess, Owned, Q!Sessions
  <2> QED
      BY <1>2, <1>4, <1>5, <2>2, <2>3 DEF Q!PcfDelete, QP!PcfDelete
<1>6. CASE sess[loc[t]] # "live"
  <2>1. UNCHANGED <<sess, cb>>
      BY <1>2, <1>6 DEF Q!PcfDelete
  <2> QED
      BY <1>2, <1>4, <1>6, <2>1, ViewsStay DEF Q!PcfDelete, QP!PcfDelete, Owned
<1> QED
    BY <1>5, <1>6

\* A step of a QoS request is a step of the API on the sessions it sees, and
\* changes none the other API sees.
LEMMA QosSeen ==
    ASSUME QosInv, Owned, NEW t \in QosTasks,
           Q!Client(t) \/ Q!Handler(t) \/ Q!Pcf(t) \/ Q!Failure(t)
    PROVE  QP!Next /\ UNCHANGED TiSess /\ Owned'
<1>1. CASE Q!Client(t) \/ Q!Handler(t) \/ Q!PcfReject(t) \/ Q!Failure(t)
    BY <1>1, QosSame, ViewsStay DEF Owned, QP!Next, QP!Pcf
<1>2. CASE Q!PcfCreate(t)
    BY <1>2, QosOpens DEF QP!Next, QP!Pcf
<1>3. CASE Q!PcfDelete(t)
    BY <1>3, QosTerminates DEF QP!Next, QP!Pcf
<1> QED
    BY <1>1, <1>2, <1>3 DEF Q!Pcf

\* Such a step keeps the invariants of the API.
LEMMA QosNext ==
    ASSUME QosInv, [QP!Next]_QP!vars
    PROVE  QosInv'
BY QosAssumed, QP!IInvStep, QP!CalmNextStep DEF QosInv

\* What the rest of the NEF does to the state of this API.
QosRest ==
    /\ UNCHANGED <<pc, op, af, sid, host, loc, cnt, call, reply, docs, cb, QosSess>>
    /\ hdrLoc' \in AllLocations \cup {None}
    /\ wiping' \in BOOLEAN /\ calm' \in BOOLEAN
    /\ calm' => calm /\ (wiping' => wiping)

\* None of its invariants depends on more than its own handlers, its records and
\* its sessions, but for calm, which nobody sets again.
LEMMA QosRests ==
    ASSUME QosInv, QosRest
    PROVE  QosInv'
<1>1. QP!TypeOK'
    BY DEF QosInv, QP!IInv, QP!TypeOK, QosRest, QP!Docs, QP!Replies, QP!Sessions
<1>2. QP!ControlInv' /\ QP!HolderInv' /\ QP!EndedInv' /\ QP!AddressedInv'
    BY DEF QosInv, QP!IInv, QosRest, QP!ControlInv, QP!HolderInv, QP!EndedInv,
           QP!AddressedInv, QP!Got, QP!Target
<1>3. QP!FinalInv'
    BY DEF QosInv, QP!IInv, QosRest, QP!FinalInv, QP!UniqueIds, QP!RecordPast,
           QP!AimedPast, QP!AimedOwn, QP!RemovedGone, QP!Past, QP!Aimed,
           QP!Removed
<1>4. QP!CallbackInv'
    BY DEF QosInv, QP!IInv, QosRest, QP!CallbackInv, QP!Got
<1>5. ASSUME calm' PROVE QP!CalmInv'
  <2>1. QP!CalmFacts /\ (wiping' => wiping)
    BY <1>5 DEF QosInv, QP!CalmInv, QosRest
  <2>2. QP!CalmFacts'
    BY <2>1 DEF QosRest, QP!CalmFacts, QP!Steady, QP!Known, QP!LiveKept,
           QP!DeadLeft, QP!Storing, QP!Removing
  <2> QED
    BY <2>2 DEF QP!CalmInv
<1>6. ASSUME ~calm' PROVE QP!CalmInv'
    BY <1>6, Zenon DEF QP!CalmInv
<1> QED
    BY <1>1, <1>2, <1>3, <1>4, <1>5, <1>6 DEF QosInv, QP!IInv

-----------------------------------------------------------------------------
(* The same for the other API.  Its own steps leave cb alone.              *)

HIDE DEF Q!request, Q!locals, Q!pcf, Q!shared, QP!request, QP!locals, QP!pcf,
         QP!shared, Q!Accept, QP!Accept, Q!Answer, QP!Answer, Q!Goto, QP!Goto,
         Q!Draw, QP!Draw, Q!Finds, QP!Finds

USE DEF T!core, T!shared, TP!core, TP!shared, T!At, TP!At, T!Accept, TP!Accept,
        T!Answer, TP!Answer, T!Goto, TP!Goto, T!Draw, TP!Draw, T!Finds, TP!Finds,
        T!NoRequest, TP!NoRequest

LEMMA TiCount == T!Cardinality(T!Stored) = TP!Cardinality(TP!Stored)
BY DEF T!Cardinality, TP!Cardinality, T!Stored, TP!Stored

\* Both read a body alike.
LEMMA TiReads ==
    ASSUME NEW b
    PROVE  /\ T!Valid(b) <=> TP!Valid(b)
           /\ T!ForUdr(b) <=> TP!ForUdr(b)
           /\ T!Translates(b) <=> TP!Translates(b)
           /\ T!Iterates(b) <=> TP!Iterates(b)
BY DEF T!Valid, TP!Valid, T!ForUdr, TP!ForUdr, T!Translates, TP!Translates,
       T!Iterates, TP!Iterates, T!OddlyMany, TP!OddlyMany, T!Cardinality,
       TP!Cardinality, T!Filters, TP!Filters, T!Targets, TP!Targets

LEMMA TiSame ==
    ASSUME NEW t \in TiTasks, UNCHANGED cb,
           \/ T!Client(t) \/ T!Handler(t) \/ T!UdrPut(t) \/ T!CoreReject(t)
           \/ T!Failure(t)
    PROVE  /\ \/ TP!Client(t) \/ TP!Handler(t) \/ TP!UdrPut(t)
              \/ TP!CoreReject(t) \/ TP!Failure(t)
           /\ UNCHANGED <<sess, cb>>
<1>1. ASSUME T!TiCreateInvalid(t) \/ T!TiDelete(t) \/ T!TiRead(t)
              \/ T!TiGetNoQuery(t) \/ T!TiUpdate(t) \/ T!Clean(t)
      PROVE  TP!Client(t) /\ UNCHANGED <<sess, cb>>
    BY <1>1, ViewsStay
       DEF TP!Client, T!TiCreateInvalid, TP!TiCreateInvalid, T!TiDelete,
           TP!TiDelete, T!TiRead, TP!TiRead, T!TiGetNoQuery, TP!TiGetNoQuery,
           T!TiUpdate, TP!TiUpdate, T!Clean, TP!Clean
<1>2. ASSUME T!TiCreate(t) PROVE TP!TiCreate(t) /\ UNCHANGED <<sess, cb>>
  <2>1. PICK a \in Afs, b \in TiBodies : T!TiCreate(t)!(a, b)
    BY <1>2 DEF T!TiCreate
  <2>2. T!TiCreate(t)!(a, b) => TP!TiCreate(t)!(a, b)
    BY ViewsStay, TiReads, Zenon
  <2> QED
    BY <2>1, <2>2 DEF TP!TiCreate
<1>3. ASSUME T!Translated(t) \/ T!BsfFound(t) \/ T!BsfNone(t) \/ T!IdTaken(t)
              \/ T!IdFree(t) \/ T!Unbuildable(t)
      PROVE  TP!Handler(t) /\ UNCHANGED <<sess, cb>>
    BY <1>3, ViewsStay, TiCount, TiReads
       DEF TP!Handler, T!Translated, TP!Translated, T!BsfFound, TP!BsfFound,
           T!BsfNone, TP!BsfNone, T!IdTaken, TP!IdTaken, T!IdFree, TP!IdFree,
           T!Unbuildable, TP!Unbuildable
<1>4. ASSUME T!ResourceOpened(t) \/ T!ResourceRefused(t) \/ T!InsertOne(t)
              \/ T!InsertDuplicate(t) \/ T!ReinsertDuplicate(t) \/ T!TiCreated(t)
      PROVE  TP!Handler(t) /\ UNCHANGED <<sess, cb>>
    BY <1>4, ViewsStay, TiCount, TiReads
       DEF TP!Handler, T!ResourceOpened, TP!ResourceOpened, T!ResourceRefused,
           TP!ResourceRefused, T!InsertOne, TP!InsertOne, T!InsertDuplicate,
           TP!InsertDuplicate, T!ReinsertDuplicate, TP!ReinsertDuplicate,
           T!TiCreated, TP!TiCreated
<1>5. ASSUME T!DeleteFound(t) \/ T!DeleteNotFound(t) \/ T!Terminated(t)
              \/ T!CountBefore(t) \/ T!DeleteOne(t) \/ T!CountAfter(t)
      PROVE  TP!Handler(t) /\ UNCHANGED <<sess, cb>>
    BY <1>5, ViewsStay, TiCount, TiReads
       DEF TP!Handler, T!DeleteFound, TP!DeleteFound, T!DeleteNotFound,
           TP!DeleteNotFound, T!Terminated, TP!Terminated, T!CountBefore,
           TP!CountBefore, T!DeleteOne, TP!DeleteOne, T!CountAfter,
           TP!CountAfter, T!NotCounted, TP!NotCounted
<1>6. ASSUME T!ReadDone(t)
      PROVE  TP!Handler(t) /\ UNCHANGED <<sess, cb>>
    BY <1>6, ViewsStay, TiCount, TiReads
       DEF TP!Handler, T!ReadDone, TP!ReadDone, T!Stored, TP!Stored
<1>7. ASSUME T!HttpTimeout(t) \/ T!DbFault(t)
      PROVE  TP!Failure(t) /\ UNCHANGED <<sess, cb>>
    BY <1>7, ViewsStay, TiCount, TiReads
       DEF TP!Failure, T!HttpTimeout, TP!HttpTimeout, T!DbFault, TP!DbFault,
           T!NotCounted, TP!NotCounted
<1>8. ASSUME T!UdrPut(t) PROVE TP!UdrPut(t) /\ UNCHANGED <<sess, cb>>
    BY <1>8, ViewsStay DEF T!UdrPut, TP!UdrPut
<1>9. ASSUME T!CoreReject(t) PROVE TP!CoreReject(t) /\ UNCHANGED <<sess, cb>>
    BY <1>9, ViewsStay DEF T!CoreReject, TP!CoreReject
<1> QED
    BY <1>1, <1>2, <1>3, <1>4, <1>5, <1>6, <1>7, <1>8, <1>9
       DEF TP!Client, T!Client, T!Handler, T!Failure

TiInv == TP!IInv /\ TP!OpenedInv /\ TP!CalmInv

\* A session of a create of this API carries no callback of the other one.
LEMMA TiOpens ==
    ASSUME QosInv, TiInv, Owned, UNCHANGED cb, NEW t \in TiTasks, T!PcfCreate(t)
    PROVE  TP!PcfCreate(t) /\ UNCHANGED QosSess /\ Owned'
<1>1. tiReq[t].host = HostPcf
    BY DEF TiInv, TP!IInv, TP!ControlInv, TP!Control, T!PcfCreate
<1>2. PICK c \in Ctxs :
        /\ sess[<<HostPcf, c>>] = "none"
        /\ sess' = [sess EXCEPT ![<<HostPcf, c>>] = "live"]
        /\ tiReq' = [tiReq EXCEPT ![t].call = "ok", ![t].loc = <<HostPcf, c>>]
    BY <1>1 DEF T!PcfCreate
<1>3. <<HostPcf, c>> \in Q!Sessions /\ cb[<<HostPcf, c>>] = None
    BY <1>2 DEF Owned, Q!Sessions
<1>4. TiSess' = [TiSess EXCEPT ![<<HostPcf, c>>] = "live"]
    BY <1>2, <1>3 DEF TiSess, Owned, Q!Sessions
<1>5. UNCHANGED QosSess
    BY <1>2, <1>3 DEF QosSess, Owned, Q!Sessions
<1>6. Owned'
    BY <1>2, <1>3 DEF Owned
<1>7. TiSess[<<HostPcf, c>>] = "none"
    BY <1>2, <1>3 DEF TiSess, Q!Sessions
<1> QED
    BY <1>1, <1>2, <1>4, <1>5, <1>6, <1>7 DEF T!PcfCreate, TP!PcfCreate

\* A resource a deletion of this API addresses is one of its own.
LEMMA TiAddresses ==
    ASSUME TiInv, Owned, NEW t \in TiTasks, TP!Addressed(t)
    PROVE  /\ tiReq[t].loc \in T!Resources
           /\ tiReq[t].loc \in Q!Sessions =>
                  /\ cb[tiReq[t].loc] = None
                  /\ TiSess[tiReq[t].loc] = sess[tiReq[t].loc]
<1>1. TP!TypeOK /\ TP!ControlInv /\ TP!HolderInv
    BY DEF TiInv, TP!IInv
<1>2. /\ tiReq[t].loc \in TP!Resources
      /\ TP!ResourceStatus(tiReq[t].loc) # "none"
    BY <1>1, TiAssumed, TP!AddressedFacts DEF TiInv
<1> QED
    BY <1>2 DEF TP!ResourceStatus, TP!Resources, TP!Sessions, TP!Influence,
                T!Resources, T!Sessions, T!Influence, Q!Sessions, TiSess

\* A step that ends a session of this API.
LEMMA TiEnds ==
    ASSUME Owned, UNCHANGED cb, NEW s \in Q!Sessions, cb[s] = None,
           sess[s] = "live", sess' = [sess EXCEPT ![s] = "ended"]
    PROVE  /\ TiSess' = [TiSess EXCEPT ![s] = "ended"]
           /\ UNCHANGED QosSess /\ Owned'
<1>1. TiSess' = [TiSess EXCEPT ![s] = "ended"]
    BY DEF TiSess, Owned, Q!Sessions
<1>2. UNCHANGED QosSess
    BY DEF QosSess, Owned, Q!Sessions
<1>3. Owned'
    BY DEF Owned
<1> QED
    BY <1>1, <1>2, <1>3

\* /tidelete addresses the PCF also for influence data, whose id names none of
\* its sessions, neither API's.
LEMMA TiTerminates ==
    ASSUME TiInv, Owned, UNCHANGED cb, NEW t \in TiTasks, T!PcfDelete(t)
    PROVE  TP!PcfDelete(t) /\ UNCHANGED QosSess /\ Owned'
<1> DEFINE s == <<HostPcf, tiReq[t].loc[2]>>
<1>1. TP!Addressed(t)
    BY DEF T!PcfDelete, TP!Addressed, TP!Deletes
<1>2. s \in Q!Sessions => s = tiReq[t].loc
    BY <1>1, TiAddresses, TiAssumption
       DEF Q!Sessions, T!Resources, T!Sessions, T!Influence, T!IdsAssumption
<1>3. s \in Q!Sessions <=> s \in T!Sessions
    BY DEF Q!Sessions, T!Sessions
<1>4. s \in Q!Sessions <=> s \in TP!Sessions
    BY DEF Q!Sessions, TP!Sessions
<1>5. CASE s \in Q!Sessions /\ sess[s] = "live"
  <2>1. /\ sess' = [sess EXCEPT ![s] = "ended"]
        /\ tiReq' = [tiReq EXCEPT ![t].call = "ok"]
      BY <1>3, <1>5 DEF T!PcfDelete
  <2>2. cb[s] = None /\ TiSess[s] = "live"
      BY <1>1, <1>2, <1>5, TiAddresses
  <2>3. TiSess' = [TiSess EXCEPT ![s] = "ended"] /\ UNCHANGED QosSess /\ Owned'
      BY <1>5, <2>1, <2>2, TiEnds
  <2> QED
      BY <1>4, <1>5, <2>1, <2>2, <2>3 DEF T!PcfDelete, TP!PcfDelete
<1>6. CASE ~(s \in Q!Sessions /\ sess[s] = "live")
  <2>1. UNCHANGED sess /\ tiReq' = [tiReq EXCEPT ![t].call = "refused"]
      BY <1>3, <1>6 DEF T!PcfDelete
  <2>2. ~(s \in TP!Sessions /\ TiSess[s] = "live")
      BY <1>1, <1>2, <1>4, <1>6, TiAddresses
  <2> QED
      BY <2>1, <2>2, ViewsStay DEF T!PcfDelete, TP!PcfDelete, Owned
<1> QED
    BY <1>5, <1>6

\* DELETE, where the core function takes it.
LEMMA TiCoreDeletes ==
    ASSUME TiInv, Owned, UNCHANGED cb, NEW t \in TiTasks, T!CoreDelete(t)
    PROVE  TP!CoreDelete(t) /\ UNCHANGED QosSess /\ Owned'
<1> DEFINE r == tiReq[t].loc
<1>1. TP!Addressed(t)
    BY DEF T!CoreDelete, TP!Addressed, TP!Deletes
<1>2. /\ r \in Q!Sessions <=> r \in T!Sessions
      /\ r \in Q!Sessions <=> r \in TP!Sessions
    BY DEF Q!Sessions, T!Sessions, TP!Sessions
<1>3. CASE r \in Q!Sessions
  <2>1. /\ sess[r] = "live" /\ sess' = [sess EXCEPT ![r] = "ended"]
        /\ UNCHANGED infl
      BY <1>2, <1>3 DEF T!CoreDelete, T!ResourceStatus
  <2>2. cb[r] = None /\ TiSess[r] = "live"
      BY <1>1, <1>3, <2>1, TiAddresses
  <2>3. TiSess' = [TiSess EXCEPT ![r] = "ended"] /\ UNCHANGED QosSess /\ Owned'
      BY <1>3, <2>1, <2>2, TiEnds
  <2> QED
      BY <1>2, <1>3, <2>1, <2>2, <2>3
         DEF T!CoreDelete, TP!CoreDelete, TP!ResourceStatus
<1>4. CASE r \notin Q!Sessions
  <2>1. UNCHANGED sess
      BY <1>2, <1>4 DEF T!CoreDelete
  <2> QED
      BY <1>2, <1>4, <2>1, ViewsStay
         DEF T!CoreDelete, TP!CoreDelete, T!ResourceStatus, TP!ResourceStatus, Owned
<1> QED
    BY <1>3, <1>4

\* As QosSeen, QosNext and QosRests.
LEMMA TiSeen ==
    ASSUME QosInv, TiInv, Owned, UNCHANGED cb, NEW t \in TiTasks,
           T!Client(t) \/ T!Handler(t) \/ T!Core(t) \/ T!Failure(t)
    PROVE  TP!Next /\ UNCHANGED QosSess /\ Owned'
<1>1. CASE \/ T!Client(t) \/ T!Handler(t) \/ T!UdrPut(t) \/ T!CoreReject(t)
           \/ T!Failure(t)
    BY <1>1, TiSame, ViewsStay DEF Owned, TP!Next, TP!Core
<1>2. CASE T!PcfCreate(t)
    BY <1>2, TiOpens DEF TP!Next, TP!Core
<1>3. CASE T!PcfDelete(t)
    BY <1>3, TiTerminates DEF TP!Next, TP!Core
<1>4. CASE T!CoreDelete(t)
    BY <1>4, TiCoreDeletes DEF TP!Next, TP!Core
<1> QED
    BY <1>1, <1>2, <1>3, <1>4 DEF T!Core

LEMMA TiNext ==
    ASSUME TiInv, [TP!Next]_TP!vars
    PROVE  TiInv'
BY TiAssumed, TP!IInvStep, TP!CalmNextStep DEF TiInv

\* What the rest of the NEF does to the state of this API.
TiRest ==
    /\ UNCHANGED <<tiReq, tiDocs, infl, TiSess>>
    /\ hdrLoc' \in AllLocations \cup {None}
    /\ tiWiping' \in BOOLEAN /\ calm' \in BOOLEAN
    /\ calm' => calm /\ (tiWiping' => tiWiping)

LEMMA TiRests ==
    ASSUME TiInv, TiRest
    PROVE  TiInv'
<1>1. TP!TypeOK'
    BY DEF TiInv, TP!IInv, TP!TypeOK, TiRest, TP!Docs, TP!Request, TP!Resources,
           TP!Sessions, TP!Influence, TP!Answers, TP!Status, TP!Waiting
<1>2. TP!ControlInv' /\ TP!HolderInv' /\ TP!OpenedInv' /\ TP!DataInv'
    BY DEF TiInv, TP!IInv, TiRest, TP!ControlInv, TP!HolderInv, TP!OpenedInv,
           TP!DataInv, TP!UniqueIds, TP!RecordPast, TP!OwnName, TP!RecordOpened,
           TP!AddressedOpened, TP!Opener, TP!Past, TP!Got, TP!Holds, TP!Addressed,
           TP!Anew, TP!Stored, TP!ResourceStatus
<1>3. TP!FinalInv'
  <2>1. \A t \in TiTasks : /\ TP!Removed(t)' => TP!Removed(t)
                           /\ TP!Aimed(t)' => TP!Aimed(t)
    BY DEF TiRest, TP!Removed, TP!Aimed
  <2> QED
    BY <2>1 DEF TiInv, TP!IInv, TiRest, TP!FinalInv, TP!AimedPast, TP!AimedOwn,
           TP!RemovedGone, TP!Past, TP!Got
<1>4. ASSUME calm' PROVE TP!CalmInv'
  <2>1. TP!CalmFacts /\ (tiWiping' => tiWiping)
    BY <1>4 DEF TiInv, TP!CalmInv, TiRest
  <2>2. TP!CalmFacts'
    BY <2>1 DEF TiRest, TP!CalmFacts, TP!Steady, TP!SteadyAt, TP!Known, TP!LiveKept,
           TP!DeadLeft, TP!Storing, TP!Removing, TP!Terminating, TP!Ending,
           TP!LeavesBehind, TP!Stored, TP!ResourceStatus
  <2> QED
    BY <2>2 DEF TP!CalmInv
<1>5. ASSUME ~calm' PROVE TP!CalmInv'
    BY <1>5, Zenon DEF TP!CalmInv
<1> QED
    BY <1>1, <1>2, <1>3, <1>4, <1>5 DEF TiInv, TP!IInv

-----------------------------------------------------------------------------
(* Steps of the whole NEF.                                                 *)

HIDE DEF T!core, T!shared, TP!core, TP!shared, T!At, TP!At, T!Accept, TP!Accept,
         T!Answer, TP!Answer, T!Goto, TP!Goto, T!Draw, TP!Draw, T!Finds,
         TP!Finds, T!NoRequest, TP!NoRequest

\* Nothing an API does makes a failure undone.
LEMMA QosCalms ==
    ASSUME NEW t \in QosTasks,
           Q!Client(t) \/ Q!Handler(t) \/ Q!Pcf(t) \/ Q!Failure(t)
    PROVE  UNCHANGED calm \/ calm' = FALSE
<1>1. CASE Q!Client(t)
    BY <1>1, Zenon DEF Q!Client, Q!QosCreateInvalid, Q!QosCreate, Q!QosDelete,
       Q!QosRead, Q!QosUpdate, Q!Clean
<1>2. CASE Q!Handler(t)
    BY <1>2, Zenon DEF Q!Handler, Q!BsfFound, Q!BsfNone, Q!IdTaken, Q!IdFree,
       Q!Unbuildable, Q!SessionOpened, Q!SessionRefused, Q!InsertOne,
       Q!InsertDuplicate, Q!ReinsertDuplicate, Q!QosCreated, Q!DeleteFound,
       Q!DeleteNotFound, Q!SessionTerminated, Q!SessionUnknown, Q!CountBefore,
       Q!DeleteOne, Q!CountAfter, Q!ReadDone
<1>3. CASE Q!Pcf(t) \/ Q!Failure(t)
    BY <1>3, Zenon DEF Q!Pcf, Q!PcfCreate, Q!PcfDelete, Q!PcfReject, Q!Failure,
       Q!HttpTimeout, Q!DbFault
<1> QED
    BY <1>1, <1>2, <1>3

LEMMA TiCalms ==
    ASSUME NEW t \in TiTasks,
           T!Client(t) \/ T!Handler(t) \/ T!Core(t) \/ T!Failure(t)
    PROVE  UNCHANGED calm \/ calm' = FALSE
<1>1. CASE T!Client(t)
    BY <1>1, Zenon DEF T!Client, T!TiCreateInvalid, T!TiCreate, T!TiDelete,
       T!TiRead, T!TiGetNoQuery, T!TiUpdate, T!Clean
<1>2. CASE T!Handler(t)
    BY <1>2, Zenon DEF T!Handler, T!Translated, T!BsfFound, T!BsfNone, T!IdTaken,
       T!IdFree, T!Unbuildable, T!ResourceOpened, T!ResourceRefused, T!InsertOne,
       T!InsertDuplicate, T!ReinsertDuplicate, T!TiCreated, T!DeleteFound,
       T!DeleteNotFound, T!Terminated, T!CountBefore, T!DeleteOne, T!CountAfter,
       T!ReadDone
<1>3. CASE T!Core(t) \/ T!Failure(t)
    BY <1>3, Zenon DEF T!Core, T!PcfCreate, T!UdrPut, T!PcfDelete, T!CoreDelete,
       T!CoreReject, T!Failure, T!HttpTimeout, T!DbFault
<1> QED
    BY <1>1, <1>2, <1>3

\* What monitoring requests share with the others.
LEMMA MonShares ==
    ASSUME NEW t \in MonTasks, M!Step(t)
    PROVE  /\ UNCHANGED hdrLoc \/ hdrLoc' = Coroutine
           /\ UNCHANGED calm \/ calm' = FALSE
<1>1. CASE \/ M!MonCreateInvalid(t) \/ M!MonCreate(t) \/ M!CheckedUdm(t)
           \/ M!CheckedAmf(t) \/ M!CheckedOther(t) \/ M!GroupTranslated(t)
           \/ M!NoHost(t) \/ M!MonCreated(t)
    BY <1>1, Zenon DEF M!MonCreateInvalid, M!MonCreate, M!CheckedUdm, M!CheckedAmf,
       M!CheckedOther, M!GroupTranslated, M!NoHost, M!MonCreated
<1>2. CASE \/ M!MonUnanswerable(t) \/ M!MonRefused(t) \/ M!MonRequest(t)
           \/ M!FoundNothing(t) \/ M!MonUpdate(t) \/ M!CoreCreate(t)
           \/ M!CoreReject(t) \/ M!HttpTimeout(t) \/ M!DbFault(t)
    BY <1>2 DEF M!MonUnanswerable, M!MonRefused, M!MonRequest,
       M!FoundNothing, M!MonUpdate, M!CoreCreate, M!CoreReject, M!HttpTimeout,
       M!DbFault
<1> QED
    BY <1>1, <1>2 DEF M!Step

\* The invariant of both APIs at one PCF.
ApiInv == QosInv /\ TiInv /\ Owned

LEMMA ApiTypes ==
    ASSUME ApiInv
    PROVE  /\ hdrLoc \in AllLocations \cup {None}
           /\ wiping \in BOOLEAN /\ tiWiping \in BOOLEAN /\ calm \in BOOLEAN
BY DEF ApiInv, QosInv, TiInv, QP!IInv, QP!TypeOK, TP!IInv, TP!TypeOK

LEMMA QosMoves ==
    ASSUME ApiInv, NEW t \in QosTasks, QosStep(t)
    PROVE  ApiInv'
<1>1. Q!Client(t) \/ Q!Handler(t) \/ Q!Pcf(t) \/ Q!Failure(t)
    BY DEF QosStep
<1>2. QP!Next /\ UNCHANGED TiSess /\ Owned'
    BY <1>1, QosSeen DEF ApiInv
<1>3. QosInv'
    BY <1>2, QosNext DEF ApiInv
<1>4. hdrLoc' \in AllLocations \cup {None} /\ calm' \in BOOLEAN
    BY <1>3 DEF QosInv, QP!IInv, QP!TypeOK
<1>5. calm' => calm
    BY <1>1, QosCalms
<1>6. UNCHANGED <<tiReq, tiDocs, infl, tiWiping>>
    BY DEF QosStep, tiOnly
<1>7. TiRest
    BY <1>2, <1>4, <1>5, <1>6, ApiTypes DEF TiRest
<1> QED
    BY <1>2, <1>3, <1>7, TiRests DEF ApiInv

LEMMA TiMoves ==
    ASSUME ApiInv, NEW t \in TiTasks, TiStep(t)
    PROVE  ApiInv'
<1>1. T!Client(t) \/ T!Handler(t) \/ T!Core(t) \/ T!Failure(t)
    BY DEF TiStep
<1>2. UNCHANGED <<pc, op, af, sid, host, loc, cnt, call, reply, docs, cb, wiping>>
    BY DEF TiStep, qosOnly
<1>3. TP!Next /\ UNCHANGED QosSess /\ Owned'
    BY <1>1, <1>2, TiSeen DEF ApiInv
<1>4. TiInv'
    BY <1>3, TiNext DEF ApiInv
<1>5. hdrLoc' \in AllLocations \cup {None} /\ calm' \in BOOLEAN
    BY <1>4 DEF TiInv, TP!IInv, TP!TypeOK
<1>6. calm' => calm
    BY <1>1, TiCalms
<1>7. QosRest
    BY <1>2, <1>3, <1>5, <1>6, ApiTypes DEF QosRest
<1> QED
    BY <1>3, <1>4, <1>7, QosRests DEF ApiInv

\* A step that is of neither API.
LEMMA OthersMove ==
    ASSUME ApiInv,
           UNCHANGED <<pc, op, af, sid, host, loc, cnt, call, reply, docs, cb,
                       tiReq, tiDocs, infl, sess>>,
           hdrLoc' \in AllLocations \cup {None},
           wiping' \in BOOLEAN, tiWiping' \in BOOLEAN, calm' \in BOOLEAN,
           calm' => calm /\ (wiping' => wiping) /\ (tiWiping' => tiWiping)
    PROVE  ApiInv'
<1>1. QosRest /\ TiRest
    BY ViewsStay DEF QosRest, TiRest
<1>2. Owned'
    BY DEF ApiInv, Owned
<1> QED
    BY <1>1, <1>2, QosRests, TiRests DEF ApiInv

LEMMA MonMoves ==
    ASSUME ApiInv, NEW t \in MonTasks, MonStep(t)
    PROVE  ApiInv'
<1>1. /\ UNCHANGED <<pc, op, af, sid, host, loc, cnt, call, reply, docs, cb,
                     tiReq, tiDocs, infl, sess>>
      /\ UNCHANGED <<wiping, tiWiping>>
    BY DEF MonStep, qosOnly, tiOnly
<1>2. hdrLoc' \in AllLocations \cup {None}
    BY MonShares, ApiTypes DEF MonStep, AllLocations
<1>3. calm' \in BOOLEAN /\ (calm' => calm)
    BY MonShares, ApiTypes DEF MonStep
<1>4. wiping' \in BOOLEAN /\ tiWiping' \in BOOLEAN
    BY <1>1, ApiTypes
<1>5. (wiping' => wiping) /\ (tiWiping' => tiWiping)
    BY <1>1
<1> QED
    BY <1>1, <1>2, <1>3, <1>4, <1>5, OthersMove

\* /clean, and steps that change nothing.
LEMMA CleanMoves ==
    ASSUME ApiInv, Clean
    PROVE  ApiInv'
<1>1. UNCHANGED <<pc, op, af, sid, host, loc, cnt, call, reply, docs, cb,
                  tiReq, tiDocs, infl, sess, hdrLoc>>
    BY DEF Clean
<1>2. wiping' = TRUE /\ tiWiping' = TRUE /\ calm' = FALSE
    BY DEF Clean
<1>3. hdrLoc' \in AllLocations \cup {None}
    BY <1>1, ApiTypes
<1> QED
    BY <1>1, <1>2, <1>3, OthersMove

LEMMA Stutters ==
    ASSUME ApiInv, UNCHANGED vars
    PROVE  ApiInv'
<1>1. UNCHANGED <<pc, op, af, sid, host, loc, cnt, call, reply, docs, cb,
                  tiReq, tiDocs, infl, sess, hdrLoc, wiping, tiWiping, calm>>
    BY DEF vars, qosOnly, tiOnly
<1>2. /\ hdrLoc' \in AllLocations \cup {None}
      /\ wiping' \in BOOLEAN /\ tiWiping' \in BOOLEAN /\ calm' \in BOOLEAN
    BY <1>1, ApiTypes
<1>3. calm' => calm /\ (wiping' => wiping) /\ (tiWiping' => tiWiping)
    BY <1>1
<1> QED
    BY <1>1, <1>2, <1>3, OthersMove

\* One of the two delete_many runs.
LEMMA WipeMoves ==
    ASSUME ApiInv, Wipe
    PROVE  ApiInv'
<1>1. CASE Q!Wipe /\ UNCHANGED tiOnly
  <2>1. UNCHANGED <<sess, cb, hdrLoc, calm>> /\ QP!Wipe
    BY <1>1, ViewsStay DEF Q!Wipe, QP!Wipe, Q!locals, QP!locals, Q!pcf, QP!pcf
  <2>2. QosInv'
    BY <2>1, QosNext DEF ApiInv, QP!Next
  <2>3. TiRest
    BY <1>1, <2>1, ViewsStay, ApiTypes DEF TiRest, tiOnly
  <2> QED
    BY <2>1, <2>2, <2>3, TiRests DEF ApiInv, Owned
<1>2. CASE T!Wipe /\ UNCHANGED qosOnly
  <2>1. UNCHANGED <<sess, cb, hdrLoc, calm>> /\ TP!Wipe
    BY <1>2, ViewsStay DEF T!Wipe, TP!Wipe, T!core, TP!core, qosOnly
  <2>2. TiInv'
    BY <2>1, TiNext DEF ApiInv, TP!Next
  <2>3. QosRest
    BY <1>2, <2>1, ViewsStay, ApiTypes DEF QosRest, qosOnly
  <2> QED
    BY <2>1, <2>2, <2>3, QosRests DEF ApiInv, Owned
<1> QED
    BY <1>1, <1>2 DEF Wipe

\* The process dies, under requests of one API or of both.
LEMMA CrashMoves ==
    ASSUME ApiInv, Crash
    PROVE  ApiInv'
<1>1. /\ "crash" \in Faults /\ Q!Die /\ T!Die
    BY DEF Crash
<1>2. UNCHANGED <<sess, cb>> /\ hdrLoc' = None /\ calm' = FALSE
    BY <1>1 DEF Q!Die, Q!pcf
<1>3. wiping' \in BOOLEAN /\ tiWiping' \in BOOLEAN
    BY <1>1, ApiTypes DEF Q!Die, T!Die
<1>4. QosInv'
  <2>1. CASE \E t \in QosTasks : pc[t] \in Q!Waiting
    <3>1. QP!Crash
      BY <1>1, <1>2, <2>1, ViewsStay
         DEF QP!Crash, QP!Die, Q!Die, Q!Waiting, QP!Waiting, Q!locals, QP!locals,
             Q!pcf, QP!pcf
    <3> QED
      BY <3>1, QosNext DEF ApiInv, QP!Next
  <2>2. CASE \A t \in QosTasks : pc[t] \notin Q!Waiting
    <3>1. UNCHANGED pc
      BY <1>1, <2>2 DEF Q!Die, ApiInv, QosInv, QP!IInv, QP!TypeOK
    <3>2. QosRest
      BY <1>1, <1>2, <1>3, <3>1, ViewsStay DEF QosRest, Q!Die, Q!locals
    <3> QED
      BY <3>2, QosRests DEF ApiInv
  <2> QED
    BY <2>1, <2>2
<1>5. TiInv'
  <2>1. CASE \E t \in TiTasks : tiReq[t].pc \in T!Waiting
    <3>1. TP!Crash
      BY <1>1, <1>2, <2>1, ViewsStay
         DEF TP!Crash, TP!Die, T!Die, T!Waiting, TP!Waiting, T!core, TP!core
    <3> QED
      BY <3>1, TiNext DEF ApiInv, TP!Next
  <2>2. CASE \A t \in TiTasks : tiReq[t].pc \notin T!Waiting
    <3>1. UNCHANGED tiReq
      BY <1>1, <2>2 DEF T!Die, ApiInv, TiInv, TP!IInv, TP!TypeOK
    <3>2. TiRest
      BY <1>1, <1>2, <1>3, <3>1, ViewsStay DEF TiRest, T!Die, T!core
    <3> QED
      BY <3>2, TiRests DEF ApiInv
  <2> QED
    BY <2>1, <2>2
<1>6. Owned'
    BY <1>2 DEF ApiInv, Owned
<1> QED
    BY <1>4, <1>5, <1>6 DEF ApiInv

LEMMA ApiInit == Init => ApiInv
<1> SUFFICES ASSUME Init PROVE ApiInv
    OBVIOUS
<1>1. /\ QosSess = [s \in Q!Sessions |-> "none"]
      /\ TiSess = [s \in T!Sessions |-> "none"]
    BY DEF Init, Q!Init, T!Init, QosSess, TiSess, Q!Sessions, T!Sessions
<1>2. QP!Init
    BY <1>1 DEF Init, Q!Init, QP!Init, Q!Sessions, QP!Sessions
<1>3. TP!Init
    BY <1>1 DEF Init, T!Init, TP!Init, T!Sessions, TP!Sessions, T!NoRequest,
                TP!NoRequest
<1>4. Owned
    BY DEF Init, Q!Init, Owned
<1>5. QosInv
    BY <1>2, QosAssumed, QP!IInvInit, QP!CalmInit DEF QosInv
<1>6. TiInv
    BY <1>3, TiAssumed, TP!IInvInit, TP!CalmInit DEF TiInv
<1> QED
    BY <1>4, <1>5, <1>6 DEF ApiInv

\* Both APIs keep their invariants at one PCF, in one process, beside a third.
THEOREM ApiInvariance == Spec => []ApiInv
<1>1. ASSUME ApiInv, [Next]_vars PROVE ApiInv'
    BY <1>1, QosMoves, TiMoves, MonMoves, CleanMoves, WipeMoves, CrashMoves,
       Stutters DEF Next
<1> QED
    BY <1>1, ApiInit, PTL DEF Spec

-----------------------------------------------------------------------------
(* The theorems.                                                           *)

\* Whose session a record names can be told by its callback.
LEMMA Apart ==
    ASSUME ApiInv
    PROVE  /\ \A i \in Q!Stored :
                  docs[i].loc \in Q!Sessions /\ cb[docs[i].loc] # None
           /\ \A j \in T!Stored :
                  /\ tiDocs[j].loc \in T!Resources
                  /\ tiDocs[j].loc \in Q!Sessions => cb[tiDocs[j].loc] = None
<1>1. ASSUME NEW i \in Q!Stored
      PROVE  docs[i].loc \in Q!Sessions /\ cb[docs[i].loc] # None
  <2>1. docs[i].loc \in Q!Sessions /\ QosSess[docs[i].loc] # "none"
    BY DEF ApiInv, QosInv, QP!IInv, QP!TypeOK, QP!HolderInv, QP!Docs, QP!Sessions,
           Q!Sessions, Q!Stored
  <2> QED
    BY <2>1 DEF QosSess, Q!Sessions
<1>2. ASSUME NEW j \in T!Stored
      PROVE  /\ tiDocs[j].loc \in T!Resources
             /\ tiDocs[j].loc \in Q!Sessions => cb[tiDocs[j].loc] = None
  <2>1. /\ tiDocs[j].loc \in T!Resources
        /\ TP!ResourceStatus(tiDocs[j].loc) # "none"
    BY DEF ApiInv, TiInv, TP!IInv, TP!TypeOK, TP!HolderInv, TP!Docs, TP!Stored,
           TP!Resources, TP!Sessions, TP!Influence, T!Resources, T!Sessions,
           T!Influence, T!Stored
  <2> QED
    BY <2>1 DEF TP!ResourceStatus, TP!Sessions, Q!Sessions, TiSess
<1> QED
    BY <1>1, <1>2

\* A status each API knows is the one the PCF has.
LEMMA Viewed ==
    /\ \A s \in Q!Sessions : QosSess[s] # "none" => QosSess[s] = sess[s]
    /\ \A r \in T!Resources :
           TP!ResourceStatus(r) # "none" => TP!ResourceStatus(r) = T!ResourceStatus(r)
BY DEF QosSess, TiSess, Q!Sessions, TP!ResourceStatus, T!ResourceStatus,
       TP!Sessions, T!Sessions

\* No record of either collection names a session of another one, whatever the
\* requests of both do at the PCF they share and whatever fails.
THEOREM SessionsNotShared == Spec => []OneRecordPerSession
<1>1. ASSUME ApiInv PROVE OneRecordPerSession
  <2>1. Q!OneRecordPerSession
    BY <1>1, Apart, Viewed DEF ApiInv, QosInv, QP!IInv, QP!HolderInv,
       Q!OneRecordPerSession, Q!Stored
  <2>2. T!OneRecordPerResource
    BY <1>1, Apart, Viewed DEF ApiInv, TiInv, TP!IInv, TP!HolderInv, TP!Anew,
       T!OneRecordPerResource, T!Stored, TP!Stored
  <2>3. \A i \in Q!Stored, j \in T!Stored : docs[i].loc # tiDocs[j].loc
    BY <1>1, Apart
  <2> QED
    BY <2>1, <2>2, <2>3 DEF OneRecordPerSession
<1> QED
    BY <1>1, ApiInvariance, PTL

\* What a 204 of one API says stays true whatever the other one does.
THEOREM DeletesFinal == Spec => []DeleteIsFinal
<1>1. ASSUME ApiInv PROVE DeleteIsFinal
  <2>1. Q!DeleteIsFinal
    <3> SUFFICES ASSUME NEW t \in QosTasks, op[t] = "delete", pc[t] = "done",
                        reply[t].ans = "deleted"
                 PROVE  docs[sid[t]] = None /\ sess[loc[t]] = "ended"
      BY DEF Q!DeleteIsFinal
    <3>1. docs[sid[t]] = None /\ QosSess[loc[t]] = "ended"
      BY <1>1, QosAssumed, QP!FinalDeletes DEF ApiInv, QosInv, QP!DeleteIsFinal
    <3>2. loc[t] \in Q!Sessions
      BY <1>1 DEF ApiInv, QosInv, QP!IInv, QP!ControlInv, QP!EndedInv, QP!Deletes,
                  QP!Sessions, Q!Sessions
    <3> QED
      BY <3>1, <3>2, Viewed
  <2>2. T!DeleteIsFinal
    BY <1>1 DEF ApiInv, TiInv, TP!IInv, TP!FinalInv, TP!RemovedGone, TP!Removed,
                TP!Deletes, T!DeleteIsFinal
  <2> QED
    BY <2>1, <2>2 DEF DeleteIsFinal
<1> QED
    BY <1>1, ApiInvariance, PTL

\* A record goes in a step of its own API, or of none.
LEMMA QosRemoves ==
    ASSUME ApiInv, [Next]_vars, NEW i \in QosIds
    PROVE  QP!ByRight(i)
<1>1. CASE UNCHANGED docs
    BY <1>1 DEF QP!ByRight
<1>2. CASE QP!Next
    BY <1>2, QosAssumed, QP!RemovesByRight DEF ApiInv, QosInv
<1>3. UNCHANGED docs \/ QP!Next
  <2>1. ASSUME NEW t \in QosTasks, QosStep(t) PROVE QP!Next
    BY <2>1, QosSeen DEF QosStep, ApiInv
  <2>2. CASE \/ \E t \in TiTasks : TiStep(t)
             \/ \E t \in MonTasks : MonStep(t)
             \/ Clean \/ Crash \/ UNCHANGED vars
    BY <2>2 DEF TiStep, MonStep, Clean, Crash, Q!Die, qosOnly, vars
  <2>3. CASE Q!Wipe
    BY <2>3, ViewsStay
       DEF Q!Wipe, QP!Next, QP!Wipe, Q!locals, QP!locals, Q!pcf, QP!pcf
  <2>4. CASE T!Wipe /\ UNCHANGED qosOnly
    BY <2>4 DEF qosOnly
  <2> QED
    BY <2>1, <2>2, <2>3, <2>4 DEF Next, Wipe
<1> QED
    BY <1>1, <1>2, <1>3

LEMMA TiRemoves ==
    ASSUME ApiInv, [Next]_vars, NEW i \in TiIds
    PROVE  TP!ByRight(i)
<1>1. CASE UNCHANGED tiDocs
    BY <1>1 DEF TP!ByRight
<1>2. CASE TP!Next
    BY <1>2, TiAssumed, TP!RemovesByRight DEF ApiInv, TiInv
<1>3. UNCHANGED tiDocs \/ TP!Next
  <2>1. ASSUME NEW t \in TiTasks, TiStep(t) PROVE TP!Next
    BY <2>1, TiSeen DEF TiStep, ApiInv, qosOnly
  <2>2. CASE \/ \E t \in QosTasks : QosStep(t)
             \/ \E t \in MonTasks : MonStep(t)
             \/ Clean \/ Crash \/ UNCHANGED vars
    BY <2>2 DEF QosStep, MonStep, Clean, Crash, T!Die, tiOnly, vars
  <2>3. CASE T!Wipe /\ UNCHANGED qosOnly
    BY <2>3, ViewsStay DEF T!Wipe, TP!Next, TP!Wipe, T!core, TP!core, qosOnly
  <2>4. CASE Q!Wipe /\ UNCHANGED tiOnly
    BY <2>4 DEF tiOnly
  <2> QED
    BY <2>1, <2>2, <2>3, <2>4 DEF Next, Wipe
<1> QED
    BY <1>1, <1>2, <1>3

\* Records of both collections are removed by right, with the other API, /clean
\* and crashes in between.
THEOREM RemovalsByRight == Spec => RemovedByRight
<1>1. ApiInv /\ [Next]_vars => [\A i \in QosIds : QP!ByRight(i)]_Q!vars
    BY QosRemoves
<1>2. ApiInv /\ [Next]_vars => [\A i \in TiIds : TP!ByRight(i)]_T!vars
    BY TiRemoves
<1> QED
    BY <1>1, <1>2, ApiInvariance, PTL
       DEF Spec, RemovedByRight, Q!RemovedByRight, T!RemovedByRight,
           QP!ByRight, TP!ByRight, T!At, TP!At

\* What SessionsEndedByRight says of one session in one step.
EndsByRight(s) ==
    \/ \E t \in QosTasks :
          /\ op[t] \in {"delete", "qdelete"} /\ call[t] = "sent" /\ call'[t] = "ok"
          /\ sid[t] = cb[s]
    \/ \E t \in TiTasks, u \in TiTasks :
          /\ tiReq[t].op \in {"delete", "tidelete"}
          /\ tiReq[t].call = "sent" /\ tiReq'[t].call = "ok"
          /\ tiReq[u].op = "create" /\ tiReq[u].loc = s
          /\ tiReq[t].sid = tiReq[u].sid

\* A QoS request ends the session its record named, whose callback is the
\* record's id.
LEMMA QosEnds ==
    ASSUME ApiInv, NEW t \in QosTasks, QosStep(t),
           NEW s \in Q!Sessions, sess[s] = "live", sess'[s] = "ended"
    PROVE  EndsByRight(s)
<1>1. /\ sess \in [Q!Sessions -> {"none", "live", "ended"}]
      /\ QP!TypeOK /\ QP!ControlInv /\ QP!AddressedInv
    BY DEF ApiInv, Owned, QosInv, QP!IInv
<1>2. CASE Q!Client(t) \/ Q!Handler(t) \/ Q!PcfReject(t) \/ Q!Failure(t)
    BY <1>2, QosSame
<1>3. CASE Q!PcfCreate(t)
    BY <1>1, <1>3 DEF Q!PcfCreate
<1>4. CASE Q!PcfDelete(t)
  <2>1. /\ op[t] \in {"delete", "qdelete"} /\ call[t] = "sent"
        /\ loc[t] \in Q!Sessions
    BY <1>1, <1>4 DEF Q!PcfDelete, QP!ControlInv, QP!Deletes, Q!Sessions, QP!Sessions
  <2>2. Q!Target(t) = loc[t]
    BY <2>1 DEF Q!Target, Q!Sessions
  <2>3. loc[t] = s /\ call'[t] = "ok"
    BY <1>1, <1>4, <2>1, <2>2 DEF Q!PcfDelete, QP!TypeOK
  <2>4. cb[loc[t]] = sid[t]
    BY <1>1, <2>1 DEF QP!AddressedInv, QP!Deletes
  <2> QED
    BY <2>1, <2>3, <2>4 DEF EndsByRight
<1> QED
    BY <1>2, <1>3, <1>4 DEF QosStep, Q!Pcf

\* A request of the other API ends a session that the create of the id it names
\* got from the PCF.
LEMMA TiEndsOwn ==
    ASSUME ApiInv, NEW t \in TiTasks, TiStep(t),
           NEW s \in Q!Sessions, sess[s] = "live", sess'[s] = "ended"
    PROVE  EndsByRight(s)
<1>1. /\ sess \in [Q!Sessions -> {"none", "live", "ended"}]
      /\ TP!TypeOK /\ TP!AddressedOpened /\ TiInv /\ Owned
      /\ UNCHANGED cb
    BY DEF ApiInv, Owned, TiInv, TP!IInv, TP!OpenedInv, TiStep, qosOnly
<1>2. CASE \/ T!Client(t) \/ T!Handler(t) \/ T!UdrPut(t) \/ T!CoreReject(t)
           \/ T!Failure(t)
    BY <1>1, <1>2, TiSame
<1>3. CASE T!PcfCreate(t)
    BY <1>1, <1>3 DEF T!PcfCreate
<1>4. CASE T!PcfDelete(t) \/ T!CoreDelete(t)
  <2>1. /\ tiReq[t].op \in {"delete", "tidelete"} /\ tiReq[t].call = "sent"
        /\ TP!Addressed(t)
    BY <1>4 DEF T!PcfDelete, T!CoreDelete, TP!Addressed, TP!Deletes
  <2>2. tiReq[t].loc = s /\ tiReq' = [tiReq EXCEPT ![t].call = "ok"]
    <3>1. CASE T!PcfDelete(t)
      <4>1. /\ <<HostPcf, tiReq[t].loc[2]>> = s
            /\ tiReq' = [tiReq EXCEPT ![t].call = "ok"]
        BY <1>1, <3>1 DEF T!PcfDelete, Q!Sessions
      <4>2. tiReq[t].loc \in T!Resources
        BY <1>1, <2>1, TiAddresses
      <4> QED
        BY <4>1, <4>2, TiAssumption
           DEF Q!Sessions, T!Resources, T!Sessions, T!Influence, T!IdsAssumption
    <3>2. CASE T!CoreDelete(t)
      BY <1>1, <3>2 DEF T!CoreDelete
    <3> QED
      BY <1>4, <3>1, <3>2
  <2>3. tiReq'[t].call = "ok"
    BY <1>1, <2>2 DEF TP!TypeOK, TP!Request
  <2>4. PICK u \in TiTasks : TP!Opener(u, tiReq[t].sid, tiReq[t].loc)
    BY <1>1, <2>1 DEF TP!AddressedOpened
  <2> QED
    BY <2>1, <2>2, <2>3, <2>4 DEF EndsByRight, TP!Opener, TP!Past, TP!Got
<1> QED
    BY <1>2, <1>3, <1>4 DEF TiStep, T!Core

\* The session a deletion ends is the one opened for the subscription it names,
\* although the PCF serves both APIs and serves them late.
THEOREM SessionsEnded == Spec => SessionsEndedByRight
<1>1. ASSUME ApiInv, [Next]_vars,
             NEW s \in Q!Sessions, sess[s] = "live", sess'[s] = "ended"
      PROVE  EndsByRight(s)
  <2>1. CASE \E t \in QosTasks : QosStep(t)
    BY <1>1, <2>1, QosEnds
  <2>2. CASE \E t \in TiTasks : TiStep(t)
    BY <1>1, <2>2, TiEndsOwn
  <2>3. CASE \/ \E t \in MonTasks : MonStep(t)
             \/ Clean \/ Wipe \/ Crash \/ UNCHANGED vars
    <3>1. UNCHANGED sess
      BY <2>3 DEF MonStep, Clean, Wipe, Q!Wipe, Q!pcf, T!Wipe, T!core, Crash,
                  Q!Die, vars
    <3> QED
      BY <1>1, <3>1
  <2> QED
    BY <1>1, <2>1, <2>2, <2>3 DEF Next
<1>2. ApiInv /\ [Next]_vars =>
          [\A s \in Q!Sessions :
              (sess[s] = "live" /\ sess'[s] = "ended") => EndsByRight(s)]_vars
    BY <1>1
<1> QED
    BY <1>2, ApiInvariance, PTL DEF Spec, SessionsEndedByRight, EndsByRight

\* While nothing has failed, the two collections together agree with the PCF.
THEOREM CalmCoherent == Spec => []CalmCoherence
<1>1. ASSUME ApiInv, calm PROVE CalmCoherence
  <2>1. QP!CalmCoherence /\ TP!CalmCoherence
    BY <1>1, QosAssumed, TiAssumed, QP!CalmAgrees, TP!CalmAgrees
       DEF ApiInv, QosInv, TiInv
  <2>2. ASSUME NEW s \in Q!Sessions, sess[s] = "live"
        PROVE  \/ \E i \in Q!Stored : docs[i].loc = s
               \/ \E i \in T!Stored : tiDocs[i].loc = s
               \/ \E t \in QosTasks : Q!Storing(t) /\ loc[t] = s
               \/ \E t \in TiTasks : (T!Storing(t) /\ tiReq[t].loc = s)
                                        \/ T!LeavesBehind(t, s)
    <3>1. CASE cb[s] # None
      <4>1. s \in QP!Sessions /\ QosSess[s] = "live"
        BY <2>2, <3>1 DEF QosSess, Q!Sessions, QP!Sessions
      <4> QED
        BY <1>1, <2>1, <4>1
           DEF QP!CalmCoherence, QP!Storing, Q!Storing, QP!Stored, Q!Stored
    <3>2. CASE cb[s] = None
      <4>1. s \in TP!Resources /\ TP!ResourceStatus(s) = "live"
        BY <2>2, <3>2 DEF TiSess, Q!Sessions, TP!Sessions, TP!Resources,
                          TP!ResourceStatus
      <4> QED
        BY <1>1, <2>1, <4>1
           DEF TP!CalmCoherence, TP!Storing, T!Storing, TP!Stored, T!Stored,
               TP!LeavesBehind, T!LeavesBehind, TP!Influence, T!Influence
    <3> QED
      BY <3>1, <3>2
  <2>3. \A i \in Q!Stored : sess[docs[i].loc] = "live" \/
            \E t \in QosTasks : Q!Removing(t) /\ sid[t] = i
    BY <1>1, <2>1, Apart, Viewed
       DEF QP!CalmCoherence, QP!Removing, Q!Removing, QP!Stored, Q!Stored
  <2>4. \A i \in T!Stored : T!ResourceStatus(tiDocs[i].loc) = "live" \/
            \E t \in TiTasks : T!Removing(t) /\ tiReq[t].sid = i
    BY <1>1, <2>1, Apart, Viewed
       DEF TP!CalmCoherence, TP!Removing, T!Removing, TP!Stored, T!Stored
  <2> QED
    BY <2>2, <2>3, <2>4 DEF CalmCoherence
<1>2. ASSUME ApiInv, ~calm PROVE CalmCoherence
    BY <1>2, Zenon DEF CalmCoherence
<1>3. ApiInv => CalmCoherence
    BY <1>1, <1>2
<1> QED
    BY <1>3, ApiInvariance, PTL

=============================================================================
