---------------------- MODULE TrafficInfluenceCalmProofs ----------------------
(***************************************************************************)
(* The theorem about CalmCoherence of TrafficInfluence: as long as no call,*)
(* no database operation and no process has failed, with one PCF and ids   *)
(* that are drawn once, records and live core resources agree, but for what*)
(* DELETE leaves behind, for any number of requests in any interleaving.   *)
(*                                                                         *)
(* The property does not carry over a step.  OpenedInv traces every record *)
(* and every deletion that has called the core network back to the create  *)
(* that opened the resource: nobody else stores it or names it.  CalmFacts *)
(* says where each handler can be while nothing has failed.                *)
(***************************************************************************)
EXTENDS TrafficInfluenceProofs

\* Request v opened resource r for id i and is past storing it.
Opener(v, i, r) == Past(v) /\ req[v].sid = i /\ req[v].loc = r

RecordOpened == \A i \in Stored : \E v \in Tasks : Opener(v, i, docs[i].loc)

AddressedOpened == \A u \in Tasks : Addressed(u) =>
    \E v \in Tasks : Opener(v, req[u].sid, req[u].loc)

OpenedInv == ~UuidRepeat => RecordOpened /\ AddressedOpened

\* A handler as it is while nothing has failed: it does not insert twice, is not
\* lost, and waits for its call.
SteadyAt(r) ==
    /\ r.pc \notin {"reinsert", "restored", "dead"}
    /\ r.call = "sent" => r.pc \in {"core", "term"}
    /\ r.pc \in {"term", "count", "remove"} => r.call # "none"

Steady == ~wiping /\ \A t \in Tasks : SteadyAt(req[t])

\* A /tidelete that was answered by the PCF, and a deletion whose call was
\* accepted and whose record is still to go.
Terminating(t) ==
    /\ req[t].op = "tidelete" /\ req[t].call \in {"ok", "refused"}
    /\ req[t].loc \in Sessions

Ending(t) == Removing(t) /\ req[t].call = "ok"

\* Resources waiting to be stored are live, sessions whose termination was
\* answered are not.
Known ==
    \A t \in Tasks :
        /\ Storing(t) => ResourceStatus(req[t].loc) = "live"
        /\ Terminating(t) => ResourceStatus(req[t].loc) = "ended"

LiveKept ==
    \A r \in Resources : ResourceStatus(r) = "live" =>
        \/ \E i \in Stored : docs[i].loc = r
        \/ \E t \in Tasks : (Storing(t) /\ req[t].loc = r) \/ LeavesBehind(t, r)

\* A record whose resource is not live is about to be removed by the deletion
\* that ended it; a deletion that was refused counts for nothing.
DeadLeft ==
    \A i \in Stored :
        \/ ResourceStatus(docs[i].loc) = "live"
        \/ \E t \in Tasks : Ending(t) /\ req[t].sid = i

CalmFacts == Steady /\ Known /\ LiveKept /\ DeadLeft

CalmInv == (calm /\ ~UuidRepeat /\ Pcfs = {HostPcf}) => CalmFacts

USE DEF core, shared, vars

-----------------------------------------------------------------------------
(* Every resource goes back to one create.                                 *)

\* Steps in which nothing is stored and no deletion finds its record.
LEMMA OpenedQuiet ==
    ASSUME OpenedInv,
           \A u \in Tasks : Past(u) =>
               Past(u)' /\ req'[u].sid = req[u].sid /\ req'[u].loc = req[u].loc,
           \A u \in Tasks : Addressed(u)' =>
               Addressed(u) /\ req'[u].sid = req[u].sid /\ req'[u].loc = req[u].loc,
           \A i \in Ids : docs'[i] \in {docs[i], None}
    PROVE  OpenedInv'
<1>1. \A v \in Tasks : \A i, r : Opener(v, i, r) => Opener(v, i, r)'
    BY DEF Opener
<1>2. RecordOpened => RecordOpened'
  <2>1. \A i \in Stored' : i \in Stored /\ docs'[i] = docs[i]
    BY DEF Stored
  <2> QED
    BY <1>1, <2>1 DEF RecordOpened, Opener
<1>3. AddressedOpened => AddressedOpened'
    BY <1>1 DEF AddressedOpened, Opener
<1> QED
    BY <1>2, <1>3 DEF OpenedInv

LEMMA OpenedStep ==
    ASSUME TypeOK, ControlInv, OpenedInv, [Next]_vars
    PROVE  OpenedInv'
<1>1. \A t \in Tasks : Control(req[t])
    BY DEF ControlInv
<1>2. CASE Quiet
    BY <1>2, OpenedQuiet DEF Quiet, MovesOn
<1>3. ASSUME NEW t \in Tasks, Only(t), ~Past(t), ~Addressed(t)', UNCHANGED docs
      PROVE  OpenedInv'
  <2>1. \A u \in Tasks \ {t} : /\ req'[u] = req[u]
                                /\ (Past(u) <=> Past(u)')
                                /\ (Addressed(u)' => Addressed(u))
    BY <1>3 DEF Only, Past, Got, Addressed
  <2> QED
    BY <1>3, <2>1, OpenedQuiet
<1>4. ASSUME NEW t \in Tasks, Begins(t) PROVE OpenedInv'
    BY <1>3, <1>4 DEF Begins, Past, Addressed
<1>5. ASSUME NEW t \in Tasks, Takes(t) PROVE OpenedInv'
    BY <1>3, <1>5 DEF Takes, Past, Addressed, Deletes
<1>6. ASSUME NEW t \in Tasks, Stores(t) PROVE OpenedInv'
  <2> DEFINE s == req[t].sid
  <2>1. s \in Ids /\ ~Addressed(t)' /\ ~Past(t) /\ Past(t)'
    BY <1>1, <1>6 DEF Stores, Keeps, Control, Addressed, Past, Got, Deletes
  <2>2. docs'[s].loc = req[t].loc /\ \A i \in Ids \ {s} : docs'[i] = docs[i]
    BY <1>6, <2>1 DEF Stores, TypeOK
  <2>3. \A i \in Stored' : i = s \/ (i \in Stored /\ docs'[i] = docs[i])
    BY <2>2 DEF Stored
  <2>4. \A u \in Tasks : /\ Past(u) => Past(u)'
                         /\ Addressed(u)' => Addressed(u)
                         /\ req'[u].sid = req[u].sid /\ req'[u].loc = req[u].loc
    BY <1>6, <2>1 DEF Stores, Keeps, Only, Past, Got, Addressed
  <2>5. RecordOpened => RecordOpened'
    BY <2>1, <2>2, <2>3, <2>4 DEF RecordOpened, Opener
  <2>6. AddressedOpened => AddressedOpened'
    BY <2>4 DEF AddressedOpened, Opener
  <2> QED
    BY <2>5, <2>6 DEF OpenedInv
<1>7. ASSUME NEW t \in Tasks, Aims(t) PROVE OpenedInv'
  <2>1. /\ req[t].sid \in Stored /\ req'[t].sid = req[t].sid
        /\ req'[t].loc = docs[req[t].sid].loc /\ UNCHANGED docs /\ ~Past(t)
    BY <1>1, <1>7 DEF Aims, Control, Finds, Stored, Past
  <2>2. \A u \in Tasks \ {t} : /\ req'[u] = req[u]
                                /\ (Past(u) <=> Past(u)')
                                /\ (Addressed(u)' => Addressed(u))
    BY <1>7 DEF Aims, Only, Past, Got, Addressed
  <2>3. \A v \in Tasks : \A i, r : Opener(v, i, r) => Opener(v, i, r)'
    BY <2>1, <2>2 DEF Opener
  <2>4. RecordOpened => RecordOpened'
    BY <2>1, <2>3 DEF RecordOpened, Stored, Opener
  <2>5. RecordOpened /\ AddressedOpened => AddressedOpened'
    BY <2>1, <2>2, <2>3 DEF RecordOpened, AddressedOpened, Opener
  <2> QED
    BY <2>4, <2>5 DEF OpenedInv
<1>8. ASSUME NEW t \in Tasks, Drops(t) PROVE OpenedInv'
  <2>1. \A i \in Ids : docs'[i] \in {docs[i], None}
    BY <1>8 DEF Drops, TypeOK
  <2>2. \A u \in Tasks : /\ Past(u) => Past(u)'
                         /\ Addressed(u)' => Addressed(u)
                         /\ req'[u].sid = req[u].sid /\ req'[u].loc = req[u].loc
    BY <1>8 DEF Drops, Keeps, Only, Past, Got, Addressed
  <2> QED
    BY <2>1, <2>2, OpenedQuiet
<1>9. ASSUME NEW t \in Tasks, NEW r \in Resources, Grants(t, r) PROVE OpenedInv'
    BY <1>3, <1>9 DEF Grants, Past, Got, Addressed, Deletes
<1> QED
    BY <1>2, <1>4, <1>5, <1>6, <1>7, <1>8, <1>9, Steps

\* The resource a deletion addresses was opened, no create is still about to
\* store it, and no record but the one the deletion found names it.
LEMMA AddressedFacts ==
    ASSUME TypeOK, ControlInv, HolderInv, OpenedInv, ~UuidRepeat,
           NEW u \in Tasks, Addressed(u)
    PROVE  /\ req[u].loc \in Resources /\ ResourceStatus(req[u].loc) # "none"
           /\ \A t \in Tasks : Holds(t) => req[t].loc # req[u].loc
           /\ \A i \in Stored : docs[i].loc = req[u].loc => i = req[u].sid
<1>1. PICK v \in Tasks : Opener(v, req[u].sid, req[u].loc)
    BY DEF OpenedInv, AddressedOpened
<1>2. Got(v) /\ ~Holds(v)
    BY <1>1 DEF Opener, Past, Holds
<1>3. ASSUME NEW t \in Tasks, Got(t), req[t].loc = req[u].loc PROVE t = v
    BY <1>1, <1>2, <1>3 DEF HolderInv, Opener, Anew
<1>4. req[u].loc \in Resources /\ ResourceStatus(req[u].loc) # "none"
    BY <1>1, <1>2, Located DEF HolderInv, Opener
<1>5. \A t \in Tasks : Holds(t) => req[t].loc # req[u].loc
    BY <1>2, <1>3 DEF Holds
<1>6. ASSUME NEW i \in Stored, docs[i].loc = req[u].loc PROVE i = req[u].sid
  <2>1. PICK w \in Tasks : Opener(w, i, docs[i].loc)
    BY DEF OpenedInv, RecordOpened
  <2> QED
    BY <1>1, <1>3, <1>6, <2>1 DEF Opener, Past
<1> QED
    BY <1>4, <1>5, <1>6

-----------------------------------------------------------------------------
(* Steps while nothing has failed.                                         *)

LEMMA CalmActions ==
    ASSUME [Next]_vars, calm \in BOOLEAN, wiping \in BOOLEAN, calm'
    PROVE  /\ calm /\ (wiping' => wiping)
           /\ \/ \E t \in Tasks : Client(t) \/ Handler(t) \/ Core(t)
              \/ Wipe \/ UNCHANGED vars
<1> USE DEF TiCreateInvalid, TiCreate, TiDelete, TiRead, TiGetNoQuery, TiUpdate,
        Clean, Translated, BsfFound, BsfNone, IdTaken, IdFree, Unbuildable,
        ResourceOpened, ResourceRefused, InsertOne, InsertDuplicate,
        ReinsertDuplicate, TiCreated, DeleteFound, DeleteNotFound, Terminated,
        CountBefore, DeleteOne, CountAfter, ReadDone, PcfCreate, UdrPut,
        PcfDelete, CoreDelete, CoreReject, HttpTimeout, DbFault
<1>1. ASSUME NEW t \in Tasks, Client(t)
      PROVE  UNCHANGED <<wiping, calm>> \/ calm' = FALSE
    BY <1>1, Zenon DEF Client
<1>2. ASSUME NEW t \in Tasks, Handler(t) PROVE UNCHANGED <<wiping, calm>>
    BY <1>2, Zenon DEF Handler
<1>3. ASSUME NEW t \in Tasks, Core(t)
      PROVE  UNCHANGED wiping /\ (UNCHANGED calm \/ calm' = FALSE)
    BY <1>3, Zenon DEF Core
<1>4. ASSUME NEW t \in Tasks, Failure(t) PROVE calm' = FALSE
    BY <1>4, Zenon DEF Failure
<1>5. ASSUME Crash PROVE calm' = FALSE
    BY <1>5, Zenon DEF Crash, Die
<1>6. ASSUME Wipe \/ UNCHANGED vars
      PROVE  UNCHANGED calm /\ (wiping' = FALSE \/ UNCHANGED wiping)
    BY <1>6, Zenon DEF Wipe
<1> HIDE DEF TiCreateInvalid, TiCreate, TiDelete, TiRead, TiGetNoQuery, TiUpdate,
        Clean, Translated, BsfFound, BsfNone, IdTaken, IdFree, Unbuildable,
        ResourceOpened, ResourceRefused, InsertOne, InsertDuplicate,
        ReinsertDuplicate, TiCreated, DeleteFound, DeleteNotFound, Terminated,
        CountBefore, DeleteOne, CountAfter, ReadDone, PcfCreate, UdrPut,
        PcfDelete, CoreDelete, CoreReject, HttpTimeout, DbFault
<1>7. calm' # FALSE
    BY Zenon
<1>8. /\ ~Crash /\ \A t \in Tasks : ~Failure(t)
    BY <1>4, <1>5, <1>7
<1>9. \/ \E t \in Tasks : Client(t) \/ Handler(t) \/ Core(t)
      \/ Wipe \/ UNCHANGED vars
    BY <1>8 DEF Next
<1>10. UNCHANGED calm /\ (wiping' = FALSE \/ UNCHANGED wiping)
    BY <1>1, <1>2, <1>3, <1>6, <1>7, <1>9
<1>11. calm /\ (wiping' => wiping)
    BY <1>10
<1> QED
    BY <1>9, <1>11, Zenon

\* What such a step does to a handler, when it stores and removes nothing and no
\* resource changes.
CalmMove(u) ==
    /\ SteadyAt(req'[u])
    /\ Storing(u)' <=> Storing(u)
    /\ Terminating(u)' => Terminating(u)
    /\ Storing(u) \/ Terminating(u)' => req'[u].loc = req[u].loc
    /\ Ending(u) => Ending(u)' /\ req'[u].sid = req[u].sid
    /\ \A r \in Resources : LeavesBehind(u, r) => LeavesBehind(u, r)'

CalmQuiet ==
    /\ ~wiping'
    /\ \A u \in Tasks : CalmMove(u)
    /\ UNCHANGED docs
    /\ \A r \in Resources : ResourceStatus(r)' = ResourceStatus(r)

LEMMA CalmStays ==
    ASSUME NEW u \in Tasks, SteadyAt(req[u]), req'[u] = req[u]
    PROVE  CalmMove(u)
BY DEF CalmMove, Storing, Terminating, Ending, Removing, LeavesBehind

LEMMA CalmOne ==
    ASSUME Steady, ~wiping', NEW t \in Tasks, Only(t), CalmMove(t), UNCHANGED docs,
           \A r \in Resources : ResourceStatus(r)' = ResourceStatus(r)
    PROVE  CalmQuiet
<1>1. \A u \in Tasks \ {t} : CalmMove(u)
    BY CalmStays DEF Steady, Only
<1> QED
    BY <1>1 DEF CalmQuiet

LEMMA CalmAnswers ==
    ASSUME TypeOK, ControlInv, Steady, ~wiping', NEW t \in Tasks,
           NEW a \in Answers, NEW h \in Locations \cup {None}, Answer(t, a, h),
           \/ req[t].pc \in {"bsf", "check", "stored", "get", "recount", "read"}
           \/ req[t].pc = "core" /\ req[t].call = "refused",
           UNCHANGED <<docs, core>>
    PROVE  CalmQuiet
<1>1. Keeps(t) /\ req'[t].pc = "done" /\ req'[t].call = req[t].call
    BY Answering
<1>2. Control(req[t]) /\ SteadyAt(req[t])
    BY DEF ControlInv, Steady
<1>3. CalmMove(t)
    BY <1>1, <1>2 DEF CalmMove, Keeps, SteadyAt, Control, Storing, Terminating,
       Ending, Removing, LeavesBehind
<1> QED
    BY <1>1, <1>3, CalmOne, StatusStays DEF Keeps

\* A call that is turned down, but for a /tidelete.
LEMMA CalmRefusals ==
    ASSUME TypeOK, ControlInv, Steady, ~wiping', NEW t \in Tasks,
           req[t].call = "sent", req' = [req EXCEPT ![t].call = "refused"],
           req[t].op # "tidelete", UNCHANGED docs,
           \A r \in Resources : ResourceStatus(r)' = ResourceStatus(r)
    PROVE  CalmQuiet
<1>1. Keeps(t) /\ req'[t].pc = req[t].pc /\ req'[t].call = "refused"
    BY Calling
<1>2. SteadyAt(req[t])
    BY DEF Steady
<1>3. CalmMove(t)
    BY <1>1, <1>2 DEF CalmMove, Keeps, SteadyAt, Storing, Terminating, Ending,
       Removing, LeavesBehind
<1> QED
    BY <1>1, <1>3, CalmOne DEF Keeps

LEMMA CalmHandlers ==
    ASSUME TypeOK, ControlInv, DataInv, Steady, ~UuidRepeat, ~wiping',
           NEW t \in Tasks, Handler(t)
    PROVE  CalmQuiet \/ Stores(t) \/ Drops(t)
<1> USE DEF At
<1>1. hdrLoc \in Locations \cup {None} /\ None \in Locations \cup {None}
    BY DEF TypeOK
<1>2. Control(req[t]) /\ SteadyAt(req[t])
    BY DEF ControlInv, Steady
<1>3. req[t] \in Request /\ Named(req[t]) /\ req \in [Tasks -> Request]
    BY Names DEF TypeOK
<1>4. ASSUME Keeps(t), UNCHANGED <<docs, core>>,
             \/ /\ req[t].pc = "check" /\ req'[t].pc = "core"
                /\ req'[t].call = "sent"
             \/ /\ req[t].pc = "core" /\ req'[t].pc = "insert"
                /\ req[t].call = "ok" /\ req'[t].call = "ok"
             \/ /\ <<req[t].pc, req'[t].pc>> \in
                       {<<"term", "count">>, <<"count", "remove">>}
                /\ req[t].call \in {"ok", "refused"} /\ req'[t].call = req[t].call
      PROVE  CalmQuiet
  <2>1. CalmMove(t)
    BY <1>2, <1>4 DEF CalmMove, Keeps, SteadyAt, Control, Storing, Terminating,
       Ending, Removing, LeavesBehind, Deletes
  <2> QED
    BY <1>4, <2>1, CalmOne, StatusStays DEF Keeps
<1>5. ASSUME Takes(t) PROVE CalmQuiet
  <2>1. CASE req[t].pc = "insert" /\ docs[req[t].sid] # None
    <3>1. req[t].sid \in Stored /\ req[t].op = "create" /\ req[t].sid # None
        BY <1>2, <2>1, NoneAssumption DEF Control, Stored
    <3>2. PICK u \in Tasks : Past(u) /\ req[u].sid = req[t].sid
        BY <3>1 DEF DataInv, RecordPast
    <3>3. u = t
        BY <3>1, <3>2 DEF DataInv, UniqueIds, Past, Got
    <3> QED
        BY <2>1, <3>2, <3>3 DEF Past
  <2>2. CASE req'[t].pc = "check" /\ req[t].call = "none"
    <3>1. CalmMove(t)
        BY <1>5, <2>2 DEF Takes, CalmMove, SteadyAt, Storing, Terminating, Ending,
           Removing, LeavesBehind
    <3> QED
        BY <1>5, <3>1, CalmOne, StatusStays DEF Takes
  <2> QED
    BY <1>5, <2>1, <2>2 DEF Takes
<1>6. CASE Translated(t) \/ BsfFound(t) \/ IdTaken(t) \/ InsertDuplicate(t)
    BY <1>5, <1>6, Taking
<1>7. CASE BsfNone(t)
    BY <1>7, <1>1, CalmAnswers DEF BsfNone, Answers
<1>8. CASE IdFree(t)
  <2>1. [req[t] EXCEPT !.pc = "core", !.call = "sent"] \in Request
    BY <1>3, SetPc, SetCall DEF Waiting
  <2>2. Keeps(t) /\ req'[t].pc = "core" /\ req'[t].call = "sent"
    BY <1>3, <1>8, <2>1 DEF IdFree, Keeps, Only, Named
  <2> QED
    BY <1>4, <1>8, <2>2 DEF IdFree
<1>9. CASE Unbuildable(t)
    BY <1>9, <1>1, CalmAnswers DEF Unbuildable, Answers
<1>10. CASE ResourceOpened(t)
  <2>1. Keeps(t) /\ req'[t].pc = "insert" /\ req'[t].call = req[t].call
    BY <1>10, Going DEF ResourceOpened, Waiting
  <2> QED
    BY <1>4, <1>10, <2>1 DEF ResourceOpened
<1>11. CASE ResourceRefused(t)
    BY <1>11, <1>1, CalmAnswers DEF ResourceRefused, Answers
<1>12. CASE InsertOne(t)
    BY <1>12, Storage
<1>13. CASE ReinsertDuplicate(t)
    BY <1>2, <1>13 DEF ReinsertDuplicate, SteadyAt
<1>14. CASE TiCreated(t)
  <2>1. req[t].sid \in Locations \cup {None} /\ req[t].pc = "stored"
    BY <1>2, <1>3, <1>14, Typed, IdsAssumption DEF TiCreated, SteadyAt
  <2> QED
    BY <1>14, <2>1, CalmAnswers DEF TiCreated, Answers
<1>15. CASE DeleteFound(t)
  <2>1. Aims(t)
    BY <1>15, Aiming
  <2>2. CalmMove(t)
    BY <1>2, <2>1 DEF Aims, CalmMove, SteadyAt, Control, Storing, Terminating,
       Ending, Removing, LeavesBehind, Deletes
  <2> QED
    BY <2>1, <2>2, CalmOne, StatusStays DEF Aims
<1>16. CASE DeleteNotFound(t)
  <2>1. PICK a \in {"server_error", "not_found"} : Answer(t, a, None)
    BY <1>16, Zenon DEF DeleteNotFound
  <2> QED
    BY <1>1, <1>16, <2>1, CalmAnswers DEF DeleteNotFound, Answers
<1>17. CASE Terminated(t)
  <2>1. Keeps(t) /\ req'[t].pc = "count" /\ req'[t].call = req[t].call
    BY <1>17, Going DEF Terminated, Waiting
  <2> QED
    BY <1>4, <1>17, <2>1 DEF Terminated
<1>18. CASE CountBefore(t)
  <2>1. Cardinality(Stored) \in Int
    BY IdsAssumption, FS_Subset, FS_CardinalityType DEF Stored
  <2>2. [req[t] EXCEPT !.pc = "remove", !.cnt = Cardinality(Stored)] \in Request
    BY <1>3, <2>1, SetPc, SetCnt DEF Waiting
  <2>3. Keeps(t) /\ req'[t].pc = "remove" /\ req'[t].call = req[t].call
    BY <1>3, <1>18, <2>2 DEF CountBefore, Keeps, Only, Named
  <2>4. req[t].call \in {"ok", "refused"}
    BY <1>2, <1>3, <1>18, Typed DEF CountBefore, SteadyAt
  <2> QED
    BY <1>4, <1>18, <2>3, <2>4 DEF CountBefore
<1>19. CASE DeleteOne(t)
    BY <1>19, Dropping
<1>20. CASE CountAfter(t)
  <2>1. PICK a \in {"deleted", "ok_null", "failed_to_delete"},
             h \in Locations \cup {None} :
            Answer(t, a, h)
    BY <1>1, <1>20, Zenon DEF CountAfter, NotCounted
  <2> QED
    BY <1>20, <2>1, CalmAnswers DEF CountAfter, Answers
<1>21. CASE ReadDone(t)
  <2>1. PICK a \in {"ok", "not_found"}, h \in Locations \cup {None} : Answer(t, a, h)
    BY <1>1, <1>21, Zenon DEF ReadDone
  <2> QED
    BY <1>21, <2>1, CalmAnswers DEF ReadDone, Answers
<1> QED
    BY <1>6, <1>7, <1>8, <1>9, <1>10, <1>11, <1>12, <1>13, <1>14, <1>15, <1>16,
       <1>17, <1>18, <1>19, <1>20, <1>21 DEF Handler

LEMMA CalmSteps ==
    ASSUME TypeOK, ControlInv, DataInv, Steady, ~UuidRepeat, calm', [Next]_vars
    PROVE  /\ calm /\ ~wiping'
           /\ \/ CalmQuiet
              \/ \E t \in Tasks :
                    \/ Stores(t) \/ Drops(t) \/ PcfDelete(t) \/ CoreDelete(t)
                    \/ \E r \in Resources : Grants(t, r)
<1>1. /\ calm /\ ~wiping'
      /\ \/ \E t \in Tasks : Client(t) \/ Handler(t) \/ Core(t)
         \/ Wipe \/ UNCHANGED vars
    BY CalmActions, Zenon DEF TypeOK, Steady
<1>2. ASSUME NEW t \in Tasks, Client(t), ~wiping' PROVE CalmQuiet
  <2>1. Begins(t)
    BY <1>2, Beginning
  <2>2. Control(req[t]) /\ SteadyAt(req[t])
    BY DEF ControlInv, Steady
  <2>3. CalmMove(t)
    BY <2>1, <2>2 DEF Begins, CalmMove, SteadyAt, Control, Storing, Terminating,
       Ending, Removing, LeavesBehind, Deletes
  <2> QED
    BY <1>2, <2>1, <2>3, CalmOne, StatusStays DEF Begins
<1>3. ASSUME NEW t \in Tasks, UdrPut(t), ~wiping'
      PROVE  CalmQuiet \/ \E r \in Resources : Grants(t, r)
  <2>1. CASE infl[req[t].sid] = "live"
    BY <1>3, <2>1, UdrRefusing, CalmRefusals DEF UdrPut
  <2>2. CASE infl[req[t].sid] # "live"
    BY <1>3, <2>2, UdrGranting
  <2> QED
    BY <2>1, <2>2
<1>4. ASSUME NEW t \in Tasks, CoreReject(t), ~wiping', calm' PROVE CalmQuiet
  <2>1. req[t].op # "tidelete"
    BY <1>4, Zenon DEF CoreReject
  <2> QED
    BY <1>4, <2>1, CalmRefusals, StatusStays DEF CoreReject
<1>5. ASSUME NEW t \in Tasks, Core(t), ~wiping'
      PROVE  \/ CalmQuiet \/ PcfDelete(t) \/ CoreDelete(t)
             \/ \E r \in Resources : Grants(t, r)
    BY <1>3, <1>4, <1>5, PcfGranting DEF Core
<1>6. ~Wipe
    BY DEF Wipe, Steady
<1>7. CASE UNCHANGED vars
    BY <1>1, <1>7, CalmStays, StatusStays DEF CalmQuiet, Steady
<1> QED
    BY <1>1, <1>2, <1>5, <1>6, <1>7, CalmHandlers

\* A deletion is answered: it ended its resource, or it is a /tidelete that was
\* too late or named influence data.
Ends(t) ==
    /\ Keeps(t) /\ req'[t].pc = req[t].pc /\ UNCHANGED docs
    /\ Addressed(t) /\ req[t].call = "sent"
    /\ \A r \in Resources \ {req[t].loc} : ResourceStatus(r)' = ResourceStatus(r)
    /\ \/ /\ req'[t].call = "ok"
          /\ ResourceStatus(req[t].loc) = "live" /\ After(req[t].loc) = "ended"
       \/ /\ req'[t].call = "refused"
          /\ After(req[t].loc) = ResourceStatus(req[t].loc)
          /\ req[t].loc \in Sessions => ResourceStatus(req[t].loc) = "ended"

LEMMA PcfEnding ==
    ASSUME TypeOK, ControlInv, HolderInv, OpenedInv, ~UuidRepeat, Pcfs = {HostPcf},
           NEW t \in Tasks, PcfDelete(t)
    PROVE  Ends(t)
<1> DEFINE s == <<HostPcf, req[t].loc[2]>>
           r == req[t].loc
<1>1. Addressed(t) /\ req[t].call = "sent" /\ UNCHANGED docs /\ UNCHANGED infl
    BY DEF PcfDelete, Addressed, Deletes
<1>2. r \in Resources /\ ResourceStatus(r) # "none"
    BY <1>1, AddressedFacts
<1>3. ASSUME NEW c \in {"ok", "refused"}, req' = [req EXCEPT ![t].call = c]
      PROVE  Keeps(t) /\ req'[t].pc = req[t].pc /\ req'[t].call = c
    BY <1>3, Calling
<1>4. CASE r \in Sessions
  <2>1. s = r
    BY <1>4 DEF Sessions
  <2>2. CASE sess[r] = "live"
    <3>1. /\ sess' = [sess EXCEPT ![r] = "ended"]
          /\ req' = [req EXCEPT ![t].call = "ok"]
        BY <1>4, <2>1, <2>2 DEF PcfDelete
    <3>2. \A q \in Resources \ {r} : ResourceStatus(q)' = ResourceStatus(q)
        BY <1>1, <1>4, <3>1 DEF ResourceStatus, TypeOK
    <3>3. ResourceStatus(r) = "live" /\ After(r) = "ended"
        BY <1>4, <2>2, <3>1 DEF ResourceStatus, After, TypeOK
    <3> QED
        BY <1>1, <1>3, <3>1, <3>2, <3>3 DEF Ends
  <2>3. CASE sess[r] # "live"
    <3>1. UNCHANGED sess /\ req' = [req EXCEPT ![t].call = "refused"]
        BY <2>1, <2>3 DEF PcfDelete
    <3>2. ResourceStatus(r) = "ended"
        BY <1>2, <1>4, <2>3 DEF ResourceStatus, TypeOK, Status
    <3>3. After(r) = ResourceStatus(r)
        BY <1>1, <3>1 DEF After, ResourceStatus
    <3> QED
        BY <1>1, <1>3, <3>1, <3>2, <3>3, StatusStays DEF Ends
  <2> QED
    BY <2>2, <2>3
<1>5. CASE r \notin Sessions
  <2>1. s \notin Sessions
    BY <1>2, <1>5, IdsAssumption DEF Resources, Influence, Sessions
  <2>2. UNCHANGED sess /\ req' = [req EXCEPT ![t].call = "refused"]
    BY <2>1 DEF PcfDelete
  <2>3. After(r) = ResourceStatus(r)
    BY <1>1, <2>2 DEF After, ResourceStatus
  <2> QED
    BY <1>1, <1>3, <1>5, <2>2, <2>3, StatusStays DEF Ends
<1> QED
    BY <1>4, <1>5

LEMMA CoreEnding ==
    ASSUME TypeOK, ControlInv, NEW t \in Tasks, CoreDelete(t)
    PROVE  Ends(t)
<1> DEFINE r == req[t].loc
<1>1. /\ Addressed(t) /\ req[t].call = "sent" /\ UNCHANGED docs
      /\ ResourceStatus(r) = "live"
    BY DEF CoreDelete, Addressed, Deletes
<1>2. r \in Resources
    BY <1>1 DEF ControlInv, Control, Addressed
<1>3. Keeps(t) /\ req'[t].pc = req[t].pc /\ req'[t].call = "ok"
    BY Calling DEF CoreDelete
<1>4. CASE r \in Sessions
  <2>1. sess' = [sess EXCEPT ![r] = "ended"] /\ UNCHANGED infl
    BY <1>4 DEF CoreDelete
  <2>2. \A q \in Resources \ {r} : ResourceStatus(q)' = ResourceStatus(q)
    BY <1>4, <2>1 DEF ResourceStatus, TypeOK
  <2>3. After(r) = "ended"
    BY <1>4, <2>1 DEF After, TypeOK
  <2> QED
    BY <1>1, <1>3, <2>2, <2>3 DEF Ends
<1>5. CASE r \notin Sessions
  <2>1. PICK i \in Ids : r = <<"udr", i>>
    BY <1>2, <1>5 DEF Resources, Influence
  <2>2. infl' = [infl EXCEPT ![i] = "ended"] /\ UNCHANGED sess
    BY <1>5, <2>1 DEF CoreDelete
  <2>3. ASSUME NEW q \in Resources \ {r} PROVE ResourceStatus(q)' = ResourceStatus(q)
    <3>1. CASE q \in Sessions
        BY <2>2, <3>1 DEF ResourceStatus
    <3>2. CASE q \notin Sessions
      <4>1. PICK j \in Ids : q = <<"udr", j>>
          BY <3>2 DEF Resources, Influence
      <4>2. j # i /\ q[2] = j
          BY <2>1, <4>1
      <4>3. infl'[j] = infl[j]
          BY <2>2, <4>2 DEF TypeOK
      <4> QED
          BY <3>2, <4>2, <4>3 DEF ResourceStatus
    <3> QED
        BY <3>1, <3>2
  <2>4. After(r) = "ended"
    BY <1>5, <2>1, <2>2 DEF After, TypeOK
  <2> QED
    BY <1>1, <1>3, <2>3, <2>4 DEF Ends
<1> QED
    BY <1>4, <1>5

LEMMA CalmNext ==
    ASSUME Steady',
           \A t \in Tasks : Storing(t)' => After(req'[t].loc) = "live",
           \A t \in Tasks : Terminating(t)' => After(req'[t].loc) = "ended",
           \A r \in Resources : After(r) = "live" =>
               \/ \E i \in Stored' : docs'[i].loc = r
               \/ \E t \in Tasks : (Storing(t)' /\ req'[t].loc = r)
                                       \/ LeavesBehind(t, r)',
           \A i \in Stored' :
               \/ After(docs'[i].loc) = "live"
               \/ \E t \in Tasks : Ending(t)' /\ req'[t].sid = i
    PROVE  CalmFacts'
BY DEF CalmFacts, Known, LiveKept, DeadLeft, ResourceStatus, After

LEMMA CalmStep ==
    ASSUME IInv, OpenedInv, CalmInv, ~UuidRepeat, Pcfs = {HostPcf}, calm', [Next]_vars
    PROVE  CalmFacts'
<1>1. TypeOK /\ ControlInv /\ HolderInv /\ DataInv /\ FinalInv
    BY DEF IInv
<1>2. /\ calm /\ ~wiping'
      /\ \/ CalmQuiet
         \/ \E t \in Tasks : Stores(t) \/ Drops(t) \/ Ends(t)
                                 \/ \E r \in Resources : Grants(t, r)
  <2>1. CASE calm
    BY <1>1, <2>1, CalmSteps, PcfEnding, CoreEnding DEF CalmInv, CalmFacts
  <2>2. CASE ~calm
    BY <1>1, <2>2, CalmActions DEF TypeOK
  <2> QED
    BY <2>1, <2>2
<1>3. Steady /\ Known /\ LiveKept /\ DeadLeft
    BY <1>2 DEF CalmInv, CalmFacts
<1>4. \A t \in Tasks : Control(req[t]) /\ SteadyAt(req[t])
    BY <1>1, <1>3 DEF ControlInv, Steady
<1>5. \A i \in Stored : docs[i].loc \in Resources
    BY <1>1, Located
<1>6. ASSUME NEW t \in Tasks, Storing(t) \/ Terminating(t)
      PROVE  req[t].loc \in Resources
    BY <1>4, <1>6 DEF Storing, Terminating, Control, Resources
<1>7. CASE CalmQuiet
  <2>1. Steady'
    BY <1>7 DEF CalmQuiet, CalmMove, Steady
  <2>2. \A r \in Resources : After(r) = ResourceStatus(r)
    BY <1>7, AfterStep DEF CalmQuiet
  <2>3. \A t \in Tasks : Storing(t)' => After(req'[t].loc) = "live"
    BY <1>3, <1>6, <1>7, <2>2 DEF CalmQuiet, CalmMove, Known
  <2>4. \A t \in Tasks : Terminating(t)' => After(req'[t].loc) = "ended"
    BY <1>3, <1>6, <1>7, <2>2 DEF CalmQuiet, CalmMove, Known
  <2>5. \A r \in Resources : After(r) = "live" =>
               \/ \E i \in Stored' : docs'[i].loc = r
               \/ \E t \in Tasks : (Storing(t)' /\ req'[t].loc = r)
                                       \/ LeavesBehind(t, r)'
    BY <1>3, <1>7, <2>2 DEF CalmQuiet, CalmMove, LiveKept, Stored
  <2>6. \A i \in Stored' :
               \/ After(docs'[i].loc) = "live"
               \/ \E t \in Tasks : Ending(t)' /\ req'[t].sid = i
    BY <1>3, <1>5, <1>7, <2>2 DEF CalmQuiet, CalmMove, DeadLeft, Stored
  <2> QED
    BY <2>1, <2>3, <2>4, <2>5, <2>6, CalmNext
<1>8. ASSUME NEW t \in Tasks, Stores(t) PROVE CalmFacts'
  <2> DEFINE s == req[t].sid
             l == req[t].loc
  <2>1. /\ req[t].pc = "insert" /\ req'[t].pc = "stored" /\ Storing(t)
        /\ req[t].call = "ok" /\ s \in Ids /\ s \notin Stored
    BY <1>4, <1>8 DEF Stores, SteadyAt, Control, Storing, Stored
  <2>2. /\ s \in Stored' /\ docs'[s].loc = l
        /\ \A i \in Ids \ {s} : docs'[i] = docs[i]
    <3> DEFINE d == [owner |-> req[t].af, loc |-> l]
    <3>1. d \in Docs
        BY <1>4, <1>6, <2>1 DEF Control, Docs
    <3>2. docs'[s] = d /\ \A i \in Ids \ {s} : docs'[i] = docs[i]
        BY <1>1, <1>8, <2>1 DEF Stores, TypeOK
    <3>3. d # None /\ d.loc = l
        BY <3>1, NoneAssumption
    <3> QED
        BY <2>1, <3>2, <3>3 DEF Stored
  <2>3. \A i \in Stored' : i = s \/ (i \in Stored /\ docs'[i] = docs[i])
    BY <2>2 DEF Stored
  <2>4. \A u \in Tasks \ {t} : req'[u] = req[u]
    BY <1>8 DEF Stores, Keeps, Only
  <2>5. \A r \in Resources : After(r) = ResourceStatus(r)
    BY <1>8, StatusStays, AfterStep DEF Stores
  <2>6. /\ SteadyAt(req'[t]) /\ ~Storing(t)' /\ ~Terminating(t)' /\ ~Ending(t)
        /\ \A r \in Resources : ~LeavesBehind(t, r)
    BY <1>4, <1>8, <2>1 DEF Stores, Keeps, SteadyAt, Control, Storing, Terminating,
       Ending, Removing, LeavesBehind
  <2>7. Steady'
    BY <1>2, <1>3, <2>4, <2>6 DEF Steady
  <2>8. \A u \in Tasks : Storing(u)' => After(req'[u].loc) = "live"
    BY <1>3, <1>6, <2>4, <2>5, <2>6 DEF Known, Storing
  <2>9. \A u \in Tasks : Terminating(u)' => After(req'[u].loc) = "ended"
    BY <1>3, <1>6, <2>4, <2>5, <2>6 DEF Known, Terminating
  <2>10. ASSUME NEW r \in Resources, After(r) = "live"
         PROVE  \/ \E i \in Stored' : docs'[i].loc = r
                \/ \E u \in Tasks : (Storing(u)' /\ req'[u].loc = r)
                                        \/ LeavesBehind(u, r)'
    <3>1. CASE \E i \in Stored : docs[i].loc = r
        BY <2>1, <2>2, <3>1, NoneAssumption DEF Stored
    <3>2. CASE l = r
        BY <2>2, <3>2
    <3>3. CASE \E u \in Tasks \ {t} : (Storing(u) /\ req[u].loc = r) \/ LeavesBehind(u, r)
        BY <2>4, <3>3 DEF Storing, LeavesBehind
    <3> QED
        BY <1>3, <2>5, <2>6, <2>10, <3>1, <3>2, <3>3 DEF LiveKept
  <2>11. ASSUME NEW i \in Stored', After(docs'[i].loc) # "live"
         PROVE  \E u \in Tasks : Ending(u)' /\ req'[u].sid = i
    <3>1. After(l) = "live"
        BY <1>3, <1>6, <2>1, <2>5 DEF Known
    <3>2. i \in Stored /\ docs'[i] = docs[i]
        BY <2>2, <2>3, <2>11, <3>1
    <3>3. PICK u \in Tasks : Ending(u) /\ req[u].sid = i
        BY <1>3, <1>5, <2>5, <2>11, <3>2 DEF DeadLeft
    <3> QED
        BY <2>4, <2>6, <3>3 DEF Ending, Removing
  <2> QED
    BY <2>7, <2>8, <2>9, <2>10, <2>11, CalmNext
<1>9. ASSUME NEW t \in Tasks, Drops(t) PROVE CalmFacts'
  <2> DEFINE s == req[t].sid
             l == req[t].loc
  <2>1. /\ req[t].pc = "remove" /\ req'[t].pc = "recount" /\ req[t].op \in Deletes
        /\ req[t].call \in {"ok", "refused"} /\ s \in Ids /\ l \in Resources
    <3>1. req[t].call \in {"none", "sent", "ok", "refused"}
        BY <1>1, Typed DEF TypeOK
    <3> QED
        BY <1>4, <1>9, <3>1 DEF Drops, SteadyAt, Control
  <2>2. s \in Stored => docs[s].loc = l
    BY <1>1, <2>1 DEF FinalInv, AimedOwn, Aimed, Stored
  <2>3. \A i \in Stored \ {s} : i \in Stored' /\ docs'[i] = docs[i]
    BY <1>1, <1>9 DEF Drops, TypeOK, Stored
  <2>4. \A i \in Stored' : i \in Stored \ {s} /\ docs'[i] = docs[i]
    <3>1. s \in Stored => Finds(t)
        BY <1>1, <2>1 DEF FinalInv, AimedOwn, Aimed, Finds, Stored
    <3> QED
        BY <1>1, <1>9, <2>1, <3>1 DEF Drops, TypeOK, Stored
  <2>5. \A u \in Tasks \ {t} : req'[u] = req[u]
    BY <1>9 DEF Drops, Keeps, Only
  <2>6. \A r \in Resources : After(r) = ResourceStatus(r)
    BY <1>9, StatusStays, AfterStep DEF Drops
  <2>7. /\ SteadyAt(req'[t]) /\ ~Storing(t)' /\ ~Storing(t)
        /\ (Terminating(t)' => Terminating(t)) /\ req'[t].loc = l
        /\ \A r \in Resources : ~LeavesBehind(t, r)
    BY <1>9, <2>1 DEF Drops, Keeps, SteadyAt, Storing, Terminating, LeavesBehind,
       Deletes
  <2>8. Steady'
    BY <1>2, <1>3, <2>5, <2>7 DEF Steady
  <2>9. \A u \in Tasks : Storing(u)' => After(req'[u].loc) = "live"
    BY <1>3, <1>6, <2>5, <2>6, <2>7 DEF Known, Storing
  <2>10. \A u \in Tasks : Terminating(u)' => After(req'[u].loc) = "ended"
    BY <1>3, <1>6, <2>5, <2>6, <2>7 DEF Known, Terminating
  <2>11. ASSUME NEW r \in Resources, After(r) = "live"
         PROVE  \/ \E i \in Stored' : docs'[i].loc = r
                \/ \E u \in Tasks : (Storing(u)' /\ req'[u].loc = r)
                                        \/ LeavesBehind(u, r)'
    <3>1. CASE r = l
      <4>1. ~Terminating(t)
          BY <1>3, <2>6, <2>11, <3>1 DEF Known
      <4>2. LeavesBehind(t, r)'
          BY <1>9, <2>1, <3>1, <4>1 DEF Drops, Keeps, LeavesBehind, Terminating,
             Deletes, Resources
      <4> QED
          BY <4>2
    <3>2. CASE r # l /\ \E i \in Stored : docs[i].loc = r
        BY <2>2, <2>3, <3>2
    <3>3. CASE \E u \in Tasks \ {t} : (Storing(u) /\ req[u].loc = r) \/ LeavesBehind(u, r)
        BY <2>5, <3>3 DEF Storing, LeavesBehind
    <3> QED
        BY <1>3, <2>6, <2>7, <2>11, <3>1, <3>2, <3>3 DEF LiveKept
  <2>12. ASSUME NEW i \in Stored', After(docs'[i].loc) # "live"
         PROVE  \E u \in Tasks : Ending(u)' /\ req'[u].sid = i
    <3>1. PICK u \in Tasks : Ending(u) /\ req[u].sid = i
        BY <1>3, <1>5, <2>4, <2>6, <2>12 DEF DeadLeft
    <3>2. u # t
        BY <2>4, <3>1
    <3> QED
        BY <2>5, <3>1, <3>2 DEF Ending, Removing
  <2> QED
    BY <2>8, <2>9, <2>10, <2>11, <2>12, CalmNext
<1>10. ASSUME NEW t \in Tasks, Ends(t) PROVE CalmFacts'
  <2> DEFINE l == req[t].loc
  <2>1. /\ l \in Resources
        /\ \A u \in Tasks : Holds(u) => req[u].loc # l
        /\ \A i \in Stored : docs[i].loc = l => i = req[t].sid
    BY <1>1, <1>10, AddressedFacts DEF Ends
  <2>2. /\ req[t].pc = "term" /\ req[t].op \in Deletes /\ req[t].call = "sent"
        /\ req'[t].pc = "term" /\ req'[t].call \in {"ok", "refused"}
        /\ req'[t].op = req[t].op /\ req'[t].loc = l /\ req'[t].sid = req[t].sid
    BY <1>4, <1>10 DEF Ends, Keeps, SteadyAt, Control, Addressed, Deletes
  <2>3. \A u \in Tasks \ {t} : req'[u] = req[u]
    BY <1>10 DEF Ends, Keeps, Only
  <2>4. \A r \in Resources \ {l} : After(r) = ResourceStatus(r)
    BY <1>10, AfterStep DEF Ends
  <2>5. /\ SteadyAt(req'[t]) /\ ~Storing(t)' /\ ~Storing(t) /\ ~Ending(t)
        /\ \A r \in Resources : ~LeavesBehind(t, r)
    BY <2>2 DEF SteadyAt, Storing, Ending, LeavesBehind, Deletes
  <2>6. Steady'
    BY <1>2, <1>3, <2>3, <2>5 DEF Steady
  <2>7. \A u \in Tasks : Storing(u)' => After(req'[u].loc) = "live"
    <3>1. \A u \in Tasks : Storing(u)' => u # t /\ Storing(u) /\ Holds(u)
        BY <2>3, <2>5 DEF Storing, Holds, Got
    <3> QED
        BY <1>3, <1>6, <2>1, <2>3, <2>4, <3>1 DEF Known
  <2>8. \A u \in Tasks : Terminating(u)' => After(req'[u].loc) = "ended"
    <3>1. Terminating(t)' => After(l) = "ended"
        BY <1>10, <2>2 DEF Ends, Terminating
    <3>2. \A u \in Tasks \ {t} : Terminating(u)' => Terminating(u)
        BY <2>3 DEF Terminating
    <3>3. ASSUME NEW u \in Tasks \ {t}, Terminating(u) PROVE After(req[u].loc) = "ended"
        BY <1>3, <1>6, <1>10, <2>4, <3>3 DEF Known, Ends
    <3> QED
        BY <2>2, <2>3, <3>1, <3>2, <3>3
  <2>9. ASSUME NEW r \in Resources, After(r) = "live"
        PROVE  \/ \E i \in Stored' : docs'[i].loc = r
               \/ \E u \in Tasks : (Storing(u)' /\ req'[u].loc = r)
                                       \/ LeavesBehind(u, r)'
    <3>1. ResourceStatus(r) = "live"
        BY <1>10, <2>4, <2>9 DEF Ends
    <3>2. CASE \E i \in Stored : docs[i].loc = r
        BY <1>10, <3>2 DEF Ends, Stored
    <3>3. CASE \E u \in Tasks \ {t} : (Storing(u) /\ req[u].loc = r) \/ LeavesBehind(u, r)
        BY <2>3, <3>3 DEF Storing, LeavesBehind
    <3> QED
        BY <1>3, <2>5, <3>1, <3>2, <3>3 DEF LiveKept
  <2>10. ASSUME NEW i \in Stored', After(docs'[i].loc) # "live"
         PROVE  \E u \in Tasks : Ending(u)' /\ req'[u].sid = i
    <3>1. i \in Stored /\ docs'[i] = docs[i] /\ docs[i].loc \in Resources
        BY <1>5, <1>10 DEF Ends, Stored
    <3>2. CASE ResourceStatus(docs[i].loc) = "live"
      <4>1. docs[i].loc = l /\ req'[t].call = "ok"
          BY <1>10, <2>4, <2>10, <3>1, <3>2 DEF Ends
      <4>2. req[t].sid = i
          BY <2>1, <3>1, <4>1
      <4> QED
          BY <2>2, <4>1, <4>2 DEF Ending, Removing, Deletes
    <3>3. CASE ResourceStatus(docs[i].loc) # "live"
      <4>1. PICK u \in Tasks : Ending(u) /\ req[u].sid = i
          BY <1>3, <3>1, <3>3 DEF DeadLeft
      <4> QED
          BY <2>3, <2>5, <4>1 DEF Ending, Removing
    <3> QED
        BY <3>2, <3>3
  <2> QED
    BY <2>6, <2>7, <2>8, <2>9, <2>10, CalmNext
<1>11. ASSUME NEW t \in Tasks, NEW r \in Resources, Grants(t, r) PROVE CalmFacts'
  <2>1. /\ req[t].pc = "core" /\ req'[t].pc = "core" /\ req'[t].op = "create"
        /\ req[t].call = "sent" /\ req'[t].call = "ok" /\ req'[t].loc = r
        /\ UNCHANGED docs
    BY <1>4, <1>11 DEF Grants, SteadyAt, Control, Deletes
  <2>2. \A u \in Tasks \ {t} : req'[u] = req[u]
    BY <1>11 DEF Grants, Only
  <2>3. After(r) = "live" /\ \A q \in Resources \ {r} : After(q) = ResourceStatus(q)
    BY <1>11, AfterStep DEF Grants
  <2>4. /\ SteadyAt(req'[t]) /\ Storing(t)' /\ ~Terminating(t)' /\ ~Storing(t)
        /\ ~Ending(t) /\ \A q \in Resources : ~LeavesBehind(t, q)
    BY <2>1 DEF SteadyAt, Storing, Terminating, Ending, LeavesBehind
  <2>5. Steady'
    BY <1>2, <1>3, <2>2, <2>4 DEF Steady
  <2>6. \A u \in Tasks : Storing(u)' => After(req'[u].loc) = "live"
    <3>1. \A u \in Tasks \ {t} : Storing(u)' => Storing(u)
        BY <2>2 DEF Storing
    <3> QED
        BY <1>3, <1>6, <2>1, <2>2, <2>3, <3>1 DEF Known
  <2>7. ASSUME NEW u \in Tasks, Terminating(u)' PROVE After(req'[u].loc) = "ended"
    <3>1. u # t /\ Terminating(u) /\ req[u].loc \in Sessions
        BY <2>2, <2>4, <2>7 DEF Terminating
    <3>2. ResourceStatus(req[u].loc) = "ended"
        BY <1>3, <3>1 DEF Known
    <3>3. req[u].loc # r
        BY <1>11, <3>1, <3>2, HostAssumption DEF Grants, Sessions
    <3> QED
        BY <1>6, <2>2, <2>3, <3>1, <3>2, <3>3
  <2>8. ASSUME NEW q \in Resources, After(q) = "live"
        PROVE  \/ \E i \in Stored' : docs'[i].loc = q
               \/ \E u \in Tasks : (Storing(u)' /\ req'[u].loc = q)
                                       \/ LeavesBehind(u, q)'
    <3>1. CASE q = r
        BY <2>1, <2>4, <3>1
    <3>2. CASE q # r /\ \E i \in Stored : docs[i].loc = q
        BY <2>1, <3>2 DEF Stored
    <3>3. CASE \E u \in Tasks \ {t} : (Storing(u) /\ req[u].loc = q) \/ LeavesBehind(u, q)
        BY <2>2, <3>3 DEF Storing, LeavesBehind
    <3> QED
        BY <1>3, <2>3, <2>4, <2>8, <3>1, <3>2, <3>3 DEF LiveKept
  <2>9. ASSUME NEW i \in Stored', After(docs'[i].loc) # "live"
        PROVE  \E u \in Tasks : Ending(u)' /\ req'[u].sid = i
    <3>1. i \in Stored /\ docs'[i] = docs[i] /\ ResourceStatus(docs[i].loc) # "live"
        BY <1>5, <2>1, <2>3, <2>9 DEF Stored
    <3>2. PICK u \in Tasks : Ending(u) /\ req[u].sid = i
        BY <1>3, <3>1 DEF DeadLeft
    <3> QED
        BY <2>2, <2>4, <3>2 DEF Ending, Removing
  <2> QED
    BY <2>5, <2>6, <2>7, <2>8, <2>9, CalmNext
<1> QED
    BY <1>2, <1>7, <1>8, <1>9, <1>10, <1>11

-----------------------------------------------------------------------------
(* The theorem.                                                            *)

LEMMA CalmInit == Init => OpenedInv /\ CalmInv
<1> SUFFICES ASSUME Init PROVE OpenedInv /\ CalmInv
    OBVIOUS
<1>1. /\ NoRequest.op = None /\ NoRequest.call = "none" /\ NoRequest.pc = "idle"
    BY DEF NoRequest
<1>2. Stored = {} /\ \A t \in Tasks : req[t] = NoRequest
    BY DEF Init, Stored
<1>3. \A t \in Tasks : ~Addressed(t) /\ ~Storing(t) /\ ~Terminating(t) /\ SteadyAt(req[t])
    BY <1>1, <1>2 DEF Addressed, Storing, Terminating, SteadyAt
<1>4. \A r \in Resources : ResourceStatus(r) = "none"
    BY DEF Init, ResourceStatus, Resources, Influence
<1>5. OpenedInv
    BY <1>2, <1>3 DEF OpenedInv, RecordOpened, AddressedOpened
<1>6. Steady /\ Known /\ LiveKept /\ DeadLeft
    BY <1>2, <1>3, <1>4 DEF Init, Steady, Known, LiveKept, DeadLeft
<1> QED
    BY <1>5, <1>6 DEF CalmInv, CalmFacts

LEMMA CalmNextStep ==
    ASSUME IInv, OpenedInv, CalmInv, [Next]_vars
    PROVE  OpenedInv' /\ CalmInv'
<1>1. OpenedInv'
    BY OpenedStep DEF IInv
<1>2. CASE calm' /\ ~UuidRepeat /\ Pcfs = {HostPcf}
    BY <1>1, <1>2, CalmStep DEF CalmInv
<1>3. CASE ~(calm' /\ ~UuidRepeat /\ Pcfs = {HostPcf})
    BY <1>1, <1>3 DEF CalmInv
<1> QED
    BY <1>2, <1>3

LEMMA CalmAgrees == CalmInv => CalmCoherence
BY DEF CalmInv, CalmFacts, LiveKept, DeadLeft, Ending, CalmCoherence

\* While nothing has failed, records and live core resources agree but for the
\* handlers at work and for what DELETE leaves behind.
THEOREM CalmCoherent == Spec => []CalmCoherence
BY CalmAgrees, CalmInit, CalmNextStep, Invariance, PTL DEF Spec

=============================================================================
