------------------------------ MODULE QosSession ------------------------------
(***************************************************************************)
(* The AsSessionWithQoS API of the NEF: the handlers of main.py 753-961,   *)
(* the records they keep in MongoDB (crud/asSessionWithQoSSub.py) and the  *)
(* application sessions they open and terminate at the PCFs                *)
(* (core/pcf_handler.py).                                                  *)
(*                                                                         *)
(* The service is one asyncio event loop, so a handler runs without        *)
(* interruption from one await to the next.  A task is one HTTP request    *)
(* and its handler; its program counter names the await it is suspended    *)
(* at, and an action is the answer to that await together with the code    *)
(* that runs up to the next one.  Where the outside effect and the moment  *)
(* the handler learns of it can be told apart -- a PCF call whose answer   *)
(* is late or lost, an insert whose acknowledgement is lost -- they are    *)
(* two actions.                                                            *)
(***************************************************************************)
EXTENDS Integers, FiniteSets

CONSTANTS
    Tasks,        \* HTTP requests, each handled once
    Afs,          \* application functions (the scsAsId of the path)
    Ids,          \* subscription ids, the values of uuid4().hex
    Locations,    \* what the shared location header may name, of any API
    Pcfs,         \* PCF instances of the core network
    HostPcf,      \* the PCF at conf.HOSTS['PCF'][0]
    Ctxs,         \* what a PCF names an application session by
    BsfKnown,     \* "BSF" in conf.HOSTS
    UuidRepeat,   \* TRUE: uuid4 may draw an id that was drawn before
    Ops,          \* endpoints the clients use
    Faults,       \* what may go wrong: calls, MongoDB, the process, or the request
    None          \* no record, no id, no session, no reply

Sessions == Pcfs \X Ctxs
Docs     == [owner : Afs, loc : Sessions]

AllOps    == {"create", "delete", "qdelete", "get", "list", "qget",
              "update", "clean"}
AllFaults == {"timeout", "pcf", "db", "crash", "body"}

ASSUME HostAssumption == HostPcf \in Pcfs
ASSUME FlagAssumption == BsfKnown \in BOOLEAN /\ UuidRepeat \in BOOLEAN
ASSUME OpsAssumption  == Ops \subseteq AllOps /\ Faults \subseteq AllFaults
ASSUME IdsAssumption  == IsFiniteSet(Ids) /\ Ids \subseteq Locations
ASSUME NoneAssumption ==
    /\ None \notin Ids /\ None \notin Afs /\ None \notin Pcfs
    /\ None \notin Sessions /\ None \notin Docs /\ None \notin AllOps

VARIABLES
    \* Local variables of the handlers.
    pc,      \* the await a task is suspended at
    op,      \* the endpoint it was sent to
    af,      \* the AF in its path (None at the internal endpoints)
    sid,     \* _id of a create, subId of the path otherwise
    host,    \* the PCF a create sends its session request to
    loc,     \* session in the PCF's Location header, or in the record read
    cnt,     \* n of the delete functions of crud/
    call,    \* the PCF call of a task
    reply,   \* the HTTP answer
    \* State the tasks share.
    docs,    \* collection as_session_with_qos_sub
    hdrLoc,  \* conf.GLOBAL_HEADERS['location']
    wiping,  \* a delete_many of clean_db is still to run
    \* The PCFs.
    sess,    \* application sessions
    cb,      \* the id in the notification URI of a session
    \* Auxiliary.
    calm     \* no call, database operation or process has failed so far

request   == <<op, af>>
locals    == <<op, af, sid, host, loc, cnt>>
pcf       == <<sess, cb>>
shared    == <<docs, hdrLoc, wiping>>
vars      == <<pc, op, af, sid, host, loc, cnt, call, reply,
               docs, hdrLoc, wiping, sess, cb, calm>>

Waiting == {"bsf", "check", "pcf", "insert", "stored", "reinsert", "restored",
            "get", "term", "count", "remove", "recount", "read"}
Answers == {"created", "deleted", "ok", "cleaned", "bad_request", "not_found",
            "failed_to_delete", "server_error", "returned_exception",
            "pcf_status"}
Replies == [ans : Answers, loc : Locations \cup {None}]

Init ==
    /\ pc     = [t \in Tasks |-> "idle"]
    /\ op     = [t \in Tasks |-> None]
    /\ af     = [t \in Tasks |-> None]
    /\ sid    = [t \in Tasks |-> None]
    /\ host   = [t \in Tasks |-> None]
    /\ loc    = [t \in Tasks |-> None]
    /\ cnt    = [t \in Tasks |-> 0]
    /\ call   = [t \in Tasks |-> "none"]
    /\ reply  = [t \in Tasks |-> None]
    /\ docs   = [i \in Ids |-> None]
    /\ hdrLoc = None
    /\ wiping = FALSE
    /\ sess   = [s \in Sessions |-> "none"]
    /\ cb     = [s \in Sessions |-> None]
    /\ calm   = TRUE

-----------------------------------------------------------------------------
(* Operators the handlers share.                                           *)

Stored == {i \in Ids : docs[i] # None}

\* uuid.uuid4().hex: without UuidRepeat an id no request has named before.
Draw == IF UuidRepeat THEN Ids ELSE Ids \ {sid[t] : t \in Tasks}

Goto(t, l) == pc' = [pc EXCEPT ![t] = l]

\* The handler returns or raises; l is the location header of the response.
Answer(t, a, l) ==
    /\ Goto(t, "done")
    /\ reply' = [reply EXCEPT ![t] = [ans |-> a, loc |-> l]]

\* A request reaches its endpoint.
Accept(t, o, a) ==
    /\ pc[t] = "idle"
    /\ o \in Ops
    /\ op' = [op EXCEPT ![t] = o]
    /\ af' = [af EXCEPT ![t] = a]

\* Mutant of Finds: the query forgets the owner.
FindsAnyOwner(t) == docs[sid[t]] # None

\* The query of a lookup: by id and owner, or by id alone.
Finds(t) ==
    /\ docs[sid[t]] # None
    /\ op[t] \in {"qdelete", "qget"} \/ docs[sid[t]].owner = af[t]

\* The session a delete call addresses: always at HOSTS['PCF'][0], whatever
\* PCF the Location named; only the last segment of the location is kept.
Target(t) == <<HostPcf, loc[t][2]>>

-----------------------------------------------------------------------------
(* POST subscriptions.                                                     *)

\* The body does not parse or fails one of the checks before the first await.
QosCreateInvalid(t) ==
    /\ "body" \in Faults
    /\ \E a \in Afs :
        /\ Accept(t, "create", a)
        /\ Answer(t, "bad_request", None)
        /\ UNCHANGED <<sid, host, loc, cnt, call, shared, pcf, calm>>

\* A valid body: ask the BSF for the UE's PCF when a BSF is known, otherwise
\* draw an id and look it up.
QosCreate(t) ==
    \E a \in Afs :
        /\ Accept(t, "create", a)
        /\ IF BsfKnown
           THEN Goto(t, "bsf") /\ UNCHANGED <<sid, host>>
           ELSE /\ Goto(t, "check")
                /\ host' = [host EXCEPT ![t] = HostPcf]
                /\ \E i \in Draw : sid' = [sid EXCEPT ![t] = i]
        /\ UNCHANGED <<loc, cnt, call, reply, shared, pcf, calm>>

\* The BSF answers: with the binding of the PDU session, or not with 200 OK.
BsfFound(t) ==
    /\ pc[t] = "bsf"
    /\ Goto(t, "check")
    /\ \E p \in Pcfs : host' = [host EXCEPT ![t] = p]
    /\ \E i \in Draw : sid' = [sid EXCEPT ![t] = i]
    /\ UNCHANGED <<request, loc, cnt, call, reply, shared, pcf, calm>>

BsfNone(t) ==
    /\ pc[t] = "bsf"
    /\ Answer(t, "not_found", None)
    /\ UNCHANGED <<locals, call, shared, pcf, calm>>

\* Mutant of IdTaken: the loop looks the same id up again.
IdTakenNoRedraw(t) ==
    /\ pc[t] = "check"
    /\ docs[sid[t]] # None
    /\ UNCHANGED vars

\* check_id finds the id taken: draw another one and look again.
IdTaken(t) ==
    /\ pc[t] = "check"
    /\ docs[sid[t]] # None
    /\ \E i \in Draw : sid' = [sid EXCEPT ![t] = i]
    /\ UNCHANGED <<pc, request, host, loc, cnt, call, reply, shared, pcf, calm>>

\* The id is free: build the session request and post it.
IdFree(t) ==
    /\ pc[t] = "check"
    /\ docs[sid[t]] = None
    /\ Goto(t, "pcf")
    /\ call' = [call EXCEPT ![t] = "sent"]
    /\ UNCHANGED <<locals, reply, shared, pcf, calm>>

\* The id is free, but the request cannot be built: no flow_info, a QoS
\* reference outside QCI_MAP, qos_mon_info, no PCF in conf.HOSTS.
Unbuildable(t) ==
    /\ "body" \in Faults
    /\ pc[t] = "check"
    /\ docs[sid[t]] = None
    /\ Answer(t, "server_error", None)
    /\ UNCHANGED <<locals, call, shared, pcf, calm>>

\* Mutants of SessionOpened: the status code is not looked at; the insert
\* draws an id of its own (the line commented out in the insert function).
SessionOpenedUnchecked(t) ==
    /\ pc[t] = "pcf"
    /\ Goto(t, "insert")
    /\ UNCHANGED <<locals, call, reply, shared, pcf, calm>>

SessionOpenedNewId(t) ==
    /\ pc[t] = "pcf" /\ call[t] = "ok"
    /\ Goto(t, "insert")
    /\ \E i \in Draw : sid' = [sid EXCEPT ![t] = i]
    /\ UNCHANGED <<request, host, loc, cnt, call, reply, shared, pcf, calm>>

\* The PCF's answer reaches the handler.
SessionOpened(t) ==
    /\ pc[t] = "pcf" /\ call[t] = "ok"
    /\ Goto(t, "insert")
    /\ UNCHANGED <<locals, call, reply, shared, pcf, calm>>

SessionRefused(t) ==
    /\ pc[t] = "pcf" /\ call[t] = "refused"
    /\ Answer(t, "pcf_status", hdrLoc)
    /\ UNCHANGED <<locals, call, shared, pcf, calm>>

\* Mutant of InsertOne: the insert is called and not awaited, and never runs.
InsertNotAwaited(t) ==
    /\ \/ pc[t] = "insert" /\ Goto(t, "stored")
       \/ pc[t] = "reinsert" /\ Goto(t, "restored")
    /\ UNCHANGED <<locals, call, reply, shared, pcf, calm>>

\* insert_one at the database, and the second one after a DuplicateKeyError.
InsertOne(t) ==
    /\ \/ pc[t] = "insert" /\ Goto(t, "stored")
       \/ pc[t] = "reinsert" /\ Goto(t, "restored")
    /\ docs[sid[t]] = None
    /\ docs' = [docs EXCEPT ![sid[t]] = [owner |-> af[t], loc |-> loc[t]]]
    /\ UNCHANGED <<locals, call, reply, hdrLoc, wiping, pcf, calm>>

\* Mutant of InsertDuplicate: every exception of the first insert is taken for
\* a duplicate key, a lost acknowledgement too.
InsertAgain(t) ==
    /\ pc[t] \in {"insert", "stored"}
    /\ docs[sid[t]] # None
    /\ Goto(t, "reinsert")
    /\ \E i \in Draw : sid' = [sid EXCEPT ![t] = i]
    /\ UNCHANGED <<request, host, loc, cnt, call, reply, shared, pcf, calm>>

\* DuplicateKeyError: the record takes a new id, unchecked this time.
InsertDuplicate(t) ==
    /\ pc[t] = "insert"
    /\ docs[sid[t]] # None
    /\ Goto(t, "reinsert")
    /\ \E i \in Draw : sid' = [sid EXCEPT ![t] = i]
    /\ UNCHANGED <<request, host, loc, cnt, call, reply, shared, pcf, calm>>

\* A second DuplicateKeyError is raised inside the except clause.
ReinsertDuplicate(t) ==
    /\ pc[t] = "reinsert"
    /\ docs[sid[t]] # None
    /\ Answer(t, "server_error", None)
    /\ UNCHANGED <<locals, call, shared, pcf, calm>>

\* The acknowledgement of the insert: 201, with the location in the headers
\* every handler shares.
QosCreated(t) ==
    /\ pc[t] \in {"stored", "restored"}
    /\ hdrLoc' = sid[t]
    /\ Answer(t, "created", hdrLoc')
    /\ UNCHANGED <<locals, call, docs, wiping, pcf, calm>>

-----------------------------------------------------------------------------
(* DELETE subscriptions/{subId}, and the internal /qdelete/{subId}.        *)

QosDelete(t) ==
    \E i \in Ids :
        /\ \/ \E a \in Afs : Accept(t, "delete", a)
           \/ Accept(t, "qdelete", None)
        /\ Goto(t, "get")
        /\ sid' = [sid EXCEPT ![t] = i]
        /\ UNCHANGED <<host, loc, cnt, call, reply, shared, pcf, calm>>

\* Mutant of DeleteFound: /qdelete removes the record without a PCF call.
DeleteFoundRecordOnly(t) ==
    /\ pc[t] = "get"
    /\ Finds(t)
    /\ loc' = [loc EXCEPT ![t] = docs[sid[t]].loc]
    /\ Goto(t, IF op[t] = "qdelete" THEN "count" ELSE "term")
    /\ call' = [call EXCEPT ![t] = IF op[t] = "qdelete" THEN "none" ELSE "sent"]
    /\ UNCHANGED <<request, sid, host, cnt, reply, shared, pcf, calm>>

\* find_one: read the session out of the record and post its deletion.
DeleteFound(t) ==
    /\ pc[t] = "get"
    /\ Finds(t)
    /\ loc' = [loc EXCEPT ![t] = docs[sid[t]].loc]
    /\ Goto(t, "term")
    /\ call' = [call EXCEPT ![t] = "sent"]
    /\ UNCHANGED <<request, sid, host, cnt, reply, shared, pcf, calm>>

DeleteNotFound(t) ==
    /\ pc[t] = "get"
    /\ ~Finds(t)
    /\ Answer(t, "not_found", None)
    /\ UNCHANGED <<locals, call, shared, pcf, calm>>

\* Mutant of SessionTerminated: DELETE goes on whatever the PCF answers, as
\* /qdelete and the deletion of a traffic influence subscription do.
SessionTerminatedAnyAnswer(t) ==
    /\ pc[t] = "term"
    /\ call[t] \in {"ok", "refused"}
    /\ Goto(t, "count")
    /\ UNCHANGED <<locals, call, reply, shared, pcf, calm>>

\* The PCF's answer.  Only /qdelete goes on when it is not 204.
SessionTerminated(t) ==
    /\ pc[t] = "term"
    /\ call[t] = "ok" \/ (call[t] = "refused" /\ op[t] = "qdelete")
    /\ Goto(t, "count")
    /\ UNCHANGED <<locals, call, reply, shared, pcf, calm>>

SessionUnknown(t) ==
    /\ pc[t] = "term" /\ call[t] = "refused" /\ op[t] = "delete"
    /\ Answer(t, "not_found", None)
    /\ UNCHANGED <<locals, call, shared, pcf, calm>>

\* n = count_documents({})
CountBefore(t) ==
    /\ pc[t] = "count"
    /\ cnt' = [cnt EXCEPT ![t] = Cardinality(Stored)]
    /\ Goto(t, "remove")
    /\ UNCHANGED <<request, sid, host, loc, call, reply, shared, pcf, calm>>

\* delete_one: removes the record if it is still there.
DeleteOne(t) ==
    /\ pc[t] = "remove"
    /\ docs' = IF Finds(t) THEN [docs EXCEPT ![sid[t]] = None] ELSE docs
    /\ Goto(t, "recount")
    /\ UNCHANGED <<locals, call, reply, hdrLoc, wiping, pcf, calm>>

\* n - count_documents({}) must be 1.
CountAfter(t) ==
    /\ pc[t] = "recount"
    /\ IF cnt[t] - Cardinality(Stored) = 1
       THEN Answer(t, "deleted", IF op[t] = "delete" THEN hdrLoc ELSE None)
       ELSE Answer(t, "failed_to_delete", None)
    /\ UNCHANGED <<locals, call, shared, pcf, calm>>

-----------------------------------------------------------------------------
(* The reads, PUT and PATCH, and /clean.                                   *)

QosRead(t) ==
    \E i \in Ids :
        /\ \/ \E a \in Afs, o \in {"get", "list"} : Accept(t, o, a)
           \/ Accept(t, "qget", None)
        /\ Goto(t, "read")
        /\ sid' = [sid EXCEPT ![t] = i]
        /\ UNCHANGED <<host, loc, cnt, call, reply, shared, pcf, calm>>

\* /qget answers 200 with what it found, nothing included.
ReadDone(t) ==
    /\ pc[t] = "read"
    /\ IF op[t] = "qget" THEN Answer(t, "ok", None)
       ELSE IF IF op[t] = "list" THEN \E i \in Stored : docs[i].owner = af[t]
                                 ELSE Finds(t)
       THEN Answer(t, "ok", hdrLoc)
       ELSE Answer(t, "not_found", None)
    /\ UNCHANGED <<locals, call, shared, pcf, calm>>

\* PUT and PATCH hand the coroutine data.json() to from_dict, which raises.
QosUpdate(t) ==
    \E a \in Afs :
        /\ Accept(t, "update", a)
        /\ Answer(t, "server_error", None)
        /\ UNCHANGED <<sid, host, loc, cnt, call, shared, pcf, calm>>

\* /clean starts the deletion of every record and answers without awaiting it.
Clean(t) ==
    /\ Accept(t, "clean", None)
    /\ Answer(t, "cleaned", None)
    /\ wiping' = TRUE
    /\ calm' = FALSE
    /\ UNCHANGED <<sid, host, loc, cnt, call, docs, hdrLoc, pcf>>

\* delete_many({}) at the database.
Wipe ==
    /\ wiping
    /\ wiping' = FALSE
    /\ docs' = [i \in Ids |-> None]
    /\ UNCHANGED <<pc, locals, call, reply, hdrLoc, pcf, calm>>

-----------------------------------------------------------------------------
(* The PCF.  A call it has been sent may be served at any later time, also *)
(* when the handler no longer waits, or never.                             *)

PcfCreate(t) ==
    /\ call[t] = "sent" /\ op[t] = "create"
    /\ \E c \in Ctxs :
        /\ sess[<<host[t], c>>] = "none"
        /\ sess' = [sess EXCEPT ![<<host[t], c>>] = "live"]
        /\ cb' = [cb EXCEPT ![<<host[t], c>>] = sid[t]]
        /\ loc' = [loc EXCEPT ![t] = <<host[t], c>>]
    /\ call' = [call EXCEPT ![t] = "ok"]
    /\ UNCHANGED <<pc, request, sid, host, cnt, reply, shared, calm>>

PcfDelete(t) ==
    /\ call[t] = "sent" /\ op[t] \in {"delete", "qdelete"}
    /\ IF sess[Target(t)] = "live"
       THEN /\ sess' = [sess EXCEPT ![Target(t)] = "ended"]
            /\ call' = [call EXCEPT ![t] = "ok"]
       ELSE /\ call' = [call EXCEPT ![t] = "refused"]
            /\ UNCHANGED sess
    /\ UNCHANGED <<pc, locals, reply, shared, cb, calm>>

\* The PCF turns a session request down, or fails to delete a live session.
PcfReject(t) ==
    /\ call[t] = "sent"
    /\ call' = [call EXCEPT ![t] = "refused"]
    /\ \/ op[t] = "create" /\ UNCHANGED calm
       \/ op[t] # "create" /\ "pcf" \in Faults /\ calm' = FALSE
    /\ UNCHANGED <<pc, locals, reply, shared, pcf>>

-----------------------------------------------------------------------------
(* Failures.                                                               *)

\* httpx gives up on a call (5 s by default) or the connection breaks.  The
\* exception leaves the handler; the call itself may still be served.
HttpTimeout(t) ==
    /\ "timeout" \in Faults
    /\ pc[t] \in {"bsf", "pcf", "term"}
    /\ Answer(t, "server_error", None)
    /\ calm' = FALSE
    /\ UNCHANGED <<locals, call, shared, pcf>>

\* Mutant of DbFault: a failed insert is taken for a successful one.
DbFaultIgnored(t) ==
    /\ "db" \in Faults
    /\ \/ /\ pc[t] = "insert"
          /\ Goto(t, "stored") /\ UNCHANGED reply
       \/ /\ pc[t] \in {"remove", "recount"}
          /\ Answer(t, "failed_to_delete", None)
       \/ /\ pc[t] \in {"check", "stored", "reinsert", "restored", "get", "count", "read"}
          /\ Answer(t, "server_error", None)
    /\ calm' = FALSE
    /\ UNCHANGED <<locals, call, shared, pcf>>

\* A MongoDB operation fails, or, at "stored" and "restored", succeeds and
\* its acknowledgement is lost.  The insert and delete functions catch the
\* exception and return None; everywhere else it leaves the handler.
DbFault(t) ==
    /\ "db" \in Faults
    /\ \/ /\ pc[t] \in {"insert", "stored"}
          /\ Answer(t, "returned_exception", None)
       \/ /\ pc[t] \in {"remove", "recount"}
          /\ Answer(t, "failed_to_delete", None)
       \/ /\ pc[t] \in {"check", "reinsert", "restored", "get", "count", "read"}
          /\ Answer(t, "server_error", None)
    /\ calm' = FALSE
    /\ UNCHANGED <<locals, call, shared, pcf>>

\* The process dies and starts again: handlers and conf are gone, MongoDB,
\* the PCFs and the calls under way stay.
Die ==
    /\ pc' = [t \in Tasks |-> IF pc[t] \in Waiting THEN "dead" ELSE pc[t]]
    /\ hdrLoc' = None
    /\ wiping' \in {wiping, FALSE}
    /\ calm' = FALSE
    /\ UNCHANGED <<locals, call, reply, docs, pcf>>

Crash ==
    /\ "crash" \in Faults
    /\ \E t \in Tasks : pc[t] \in Waiting
    /\ Die

-----------------------------------------------------------------------------
Handler(t) ==
    \/ BsfFound(t) \/ BsfNone(t) \/ IdTaken(t) \/ IdFree(t) \/ Unbuildable(t)
    \/ SessionOpened(t) \/ SessionRefused(t)
    \/ InsertOne(t) \/ InsertDuplicate(t) \/ ReinsertDuplicate(t)
    \/ QosCreated(t)
    \/ DeleteFound(t) \/ DeleteNotFound(t)
    \/ SessionTerminated(t) \/ SessionUnknown(t)
    \/ CountBefore(t) \/ DeleteOne(t) \/ CountAfter(t)
    \/ ReadDone(t)

Client(t) ==
    \/ QosCreateInvalid(t) \/ QosCreate(t) \/ QosDelete(t)
    \/ QosRead(t) \/ QosUpdate(t) \/ Clean(t)

Pcf(t) == PcfCreate(t) \/ PcfDelete(t) \/ PcfReject(t)

Failure(t) == HttpTimeout(t) \/ DbFault(t)

Next ==
    \/ \E t \in Tasks : Client(t) \/ Handler(t) \/ Pcf(t) \/ Failure(t)
    \/ Wipe
    \/ Crash

Spec == Init /\ [][Next]_vars


-----------------------------------------------------------------------------
(* Fairness.  Mongo answers or the driver raises; a PCF or BSF call ends at *)
(* the latest with httpx's timeout, so no PCF need ever answer; and uuid4   *)
(* does not draw taken ids for ever.  Clients and failures owe nothing.     *)

Progress(t) ==
    \/ BsfFound(t) \/ BsfNone(t) \/ IdTaken(t) \/ IdFree(t) \/ Unbuildable(t)
    \/ InsertOne(t) \/ InsertDuplicate(t) \/ ReinsertDuplicate(t)
    \/ QosCreated(t)
    \/ DeleteFound(t) \/ DeleteNotFound(t)
    \/ CountBefore(t) \/ DeleteOne(t) \/ CountAfter(t)
    \/ ReadDone(t)

CallEnds(t) ==
    \/ SessionOpened(t) \/ SessionRefused(t)
    \/ SessionTerminated(t) \/ SessionUnknown(t)
    \/ HttpTimeout(t)

Fairness ==
    \A t \in Tasks :
        /\ WF_vars(Progress(t))
        /\ WF_vars(CallEnds(t))
        /\ SF_vars(IdTaken(t) /\ docs[sid'[t]] = None)

FairSpec == Spec /\ Fairness

-----------------------------------------------------------------------------
(* Properties.                                                             *)

\* Every variable stays in the set its use in the code gives it.
TypeOK ==
    /\ pc     \in [Tasks -> Waiting \cup {"idle", "done", "dead"}]
    /\ op     \in [Tasks -> AllOps \cup {None}]
    /\ af     \in [Tasks -> Afs \cup {None}]
    /\ sid    \in [Tasks -> Ids \cup {None}]
    /\ host   \in [Tasks -> Pcfs \cup {None}]
    /\ loc    \in [Tasks -> Sessions \cup {None}]
    /\ cnt    \in [Tasks -> Int]
    /\ call   \in [Tasks -> {"none", "sent", "ok", "refused"}]
    /\ reply  \in [Tasks -> Replies \cup {None}]
    /\ docs   \in [Ids -> Docs \cup {None}]
    /\ hdrLoc \in Locations \cup {None}
    /\ wiping \in BOOLEAN
    /\ sess   \in [Sessions -> {"none", "live", "ended"}]
    /\ cb     \in [Sessions -> Ids \cup {None}]
    /\ calm   \in BOOLEAN

\* A PCF session belongs to one subscription: no two records name the same
\* one, and a record never names a session its PCF has not opened.  The
\* insert that is retried under another id after a DuplicateKeyError, lost
\* acknowledgements and crashes between insert and answer put it at risk.
OneRecordPerSession ==
    \A i \in Stored :
        /\ sess[docs[i].loc] # "none"
        /\ \A j \in Stored : docs[i].loc = docs[j].loc => i = j

\* The notification URI given to the PCF for a session ends in the id of the
\* record that names the session, so that pcf_qos_notif finds that record
\* (ids drawn twice apart: a record moved by DuplicateKeyError loses this).
CallbackNamesRecord ==
    ~UuidRepeat => \A i \in Stored : cb[docs[i].loc] = i

\* 204 to a DELETE is final: the record is gone and stays gone, whatever the
\* other handlers still hold of it, and its PCF session has been terminated.
\* It takes one PCF (a delete call goes to HOSTS['PCF'][0] wherever the
\* session is), and ids that are not drawn again.
DeleteIsFinal ==
    (Pcfs = {HostPcf} /\ ~UuidRepeat) =>
        \A t \in Tasks :
            (op[t] = "delete" /\ pc[t] = "done" /\ reply[t].ans = "deleted") =>
                docs[sid[t]] = None /\ sess[loc[t]] = "ended"

\* A create handler that has its session and has not stored it yet.
Storing(t) ==
    /\ op[t] = "create" /\ call[t] = "ok"
    /\ pc[t] \in {"pcf", "insert", "reinsert"}

\* A delete handler between the PCF's answer and the removal of the record.
Removing(t) ==
    /\ op[t] \in {"delete", "qdelete"} /\ call[t] # "sent"
    /\ pc[t] \in {"term", "count", "remove"}

\* While nothing has failed, records and live PCF sessions agree but for the
\* handlers still at work: a live session is recorded or about to be, and a
\* record names a live session or is about to be removed.
CalmCoherence ==
    (calm /\ ~UuidRepeat /\ Pcfs = {HostPcf}) =>
        /\ \A s \in Sessions : sess[s] = "live" =>
               \/ \E i \in Stored : docs[i].loc = s
               \/ \E t \in Tasks : Storing(t) /\ loc[t] = s
        /\ \A i \in Stored : sess[docs[i].loc] = "live" \/
               \E t \in Tasks : Removing(t) /\ sid[t] = i

\* A create whose session is open and not known to be stored: it is still at
\* work, died, or told its client of an error.
Untold(t) ==
    /\ op[t] = "create" /\ call[t] = "ok"
    /\ \/ pc[t] \in {"pcf", "insert", "reinsert", "dead"}
       \/ pc[t] = "done" /\ reply[t].ans \in {"server_error", "returned_exception"}

\* A /qdelete that removes a record although the PCF refused.
Discarding(t) ==
    op[t] = "qdelete" /\ call[t] = "refused" /\ pc[t] \in {"recount", "done", "dead"}

\* A delete that terminated its session and has not removed the record: it is
\* still at work, died, or told its client of an error.
Unfinished(t) ==
    /\ op[t] \in {"delete", "qdelete"} /\ call[t] = "ok"
    /\ \/ pc[t] \in {"term", "count", "remove", "dead"}
       \/ pc[t] = "done" /\ reply[t].ans \in {"server_error", "failed_to_delete"}

\* Whatever fails, nothing is left over that every client believes to be in
\* order.  A live PCF session without a record (main.py:881-897) goes back to
\* a create that was not answered 201, to a /qdelete the PCF refused or to
\* /clean; a record whose session has ended (main.py:939-952), to a deletion
\* of this very record that was not answered 204 or 404.
LeftoversExplained ==
    (~UuidRepeat /\ Pcfs = {HostPcf}) =>
        /\ \A s \in Sessions : sess[s] = "live" =>
               \/ \E i \in Stored : docs[i].loc = s
               \/ \E t \in Tasks : (Untold(t) \/ Discarding(t)) /\ loc[t] = s
               \/ \E t \in Tasks : op[t] = "clean"
        /\ \A i \in Stored : sess[docs[i].loc] = "ended" =>
               \E t \in Tasks : Unfinished(t) /\ sid[t] = i

\* A record is never replaced, and it is removed only by its owner's DELETE,
\* by /qdelete or by /clean; and the record a delete handler removes is the
\* one whose session it terminated, although it gave way three times since
\* it read it (ids drawn twice apart).
RemovedByRight ==
    [][\A i \in Ids : (docs[i] # None /\ docs'[i] # docs[i]) =>
          /\ docs'[i] = None
          /\ \/ wiping
             \/ \E t \in Tasks :
                   /\ pc[t] = "remove" /\ pc'[t] = "recount" /\ sid[t] = i
                   /\ op[t] = "qdelete" \/ af[t] = docs[i].owner
                   /\ UuidRepeat \/ loc[t] = docs[i].loc]_vars

\* Every request is answered, unless the process dies under it.
EveryRequestAnswered ==
    \A t \in Tasks : pc[t] # "idle" ~> pc[t] \in {"done", "dead"}

-----------------------------------------------------------------------------
(* The registry of subscriptions the handlers implement.                   *)

\* What a request asks for, and what its answer tells the client.
Verb(o) ==
    IF o \in {"delete", "qdelete"} THEN "delete"
    ELSE IF o \in {"get", "qget"} THEN "get" ELSE o

Outcome(t) ==
    IF pc[t] = "dead" THEN "lost"
    ELSE IF pc[t] # "done" THEN "none"
    ELSE IF reply[t].ans \in {"created", "deleted"} THEN reply[t].ans
    ELSE IF reply[t].ans = "ok" /\ op[t] # "qget" THEN "found"
    ELSE IF reply[t].ans = "not_found" /\ op[t] \in {"get", "list"} THEN "absent"
    ELSE "other"

\* The create under this id has stored its record, or never will.
Spent(i) ==
    \E t \in Tasks :
        /\ op[t] = "create" /\ sid[t] = i
        /\ pc[t] \in {"stored", "restored", "done", "dead"}

Life(i) == IF docs[i] # None THEN "held" ELSE IF Spent(i) THEN "over" ELSE "free"

Registry == INSTANCE SubscriptionRegistry WITH
    verb  <- [t \in Tasks |-> Verb(op[t])],
    af    <- af,
    name  <- sid,
    ans   <- [t \in Tasks |-> Outcome(t)],
    reg   <- [i \in Ids |-> Life(i)],
    owner <- [i \in Ids |-> IF docs[i] = None THEN None ELSE docs[i].owner]

\* With ids that are not drawn again, the handlers, the database and the PCFs
\* together do what the registry promises, through lost calls, failing database
\* operations and crashes: a 201 and a 204 are true and stay true, names are not
\* used twice, and what GET answers was the case while it was asked.
ImplementsRegistry == Registry!Spec

-----------------------------------------------------------------------------
(* What messages, comments and tests of the repository say of the program   *)
(* and the code does not keep; each is refuted by a run of its own.         *)

\* main.py:896, "#delete from pcf": when the record cannot be stored, the
\* session opened for it is deleted at the PCF.
FailedInsertDeletesSession ==
    \A t \in Tasks :
        (op[t] = "create" /\ pc[t] = "done"
            /\ reply[t].ans = "returned_exception") => sess[loc[t]] # "live"

\* main.py:942, "Subscription not found!": a DELETE is answered 404 only when
\* its AF has no such record, or another handler is removing it.
NotFoundMeansNotStored ==
    [][\A t \in Tasks :
          (op[t] = "delete" /\ pc[t] # "done" /\ pc'[t] = "done"
              /\ reply'[t].ans = "not_found") =>
          \/ ~Finds(t)
          \/ \E u \in Tasks \ {t} : Removing(u) /\ sid[u] = sid[t]]_vars

\* main.py:952, "Failed to delete subscription": the record is still there.
FailedDeleteMeansStored ==
    [][\A t \in Tasks :
          (op[t] = "delete" /\ pc[t] # "done" /\ pc'[t] = "done"
              /\ reply'[t].ans = "failed_to_delete") => docs[sid[t]] # None]_vars

\* tests/test.py:86 takes a create for successful when its response has a
\* location header.
LocationMeansCreated ==
    \A t \in Tasks :
        (op[t] = "create" /\ pc[t] = "done" /\ reply[t].loc # None) =>
            reply[t].ans = "created"

=============================================================================
