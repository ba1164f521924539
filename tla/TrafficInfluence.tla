--------------------------- MODULE TrafficInfluence ---------------------------
(***************************************************************************)
(* The traffic influence API of the NEF: the handlers of main.py 520-748,  *)
(* the records they keep in MongoDB (crud/trafficInfluSub.py), and what    *)
(* they leave in the core network: influence data at the UDR for any UE, a *)
(* GPSI or a group, an application session at a PCF for an address.        *)
(*                                                                         *)
(* Tasks, awaits and late calls are as in QosSession.  The locals of a     *)
(* handler are one record, req[t].                                         *)
(***************************************************************************)
EXTENDS Integers, FiniteSets

CONSTANTS
    Tasks,        \* HTTP requests, each handled once
    Afs,          \* application functions (the afId of the path)
    Ids,          \* subscription ids, the values of uuid4().hex
    Locations,    \* what the shared location header may name, of any API
    Pcfs,         \* PCF instances of the core network
    HostPcf,      \* the PCF at conf.HOSTS['PCF'][0]
    Ctxs,         \* what a PCF names an application session by
    Bodies,       \* request bodies of a create
    BsfKnown,     \* "BSF" in conf.HOSTS
    UuidRepeat,   \* TRUE: uuid4 may draw an id that was drawn before
    Ops,          \* endpoints the clients use
    Faults,       \* what may go wrong: calls, MongoDB, the process, or the request
    None          \* no record, no id, no resource, no answer

Filters == {"afAppId", "trafficFilters", "ethTrafficFilters"}
Targets == {"ipv4Addr", "ipv6Addr", "macAddr", "gpsi", "externalGroupId",
            "anyUeInd"}
Fields  == Filters \cup Targets \cup {"dnn", "snssai"}

\* Of a body, the fields that are not None, and those that are true in Python.
AllBodies == [given : SUBSET Fields, true : SUBSET Fields]

Sessions  == Pcfs \X Ctxs
Influence == {"udr"} \X Ids
Resources == Sessions \cup Influence
Docs      == [owner : Afs, loc : Resources]

AllOps    == {"create", "delete", "tidelete", "get", "list", "tiget",
              "update", "clean"}
AllFaults == {"timeout", "pcf", "db", "crash", "body"}
Answers == {"created", "deleted", "ok", "ok_null", "cleaned", "bad_request",
            "not_found", "failed_to_delete", "server_error",
            "returned_exception", "core_status"}

ASSUME HostAssumption == HostPcf \in Pcfs /\ "udr" \notin Pcfs
ASSUME FlagAssumption == BsfKnown \in BOOLEAN /\ UuidRepeat \in BOOLEAN
ASSUME OpsAssumption  == Ops \subseteq AllOps /\ Faults \subseteq AllFaults
ASSUME BodyAssumption == Bodies \subseteq AllBodies
ASSUME IdsAssumption  ==
    IsFiniteSet(Ids) /\ Ids \cap Ctxs = {} /\ Ids \subseteq Locations
ASSUME NoneAssumption ==
    /\ None \notin Ids /\ None \notin Afs /\ None \notin Pcfs
    /\ None \notin Resources /\ None \notin Docs /\ None \notin AllOps \cup Answers
    /\ None \notin Bodies /\ None # "udr"

VARIABLES
    req,     \* the handlers: see Request
    docs,    \* collection traffic_influ_sub
    hdrLoc,  \* conf.GLOBAL_HEADERS['location']
    wiping,  \* a delete_many of clean_db is still to run
    sess,    \* application sessions at the PCFs
    infl,    \* influence data at the UDR, by its id
    calm     \* no call, database operation or process has failed so far

core   == <<sess, infl>>
shared == <<docs, hdrLoc, wiping>>
vars   == <<req, docs, hdrLoc, wiping, sess, infl, calm>>

Waiting == {"translate", "bsf", "check", "core", "insert", "stored", "reinsert",
            "restored", "get", "term", "count", "remove", "recount", "read"}
Status  == {"none", "live", "ended"}

Request ==
    [pc   : Waiting \cup {"idle", "done", "dead"},  \* await, or how it ended
     op   : AllOps \cup {None},
     af   : Afs \cup {None},           \* None at the internal endpoints
     body : Bodies \cup {None},
     sid  : Ids \cup {None},           \* _id of a create, subId of the path
     host : Pcfs \cup {"udr", None},   \* where a create sends its request
     loc  : Resources \cup {None},     \* the Location received, or read
     cnt  : Int,                       \* n of the delete functions
     call : {"none", "sent", "ok", "refused"},  \* the call to the core
     ans  : Answers \cup {None},       \* the HTTP answer
     hdr  : Locations \cup {None}]           \* and its location header

NoRequest ==
    [pc |-> "idle", op |-> None, af |-> None, body |-> None, sid |-> None,
     host |-> None, loc |-> None, cnt |-> 0, call |-> "none", ans |-> None,
     hdr |-> None]

Init ==
    /\ req    = [t \in Tasks |-> NoRequest]
    /\ docs   = [i \in Ids |-> None]
    /\ hdrLoc = None
    /\ wiping = FALSE
    /\ sess   = [s \in Sessions |-> "none"]
    /\ infl   = [i \in Ids |-> "none"]
    /\ calm   = TRUE

-----------------------------------------------------------------------------
(* Operators the handlers share.                                           *)

Stored == {i \in Ids : docs[i] # None}

\* uuid.uuid4().hex: without UuidRepeat an id no request has named before.
Draw == IF UuidRepeat THEN Ids ELSE Ids \ {req[t].sid : t \in Tasks}

At(t, l) == req[t].pc = l

Goto(t, l) == req' = [req EXCEPT ![t].pc = l]

\* The handler returns or raises; h is the location header of the response.
Answer(t, a, h) ==
    req' = [req EXCEPT ![t].pc = "done", ![t].ans = a, ![t].hdr = h]

\* A new request at endpoint o.
Accept(t, o) == At(t, "idle") /\ o \in Ops

\* The query of a lookup: by id and owner, or by id alone.
Finds(t) ==
    /\ docs[req[t].sid] # None
    /\ req[t].op \in {"tidelete", "tiget"} \/ docs[req[t].sid].owner = req[t].af

ResourceStatus(r) == IF r \in Sessions THEN sess[r] ELSE infl[r[2]]

-----------------------------------------------------------------------------
(* The checks of the body.                                                 *)

\* a ^ b ^ c ^ ... is true of an odd number of true operands.
OddlyMany(S) == Cardinality(S) % 2 = 1

\* any_ue_ind or gpsi or external_group_id: influence data at the UDR.
ForUdr(b) == b.true \cap {"anyUeInd", "gpsi", "externalGroupId"} # {}

\* Which bodies pass.  "and" binds closer than "or": the slice is asked of
\* every UDR request, the DNN only of those for any UE.
Valid(b) ==
    /\ OddlyMany(b.given \cap Filters)
    /\ OddlyMany(b.given \cap Targets)
    /\ ForUdr(b) =>
           /\ "anyUeInd" \in b.true => "dnn" \in b.true
           /\ "snssai" \in b.true

\* gpsi and externalGroupId are translated at the UDM first; what comes of it
\* is set in an object that is never sent.
Translates(b) == b.true \cap {"gpsi", "externalGroupId"} # {}

\* The session request iterates over traffic_filters unless there is an afAppId.
Iterates(b) == "afAppId" \in b.true \/ "trafficFilters" \in b.given

-----------------------------------------------------------------------------
(* POST subscriptions.                                                     *)

\* The body does not parse, or fails a check.
TiCreateInvalid(t) ==
    /\ "body" \in Faults
    /\ \E a \in Afs :
        /\ Accept(t, "create")
        /\ req' = [req EXCEPT ![t] = [NoRequest EXCEPT
               !.op = "create", !.af = a, !.pc = "done", !.ans = "bad_request"]]
        /\ UNCHANGED <<shared, core, calm>>

\* A valid body: on to the first await, the translation, the BSF or, with an id
\* drawn, check_id.
TiCreate(t) ==
    \E a \in Afs, b \in Bodies :
        /\ Accept(t, "create")
        /\ Valid(b)
        /\ LET r == [NoRequest EXCEPT !.op = "create", !.af = a, !.body = b]
           IN  IF ForUdr(b) /\ Translates(b)
               THEN req' = [req EXCEPT ![t] =
                        [r EXCEPT !.pc = "translate", !.host = "udr"]]
               ELSE IF ~ForUdr(b) /\ BsfKnown
               THEN req' = [req EXCEPT ![t] = [r EXCEPT !.pc = "bsf"]]
               ELSE \E i \in Draw : req' = [req EXCEPT ![t] =
                        [r EXCEPT !.pc = "check", !.sid = i,
                                  !.host = IF ForUdr(b) THEN "udr" ELSE HostPcf]]
        /\ UNCHANGED <<shared, core, calm>>

\* The UDM answers, whatever its answer.
Translated(t) ==
    /\ At(t, "translate")
    /\ \E i \in Draw : req' = [req EXCEPT ![t].pc = "check", ![t].sid = i]
    /\ UNCHANGED <<shared, core, calm>>

BsfFound(t) ==
    /\ At(t, "bsf")
    /\ \E p \in Pcfs, i \in Draw : req' =
           [req EXCEPT ![t].pc = "check", ![t].host = p, ![t].sid = i]
    /\ UNCHANGED <<shared, core, calm>>

BsfNone(t) ==
    /\ At(t, "bsf")
    /\ Answer(t, "not_found", None)
    /\ UNCHANGED <<shared, core, calm>>

\* check_id finds the id taken: draw another one and look again.
IdTaken(t) ==
    /\ At(t, "check")
    /\ docs[req[t].sid] # None
    /\ \E i \in Draw : req' = [req EXCEPT ![t].sid = i]
    /\ UNCHANGED <<shared, core, calm>>

\* The id is free: PUT influenceData/{_id} at the UDR, POST app-sessions at a PCF.
IdFree(t) ==
    /\ At(t, "check")
    /\ docs[req[t].sid] = None
    /\ req[t].host = "udr" \/ Iterates(req[t].body)
    /\ req' = [req EXCEPT ![t].pc = "core", ![t].call = "sent"]
    /\ UNCHANGED <<shared, core, calm>>

\* The request cannot be built: nothing to iterate over, a value that is not
\* JSON (a date), no such host in conf.HOSTS.
Unbuildable(t) ==
    /\ "body" \in Faults
    /\ At(t, "check")
    /\ docs[req[t].sid] = None
    /\ Answer(t, "server_error", None)
    /\ UNCHANGED <<shared, core, calm>>

\* Mutant of ResourceOpened: any 2xx answer counts as 201, also the 204 for
\* influence data that was there and is replaced.
ResourceOpenedAny(t) ==
    /\ At(t, "core") /\ req[t].call \in {"ok", "refused"}
    /\ req' = [req EXCEPT ![t].pc = "insert",
                          ![t].loc = IF req[t].host = "udr"
                                     THEN <<"udr", req[t].sid>> ELSE @]
    /\ UNCHANGED <<shared, core, calm>>

\* 201.
ResourceOpened(t) ==
    /\ At(t, "core") /\ req[t].call = "ok"
    /\ Goto(t, "insert")
    /\ UNCHANGED <<shared, core, calm>>

\* Any other status goes to the client, with the headers every handler shares.
ResourceRefused(t) ==
    /\ At(t, "core") /\ req[t].call = "refused"
    /\ Answer(t, "core_status", hdrLoc)
    /\ UNCHANGED <<shared, core, calm>>

\* insert_one at the database, and the second one after a DuplicateKeyError.
InsertOne(t) ==
    /\ \/ At(t, "insert") /\ Goto(t, "stored")
       \/ At(t, "reinsert") /\ Goto(t, "restored")
    /\ docs[req[t].sid] = None
    /\ docs' = [docs EXCEPT ![req[t].sid] =
                    [owner |-> req[t].af, loc |-> req[t].loc]]
    /\ UNCHANGED <<hdrLoc, wiping, core, calm>>

\* Mutants of InsertDuplicate: every exception is taken for a duplicate key; the
\* record is inserted again under the id it has.
InsertAgain(t) ==
    /\ At(t, "insert") \/ At(t, "stored")
    /\ docs[req[t].sid] # None
    /\ \E i \in Draw : req' = [req EXCEPT ![t].pc = "reinsert", ![t].sid = i]
    /\ UNCHANGED <<shared, core, calm>>

InsertRetried(t) ==
    /\ At(t, "insert") \/ At(t, "stored")
    /\ Goto(t, "reinsert")
    /\ UNCHANGED <<shared, core, calm>>

\* DuplicateKeyError: the record takes a new id, unchecked this time.
InsertDuplicate(t) ==
    /\ At(t, "insert")
    /\ docs[req[t].sid] # None
    /\ \E i \in Draw : req' = [req EXCEPT ![t].pc = "reinsert", ![t].sid = i]
    /\ UNCHANGED <<shared, core, calm>>

\* A second DuplicateKeyError is raised inside the except clause.
ReinsertDuplicate(t) ==
    /\ At(t, "reinsert")
    /\ docs[req[t].sid] # None
    /\ Answer(t, "server_error", None)
    /\ UNCHANGED <<shared, core, calm>>

\* 201 with its location: in headers of its own after the UDR, in the shared
\* ones after a PCF.
TiCreated(t) ==
    /\ At(t, "stored") \/ At(t, "restored")
    /\ hdrLoc' = IF req[t].host = "udr" THEN hdrLoc ELSE req[t].sid
    /\ Answer(t, "created", req[t].sid)
    /\ UNCHANGED <<docs, wiping, core, calm>>

-----------------------------------------------------------------------------
(* DELETE subscriptions/{subId}, and the internal /tidelete/{subId}.       *)

TiDelete(t) ==
    \E i \in Ids, r \in [op : {"delete"}, af : Afs]
                            \cup [op : {"tidelete"}, af : {None}] :
        /\ Accept(t, r.op)
        /\ req' = [req EXCEPT ![t] = [NoRequest EXCEPT
               !.pc = "get", !.op = r.op, !.af = r.af, !.sid = i]]
        /\ UNCHANGED <<shared, core, calm>>

\* Mutants of DeleteFound: the location is made up from the id instead of read
\* out of the record; /tidelete removes the record without a call.
DeleteFoundById(t) ==
    /\ At(t, "get")
    /\ Finds(t)
    /\ req' = [req EXCEPT ![t].pc = "term", ![t].call = "sent",
                          ![t].loc = <<"udr", req[t].sid>>]
    /\ UNCHANGED <<shared, core, calm>>

DeleteFoundRecordOnly(t) ==
    /\ At(t, "get")
    /\ Finds(t)
    /\ LET quiet == req[t].op = "tidelete" IN
       req' = [req EXCEPT ![t].pc = IF quiet THEN "count" ELSE "term",
                          ![t].call = IF quiet THEN "none" ELSE "sent",
                          ![t].loc = docs[req[t].sid].loc]
    /\ UNCHANGED <<shared, core, calm>>

\* find_one: read the location out of the record and call the core network.
DeleteFound(t) ==
    /\ At(t, "get")
    /\ Finds(t)
    /\ req' = [req EXCEPT ![t].pc = "term", ![t].call = "sent",
                          ![t].loc = docs[req[t].sid].loc]
    /\ UNCHANGED <<shared, core, calm>>

\* The 404 of DELETE is raised inside its own try, which makes it a 500.
DeleteNotFound(t) ==
    /\ At(t, "get")
    /\ ~Finds(t)
    /\ Answer(t, IF req[t].op = "delete" THEN "server_error" ELSE "not_found",
              None)
    /\ UNCHANGED <<shared, core, calm>>

\* Either handler goes on whatever the status is.
Terminated(t) ==
    /\ At(t, "term") /\ req[t].call \in {"ok", "refused"}
    /\ Goto(t, "count")
    /\ UNCHANGED <<shared, core, calm>>

\* n = count_documents({})
CountBefore(t) ==
    /\ At(t, "count")
    /\ req' = [req EXCEPT ![t].pc = "remove", ![t].cnt = Cardinality(Stored)]
    /\ UNCHANGED <<shared, core, calm>>

\* delete_one: removes the record if it is still there.
DeleteOne(t) ==
    /\ At(t, "remove")
    /\ docs' = IF Finds(t) THEN [docs EXCEPT ![req[t].sid] = None] ELSE docs
    /\ Goto(t, "recount")
    /\ UNCHANGED <<hdrLoc, wiping, core, calm>>

\* What a deletion that did not count one record less is answered: DELETE falls
\* off its end and answers 200 with null.
NotCounted(t) == IF req[t].op = "delete" THEN "ok_null" ELSE "failed_to_delete"

\* n - count_documents({}) must be 1.
CountAfter(t) ==
    /\ At(t, "recount")
    /\ IF req[t].cnt - Cardinality(Stored) = 1
       THEN Answer(t, "deleted", IF req[t].op = "delete" THEN hdrLoc ELSE None)
       ELSE Answer(t, NotCounted(t), None)
    /\ UNCHANGED <<shared, core, calm>>

-----------------------------------------------------------------------------
(* The reads, PUT and PATCH, and /clean.                                   *)

TiRead(t) ==
    \E i \in Ids, r \in [op : {"get", "list"}, af : Afs]
                            \cup [op : {"tiget"}, af : {None}] :
        /\ Accept(t, r.op)
        /\ req' = [req EXCEPT ![t] = [NoRequest EXCEPT
               !.pc = "read", !.op = r.op, !.af = r.af, !.sid = i]]
        /\ UNCHANGED <<shared, core, calm>>

\* /tiget/{subId} reads its id from a query parameter, not from the path.
TiGetNoQuery(t) ==
    /\ Accept(t, "tiget")
    /\ req' = [req EXCEPT ![t] = [NoRequest EXCEPT
           !.pc = "done", !.op = "tiget", !.ans = "bad_request"]]
    /\ UNCHANGED <<shared, core, calm>>

\* /tiget answers 200 with what it found, nothing included.
ReadDone(t) ==
    /\ At(t, "read")
    /\ IF req[t].op = "tiget" THEN Answer(t, "ok", None)
       ELSE IF IF req[t].op = "list"
               THEN \E i \in Stored : docs[i].owner = req[t].af ELSE Finds(t)
       THEN Answer(t, "ok", hdrLoc)
       ELSE Answer(t, "not_found", None)
    /\ UNCHANGED <<shared, core, calm>>

\* PUT calls update_one without the update, PATCH passes a coroutine to
\* from_dict: both raise.
TiUpdate(t) ==
    \E a \in Afs :
        /\ Accept(t, "update")
        /\ req' = [req EXCEPT ![t] = [NoRequest EXCEPT
               !.pc = "done", !.op = "update", !.af = a, !.ans = "server_error"]]
        /\ UNCHANGED <<shared, core, calm>>

\* /clean starts the deletion of every record and answers without awaiting it.
Clean(t) ==
    /\ Accept(t, "clean")
    /\ req' = [req EXCEPT ![t] = [NoRequest EXCEPT
           !.pc = "done", !.op = "clean", !.ans = "cleaned"]]
    /\ wiping' = TRUE
    /\ calm' = FALSE
    /\ UNCHANGED <<docs, hdrLoc, core>>

\* delete_many({}) at the database.
Wipe ==
    /\ wiping
    /\ wiping' = FALSE
    /\ docs' = [i \in Ids |-> None]
    /\ UNCHANGED <<req, hdrLoc, core, calm>>

-----------------------------------------------------------------------------
(* The core network.  A call may be served at any later time, or never.    *)

PcfCreate(t) ==
    /\ req[t].call = "sent" /\ req[t].op = "create" /\ req[t].host # "udr"
    /\ \E c \in Ctxs :
        LET s == <<req[t].host, c>> IN
        /\ sess[s] = "none"
        /\ sess' = [sess EXCEPT ![s] = "live"]
        /\ req' = [req EXCEPT ![t].call = "ok", ![t].loc = s]
    /\ UNCHANGED <<infl, shared, calm>>

\* PUT creates the data, or replaces what another request put there under
\* the same id, which is answered 204 and not 201.
UdrPut(t) ==
    /\ req[t].call = "sent" /\ req[t].op = "create" /\ req[t].host = "udr"
    /\ infl' = [infl EXCEPT ![req[t].sid] = "live"]
    /\ req' = IF infl[req[t].sid] = "live"
              THEN [req EXCEPT ![t].call = "refused"]
              ELSE [req EXCEPT ![t].call = "ok",
                               ![t].loc = <<"udr", req[t].sid>>]
    /\ UNCHANGED <<sess, shared, calm>>

\* /tidelete: POST app-sessions/{last segment}/delete at HOSTS['PCF'][0], also
\* for influence data, whose id is no session.
PcfDelete(t) ==
    LET s == <<HostPcf, req[t].loc[2]>> IN
    /\ req[t].call = "sent" /\ req[t].op = "tidelete"
    /\ IF s \in Sessions /\ sess[s] = "live"
       THEN /\ sess' = [sess EXCEPT ![s] = "ended"]
            /\ req' = [req EXCEPT ![t].call = "ok"]
       ELSE /\ req' = [req EXCEPT ![t].call = "refused"]
            /\ UNCHANGED sess
    /\ UNCHANGED <<infl, shared, calm>>

\* A call is turned down.  For DELETE that is the regular case: {location}/delete
\* takes POST at a PCF and is no resource of a UDR.  A PCF that fails to
\* terminate a session is a failure.
CoreReject(t) ==
    /\ req[t].call = "sent"
    /\ req' = [req EXCEPT ![t].call = "refused"]
    /\ \/ req[t].op # "tidelete" /\ UNCHANGED calm
       \/ req[t].op = "tidelete" /\ "pcf" \in Faults /\ calm' = FALSE
    /\ UNCHANGED <<core, shared>>

\* A core function that takes DELETE {location}/delete for the deletion of the
\* resource all the same.
CoreDelete(t) ==
    LET r == req[t].loc IN
    /\ req[t].call = "sent" /\ req[t].op = "delete"
    /\ ResourceStatus(r) = "live"
    /\ req' = [req EXCEPT ![t].call = "ok"]
    /\ IF r \in Sessions
       THEN sess' = [sess EXCEPT ![r] = "ended"] /\ UNCHANGED infl
       ELSE infl' = [infl EXCEPT ![r[2]] = "ended"] /\ UNCHANGED sess
    /\ UNCHANGED <<shared, calm>>

-----------------------------------------------------------------------------
(* Failures.                                                               *)

\* A call times out or its answer does not parse; a GPSI translation swallows
\* the exception and then fails on its unbound response.
HttpTimeout(t) ==
    /\ "timeout" \in Faults
    /\ req[t].pc \in {"translate", "bsf", "core", "term"}
    /\ Answer(t, "server_error", None)
    /\ calm' = FALSE
    /\ UNCHANGED <<shared, core>>

\* A MongoDB operation fails, or, at "stored" and "restored", succeeds and
\* its acknowledgement is lost.  The insert and delete functions return None;
\* of that the UDR branch raises a 500 and the PCF branch returns one.
DbFault(t) ==
    /\ "db" \in Faults
    /\ \/ /\ req[t].pc \in {"insert", "stored"}
          /\ Answer(t, IF req[t].host = "udr" THEN "server_error"
                                              ELSE "returned_exception", None)
       \/ /\ req[t].pc \in {"remove", "recount"}
          /\ Answer(t, NotCounted(t), None)
       \/ /\ req[t].pc \in {"check", "reinsert", "restored", "get", "count", "read"}
          /\ Answer(t, "server_error", None)
    /\ calm' = FALSE
    /\ UNCHANGED <<shared, core>>

\* The process dies and starts again.
Die ==
    /\ req' = [t \in Tasks |-> IF req[t].pc \in Waiting
                               THEN [req[t] EXCEPT !.pc = "dead"] ELSE req[t]]
    /\ hdrLoc' = None
    /\ wiping' \in {wiping, FALSE}
    /\ calm' = FALSE
    /\ UNCHANGED <<docs, core>>

Crash ==
    /\ "crash" \in Faults
    /\ \E t \in Tasks : req[t].pc \in Waiting
    /\ Die

-----------------------------------------------------------------------------
Handler(t) ==
    \/ Translated(t) \/ BsfFound(t) \/ BsfNone(t)
    \/ IdTaken(t) \/ IdFree(t) \/ Unbuildable(t)
    \/ ResourceOpened(t) \/ ResourceRefused(t)
    \/ InsertOne(t) \/ InsertDuplicate(t) \/ ReinsertDuplicate(t)
    \/ TiCreated(t)
    \/ DeleteFound(t) \/ DeleteNotFound(t) \/ Terminated(t)
    \/ CountBefore(t) \/ DeleteOne(t) \/ CountAfter(t)
    \/ ReadDone(t)

Client(t) ==
    \/ TiCreateInvalid(t) \/ TiCreate(t) \/ TiDelete(t)
    \/ TiRead(t) \/ TiGetNoQuery(t) \/ TiUpdate(t) \/ Clean(t)

Core(t) ==
    \/ PcfCreate(t) \/ UdrPut(t) \/ PcfDelete(t)
    \/ CoreDelete(t) \/ CoreReject(t)

Failure(t) == HttpTimeout(t) \/ DbFault(t)

Next ==
    \/ \E t \in Tasks : Client(t) \/ Handler(t) \/ Core(t) \/ Failure(t)
    \/ Wipe
    \/ Crash

Spec == Init /\ [][Next]_vars

-----------------------------------------------------------------------------
(* Properties.                                                             *)

\* Every variable stays in the set its use in the code gives it.
TypeOK ==
    /\ req    \in [Tasks -> Request]
    /\ docs   \in [Ids -> Docs \cup {None}]
    /\ hdrLoc \in Locations \cup {None}
    /\ wiping \in BOOLEAN
    /\ sess   \in [Sessions -> Status]
    /\ infl   \in [Ids -> Status]
    /\ calm   \in BOOLEAN

\* A core resource belongs to one subscription: no two records name the same
\* one, and a record never names one that was not created.  An insert that is
\* retried under another id, two PUTs under one id and lost acknowledgements
\* put it at risk (with ids drawn twice, influence data may be created anew).
OneRecordPerResource ==
    \A i \in Stored :
        /\ ResourceStatus(docs[i].loc) # "none"
        /\ \A j \in Stored : docs[i].loc = docs[j].loc =>
               i = j \/ (UuidRepeat /\ docs[i].loc \in Influence)

\* A DELETE answered 204 is final: the record is gone and stays gone, whatever
\* the other handlers still hold of it.  While nothing has failed that is also
\* true of the 200 with null that a DELETE whose counts were disturbed gets.
DeleteIsFinal ==
    ~UuidRepeat =>
        \A t \in Tasks :
            (req[t].op = "delete" /\ (req[t].ans = "deleted"
                \/ (calm /\ req[t].ans = "ok_null"))) =>
                    docs[req[t].sid] = None

\* A create handler that has its resource and has not stored it yet.
Storing(t) ==
    /\ req[t].op = "create" /\ req[t].call = "ok"
    /\ req[t].pc \in {"core", "insert", "reinsert"}

\* A deletion between the core's answer and the removal of the record.
Removing(t) ==
    /\ req[t].op \in {"delete", "tidelete"} /\ req[t].call # "sent"
    /\ req[t].pc \in {"term", "count", "remove"}

\* A deletion that has removed the record and need not have ended its resource:
\* DELETE, which addresses nothing, and /tidelete of influence data.
LeavesBehind(t, r) ==
    /\ req[t].pc \in {"recount", "done"} /\ req[t].loc = r
    /\ req[t].op = "delete" \/ (req[t].op = "tidelete" /\ r \in Influence)

\* While nothing has failed, records and live resources agree but for the
\* handlers still at work and for what DELETE leaves behind: a live resource is
\* recorded, about to be, or its record was removed by a DELETE or, at the UDR,
\* a /tidelete; a record names a live resource or is about to be removed.
CalmCoherence ==
    (calm /\ ~UuidRepeat /\ Pcfs = {HostPcf}) =>
        /\ \A r \in Resources : ResourceStatus(r) = "live" =>
               \/ \E i \in Stored : docs[i].loc = r
               \/ \E t \in Tasks : (Storing(t) /\ req[t].loc = r)
                                    \/ LeavesBehind(t, r)
        /\ \A i \in Stored : ResourceStatus(docs[i].loc) = "live" \/
               \E t \in Tasks : Removing(t) /\ req[t].sid = i

\* A record is never replaced, and it is removed only by its owner's DELETE,
\* by /tidelete or by /clean; and the record a deletion removes is the one
\* whose resource it addressed, although it gave way three times since it read
\* it (ids drawn twice apart).
RemovedByRight ==
    [][\A i \in Ids : (docs[i] # None /\ docs'[i] # docs[i]) =>
          /\ docs'[i] = None
          /\ \/ wiping
             \/ \E t \in Tasks :
                   /\ At(t, "remove") /\ req'[t].pc = "recount"
                   /\ req[t].sid = i
                   /\ req[t].op = "tidelete" \/ req[t].af = docs[i].owner
                   /\ UuidRepeat \/ req[t].loc = docs[i].loc]_vars

-----------------------------------------------------------------------------
(* What a message of the program says and the code does not keep.           *)

\* main.py:594 and 597, "Only one of afAppId, trafficFilters or
\* ethTrafficFilters" and "Only one of ipv4Addr, ...": a create that is not
\* answered 400 has exactly one of each.
OnlyOneOfEach ==
    \A t \in Tasks :
        (req[t].op = "create" /\ req[t].ans # "bad_request") =>
            /\ Cardinality(req[t].body.given \cap Filters) = 1
            /\ Cardinality(req[t].body.given \cap Targets) = 1

=============================================================================
