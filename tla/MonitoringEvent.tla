---------------------------- MODULE MonitoringEvent ----------------------------
(***************************************************************************)
(* The monitoring event API of the NEF: the handlers of main.py 259-517    *)
(* and the event subscriptions they make at the UDM (core/udm_handler.py)  *)
(* and the AMF (core/amf_handler.py).                                      *)
(*                                                                         *)
(* The insert of a subscription is a coroutine that is never awaited       *)
(* (main.py 394, 433), and nothing else writes the collection: it stays    *)
(* empty, so it is no variable.  Every lookup finds nothing, check_id finds *)
(* every id free, and the location of a 201 ends in the text of the        *)
(* coroutine object.                                                       *)
(***************************************************************************)
EXTENDS Integers, FiniteSets

CONSTANTS
    Tasks,       \* HTTP requests, each handled once
    Bodies,      \* request bodies of a create
    Ops,         \* endpoints the clients use
    Faults,      \* what may go wrong outside the handlers
    Coroutine,   \* the id in the location of a 201
    None         \* no operation, no body, no answer, no header, no number

UdmTypes ==
    {"LOSS_OF_CONNECTIVITY", "UE_REACHABILITY", "LOCATION_REPORTING",
     "CHANGE_OF_SUPI_PEI_ASSOCIATION", "ROAMING_STATUS",
     "COMMUNICATION_FAILURE", "PDN_CONNECTIVITY_STATUS",
     "AVAILABILITY_AFTER_DDN_FAILURE", "API_SUPPORT_CAPABILITY"}
AmfTypes ==
    {"NUMBER_OF_UES_IN_AN_AREA", "REGISTRATION_STATE_REPORT",
     "CONNECTIVITY_STATE_REPORT"}
OtherTypes ==
    {"NUM_OF_REGD_UES", "NUM_OF_ESTD_PDU_SESSIONS", "DOWNLINK_DATA_DELIVERY_STATUS"}
PeriodicTypes ==
    {"LOCATION_REPORTING", "NUMBER_OF_UES_IN_AN_AREA", "NUM_OF_REGD_UES",
     "NUM_OF_ESTD_PDU_SESSIONS"}

\* What the checks look at.  "locating" stands for the location attributes that
\* need a UE identity, "expiry" for monitorExpireTime, "sms" for the
\* reachability type SMS.
AllBodies ==
    [type : UdmTypes \cup AmfTypes \cup OtherTypes,
     accuracy : {None, "valid", "other"},
     location : {None, "LAST_KNOWN_LOCATION", "other"},
     max : Nat \cup {None},    \* maximumNumberOfReports
     has : SUBSET {"repPeriod", "dnn", "snssai", "expiry", "sms",
                   "minimumReportInterval", "locating"},
     ids : SUBSET {"externalId", "msisdn", "ipv4Addr", "ipv6Addr",
                   "externalGroupId"}]

AllOps == {"create", "get", "list", "monget", "update", "delete", "mondelete"}
AllFaults == {"timeout", "db", "crash"}
Answers == {"created", "ok", "bad_request", "not_found", "server_error",
            "core_status"}

\* What the constants are; Nef, which instantiates this module, assumes it.
BodyAssumption == Bodies \subseteq AllBodies
OpsAssumption  == Ops \subseteq AllOps /\ Faults \subseteq AllFaults
NoneAssumption ==
    /\ None \notin AllOps \cup Answers /\ None \notin Bodies /\ None \notin Nat
    /\ None # Coroutine
    /\ None \notin {"valid", "other", "LAST_KNOWN_LOCATION"}

VARIABLES
    req,     \* the handlers: see Request
    sub,     \* event subscriptions at the UDM or AMF, by the task that asked
    hdrLoc,  \* conf.GLOBAL_HEADERS['location']
    calm     \* no call, database operation or process has failed so far

vars == <<req, sub, hdrLoc, calm>>

Waiting == {"check", "translate", "core", "read"}

Request ==
    [pc   : Waiting \cup {"idle", "done", "dead"},
     op   : AllOps \cup {None},
     body : Bodies \cup {None},
     call : {"none", "sent", "ok", "refused"},
     ans  : Answers \cup {None}]

Init ==
    /\ req = [t \in Tasks |-> [pc |-> "idle", op |-> None, body |-> None,
                               call |-> "none", ans |-> None]]
    /\ sub = [t \in Tasks |-> "none"]
    /\ hdrLoc = None
    /\ calm = TRUE

At(t, l) == req[t].pc = l

Answer(t, a) == req' = [req EXCEPT ![t].pc = "done", ![t].ans = a]

Accept(t, o) == At(t, "idle") /\ o \in Ops

-----------------------------------------------------------------------------
(* The checks of the body, in the order of the code.                       *)

OneOf(b, I) == Cardinality(b.ids \cap I) = 1

\* Mutant of Rejected: the second rule about identities is left out, which the
\* first one seems to cover.
RejectedLax(b) ==
    \/ b.type = "LOCATION_REPORTING" /\ b.accuracy # "valid"
    \/ "repPeriod" \in b.has /\ b.type \notin PeriodicTypes
    \/ b.type \in {"LOCATION_REPORTING", "NUMBER_OF_UES_IN_AN_AREA"}
           /\ b.location = None
    \/ b.location = "LAST_KNOWN_LOCATION" /\ b.max # 1
    \/ b.type = "PDN_CONNECTIVITY_STATUS" /\ b.has \cap {"dnn", "snssai"} = {}
    \/ b.max = 1 /\ "expiry" \in b.has
    \/ b.type = "UE_REACHABILITY" /\ "sms" \in b.has /\ b.max # 1
    \/ /\ b.location # None \/ b.accuracy # None
              \/ "minimumReportInterval" \in b.has
       /\ ~OneOf(b, {"externalId", "msisdn", "ipv4Addr", "ipv6Addr",
                     "externalGroupId"})
    \/ b.type = "NUMBER_OF_UES_IN_AN_AREA" /\ b.max # 1

Rejected(b) ==
    \/ b.type = "LOCATION_REPORTING" /\ b.accuracy # "valid"
    \/ "repPeriod" \in b.has /\ b.type \notin PeriodicTypes
    \/ b.type \in {"LOCATION_REPORTING", "NUMBER_OF_UES_IN_AN_AREA"}
           /\ b.location = None
    \/ b.location = "LAST_KNOWN_LOCATION" /\ b.max # 1
    \/ b.type = "PDN_CONNECTIVITY_STATUS" /\ b.has \cap {"dnn", "snssai"} = {}
    \/ b.max = 1 /\ "expiry" \in b.has
    \/ b.type = "UE_REACHABILITY" /\ "sms" \in b.has /\ b.max # 1
    \/ /\ b.location # None \/ b.accuracy # None
              \/ "minimumReportInterval" \in b.has
       /\ ~OneOf(b, {"externalId", "msisdn", "ipv4Addr", "ipv6Addr",
                     "externalGroupId"})
    \/ /\ b.location # None \/ b.accuracy # None
              \/ b.has \cap {"minimumReportInterval", "locating"} # {}
       /\ ~OneOf(b, {"externalId", "msisdn", "externalGroupId"})
    \/ b.type = "NUMBER_OF_UES_IN_AN_AREA" /\ b.max # 1

-----------------------------------------------------------------------------
(* POST subscriptions.                                                     *)

\* The body does not parse, or fails a check.
MonCreateInvalid(t) ==
    /\ Accept(t, "create")
    /\ req' = [req EXCEPT ![t].pc = "done", ![t].op = "create",
                          ![t].ans = "bad_request"]
    /\ UNCHANGED <<sub, hdrLoc, calm>>

MonCreate(t) ==
    \E b \in Bodies :
        /\ Accept(t, "create")
        /\ ~Rejected(b)
        /\ req' = [req EXCEPT ![t].pc = "check", ![t].op = "create",
                              ![t].body = b]
        /\ UNCHANGED <<sub, hdrLoc, calm>>

\* check_id, then the branch of the type.  A UDM request compares the number of
\* reports with 1, an expiry is a datetime that is not JSON: both raise.
CheckedUdm(t) ==
    /\ At(t, "check") /\ req[t].body.type \in UdmTypes
    /\ IF req[t].body.max = None \/ "expiry" \in req[t].body.has
       THEN Answer(t, "server_error")
       ELSE req' = [req EXCEPT ![t].pc = "core", ![t].call = "sent"]
    /\ UNCHANGED <<sub, hdrLoc, calm>>

CheckedAmf(t) ==
    /\ At(t, "check") /\ req[t].body.type \in AmfTypes
    /\ IF "externalGroupId" \in req[t].body.ids
       THEN req' = [req EXCEPT ![t].pc = "translate"]
       ELSE IF "expiry" \in req[t].body.has THEN Answer(t, "server_error")
       ELSE req' = [req EXCEPT ![t].pc = "core", ![t].call = "sent"]
    /\ UNCHANGED <<sub, hdrLoc, calm>>

CheckedOther(t) ==
    /\ At(t, "check") /\ req[t].body.type \in OtherTypes
    /\ Answer(t, "bad_request")
    /\ UNCHANGED <<sub, hdrLoc, calm>>

\* The translation returns the UDM's response itself, which is not JSON.
GroupTranslated(t) ==
    /\ At(t, "translate")
    /\ Answer(t, "server_error")
    /\ UNCHANGED <<sub, hdrLoc, calm>>

\* No UDM or AMF in conf.HOSTS.
NoHost(t) ==
    /\ req[t].pc = "check" /\ req[t].body.type \notin OtherTypes
    /\ Answer(t, "server_error")
    /\ UNCHANGED <<sub, hdrLoc, calm>>

\* 201: nothing is stored, and the shared headers get a location that names a
\* coroutine.
MonCreated(t) ==
    /\ At(t, "core") /\ req[t].call = "ok"
    /\ hdrLoc' = Coroutine
    /\ Answer(t, "created")
    /\ UNCHANGED <<sub, calm>>

\* The answer cannot be built: the 201 came without a location, or, when the
\* header is set already, with immediate reports (another coroutine) or for a
\* time window that is not JSON.
MonUnanswerable(t) ==
    /\ At(t, "core") /\ req[t].call = "ok"
    /\ hdrLoc' \in {hdrLoc, Coroutine}
    /\ Answer(t, "server_error")
    /\ UNCHANGED <<sub, calm>>

\* Mutant of MonRefused: any answer of the core is passed on as its status.
MonRefusedAny(t) ==
    /\ At(t, "core") /\ req[t].call \in {"ok", "refused"}
    /\ Answer(t, "core_status")
    /\ UNCHANGED <<sub, hdrLoc, calm>>

MonRefused(t) ==
    /\ At(t, "core") /\ req[t].call = "refused"
    /\ Answer(t, "core_status")
    /\ UNCHANGED <<sub, hdrLoc, calm>>

-----------------------------------------------------------------------------
(* The other endpoints, on a collection that is empty.                     *)

MonRequest(t) ==
    \E o \in AllOps \ {"create", "update"} :
        /\ Accept(t, o)
        /\ req' = [req EXCEPT ![t].pc = "read", ![t].op = o]
        /\ UNCHANGED <<sub, hdrLoc, calm>>

\* The 404 of the deletions is raised inside their own try and becomes a 500.
FoundNothing(t) ==
    /\ At(t, "read")
    /\ \/ req[t].op = "monget" /\ Answer(t, "ok")
       \/ req[t].op \in {"get", "list"} /\ Answer(t, "not_found")
       \/ req[t].op \in {"delete", "mondelete"} /\ Answer(t, "server_error")
    /\ UNCHANGED <<sub, hdrLoc, calm>>

\* PUT and PATCH call update_one without the update.
MonUpdate(t) ==
    /\ Accept(t, "update")
    /\ req' = [req EXCEPT ![t].pc = "done", ![t].op = "update",
                          ![t].ans = "server_error"]
    /\ UNCHANGED <<sub, hdrLoc, calm>>

-----------------------------------------------------------------------------
(* The UDM and the AMF, and failures.                                      *)

CoreCreate(t) ==
    /\ req[t].call = "sent"
    /\ sub' = [sub EXCEPT ![t] = "live"]
    /\ req' = [req EXCEPT ![t].call = "ok"]
    /\ UNCHANGED <<hdrLoc, calm>>

CoreReject(t) ==
    /\ req[t].call = "sent"
    /\ req' = [req EXCEPT ![t].call = "refused"]
    /\ UNCHANGED <<sub, hdrLoc, calm>>

HttpTimeout(t) ==
    /\ "timeout" \in Faults
    /\ req[t].pc \in {"translate", "core"}
    /\ Answer(t, "server_error")
    /\ calm' = FALSE
    /\ UNCHANGED <<sub, hdrLoc>>

DbFault(t) ==
    /\ "db" \in Faults
    /\ req[t].pc \in {"check", "read"}
    /\ Answer(t, "server_error")
    /\ calm' = FALSE
    /\ UNCHANGED <<sub, hdrLoc>>

\* The process dies and starts again.
Die ==
    /\ req' = [t \in Tasks |-> IF req[t].pc \in Waiting
                               THEN [req[t] EXCEPT !.pc = "dead"] ELSE req[t]]
    /\ hdrLoc' = None
    /\ calm' = FALSE
    /\ UNCHANGED sub

Crash ==
    /\ "crash" \in Faults
    /\ \E t \in Tasks : req[t].pc \in Waiting
    /\ Die

-----------------------------------------------------------------------------
Step(t) ==
    \/ MonCreateInvalid(t) \/ MonCreate(t)
    \/ CheckedUdm(t) \/ CheckedAmf(t) \/ CheckedOther(t) \/ GroupTranslated(t)
    \/ NoHost(t) \/ MonCreated(t) \/ MonUnanswerable(t) \/ MonRefused(t)
    \/ MonRequest(t) \/ FoundNothing(t) \/ MonUpdate(t)
    \/ CoreCreate(t) \/ CoreReject(t) \/ HttpTimeout(t) \/ DbFault(t)

Next == (\E t \in Tasks : Step(t)) \/ Crash

Spec == Init /\ [][Next]_vars

-----------------------------------------------------------------------------
(* Properties.                                                             *)

\* Every variable stays in the set its use in the code gives it.
TypeOK ==
    /\ req    \in [Tasks -> Request]
    /\ sub    \in [Tasks -> {"none", "live"}]
    /\ hdrLoc \in {Coroutine, None}
    /\ calm   \in BOOLEAN

\* An event subscription is made in the core network only for a body that keeps
\* the rules the messages of the checks state, whatever order they are applied
\* in: it says how many reports it wants at a UDM, a location is asked of exactly
\* one subscriber or group (of a single UE at the AMF), what is reported once is
\* asked for once, and nothing carries an expiry.
SubscriptionsKeepRules ==
    \A t \in Tasks : sub[t] = "live" =>
        LET b == req[t].body IN
        /\ b.type \in UdmTypes \cup AmfTypes
        /\ b.type \in UdmTypes => b.max # None
        /\ b.type \in AmfTypes => "externalGroupId" \notin b.ids
        /\ (b.type \in {"LOCATION_REPORTING", "NUMBER_OF_UES_IN_AN_AREA"}
               \/ "locating" \in b.has) =>
                OneOf(b, {"externalId", "msisdn", "externalGroupId"})
        /\ (b.type = "NUMBER_OF_UES_IN_AN_AREA"
               \/ b.location = "LAST_KNOWN_LOCATION") => b.max = 1
        /\ "expiry" \notin b.has

\* An answer other than 201 and 500 is a promise that nothing was subscribed in
\* the core network, also when the core serves a call late; and a 201 tells
\* of a subscription that is there.
AnswersTellTheCore ==
    \A t \in Tasks :
        /\ req[t].ans \in {"bad_request", "not_found", "core_status", "ok"} =>
               sub[t] = "none" /\ req[t].call # "sent"
        /\ req[t].ans = "created" => sub[t] = "live"

=============================================================================
