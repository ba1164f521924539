---------------------------------- MODULE Nef ----------------------------------
(***************************************************************************)
(* The three northbound APIs in one process: one event loop, one           *)
(* conf.GLOBAL_HEADERS, one database, one PCF whose sessions two of them   *)
(* open and terminate, one /clean and one crash for all.                   *)
(***************************************************************************)
EXTENDS Integers, FiniteSets

CONSTANTS
    QosTasks, TiTasks, MonTasks,   \* HTTP requests, by API
    Afs,
    QosIds, TiIds,                 \* ids, no two drawn alike
    HostPcf, Ctxs,
    TiBodies, MonBodies,
    Faults,
    MaxRequests,                   \* bound: requests of a behaviour
    Coroutine,
    None

ASSUME DistinctAssumption == QosIds \cap TiIds = {} /\ MaxRequests \in Nat

VARIABLES
    pc, op, af, sid, host, loc, cnt, call, reply, docs, wiping, cb,   \* QoS
    tiReq, tiDocs, tiWiping, infl,                    \* traffic influence
    monReq, sub,                                      \* monitoring events
    hdrLoc, sess, calm                                \* shared by the APIs

\* What one conf.GLOBAL_HEADERS['location'] may name.
AllLocations == QosIds \cup TiIds \cup {Coroutine}

Q == INSTANCE QosSession WITH
         Tasks <- QosTasks, Ids <- QosIds, Pcfs <- {HostPcf},
         Locations <- AllLocations,
         BsfKnown <- FALSE, UuidRepeat <- FALSE,
         Ops <- {"create", "delete", "qdelete"}
T == INSTANCE TrafficInfluence WITH
         Tasks <- TiTasks, Ids <- TiIds, Pcfs <- {HostPcf}, Bodies <- TiBodies,
         Locations <- AllLocations,
         BsfKnown <- FALSE, UuidRepeat <- FALSE,
         Ops <- {"create", "delete", "tidelete"},
         req <- tiReq, docs <- tiDocs, wiping <- tiWiping
M == INSTANCE MonitoringEvent WITH
         Tasks <- MonTasks, Bodies <- MonBodies,
         Ops <- {"create", "get", "list", "monget", "update", "delete", "mondelete"},
         Faults <- Faults \ {"pcf", "body"}, req <- monReq

ASSUME QosAssumption ==
    /\ Q!HostAssumption /\ Q!FlagAssumption /\ Q!OpsAssumption /\ Q!IdsAssumption
    /\ Q!NoneAssumption
ASSUME TiAssumption ==
    /\ T!HostAssumption /\ T!FlagAssumption /\ T!OpsAssumption /\ T!BodyAssumption
    /\ T!IdsAssumption /\ T!NoneAssumption
ASSUME MonAssumption == M!BodyAssumption /\ M!OpsAssumption /\ M!NoneAssumption

qosOnly == <<pc, op, af, sid, host, loc, cnt, call, reply, docs, wiping, cb>>
tiOnly  == <<tiReq, tiDocs, tiWiping, infl>>
monOnly == <<monReq, sub>>
vars    == <<qosOnly, tiOnly, monOnly, hdrLoc, sess, calm>>

Init == Q!Init /\ T!Init /\ M!Init

\* A monitoring request, which meets the others in the headers and in a crash
\* alone, counts for two.
Requests ==
    Cardinality({t \in QosTasks : pc[t] # "idle"})
        + Cardinality({t \in TiTasks : tiReq[t].pc # "idle"})
        + 2 * Cardinality({t \in MonTasks : monReq[t].pc # "idle"})

\* A step of one API.  The PCF serves the calls of two of them.
QosStep(t) ==
    /\ \/ Requests < MaxRequests /\ Q!Client(t)
       \/ Q!Handler(t) \/ Q!Pcf(t) \/ Q!Failure(t)
    /\ UNCHANGED <<tiOnly, monOnly>>

TiStep(t) ==
    /\ \/ Requests < MaxRequests /\ T!Client(t)
       \/ T!Handler(t) \/ T!Core(t) \/ T!Failure(t)
    /\ UNCHANGED <<qosOnly, monOnly>>

MonStep(t) ==
    /\ Requests + 2 <= MaxRequests \/ ~M!At(t, "idle")
    /\ M!Step(t)
    /\ UNCHANGED <<qosOnly, tiOnly, sess>>

\* /clean starts one delete_many per collection and waits for none of them.
Clean ==
    /\ wiping' = TRUE /\ tiWiping' = TRUE
    /\ calm' = FALSE
    /\ UNCHANGED <<pc, op, af, sid, host, loc, cnt, call, reply, docs, cb,
                   tiReq, tiDocs, infl, monOnly, hdrLoc, sess>>

\* Each of them runs on its own.
Wipe ==
    \/ Q!Wipe /\ UNCHANGED <<tiOnly, monOnly>>
    \/ T!Wipe /\ UNCHANGED <<qosOnly, monOnly>>

\* The process dies under the handlers of all APIs.
Crash ==
    /\ "crash" \in Faults
    /\ Requests > 0
    /\ Q!Die /\ T!Die /\ M!Die

Next ==
    \/ \E t \in QosTasks : QosStep(t)
    \/ \E t \in TiTasks : TiStep(t)
    \/ \E t \in MonTasks : MonStep(t)
    \/ Clean
    \/ Wipe
    \/ Crash

Spec == Init /\ [][Next]_vars

-----------------------------------------------------------------------------
(* Properties.                                                             *)

\* A PCF session belongs to one subscription of one API, also after inserts that
\* are retried, lost acknowledgements and crashes; and no record of either
\* collection names a session that was not opened.
OneRecordPerSession ==
    /\ Q!OneRecordPerSession
    /\ T!OneRecordPerResource
    /\ \A i \in Q!Stored, j \in T!Stored : docs[i].loc # tiDocs[j].loc

\* A deletion answered 204 by one API is final whatever the other one does at
\* the PCF they share.
DeleteIsFinal == Q!DeleteIsFinal /\ T!DeleteIsFinal

\* A record of either collection goes only by /clean or by a deletion that may
\* end it, and the deletion removes the record whose session it addressed and
\* not one that took its place: between the two lie three awaits, in which any
\* of the other requests, /clean and a new create included, may run.
RemovedByRight == Q!RemovedByRight /\ T!RemovedByRight

\* Both APIs name a session to the PCF by the last segment of a location they
\* read earlier (pcf_handler.py:165).  Whatever is lost, late or wiped in
\* between, the session that ends is the one that was opened for the very
\* subscription the request names: its notification URI ends in that id, or the
\* create of that id got it from the PCF.
SessionsEndedByRight ==
    [][\A s \in Q!Sessions : (sess[s] = "live" /\ sess'[s] = "ended") =>
          \/ \E t \in QosTasks :
                /\ op[t] \in {"delete", "qdelete"} /\ call[t] = "sent" /\ call'[t] = "ok"
                /\ sid[t] = cb[s]
          \/ \E t \in TiTasks, u \in TiTasks :
                /\ tiReq[t].op \in {"delete", "tidelete"}
                /\ tiReq[t].call = "sent" /\ tiReq'[t].call = "ok"
                /\ tiReq[u].op = "create" /\ tiReq[u].loc = s
                /\ tiReq[t].sid = tiReq[u].sid]_vars

\* While nothing has failed, the PCF's sessions and the two collections together
\* agree: a live session is recorded in one of them, about to be, or left behind
\* by a DELETE of the traffic influence API; a record names a live session (or
\* live influence data) or is about to be removed, by its own API.
CalmCoherence ==
    calm =>
        /\ \A s \in Q!Sessions : sess[s] = "live" =>
               \/ \E i \in Q!Stored : docs[i].loc = s
               \/ \E i \in T!Stored : tiDocs[i].loc = s
               \/ \E t \in QosTasks : Q!Storing(t) /\ loc[t] = s
               \/ \E t \in TiTasks : (T!Storing(t) /\ tiReq[t].loc = s)
                                        \/ T!LeavesBehind(t, s)
        /\ \A i \in Q!Stored : sess[docs[i].loc] = "live" \/
               \E t \in QosTasks : Q!Removing(t) /\ sid[t] = i
        /\ \A i \in T!Stored : T!ResourceStatus(tiDocs[i].loc) = "live" \/
               \E t \in TiTasks : T!Removing(t) /\ tiReq[t].sid = i

\* Monitoring subscriptions keep the rules of the checks, and the answers about
\* them tell what was made of them, beside the other APIs.
MonitoringRules == M!SubscriptionsKeepRules

MonitoringAnswers == M!AnswersTellTheCore

=============================================================================
