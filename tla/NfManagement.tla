----------------------------- MODULE NfManagement -----------------------------
(***************************************************************************)
(* The NEF as a network function: startup, registration with the NRF, heart *)
(* beat, discovery of the other network functions, status subscriptions and *)
(* shutdown (main.py 65-126, core/nrf_handler.py, api/config.py 139-176).   *)
(*                                                                         *)
(* The startup coroutine is suspended at the await pc names; the heart beat *)
(* and the status subscriptions are background loops of repeat_every that   *)
(* run beside it once they are scheduled.  The process may die and is then  *)
(* started again with a new instance id; the NRF keeps what it registered.  *)
(***************************************************************************)
EXTENDS Integers, FiniteSets

CONSTANTS
    Uuids,     \* instance ids, the values of uuid4()
    NfTypes,   \* conf.NF_SCOPES.keys()
    Rank       \* the place of a type in conf.NF_SCOPES

ASSUME NfTypesAssumption == {"AMF", "UDM"} \subseteq NfTypes
ASSUME RankAssumption ==
    /\ Rank \in [NfTypes -> Nat]
    /\ \A m, n \in NfTypes : Rank[m] = Rank[n] => m = n

VARIABLES
    \* The process.
    pc,          \* the await of the startup coroutine, or "serving", "stopped"
    uuid,        \* conf.API_UUID, NEF_PROFILE.nf_instance_id
    registered,  \* conf.REGISTERED
    hosts,       \* the NF types conf.HOSTS has an address of
    asked,       \* nrf_discovery: the types queried so far
    found,       \* nrf_discovery: the types profiles has an instance of
    noIpv4,      \* nrf_discovery: the types with a profile without ipv4Addresses
    ans,         \* the NRF's answer to nf_register, on its way
    hb,          \* the heart beat loop is scheduled
    subLoop,     \* the status subscription loop is scheduled
    \* The NRF and the network.
    puts,        \* instance ids whose registration the NRF has yet to serve
    nrf,         \* what the NRF has of an instance id
    watch,       \* the types whose status subscription is valid at the NRF
    net,         \* the types with an instance the NRF lists
    \* Auxiliary.
    mine         \* instance ids this process has used

disc == <<asked, found, noIpv4>>
proc == <<hosts, disc, subLoop>>
ext  == <<watch, net>>
vars == <<pc, uuid, registered, hosts, asked, found, noIpv4, ans, hb,
          subLoop, puts, nrf, watch, net, mine>>

\* The types that come before n in conf.NF_SCOPES.
Earlier(n) == {m \in NfTypes : Rank[m] < Rank[n]}

Startup == {"register", "retry", "pause", "discover", "amf", "udm"}

\* An id no registration was accepted for or is under way for; one the NRF
\* refused is as good as new.
Fresh == {u \in Uuids \ (puts \cup {uuid}) : nrf[u] = "never"}

Init ==
    /\ pc = "register"
    /\ uuid \in Uuids
    /\ registered = FALSE
    /\ hosts = {} /\ asked = {} /\ found = {} /\ noIpv4 = {}
    /\ ans = "none"
    /\ hb = FALSE /\ subLoop = FALSE
    /\ puts = {uuid}
    /\ nrf = [u \in Uuids |-> "never"]
    /\ watch = {}
    /\ net \in SUBSET NfTypes
    /\ mine = {uuid}

-----------------------------------------------------------------------------
(* Startup.                                                                *)

\* Mutant of RegisterOk: an answer, whatever its code, is a success.
RegisterAnswered ==
    /\ pc = "register" /\ ans # "none"
    /\ pc' = "discover" /\ ans' = "none"
    /\ registered' = TRUE
    /\ hb' = TRUE
    /\ UNCHANGED <<uuid, proc, puts, nrf, ext, mine>>

\* 200, 201 or 204 to the first registration: the heart beat loop starts.
RegisterOk ==
    /\ pc = "register" /\ ans = "ok"
    /\ pc' = "discover" /\ ans' = "none"
    /\ registered' = TRUE
    /\ hb' = TRUE
    /\ UNCHANGED <<uuid, proc, puts, nrf, ext, mine>>

\* update_uuid and nf_register, one round of retry_registration.
Reregister ==
    /\ pc' = "retry" /\ ans' = "none"
    /\ \E u \in Fresh :
        /\ uuid' = u
        /\ puts' = puts \cup {u}
        /\ mine' = mine \cup {u}

RegisterRefused ==
    /\ pc = "register" /\ ans = "refused"
    /\ Reregister
    /\ UNCHANGED <<registered, proc, hb, nrf, ext>>

\* Mutant of RetryOk: the flag that ends the loop is not set.
RetryOkForgotten ==
    /\ pc = "retry" /\ ans = "ok"
    /\ pc' = "pause" /\ ans' = "none"
    /\ UNCHANGED <<registered, uuid, proc, hb, puts, nrf, ext, mine>>

\* A retry that succeeds does not start the heart beat.
RetryOk ==
    /\ pc = "retry" /\ ans = "ok"
    /\ pc' = "discover" /\ ans' = "none"
    /\ registered' = TRUE
    /\ UNCHANGED <<uuid, proc, hb, puts, nrf, ext, mine>>

\* sleep(5), then the next round.
RetryRefused ==
    /\ pc = "retry" /\ ans = "refused"
    /\ pc' = "pause" /\ ans' = "none"
    /\ UNCHANGED <<uuid, registered, proc, hb, puts, nrf, ext, mine>>

RetryAgain ==
    /\ pc = "pause"
    /\ Reregister
    /\ UNCHANGED <<registered, proc, hb, nrf, ext>>

\* One query of nrf_discovery; ipv4Addresses is optional in a profile.
DiscoverType(n) ==
    /\ pc = "discover"
    /\ n \notin asked
    /\ Earlier(n) \subseteq asked
    /\ asked' = asked \cup {n}
    /\ found' = found \cup ({n} \cap net)
    /\ noIpv4' \in {noIpv4, noIpv4 \cup ({n} \cap net)}
    /\ UNCHANGED <<pc, uuid, registered, hosts, ans, hb, subLoop, puts, nrf, ext, mine>>

\* set_nf_endpoints, and the status subscription loop is scheduled.
DiscoverDone ==
    /\ pc = "discover"
    /\ asked = NfTypes
    /\ noIpv4 = {}
    /\ hosts' = hosts \cup found
    /\ subLoop' = TRUE
    /\ pc' = "amf"
    /\ UNCHANGED <<uuid, registered, disc, ans, hb, puts, nrf, ext, mine>>

\* What set_nf_endpoints has written when it raises at the first profile
\* without an address: all types before, and n if another of its profiles
\* came first.
WrittenBefore(n) ==
    {hosts \cup (found \cap Earlier(n)), hosts \cup (found \cap Earlier(n)) \cup {n}}

\* Mutant of EndpointsBroken: set_nf_endpoints catches the exception, and
\* startup goes on.
EndpointsSwallowed ==
    /\ pc = "discover"
    /\ asked = NfTypes
    /\ \E n \in noIpv4 :
        /\ Earlier(n) \cap noIpv4 = {}
        /\ hosts' \in WrittenBefore(n)
    /\ subLoop' = TRUE
    /\ pc' = "amf"
    /\ UNCHANGED <<uuid, registered, disc, ans, hb, puts, nrf, ext, mine>>

\* set_nf_endpoints raises: no status subscription, and the process serves.
EndpointsBroken ==
    /\ pc = "discover"
    /\ asked = NfTypes
    /\ \E n \in noIpv4 :
        /\ Earlier(n) \cap noIpv4 = {}
        /\ hosts' \in WrittenBefore(n)
    /\ pc' = "serving"
    /\ UNCHANGED <<uuid, registered, disc, ans, hb, subLoop, puts, nrf, ext, mine>>

\* The any-UE event subscriptions at the AMF and the UDM end startup.
AmfSubscribe ==
    /\ pc = "amf" /\ "AMF" \in hosts
    /\ pc' = "udm"
    /\ UNCHANGED <<uuid, registered, proc, ans, hb, puts, nrf, ext, mine>>

UdmSubscribe ==
    /\ pc = "udm" /\ "UDM" \in hosts
    /\ pc' = "serving"
    /\ UNCHANGED <<uuid, registered, proc, ans, hb, puts, nrf, ext, mine>>

\* Mutants of StartupException: retry_registration tries again after an
\* exception; startup lets its exceptions out.
StartupExceptionRetries ==
    /\ pc \in Startup \ {"pause"}
    /\ pc' = IF pc = "retry" THEN "pause" ELSE "serving"
    /\ ans' = "none"
    /\ UNCHANGED <<uuid, registered, proc, hb, puts, nrf, ext, mine>>

StartupExceptionRaised ==
    /\ pc \in Startup \ {"pause"}
    /\ pc' = IF pc = "retry" THEN "discover" ELSE "raised"
    /\ ans' = "none"
    /\ UNCHANGED <<uuid, registered, proc, hb, puts, nrf, ext, mine>>

\* An exception: a call times out or its answer does not parse, or the host
\* was not discovered.  retry_registration catches its own and startup goes
\* on with discovery; any other ends startup, and the process serves.
StartupException ==
    /\ pc \in Startup \ {"pause"}
    /\ pc' = IF pc = "retry" THEN "discover" ELSE "serving"
    /\ ans' = "none"
    /\ UNCHANGED <<uuid, registered, proc, hb, puts, nrf, ext, mine>>

-----------------------------------------------------------------------------
(* The background loops.                                                   *)

\* A heart beat answered 200, 201 or 204.
HeartbeatOk ==
    /\ hb
    /\ nrf[uuid] = "registered"
    /\ UNCHANGED vars

\* Any other answer: the flag goes down and the loop goes on.  An exception
\* is swallowed by repeat_every and changes nothing.
HeartbeatFailed ==
    /\ hb
    /\ registered' = FALSE
    /\ UNCHANGED <<pc, uuid, proc, ans, hb, puts, nrf, ext, mine>>

\* One request of a daily round of nf_status_subscribe.
StatusSubscribe(n) ==
    /\ subLoop
    /\ watch' = watch \cup {n}
    /\ UNCHANGED <<pc, uuid, registered, proc, ans, hb, puts, nrf, net, mine>>

-----------------------------------------------------------------------------
(* The end of the process, and the next one.                               *)

Ends ==
    /\ pc' = "stopped"
    /\ registered' = FALSE /\ hb' = FALSE /\ subLoop' = FALSE
    /\ hosts' = {} /\ asked' = {} /\ found' = {} /\ noIpv4' = {} /\ ans' = "none"
    /\ UNCHANGED <<uuid, puts, nrf, ext, mine>>

\* SIGTERM: nf_status_unsubscribe raises whether subscription_data is empty
\* (None is iterated) or not (a record has no 'subscriptionId'), so that
\* nf_deregister is not reached.
Shutdown == pc = "serving" /\ Ends

\* A crash, or hypercorn's startup timeout.
Crash == pc # "stopped" /\ Ends

Restart ==
    /\ pc = "stopped"
    /\ pc' = "register"
    /\ \E u \in Fresh :
        /\ uuid' = u
        /\ puts' = puts \cup {u}
        /\ mine' = {u}
    /\ UNCHANGED <<registered, proc, ans, hb, nrf, ext>>

-----------------------------------------------------------------------------
(* The NRF: it serves a registration late or never, forgets instances whose *)
(* heart beats stop, and lets status subscriptions lapse after a day.       *)

Answered(u, a) ==
    ans' = IF u = uuid /\ pc \in {"register", "retry"} THEN a ELSE ans

NrfAccept(u) ==
    /\ u \in puts
    /\ puts' = puts \ {u}
    /\ nrf' = [nrf EXCEPT ![u] = "registered"]
    /\ Answered(u, "ok")
    /\ UNCHANGED <<pc, uuid, registered, proc, hb, ext, mine>>

NrfRefuse(u) ==
    /\ u \in puts
    /\ puts' = puts \ {u}
    /\ Answered(u, "refused")
    /\ UNCHANGED <<pc, uuid, registered, proc, hb, nrf, ext, mine>>

NrfForget(u) ==
    /\ nrf[u] = "registered"
    /\ nrf' = [nrf EXCEPT ![u] = "gone"]
    /\ UNCHANGED <<pc, uuid, registered, proc, ans, hb, puts, ext, mine>>

NrfLapse(n) ==
    /\ n \in watch
    /\ watch' = watch \ {n}
    /\ UNCHANGED <<pc, uuid, registered, proc, ans, hb, puts, nrf, net, mine>>

\* nrf_notif only logs the notification of such a change.
NetworkChange(n) ==
    /\ net' = IF n \in net THEN net \ {n} ELSE net \cup {n}
    /\ UNCHANGED <<pc, uuid, registered, proc, ans, hb, puts, nrf, watch, mine>>

-----------------------------------------------------------------------------
StartupStep ==
    \/ RegisterOk \/ RegisterRefused \/ RetryOk \/ RetryRefused \/ RetryAgain
    \/ \E n \in NfTypes : DiscoverType(n)
    \/ DiscoverDone \/ EndpointsBroken \/ AmfSubscribe \/ UdmSubscribe \/ StartupException

Next ==
    \/ StartupStep
    \/ HeartbeatOk \/ HeartbeatFailed
    \/ \E n \in NfTypes : StatusSubscribe(n) \/ NrfLapse(n) \/ NetworkChange(n)
    \/ Shutdown \/ Crash \/ Restart
    \/ \E u \in Uuids : NrfAccept(u) \/ NrfRefuse(u) \/ NrfForget(u)

Spec == Init /\ [][Next]_vars

\* Startup goes on (every call ends, by its answer or by httpx's timeout), and
\* an NRF that is asked again and again accepts in the end.  Nothing forces a
\* heart beat to fail, a restart or a change of the network.
FairSpec ==
    /\ Spec
    /\ WF_vars(StartupStep)
    /\ SF_vars(NrfAccept(uuid))

-----------------------------------------------------------------------------
TypeOK ==
    /\ pc \in Startup \cup {"serving", "stopped"}
    /\ uuid \in Uuids
    /\ registered \in BOOLEAN /\ hb \in BOOLEAN /\ subLoop \in BOOLEAN
    /\ hosts \subseteq NfTypes /\ asked \subseteq NfTypes /\ found \subseteq NfTypes
    /\ noIpv4 \subseteq found
    /\ ans \in {"none", "ok", "refused"}
    /\ puts \subseteq Uuids
    /\ nrf \in [Uuids -> {"never", "registered", "gone"}]
    /\ watch \subseteq NfTypes /\ net \subseteq NfTypes
    /\ mine \subseteq Uuids

\* The flag and the heart beat stand for a registration the NRF has accepted
\* under the very id the process has now, although every retry draws a new
\* id; a heart beat never names an id that was replaced; and a process that
\* counts as registered without a heart beat got there by a retry (main.py:106).
RegistrationIsAccepted ==
    /\ registered => nrf[uuid] # "never"
    /\ hb => nrf[uuid] # "never" /\ mine = {uuid}
    /\ registered /\ ~hb => mine # {uuid}

\* However often registration is refused, times out or is answered late, one
\* process leaves at most one instance id at the NRF.
OneIdPerProcess ==
    \A u, v \in mine :
        (u \in puts \/ nrf[u] = "registered")
            /\ (v \in puts \/ nrf[v] = "registered") => u = v

\* Wherever discovery breaks off, conf.HOSTS holds nothing, or the answers of a
\* complete round of queries from the front of conf.NF_SCOPES on: no type is
\* served without those before it.  Status subscriptions run only where
\* nothing was left out (main.py:78-81, config.py:170-176).
DiscoveryInOrder ==
    /\ pc = "discover" => hosts = {}
    /\ hosts # {} => asked = NfTypes
    /\ \A n \in hosts : n \in found /\ found \cap Earlier(n) \subseteq hosts
    /\ subLoop => asked = NfTypes /\ hosts = found

\* Startup ends: the retry loop is left once the NRF accepts.
StartupEnds == pc \in Startup ~> pc \in {"serving", "stopped"}

\* main.py:95, "Heartbeat failed: NF not found. Re-registering...": after a
\* failed heart beat the process registers again.
HeartbeatReregisters ==
    (pc = "serving" /\ hb /\ ~registered) ~> (registered \/ pc = "stopped")

=============================================================================
