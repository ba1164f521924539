--------------------------- MODULE NfManagementProofs ---------------------------
(***************************************************************************)
(* Theorems about NfManagement for every set of instance ids and NF types:  *)
(* type correctness, RegistrationIsAccepted, OneIdPerProcess and            *)
(* DiscoveryInOrder.                                                        *)
(*                                                                         *)
(* The first two say what holds of an id after the NRF has answered; the    *)
(* invariant adds what holds while the answer is on its way: an accepted    *)
(* registration is known to the NRF, a refused one leaves nothing behind,   *)
(* and the process has no claim under the ids it used before.  For the      *)
(* third it adds what conf.HOSTS holds at each await of startup.            *)
(***************************************************************************)
EXTENDS NfManagement, TLAPS

\* The NRF has, or may yet get, a registration under u.
Claim(u) == u \in puts \/ nrf[u] = "registered"

AnswerInv ==
    /\ ans # "none" => pc \in {"register", "retry"} /\ uuid \notin puts
    /\ ans = "ok" => nrf[uuid] # "never"
    /\ ans = "refused" \/ pc = "pause" => ~Claim(uuid)
    /\ uuid \in mine
    /\ \A u \in mine : Claim(u) => u = uuid
    /\ \A u \in puts : nrf[u] = "never"
    /\ pc \in {"register", "retry", "pause"} => ~registered /\ ~hb
    /\ pc \in {"register", "stopped"} => ~hb /\ ~registered
    /\ pc = "register" => mine = {uuid}
    /\ pc \in {"retry", "pause"} => mine # {uuid}

\* conf.HOSTS is empty until discovery is over.  The order of conf.NF_SCOPES
\* makes what a failing set_nf_endpoints leaves behind complete up to a point.
HostsInv ==
    /\ pc \in {"register", "retry", "pause", "discover", "stopped"} => hosts = {} /\ ~subLoop
    /\ pc \in {"amf", "udm"} => asked = NfTypes /\ hosts = found
    /\ DiscoveryInOrder

USE DEF disc, proc, ext, vars

LEMMA TypeStep ==
    ASSUME TypeOK, [Next]_vars
    PROVE  TypeOK'
<1> USE DEF TypeOK, Startup, Fresh
<1>1. CASE RegisterOk
    BY <1>1 DEF RegisterOk
<1>2. CASE RegisterRefused
    BY <1>2 DEF RegisterRefused, Reregister
<1>3. CASE RetryOk
    BY <1>3 DEF RetryOk
<1>4. CASE RetryRefused
    BY <1>4 DEF RetryRefused
<1>5. CASE RetryAgain
    BY <1>5 DEF RetryAgain, Reregister
<1>6. ASSUME NEW n \in NfTypes, DiscoverType(n) PROVE TypeOK'
    BY <1>6 DEF DiscoverType
<1>7. CASE DiscoverDone
    BY <1>7 DEF DiscoverDone
<1>8. CASE AmfSubscribe
    BY <1>8 DEF AmfSubscribe
<1>9. CASE UdmSubscribe
    BY <1>9 DEF UdmSubscribe
<1>10. CASE StartupException
    BY <1>10 DEF StartupException
<1>11. CASE HeartbeatOk
    BY <1>11 DEF HeartbeatOk
<1>12. CASE HeartbeatFailed
    BY <1>12 DEF HeartbeatFailed
<1>13. ASSUME NEW n \in NfTypes, StatusSubscribe(n) PROVE TypeOK'
    BY <1>13 DEF StatusSubscribe
<1>14. ASSUME NEW n \in NfTypes, NrfLapse(n) PROVE TypeOK'
    BY <1>14 DEF NrfLapse
<1>15. ASSUME NEW n \in NfTypes, NetworkChange(n) PROVE TypeOK'
    BY <1>15 DEF NetworkChange
<1>16. CASE Shutdown
    BY <1>16 DEF Shutdown, Ends
<1>17. CASE Crash
    BY <1>17 DEF Crash, Ends
<1>18. CASE Restart
    BY <1>18 DEF Restart
<1>19. ASSUME NEW u \in Uuids, NrfAccept(u) PROVE TypeOK'
    BY <1>19 DEF NrfAccept, Answered
<1>20. ASSUME NEW u \in Uuids, NrfRefuse(u) PROVE TypeOK'
    BY <1>20 DEF NrfRefuse, Answered
<1>21. ASSUME NEW u \in Uuids, NrfForget(u) PROVE TypeOK'
    BY <1>21 DEF NrfForget
<1>22. CASE EndpointsBroken
    BY <1>22 DEF EndpointsBroken, WrittenBefore
<1>23. CASE UNCHANGED vars
    BY <1>23
<1> QED
    BY <1>1, <1>2, <1>3, <1>4, <1>5, <1>6, <1>7, <1>8, <1>9, <1>10, <1>11,
       <1>12, <1>13, <1>14, <1>15, <1>16, <1>17, <1>18, <1>19, <1>20, <1>21, <1>22,
       <1>23 DEF Next, StartupStep

LEMMA AnswerStep ==
    ASSUME TypeOK, AnswerInv, [Next]_vars
    PROVE  AnswerInv'
<1> USE DEF TypeOK, AnswerInv, Startup, Fresh, Claim
<1>1. CASE RegisterOk
    BY <1>1 DEF RegisterOk
<1>2. CASE RegisterRefused
    BY <1>2 DEF RegisterRefused, Reregister
<1>3. CASE RetryOk
    BY <1>3 DEF RetryOk
<1>4. CASE RetryRefused
    BY <1>4 DEF RetryRefused
<1>5. CASE RetryAgain
    BY <1>5 DEF RetryAgain, Reregister
<1>6. ASSUME NEW n \in NfTypes, DiscoverType(n) PROVE AnswerInv'
    BY <1>6 DEF DiscoverType
<1>7. CASE DiscoverDone
    BY <1>7 DEF DiscoverDone
<1>8. CASE AmfSubscribe
    BY <1>8 DEF AmfSubscribe
<1>9. CASE UdmSubscribe
    BY <1>9 DEF UdmSubscribe
<1>10. CASE StartupException
    BY <1>10 DEF StartupException
<1>11. CASE HeartbeatOk
    BY <1>11 DEF HeartbeatOk
<1>12. CASE HeartbeatFailed
    BY <1>12 DEF HeartbeatFailed
<1>13. ASSUME NEW n \in NfTypes, StatusSubscribe(n) PROVE AnswerInv'
    BY <1>13 DEF StatusSubscribe
<1>14. ASSUME NEW n \in NfTypes, NrfLapse(n) PROVE AnswerInv'
    BY <1>14 DEF NrfLapse
<1>15. ASSUME NEW n \in NfTypes, NetworkChange(n) PROVE AnswerInv'
    BY <1>15 DEF NetworkChange
<1>16. CASE Shutdown
    BY <1>16 DEF Shutdown, Ends
<1>17. CASE Crash
    BY <1>17 DEF Crash, Ends
<1>18. CASE Restart
    BY <1>18 DEF Restart
<1>19. ASSUME NEW u \in Uuids, NrfAccept(u) PROVE AnswerInv'
    BY <1>19 DEF NrfAccept, Answered
<1>20. ASSUME NEW u \in Uuids, NrfRefuse(u) PROVE AnswerInv'
    BY <1>20 DEF NrfRefuse, Answered
<1>21. ASSUME NEW u \in Uuids, NrfForget(u) PROVE AnswerInv'
    BY <1>21 DEF NrfForget
<1>22. CASE EndpointsBroken
    BY <1>22 DEF EndpointsBroken, WrittenBefore
<1>23. CASE UNCHANGED vars
    BY <1>23
<1> QED
    BY <1>1, <1>2, <1>3, <1>4, <1>5, <1>6, <1>7, <1>8, <1>9, <1>10, <1>11,
       <1>12, <1>13, <1>14, <1>15, <1>16, <1>17, <1>18, <1>19, <1>20, <1>21, <1>22,
       <1>23 DEF Next, StartupStep

LEMMA AcceptedStep ==
    ASSUME TypeOK, AnswerInv, RegistrationIsAccepted, [Next]_vars
    PROVE  RegistrationIsAccepted'
<1> USE DEF TypeOK, AnswerInv, RegistrationIsAccepted, Startup, Fresh, Claim
<1>1. CASE RegisterOk
    BY <1>1 DEF RegisterOk
<1>2. CASE RegisterRefused
    BY <1>2 DEF RegisterRefused, Reregister
<1>3. CASE RetryOk
    BY <1>3 DEF RetryOk
<1>4. CASE RetryRefused
    BY <1>4 DEF RetryRefused
<1>5. CASE RetryAgain
    BY <1>5 DEF RetryAgain, Reregister
<1>6. ASSUME NEW n \in NfTypes, DiscoverType(n) PROVE RegistrationIsAccepted'
    BY <1>6 DEF DiscoverType
<1>7. CASE DiscoverDone
    BY <1>7 DEF DiscoverDone
<1>8. CASE AmfSubscribe
    BY <1>8 DEF AmfSubscribe
<1>9. CASE UdmSubscribe
    BY <1>9 DEF UdmSubscribe
<1>10. CASE StartupException
    BY <1>10 DEF StartupException
<1>11. CASE HeartbeatOk
    BY <1>11 DEF HeartbeatOk
<1>12. CASE HeartbeatFailed
    BY <1>12 DEF HeartbeatFailed
<1>13. ASSUME NEW n \in NfTypes, StatusSubscribe(n) PROVE RegistrationIsAccepted'
    BY <1>13 DEF StatusSubscribe
<1>14. ASSUME NEW n \in NfTypes, NrfLapse(n) PROVE RegistrationIsAccepted'
    BY <1>14 DEF NrfLapse
<1>15. ASSUME NEW n \in NfTypes, NetworkChange(n) PROVE RegistrationIsAccepted'
    BY <1>15 DEF NetworkChange
<1>16. CASE Shutdown
    BY <1>16 DEF Shutdown, Ends
<1>17. CASE Crash
    BY <1>17 DEF Crash, Ends
<1>18. CASE Restart
    BY <1>18 DEF Restart
<1>19. ASSUME NEW u \in Uuids, NrfAccept(u) PROVE RegistrationIsAccepted'
    BY <1>19 DEF NrfAccept, Answered
<1>20. ASSUME NEW u \in Uuids, NrfRefuse(u) PROVE RegistrationIsAccepted'
    BY <1>20 DEF NrfRefuse, Answered
<1>21. ASSUME NEW u \in Uuids, NrfForget(u) PROVE RegistrationIsAccepted'
    BY <1>21 DEF NrfForget
<1>22. CASE EndpointsBroken
    BY <1>22 DEF EndpointsBroken, WrittenBefore
<1>23. CASE UNCHANGED vars
    BY <1>23
<1> QED
    BY <1>1, <1>2, <1>3, <1>4, <1>5, <1>6, <1>7, <1>8, <1>9, <1>10, <1>11,
       <1>12, <1>13, <1>14, <1>15, <1>16, <1>17, <1>18, <1>19, <1>20, <1>21, <1>22,
       <1>23 DEF Next, StartupStep

LEMMA HostsStep ==
    ASSUME TypeOK, HostsInv, [Next]_vars
    PROVE  HostsInv'
<1> USE RankAssumption DEF TypeOK, HostsInv, DiscoveryInOrder, Earlier, Startup
<1>1. CASE RegisterOk
    BY <1>1 DEF RegisterOk
<1>2. CASE RegisterRefused
    BY <1>2 DEF RegisterRefused, Reregister
<1>3. CASE RetryOk
    BY <1>3 DEF RetryOk
<1>4. CASE RetryRefused
    BY <1>4 DEF RetryRefused
<1>5. CASE RetryAgain
    BY <1>5 DEF RetryAgain, Reregister
<1>6. ASSUME NEW n \in NfTypes, DiscoverType(n) PROVE HostsInv'
    BY <1>6 DEF DiscoverType
<1>7. CASE DiscoverDone
    BY <1>7 DEF DiscoverDone
<1>8. CASE AmfSubscribe
    BY <1>8 DEF AmfSubscribe
<1>9. CASE UdmSubscribe
    BY <1>9 DEF UdmSubscribe
<1>10. CASE StartupException
    BY <1>10 DEF StartupException
<1>11. CASE HeartbeatOk
    BY <1>11 DEF HeartbeatOk
<1>12. CASE HeartbeatFailed
    BY <1>12 DEF HeartbeatFailed
<1>13. ASSUME NEW n \in NfTypes, StatusSubscribe(n) PROVE HostsInv'
    BY <1>13 DEF StatusSubscribe
<1>14. ASSUME NEW n \in NfTypes, NrfLapse(n) PROVE HostsInv'
    BY <1>14 DEF NrfLapse
<1>15. ASSUME NEW n \in NfTypes, NetworkChange(n) PROVE HostsInv'
    BY <1>15 DEF NetworkChange
<1>16. CASE Shutdown
    BY <1>16 DEF Shutdown, Ends
<1>17. CASE Crash
    BY <1>17 DEF Crash, Ends
<1>18. CASE Restart
    BY <1>18 DEF Restart
<1>19. ASSUME NEW u \in Uuids, NrfAccept(u) PROVE HostsInv'
    BY <1>19 DEF NrfAccept, Answered
<1>20. ASSUME NEW u \in Uuids, NrfRefuse(u) PROVE HostsInv'
    BY <1>20 DEF NrfRefuse, Answered
<1>21. ASSUME NEW u \in Uuids, NrfForget(u) PROVE HostsInv'
    BY <1>21 DEF NrfForget
<1>22. CASE EndpointsBroken
    BY <1>22 DEF EndpointsBroken, WrittenBefore
<1>23. CASE UNCHANGED vars
    BY <1>23
<1> QED
    BY <1>1, <1>2, <1>3, <1>4, <1>5, <1>6, <1>7, <1>8, <1>9, <1>10, <1>11,
       <1>12, <1>13, <1>14, <1>15, <1>16, <1>17, <1>18, <1>19, <1>20, <1>21, <1>22,
       <1>23 DEF Next, StartupStep

IInv == TypeOK /\ AnswerInv /\ RegistrationIsAccepted /\ HostsInv

\* Every reachable state satisfies the inductive invariant.
THEOREM Invariance == Spec => []IInv
<1>1. Init => IInv
  <2> SUFFICES ASSUME Init PROVE IInv
      OBVIOUS
  <2>1. TypeOK
      BY DEF Init, TypeOK, Startup
  <2>2. AnswerInv /\ RegistrationIsAccepted
      BY DEF Init, AnswerInv, RegistrationIsAccepted, Claim
  <2>3. HostsInv
      BY DEF Init, HostsInv, DiscoveryInOrder, Startup
  <2> QED
      BY <2>1, <2>2, <2>3 DEF IInv
<1>2. IInv /\ [Next]_vars => IInv'
    BY TypeStep, AnswerStep, AcceptedStep, HostsStep DEF IInv
<1> QED
    BY <1>1, <1>2, PTL DEF Spec

\* Every variable keeps its type.
THEOREM TypeCorrect == Spec => []TypeOK
<1>1. IInv => TypeOK
    BY DEF IInv
<1> QED
    BY <1>1, Invariance, PTL

\* conf.REGISTERED and the heart beat stand for the id the NRF accepted.
THEOREM RegistrationsAccepted == Spec => []RegistrationIsAccepted
<1>1. IInv => RegistrationIsAccepted
    BY DEF IInv
<1> QED
    BY <1>1, Invariance, PTL

\* A process has a claim at the NRF under one id at most, however many ids
\* its retries draw.
THEOREM OneId == Spec => []OneIdPerProcess
<1>1. IInv => OneIdPerProcess
    BY DEF IInv, AnswerInv, OneIdPerProcess, Claim
<1> QED
    BY <1>1, Invariance, PTL

\* Wherever startup breaks off, between two queries or between two profiles,
\* conf.HOSTS is complete up to a point of conf.NF_SCOPES, and complete where
\* status subscriptions run.
THEOREM DiscoveryOrdered == Spec => []DiscoveryInOrder
<1>1. IInv => DiscoveryInOrder
    BY DEF IInv, HostsInv
<1> QED
    BY <1>1, Invariance, PTL

=============================================================================
