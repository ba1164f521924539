------------------------------- MODULE NefProofs -------------------------------
(***************************************************************************)
(* Theorems about the monitoring event API inside Nef, for any number of   *)
(* requests to the three APIs: MonitoringRules and MonitoringAnswers.      *)
(*                                                                         *)
(* Both speak of subscriptions in the core network.  MonInv ties these to  *)
(* the call a handler made, the call to the checks and branches its body   *)
(* has passed, and the answer to the end of the call.                      *)
(***************************************************************************)
EXTENDS Nef, TLAPS

\* What a handler of the monitoring API and its call are.
MonType ==
    /\ monReq \in [MonTasks -> M!Request]
    /\ sub \in [MonTasks -> {"none", "live"}]

\* A body for which the core network is called.
Callable(b) ==
    /\ ~M!Rejected(b)
    /\ b.type \in M!UdmTypes \cup M!AmfTypes
    /\ b.type \in M!UdmTypes => b.max # None
    /\ b.type \in M!AmfTypes => "externalGroupId" \notin b.ids
    /\ "expiry" \notin b.has

MonInv ==
    \A t \in MonTasks :
        /\ monReq[t].pc \in {"idle", "check", "translate", "read"} =>
               monReq[t].call = "none"
        /\ monReq[t].pc = "check" => ~M!Rejected(monReq[t].body)
        /\ monReq[t].call # "none" => Callable(monReq[t].body)
        /\ sub[t] = "live" <=> monReq[t].call = "ok"
        /\ monReq[t].ans # None => monReq[t].pc = "done"
        /\ monReq[t].ans = "created" => monReq[t].call = "ok"
        /\ monReq[t].ans \in {"bad_request", "not_found", "core_status", "ok"} =>
               monReq[t].call \in {"none", "refused"}

USE DEF qosOnly, tiOnly, monOnly, vars

-----------------------------------------------------------------------------
\* A field may be set to any value of its type.
LEMMA SetPc ==
    ASSUME NEW r \in M!Request, NEW x \in M!Waiting \cup {"idle", "done", "dead"}
    PROVE  [r EXCEPT !.pc = x] \in M!Request
BY DEF M!Request

LEMMA SetOp ==
    ASSUME NEW r \in M!Request, NEW x \in M!AllOps \cup {None}
    PROVE  [r EXCEPT !.op = x] \in M!Request
BY DEF M!Request

LEMMA SetBody ==
    ASSUME NEW r \in M!Request, NEW x \in MonBodies \cup {None}
    PROVE  [r EXCEPT !.body = x] \in M!Request
BY DEF M!Request

LEMMA SetCall ==
    ASSUME NEW r \in M!Request, NEW x \in {"none", "sent", "ok", "refused"}
    PROVE  [r EXCEPT !.call = x] \in M!Request
BY DEF M!Request

LEMMA SetAns ==
    ASSUME NEW r \in M!Request, NEW x \in M!Answers \cup {None}
    PROVE  [r EXCEPT !.ans = x] \in M!Request
BY DEF M!Request

LEMMA MonTypeStep ==
    ASSUME MonType, NEW t \in MonTasks, M!Step(t)
    PROVE  MonType'
<1> USE DEF MonType, M!Waiting, M!Answers, M!AllOps, M!Answer, M!At, M!Accept
<1>1. CASE M!MonCreateInvalid(t)
    BY <1>1, SetPc, SetOp, SetAns DEF M!MonCreateInvalid
<1>2. CASE M!MonCreate(t)
  <2>1. PICK b \in MonBodies :
            monReq' = [monReq EXCEPT ![t].pc = "check", ![t].op = "create",
                                     ![t].body = b]
    BY <1>2 DEF M!MonCreate
  <2> QED
    BY <1>2, <2>1, SetPc, SetOp, SetBody DEF M!MonCreate
<1>3. CASE M!CheckedUdm(t)
  <2>1. CASE M!Answer(t, "server_error")
    BY <1>3, <2>1, SetPc, SetAns DEF M!CheckedUdm
  <2>2. CASE monReq' = [monReq EXCEPT ![t].pc = "core", ![t].call = "sent"]
    BY <1>3, <2>2, SetPc, SetCall DEF M!CheckedUdm
  <2> QED
    BY <1>3, <2>1, <2>2 DEF M!CheckedUdm
<1>4. CASE M!CheckedAmf(t)
  <2>1. CASE M!Answer(t, "server_error")
    BY <1>4, <2>1, SetPc, SetAns DEF M!CheckedAmf
  <2>2. CASE monReq' = [monReq EXCEPT ![t].pc = "core", ![t].call = "sent"]
    BY <1>4, <2>2, SetPc, SetCall DEF M!CheckedAmf
  <2>3. CASE monReq' = [monReq EXCEPT ![t].pc = "translate"]
    BY <1>4, <2>3, SetPc DEF M!CheckedAmf
  <2> QED
    BY <1>4, <2>1, <2>2, <2>3 DEF M!CheckedAmf
<1>5. CASE M!CheckedOther(t)
    BY <1>5, SetPc, SetAns DEF M!CheckedOther
<1>6. CASE M!GroupTranslated(t)
    BY <1>6, SetPc, SetAns DEF M!GroupTranslated
<1>7. CASE M!NoHost(t)
    BY <1>7, SetPc, SetAns DEF M!NoHost
<1>8. CASE M!MonCreated(t)
    BY <1>8, SetPc, SetAns DEF M!MonCreated
<1>9. CASE M!MonUnanswerable(t)
    BY <1>9, SetPc, SetAns DEF M!MonUnanswerable
<1>10. CASE M!MonRefused(t)
    BY <1>10, SetPc, SetAns DEF M!MonRefused
<1>11. CASE M!MonRequest(t)
  <2>1. PICK o \in M!AllOps :
            monReq' = [monReq EXCEPT ![t].pc = "read", ![t].op = o]
    BY <1>11 DEF M!MonRequest
  <2> QED
    BY <1>11, <2>1, SetPc, SetOp DEF M!MonRequest
<1>12. CASE M!FoundNothing(t)
  <2>1. PICK a \in {"ok", "not_found", "server_error"} : M!Answer(t, a)
    BY <1>12 DEF M!FoundNothing
  <2> QED
    BY <1>12, <2>1, SetPc, SetAns DEF M!FoundNothing
<1>13. CASE M!MonUpdate(t)
    BY <1>13, SetPc, SetOp, SetAns DEF M!MonUpdate
<1>14. CASE M!CoreCreate(t)
    BY <1>14, SetCall DEF M!CoreCreate
<1>15. CASE M!CoreReject(t)
    BY <1>15, SetCall DEF M!CoreReject
<1>16. CASE M!HttpTimeout(t)
    BY <1>16, SetPc, SetAns DEF M!HttpTimeout
<1>17. CASE M!DbFault(t)
    BY <1>17, SetPc, SetAns DEF M!DbFault
<1> QED
    BY <1>1, <1>2, <1>3, <1>4, <1>5, <1>6, <1>7, <1>8, <1>9, <1>10, <1>11,
       <1>12, <1>13, <1>14, <1>15, <1>16, <1>17
       DEF M!Step

LEMMA MonInvStep ==
    ASSUME MonType, MonInv, NEW t \in MonTasks, M!Step(t)
    PROVE  MonInv'
<1> USE MonAssumption
    DEF MonType, MonInv, M!Request, M!Waiting, M!Answers, M!AllOps, M!Answer,
        M!At, M!Accept, M!NoneAssumption
<1>1. CASE M!MonCreateInvalid(t)
    BY <1>1 DEF M!MonCreateInvalid
<1>2. CASE M!MonCreate(t)
    BY <1>2 DEF M!MonCreate
<1>3. CASE M!CheckedUdm(t)
    BY <1>3 DEF M!CheckedUdm
<1>4. CASE M!CheckedAmf(t)
    BY <1>4 DEF M!CheckedAmf
<1>5. CASE M!CheckedOther(t)
    BY <1>5 DEF M!CheckedOther
<1>6. CASE M!GroupTranslated(t)
    BY <1>6 DEF M!GroupTranslated
<1>7. CASE M!NoHost(t)
    BY <1>7 DEF M!NoHost
<1>8. CASE M!MonCreated(t)
    BY <1>8 DEF M!MonCreated
<1>9. CASE M!MonUnanswerable(t)
    BY <1>9 DEF M!MonUnanswerable
<1>10. CASE M!MonRefused(t)
    BY <1>10 DEF M!MonRefused
<1>11. CASE M!MonRequest(t)
    BY <1>11 DEF M!MonRequest
<1>12. CASE M!FoundNothing(t)
    BY <1>12 DEF M!FoundNothing
<1>13. CASE M!MonUpdate(t)
    BY <1>13 DEF M!MonUpdate
<1>14. CASE M!CoreCreate(t)
    BY <1>14 DEF M!CoreCreate
<1>15. CASE M!CoreReject(t)
    BY <1>15 DEF M!CoreReject
<1>16. CASE M!HttpTimeout(t)
    BY <1>16 DEF M!HttpTimeout
<1>17. CASE M!DbFault(t)
    BY <1>17 DEF M!DbFault
<1> QED
    BY <1>1, <1>2, <1>3, <1>4, <1>5, <1>6, <1>7, <1>8, <1>9, <1>10, <1>11,
       <1>12, <1>13, <1>14, <1>15, <1>16, <1>17
       DEF M!Step

LEMMA MonDies ==
    ASSUME MonType, MonInv, M!Die
    PROVE  MonType' /\ MonInv'
BY DEF MonType, MonInv, M!Die, M!Request, M!Waiting

\* A step of the NEF is a step of a monitoring request, a crash, or one of the
\* other APIs, which leave the monitoring requests alone.
LEMMA MonStepOrNot ==
    ASSUME [Next]_vars
    PROVE  \/ \E t \in MonTasks : M!Step(t)
           \/ M!Die
           \/ UNCHANGED monOnly
BY DEF Next, QosStep, TiStep, MonStep, Clean, Wipe, Crash

LEMMA MonInitial == Init => MonType /\ MonInv
<1> SUFFICES ASSUME M!Init PROVE MonType /\ MonInv
    BY DEF Init
<1>1. monReq \in [MonTasks -> M!Request] /\ sub \in [MonTasks -> {"none", "live"}]
    BY DEF M!Init, M!Request
<1>2. \A t \in MonTasks : monReq[t].pc = "idle" /\ monReq[t].call = "none"
                              /\ monReq[t].ans = None /\ sub[t] = "none"
    BY DEF M!Init
<1>3. None \notin {"created", "bad_request", "not_found", "core_status", "ok"}
    BY MonAssumption DEF M!NoneAssumption, M!Answers
<1> QED
    BY <1>1, <1>2, <1>3 DEF MonType, MonInv

THEOREM MonInvariance == Spec => [](MonType /\ MonInv)
<1>1. MonType /\ MonInv /\ [Next]_vars => MonType' /\ MonInv'
  <2> SUFFICES ASSUME MonType, MonInv, [Next]_vars
               PROVE  MonType' /\ MonInv'
      OBVIOUS
  <2>1. ASSUME NEW t \in MonTasks, M!Step(t) PROVE MonType' /\ MonInv'
      BY <2>1, MonTypeStep, MonInvStep
  <2>2. CASE M!Die
      BY <2>2, MonDies
  <2>3. CASE UNCHANGED monOnly
      BY <2>3 DEF MonType, MonInv
  <2> QED
      BY <2>1, <2>2, <2>3, MonStepOrNot
<1> QED
    BY <1>1, MonInitial, PTL DEF Spec

\* Whatever the other APIs do, an event subscription is made only for a body
\* that keeps the rules the messages of the checks state.
THEOREM RulesKept == Spec => []MonitoringRules
<1>1. MonType /\ MonInv => MonitoringRules
  <2> SUFFICES ASSUME MonInv, NEW t \in MonTasks, sub[t] = "live"
               PROVE  LET b == monReq[t].body IN
                      /\ b.type \in M!UdmTypes \cup M!AmfTypes
                      /\ b.type \in M!UdmTypes => b.max # None
                      /\ b.type \in M!AmfTypes => "externalGroupId" \notin b.ids
                      /\ (b.type \in {"LOCATION_REPORTING", "NUMBER_OF_UES_IN_AN_AREA"}
                             \/ "locating" \in b.has) =>
                              M!OneOf(b, {"externalId", "msisdn", "externalGroupId"})
                      /\ (b.type = "NUMBER_OF_UES_IN_AN_AREA"
                             \/ b.location = "LAST_KNOWN_LOCATION") => b.max = 1
                      /\ "expiry" \notin b.has
      BY DEF MonitoringRules, M!SubscriptionsKeepRules
  <2>1. Callable(monReq[t].body)
      BY DEF MonInv
  <2> QED
      BY <2>1 DEF Callable, M!Rejected
<1> QED
    BY <1>1, MonInvariance, PTL

\* An answer of the monitoring API other than 201 and 500 promises that nothing
\* was subscribed, and a 201 that something was; neither is broken later.
THEOREM AnswersTrue == Spec => []MonitoringAnswers
<1>1. MonType /\ MonInv => MonitoringAnswers
    BY DEF MonType, MonInv, MonitoringAnswers, M!AnswersTellTheCore
<1> QED
    BY <1>1, MonInvariance, PTL

=============================================================================
