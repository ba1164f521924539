# A formal model of the NEF

TLA+ modules for the Network Exposure Function in this repository: a FastAPI
service (`src/main.py`) that translates northbound 3GPP APIs (monitoring event,
traffic influence, AsSessionWithQoS) into calls to the network functions of a 5G
core, keeps its subscriptions in MongoDB and registers itself with the NRF.

```
tlasany  QosSession.tla
tlc -workers 2 -config MCQosSession_core.cfg MCQosSession
tlapm    QosSessionProofs.tla
```

`PROJECT.json` lists components, runs, mutants, the source lines every definition
stands for, the findings, the hazards and the theorems.

## 1. Inventory

One container (`src/nef-deployment.yaml`: one replica; `src/Dockerfile`: hypercorn,
one asyncio worker) and three kinds of peer: AFs (clients), MongoDB, and the core
network functions (NRF, BSF, PCF, UDR, UDM, AMF) over HTTP with httpx.
A handler runs without interruption between two `await`s; all handlers share the
event loop, `conf` and the database, and none takes a lock or opens a transaction.

| Component | State | Operations | Hard behaviour |
| --- | --- | --- | --- |
| AsSessionWithQoS API: `main.py` 753-952, `crud/asSessionWithQoSSub.py`, `core/pcf_handler.py`, `core/bsf_handler.py` | collection `as_session_with_qos_sub` (`_id`, scsAsId, PCF location, body); the sessions at the PCFs | POST, GET one, GET all, PUT, PATCH, DELETE, `/qget`, `/qdelete` | two stores without a transaction; five awaits per create, six per delete; late and lost answers; crash |
| `/clean`: `main.py` 956-961, `session.py` 12-23 | all collections | drops the records, not awaited | races with everything |
| Shared response headers: `api/config.py` 32-36 | `conf.GLOBAL_HEADERS` | every handler sends it, creates write `location` into it | one dictionary for all requests |
| NF management: `main.py` 65-126, `core/nrf_handler.py`, `api/config.py` 139-176 | `conf.REGISTERED`, `conf.API_UUID`, `conf.HOSTS`, background loops; the NRF's profiles and status subscriptions | register, retry, heart beat, discover, subscribe, shut down | retries under new ids, late answers, a background loop, crash and restart |
| Traffic influence API: `main.py` 520-748, `crud/trafficInfluSub.py`, `core/udr_handler.py`, `core/pcf_handler.py` | collection `traffic_influ_sub`; influence data at the UDR or a session at the PCF | POST, GET one, GET all, PUT, PATCH, DELETE, `/tiget`, `/tidelete` | UDR or PCF branch; two answers built in two kinds of headers; the answer to a deletion is ignored; xor checks of the body |
| Monitoring event API: `main.py` 259-517, `crud/monitoringEventSubscription.py`, `core/udm_handler.py`, `core/amf_handler.py` | collection of subscriptions (always empty); event subscriptions at UDM and AMF | POST, GET, PUT, PATCH, DELETE, `/monget`, `/mondelete` | an insert that is not awaited; ten overlapping checks |
| Request validation: `main.py` (the checks at the head of each POST) | none | exactly-one and required-together rules | parity of xor chains, precedence of `and` and `or` |
| Notifications: `main.py` callbacks, `core/af_handler.py` | none | log and answer | the id in the callback URI must name a record |
| UE identity / UE information: `controllers/ue_id.py` | none | pass-through to BSF and UDM | none |
| OAuth router, commented-out controllers, generated `models/`, serialisers, charts, test client | none of the service | - | not modelled, see section 7 |

Interactions. The QoS, traffic influence and monitoring handlers read `conf.HOSTS`,
which NF management writes once, at the end of discovery; they share
`GLOBAL_HEADERS`; they share nothing else but the PCF. The PCF, UDM and AMF call back
under a URI with the id of a record.

What makes each part correct:

- QoS, traffic influence, monitoring: records and core-network resources stay one
  to one; a deletion answered 204 is final; an AF touches only its own records;
  the answer a client sees agrees with what was done; every request is answered.
- NF management: the process claims to be registered only under an id the NRF
  accepted; one process has one id at the NRF; startup ends; wherever discovery
  breaks off, `conf.HOSTS` is a front part of what a complete round of queries found; a lost registration is renewed.
- Validation: a body is accepted exactly when the documented rule holds.

At this commit the service does not import: `controllers/oauth.py:2` takes
`CryptContext` from `bcrypt`, and two controllers import a `send_notification` that is
commented out where they look for it. The model describes the handlers of `main.py` as they run once
those imports resolve. Commented-out code is not modelled.

## 2. Modules

| Module | What it holds |
| --- | --- |
| `QosSession` | the AsSessionWithQoS handlers, their records, the PCFs, failures, the QoS half of `/clean`, the shared location header; properties and refuted claims |
| `MCQosSession` + 7 cfgs | instances for TLC |
| `QosSessionProofs` | the inductive invariant and the theorems about `QosSession` |
| `QosCalmProofs` | while nothing has failed, no session of `QosSession` is lost and no record stands without one; whatever fails, what is left over has an explanation |
| `SubscriptionRegistry` | the abstract service: what an API promises its clients, without core network, database and awaits |
| `QosRegistryProofs` | `QosSession` implements `SubscriptionRegistry` |
| `TrafficInfluence` | the traffic influence handlers, their records, UDR and PCFs, failures, their half of `/clean`; the checks of the body |
| `MCTrafficInfluence` + 2 cfgs | instances for TLC |
| `TrafficInfluenceProofs` | the inductive invariant and the theorems about `TrafficInfluence` |
| `TrafficInfluenceCalmProofs` | while nothing has failed, its records and core resources agree |
| `MonitoringEvent` | the monitoring event handlers, the checks of the body, UDM and AMF |
| `Nef` | the three APIs composed in one process |
| `MCNef` + 1 cfg | its instance for TLC |
| `NefProofs` | the theorems about the monitoring API inside `Nef` |
| `NefApiProofs` | the theorems about the QoS and traffic influence APIs inside `Nef`, from those about each |
| `NfManagement` | startup, retry, heart beat, discovery, status subscription, shutdown, crash, restart, and the NRF |
| `MCNfManagement` + 2 cfgs | instances for TLC |
| `NfManagementProofs` | the theorems about `NfManagement` |

An operator commented "Mutant of X" is a plausible bug in X; no specification uses it.
It is what X is replaced by to see that a property notices.

### 2.1 QosSession and the code

A *task* is one HTTP request with its handler. `pc[t]` names the await it is
suspended at; an action is the answer to that await and the code up to the next.

| `pc` | await | source |
| --- | --- | --- |
| `bsf` | `bsf_management_discovery` | `main.py` 865 |
| `check` | `check_id` in the loop that draws an id | `main.py` 870-876 |
| `pcf` | POST app-sessions | `pcf_handler.py` 150-158 |
| `insert`, `stored` | first `insert_one`: before and after it took effect | `crud` 29 |
| `reinsert`, `restored` | the second one, after a `DuplicateKeyError` | `crud` 35 |
| `get` | `find_one` of a delete | `main.py` 934, 773 |
| `term` | POST app-sessions/{id}/delete | `pcf_handler.py` 161-169 |
| `count`, `remove`, `recount` | `count_documents`, `delete_one`, `count_documents` | `crud` 57-67 |
| `read` | the one query of a GET | `main.py` 753-809 |

`sid`, `host`, `loc`, `cnt` are the handlers' locals (`_id` or the path's subId, the PCF
asked, the PCF's Location, `n`); `reply` is the answer and the `location` header that goes
out with it. `docs` is the collection by `_id`, `hdrLoc` the `location` entry of
`GLOBAL_HEADERS`, `wiping` the un-awaited `delete_many` of `/clean`. `sess` and `cb` are
the PCFs' side: whether a session is live or ended, and the id in the notification URI it was given.

A PCF call has a life of its own (`call`: sent, then ok or refused): the PCF may
serve it after the handler gave up, or never. An insert may take effect and
lose its acknowledgement. `HttpTimeout`, `DbFault`, a PCF that fails to delete a live session
(`PcfReject`), and `Crash` are switched by the constant `Faults`, and so are the creates the handler itself
turns down (`"body"`: `QosCreateInvalid`, `Unbuildable`). `calm` says that none of
the failures outside the handlers has happened and `/clean` was not called: it is the premise of `CalmCoherence` and, in
`TrafficInfluence`, of what a 200 with `null` is worth; no action reads it.

Abstractions, and why they lose nothing the properties tell apart:

- The body is valid, invalid before the first await (`QosCreateInvalid`), or
  cannot be turned into a session request (`Unbuildable`: no `flow_info`, an unknown QoS
  reference, `qos_mon_info`, which raise at PCF translation).
- PUT and PATCH pass the coroutine `data.json()` to `from_dict` without awaiting it and
  always raise: 500 and no effect.
- `delete_many({})` is one atomic step. MongoDB yields between documents; nothing here
  relates two records that it removes.
- A task is used once. A client that repeats a request is another task.
- `conf.HOSTS` is fixed: discovery writes it once before these endpoints are of use, and
  nothing updates it later. A PCF known to the BSF but not to `HOSTS` is the second
  element of `Pcfs`: sessions are opened at the BSF's PCF and deleted at `HOSTS['PCF'][0]`
  (`pcf_handler.py` 165).
- `UuidRepeat` says whether `uuid4` may draw an id that was drawn before. It is
  improbable, but `check_id` and the `DuplicateKeyError` handler are there for it, so
  the second-insert path is modelled and run. Properties that need distinct ids say so.

### 2.2 NfManagement and the code

`pc` is the await of the startup coroutine (`register`, `retry`, the `pause` of
`sleep(5)`, `discover`, `amf`, `udm`), then `serving`; `stopped` between two processes.
`uuid`, `registered`, `hosts` are `conf.API_UUID`, `REGISTERED`, `HOSTS`; `hb` and
`subLoop` say that the `repeat_every` loops run beside startup. `StartupException` is any
exception of startup: `retry_registration` catches its own and goes on with discovery, every other ends in
`startup`'s `except`, and the process serves. The types are queried in the order of `conf.NF_SCOPES` (`Rank`, `Earlier`). `ipv4Addresses` is optional in a profile:
`noIpv4` holds the types of which discovery got a profile without it. `set_nf_endpoints` writes
`conf.HOSTS` profile by profile and takes `ipv4_addresses[0]`, so it raises at the first of these (`EndpointsBroken`): the types before it
are in `HOSTS`, its own type as well if another of its instances came first (`WrittenBefore`), no status subscription is scheduled, and
the process serves with that. `Shutdown` does not deregister: `nf_status_unsubscribe`
raises before `nf_deregister`, whether its collection is empty or not. The NRF serves a
registration late or never, refuses it, and forgets an instance.
The two branches of discovery (free5gc, others) are one action per type queried; what one query
returns is whether the type has an instance, and whether one lacks an address. `mine`, the ids this process used, is auxiliary.

### 2.3 TrafficInfluence and the code

The handlers' locals are one record `req[t]`; its field `pc` is the await:

| `pc` | await | source |
| --- | --- | --- |
| `translate` | the GPSI or group translation at the UDM | `main.py` 603-613 |
| `bsf` | `bsf_management_discovery` | `main.py` 642-656 |
| `check` | `check_id` in the loop that draws an id | `main.py` 614-616, 659-666 |
| `core` | PUT influenceData/{_id} at the UDR, or POST app-sessions at the PCF | `udr_handler.py` 22-65, `pcf_handler.py` 29-80 |
| `insert`, `stored`, `reinsert`, `restored` | the two inserts, before and after they took effect | `crud` 25-40 |
| `get`, `term` | `find_one`, and the call that ends the resource | `main.py` 541-545, 725-735 |
| `count`, `remove`, `recount` | as in `QosSession` | `crud` 58-68, 81-91 |
| `read` | the one query of a GET | `main.py` 520-577 |

A body is the set of its fields that are not `None` (`given`) and of those that are true
in Python (`true`): the checks of `main.py` 592-602 look at nothing else, and look at both. `Valid`
keeps their parity and their precedence. `ForUdr` chooses the branch: influence
data at the UDR, whose resource is named by the id of the subscription (`Influence`), or a
session at a PCF (`Sessions`), so a resource is one or the other and `ResourceStatus` looks it up.

What the code does and the model keeps: `DELETE` sends a DELETE to `{location}/delete`,
which a PCF does not take (it takes POST) and a UDR does not know, and goes on whatever
the answer is; `/tidelete` posts to `app-sessions/{last segment}/delete` of the first PCF, also for
influence data. `CoreDelete` is a core function that takes it for a deletion all the same.
`LeavesBehind` names the resources that stay live after such a deletion: `CalmCoherence` counts them
as left behind and allows no other. When the two counts differ by something other than one, the
DELETE handler falls off its end (200 with `null`), the `/tidelete` handler answers 500.

### 2.4 MonitoringEvent and the code

`monitoring_event_subscriptionscription_insert` is called without `await` (`main.py` 394, 433), so the
coroutine never runs and the collection stays empty. The model takes this literally: there is no
collection; lookups find nothing; the location of a 201 ends in the text of the coroutine object
(`Coroutine`). The 404 that a deletion raises inside its own `try` becomes a 500.
`Rejected` holds the checks of `main.py` 340-367 in the order of the code, over a body that is reduced to what they
look at. Behind them, a missing number of reports raises at the UDM request (`udm_handler.py` 114),
an expiry is not JSON, a group makes the translation raise at the AMF branch.
`sub[t]` is the event subscription made for request `t`.

### 2.5 Nef

`Nef` runs the handlers of the three APIs in one process: `Q`, `T` and `M` are instances of the three
modules that share `hdrLoc` (one `GLOBAL_HEADERS`), `sess` (one PCF) and `calm`. A crash kills the handlers of all
(`Q!Die /\ T!Die /\ M!Die`); `/clean` starts one deletion per collection and each runs when it
likes. Ids are of two sets, as no id is drawn twice here. The monitoring
API gets `Faults` without `"pcf"` and `"body"`, which it does not know (its checks are over `MonBodies`). What the header may name is one set for all
(`Locations` of the modules, `AllLocations` here). `QosAssumption`, `TiAssumption` and `MonAssumption` repeat what the
instances require of their constants, since TLC evaluates the assumptions of a module
that is extended, not of one that is instantiated. `MaxRequests` is a bound of the run.

### 2.6 SubscriptionRegistry and the mapping

The registry knows requests (`verb`, `af`, `name`, `ans`) and the life of each name
(`free`, `held`, `over`). A name is given to one create, begins once, and ends once, by a request
that may end it or after a `/clean`. `True` says what an answer promises at the moment it is given: `created`,
`deleted`, `found`, `absent`; `other` (every 4xx and 5xx that promises nothing) is always true.
`QosSession!Registry` maps the handlers to it: `Outcome` reads `ans` off `pc` and `reply`; `Life(i)` is
`held` while the collection has `i`, and `over` when it has not and the create that was given `i`
has stored it or never will (`Spent`). An insert is `Begin`, `delete_one` is `End`, `delete_many` is `EndAll`, a 201
or 204 is `Answer`, a crash is `Lose`, drawing an id is `Name`; PCF calls, counts, and the reads before the
last await are stutters. The abstract `End` needs an owner's DELETE; the 204 needs `over`, which the concrete
handler only infers from two counts of the whole collection.

## 3. Runs

| Run | Instance | Distinct states | Shows |
| --- | --- | --- | --- |
| `qos_core` | 4 requests (create, DELETE, `/qdelete`, `/clean`), 2 AFs, 2 ids, 1 PCF with 2 sessions, every failure of a peer or the process | 731 K | `TypeOK`, `OneRecordPerSession`, `CallbackNamesRecord`, `DeleteIsFinal`, `CalmCoherence`, `LeftoversExplained`, `RemovedByRight`, `ImplementsRegistry` |
| `qos_api` | 3 requests to any endpoint, 2 AFs, 2 PCFs through the BSF, repeating ids, all failures | 956 K | `OneRecordPerSession` |
| `qos_answer` | 3 requests (create, DELETE), repeating ids, time-outs, with fairness | 206 K | `EveryRequestAnswered` |
| `ti_core` | 3 requests to any endpoint, 2 AFs, 2 ids that may repeat, 2 PCFs through the BSF, all failures | 1.84 M | `TypeOK`, `OneRecordPerResource` |
| `nef` | 2 QoS, 3 traffic influence and 1 monitoring request to choose from, `/clean`, one PCF, every failure of a peer or the process | 454 K | `OneRecordPerSession`, `DeleteIsFinal`, `CalmCoherence`, `MonitoringRules`, `MonitoringAnswers`, `RemovedByRight`, `SessionsEndedByRight` |
| `nf_startup` | 3 instance ids, AMF and UDM, with fairness | 251 K | `TypeOK`, `RegistrationIsAccepted`, `OneIdPerProcess`, `DiscoveryInOrder`, `StartupEnds` |
| `qos_failed_insert` | 2 creates, database failures | violated | the "#delete from pcf" of `main.py:896` is not done |
| `qos_not_found` | create and two DELETEs, time-outs | violated | "Subscription not found!" for a stored subscription |
| `qos_failed_delete` | creates and a DELETE, no failure at all | violated | "Failed to delete subscription" for a removed one |
| `qos_location` | 2 creates, no failure | violated | a refused create carries another subscription's location |
| `ti_xor` | every choice of flow and UE fields in a create | violated | three fields pass the check that says "Only one of ..." |
| `nf_heartbeat` | as `nf_startup` | violated | "Re-registering..." and nobody does |

The properties, in words, stand above their definitions. What they guard against:

- `OneRecordPerSession`: a lost acknowledgement or a duplicate id ends in two records for one
  session. It holds under every failure, because only `DuplicateKeyError`, which
  proves that the record was not stored, leads to a second insert.
- `CallbackNamesRecord`: the PCF's notification names another record or none. With ids drawn once: a record that is moved to
  another id by a `DuplicateKeyError` keeps the old callback, which is what the code does.
- `DeleteIsFinal`: after a 204 the session is still live, or the record comes back. The
  difference of two counts that decides between 204 and 500 is only evidence; that a
  204 is nevertheless never wrong depends on the PCF's 204 and on ids being used once.
- `CalmCoherence`: without failures, interleaving alone must not
  lose a session or leave a dead record.
- `LeftoversExplained`: `CalmCoherence` ends with the first failure; this goes on. Something is left over although every client was told
  that all is well: a live session nobody recorded behind a 201, a record of an ended session behind a 204 or a 404, or
  one that no deletion of that record is to blame for. What is left after a failure is left in this code
  (findings 1 and 2), and the property says exactly to which requests it goes back.
- `RemovedByRight`: a DELETE removes a record of another AF, or, three awaits after it read the location, a record whose session
  it did not terminate. `Nef!RemovedByRight` says it of both collections, beside `/clean` and the other APIs.
- `Nef!SessionsEndedByRight`: both APIs name a session to one PCF by the last segment of a location read earlier. A deletion served
  late ends the session of another subscription, perhaps of the other API.
- `DiscoveryInOrder`: startup swallows the exception, wherever it comes from, and serves with `conf.HOSTS` as it stands. That is not all or
  nothing (`EndpointsBroken`), but it is a front part of a complete round of queries, and
  status subscriptions run only where nothing was left out.
- `ImplementsRegistry`: an answer is true of no moment at which the request was under way, a name is used twice,
  a record ends by a request that had no right to end it. It holds through all failures.
- `OneRecordPerResource`: two PUTs to the UDR under one id, or an insert under a second id. With repeating ids two records may
  name one item of influence data that was ended and created anew; the property says so, and holds of sessions without exception.
- `Nef!CalmCoherence`: sessions of one PCF and records of two collections agree, but for what the handlers at work hold
  and what `DELETE` of the traffic influence API leaves behind.
- `MonitoringRules`: an event subscription in the core network whose body breaks a rule that the messages of
  the checks state; the rules overlap, and each covers what another seems to.
- `MonitoringAnswers`: an answer that promises nothing was subscribed (400, 404, 200 to a read, a status of the core) while something was.
- `EveryRequestAnswered`: the id loop or a silent PCF keeps a request for ever.
- `OneIdPerProcess`: a late answer plus a retry leaves two NEFs at the NRF. It holds
  because an exception ends the retries (`main.py` 110) and only a refusal continues them.

### Bounds

Each conflict in this code is between two handlers, and a third one sets the scene
(the create whose record the other two fight over); `qos_core` has a fourth. Two AFs tell
owner from stranger. With `UuidRepeat` FALSE two ids allow two creates at most, so that `qos_core` has two creates and two
deletions of either. With `UuidRepeat`, `qos_api` and `qos_answer` have three ids, so that a create can collide, draw again and
collide again at the insert; `ti_core` has two: a create can collide at the query or at the insert and take the other one, and
two requests can come to name one item of influence data. Two PCF sessions let one be live while another ends; a third create is refused, which the PCF may do anyway.
`qos_api` gives up the fourth request for all endpoints, a second PCF and every failure. The fault `"body"` (a create turned down before it
reaches the PCF, which leaves nothing behind) is in `qos_api`, `qos_answer` and `ti_core` and left out of the two runs
where its answers would only multiply states.
Tasks, AFs, ids and PCF sessions are interchangeable in the safety runs, so symmetry is used
there; `HostPcf` is not, so PCFs are not in the symmetry set. `qos_answer` uses none, as symmetry is unsound for liveness.
`nf_startup` has three ids: the first, one after a refusal or a restart, one more; an id the NRF
refused is reused, so the retry loop is unbounded, while at most three registrations are accepted or left open.
`ti_core` has 3 requests to every endpoint, ids that repeat and bodies for each branch: a session, influence data with
a translation, a session request that cannot be built, a UDR request without a slice (rejected).
`ti_xor` takes every subset of the flow and UE fields.
`nef` bounds a behaviour to `MaxRequests` = 3 requests, where the monitoring request, which meets the others only in the
headers and in a crash, counts for two: two creates and a deletion of any API, or a QoS or traffic influence request beside a monitoring
request. It has one traffic influence id, so one record in that collection: two of them side by side are the
business of `ti_core` (with repeating ids, where influence data is exempt) and, with ids drawn once, of the
theorems `ResourcesNotShared` and `NefApiProofs!SessionsNotShared`. It has one AF: that a DELETE by
another AF removes nothing is checked in `qos_core` and, for the traffic influence API, proved (`TrafficInfluenceProofs!RemovalsByRight`);
`nef` is about which record goes, not whose it is. The monitoring bodies are those at the edges of the rules: each identity, each number of reports, an
expiry, each kind of type. `qos_core` has no reads, so that `found` and `absent` of the registry are
not reached there; the proof covers them.
`nf_startup` queries AMF and UDM, the two that startup itself calls, in the order of `NF_SCOPES`: an address is missing in the first, the second, both or none.
No counter other than `MaxRequests` needs a bound. `CHECK_DEADLOCK FALSE` is set since all requests end, and
in `NfManagement` ids run out for a process that stopped.

### Fairness

`QosSession!FairSpec`: weak fairness of each handler's next step where Mongo or the BSF answers
or the handler just goes on; weak fairness of the end of a PCF call, *including* httpx's
five-second time-out, which is why no PCF has to answer; strong fairness of drawing a free id,
since `uuid4` does not return taken ids for ever. Clients, PCFs and crashes owe nothing.
`NfManagement!FairSpec`: startup goes on (answer or time-out), and an NRF asked again and
again accepts in the end. The code retries without limit, so `StartupEnds`
cannot hold against an NRF that refuses for ever; this is an assumption about the
NRF. Nothing forces heart beats to fail or processes to restart.

## 4. Proofs

TLAPS checks the following for any number of requests, AFs, ids, PCFs and sessions,
any choice of `Ops` and `Faults`, assuming `HostAssumption`, `FlagAssumption`,
`OpsAssumption`, `IdsAssumption` and `NoneAssumption` (the constants are what their comments say;
`None` is not one of them).

| Theorem | Establishes |
| --- | --- |
| `QosSessionProofs!TypeCorrect` | `[]TypeOK` |
| `QosSessionProofs!SessionsNotShared` | `[]OneRecordPerSession` |
| `QosSessionProofs!DeletesFinal` | `[]DeleteIsFinal` |
| `QosSessionProofs!CallbacksMatch` | `[]CallbackNamesRecord` |
| `QosSessionProofs!RemovalsByRight` | `RemovedByRight` |
| `QosCalmProofs!CalmCoherent` | `[]CalmCoherence` |
| `QosCalmProofs!LeftoversAccounted` | `[]LeftoversExplained` |
| `QosRegistryProofs!RegistryImplemented` | `~UuidRepeat => (Spec => ImplementsRegistry)` |
| `TrafficInfluenceProofs!TypeCorrect` | `[]TypeOK` |
| `TrafficInfluenceProofs!ResourcesNotShared` | `[]OneRecordPerResource` |
| `TrafficInfluenceProofs!DeletesFinal` | `[]DeleteIsFinal` of `TrafficInfluence` |
| `TrafficInfluenceProofs!RemovalsByRight` | `RemovedByRight` of `TrafficInfluence` |
| `TrafficInfluenceCalmProofs!CalmCoherent` | `[]CalmCoherence` of `TrafficInfluence` |
| `NefApiProofs!SessionsNotShared` | `[]OneRecordPerSession` of `Nef` |
| `NefApiProofs!DeletesFinal` | `[]DeleteIsFinal` of `Nef` |
| `NefApiProofs!RemovalsByRight` | `RemovedByRight` of `Nef` |
| `NefApiProofs!SessionsEnded` | `SessionsEndedByRight` |
| `NefApiProofs!CalmCoherent` | `[]CalmCoherence` of `Nef` |
| `NfManagementProofs!TypeCorrect` | `[]TypeOK` |
| `NfManagementProofs!RegistrationsAccepted` | `[]RegistrationIsAccepted` |
| `NfManagementProofs!OneId` | `[]OneIdPerProcess` |
| `NfManagementProofs!DiscoveryOrdered` | `[]DiscoveryInOrder` |
| `NefProofs!RulesKept` | `[]MonitoringRules` |
| `NefProofs!AnswersTrue` | `[]MonitoringAnswers` |

None of the QoS properties is inductive: a record is unique because the create that
inserted it was the only holder of its session, and that depends on where each handler stands. `IInv` adds:

- `ControlInv`: what the locals hold at each `pc` (a task at `insert` is a create with
  an owner, an id and a session; a task past `get` is a delete with a session, ...);
- `HolderInv`: a create that has a session and has not stored it is the only task that holds
  it and no record names it; a session with a holder or a record is not "none";
- `EndedInv`: the session a delete call addressed has ended once the call was accepted,
  and a DELETE goes past the call only then;
- `FinalInv` (ids drawn once): each create has an id of its own (`UniqueIds`); the id of a
  record, and the id a delete found a record under, belong to a create that is past its
  insert, so nobody will insert that id again (`RecordPast`, `AimedPast`); the record under the id of a delete
  is the one it read (`AimedOwn`), and gone once it removed it (`RemovedGone`);
- `CallbackInv`: `cb` of a session is the id its create holds, then the id of its record.

Each is preserved step by step in a lemma of its own (`TypeStep`, `ControlStep`,
`HolderStep`, `EndedStep`, `FinalStep`, `CallbackStep`), and
`Invariance` puts them together.

`RegistryImplemented` is the refinement for every number of requests, AFs, ids and PCFs, with every
endpoint in `Ops` and every fault, under one premise: ids are drawn once (`~UuidRepeat`; a name
that is drawn again begins twice, which the registry forbids). `RegInv` adds to `IInv` what the registry's
requests need: a request has an operation exactly when it is not idle, a read has an id and an owner, records are
wiped only after a `/clean`. The initial states map to initial states (`RegistryInit`); `RegistryStep` has one case per action, which
is a named step of the registry or a stutter. Most cases rest on a few lemmas: `Stutter` and `Untouched` (nothing
the registry sees has changed), `Answered` and `AnsweredOther` (what the end of a handler is to `ans` and `Life`), `Submitted`. The case that
needs the invariants is the 204: `RemovedGone` says that the record is gone for good, although
the code has only compared two counts.

The invariant of `TrafficInfluence` has the same parts, with what a second kind of resource changes. `ControlInv` is a
predicate on one handler's record (`Control`). `HolderInv` gives a resource one holder, a create or a record, apart from
influence data created anew under an id that was drawn twice (`Anew`): the UDR does not choose the name
of the data, the client does. That a resource just granted has no holder (`Unheld`) therefore rests on the PCF for a session, which
was "none" before, and for influence data on `DataInv`: with ids drawn once, data is named by
the id of its create, no other create has that id, and the id of a record belongs to a create that is past its insert.
`FinalInv` is that of `QosSession`, with the 200 with `null` beside the 204: while nothing has failed, `DELETE` gives
that answer only after it has removed the record (`Removed`). Most actions only move one handler on (`Quiet`): a few lemmas
carry the invariants over all of these at once, and the others (a grant, an insert, a removal, a wipe) have a lemma per invariant.
The assumptions are `HostAssumption`, `IdsAssumption` and `NoneAssumption` of `TrafficInfluence`.

For `NfManagement`, `AnswerInv` adds that an answer on its
way belongs to the present id, that the id is known to the NRF when it was accepted and leaves no
claim when it was refused, that no other id this process used has a claim, and that a process that retries has used an id before. `HostsInv`, on which `DiscoveryOrdered` rests, says what
`conf.HOSTS` and the queries of discovery hold at each await of startup: nothing while queries run, all of `found` once discovery is done, and
in a process that serves, a part of `found` with nothing of `found` missing before any of its types. The assumptions are `NfTypesAssumption` and
`RankAssumption` (no two types have one place in `NF_SCOPES`).

`CalmCoherent` needs two invariants more. `AddressedInv`, which holds with failures too: a session
that a delete has addressed is stored by nobody any more, no record but the deleted one names it, and with ids drawn once its
callback is the id of the delete. `CalmFacts` says what
the absence of failures gives: nothing is being wiped, no handler is at `reinsert`, `restored` or dead, and a call on its
way has a handler waiting for it (`Steady`); a session about to be stored is live, one whose deletion was answered
has ended (`Known`); a live session has a record or a create about to store it (`LiveKept`); a record
whose session has ended is left only to the delete whose call was accepted (`DeadLeft`).

`LeftoversAccounted` cannot use `CalmFacts`, since it is about what is left when calls, database and process fail. `LeftInv` says
instead that a call still under way has a handler that waits for it, died, or answered an error (`Served`), that nothing is wiped before
a `/clean` (`WipesAsked`), and that some delete called for each session that has ended (`EndedBy`). From this the two halves
(`LiveExplained`, `EndedExplained`) are preserved: a session served late goes to a create that has given up, and a record
that outlives its session was the delete's own (`AddressedInv`, `AimedOwn`), whose call was accepted (`EndedInv`), so its handler cannot have answered 204.
Most steps of a handler disturb neither half (`LeftQuiet`); the others are taken one by one in `LeftStep`.

In `NefProofs`, `MonInv` ties a subscription in the core network to the call that made it, the call to a body that has passed
the checks and branches before it, and the answer to the end of the call. The steps of the
other APIs leave the monitoring variables alone (`MonStepOrNot`). The assumption is `MonAssumption`, on the constants of
`MonitoringEvent`.

`CalmCoherent` of `TrafficInfluence` follows the same line. `AddressedInv` becomes `OpenedInv`: each record, and each deletion that
has called the core network, goes back to one create that opened the resource and is past storing it (`Opener`), from which
`AddressedFacts` derives what `AddressedInv` said. Influence data adds the case that the client chooses the
name. `/tidelete` of influence data and `DELETE` may leave a live resource behind (`LeavesBehind`), and nothing else may.
Here the deletions go on whatever the answer was, so that only an accepted call (`Ending`) explains a record without a live resource.

`NefApiProofs` puts the two APIs together. Neither invariant holds in `Nef` as it stands: a live session need not have a QoS record,
it may be one of the other API. Each API gets a view of the PCF, `QosSess` and `TiSess`, in which the sessions
of the other are not open; who opened a session can be told from `cb`, which only the QoS API sets (`Owned`). The
proof then has three parts for each API.
- A step of it is a step of its specification on its view, and does not change the view of the other (`QosSeen`, `TiSeen`). For
  most actions the two are the same formula. A create opens a session that is in neither view. A deletion is where the invariants
  are needed: the session it addresses is open in its own view (`AddressedInv`, `AddressedFacts`), hence not one of the other API. `/tidelete` of
  influence data addresses the PCF under an id that names none of its sessions.
- Its own invariants then carry over by the lemmas about its own specification (`QosNext`, `TiNext`).
- Any other step changes of its variables at most the header, the `/clean` flag and `calm`, which nobody sets again (`QosRest`, `TiRest`): the
  other API, the monitoring API, `/clean`, and a crash under requests of others only.

`ApiInvariance` is the sum, and the five theorems follow from it; the part of `OneRecordPerSession` that is about records of different
collections is that their sessions are open in different views. For `RemovalsByRight`, a step that changes a collection is a step of its
API (`QosRemoves`, `TiRemoves`), where the lemma `RemovesByRight` of that API applies. For `SessionsEnded`, only a deletion that the PCF serves ends a session: a QoS deletion addresses one
whose callback is its id (`AddressedInv`), one of the other API a resource opened by the create of its id (`Opener`). The assumptions are `QosAssumption` and `TiAssumption`.

Only model-checked: the liveness properties `EveryRequestAnswered` and `StartupEnds`, which are beyond the prover
as it is installed (ENABLED, fairness). Every other property of a passing run is a theorem.

## 5. Findings

1. `main.py:897`: a record that cannot be stored leaves its PCF session live, where the comment says it is deleted.
2. `main.py:942`: after a DELETE whose PCF answer was lost, the record can never be deleted: each further DELETE gets a
   status other than 204 and is answered "Subscription not found!", while GET returns the record.
3. `crud/asSessionWithQoSSub.py:63`: success of a deletion is judged by the size of the whole
   collection; a concurrent create turns a completed deletion into "Failed to delete subscription".
4. `main.py:902`: a refused create carries the location of an earlier one; the test client goes by that header.
5. `main.py:592` and 595: the checks that say "Only one of ..." (594, 597) are chains of `^`, which three fields pass as well as one.
6. `main.py:95`: "Re-registering..." is logged and not done.

## 6. What could follow

1. A mapping from `TrafficInfluence` to `SubscriptionRegistry`, where 200 with `null` is an answer without a promise.
2. The registry inside `Nef`, where one `/clean` is a request to none of the APIs that it wipes.

## 7. Not modelled

- Data classes. `src/models` (some 500 generated files), `util.py`, `type_util.py` and the deserialiser hold nearly all lines of
  the repository and no state of the service, so that the share of the lines the model stands for is small however much of the
  service it covers. What is written by hand is `main.py`, `core/`, `crud/`, `session.py` and `api/config.py`.
- The checks of a QoS body: one nondeterministic outcome (`QosCreateInvalid`, `Unbuildable`).
- Notifications. The callbacks log and answer; `up_path_chg_notif` raises on its first line, so that no AF is notified; the URIs given to the
  UDR, UDM, AMF and, for traffic influence, the PCF name no route of the service. The id in the notification URI of
  a QoS session is modelled (`cb`).
- UE identity and information: stateless requests, nothing to interleave.
- `nf_instances` in the database: written by discovery, shown by `GET /`, read by nothing else;
  the un-awaited `delete_many` there can only garble that page.
- The NRF's heart beat timer: `NrfForget` may happen at any time, which includes the case that a registration that
  succeeded on a retry has no heart beat loop (`main.py` 104-106; `RegistrationIsAccepted` says that no other lacks it).
- `nrf_get_access_token`: called by nothing. OAuth router: a self-contained sample. The commented-out controllers.
- Charts, manifests, scripts, the test client: configuration and measurement.
