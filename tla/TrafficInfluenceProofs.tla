------------------------ MODULE TrafficInfluenceProofs ------------------------
(***************************************************************************)
(* Theorems about TrafficInfluence for every set of requests, AFs, ids,    *)
(* PCFs and bodies: type correctness, OneRecordPerResource, DeleteIsFinal, *)
(* and RemovedByRight.                                                     *)
(*                                                                         *)
(* ControlInv says what a handler's locals hold at each await.  HolderInv  *)
(* says who holds a core resource between the core's answer and the        *)
(* record.  DataInv and FinalInv add what ids that are drawn once give:    *)
(* influence data is named by the id of its create, and an id whose record *)
(* was removed is not stored again.                                        *)
(*                                                                         *)
(* Most actions only move one handler on (Quiet); one lemma carries the    *)
(* invariants over all of those, and each of the others has its own.       *)
(***************************************************************************)
EXTENDS TrafficInfluence, FiniteSetTheorems, TLAPS

Deletes == {"delete", "tidelete"}

\* What the await of a handler says of its locals.
Control(r) ==
    /\ r.pc = "idle" => r.op = None /\ r.sid = None /\ r.call = "none"
    /\ r.ans # None => r.pc = "done"
    /\ r.ans = "created" => r.op = "create"
    /\ r.pc \in {"translate", "bsf", "check", "core", "insert", "stored",
                 "reinsert", "restored"} => r.op = "create" /\ r.af \in Afs
    /\ r.pc \in {"get", "term", "count", "remove", "recount"} => r.op \in Deletes
    /\ r.pc \in {"check", "core", "insert", "stored", "reinsert", "restored",
                 "get", "term", "count", "remove", "recount", "read"} =>
           r.sid \in Ids
    /\ r.pc \in {"translate", "bsf", "check", "get", "read"} => r.call = "none"
    /\ r.pc \in {"insert", "stored", "reinsert", "restored"} => r.call = "ok"
    /\ r.pc = "translate" => r.host = "udr"
    /\ r.pc = "check" => r.host \in Pcfs \cup {"udr"}
    /\ r.call # "none" => r.op \in Deletes \cup {"create"} /\ r.sid \in Ids
    /\ (r.op = "create" /\ r.call # "none") => r.host \in Pcfs \cup {"udr"}
    /\ (r.op = "create" /\ r.call = "ok") => r.loc \in Resources
    /\ (r.op \in Deletes /\ r.call # "none") => r.loc \in Resources
    /\ r.op \in Deletes => r.sid \in Ids

ControlInv == \A t \in Tasks : Control(req[t])

\* A create that got its resource, and one that may still store it.
Got(t) == req[t].op = "create" /\ req[t].call = "ok"
Holds(t) == Got(t) /\ req[t].pc \in {"core", "insert", "reinsert"}

\* A deletion that has called the core network.
Addressed(t) == req[t].op \in Deletes /\ req[t].call # "none"

\* Influence data may be created anew under an id that is drawn twice.
Anew(r) == UuidRepeat /\ r \in Influence

\* A resource has one holder: the create that got it, or one record.
HolderInv ==
    /\ \A i \in Stored : ResourceStatus(docs[i].loc) # "none"
    /\ \A t \in Tasks : Got(t) => ResourceStatus(req[t].loc) # "none"
    /\ \A t, u \in Tasks :
           (Got(t) /\ Got(u) /\ req[t].loc = req[u].loc) =>
               t = u \/ Anew(req[t].loc)
    /\ \A t \in Tasks, i \in Stored :
           (Holds(t) /\ docs[i].loc = req[t].loc) => Anew(req[t].loc)
    /\ \A i, j \in Stored :
           docs[i].loc = docs[j].loc => i = j \/ Anew(docs[i].loc)

\* A create that has stored its record, or never will.
Past(t) == Got(t) /\ req[t].pc \in {"stored", "restored", "done", "dead"}

UniqueIds == \A t, u \in Tasks :
    (req[t].op = "create" /\ req[u].op = "create" /\ req[t].sid = req[u].sid
        /\ req[t].sid # None) => t = u
RecordPast == \A i \in Stored : \E u \in Tasks : Past(u) /\ req[u].sid = i

\* Influence data is named by the id of its create.
OwnName ==
    /\ \A t \in Tasks : (Got(t) /\ req[t].loc \in Influence) =>
           req[t].loc = <<"udr", req[t].sid>>
    /\ \A i \in Stored : docs[i].loc \in Influence => docs[i].loc = <<"udr", i>>

DataInv == ~UuidRepeat => UniqueIds /\ RecordPast /\ OwnName

\* A deletion that removed its record; one that found a record under its id.
Removed(t) ==
    /\ req[t].op \in Deletes
    /\ \/ req[t].pc = "recount"
       \/ req[t].ans = "deleted"
       \/ calm /\ req[t].ans = "ok_null"
Aimed(t) ==
    \/ req[t].op \in Deletes /\ req[t].pc \in {"term", "count", "remove"}
    \/ Removed(t)

AimedPast == \A t \in Tasks : Aimed(t) =>
    \E u \in Tasks : Past(u) /\ req[u].sid = req[t].sid
AimedOwn == \A t \in Tasks :
    (Aimed(t) /\ docs[req[t].sid] # None) =>
        /\ req[t].op = "tidelete" \/ docs[req[t].sid].owner = req[t].af
        /\ docs[req[t].sid].loc = req[t].loc
RemovedGone == \A t \in Tasks : Removed(t) => docs[req[t].sid] = None

FinalInv == ~UuidRepeat => AimedPast /\ AimedOwn /\ RemovedGone

USE DEF core, shared, vars

-----------------------------------------------------------------------------
(* Handlers as records.                                                    *)

\* The fields a handler has, whatever they hold.
Named(r) == DOMAIN r = {"pc", "op", "af", "body", "sid", "host", "loc", "cnt",
                        "call", "ans", "hdr"}

LEMMA Names == \A r \in Request : Named(r)
BY DEF Request, Named

LEMMA Blank == NoRequest \in Request
BY DEF NoRequest, Request, Waiting

\* A field may be set to any value of its type.
LEMMA SetPc ==
    ASSUME NEW r \in Request, NEW x \in Waiting \cup {"idle", "done", "dead"}
    PROVE  [r EXCEPT !.pc = x] \in Request
BY DEF Request

LEMMA SetOp ==
    ASSUME NEW r \in Request, NEW x \in AllOps \cup {None}
    PROVE  [r EXCEPT !.op = x] \in Request
BY DEF Request

LEMMA SetAf ==
    ASSUME NEW r \in Request, NEW x \in Afs \cup {None}
    PROVE  [r EXCEPT !.af = x] \in Request
BY DEF Request

LEMMA SetBody ==
    ASSUME NEW r \in Request, NEW x \in Bodies \cup {None}
    PROVE  [r EXCEPT !.body = x] \in Request
BY DEF Request

LEMMA SetSid ==
    ASSUME NEW r \in Request, NEW x \in Ids \cup {None}
    PROVE  [r EXCEPT !.sid = x] \in Request
BY DEF Request

LEMMA SetHost ==
    ASSUME NEW r \in Request, NEW x \in Pcfs \cup {"udr", None}
    PROVE  [r EXCEPT !.host = x] \in Request
BY DEF Request

LEMMA SetLoc ==
    ASSUME NEW r \in Request, NEW x \in Resources \cup {None}
    PROVE  [r EXCEPT !.loc = x] \in Request
BY DEF Request

LEMMA SetCnt ==
    ASSUME NEW r \in Request, NEW x \in Int
    PROVE  [r EXCEPT !.cnt = x] \in Request
BY DEF Request

LEMMA SetCall ==
    ASSUME NEW r \in Request, NEW x \in {"none", "sent", "ok", "refused"}
    PROVE  [r EXCEPT !.call = x] \in Request
BY DEF Request

LEMMA SetAns ==
    ASSUME NEW r \in Request, NEW x \in Answers \cup {None}
    PROVE  [r EXCEPT !.ans = x] \in Request
BY DEF Request

LEMMA SetHdr ==
    ASSUME NEW r \in Request, NEW x \in Locations \cup {None}
    PROVE  [r EXCEPT !.hdr = x] \in Request
BY DEF Request

LEMMA Typed ==
    ASSUME NEW r \in Request
    PROVE  /\ r.pc \in Waiting \cup {"idle", "done", "dead"}
           /\ r.op \in AllOps \cup {None}
           /\ r.af \in Afs \cup {None}
           /\ r.body \in Bodies \cup {None}
           /\ r.sid \in Ids \cup {None}
           /\ r.host \in Pcfs \cup {"udr", None}
           /\ r.loc \in Resources \cup {None}
           /\ r.cnt \in Int
           /\ r.call \in {"none", "sent", "ok", "refused"}
           /\ r.ans \in Answers \cup {None}
           /\ r.hdr \in Locations \cup {None}
<1>1. r.pc \in Waiting \cup {"idle", "done", "dead"}
    BY DEF Request
<1>2. r.op \in AllOps \cup {None}
    BY DEF Request
<1>3. r.af \in Afs \cup {None}
    BY DEF Request
<1>4. r.body \in Bodies \cup {None}
    BY DEF Request
<1>5. r.sid \in Ids \cup {None}
    BY DEF Request
<1>6. r.host \in Pcfs \cup {"udr", None}
    BY DEF Request
<1>7. r.loc \in Resources \cup {None}
    BY DEF Request
<1>8. r.cnt \in Int
    BY DEF Request
<1>9. r.call \in {"none", "sent", "ok", "refused"}
    BY DEF Request
<1>10. r.ans \in Answers \cup {None}
    BY DEF Request
<1>11. r.hdr \in Locations \cup {None}
    BY DEF Request
<1> QED
    BY <1>1, <1>2, <1>3, <1>4, <1>5, <1>6, <1>7, <1>8, <1>9, <1>10, <1>11

-----------------------------------------------------------------------------
(* What an action does to its handler.                                     *)

\* A step of one handler that leaves these locals alone.
Only(t) == \A u \in Tasks \ {t} : req'[u] = req[u]

Keeps(t) ==
    /\ req' \in [Tasks -> Request]
    /\ Only(t)
    /\ req'[t].op = req[t].op /\ req'[t].af = req[t].af
    /\ req'[t].sid = req[t].sid /\ req'[t].host = req[t].host
    /\ req'[t].loc = req[t].loc

LEMMA Going ==
    ASSUME TypeOK, NEW t \in Tasks, NEW l \in Waiting, Goto(t, l)
    PROVE  /\ Keeps(t) /\ req'[t].pc = l
           /\ req'[t].call = req[t].call /\ req'[t].ans = req[t].ans
           /\ req'[t].hdr = req[t].hdr
<1>1. req[t] \in Request /\ Named(req[t]) /\ req \in [Tasks -> Request]
    BY Names DEF TypeOK
<1>2. [req[t] EXCEPT !.pc = l] \in Request
    BY <1>1, SetPc
<1>3. req' \in [Tasks -> Request] /\ Only(t)
    BY <1>1, <1>2 DEF Goto, Only
<1> QED
    BY <1>1, <1>3 DEF Goto, Keeps, Named

LEMMA Answering ==
    ASSUME TypeOK, NEW t \in Tasks, NEW a \in Answers, NEW h \in Locations \cup {None},
           Answer(t, a, h)
    PROVE  /\ Keeps(t) /\ req'[t].pc = "done"
           /\ req'[t].call = req[t].call /\ req'[t].ans = a
           /\ req'[t].hdr = h
<1>1. req[t] \in Request /\ Named(req[t]) /\ req \in [Tasks -> Request]
    BY Names DEF TypeOK
<1>2. [req[t] EXCEPT !.pc = "done", !.ans = a, !.hdr = h] \in Request
    BY <1>1, SetPc, SetAns, SetHdr
<1>3. req' \in [Tasks -> Request] /\ Only(t)
    BY <1>1, <1>2 DEF Answer, Only
<1> QED
    BY <1>1, <1>3 DEF Answer, Keeps, Named

LEMMA Calling ==
    ASSUME TypeOK, NEW t \in Tasks, NEW c \in {"none", "sent", "ok", "refused"},
           req' = [req EXCEPT ![t].call = c]
    PROVE  /\ Keeps(t) /\ req'[t].pc = req[t].pc
           /\ req'[t].call = c /\ req'[t].ans = req[t].ans
           /\ req'[t].hdr = req[t].hdr
<1>1. req[t] \in Request /\ Named(req[t]) /\ req \in [Tasks -> Request]
    BY Names DEF TypeOK
<1>2. [req[t] EXCEPT !.call = c] \in Request
    BY <1>1, SetCall
<1>3. req' \in [Tasks -> Request] /\ Only(t)
    BY <1>1, <1>2 DEF Only
<1> QED
    BY <1>1, <1>3 DEF Keeps, Named

\* The first step of a handler.
Begins(t) ==
    /\ req' \in [Tasks -> Request]
    /\ Only(t)
    /\ req[t].pc = "idle" /\ req'[t].pc # "dead" /\ Control(req'[t])
    /\ req'[t].call = "none" /\ req'[t].ans # "deleted"
    /\ req'[t].op \in Deletes => req'[t].pc = "get" /\ req'[t].ans = None
    /\ req'[t].op = "create" => req'[t].sid \in Draw \cup {None}
    /\ UNCHANGED <<docs, hdrLoc, core>> /\ (calm' => calm)

LEMMA Beginning ==
    ASSUME TypeOK, NEW t \in Tasks, Client(t)
    PROVE  Begins(t)
<1>1. req \in [Tasks -> Request] /\ NoRequest \in Request
    BY Blank DEF TypeOK
<1>2. None \notin {"create", "delete", "tidelete", "deleted", "created"}
    BY NoneAssumption DEF AllOps, Answers
<1>3. ASSUME NEW r \in Request, req' = [req EXCEPT ![t] = r]
      PROVE  req' \in [Tasks -> Request] /\ Only(t) /\ req'[t] = r
    BY <1>1, <1>3 DEF Only
<1>4. Draw \subseteq Ids
    BY DEF Draw
<1> USE DEF Accept, At
<1>5. req[t].pc = "idle" /\ UNCHANGED <<docs, hdrLoc, core>>
    BY DEF Client, TiCreateInvalid, TiCreate, TiDelete, TiRead, TiGetNoQuery,
       TiUpdate, Clean
<1>6. calm' => calm
    BY DEF Client, TiCreateInvalid, TiCreate, TiDelete, TiRead, TiGetNoQuery,
       TiUpdate, Clean
<1>7. CASE TiCreateInvalid(t)
  <2>1. PICK a \in Afs : req' = [req EXCEPT ![t] = [NoRequest EXCEPT
               !.op = "create", !.af = a, !.pc = "done", !.ans = "bad_request"]]
    BY <1>7 DEF TiCreateInvalid
  <2> DEFINE r == [NoRequest EXCEPT
               !.op = "create", !.af = a, !.pc = "done", !.ans = "bad_request"]
  <2>2. r \in Request
    BY <1>1, SetOp, SetAf, SetPc, SetAns DEF AllOps, Answers
  <2>3. r = [NoRequest EXCEPT !.op = "create", !.af = a, !.pc = "done",
                              !.ans = "bad_request"]
    OBVIOUS
  <2>4. Control(r) /\ r.call = "none" /\ r.op = "create" /\ r.sid = None
          /\ r.ans = "bad_request" /\ r.pc = "done"
    BY <1>2 DEF NoRequest, Control, Deletes
  <2> HIDE DEF r
  <2>5. req' \in [Tasks -> Request] /\ Only(t) /\ req'[t] = r
    BY <1>3, <2>1, <2>2, <2>3
  <2> QED
    BY <1>5, <1>6, <2>4, <2>5, <1>2 DEF Begins, Deletes
<1>8. CASE TiCreate(t)
  <2>1. PICK a \in Afs, b \in Bodies :
          LET r == [NoRequest EXCEPT !.op = "create", !.af = a, !.body = b] IN
            \/ req' = [req EXCEPT ![t] =
                          [r EXCEPT !.pc = "translate", !.host = "udr"]]
            \/ req' = [req EXCEPT ![t] = [r EXCEPT !.pc = "bsf"]]
            \/ \E i \in Draw : req' = [req EXCEPT ![t] =
                          [r EXCEPT !.pc = "check", !.sid = i,
                                    !.host = IF ForUdr(b) THEN "udr" ELSE HostPcf]]
    BY <1>8, Zenon DEF TiCreate
  <2> DEFINE q == [NoRequest EXCEPT !.op = "create", !.af = a, !.body = b]
  <2>2. q \in Request
    BY <1>1, SetOp, SetAf, SetBody DEF AllOps
  <2>3. ASSUME NEW r \in Request, req' = [req EXCEPT ![t] = r], Control(r),
               r.call = "none", r.op = "create", r.sid \in Draw \cup {None},
               r.ans = None, r.pc # "dead"
        PROVE  Begins(t)
    BY <1>2, <1>3, <1>5, <1>6, <2>3 DEF Begins, Deletes
  <2>4. CASE req' = [req EXCEPT ![t] = [q EXCEPT !.pc = "translate", !.host = "udr"]]
    <3> DEFINE r == [q EXCEPT !.pc = "translate", !.host = "udr"]
    <3>1. r \in Request
      BY <2>2, SetPc, SetHost DEF Waiting
    <3>2. Control(r) /\ r.call = "none" /\ r.op = "create" /\ r.sid = None
            /\ r.ans = None /\ r.pc # "dead"
      BY <1>2 DEF NoRequest, Control, Deletes
    <3> QED
      BY <2>3, <2>4, <3>1, <3>2
  <2>5. CASE req' = [req EXCEPT ![t] = [q EXCEPT !.pc = "bsf"]]
    <3> DEFINE r == [q EXCEPT !.pc = "bsf"]
    <3>1. r \in Request
      BY <2>2, SetPc DEF Waiting
    <3>2. Control(r) /\ r.call = "none" /\ r.op = "create" /\ r.sid = None
            /\ r.ans = None /\ r.pc # "dead"
      BY <1>2 DEF NoRequest, Control, Deletes
    <3> QED
      BY <2>3, <2>5, <3>1, <3>2
  <2>6. ASSUME NEW i \in Draw, NEW h \in Pcfs \cup {"udr"},
               req' = [req EXCEPT ![t] =
                          [q EXCEPT !.pc = "check", !.sid = i, !.host = h]]
        PROVE  Begins(t)
    <3> DEFINE r == [q EXCEPT !.pc = "check", !.sid = i, !.host = h]
    <3>1. r \in Request
      BY <1>4, <2>2, SetPc, SetSid, SetHost DEF Waiting
    <3>2. Control(r) /\ r.call = "none" /\ r.op = "create" /\ r.sid = i
            /\ r.ans = None /\ r.pc # "dead"
      BY <1>2, <1>4 DEF NoRequest, Control, Deletes
    <3> QED
      BY <2>3, <2>6, <3>1, <3>2
  <2> QED
    BY <2>1, <2>4, <2>5, <2>6, HostAssumption
<1>9. CASE TiDelete(t)
  <2>1. PICK i \in Ids, o \in Deletes, a \in Afs \cup {None} :
           req' = [req EXCEPT ![t] = [NoRequest EXCEPT
               !.pc = "get", !.op = o, !.af = a, !.sid = i]]
    BY <1>9 DEF TiDelete, Deletes
  <2> DEFINE r == [NoRequest EXCEPT !.pc = "get", !.op = o, !.af = a, !.sid = i]
  <2>2. r \in Request
    BY <1>1, SetPc, SetOp, SetAf, SetSid DEF AllOps, Deletes, Waiting
  <2>3. req' = [req EXCEPT ![t] = r]
    BY <2>1
  <2>4. Control(r) /\ r.call = "none" /\ r.op = o /\ r.pc = "get" /\ r.ans = None
    BY <1>2 DEF NoRequest, Control, Deletes
  <2> HIDE DEF r
  <2>5. req' \in [Tasks -> Request] /\ Only(t) /\ req'[t] = r
    BY <1>3, <2>2, <2>3
  <2> QED
    BY <1>5, <1>6, <2>4, <2>5, <1>2 DEF Begins, Deletes
<1>10. CASE TiRead(t)
  <2>1. PICK i \in Ids, o \in {"get", "list", "tiget"}, a \in Afs \cup {None} :
           req' = [req EXCEPT ![t] = [NoRequest EXCEPT
               !.pc = "read", !.op = o, !.af = a, !.sid = i]]
    BY <1>10 DEF TiRead
  <2> DEFINE r == [NoRequest EXCEPT !.pc = "read", !.op = o, !.af = a, !.sid = i]
  <2>2. r \in Request
    BY <1>1, SetPc, SetOp, SetAf, SetSid DEF AllOps, Waiting
  <2>3. req' = [req EXCEPT ![t] = r]
    BY <2>1
  <2>4. Control(r) /\ r.call = "none" /\ r.op = o /\ r.ans = None /\ r.pc = "read"
    BY <1>2 DEF NoRequest, Control, Deletes
  <2> HIDE DEF r
  <2>5. req' \in [Tasks -> Request] /\ Only(t) /\ req'[t] = r
    BY <1>3, <2>2, <2>3
  <2> QED
    BY <1>5, <1>6, <2>4, <2>5, <1>2 DEF Begins, Deletes
<1>11. ASSUME NEW r \in Request, req' = [req EXCEPT ![t] = r],
             r.pc = "done", r.op \notin Deletes \cup {"create"}, r.call = "none",
             r.ans \notin {"created", "deleted"}
      PROVE  Begins(t)
    BY <1>2, <1>3, <1>11, <1>5, <1>6 DEF Begins, Control, Deletes
<1>12. CASE TiGetNoQuery(t)
  <2> DEFINE r == [NoRequest EXCEPT !.pc = "done", !.op = "tiget",
                                    !.ans = "bad_request"]
  <2>1. r \in Request
    BY <1>1, SetPc, SetOp, SetAns DEF AllOps, Answers
  <2>2. r.pc = "done" /\ r.op = "tiget" /\ r.call = "none" /\ r.ans = "bad_request"
    BY DEF NoRequest
  <2>3. req' = [req EXCEPT ![t] = r]
    BY <1>12 DEF TiGetNoQuery
  <2> HIDE DEF r
  <2> QED
    BY <1>11, <2>1, <2>2, <2>3 DEF Deletes
<1>13. CASE TiUpdate(t)
  <2>1. PICK a \in Afs : req' = [req EXCEPT ![t] = [NoRequest EXCEPT
             !.pc = "done", !.op = "update", !.af = a, !.ans = "server_error"]]
    BY <1>13 DEF TiUpdate
  <2> DEFINE r == [NoRequest EXCEPT !.pc = "done", !.op = "update", !.af = a,
                                    !.ans = "server_error"]
  <2>2. r \in Request
    BY <1>1, SetPc, SetOp, SetAf, SetAns DEF AllOps, Answers
  <2>3. r.pc = "done" /\ r.op = "update" /\ r.call = "none" /\ r.ans = "server_error"
    BY DEF NoRequest
  <2>4. req' = [req EXCEPT ![t] = r]
    BY <1>13, <2>1 DEF TiUpdate
  <2> HIDE DEF r
  <2> QED
    BY <1>11, <2>2, <2>3, <2>4 DEF Deletes
<1>14. CASE Clean(t)
  <2> DEFINE r == [NoRequest EXCEPT !.pc = "done", !.op = "clean",
                                    !.ans = "cleaned"]
  <2>1. r \in Request
    BY <1>1, SetPc, SetOp, SetAns DEF AllOps, Answers
  <2>2. r.pc = "done" /\ r.op = "clean" /\ r.call = "none" /\ r.ans = "cleaned"
    BY DEF NoRequest
  <2>3. req' = [req EXCEPT ![t] = r]
    BY <1>14 DEF Clean
  <2> HIDE DEF r
  <2> QED
    BY <1>11, <2>1, <2>2, <2>3 DEF Deletes
<1> QED
    BY <1>7, <1>8, <1>9, <1>10, <1>12, <1>13, <1>14 DEF Client

\* A handler takes an id: after the translation or the BSF, or once it found its
\* id taken.
Takes(t) ==
    /\ req' \in [Tasks -> Request]
    /\ Only(t)
    /\ req[t].op = "create" /\ req'[t].op = "create"
    /\ req'[t].sid \in Draw
    /\ req'[t].af = req[t].af /\ req'[t].loc = req[t].loc
    /\ req'[t].call = req[t].call /\ req'[t].ans = req[t].ans
    /\ req'[t].hdr = req[t].hdr
    /\ \/ req[t].pc \in {"translate", "bsf", "check"} /\ req'[t].pc = "check"
          /\ req[t].call = "none" /\ req'[t].host \in Pcfs \cup {"udr"}
       \/ req[t].pc = "insert" /\ req'[t].pc = "reinsert"
          /\ req'[t].host = req[t].host /\ docs[req[t].sid] # None
    /\ UNCHANGED <<docs, hdrLoc, core>> /\ (calm' => calm)

LEMMA Taking ==
    ASSUME TypeOK, ControlInv, NEW t \in Tasks,
           Translated(t) \/ BsfFound(t) \/ IdTaken(t) \/ InsertDuplicate(t)
    PROVE  Takes(t)
<1>1. req[t] \in Request /\ Named(req[t]) /\ req \in [Tasks -> Request]
    BY Names DEF TypeOK
<1>2. Control(req[t]) /\ Draw \subseteq Ids
    BY DEF ControlInv, Draw
<1>3. /\ req[t].pc \in {"translate", "bsf", "check"} => req[t].call = "none"
      /\ req[t].pc = "translate" => req[t].host = "udr"
      /\ req[t].pc = "check" => req[t].host \in Pcfs \cup {"udr"}
      /\ req[t].pc \in {"translate", "bsf", "check", "insert"} =>
             req[t].op = "create"
    BY <1>2 DEF Control
<1> USE DEF At
<1>4. CASE Translated(t)
  <2>1. PICK i \in Draw : req' = [req EXCEPT ![t].pc = "check", ![t].sid = i]
    BY <1>4 DEF Translated
  <2>2. [req[t] EXCEPT !.pc = "check", !.sid = i] \in Request
    BY <1>1, <1>2, SetPc, SetSid DEF Waiting
  <2>3. req' \in [Tasks -> Request] /\ Only(t)
    BY <1>1, <2>1, <2>2 DEF Only
  <2> QED
    BY <1>1, <1>3, <1>4, <2>1, <2>3 DEF Translated, Takes, Named
<1>5. CASE BsfFound(t)
  <2>1. PICK p \in Pcfs, i \in Draw : req' =
            [req EXCEPT ![t].pc = "check", ![t].host = p, ![t].sid = i]
    BY <1>5 DEF BsfFound
  <2>2. [req[t] EXCEPT !.pc = "check", !.host = p, !.sid = i] \in Request
    BY <1>1, <1>2, SetPc, SetHost, SetSid DEF Waiting
  <2>3. req' \in [Tasks -> Request] /\ Only(t)
    BY <1>1, <2>1, <2>2 DEF Only
  <2> QED
    BY <1>1, <1>3, <1>5, <2>1, <2>3 DEF BsfFound, Takes, Named
<1>6. CASE IdTaken(t)
  <2>1. PICK i \in Draw : req' = [req EXCEPT ![t].sid = i]
    BY <1>6 DEF IdTaken
  <2>2. [req[t] EXCEPT !.sid = i] \in Request
    BY <1>1, <1>2, SetSid
  <2>3. req' \in [Tasks -> Request] /\ Only(t)
    BY <1>1, <2>1, <2>2 DEF Only
  <2> QED
    BY <1>1, <1>3, <1>6, <2>1, <2>3 DEF IdTaken, Takes, Named
<1>7. CASE InsertDuplicate(t)
  <2>1. PICK i \in Draw : req' = [req EXCEPT ![t].pc = "reinsert", ![t].sid = i]
    BY <1>7 DEF InsertDuplicate
  <2>2. [req[t] EXCEPT !.pc = "reinsert", !.sid = i] \in Request
    BY <1>1, <1>2, SetPc, SetSid DEF Waiting
  <2>3. req' \in [Tasks -> Request] /\ Only(t)
    BY <1>1, <2>1, <2>2 DEF Only
  <2> QED
    BY <1>1, <1>3, <1>7, <2>1, <2>3 DEF InsertDuplicate, Takes, Named
<1> QED
    BY <1>4, <1>5, <1>6, <1>7

\* The insert, the find and the removal of a deletion.
Stores(t) ==
    /\ Keeps(t)
    /\ \/ req[t].pc = "insert" /\ req'[t].pc = "stored"
       \/ req[t].pc = "reinsert" /\ req'[t].pc = "restored"
    /\ req'[t].call = req[t].call /\ req'[t].ans = req[t].ans
    /\ req'[t].hdr = req[t].hdr
    /\ docs[req[t].sid] = None
    /\ docs' = [docs EXCEPT ![req[t].sid] =
                    [owner |-> req[t].af, loc |-> req[t].loc]]
    /\ UNCHANGED <<hdrLoc, core, calm>>

Aims(t) ==
    /\ req' \in [Tasks -> Request]
    /\ Only(t)
    /\ req'[t].op = req[t].op /\ req'[t].af = req[t].af
    /\ req'[t].sid = req[t].sid
    /\ req'[t].ans = req[t].ans /\ req'[t].hdr = req[t].hdr
    /\ req[t].pc = "get" /\ req'[t].pc = "term" /\ req'[t].call = "sent"
    /\ Finds(t) /\ req'[t].loc = docs[req[t].sid].loc
    /\ UNCHANGED <<docs, hdrLoc, core, calm>>

Drops(t) ==
    /\ Keeps(t)
    /\ req[t].pc = "remove" /\ req'[t].pc = "recount"
    /\ req'[t].call = req[t].call /\ req'[t].ans = req[t].ans
    /\ req'[t].hdr = req[t].hdr
    /\ docs' = IF Finds(t) THEN [docs EXCEPT ![req[t].sid] = None] ELSE docs
    /\ UNCHANGED <<hdrLoc, core, calm>>

\* A create is given resource r.
Grants(t, r) ==
    /\ req' \in [Tasks -> Request]
    /\ Only(t)
    /\ r \in Resources /\ ResourceStatus(r)' = "live"
    /\ \A s \in Resources \ {r} : ResourceStatus(s)' = ResourceStatus(s)
    /\ \/ r \in Sessions /\ ResourceStatus(r) = "none"
       \/ r = <<"udr", req[t].sid>>
    /\ req[t].op = "create" /\ req'[t].op = "create"
    /\ req'[t].af = req[t].af /\ req'[t].sid = req[t].sid
    /\ req'[t].host = req[t].host /\ req'[t].loc = r
    /\ req[t].call = "sent" /\ req'[t].call = "ok"
    /\ req'[t].pc = req[t].pc /\ req'[t].ans = req[t].ans
    /\ req'[t].hdr = req[t].hdr
    /\ UNCHANGED <<docs, hdrLoc, calm>>

LEMMA Storage ==
    ASSUME TypeOK, NEW t \in Tasks, InsertOne(t)
    PROVE  Stores(t)
<1>1. PICK l \in {"stored", "restored"} : Goto(t, l) /\
          \/ req[t].pc = "insert" /\ l = "stored"
          \/ req[t].pc = "reinsert" /\ l = "restored"
    BY DEF InsertOne, At
<1>2. /\ Keeps(t) /\ req'[t].pc = l /\ req'[t].call = req[t].call
      /\ req'[t].ans = req[t].ans /\ req'[t].hdr = req[t].hdr
    BY <1>1, Going DEF Waiting
<1> QED
    BY <1>1, <1>2 DEF InsertOne, Stores

LEMMA Aiming ==
    ASSUME TypeOK, ControlInv, NEW t \in Tasks, DeleteFound(t)
    PROVE  Aims(t)
<1>1. req[t] \in Request /\ Named(req[t]) /\ req \in [Tasks -> Request]
    BY Names DEF TypeOK
<1>2. req[t].sid \in Ids
    BY DEF DeleteFound, At, ControlInv, Control
<1>3. docs[req[t].sid].loc \in Resources
    BY <1>2 DEF DeleteFound, Finds, TypeOK, Docs
<1>4. [req[t] EXCEPT !.pc = "term", !.call = "sent", !.loc = docs[req[t].sid].loc]
          \in Request
    BY <1>1, <1>3, SetPc, SetCall, SetLoc DEF Waiting
<1>5. req' \in [Tasks -> Request] /\ Only(t)
    BY <1>1, <1>4 DEF DeleteFound, Only
<1> QED
    BY <1>1, <1>5 DEF DeleteFound, Aims, At, Named

LEMMA Dropping ==
    ASSUME TypeOK, NEW t \in Tasks, DeleteOne(t)
    PROVE  Drops(t)
<1>1. /\ Keeps(t) /\ req'[t].pc = "recount" /\ req'[t].call = req[t].call
      /\ req'[t].ans = req[t].ans /\ req'[t].hdr = req[t].hdr
    BY Going DEF DeleteOne, Waiting
<1> QED
    BY <1>1 DEF DeleteOne, Drops, At

-----------------------------------------------------------------------------
(* Steps that only move handlers on.                                       *)

MovesOn(u) ==
    /\ Control(req'[u])
    /\ req'[u].op = req[u].op /\ req'[u].af = req[u].af
    /\ req'[u].sid = req[u].sid /\ req'[u].loc = req[u].loc
    /\ Got(u)' => Got(u)
    /\ Addressed(u)' => Addressed(u)
    /\ Holds(u)' => Holds(u)
    /\ Past(u) => Past(u)'
    /\ Removed(u)' => Removed(u)
    /\ Aimed(u)' => Aimed(u)

\* Records may go, but none comes; a resource that was created stays so.
Quiet ==
    /\ req' \in [Tasks -> Request]
    /\ \A u \in Tasks : MovesOn(u)
    /\ \A i \in Ids : docs'[i] \in {docs[i], None}
    /\ \A r \in Resources : ResourceStatus(r) # "none" => ResourceStatus(r)' # "none"

LEMMA StaysPut ==
    ASSUME NEW u \in Tasks, Control(req[u]), req'[u] = req[u], calm' => calm
    PROVE  MovesOn(u)
BY DEF MovesOn, Got, Addressed, Holds, Past, Removed, Aimed

LEMMA StatusStays ==
    ASSUME UNCHANGED core
    PROVE  \A r \in Resources : ResourceStatus(r)' = ResourceStatus(r)
BY DEF ResourceStatus

LEMMA OneMoves ==
    ASSUME ControlInv, NEW t \in Tasks, Keeps(t), MovesOn(t), calm' => calm,
           UNCHANGED docs,
           \A r \in Resources : ResourceStatus(r) # "none" => ResourceStatus(r)' # "none"
    PROVE  Quiet
<1>1. \A u \in Tasks \ {t} : MovesOn(u)
    BY StaysPut DEF Keeps, Only, ControlInv
<1> QED
    BY <1>1 DEF Keeps, Quiet

\* A handler that answers keeps what it has got and removes nothing more.
LEMMA AnswersOn ==
    ASSUME TypeOK, ControlInv, NEW t \in Tasks, NEW a \in Answers,
           NEW h \in Locations \cup {None}, Answer(t, a, h), req[t].pc \in Waiting,
           calm' => calm, UNCHANGED <<docs, core>>,
           a = "created" => req[t].op = "create" /\ h = req[t].sid,
           a = "deleted" \/ (calm' /\ a = "ok_null") => req[t].pc = "recount"
    PROVE  Quiet
<1>1. /\ Keeps(t) /\ req'[t].pc = "done"
      /\ req'[t].call = req[t].call /\ req'[t].ans = a /\ req'[t].hdr = h
    BY Answering
<1>2. Control(req[t])
    BY DEF ControlInv
<1>3. Control(req'[t])
    BY <1>1, <1>2, NoneAssumption DEF Control, Keeps, Deletes
<1>4. MovesOn(t)
    BY <1>1, <1>2, <1>3 DEF MovesOn, Keeps, Control, Got, Addressed, Holds, Past,
       Removed,
       Aimed, Deletes
<1> QED
    BY <1>1, <1>4, OneMoves, StatusStays

\* A handler that is handed the answer to its call.
LEMMA CallsOn ==
    ASSUME TypeOK, ControlInv, NEW t \in Tasks, NEW c \in {"ok", "refused"},
           req' = [req EXCEPT ![t].call = c], req[t].call = "sent",
           c = "ok" => req[t].op \in Deletes,
           calm' => calm, UNCHANGED docs,
           \A r \in Resources : ResourceStatus(r) # "none" => ResourceStatus(r)' # "none"
    PROVE  Quiet
<1>1. /\ Keeps(t) /\ req'[t].pc = req[t].pc
      /\ req'[t].call = c /\ req'[t].ans = req[t].ans /\ req'[t].hdr = req[t].hdr
    BY Calling
<1>2. Control(req[t])
    BY DEF ControlInv
<1>3. Control(req'[t])
    BY <1>1, <1>2 DEF Control, Keeps, Deletes
<1>4. MovesOn(t)
    BY <1>1, <1>2, <1>3 DEF MovesOn, Keeps, Control, Got, Addressed, Holds, Past,
       Removed,
       Aimed, Deletes
<1> QED
    BY <1>1, <1>4, OneMoves

\* The actions that are more than that.
Acts(t) ==
    \/ Client(t)
    \/ Translated(t) \/ BsfFound(t) \/ IdTaken(t) \/ InsertDuplicate(t)
    \/ InsertOne(t) \/ DeleteFound(t) \/ DeleteOne(t)
    \/ PcfCreate(t) \/ UdrPut(t)

LEMMA HandlerQuiet ==
    ASSUME TypeOK, ControlInv, NEW t \in Tasks, Handler(t), ~Acts(t)
    PROVE  Quiet
<1> USE DEF At
<1>1. hdrLoc \in Locations \cup {None} /\ None \in Locations \cup {None}
    BY DEF TypeOK
<1>2. Control(req[t])
    BY DEF ControlInv
<1>3. CASE BsfNone(t)
    BY <1>3, <1>1, AnswersOn DEF BsfNone, Answers, Waiting
<1>4. CASE IdFree(t)
  <2>1. req[t] \in Request /\ Named(req[t]) /\ req \in [Tasks -> Request]
    BY Names DEF TypeOK
  <2>2. [req[t] EXCEPT !.pc = "core", !.call = "sent"] \in Request
    BY <2>1, SetPc, SetCall DEF Waiting
  <2>3. req' \in [Tasks -> Request] /\ Only(t)
    BY <1>4, <2>1, <2>2 DEF IdFree, Only
  <2>4. /\ Keeps(t) /\ req'[t].pc = "core" /\ req'[t].call = "sent"
        /\ req'[t].ans = req[t].ans /\ req'[t].hdr = req[t].hdr
    BY <1>4, <2>1, <2>3 DEF IdFree, Keeps, Named
  <2>5. Control(req'[t])
    BY <1>2, <1>4, <2>4 DEF IdFree, Control, Keeps, Deletes
  <2>6. MovesOn(t)
    BY <1>2, <1>4, <2>4, <2>5 DEF IdFree, MovesOn, Keeps, Control, Got, Addressed,
       Holds, Past,
       Removed, Aimed, Deletes
  <2> QED
    BY <1>4, <2>4, <2>6, OneMoves, StatusStays DEF IdFree
<1>5. CASE Unbuildable(t)
    BY <1>5, <1>1, AnswersOn DEF Unbuildable, Answers, Waiting
<1>6. CASE ResourceOpened(t) \/ Terminated(t)
  <2>1. PICK l \in {"insert", "count"} : Goto(t, l) /\
            \/ l = "insert" /\ req[t].pc = "core" /\ req[t].call = "ok"
            \/ l = "count" /\ req[t].pc = "term"
    BY <1>6 DEF ResourceOpened, Terminated
  <2>2. /\ Keeps(t) /\ req'[t].pc = l
        /\ req'[t].call = req[t].call /\ req'[t].ans = req[t].ans
        /\ req'[t].hdr = req[t].hdr
    BY <2>1, Going DEF Waiting
  <2>3. Control(req'[t]) /\ UNCHANGED calm
    BY <1>2, <1>6, <2>1, <2>2 DEF ResourceOpened, Terminated, Control, Keeps, Deletes
  <2>4. MovesOn(t)
    BY <1>2, <2>1, <2>2, <2>3 DEF MovesOn, Keeps, Control, Got, Addressed, Holds,
       Past, Removed,
       Aimed, Deletes
  <2> QED
    BY <1>6, <2>2, <2>4, OneMoves, StatusStays DEF ResourceOpened, Terminated
<1>7. CASE ResourceRefused(t)
    BY <1>7, <1>1, AnswersOn DEF ResourceRefused, Answers, Waiting
<1>8. CASE ReinsertDuplicate(t)
    BY <1>8, <1>1, AnswersOn DEF ReinsertDuplicate, Answers, Waiting
<1>9. CASE TiCreated(t)
    BY <1>9, <1>2, IdsAssumption, AnswersOn DEF TiCreated, Answers, Waiting, Control
<1>10. CASE DeleteNotFound(t)
  <2>1. PICK a \in {"server_error", "not_found"} : Answer(t, a, None)
    BY <1>10 DEF DeleteNotFound
  <2> QED
    BY <1>1, <1>10, <2>1, AnswersOn DEF DeleteNotFound, Answers, Waiting
<1>11. CASE CountBefore(t)
  <2>1. req[t] \in Request /\ Named(req[t]) /\ req \in [Tasks -> Request]
    BY Names DEF TypeOK
  <2>2. Cardinality(Stored) \in Int
    BY IdsAssumption, FS_Subset, FS_CardinalityType DEF Stored
  <2>3. [req[t] EXCEPT !.pc = "remove", !.cnt = Cardinality(Stored)] \in Request
    BY <2>1, <2>2, SetPc, SetCnt DEF Waiting
  <2>4. req' \in [Tasks -> Request] /\ Only(t)
    BY <1>11, <2>1, <2>3 DEF CountBefore, Only
  <2>5. /\ Keeps(t) /\ req'[t].pc = "remove" /\ req'[t].call = req[t].call
        /\ req'[t].ans = req[t].ans /\ req'[t].hdr = req[t].hdr
    BY <1>11, <2>1, <2>4 DEF CountBefore, Keeps, Named
  <2>6. Control(req'[t])
    BY <1>2, <1>11, <2>5 DEF CountBefore, Control, Keeps, Deletes
  <2>7. MovesOn(t)
    BY <1>2, <1>11, <2>5, <2>6 DEF CountBefore, MovesOn, Keeps, Control, Got,
       Addressed, Holds,
       Past, Removed, Aimed, Deletes
  <2> QED
    BY <1>11, <2>5, <2>7, OneMoves, StatusStays DEF CountBefore
<1>12. CASE CountAfter(t)
  <2>1. PICK a \in {"deleted", "ok_null", "failed_to_delete"},
             h \in Locations \cup {None} :
            Answer(t, a, h)
    BY <1>1, <1>12, Zenon DEF CountAfter, NotCounted
  <2> QED
    BY <1>12, <2>1, AnswersOn DEF CountAfter, Answers, Waiting
<1>13. CASE ReadDone(t)
  <2>1. PICK a \in {"ok", "not_found"}, h \in Locations \cup {None} : Answer(t, a, h)
    BY <1>1, <1>13, Zenon DEF ReadDone
  <2> QED
    BY <1>13, <2>1, AnswersOn DEF ReadDone, Answers, Waiting
<1> QED
    BY <1>3, <1>4, <1>5, <1>6, <1>7, <1>8, <1>9, <1>10, <1>11, <1>12, <1>13
       DEF Handler, Acts

LEMMA CoreQuiet ==
    ASSUME TypeOK, ControlInv, NEW t \in Tasks, Core(t), ~Acts(t)
    PROVE  Quiet
<1>1. Control(req[t])
    BY DEF ControlInv
<1>2. CASE PcfDelete(t)
  <2> DEFINE s == <<HostPcf, req[t].loc[2]>>
  <2>1. \A r \in Resources : ResourceStatus(r) # "none" => ResourceStatus(r)' # "none"
    BY <1>2 DEF PcfDelete, ResourceStatus, TypeOK, Status
  <2>2. PICK c \in {"ok", "refused"} : req' = [req EXCEPT ![t].call = c]
    BY <1>2 DEF PcfDelete
  <2> QED
    BY <1>2, <2>1, <2>2, CallsOn DEF PcfDelete, Deletes
<1>3. CASE CoreDelete(t)
  <2>1. \A r \in Resources : ResourceStatus(r) # "none" => ResourceStatus(r)' # "none"
    <3>1. \A r \in Sessions : sess'[r] \in {sess[r], "ended"}
      BY <1>3 DEF CoreDelete, TypeOK
    <3>2. \A i \in Ids : infl'[i] \in {infl[i], "ended"}
      BY <1>3 DEF CoreDelete, TypeOK
    <3> QED
      BY <3>1, <3>2 DEF ResourceStatus, Resources, Influence
  <2> QED
    BY <1>3, <2>1, CallsOn DEF CoreDelete, Deletes
<1>4. CASE CoreReject(t)
  <2>1. calm' => calm
    BY <1>4 DEF CoreReject
  <2>2. /\ req[t].call = "sent" /\ req' = [req EXCEPT ![t].call = "refused"]
        /\ UNCHANGED core /\ UNCHANGED docs
    BY <1>4 DEF CoreReject
  <2>3. \A r \in Resources : ResourceStatus(r) # "none" => ResourceStatus(r)' # "none"
    BY <2>2, StatusStays
  <2> QED
    BY <2>1, <2>2, <2>3, CallsOn
<1> QED
    BY <1>2, <1>3, <1>4 DEF Core, Acts

LEMMA FailureQuiet ==
    ASSUME TypeOK, ControlInv, NEW t \in Tasks, Failure(t)
    PROVE  Quiet
<1>1. CASE HttpTimeout(t)
    BY <1>1, AnswersOn DEF HttpTimeout, Answers, Waiting
<1>2. CASE DbFault(t)
  <2>1. PICK a \in Answers \ {"created", "deleted"} : Answer(t, a, None)
    BY <1>2 DEF DbFault, NotCounted, Answers
  <2>2. req[t].pc \in Waiting /\ calm' = FALSE /\ UNCHANGED <<docs, core>>
    BY <1>2 DEF DbFault, Waiting
  <2> QED
    BY <2>1, <2>2, AnswersOn
<1> QED
    BY <1>1, <1>2 DEF Failure

LEMMA CrashQuiet ==
    ASSUME TypeOK, ControlInv, Crash
    PROVE  Quiet
<1>1. req \in [Tasks -> Request] /\ \A u \in Tasks : req[u] \in Request /\ Named(req[u])
    BY Names DEF TypeOK
<1>2. \A u \in Tasks : [req[u] EXCEPT !.pc = "dead"] \in Request
    BY <1>1, SetPc
<1>3. req' \in [Tasks -> Request]
    BY <1>1, <1>2 DEF Crash, Die
<1>4. ASSUME NEW u \in Tasks PROVE MovesOn(u)
  <2>1. Control(req[u])
    BY DEF ControlInv
  <2>2. CASE req[u].pc \notin Waiting
    BY <2>1, <2>2, StaysPut DEF Crash, Die
  <2>3. CASE req[u].pc \in Waiting
    <3>1. req'[u] = [req[u] EXCEPT !.pc = "dead"]
      BY <2>3 DEF Crash, Die
    <3>2. /\ req'[u].pc = "dead" /\ req'[u].op = req[u].op /\ req'[u].af = req[u].af
          /\ req'[u].sid = req[u].sid /\ req'[u].host = req[u].host
          /\ req'[u].loc = req[u].loc /\ req'[u].call = req[u].call
          /\ req'[u].ans = req[u].ans /\ req'[u].hdr = req[u].hdr
      BY <1>1, <3>1 DEF Named
    <3>3. Control(req'[u])
      BY <2>1, <2>3, <3>2 DEF Control, Waiting
    <3> QED
      BY <2>1, <2>3, <3>2, <3>3, NoneAssumption
         DEF MovesOn, Control, Got, Addressed, Holds, Past, Removed, Aimed,
             Waiting, Crash,
             Die, Answers
  <2> QED
    BY <2>2, <2>3
<1>5. UNCHANGED <<docs, core>>
    BY DEF Crash, Die
<1> QED
    BY <1>3, <1>4, <1>5, StatusStays DEF Quiet

LEMMA QuietOrActs ==
    ASSUME TypeOK, ControlInv, [Next]_vars
    PROVE  Quiet \/ \E t \in Tasks : Acts(t)
<1>1. CASE Wipe \/ UNCHANGED vars
  <2>1. \A u \in Tasks : Control(req[u]) /\ req'[u] = req[u] /\ calm' = calm
    BY <1>1 DEF Wipe, ControlInv
  <2>2. \A u \in Tasks : MovesOn(u)
    BY <2>1, StaysPut
  <2>3. req' \in [Tasks -> Request] /\ UNCHANGED core
    BY <1>1 DEF Wipe, TypeOK
  <2>4. \A i \in Ids : docs'[i] \in {docs[i], None}
    BY <1>1 DEF Wipe
  <2> QED
    BY <2>2, <2>3, <2>4, StatusStays DEF Quiet
<1>2. ASSUME NEW t \in Tasks, Handler(t), ~Acts(t) PROVE Quiet
    BY <1>2, HandlerQuiet
<1>3. ASSUME NEW t \in Tasks, Core(t), ~Acts(t) PROVE Quiet
    BY <1>3, CoreQuiet
<1>4. ASSUME NEW t \in Tasks, Failure(t) PROVE Quiet
    BY <1>4, FailureQuiet
<1>5. CASE Crash
    BY <1>5, CrashQuiet
<1> QED
    BY <1>1, <1>2, <1>3, <1>4, <1>5 DEF Next, Acts
-----------------------------------------------------------------------------
(* What the core network gives.                                            *)

LEMMA PcfGranting ==
    ASSUME TypeOK, ControlInv, NEW t \in Tasks, PcfCreate(t)
    PROVE  \E r \in Resources : Grants(t, r)
<1>1. req[t] \in Request /\ Named(req[t]) /\ req \in [Tasks -> Request]
    BY Names DEF TypeOK
<1>2. req[t].host \in Pcfs
    BY DEF PcfCreate, ControlInv, Control
<1>3. PICK c \in Ctxs :
          /\ sess[<<req[t].host, c>>] = "none"
          /\ sess' = [sess EXCEPT ![<<req[t].host, c>>] = "live"]
          /\ req' = [req EXCEPT ![t].call = "ok", ![t].loc = <<req[t].host, c>>]
    BY DEF PcfCreate
<1>4. PICK s \in Sessions : s = <<req[t].host, c>> /\ s \in Resources
  <2>1. <<req[t].host, c>> \in Sessions
    BY <1>2 DEF Sessions
  <2>2. <<req[t].host, c>> \in Resources
    BY <2>1 DEF Resources
  <2> QED
    BY <2>1, <2>2
<1>5. /\ sess[s] = "none" /\ sess' = [sess EXCEPT ![s] = "live"]
      /\ req' = [req EXCEPT ![t].call = "ok", ![t].loc = s]
    BY <1>3, <1>4
<1>6. [req[t] EXCEPT !.call = "ok", !.loc = s] \in Request
    BY <1>1, <1>4, SetCall, SetLoc
<1>7. req' \in [Tasks -> Request] /\ Only(t)
    BY <1>1, <1>5, <1>6 DEF Only
<1>8. ResourceStatus(s) = "none" /\ ResourceStatus(s)' = "live"
    BY <1>4, <1>5 DEF ResourceStatus, TypeOK
<1>9. \A r \in Resources \ {s} : ResourceStatus(r)' = ResourceStatus(r)
    BY <1>4, <1>5 DEF ResourceStatus, TypeOK, PcfCreate
<1>10. Grants(t, s)
    BY <1>1, <1>4, <1>5, <1>7, <1>8, <1>9 DEF PcfCreate, Grants, Named
<1> QED
    BY <1>4, <1>10

\* The UDR answers 201 only if there was no data under the id.
LEMMA UdrGranting ==
    ASSUME TypeOK, ControlInv, NEW t \in Tasks, UdrPut(t),
           infl[req[t].sid] # "live"
    PROVE  \E r \in Resources : Grants(t, r)
<1>1. req[t] \in Request /\ Named(req[t]) /\ req \in [Tasks -> Request]
    BY Names DEF TypeOK
<1>2. req[t].sid \in Ids
    BY DEF UdrPut, ControlInv, Control
<1>3. PICK s \in Influence : s = <<"udr", req[t].sid>> /\ s \in Resources
                                 /\ s \notin Sessions
  <2>1. <<"udr", req[t].sid>> \in Influence
    BY <1>2 DEF Influence
  <2>2. <<"udr", req[t].sid>> \in Resources
    BY <2>1 DEF Resources
  <2>3. <<"udr", req[t].sid>> \notin Sessions
    BY HostAssumption DEF Sessions
  <2> QED
    BY <2>1, <2>2, <2>3
<1>4. s[2] = req[t].sid
    BY <1>3
<1>5. ResourceStatus(s)' = "live"
    BY <1>2, <1>3, <1>4 DEF ResourceStatus, UdrPut, TypeOK
<1>6. ASSUME NEW r \in Resources \ {s} PROVE ResourceStatus(r)' = ResourceStatus(r)
  <2>1. CASE r \in Sessions
    BY <2>1 DEF UdrPut, ResourceStatus
  <2>2. CASE r \notin Sessions
    <3>1. PICK i \in Ids : r = <<"udr", i>>
      BY <2>2 DEF Resources, Influence
    <3>2. r[2] = i /\ i # req[t].sid
      BY <1>3, <3>1
    <3>3. infl'[i] = infl[i]
      BY <1>2, <3>2 DEF UdrPut, TypeOK
    <3> QED
      BY <2>2, <3>2, <3>3 DEF ResourceStatus
  <2> QED
    BY <2>1, <2>2
<1>7. req' = [req EXCEPT ![t].call = "ok", ![t].loc = s]
    BY <1>3 DEF UdrPut
<1>8. [req[t] EXCEPT !.call = "ok", !.loc = s] \in Request
    BY <1>1, <1>3, SetCall, SetLoc
<1>9. req' \in [Tasks -> Request] /\ Only(t)
    BY <1>1, <1>7, <1>8 DEF Only
<1>10. req'[t] = [req[t] EXCEPT !.call = "ok", !.loc = s]
    BY <1>1, <1>7
<1>11. /\ req[t].op = "create" /\ req[t].call = "sent"
       /\ UNCHANGED <<docs, hdrLoc, calm>>
    BY DEF UdrPut
<1>12. Grants(t, s)
    BY <1>1, <1>3, <1>5, <1>6, <1>9, <1>10, <1>11 DEF Grants, Named
<1> QED
    BY <1>3, <1>12

\* Data that is replaced is there as before.
LEMMA UdrRefusing ==
    ASSUME TypeOK, ControlInv, NEW t \in Tasks, UdrPut(t),
           infl[req[t].sid] = "live"
    PROVE  /\ Quiet
           /\ req' = [req EXCEPT ![t].call = "refused"]
           /\ \A r \in Resources : ResourceStatus(r)' = ResourceStatus(r)
<1>1. req[t].sid \in Ids
    BY DEF UdrPut, ControlInv, Control
<1>2. \A i \in Ids : infl'[i] = infl[i]
    BY <1>1 DEF UdrPut, TypeOK
<1>3. \A r \in Resources : ResourceStatus(r)' = ResourceStatus(r)
    BY <1>2 DEF UdrPut, ResourceStatus, Resources, Influence
<1>4. /\ req' = [req EXCEPT ![t].call = "refused"] /\ req[t].call = "sent"
      /\ UNCHANGED docs /\ UNCHANGED calm
    BY DEF UdrPut
<1> QED
    BY <1>3, <1>4, CallsOn

LEMMA Steps ==
    ASSUME TypeOK, ControlInv, [Next]_vars
    PROVE  \/ Quiet
           \/ \E t \in Tasks :
                 \/ Begins(t) \/ Takes(t) \/ Stores(t) \/ Aims(t) \/ Drops(t)
                 \/ \E r \in Resources : Grants(t, r)
BY QuietOrActs, Beginning, Taking, Storage, Aiming, Dropping, PcfGranting,
   UdrGranting, UdrRefusing DEF Acts
-----------------------------------------------------------------------------
(* Who writes what.                                                        *)

LEMMA Writers ==
    ASSUME [Next]_vars
    PROVE  UNCHANGED docs \/ Wipe \/ \E t \in Tasks : InsertOne(t) \/ DeleteOne(t)
<1> USE DEF TiCreateInvalid, TiCreate, TiDelete, TiRead, TiGetNoQuery, TiUpdate,
        Clean, Translated, BsfFound, BsfNone, IdTaken, IdFree, Unbuildable,
        ResourceOpened, ResourceRefused, InsertDuplicate, ReinsertDuplicate,
        TiCreated, DeleteFound, DeleteNotFound, Terminated, CountBefore,
        CountAfter, ReadDone, PcfCreate, UdrPut, PcfDelete, CoreDelete,
        CoreReject, HttpTimeout, DbFault
<1>1. ASSUME NEW t \in Tasks, Client(t) PROVE UNCHANGED docs
    BY <1>1 DEF Client
<1>2. ASSUME NEW t \in Tasks, Handler(t)
      PROVE  UNCHANGED docs \/ InsertOne(t) \/ DeleteOne(t)
    BY <1>2 DEF Handler
<1>3. ASSUME NEW t \in Tasks, Core(t) \/ Failure(t) PROVE UNCHANGED docs
    BY <1>3 DEF Core, Failure
<1>4. CASE Crash
    BY <1>4 DEF Crash, Die
<1> QED
    BY <1>1, <1>2, <1>3, <1>4 DEF Next

LEMMA HdrWriters ==
    ASSUME [Next]_vars
    PROVE  hdrLoc' \in {hdrLoc, None} \/ \E t \in Tasks : TiCreated(t)
<1> USE DEF TiCreateInvalid, TiCreate, TiDelete, TiRead, TiGetNoQuery, TiUpdate,
        Clean, Translated, BsfFound, BsfNone, IdTaken, IdFree, Unbuildable,
        ResourceOpened, ResourceRefused, InsertOne, InsertDuplicate,
        ReinsertDuplicate, DeleteFound, DeleteNotFound, Terminated, CountBefore,
        DeleteOne, CountAfter, ReadDone, PcfCreate, UdrPut, PcfDelete,
        CoreDelete, CoreReject, HttpTimeout, DbFault
<1>1. ASSUME NEW t \in Tasks, Client(t) PROVE UNCHANGED hdrLoc
    BY <1>1 DEF Client
<1>2. ASSUME NEW t \in Tasks, Handler(t) PROVE UNCHANGED hdrLoc \/ TiCreated(t)
    BY <1>2 DEF Handler
<1>3. ASSUME NEW t \in Tasks, Core(t) \/ Failure(t) PROVE UNCHANGED hdrLoc
    BY <1>3 DEF Core, Failure
<1>4. CASE Crash
    BY <1>4 DEF Crash, Die
<1> QED
    BY <1>1, <1>2, <1>3, <1>4 DEF Next, Wipe

LEMMA CoreWriters ==
    ASSUME [Next]_vars
    PROVE  UNCHANGED core \/ \E t \in Tasks : Core(t)
<1> USE DEF TiCreateInvalid, TiCreate, TiDelete, TiRead, TiGetNoQuery, TiUpdate,
        Clean, Translated, BsfFound, BsfNone, IdTaken, IdFree, Unbuildable,
        ResourceOpened, ResourceRefused, InsertOne, InsertDuplicate,
        ReinsertDuplicate, TiCreated, DeleteFound, DeleteNotFound, Terminated,
        CountBefore, DeleteOne, CountAfter, ReadDone, HttpTimeout, DbFault
<1>1. ASSUME NEW t \in Tasks, Client(t) PROVE UNCHANGED core
    BY <1>1 DEF Client
<1>2. ASSUME NEW t \in Tasks, Handler(t) PROVE UNCHANGED core
    BY <1>2 DEF Handler
<1>3. ASSUME NEW t \in Tasks, Failure(t) PROVE UNCHANGED core
    BY <1>3 DEF Failure
<1>4. CASE Crash
    BY <1>4 DEF Crash, Die
<1> QED
    BY <1>1, <1>2, <1>3, <1>4 DEF Next, Wipe

LEMMA FlagWriters ==
    ASSUME [Next]_vars
    PROVE  /\ (UNCHANGED wiping \/ wiping' \in BOOLEAN)
           /\ (UNCHANGED calm \/ calm' \in BOOLEAN)
<1> USE DEF TiCreateInvalid, TiCreate, TiDelete, TiRead, TiGetNoQuery, TiUpdate,
        Clean, Translated, BsfFound, BsfNone, IdTaken, IdFree, Unbuildable,
        ResourceOpened, ResourceRefused, InsertOne, InsertDuplicate,
        ReinsertDuplicate, TiCreated, DeleteFound, DeleteNotFound, Terminated,
        CountBefore, DeleteOne, CountAfter, ReadDone, PcfCreate, UdrPut,
        PcfDelete, CoreDelete, CoreReject, HttpTimeout, DbFault
<1> DEFINE Flags == (UNCHANGED wiping \/ wiping' \in BOOLEAN)
                        /\ (UNCHANGED calm \/ calm' \in BOOLEAN)
<1>1. ASSUME NEW t \in Tasks, Client(t) PROVE Flags
    BY <1>1, Zenon DEF Client
<1>2. ASSUME NEW t \in Tasks, Handler(t) PROVE Flags
    BY <1>2, Zenon DEF Handler
<1>3. ASSUME NEW t \in Tasks, Core(t) \/ Failure(t) PROVE Flags
    BY <1>3, Zenon DEF Core, Failure
<1>4. CASE Crash
    BY <1>4, Zenon DEF Crash, Die
<1> QED
    BY <1>1, <1>2, <1>3, <1>4, Zenon DEF Next, Wipe
-----------------------------------------------------------------------------
(* Type correctness.                                                       *)

LEMMA TypeStep ==
    ASSUME TypeOK, ControlInv, [Next]_vars
    PROVE  TypeOK'
<1>1. req' \in [Tasks -> Request]
    BY Steps DEF Quiet, Begins, Takes, Stores, Aims, Drops, Grants, Keeps
<1>2. docs' \in [Ids -> Docs \cup {None}]
  <2>1. ASSUME NEW t \in Tasks, InsertOne(t) PROVE docs' \in [Ids -> Docs \cup {None}]
    <3>1. Control(req[t]) /\ req[t].pc \in {"insert", "reinsert"}
        BY <2>1 DEF ControlInv, InsertOne, At
    <3>2. [owner |-> req[t].af, loc |-> req[t].loc] \in Docs
        BY <3>1 DEF Control, Docs
    <3> QED
        BY <2>1, <3>2 DEF InsertOne, TypeOK
  <2>2. ASSUME NEW t \in Tasks, DeleteOne(t) PROVE docs' \in [Ids -> Docs \cup {None}]
    BY <2>2 DEF DeleteOne, TypeOK
  <2>3. CASE Wipe
    BY <2>3 DEF Wipe
  <2>4. CASE UNCHANGED docs
    BY <2>4 DEF TypeOK
  <2> QED
    BY <2>1, <2>2, <2>3, <2>4, Writers
<1>3. hdrLoc' \in Locations \cup {None}
  <2>1. ASSUME NEW t \in Tasks, TiCreated(t) PROVE hdrLoc' \in Locations \cup {None}
    <3>1. req[t].sid \in Ids \cup {None}
        BY Typed DEF TypeOK
    <3> QED
        BY <2>1, <3>1, IdsAssumption DEF TiCreated, TypeOK
  <2> QED
    BY <2>1, HdrWriters DEF TypeOK
<1>4. sess' \in [Sessions -> Status] /\ infl' \in [Ids -> Status]
  <2>1. ASSUME NEW t \in Tasks, Core(t)
        PROVE  sess' \in [Sessions -> Status] /\ infl' \in [Ids -> Status]
    BY <2>1 DEF Core, PcfCreate, UdrPut, PcfDelete, CoreDelete, CoreReject,
       TypeOK, Status
  <2> QED
    BY <2>1, CoreWriters DEF TypeOK
<1>5. wiping' \in BOOLEAN /\ calm' \in BOOLEAN
    BY FlagWriters DEF TypeOK
<1> QED
    BY <1>1, <1>2, <1>3, <1>4, <1>5 DEF TypeOK

LEMMA ControlStep ==
    ASSUME TypeOK, ControlInv, [Next]_vars
    PROVE  ControlInv'
<1>1. ASSUME NEW t \in Tasks, Only(t), Control(req'[t]) PROVE ControlInv'
    BY <1>1 DEF ControlInv, Only
<1>2. \A t \in Tasks : Control(req[t])
    BY DEF ControlInv
<1>3. CASE Quiet
    BY <1>3 DEF Quiet, MovesOn, ControlInv
<1>4. ASSUME NEW t \in Tasks, Begins(t) PROVE ControlInv'
    BY <1>1, <1>4 DEF Begins
<1>5. ASSUME NEW t \in Tasks, Takes(t) PROVE ControlInv'
  <2>1. Draw \subseteq Ids
    BY DEF Draw
  <2>2. ASSUME req[t].pc = "insert", req'[t].pc = "reinsert" PROVE Control(req'[t])
    BY <1>2, <1>5, <2>1, <2>2, NoneAssumption DEF Takes, Control, Deletes, Answers
  <2>3. ASSUME req'[t].pc = "check", req[t].call = "none" PROVE Control(req'[t])
    BY <1>2, <1>5, <2>1, <2>3, NoneAssumption DEF Takes, Control, Deletes, Answers
  <2> QED
    BY <1>1, <1>5, <2>2, <2>3 DEF Takes
<1>6. ASSUME NEW t \in Tasks, Stores(t) PROVE ControlInv'
  <2>1. Control(req'[t])
    BY <1>2, <1>6 DEF Stores, Keeps, Control, Deletes
  <2> QED
    BY <1>1, <1>6, <2>1 DEF Stores, Keeps
<1>7. ASSUME NEW t \in Tasks, Aims(t) PROVE ControlInv'
  <2>1. docs[req[t].sid].loc \in Resources
    BY <1>2, <1>7 DEF Aims, Control, Finds, TypeOK, Docs
  <2>2. Control(req'[t])
    BY <1>2, <1>7, <2>1 DEF Aims, Control, Deletes
  <2> QED
    BY <1>1, <1>7, <2>2 DEF Aims
<1>8. ASSUME NEW t \in Tasks, Drops(t) PROVE ControlInv'
  <2>1. Control(req'[t])
    BY <1>2, <1>8 DEF Drops, Keeps, Control, Deletes
  <2> QED
    BY <1>1, <1>8, <2>1 DEF Drops, Keeps
<1>9. ASSUME NEW t \in Tasks, NEW r \in Resources, Grants(t, r) PROVE ControlInv'
  <2>1. Control(req'[t])
    BY <1>2, <1>9 DEF Grants, Control, Deletes
  <2> QED
    BY <1>1, <1>9, <2>1 DEF Grants
<1> QED
    BY <1>3, <1>4, <1>5, <1>6, <1>7, <1>8, <1>9, Steps

-----------------------------------------------------------------------------
(* Resources and their holders, and ids that are drawn once.               *)

LEMMA Located ==
    ASSUME TypeOK, ControlInv
    PROVE  /\ \A i \in Stored : docs[i].loc \in Resources
           /\ \A t \in Tasks : Got(t) => req[t].loc \in Resources /\ req[t].sid \in Ids
BY DEF TypeOK, ControlInv, Control, Docs, Stored, Got

\* The status of a resource after a step.
After(r) == IF r \in Sessions THEN sess'[r] ELSE infl'[r[2]]

LEMMA AfterStep == \A r \in Resources : ResourceStatus(r)' = After(r)
BY DEF ResourceStatus, After

LEMMA HolderNext ==
    ASSUME \A i \in Stored' : After(docs'[i].loc) # "none",
           \A u \in Tasks : Got(u)' => After(req'[u].loc) # "none",
           \A u, v \in Tasks : (Got(u)' /\ Got(v)' /\ req'[u].loc = req'[v].loc) =>
               u = v \/ Anew(req'[u].loc),
           \A u \in Tasks, i \in Stored' :
               (Holds(u)' /\ docs'[i].loc = req'[u].loc) => Anew(req'[u].loc),
           \A i, j \in Stored' :
               docs'[i].loc = docs'[j].loc => i = j \/ Anew(docs'[i].loc)
    PROVE  HolderInv'
BY DEF HolderInv, ResourceStatus, After, Anew

\* A resource a create is given has no holder yet.
LEMMA Unheld ==
    ASSUME TypeOK, ControlInv, HolderInv, DataInv, NEW t \in Tasks,
           NEW r \in Resources, Grants(t, r)
    PROVE  /\ \A i \in Stored : docs[i].loc = r => Anew(r)
           /\ \A u \in Tasks : Got(u) => req[u].loc # r \/ Anew(r)
<1>1. CASE r \in Sessions /\ ResourceStatus(r) = "none"
    BY <1>1 DEF HolderInv
<1>2. CASE r = <<"udr", req[t].sid>>
  <2>1. req[t].sid \in Ids /\ req[t].sid # None /\ ~Got(t)
    BY NoneAssumption DEF Grants, ControlInv, Control, Got
  <2>2. r \in Influence
    BY <1>2, <2>1 DEF Influence
  <2>3. CASE UuidRepeat
    BY <2>2, <2>3 DEF Anew
  <2>4. CASE ~UuidRepeat
    <3>1. ASSUME NEW u \in Tasks, Got(u), req[u].sid = req[t].sid PROVE FALSE
        BY <2>1, <2>4, <3>1 DEF DataInv, UniqueIds, Got, Grants
    <3>2. ASSUME NEW u \in Tasks, Got(u) PROVE req[u].loc # r
        BY <1>2, <2>2, <2>4, <3>1, <3>2 DEF DataInv, OwnName
    <3>3. ASSUME NEW i \in Stored, docs[i].loc = r PROVE FALSE
      <4>1. i = req[t].sid
          BY <1>2, <2>2, <2>4, <3>3 DEF DataInv, OwnName
      <4>2. PICK u \in Tasks : Past(u) /\ req[u].sid = i
          BY <2>4 DEF DataInv, RecordPast
      <4> QED
          BY <3>1, <4>1, <4>2 DEF Past
    <3> QED
        BY <3>2, <3>3
  <2> QED
    BY <2>3, <2>4
<1> QED
    BY <1>1, <1>2 DEF Grants

LEMMA HolderStep ==
    ASSUME TypeOK, ControlInv, HolderInv, DataInv, [Next]_vars
    PROVE  HolderInv'
<1>1. ASSUME \A r \in Resources :
                 ResourceStatus(r) # "none" => ResourceStatus(r)' # "none",
             \A i \in Ids : docs'[i] \in {docs[i], None},
             \A u \in Tasks : Got(u)' => Got(u) /\ req'[u].loc = req[u].loc,
             \A u \in Tasks : Holds(u)' => Holds(u)
      PROVE  HolderInv'
  <2>1. \A i \in Stored' : i \in Stored /\ docs'[i] = docs[i]
    BY <1>1 DEF Stored
  <2>2. \A i \in Stored' : After(docs'[i].loc) # "none"
    BY <1>1, <2>1, Located, AfterStep DEF HolderInv
  <2>3. \A u \in Tasks : Got(u)' => After(req'[u].loc) # "none"
    BY <1>1, Located, AfterStep DEF HolderInv
  <2>4. \A u \in Tasks : Holds(u)' => Got(u)'
    BY DEF Holds
  <2> QED
    BY <1>1, <2>1, <2>2, <2>3, <2>4, HolderNext DEF HolderInv
<1>2. CASE Quiet
    BY <1>1, <1>2 DEF Quiet, MovesOn
<1>3. ASSUME NEW t \in Tasks, Only(t), UNCHANGED core,
             \A i \in Ids : docs'[i] \in {docs[i], None},
             Got(t)' => Got(t) /\ req'[t].loc = req[t].loc, Holds(t)' => Holds(t)
      PROVE  HolderInv'
  <2>1. \A u \in Tasks : Got(u)' => Got(u) /\ req'[u].loc = req[u].loc
    BY <1>3 DEF Only, Got
  <2>2. \A u \in Tasks : Holds(u)' => Holds(u)
    BY <1>3 DEF Only, Holds, Got
  <2> QED
    BY <1>1, <1>3, <2>1, <2>2, StatusStays
<1>4. ASSUME NEW t \in Tasks, Begins(t) PROVE HolderInv'
    BY <1>3, <1>4 DEF Begins, Got, Holds
<1>5. ASSUME NEW t \in Tasks, Takes(t) PROVE HolderInv'
    BY <1>3, <1>5 DEF Takes, Got, Holds
<1>6. ASSUME NEW t \in Tasks, Stores(t) PROVE HolderInv'
  <2> DEFINE s == req[t].sid
             l == req[t].loc
  <2>1. Control(req[t])
    BY DEF ControlInv
  <2>2. /\ Got(t) /\ Holds(t) /\ ~Holds(t)' /\ Got(t)' /\ s \in Ids /\ s \notin Stored
        /\ req'[t].loc = l
    BY <1>6, <2>1 DEF Stores, Keeps, Control, Got, Holds, Stored
  <2>3. docs'[s].loc = l /\ \A i \in Ids \ {s} : docs'[i] = docs[i]
    BY <1>6, <2>2 DEF Stores, TypeOK
  <2>4. \A i \in Stored' : i = s \/ (i \in Stored /\ docs'[i] = docs[i])
    BY <2>3 DEF Stored
  <2>5. \A u \in Tasks : (Got(u)' <=> Got(u)) /\ req'[u].loc = req[u].loc
                             /\ (Holds(u)' => Holds(u) /\ u # t)
    BY <1>6, <2>2 DEF Stores, Keeps, Only, Got, Holds
  <2>6. \A r \in Resources : ResourceStatus(r)' = ResourceStatus(r)
    BY <1>6, StatusStays DEF Stores
  <2>7. \A i \in Stored' : After(docs'[i].loc) # "none"
    BY <2>2, <2>3, <2>4, <2>6, Located, AfterStep DEF HolderInv
  <2>8. \A u \in Tasks : Got(u)' => After(req'[u].loc) # "none"
    BY <2>5, <2>6, Located, AfterStep DEF HolderInv
  <2>9. \A u, v \in Tasks : (Got(u)' /\ Got(v)' /\ req'[u].loc = req'[v].loc) =>
            u = v \/ Anew(req'[u].loc)
    BY <2>5 DEF HolderInv
  <2>10. \A u \in Tasks, i \in Stored' : (Holds(u)' /\ docs'[i].loc = req'[u].loc) =>
            Anew(req'[u].loc)
    BY <2>2, <2>3, <2>4, <2>5 DEF HolderInv, Holds
  <2>11. \A i,
  j \in Stored' : docs'[i].loc = docs'[j].loc => i = j \/ Anew(docs'[i].loc)
    BY <2>2, <2>3, <2>4 DEF HolderInv
  <2> QED
    BY <2>7, <2>8, <2>9, <2>10, <2>11, HolderNext
<1>7. ASSUME NEW t \in Tasks, Aims(t) PROVE HolderInv'
    BY <1>3, <1>7 DEF Aims, Got, Holds
<1>8. ASSUME NEW t \in Tasks, Drops(t) PROVE HolderInv'
  <2>1. \A i \in Ids : docs'[i] \in {docs[i], None}
    BY <1>8 DEF Drops, TypeOK
  <2> QED
    BY <1>3, <1>8, <2>1 DEF Drops, Keeps, Got, Holds
<1>9. ASSUME NEW t \in Tasks, NEW r \in Resources, Grants(t, r) PROVE HolderInv'
  <2>1. Got(t)' /\ ~Got(t) /\ req'[t].loc = r /\ UNCHANGED docs
    BY <1>9 DEF Grants, Got
  <2>2. \A u \in Tasks \ {t} : (Got(u)' <=> Got(u)) /\ req'[u].loc = req[u].loc
                                   /\ (Holds(u)' <=> Holds(u))
    BY <1>9 DEF Grants, Only, Got, Holds
  <2>3. /\ \A i \in Stored : docs[i].loc = r => Anew(r)
        /\ \A u \in Tasks : Got(u) => req[u].loc # r \/ Anew(r)
    BY <1>9, Unheld
  <2>4. /\ ResourceStatus(r)' # "none"
       
        /\ \A s \in Resources : ResourceStatus(s) # "none" => ResourceStatus(s)' # "none"
    BY <1>9 DEF Grants
  <2>5. Stored' = Stored
    BY <2>1 DEF Stored
  <2>6. \A i \in Stored' : After(docs'[i].loc) # "none"
    BY <2>1, <2>4, <2>5, Located, AfterStep DEF HolderInv
  <2>7. \A u \in Tasks : Got(u)' => After(req'[u].loc) # "none"
    BY <2>1, <2>2, <2>4, Located, AfterStep DEF HolderInv
  <2>8. \A u, v \in Tasks : (Got(u)' /\ Got(v)' /\ req'[u].loc = req'[v].loc) =>
            u = v \/ Anew(req'[u].loc)
    BY <2>1, <2>2, <2>3 DEF HolderInv
  <2>9. \A u \in Tasks, i \in Stored' : (Holds(u)' /\ docs'[i].loc = req'[u].loc) =>
            Anew(req'[u].loc)
    BY <2>1, <2>2, <2>3, <2>5 DEF HolderInv
  <2>10. \A i,
  j \in Stored' : docs'[i].loc = docs'[j].loc => i = j \/ Anew(docs'[i].loc)
    BY <2>1, <2>5 DEF HolderInv
  <2> QED
    BY <2>6, <2>7, <2>8, <2>9, <2>10, HolderNext
<1> QED
    BY <1>2, <1>4, <1>5, <1>6, <1>7, <1>8, <1>9, Steps

\* Steps that leave the ids of creates alone.
LEMMA DataQuiet ==
    ASSUME DataInv,
           \A u \in Tasks : req'[u].op = req[u].op /\ req'[u].sid = req[u].sid,
           \A u \in Tasks : Got(u)' => Got(u) /\ req'[u].loc = req[u].loc,
           \A u \in Tasks : Past(u) => Past(u)',
           \A i \in Ids : docs'[i] \in {docs[i], None}
    PROVE  DataInv'
<1>1. \A i \in Stored' : i \in Stored /\ docs'[i] = docs[i]
    BY DEF Stored
<1>2. UniqueIds => UniqueIds'
    BY DEF UniqueIds
<1>3. RecordPast => RecordPast'
    BY <1>1 DEF RecordPast
<1>4. OwnName => OwnName'
    BY <1>1 DEF OwnName
<1> QED
    BY <1>2, <1>3, <1>4 DEF DataInv

LEMMA DataStep ==
    ASSUME TypeOK, ControlInv, DataInv, [Next]_vars
    PROVE  DataInv'
<1> SUFFICES ASSUME ~UuidRepeat PROVE DataInv'
    BY DEF DataInv
<1>1. UniqueIds /\ RecordPast /\ OwnName
    BY DEF DataInv
<1>2. \A t \in Tasks : Control(req[t])
    BY DEF ControlInv
<1>3. CASE Quiet
    BY <1>3, DataQuiet DEF Quiet, MovesOn
<1>4. ASSUME NEW t \in Tasks, Only(t), ~Past(t), ~Got(t)', UNCHANGED docs,
             req'[t].op = "create" => req'[t].sid \in Draw \cup {None}
      PROVE  DataInv'
  <2>1. \A u \in Tasks \ {t} : req'[u] = req[u]
    BY <1>4 DEF Only
  <2>2. UniqueIds'
    <3>1. \A u \in Tasks \ {t} :
             req'[t].op = "create" /\ req'[t].sid # None => req'[t].sid # req[u].sid
        BY <1>4 DEF Draw
    <3> QED
        BY <1>1, <2>1, <3>1 DEF UniqueIds
  <2>3. RecordPast'
    BY <1>1, <1>4, <2>1 DEF RecordPast, Stored, Past, Got
  <2>4. OwnName'
    BY <1>1, <1>4, <2>1 DEF OwnName, Got, Stored
  <2> QED
    BY <2>2, <2>3, <2>4 DEF DataInv
<1>5. ASSUME NEW t \in Tasks, Begins(t) PROVE DataInv'
    BY <1>4, <1>5 DEF Begins, Past, Got
<1>6. ASSUME NEW t \in Tasks, Takes(t) PROVE DataInv'
  <2>1. CASE req[t].pc = "insert" /\ docs[req[t].sid] # None
    <3>1. req[t].sid \in Stored /\ req[t].op = "create" /\ req[t].sid # None
        BY <1>2, <2>1, NoneAssumption DEF Control, Stored
    <3>2. PICK u \in Tasks : Past(u) /\ req[u].sid = req[t].sid
        BY <1>1, <3>1 DEF RecordPast
    <3>3. u = t
        BY <1>1, <3>1, <3>2 DEF UniqueIds, Past, Got
    <3> QED
        BY <2>1, <3>2, <3>3 DEF Past
  <2>2. CASE req[t].call = "none"
    BY <1>4, <1>6, <2>2 DEF Takes, Past, Got
  <2> QED
    BY <1>6, <2>1, <2>2 DEF Takes
<1>7. ASSUME NEW t \in Tasks, Stores(t) PROVE DataInv'
  <2> DEFINE s == req[t].sid
  <2>1. s \in Ids /\ Got(t) /\ Got(t)' /\ Past(t)'
    BY <1>2, <1>7 DEF Stores, Keeps, Control, Got, Past
  <2>2. docs'[s].loc = req[t].loc /\ \A i \in Ids \ {s} : docs'[i] = docs[i]
    BY <1>7, <2>1 DEF Stores, TypeOK
  <2>3. \A i \in Stored' : i = s \/ (i \in Stored /\ docs'[i] = docs[i])
    BY <2>2 DEF Stored
  <2>4. \A u \in Tasks : /\ req'[u].op = req[u].op /\ req'[u].sid = req[u].sid
                         /\ req'[u].loc = req[u].loc
                         /\ (Got(u)' => Got(u)) /\ (Past(u) => Past(u)')
    BY <1>7, <2>1 DEF Stores, Keeps, Only, Got, Past
  <2>5. UniqueIds'
    BY <1>1, <2>4 DEF UniqueIds
  <2>6. RecordPast'
    BY <1>1, <2>1, <2>3, <2>4 DEF RecordPast
  <2>7. OwnName'
    BY <1>1, <2>1, <2>2, <2>3, <2>4 DEF OwnName
  <2> QED
    BY <2>5, <2>6, <2>7 DEF DataInv
<1>8. ASSUME NEW t \in Tasks, Aims(t) PROVE DataInv'
  <2>1. req[t].op \in Deletes
    BY <1>2, <1>8 DEF Aims, Control
  <2>2. \A u \in Tasks : /\ req'[u].op = req[u].op /\ req'[u].sid = req[u].sid
                         /\ (Got(u)' => Got(u) /\ req'[u].loc = req[u].loc)
                         /\ (Past(u) => Past(u)')
    BY <1>8, <2>1 DEF Aims, Only, Got, Past, Deletes
  <2> QED
    BY <1>8, <2>2, DataQuiet DEF Aims
<1>9. ASSUME NEW t \in Tasks, Drops(t) PROVE DataInv'
  <2>1. \A i \in Ids : docs'[i] \in {docs[i], None}
    BY <1>9 DEF Drops, TypeOK
  <2>2. \A u \in Tasks : /\ req'[u].op = req[u].op /\ req'[u].sid = req[u].sid
                         /\ (Got(u)' => Got(u) /\ req'[u].loc = req[u].loc)
                         /\ (Past(u) => Past(u)')
    BY <1>9 DEF Drops, Keeps, Only, Got, Past
  <2> QED
    BY <2>1, <2>2, DataQuiet
<1>10. ASSUME NEW t \in Tasks, NEW r \in Resources, Grants(t, r) PROVE DataInv'
  <2>1. ~Past(t) /\ req'[t].loc = r /\ req'[t].sid = req[t].sid /\ UNCHANGED docs
    BY <1>10 DEF Grants, Past, Got
  <2>2. r \in Influence => r = <<"udr", req[t].sid>>
    BY <1>10, HostAssumption DEF Grants, Sessions, Influence
  <2>3. \A u \in Tasks \ {t} : req'[u] = req[u]
    BY <1>10 DEF Grants, Only
  <2>4. UniqueIds'
    BY <1>1, <1>10, <2>3 DEF UniqueIds, Grants
  <2>5. RecordPast'
    BY <1>1, <2>1, <2>3 DEF RecordPast, Past, Got, Stored
  <2>6. OwnName'
    BY <1>1, <2>1, <2>2, <2>3 DEF OwnName, Got, Stored
  <2> QED
    BY <2>4, <2>5, <2>6 DEF DataInv
<1> QED
    BY <1>3, <1>5, <1>6, <1>7, <1>8, <1>9, <1>10, Steps
-----------------------------------------------------------------------------
(* Removed records.                                                        *)

\* Steps of which no deletion finds or removes anything.
LEMMA FinalQuiet ==
    ASSUME FinalInv,
           \A u \in Tasks : Removed(u)' => Removed(u),
           \A u \in Tasks : Past(u) => Past(u)' /\ req'[u].sid = req[u].sid,
           \A u \in Tasks : Aimed(u)' =>
               /\ Aimed(u)
               /\ req'[u].op = req[u].op /\ req'[u].af = req[u].af
               /\ req'[u].sid = req[u].sid /\ req'[u].loc = req[u].loc
               /\ docs'[req[u].sid] \in {docs[req[u].sid], None}
    PROVE  FinalInv'
<1> SUFFICES ASSUME ~UuidRepeat PROVE FinalInv'
    BY DEF FinalInv
<1>1. AimedPast /\ AimedOwn /\ RemovedGone
    BY DEF FinalInv
<1>2. AimedPast'
    BY <1>1 DEF AimedPast
<1>3. AimedOwn'
    BY <1>1 DEF AimedOwn
<1>4. RemovedGone'
    BY <1>1 DEF RemovedGone, Aimed
<1> QED
    BY <1>2, <1>3, <1>4 DEF FinalInv

LEMMA FinalStep ==
    ASSUME TypeOK, ControlInv, DataInv, FinalInv, [Next]_vars
    PROVE  FinalInv'
<1> SUFFICES ASSUME ~UuidRepeat PROVE FinalInv'
    BY DEF FinalInv
<1>1. UniqueIds /\ RecordPast /\ AimedPast /\ AimedOwn /\ RemovedGone
    BY DEF DataInv, FinalInv
<1>2. \A t \in Tasks : Control(req[t])
    BY DEF ControlInv
<1>3. \A t \in Tasks : Aimed(t) => req[t].sid \in Ids
    BY <1>2 DEF Aimed, Removed, Control
<1>4. CASE Quiet
    BY <1>3, <1>4, FinalQuiet DEF Quiet, MovesOn
<1>5. ASSUME NEW t \in Tasks, Only(t), ~Aimed(t)', calm' => calm,
             Past(t) => Past(t)' /\ req'[t].sid = req[t].sid,
             \A u \in Tasks \ {t} : Aimed(u) =>
                 docs'[req[u].sid] \in {docs[req[u].sid], None}
      PROVE  FinalInv'
  <2>1. \A u \in Tasks \ {t} : /\ req'[u] = req[u]
                                /\ (Removed(u)' => Removed(u))
                                /\ (Aimed(u)' => Aimed(u))
                                /\ (Past(u) <=> Past(u)')
    BY <1>5 DEF Only, Removed, Aimed, Past, Got
  <2>2. ~Removed(t)'
    BY <1>5 DEF Aimed
  <2>3. \A u \in Tasks : Past(u) => Past(u)' /\ req'[u].sid = req[u].sid
    BY <1>5, <2>1
  <2>4. AimedPast'
    BY <1>1, <1>5, <2>1, <2>3 DEF AimedPast
  <2>5. AimedOwn'
    BY <1>1, <1>5, <2>1 DEF AimedOwn
  <2>6. RemovedGone'
    BY <1>1, <1>5, <2>1, <2>2 DEF RemovedGone, Aimed
  <2> QED
    BY <2>4, <2>5, <2>6 DEF FinalInv
<1>6. ASSUME NEW t \in Tasks, Begins(t) PROVE FinalInv'
  <2>1. ~Aimed(t)' /\ ~Past(t)
    BY <1>6, NoneAssumption DEF Begins, Aimed, Removed, Past, Deletes, Answers
  <2> QED
    BY <1>5, <1>6, <2>1 DEF Begins
<1>7. ASSUME NEW t \in Tasks, Takes(t) PROVE FinalInv'
  <2>1. ~Aimed(t)' /\ ~Past(t)
    BY <1>7 DEF Takes, Aimed, Removed, Past, Deletes
  <2> QED
    BY <1>5, <1>7, <2>1 DEF Takes
<1>8. ASSUME NEW t \in Tasks, Stores(t) PROVE FinalInv'
  <2>1. /\ req[t].op = "create" /\ req[t].sid \in Ids /\ req[t].sid # None
        /\ ~Past(t) /\ Past(t)'
    BY <1>2, <1>8, NoneAssumption DEF Stores, Keeps, Control, Past, Got
  <2>2. ~Aimed(t)'
    BY <1>8, <2>1 DEF Stores, Keeps, Aimed, Removed, Deletes
  <2>3. ASSUME NEW u \in Tasks, Aimed(u) PROVE docs'[req[u].sid] = docs[req[u].sid]
    <3>1. PICK v \in Tasks : Past(v) /\ req[v].sid = req[u].sid
        BY <1>1, <2>3 DEF AimedPast
    <3>2. req[u].sid # req[t].sid
        BY <1>1, <2>1, <3>1 DEF UniqueIds, Past, Got
    <3> QED
        BY <1>3, <1>8, <2>3, <3>2 DEF Stores, TypeOK
  <2> QED
    BY <1>5, <1>8, <2>1, <2>2, <2>3 DEF Stores, Keeps
<1>9. ASSUME NEW t \in Tasks, Aims(t) PROVE FinalInv'
  <2>1. /\ req[t].op \in Deletes /\ req[t].sid \in Ids /\ ~Past(t) /\ req[t].ans = None
    BY <1>2, <1>9 DEF Aims, Control, Past, Got, Deletes
  <2>2. ~Removed(t)'
    BY <1>9, <2>1, NoneAssumption DEF Aims, Removed, Answers
  <2>3. req[t].sid \in Stored
    BY <1>9, <2>1 DEF Aims, Finds, Stored
  <2>4. PICK v \in Tasks : Past(v) /\ req[v].sid = req[t].sid
    BY <1>1, <2>3 DEF RecordPast
  <2>5. \A u \in Tasks \ {t} : /\ req'[u] = req[u]
                                /\ (Removed(u)' => Removed(u))
                                /\ (Aimed(u)' => Aimed(u))
                                /\ (Past(u) <=> Past(u)')
    BY <1>9 DEF Aims, Only, Removed, Aimed, Past, Got
  <2>6. AimedPast'
    <3>1. ASSUME NEW u \in Tasks \ {t}, Aimed(u)
          PROVE  \E w \in Tasks : Past(w)' /\ req'[w].sid = req'[u].sid
      <4>1. PICK w \in Tasks : Past(w) /\ req[w].sid = req[u].sid
          BY <1>1, <3>1 DEF AimedPast
      <4> QED
          BY <2>1, <2>5, <4>1
    <3>2. Past(v)' /\ req'[v].sid = req'[t].sid
        BY <1>9, <2>1, <2>4, <2>5 DEF Aims
    <3> QED
        BY <2>5, <3>1, <3>2 DEF AimedPast
  <2>7. AimedOwn'
    BY <1>1, <1>9, <2>1, <2>5 DEF AimedOwn, Aims, Finds, Deletes
  <2>8. RemovedGone'
    BY <1>1, <1>9, <2>2, <2>5 DEF RemovedGone, Aims
  <2> QED
    BY <2>6, <2>7, <2>8 DEF FinalInv
<1>10. ASSUME NEW t \in Tasks, Drops(t) PROVE FinalInv'
  <2>1. req[t].op \in Deletes /\ req[t].sid \in Ids /\ Aimed(t)
    BY <1>2, <1>10 DEF Drops, Control, Aimed
  <2>2. docs'[req[t].sid] = None
    BY <1>1, <1>10, <2>1 DEF Drops, Finds, AimedOwn, TypeOK, Deletes
  <2>3. \A i \in Ids : docs'[i] \in {docs[i], None}
    BY <1>10 DEF Drops, TypeOK
  <2>4. \A u \in Tasks : /\ req'[u].op = req[u].op /\ req'[u].af = req[u].af
                         /\ req'[u].sid = req[u].sid /\ req'[u].loc = req[u].loc
    BY <1>10 DEF Drops, Keeps, Only
  <2>5. \A u \in Tasks : /\ Past(u) => Past(u)'
                         /\ Aimed(u)' => Aimed(u)
                         /\ Removed(u)' => Removed(u) \/ u = t
    BY <1>10, <2>1 DEF Drops, Keeps, Only, Past, Got, Aimed, Removed
  <2>6. AimedPast'
    BY <1>1, <2>4, <2>5 DEF AimedPast
  <2>7. AimedOwn'
    BY <1>1, <1>3, <2>3, <2>4, <2>5 DEF AimedOwn
  <2>8. RemovedGone'
    BY <1>1, <1>3, <2>2, <2>3, <2>4, <2>5 DEF RemovedGone, Aimed
  <2> QED
    BY <2>6, <2>7, <2>8 DEF FinalInv
<1>11. ASSUME NEW t \in Tasks, NEW r \in Resources, Grants(t, r) PROVE FinalInv'
  <2>1. ~Aimed(t)' /\ ~Past(t)
    BY <1>11 DEF Grants, Aimed, Removed, Past, Got, Deletes
  <2> QED
    BY <1>5, <1>11, <2>1 DEF Grants
<1> QED
    BY <1>4, <1>6, <1>7, <1>8, <1>9, <1>10, <1>11, Steps

-----------------------------------------------------------------------------
(* The theorems.                                                           *)

IInv == TypeOK /\ ControlInv /\ HolderInv /\ DataInv /\ FinalInv

LEMMA IInvInit == Init => IInv
<1> SUFFICES ASSUME Init PROVE IInv
    OBVIOUS
<1>1. /\ sess \in [Sessions -> Status] /\ infl \in [Ids -> Status]
      /\ docs \in [Ids -> Docs \cup {None}] /\ hdrLoc \in Locations \cup {None}
    BY DEF Init, Status
<1>2. wiping \in BOOLEAN /\ calm \in BOOLEAN
    BY Zenon DEF Init
<1>3. req \in [Tasks -> Request] /\ \A t \in Tasks : req[t] = NoRequest
    BY Blank DEF Init
<1>4. /\ NoRequest.op = None /\ NoRequest.sid = None /\ NoRequest.call = "none"
      /\ NoRequest.ans = None /\ NoRequest.pc = "idle"
    BY DEF NoRequest
<1>5. None \notin {"create", "delete", "tidelete", "created", "deleted", "ok_null"}
    BY NoneAssumption DEF AllOps, Answers
<1>6. Stored = {}
    BY DEF Init, Stored
<1>7. \A t \in Tasks : Control(req[t]) /\ ~Got(t) /\ ~Aimed(t)
    BY <1>3, <1>4, <1>5 DEF Control, Got, Aimed, Removed, Deletes
<1>8. ControlInv
    BY <1>7 DEF ControlInv
<1>9. HolderInv
    BY <1>6, <1>7 DEF HolderInv, Holds
<1>10. DataInv
    BY <1>3, <1>4, <1>6, <1>7 DEF DataInv, UniqueIds, RecordPast, OwnName
<1>11. FinalInv
    BY <1>7 DEF FinalInv, AimedPast, AimedOwn, RemovedGone, Aimed
<1> QED
    BY <1>1, <1>2, <1>3, <1>8, <1>9, <1>10, <1>11 DEF IInv, TypeOK

LEMMA IInvStep ==
    ASSUME IInv, [Next]_vars
    PROVE  IInv'
BY TypeStep, ControlStep, HolderStep, DataStep, FinalStep DEF IInv

\* Every reachable state satisfies the inductive invariant.
THEOREM Invariance == Spec => []IInv
<1>1. Init => IInv
    BY IInvInit
<1>2. IInv /\ [Next]_vars => IInv'
    BY IInvStep
<1> QED
    BY <1>1, <1>2, PTL DEF Spec

\* The handlers keep every variable in its type: what InsertOne stores is a
\* record of an AF that names a resource of the core network.
THEOREM TypeCorrect == Spec => []TypeOK
<1>1. IInv => TypeOK
    BY DEF IInv
<1> QED
    BY <1>1, Invariance, PTL

\* No two subscriptions ever name the same session or influence data, and none
\* names one that was not created, whatever fails in between.
THEOREM ResourcesNotShared == Spec => []OneRecordPerResource
<1>1. IInv => OneRecordPerResource
    BY DEF IInv, HolderInv, OneRecordPerResource, Anew
<1> QED
    BY <1>1, Invariance, PTL

\* A DELETE answered 204 is final, and so is the 200 with null while nothing
\* has failed, for any number of other requests.
THEOREM DeletesFinal == Spec => []DeleteIsFinal
<1>1. IInv => DeleteIsFinal
    BY DEF IInv, FinalInv, RemovedGone, Removed, Deletes, DeleteIsFinal
<1> QED
    BY <1>1, Invariance, PTL

\* What RemovedByRight says of one record in one step.
ByRight(i) ==
    (docs[i] # None /\ docs'[i] # docs[i]) =>
      /\ docs'[i] = None
      /\ \/ wiping
         \/ \E t \in Tasks :
               /\ At(t, "remove") /\ req'[t].pc = "recount"
               /\ req[t].sid = i
               /\ req[t].op = "tidelete" \/ req[t].af = docs[i].owner
               /\ UuidRepeat \/ req[t].loc = docs[i].loc

LEMMA RemovesByRight ==
    ASSUME IInv, [Next]_vars, NEW i \in Ids
    PROVE  ByRight(i)
<1> USE DEF ByRight
<1>1. CASE UNCHANGED docs
    BY <1>1
<1>2. CASE Wipe
    BY <1>2 DEF Wipe, IInv, TypeOK
<1>3. ASSUME NEW t \in Tasks, InsertOne(t) PROVE ByRight(i)
    BY <1>3 DEF InsertOne, IInv, TypeOK
<1>4. ASSUME NEW t \in Tasks, DeleteOne(t) PROVE ByRight(i)
  <2>1. CASE docs'[i] = docs[i]
      BY <2>1
  <2>2. CASE docs'[i] # docs[i]
    <3>1. Drops(t)
        BY <1>4, Dropping DEF IInv
    <3>2. req[t].sid = i /\ Finds(t) /\ docs'[i] = None
        BY <2>2, <3>1 DEF Drops, IInv, TypeOK
    <3>3. req[t].pc = "remove" /\ req'[t].pc = "recount" /\ req[t].op \in Deletes
        BY <3>1 DEF Drops, IInv, ControlInv, Control
    <3>4. req[t].op = "tidelete" \/ req[t].af = docs[i].owner
        BY <3>2, <3>3 DEF Finds, Deletes
    <3>5. UuidRepeat \/ req[t].loc = docs[i].loc
        BY <3>2, <3>3 DEF IInv, FinalInv, AimedOwn, Aimed, Finds
    <3> QED
        BY <3>2, <3>3, <3>4, <3>5 DEF At
  <2> QED
      BY <2>1, <2>2
<1> QED
    BY <1>1, <1>2, <1>3, <1>4, Writers

\* Records are removed by right, and a deletion removes the record whose
\* resource it addressed.
THEOREM RemovalsByRight == Spec => RemovedByRight
<1>1. IInv /\ [Next]_vars => [\A i \in Ids : ByRight(i)]_vars
    BY RemovesByRight
<1> QED
    BY <1>1, Invariance, PTL DEF Spec, RemovedByRight, ByRight

=============================================================================
