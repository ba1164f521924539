------------------------- MODULE SubscriptionRegistry -------------------------
(***************************************************************************)
(* What an API of the NEF promises its clients, without the core network,  *)
(* the database and the awaits: a subscription begins once, under a name   *)
(* never used before, between a request for it and its answer; it ends     *)
(* once, by a request that may end it; the answers are true of some moment *)
(* at which the request was under way.                                     *)
(***************************************************************************)
CONSTANTS
    Tasks,    \* requests
    Afs,      \* application functions
    Ids,      \* names of subscriptions
    None      \* no request, no AF, no name

VARIABLES
    verb,     \* what a request asks for
    af,       \* the AF that asks; None for the NEF's own endpoints
    name,     \* the subscription a request is about
    ans,      \* its answer
    reg,      \* the life of each name
    owner     \* and the AF a registered name belongs to

request == <<verb, af, name>>
vars    == <<verb, af, name, ans, reg, owner>>

Verbs == {"create", "delete", "get", "list", "update", "clean"}

Init ==
    /\ verb  = [t \in Tasks |-> None]
    /\ af    = [t \in Tasks |-> None]
    /\ name  = [t \in Tasks |-> None]
    /\ ans   = [t \in Tasks |-> "none"]
    /\ reg   = [i \in Ids |-> "free"]
    /\ owner = [i \in Ids |-> None]

Pending(t) == verb[t] # None /\ ans[t] = "none"

\* No create has been given this name.
Unused(i) == \A t \in Tasks : verb[t] = "create" => name[t] # i

\* A request arrives; it may be answered at once, without effect or promise.
Submit(t) ==
    /\ verb[t] = None
    /\ \E v \in Verbs : verb' = [verb EXCEPT ![t] = v]
    /\ \E a \in Afs \cup {None} : af' = [af EXCEPT ![t] = a]
    /\ \E i \in Ids \cup {None} :
        /\ verb'[t] = "create" => i = None \/ Unused(i)
        /\ name' = [name EXCEPT ![t] = i]
    /\ \E r \in {"none", "other"} : ans' = [ans EXCEPT ![t] = r]
    /\ UNCHANGED <<reg, owner>>

\* A create that has no name yet is given one.
Name(t) ==
    /\ Pending(t) /\ verb[t] = "create" /\ name[t] = None
    /\ \E i \in {j \in Ids : Unused(j)} : name' = [name EXCEPT ![t] = i]
    /\ UNCHANGED <<verb, af, ans, reg, owner>>

\* The subscription begins.
Begin(t) ==
    /\ Pending(t) /\ verb[t] = "create"
    /\ name[t] \in Ids /\ reg[name[t]] = "free"
    /\ owner' = [owner EXCEPT ![name[t]] = af[t]]
    /\ reg'   = [reg   EXCEPT ![name[t]] = "held"]
    /\ UNCHANGED <<request, ans>>

\* It ends, by a DELETE of its owner or of the NEF itself.
End(t) ==
    /\ Pending(t) /\ verb[t] = "delete"
    /\ reg[name[t]] = "held"
    /\ af[t] \in {None, owner[name[t]]}
    /\ owner' = [owner EXCEPT ![name[t]] = None]
    /\ reg'   = [reg   EXCEPT ![name[t]] = "over"]
    /\ UNCHANGED <<request, ans>>

\* All end, some time after somebody asked for it.
EndAll ==
    /\ \E t \in Tasks : verb[t] = "clean"
    /\ owner' = [i \in Ids |-> None]
    /\ reg'   = [i \in Ids |-> IF reg[i] = "held" THEN "over" ELSE reg[i]]
    /\ UNCHANGED <<request, ans>>

\* What each answer says of the moment it is given; "other" says nothing.
True(t, r) ==
    /\ r = "created" => verb[t] = "create" /\ reg[name[t]] # "free"
    /\ r = "deleted" => verb[t] = "delete" /\ reg[name[t]] = "over"
    /\ r = "found"   => \/ verb[t] = "get" /\ owner[name[t]] = af[t]
                        \/ verb[t] = "list" /\ \E i \in Ids : owner[i] = af[t]
    /\ r = "absent"  => \/ verb[t] = "get" /\ owner[name[t]] # af[t]
                        \/ verb[t] = "list" /\ \A i \in Ids : owner[i] # af[t]

\* The names of a set of creates that will not begin any more are used up.
Abandon(S) ==
    reg' = [i \in Ids |->
                IF reg[i] = "free"
                       /\ \E t \in S : verb[t] = "create" /\ name[t] = i
                THEN "over" ELSE reg[i]]

\* A request is answered.
Answer(t) ==
    /\ Pending(t)
    /\ \E r \in {"created", "deleted", "found", "absent", "other"} :
        /\ True(t, r)
        /\ ans' = [ans EXCEPT ![t] = r]
    /\ Abandon({t})
    /\ UNCHANGED <<request, owner>>

\* The requests under way are lost.
Lose ==
    /\ ans' = [t \in Tasks |-> IF Pending(t) THEN "lost" ELSE ans[t]]
    /\ Abandon({t \in Tasks : Pending(t)})
    /\ UNCHANGED <<request, owner>>

Next ==
    \/ \E t \in Tasks : Submit(t) \/ Name(t) \/ Begin(t) \/ End(t) \/ Answer(t)
    \/ EndAll
    \/ Lose

Spec == Init /\ [][Next]_vars

=============================================================================
