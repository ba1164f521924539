-------------------------- MODULE MCTrafficInfluence --------------------------
(* Instances of TrafficInfluence for TLC. *)
EXTENDS TrafficInfluence, TLC

CONSTANTS t1, t2, t3, t4, a1, a2, i1, i2, i3, p1, p2, c1, c2

Body(given) == [given |-> given, true |-> given]

\* A session at a PCF, influence data after a translation, a session request
\* that cannot be built, a UDR request without a slice.
Some ==
    {Body({"afAppId", "ipv4Addr"}),
     Body({"trafficFilters", "gpsi", "snssai"}),
     Body({"ethTrafficFilters", "macAddr"}),
     Body({"afAppId", "gpsi"})}

\* Every choice of flow descriptions and UE addresses.
Every == {Body(S \cup {"dnn", "snssai"}) : S \in SUBSET (Filters \cup Targets)}

Symmetry == Permutations(Tasks) \cup Permutations(Afs)
                \cup Permutations(Ids) \cup Permutations(Ctxs)
=============================================================================
