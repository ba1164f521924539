--------------------------------- MODULE MCNef ---------------------------------
(* An instance of Nef for TLC. *)
EXTENDS Nef, TLC

CONSTANTS q1, q2, q3, s1, s2, s3, m1, a1, i1, i2, j1, j2, p1, c1, c2

Few ==
    {[given |-> g, true |-> g] :
        g \in {{"afAppId", "ipv4Addr"}, {"afAppId", "anyUeInd", "dnn", "snssai"}}}

Body(type, accuracy, location, max, has, ids) ==
    [type |-> type, accuracy |-> accuracy, location |-> location, max |-> max,
     has |-> has, ids |-> ids]

\* Bodies at the edges of the rules: who is located, how many reports, an expiry.
Edges ==
    {Body("LOCATION_REPORTING", "valid", "LAST_KNOWN_LOCATION", 1, {}, i) :
        i \in {{"externalId"}, {"ipv4Addr"}, {"externalId", "msisdn"}, {}}}
    \cup {Body("LOCATION_REPORTING", "valid", "other", 2, {"repPeriod"}, {"msisdn"}),
          Body("LOCATION_REPORTING", "valid", "other", None, {}, {"externalGroupId"}),
          Body("PDN_CONNECTIVITY_STATUS", None, None, 1, {"dnn"}, {}),
          Body("UE_REACHABILITY", None, None, 2, {"sms"}, {"msisdn"}),
          Body("LOSS_OF_CONNECTIVITY", None, None, 2, {"expiry"}, {}),
          Body("REGISTRATION_STATE_REPORT", None, None, None, {"expiry"}, {}),
          Body("REGISTRATION_STATE_REPORT", None, None, None, {}, {}),
          Body("NUM_OF_REGD_UES", None, None, None, {}, {})}
    \cup {Body("NUMBER_OF_UES_IN_AN_AREA", None, "other", n, {}, {i}) :
             n \in {1, 2}, i \in {"externalGroupId", "externalId"}}

Symmetry == Permutations(QosTasks) \cup Permutations(TiTasks)
                \cup Permutations(QosIds) \cup Permutations(TiIds)
                \cup Permutations(Ctxs)
=============================================================================
