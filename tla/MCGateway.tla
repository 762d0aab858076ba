----------------------------- MODULE MCGateway -----------------------------
(***************************************************************************)
(* A small instance of Gateway: two requests, a provider that rotates      *)
(* from key k1 to key k2, and days of two windows of two ticks.            *)
(***************************************************************************)
EXTENDS Gateway

Send(bearer, kid, alg, claim, expires, actor, route) ==
    [bearer |-> bearer, kid |-> kid, alg |-> alg, claim |-> claim, subject |-> "s",
     expires |-> expires, actor |-> actor, route |-> route]

Old    == Send("t", "k1", "RS256", {"viewer", "other"}, 3, "", "ListFindings")
New    == Send("u", "k2", "RS256", {"analyst", "viewer"}, 2, "", "Collect")
Secret == Send("", "", "HS256", {"admin"}, 2, "dev", "Collect")

MCSends == <<{Old, Secret}, {New}>>

MCModes == {[auth |-> "off", has |-> {}], [auth |-> "token", has |-> {}],
            [auth |-> "jwt", has |-> {"secret", "pem"}], [auth |-> "jwt", has |-> {"jwks"}]}

MCTokenOf == [t |-> [role |-> "viewer", subject |-> "s"]]

MCKeySets == <<{"k1"}, {}, {"k2"}>>
=============================================================================
