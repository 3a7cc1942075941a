---------------------------- MODULE MCGatewayRows ----------------------------
(***************************************************************************)
(* GatewayRows for TLC: three calls, two of them on a token with a quota,   *)
(* and three on a channel of two slots; the cost of one, and its exports.   *)
(***************************************************************************)
EXTENDS GatewayRows, TLC

CONSTANTS c1, c2, c3, limited, free, k1, k2, q1, q2

MCTokenOf == c1 :> limited @@ c2 :> limited @@ c3 :> free

MCQuotaAmount == limited :> 3 @@ free :> 0

MCReposted == {OfEntry(1)}

MCAdjustments == {-1, 3}

\* Batches are told apart only from each other, and so are requests.
Symmetry == Permutations({k1, k2}) \cup Permutations({q1, q2})
==============================================================================
