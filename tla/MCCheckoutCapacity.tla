------------------------ MODULE MCCheckoutCapacity ------------------------
(***************************************************************************)
(* Small instances of CheckoutCapacity:                                    *)
(*   Contention  two servers, one checkout each, a worker with room for one *)
(*   OneServer   two checkouts of one server that may also be edited       *)
(*   Solo        one checkout of one server, with failures                 *)
(***************************************************************************)
EXTENDS CheckoutCapacity, TLC

CONSTANTS s1, s2, k1, k2, starter, scale

Vec(n) == [memory |-> n, cpu |-> n, storage |-> n]
QuotaOf(n) == [memory |-> n, cpu |-> n, storage |-> n, services |-> n]

\* every application needs one unit, starter grants one and scale two
UnitDemand == [a \in App |-> Vec(1)]
UnitQuota  == [p \in Plan |-> QuotaOf(IF p = starter THEN 1 ELSE 2)]

ContentionServerOf == (k1 :> s1) @@ (k2 :> s2)
ContentionHostOf   == (1 :> s1) @@ (2 :> s2)
ContentionCapacity == (1 :> Vec(1))

OneServerServerOf  == (k1 :> s1) @@ (k2 :> s1)
OneServerHostOf    == (1 :> s1) @@ (2 :> s1)
OneServerCapacity  == (1 :> Vec(2))
OneServerSymmetry  == Permutations({k1, k2})

SoloServerOf       == (k1 :> s1)
SoloHostOf         == (1 :> s1)
SoloCapacity       == (1 :> Vec(1))
===========================================================================
