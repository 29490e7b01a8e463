-------------------------- MODULE PaidObligation --------------------------
(***************************************************************************)
(* What the paid checkout promises its customers, without holds, webhooks, *)
(* recoveries or passes: a payment is owed capacity or its money, gets one *)
(* of them and keeps it, and a server is provided by one payment at most.  *)
(***************************************************************************)
CONSTANTS Key, ServerOf

VARIABLE obligation

TypeOK == obligation \in [Key -> {"unpaid", "owed", "provided", "refunded"}]

Init == obligation = [k \in Key |-> "unpaid"]

\* The payment of k is captured.
Capture(k) ==
  /\ obligation[k] = "unpaid"
  /\ obligation' = [obligation EXCEPT ![k] = "owed"]

\* The server of k gets its quota and its placements.
Provide(k) ==
  /\ obligation[k] = "owed"
  /\ \A j \in Key : ServerOf[j] = ServerOf[k] => obligation[j] # "provided"
  /\ obligation' = [obligation EXCEPT ![k] = "provided"]

\* The captured payment is back with the customer.
Refund(k) ==
  /\ obligation[k] = "owed"
  /\ obligation' = [obligation EXCEPT ![k] = "refunded"]

Next == \E k \in Key : Capture(k) \/ Provide(k) \/ Refund(k)

Spec == Init /\ [][Next]_obligation
=============================================================================
