------------------------- MODULE AllocateCapacity -------------------------
(***************************************************************************)
(* allocateCapacity as the code computes it: sort the reservations, then   *)
(* put one after another into the bin that it leaves least memory in.  One *)
(* step is one iteration of the loop.  Placement states the result without *)
(* the loop, and CheckoutCapacity places with that statement; the property *)
(* ComputesPlacement is that the two agree on every input.                 *)
(***************************************************************************)
EXTENDS Placement, Sequences

CONSTANTS
  App, Worker,
  Amount          \* the quantities a reservation asks for and a worker has left

VARIABLES
  demand,     \* reservations: what each application asks for
  free,       \* workers: what each has left, read in the order of their ids
  requested,  \* the reservations still to be placed, sorted
  bins,       \* what each worker has left after the placements so far
  allocated,  \* the placements so far
  outcome     \* "running", "placed" or "refused"

vars == <<demand, free, requested, bins, allocated, outcome>>

\* Mutant of Requested: the reservations are taken as they come.
RequestedUnsorted(d) ==
  CHOOSE s \in [1 .. Cardinality(DOMAIN d) -> DOMAIN d] : \A i, j \in DOMAIN s : i < j => s[i] < s[j]

\* The reservations, each once, the largest first.
Sorts(s, d) ==
  /\ s \in [1 .. Cardinality(DOMAIN d) -> DOMAIN d]
  /\ DOMAIN d = {s[i] : i \in DOMAIN s}
  /\ \A i, j \in DOMAIN s : i < j => PlacedBefore(s[i], s[j], d)
Requested(d) == CHOOSE s \in [1 .. Cardinality(DOMAIN d) -> DOMAIN d] : Sorts(s, d)

\* The function is called with any reservations and any workers; no workers at
\* all is a refusal even of no reservations.
Init ==
  /\ demand \in UNION {[A -> Vector(Amount \ {0})] : A \in SUBSET App}
  /\ free \in UNION {[W -> Vector(Amount)] : W \in SUBSET Worker}
  /\ requested = Requested(demand)
  /\ bins = free
  /\ allocated = [a \in {} |-> 0]
  /\ outcome = IF DOMAIN free = {} THEN "refused" ELSE "running"

Candidates(a) == {w \in DOMAIN bins : Fits(demand[a], bins[w])}

\* Array.sort is stable: among bins with equal memory the first one stays first.
Tightest(W) ==
  CHOOSE w \in W : \A v \in W :
    bins[w].memory < bins[v].memory \/ (bins[w].memory = bins[v].memory /\ w <= v)

PlaceNext ==
  LET a == Head(requested)
      w == Tightest(Candidates(a))
  IN /\ outcome = "running" /\ requested # <<>>
     /\ Candidates(a) # {}
     /\ bins' = [bins EXCEPT ![w] = [d \in Dimension |-> @[d] - demand[a][d]]]
     /\ allocated' = [b \in DOMAIN allocated \cup {a} |-> IF b = a THEN w ELSE allocated[b]]
     /\ requested' = Tail(requested)
     /\ UNCHANGED <<demand, free, outcome>>

Refuse ==
  /\ outcome = "running" /\ requested # <<>>
  /\ Candidates(Head(requested)) = {}
  /\ outcome' = "refused"
  /\ UNCHANGED <<demand, free, requested, bins, allocated>>

Return ==
  /\ outcome = "running" /\ requested = <<>>
  /\ outcome' = "placed"
  /\ UNCHANGED <<demand, free, requested, bins, allocated>>

Next == PlaceNext \/ Refuse \/ Return

Spec == Init /\ [][Next]_vars

\* What the loop returns is the best-fit placement that CheckoutCapacity
\* reserves with, and it refuses exactly where there is none.
ComputesPlacement ==
  LET result == Placements(DOMAIN demand, DOMAIN free, demand, free)
  IN /\ outcome = "placed" => result = {allocated}
     /\ outcome = "refused" => result = {}

\* Why: the reservations still to be placed are the others, in their order, and
\* those placed so far have the best fit that there is for them.
LoopInvariant ==
  /\ demand \in [DOMAIN demand -> Vector(Nat)] /\ DOMAIN demand \subseteq App
  /\ DOMAIN free \subseteq Worker /\ \A w \in DOMAIN free, d \in Dimension : free[w][d] \in Nat
  /\ bins = [w \in DOMAIN free |-> bins[w]]
  /\ requested \in Seq(DOMAIN demand)
  /\ \A i, j \in DOMAIN requested : i < j => PlacedBefore(requested[i], requested[j], demand)
  /\ DOMAIN allocated = DOMAIN demand \ {requested[i] : i \in DOMAIN requested}
  /\ FitSoFar(allocated, DOMAIN demand, DOMAIN free, demand, free, bins)
  /\ outcome # "refused" => DOMAIN free # {}
  /\ outcome = "placed" => requested = <<>>
  /\ outcome = "refused" => DOMAIN free = {} \/ (requested # <<>> /\ Candidates(Head(requested)) = {})
=============================================================================
