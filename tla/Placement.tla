---------------------------- MODULE Placement ----------------------------
(***************************************************************************)
(* The pure placement algorithm of the control plane: best-fit decreasing  *)
(* bin packing of application reservations onto worker nodes              *)
(* (allocateCapacity), and the logical quota test (capacityEnvelopeFit).   *)
(*                                                                         *)
(* A demand or a room is a record of the three dimensions of the code.     *)
(* Applications and workers are numbered: the number is the identifier the *)
(* code breaks ties with (applicationInstanceId, and ORDER BY w.id).       *)
(***************************************************************************)
EXTENDS Integers, FiniteSetsExt

Dimension == {"memory", "cpu", "storage"}
Vector(S) == [memory : S, cpu : S, storage : S]

\* Sum of one dimension of the reservations of a set of applications.
Load(apps, demand, d) == MapThenSumSet(LAMBDA a : demand[a][d], apps)

\* The order in which allocateCapacity visits the reservations: memory, then
\* CPU, then storage, all decreasing, then the identifier.
PlacedBefore(a, b, demand) ==
  LET x == demand[a]
      y == demand[b]
  IN \/ x.memory > y.memory
     \/ x.memory = y.memory /\ x.cpu > y.cpu
     \/ x.memory = y.memory /\ x.cpu = y.cpu /\ x.storage > y.storage
     \/ x = y /\ a < b

\* What is left in worker w when the turn of application a comes.
RoomAt(w, a, asg, demand, free) ==
  LET before == {b \in DOMAIN asg : asg[b] = w /\ PlacedBefore(b, a, demand)}
  IN [d \in Dimension |-> free[w][d] - Load(before, demand, d)]

Fits(need, room) == \A d \in Dimension : need[d] <= room[d]

\* Every application is on the worker its reservation leaves least memory in,
\* among those it fits; the lowest worker identifier wins a tie.
IsBestFit(asg, workers, demand, free) ==
  \A a \in DOMAIN asg :
    LET room == [w \in workers |-> RoomAt(w, a, asg, demand, free)]
    IN /\ Fits(demand[a], room[asg[a]])
       /\ \A w \in workers :
            Fits(demand[a], room[w]) =>
              \/ room[asg[a]].memory < room[w].memory
              \/ room[asg[a]].memory = room[w].memory /\ asg[a] <= w

\* The result of allocateCapacity: the set holding its assignment, or the
\* empty set where the code returns false.
Placements(apps, workers, demand, free) ==
  {asg \in [apps -> workers] : workers # {} /\ IsBestFit(asg, workers, demand, free)}

\* A best fit of the applications that come first, and what it leaves in the
\* workers' bins: what the loop has done between two reservations.
FitSoFar(asg, apps, workers, demand, free, bins) ==
  /\ DOMAIN asg \subseteq apps /\ asg \in [DOMAIN asg -> workers]
  /\ \A b \in DOMAIN asg, c \in apps \ DOMAIN asg : PlacedBefore(b, c, demand)
  /\ IsBestFit(asg, workers, demand, free)
  /\ \A w \in workers, d \in Dimension :
       bins[w][d] = free[w][d] - Load({a \in DOMAIN asg : asg[a] = w}, demand, d)

\* capacityEnvelopeFit: the applications are within every limit of a quota.
EnvelopeFits(apps, demand, quota) ==
  /\ \A d \in Dimension : Load(apps, demand, d) <= quota[d]
  /\ Cardinality(apps) <= quota.services
=============================================================================
