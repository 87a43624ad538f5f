--------------------------- MODULE MC_FleetBreaker ---------------------------
(***************************************************************************)
(* FleetBreaker with at most MaxEvents events: push-backs, answers that    *)
(* say nothing, saves that fail, restarts.  Time, calls and their          *)
(* successes are not bounded.                                              *)
(***************************************************************************)
EXTENDS FleetBreaker, TLC

CONSTANT MaxEvents

ASSUME MaxEventsAssumption == MaxEvents \in Nat

VARIABLE events    \* events so far

MCInit == Init /\ events = 0

MCNext ==
  \/ Event /\ events < MaxEvents /\ events' = events + 1
  \/ Work /\ UNCHANGED events

MCSpec == MCInit /\ [][MCNext]_<<vars, events>>

\* No definition tells one owner from another.
OwnerSymmetry == Permutations(Owners)
==============================================================================
