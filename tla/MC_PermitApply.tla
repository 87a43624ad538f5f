---------------------------- MODULE MC_PermitApply ----------------------------
(***************************************************************************)
(* PermitApply with at most MaxEvents events: requests, edits, passes of   *)
(* time and failures.  What the program does about them is not bounded.    *)
(***************************************************************************)
EXTENDS PermitApply, TLC

CONSTANT MaxEvents

ASSUME MaxEventsAssumption == MaxEvents \in Nat

VARIABLE events    \* events so far

MCInit == Init /\ events = 0

MCNext ==
  \/ Event /\ events < MaxEvents /\ events' = events + 1
  \/ Work /\ UNCHANGED events

MCSpec == MCInit /\ [][MCNext]_<<vars, events>>

\* No definition tells one plate from another.
PlateSymmetry == Permutations(Plates)
==============================================================================
