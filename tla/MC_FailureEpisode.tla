-------------------------- MODULE MC_FailureEpisode --------------------------
(***************************************************************************)
(* FailureEpisode with at most MaxEvents events: moves of the schedule,    *)
(* plates changed by others, failed deliveries and records, restarts.      *)
(* At most MaxJobs notices of the permit are on their way at a time.       *)
(***************************************************************************)
EXTENDS FailureEpisode, FiniteSets, TLC

CONSTANTS MaxEvents, MaxJobs

ASSUME MaxEventsAssumption == MaxEvents \in Nat /\ MaxJobs \in Nat

VARIABLE events    \* events so far

MCInit == Init /\ events = 0

MCNext ==
  \/ Event /\ events < MaxEvents /\ events' = events + 1
  \/ Work /\ UNCHANGED events
     /\ Cardinality({k \in Keys : job'[k] # "none"}) <= MaxJobs

MCSpec == MCInit /\ [][MCNext]_<<vars, events>>

\* No definition tells one plate from another.
PlateSymmetry == Permutations(Plates)

\* A permit with no notice on record from an earlier build, whose schedule moves
\* and to which nothing else happens: every delivery and every record succeeds.
CalmSpec ==
  /\ MCInit /\ key = NoKey
  /\ [][MCNext /\ (events' # events => \E p \in Plates : ScheduleMoves(p))]_<<vars, events>>

FairSpec == MCSpec /\ Fairness
==============================================================================
