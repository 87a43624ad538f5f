-------------------------- MODULE MC_PermitApplyLive --------------------------
(***************************************************************************)
(* MC_PermitApply with the pace of its two loops: a pass every minute, a   *)
(* drift check hours after the last one.  Without it every check could     *)
(* read the portal in the middle of the change that the check before it    *)
(* caused, and adopt the plate being replaced, for ever.                   *)
(***************************************************************************)
EXTENDS MC_PermitApply

CONSTANT PassesPerDrift

ASSUME PassesPerDriftAssumption == PassesPerDrift \in Nat

VARIABLE passes    \* passes since the last drift check, up to PassesPerDrift

LiveInit == MCInit /\ passes = 0

Paced ==
  /\ dpc = "idle" /\ dpc' # "idle" => passes = PassesPerDrift \/ ~managed
  /\ passes' = IF dpc # "idle" /\ dpc' = "idle" THEN 0
               ELSE IF lpc # "idle" /\ lpc' = "idle" /\ passes < PassesPerDrift
               THEN passes + 1
               ELSE passes

LiveSpec == LiveInit /\ [][MCNext /\ Paced]_<<vars, events, passes>> /\ Fairness

\* The number of events is bounded, so they have stopped at some point: from
\* then on the permit converges to its schedule (reconcileAll every minute,
\* checkDrift for what the record does not know).
Converges == <>[]Settled

\* ... and its failure episode ends (settle, clearFailStreak).
EpisodeEnds == <>[]EpisodeOver

\* The claim is given back again and again, on every path of every holder.
ClaimReturns == []<>(claim = Free)
==============================================================================
