------------------------ MODULE MC_PermitApplyHistory ------------------------
(***************************************************************************)
(* MC_PermitApply with two things more that the program does not keep, and *)
(* that two of its comments are about.                                     *)
(***************************************************************************)
EXTENDS MC_PermitApply

VARIABLES
  landed,    \* history: an apply was recorded since the drift reading in hand
  kicked     \* history: the retry window was cleared since the pass resolved

HistoryInit == MCInit /\ landed = FALSE /\ kicked = FALSE

Recorded == PassCommit \/ \E h \in Handlers : HCommit(h)

ClearedByHand ==
  Relink \/ (\E t \in Targets : EditSchedule(t)) \/ (\E g \in Guests : DeleteBooking(g))

\* The second reading, of CurrentVehicle, is a fresh one.
HistoryNext ==
  /\ MCNext
  /\ landed' = /\ dpc \in {"read", "swap", "hold"} /\ dpc' # "idle"
               /\ landed \/ Recorded
  /\ kicked' = /\ lpc \notin {"idle", "pass"} /\ lpc' # "idle"
               /\ kicked \/ ClearedByHand

HistorySpec == HistoryInit /\ [][HistoryNext]_<<vars, events, landed, kicked>>

------------------------------------------------------------------------------
\* drift.go:292: "an apply that landed during the read must win, not be
\* overwritten".
StaleReadingNeverWins ==
  [][dpc = "swap" /\ landed => belief' = belief \/ dpc' = "swap"]_<<vars, landed>>

\* scheduler.go:510: KickPermit clears the window, a parked refusal included, so
\* that a household's edit or re-link is not held up by it.
KickIsNotLost ==
  [][lpc = "book" /\ kicked => window' # "parked"]_<<vars, kicked>>
==============================================================================
