--------------------------- MODULE OperatorAlerts ---------------------------
(***************************************************************************)
(* What the operator hears of (scheduler/scheduler.go, reconnect.go): one   *)
(* alert per kind, claimed for a short while before it is sent and muted    *)
(* for the full interval only once it has arrived; and the tally of the     *)
(* households whose sessions have ended, which raises one when several did  *)
(* within a window.  Loops raise alerts at the same time, deliveries take   *)
(* their time and fail.                                                     *)
(***************************************************************************)
EXTENDS Naturals, FiniteSets

CONSTANTS
  Tallied,      \* households
  Throttle,     \* systemAlertThrottle, in ticks
  Retry,        \* systemAlertRetry
  Deadline,     \* of a delivery
  Churn,        \* churnWindow
  ManyOwners,   \* sessionChurnAlertOwners
  Far           \* bound on ticks counted: long ago

ASSUME AlertAssumption ==
  /\ {Throttle, Retry, Deadline, Churn, ManyOwners, Far} \subseteq Nat \ {0}
  /\ Deadline < Retry /\ Retry < Throttle /\ Throttle <= Far /\ Churn <= Far

VARIABLES
  muted,     \* ticks until lastAlert lets the alert through again
  underWay,  \* deliveries under way: the ticks each has taken
  heard,     \* history: ticks since the operator last heard it, up to Far
  repeats,   \* history: it was heard twice within the interval
  expiries   \* churnExpiry: household -> ticks since, up to Far

alertVars == <<muted, underWay, heard, repeats, expiries>>

AlertTypeOK ==
  /\ muted \in 0..Throttle /\ underWay \subseteq 0..Deadline
  /\ heard \in 0..Far /\ repeats \in BOOLEAN
  /\ expiries \in [Tallied -> 0..Far]

AlertInit ==
  /\ muted = 0 /\ underWay = {} /\ heard = Far /\ repeats = FALSE
  /\ expiries = [o \in Tallied |-> Far]

\* systemAlertEvery: the slot is claimed, back-dated.
ClaimsSlot == muted' = Retry

\* Fault: claimed for the whole interval.
ClaimsAll == muted' = Throttle

Claims == ClaimsSlot

systemAlert ==
  IF muted > 0 THEN UNCHANGED <<muted, underWay>>
  ELSE Claims /\ underWay' = underWay \cup {0}

\* detectSystemic, the watchdog, a recovered panic, a store that fails.
Raises == systemAlert /\ UNCHANGED <<heard, repeats, expiries>>

Delivers(d) ==
  /\ d \in underWay /\ underWay' = underWay \ {d} /\ muted' = Throttle
  /\ repeats' = (repeats \/ heard < Throttle - Deadline) /\ heard' = 0
  /\ UNCHANGED <<expiries>>

DeliveryFails(d) ==
  /\ d \in underWay /\ underWay' = underWay \ {d}
  /\ UNCHANGED <<muted, heard, repeats, expiries>>

\* pruneChurn, distinctOwners.
Lately(times) == {o \in Tallied : times[o] < Churn}

\* noteSessionExpiry, and the alert when it is one too many.
SessionEnds(o) ==
  LET now == [expiries EXCEPT ![o] = 0]
  IN /\ expiries' = now
     /\ IF Cardinality(Lately(now)) >= ManyOwners THEN systemAlert ELSE UNCHANGED <<muted, underWay>>
     /\ UNCHANGED <<heard, repeats>>

AlertTick ==
  /\ Deadline \notin underWay /\ underWay' = {d + 1 : d \in underWay}
  /\ muted' = IF muted = 0 THEN 0 ELSE muted - 1
  /\ heard' = IF heard < Far THEN heard + 1 ELSE Far
  /\ expiries' = [o \in Tallied |-> IF expiries[o] < Far THEN expiries[o] + 1 ELSE Far]
  /\ UNCHANGED repeats

AlertRestart ==
  /\ muted' = 0 /\ underWay' = {} /\ expiries' = [o \in Tallied |-> Far]
  /\ heard' = Far /\ UNCHANGED repeats

AlertNext ==
  \/ Raises \/ AlertTick \/ AlertRestart
  \/ \E d \in underWay : Delivers(d) \/ DeliveryFails(d)
  \/ \E o \in Tallied : SessionEnds(o)

------------------------------------------------------------------------------
\* An alert that has arrived is not sent again within its interval, and one that has not
\* is not muted for longer than the short window, whoever raises it meanwhile
\* (systemAlertEvery).
AlertsSpaced == ~repeats
QuietMeansHeard == muted > Retry => heard <= Throttle
==============================================================================
