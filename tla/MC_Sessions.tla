----------------------------- MODULE MC_Sessions -----------------------------
(***************************************************************************)
(* The session of a household (SessionRecovery), the sign-in circuit its    *)
(* renewals pass (AuthCircuit), the pause of its council's traffic          *)
(* (FleetBreaker), the plate cache its calls fill (PlateReadings) and the   *)
(* queue its notices go out by (Outbox), side by side: they share no        *)
(* variable, so a behaviour is one of one of them and the state spaces add  *)
(* up.  At most MaxEvents events (failures, and what the household, the     *)
(* council or the disk does) happen; the program's own steps are not        *)
(* bounded.                                                                 *)
(***************************************************************************)
EXTENDS SessionRecovery, AuthCircuit, PlateReadings, Outbox, FleetBreaker

CONSTANTS
  MaxEvents,
  BreakerEvents   \* the same, for the fleet breaker

ASSUME MaxEventsAssumption == {MaxEvents, BreakerEvents} \subseteq Nat

VARIABLES
  part,      \* which of them this behaviour is about
  events     \* events so far

TypesOK ==
  /\ part = "session" => SessionTypeOK
  /\ part = "auth" => AuthTypeOK
  /\ part = "plate" => PlateTypeOK
  /\ part = "outbox" => OutboxTypeOK
  /\ part = "breaker" => TypeOK

MCInit ==
  /\ SessionInit /\ AuthInit /\ PlateInit /\ OutboxInit /\ Init
  /\ part \in {"session", "auth", "plate", "outbox", "breaker"} /\ events = 0
  /\ part # "session" => row = NoRow
  /\ part # "plate" => actual = CHOOSE c \in Cars : TRUE

Counted ==
  /\ events < IF part = "breaker" THEN BreakerEvents ELSE MaxEvents
  /\ events' = events + 1
Free == UNCHANGED events

MCNext ==
  /\ UNCHANGED part
  /\ IF part = "session" THEN (SessionEvent /\ Counted) \/ (SessionWork /\ Free)
                         ELSE UNCHANGED sessionVars
  /\ IF part = "auth" THEN (AuthEvent /\ Counted) \/ (AuthWork /\ Free) ELSE UNCHANGED authVars
  /\ IF part = "plate" THEN (PlateEvent /\ Counted) \/ (PlateWork /\ Free) ELSE UNCHANGED plateVars
  /\ IF part = "outbox" THEN (OutboxEvent /\ Counted) \/ (OutboxWork /\ Free)
                        ELSE UNCHANGED outboxVars
  /\ IF part = "breaker" THEN (Event /\ Counted) \/ (Work /\ Free) ELSE UNCHANGED vars

\* Requests end within their timeouts, the loops go round, backoffs end, time passes,
\* pages are looked at, the disk is seen to, and every mail the queue tries is at last
\* taken or refused.
MCFairness ==
  /\ WF_sessionVars(part = "session" /\ Linking)
  /\ WF_sessionVars(part = "session" /\ Calling)
  /\ WF_sessionVars(part = "session" /\ Working)
  /\ WF_sessionVars(part = "session" /\ BackoffEnds)
  /\ WF_sessionVars(part = "session" /\ Warming)
  /\ WF_authVars(part = "auth" /\ AuthTick)
  /\ WF_authVars(part = "auth" /\ Asks)
  /\ \A r \in Requests : WF_authVars(part = "auth" /\ Serves(r))
  /\ WF_plateVars(part = "plate" /\ PlateWork /\ ~GrowsOld)
  /\ WF_plateVars(part = "plate" /\ GrowsOld)
  /\ WF_outboxVars(part = "outbox" /\ Drains)
  /\ WF_outboxVars(part = "outbox" /\ DiskClears)
  /\ \A i \in Ids : WF_outboxVars(part = "outbox" /\ BecomesDue(i))
  /\ SF_outboxVars(part = "outbox" /\ stage = "smtp" /\ (Accepted \/ Sends))
  /\ WF_vars(part = "breaker" /\ Tick)
  /\ \A o \in Owners : WF_vars(part = "breaker" /\ RestEnds(o))
  /\ \A c \in Calls : WF_vars(part = "breaker" /\ Answer(c))
  /\ WF_vars(part = "breaker" /\ \E c \in Calls : Allow(c))

MCSpec ==
  /\ MCInit
  /\ [][MCNext]_<<sessionVars, authVars, plateVars, outboxVars, vars, part, events>>
  /\ MCFairness

\* When the sign-in service is back, its circuit closes for good, and when the edge
\* serves everybody again, the council's does: no probe is ever lost, whatever becomes
\* of it and whatever the pause was restored from (allow, onInconclusive, onSuccess).
CircuitsClose == <>[]((part = "auth" => ~open) /\ (part = "breaker" => circuit = "closed"))

PagesSettle == part = "plate" => ReadingsSettle

\* What the queue says has happened has: see SentOnce, SentIsTrue, NoTwins and
\* ComplaintStands.
OutboxHonest == SentOnce /\ SentIsTrue /\ NoTwins /\ ComplaintStands
==============================================================================
