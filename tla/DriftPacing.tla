----------------------------- MODULE DriftPacing -----------------------------
(***************************************************************************)
(* When the grid of a household is read (scheduler/drift.go, warm.go): once *)
(* in a drift interval for each council it is linked to, later after a      *)
(* round that did not count, and on the next pass when a guest's page has   *)
(* seen a plate the record does not know.  The rounds are the keep-warm     *)
(* loop's, one at a time; pages ask for one, and the household links anew,  *)
(* whenever they like.  The failures, the backoff and the request are kept  *)
(* for the household, the checkpoint for each of its sessions.              *)
(***************************************************************************)
EXTENDS Naturals

CONSTANTS
  Councils,       \* those the household is linked to
  DriftInterval,  \* in ticks
  FirstRest,      \* the first step of the backoff
  MaxFails,       \* bound on driftFails
  NoRound

ASSUME DriftAssumption ==
  /\ {DriftInterval, FirstRest, MaxFails} \subseteq Nat \ {0} /\ NoRound \notin Councils

VARIABLES
  checked,   \* council -> ticks since drift_checked_at, up to DriftInterval
  fails,     \* driftFails
  rest,      \* ticks until driftRetryAt
  asap,      \* driftAsap
  round,     \* the council whose grid has been read, or NoRound
  lately,    \* history: councils read, with nothing since that asks for another read
  hasty      \* history: one was read again all the same

driftVars == <<checked, fails, rest, asap, round, lately, hasty>>

DriftTypeOK ==
  /\ checked \in [Councils -> 0..DriftInterval] /\ fails \in 0..MaxFails
  /\ rest \in 0..DriftInterval /\ asap \in BOOLEAN /\ round \in Councils \cup {NoRound}
  /\ lately \subseteq Councils /\ hasty \in BOOLEAN

DriftInit ==
  /\ checked = [k \in Councils |-> 0] /\ fails = 0 /\ rest = 0 /\ asap = FALSE
  /\ round = NoRound /\ lately = {} /\ hasty = FALSE

driftDue(k) == rest = 0 /\ (asap \/ checked[k] >= DriftInterval)

\* The grid is read.  (Not while the session is dead or the breaker open.)
RoundStarts(k) ==
  /\ round = NoRound /\ driftDue(k) /\ round' = k
  /\ hasty' = (hasty \/ k \in lately) /\ lately' = lately \cup {k}
  /\ UNCHANGED <<checked, fails, rest, asap>>

\* 15 minutes, an hour, four hours: up to the interval.  It is multiplied four times at most.
Times4 == <<1, 4, 16, 64, 256>>
Backoff(n) ==
  LET long == FirstRest * Times4[IF n < 5 THEN n ELSE 5]
  IN IF long > DriftInterval THEN DriftInterval ELSE long

noteDriftFailure ==
  LET n == IF fails < MaxFails THEN fails + 1 ELSE fails
  IN fails' = n /\ rest' = Backoff(n)
noteDriftSuccess == fails' = 0 /\ rest' = 0
noteDriftDeferred == fails' = 0 /\ rest' = DriftInterval

\* The checkpoint is stored, the backoff forgotten and the request met, whichever council
\* it was about and whether the page looked before this grid was read or after.
RoundCounts ==
  /\ round # NoRound /\ round' = NoRound /\ checked' = [checked EXCEPT ![round] = 0]
  /\ noteDriftSuccess /\ asap' = FALSE
  /\ UNCHANGED <<lately, hasty>>

\* The read failed, a write of it did, or the checkpoint was not stored.
RoundFails ==
  /\ round # NoRound /\ round' = NoRound /\ noteDriftFailure
  /\ UNCHANGED <<checked, asap, lately, hasty>>

\* Fault: the backoff is forgotten before the checkpoint is stored.
RoundForgets ==
  /\ round # NoRound /\ round' = NoRound /\ noteDriftSuccess
  /\ UNCHANGED <<checked, asap, lately, hasty>>

RoundDoesNotCount == RoundFails

\* Only a page of the permits came back.
RoundPartial ==
  /\ round # NoRound /\ round' = NoRound /\ noteDriftDeferred
  /\ UNCHANGED <<checked, asap, lately, hasty>>

RequestDriftSoon == asap' = TRUE

\* A guest's page has read a plate, of some council, that the record does not know.
guestCurrentPlate ==
  /\ RequestDriftSoon /\ lately' = {}
  /\ UNCHANGED <<checked, fails, rest, round, hasty>>

\* cancelReconnectWhere, when a session comes or goes; one that has never been read
\* counts from when it was saved.
LinksAnew ==
  /\ noteDriftSuccess /\ lately' = {}
  /\ checked' \in {checked} \cup {[checked EXCEPT ![k] = 0] : k \in Councils}
  /\ UNCHANGED <<asap, round, hasty>>

DriftTick ==
  /\ checked' = [k \in Councils |-> IF checked[k] < DriftInterval THEN checked[k] + 1 ELSE checked[k]]
  /\ rest' = IF rest = 0 THEN 0 ELSE rest - 1
  /\ lately' = {} /\ UNCHANGED <<fails, asap, round, hasty>>

\* All of it is in memory but the checkpoints, and is allowed to be.
DriftRestart ==
  /\ fails' = 0 /\ rest' = 0 /\ asap' = FALSE /\ round' = NoRound
  /\ lately' = {} /\ UNCHANGED <<checked, hasty>>

DriftWork ==
  \/ \E k \in Councils : RoundStarts(k)
  \/ RoundCounts \/ RoundDoesNotCount \/ RoundPartial \/ DriftTick

DriftEvent == guestCurrentPlate \/ LinksAnew \/ DriftRestart

DriftNext == DriftWork \/ DriftEvent

------------------------------------------------------------------------------
\* Nobody's grid is read over and over: between two reads time passes, or a page or the
\* household asks anew, also when rounds fail or their checkpoint cannot be stored
\* (driftDue, noteDriftFailure, warmOne).
ReadsApart == ~hasty
==============================================================================
