---------------------------- MODULE FailureEpisode ----------------------------
(***************************************************************************)
(* What a household hears about a change that does not land.               *)
(*                                                                         *)
(* The reconcile loop fails a permit again and again, for causes that flap *)
(* (scheduler/reconcile.go).  notifyFailure decides from the permit's      *)
(* durable FAILURE EPISODE whether that is news; notifyUserThen hands a    *)
(* notice to a goroutine of its own, which delivers it and only then       *)
(* records that it did: first the key of the notice, then the episode.     *)
(* The loop goes on meanwhile: it may fail, close the episode and open the *)
(* next one while a notice of the first is on its way.                     *)
(***************************************************************************)
EXTENDS Naturals

CONSTANTS
  Plates,            \* registrations
  NoPlate,           \* none: nothing told, nothing parked
  Days,              \* dates a close-out may carry
  NoKey,             \* no notice on record, or none asked for
  FailThreshold,     \* failNotifyThreshold: failing ticks before a soft notice
  BusyThreshold,     \* busyNotifyThreshold, and the council's sign-in down
  BlockThreshold,    \* blockNotifyThreshold: the fleet breaker is open
  SessionThreshold   \* sessionNotifyThreshold: the sign-in has expired

Thresholds == {FailThreshold, BusyThreshold, BlockThreshold, SessionThreshold}

ASSUME EpisodeAssumption ==
  /\ Thresholds \subseteq Nat
  /\ NoPlate \notin Plates

\* The longest streak that any threshold can tell from a longer one.
MaxStreak == CHOOSE n \in Thresholds : \A m \in Thresholds : m <= n

Causes == {"transient", "refused", "busy", "down", "blocked", "expired", "unserved"}

Threshold(c) ==
  CASE c = "unserved" -> 0
    [] c = "refused" -> 1
    [] c = "transient" -> FailThreshold
    [] c = "blocked" -> BlockThreshold
    [] c = "expired" -> SessionThreshold
    [] OTHER -> BusyThreshold

Urgent(c) == c \in {"blocked", "expired"}
\* In an outage the plate is incidental; a refusal parks the permit.
Matters(c) ==
  IF c = "down" \/ Urgent(c) THEN "outage"
  ELSE IF c = "refused" THEN "refused" ELSE "plain"

\* The keys of the notices: a failure by plate and tier, the close-out of a
\* change that went away, and the success of a change.
FailKey(p, u) == [kind |-> IF u THEN "urgent" ELSE "soft", reg |-> p, at |-> NoPlate]
FailKeys == {FailKey(p, u) : p \in Plates, u \in BOOLEAN}
CloseOut(p, d) == [kind |-> "unapplied", reg |-> p, at |-> d]
Success(p, from) == [kind |-> "success", reg |-> p, at |-> from]
Notices == FailKeys \union {CloseOut(p, d) : p \in Plates, d \in Days}
Keys == Notices \union {Success(p, q) : p \in Plates, q \in Plates}

ASSUME NoKeyAssumption == NoKey \notin Keys

VARIABLES
  want, on,          \* the plate scheduled, and the plate on record
  parked,            \* the plate whose refusal parks the permit
  streak, failed,    \* permit.fail_streak; the plate of the last row of the apply
                     \* log, when that is an error
  key,               \* permit_notify.notified_key
  told, urgent,      \* permit_notify.fail_told_plate, fail_told_urgent
  job,               \* each key's delivery: none, or how far it has come
  held,              \* keys whose next attempt is being held off
  pc, cause, asked,  \* the pass: step, what matters of why it fails, the notice
                     \* it asks for
  epi,               \* the pass: the episode as it read it
  heard, ever,       \* history: the tiers told since the episode was closed, and
                     \* every notice of a failure ever delivered
  slipped            \* history: a notice of this episode went unrecorded

permit  == <<want, on, parked, streak, failed>>
episode == <<told, urgent>>
pass    == <<pc, cause, asked, epi>>
notices == <<job, held>>
told_of == <<heard, ever, slipped>>
vars == <<permit, key, episode, notices, pass, told_of>>

Steps == {"none", "queued", "sending", "sent", "marking"}

TypeOK ==
  /\ want \in Plates /\ on \in Plates
  /\ parked \in Plates \union {NoPlate}
  /\ streak \in 0..MaxStreak
  /\ failed \in Plates \union {NoPlate}
  /\ key \in Keys \union {NoKey}
  /\ told \in Plates \union {NoPlate} /\ urgent \in BOOLEAN
  /\ job \in [Keys -> Steps]
  /\ held \subseteq Keys
  /\ pc \in {"idle", "judge", "ask", "claim", "close"}
  /\ cause \in {"none", "plain", "refused", "outage"}
  /\ asked \in Keys \union {NoKey}
  /\ epi \in [told : Plates \union {NoPlate}, urgent : BOOLEAN]
  /\ heard \subseteq {"soft", "urgent"} /\ ever \subseteq Notices
  /\ slipped \in BOOLEAN

NoEpisode == [told |-> NoPlate, urgent |-> FALSE]

\* The row may be of a build from before the episode columns.
Init ==
  /\ want \in Plates /\ on \in Plates /\ parked = NoPlate
  /\ streak = 0 /\ failed = NoPlate
  /\ key \in FailKeys \union {NoKey}
  /\ told = NoPlate /\ urgent = FALSE
  /\ job = [k \in Keys |-> "none"] /\ held = {}
  /\ pc = "idle" /\ cause = "none" /\ asked = NoKey /\ epi = NoEpisode
  /\ ever = {key} \ {NoKey} /\ heard = {k.kind : k \in ever}
  /\ slipped = (key # NoKey)

------------------------------------------------------------------------------
(* The loop.                                                                *)

\* A pass at rest.  One that was refused parks the permit on its way out.
EndPass ==
  /\ pc' = "idle" /\ cause' = "none" /\ asked' = NoKey /\ epi' = NoEpisode
  /\ parked' = IF cause = "refused" THEN asked.reg ELSE parked

\* A notice has been dealt with; a close-out is followed by the closing.
Asked ==
  \/ asked.kind = "unapplied" /\ pc' = "close" /\ UNCHANGED <<cause, asked, epi, parked>>
  \/ asked.kind # "unapplied" /\ EndPass

\* The attempt to put the scheduled plate on fails.  A parked refusal keeps the
\* same plate from being tried, and is dropped for another.  Below the cause's
\* threshold nobody is told; else the episode is read, if the store allows it.
ApplyFails(c) ==
  /\ pc = "idle" /\ on # want /\ parked # want
  /\ streak' = IF c # "unserved" /\ streak < MaxStreak THEN streak + 1 ELSE streak
  /\ failed' = want
  /\ parked' = NoPlate
  /\ \/ /\ streak' >= Threshold(c)
        /\ pc' = "judge" /\ cause' = Matters(c) /\ asked' = FailKey(want, Urgent(c))
        /\ epi' = [told |-> told, urgent |-> urgent]
     \/ streak' < Threshold(c) /\ UNCHANGED pass
  /\ UNCHANGED <<want, on, key, episode, notices, told_of>>

\* legacyFailureTold: an episode about which nothing is on record is taken to be
\* the one that the last notice was about.
Adopts ==
  /\ epi.told = NoPlate
  /\ key # NoKey /\ key.kind # "success" /\ key.reg = asked.reg

ToldOf    == IF Adopts THEN asked.reg ELSE epi.told
ToldTier  == IF Adopts THEN key.kind = "urgent" ELSE epi.urgent

\* notifyFailure: one soft notice per plate, one urgent one, no downgrade.
AlreadyTold ==
  /\ ToldOf # NoPlate /\ (cause = "outage" \/ ToldOf = asked.reg)
  /\ asked.kind = "soft" \/ ToldTier

\* MarkFailureTold: the tier only rises for one plate.
MarkTold(p, u) ==
  /\ told' = p
  /\ urgent' = IF told = p THEN urgent \/ u ELSE u

Judge ==
  /\ pc = "judge"
  /\ IF Adopts THEN MarkTold(asked.reg, key.kind = "urgent") ELSE UNCHANGED episode
  /\ \/ AlreadyTold /\ EndPass
     \/ ~AlreadyTold /\ pc' = "ask" /\ epi' = NoEpisode /\ UNCHANGED <<cause, asked, parked>>
  /\ UNCHANGED <<want, on, streak, failed, key, notices, told_of>>

\* The episode could not be read: nobody is told in this pass.
Unreadable ==
  /\ pc = "judge"
  /\ EndPass
  /\ UNCHANGED <<want, on, streak, failed, key, episode, notices, told_of>>

\* notifyUserThen: the same notice is not sent again, ...
Ask ==
  /\ pc = "ask"
  /\ \/ key = asked /\ Asked
     \/ key # asked /\ pc' = "claim" /\ UNCHANGED <<cause, asked, epi, parked>>
  /\ UNCHANGED <<want, on, streak, failed, key, episode, notices, told_of>>

\* ... nor while its next attempt is held off or one is under way.
Claim ==
  /\ pc = "claim"
  /\ \/ /\ asked \notin held /\ job[asked] = "none"
        /\ job' = [job EXCEPT ![asked] = "queued"]
     \/ (asked \in held \/ job[asked] # "none") /\ UNCHANGED job
  /\ Asked
  /\ UNCHANGED <<want, on, streak, failed, key, episode, held, told_of>>

\* The record of what was told in the episode is dropped.
Forget == told' = NoPlate /\ urgent' = FALSE /\ heard' = {} /\ slipped' = FALSE

\* The plate is put on: the episode is closed, the household told.
ApplySucceeds ==
  /\ pc = "idle" /\ on # want /\ parked # want
  /\ on' = want /\ streak' = 0 /\ parked' = NoPlate
  /\ failed' = NoPlate
  /\ Forget
  /\ pc' = "ask" /\ asked' = Success(want, on)
  /\ UNCHANGED <<want, key, notices, cause, epi, ever>>

\* Fault: the last row is taken for a failure.
NeverLandedUnlogged == streak >= FailThreshold /\ failed # on

\* The change went away without landing, after enough failing ticks to say so.
NeverLanded == streak >= FailThreshold /\ failed \notin {NoPlate, on}

\* settle: the failing change has landed or gone away, and in the second case the
\* household is told.
Settle ==
  /\ pc = "idle" /\ on = want /\ streak # 0
  /\ \/ /\ NeverLanded
        /\ \E d \in Days : asked' = CloseOut(failed, d)
        /\ pc' = "ask" /\ UNCHANGED failed
     \/ /\ ~NeverLanded
        /\ failed' = IF streak >= FailThreshold THEN NoPlate ELSE failed
        /\ pc' = "close" /\ UNCHANGED asked
  /\ UNCHANGED <<want, on, parked, streak, key, episode, notices, cause, epi,
                 told_of>>

Close ==
  /\ pc = "close"
  /\ Forget
  /\ streak' = 0 /\ parked' = NoPlate
  /\ pc' = "idle" /\ cause' = "none" /\ asked' = NoKey /\ epi' = NoEpisode
  /\ UNCHANGED <<want, on, failed, key, notices, ever>>

------------------------------------------------------------------------------
(* The delivery of a notice.                                                *)

Goto(k, step) == job' = [job EXCEPT ![k] = step]

\* Fault: what was on record when the notice was asked for is relied upon.
RecheckSkipped(k) ==
  /\ job[k] = "queued"
  /\ Goto(k, "sending")
  /\ UNCHANGED <<permit, key, episode, held, pass, told_of>>

\* The goroutine reads the key again before it sends anything.
Recheck(k) ==
  /\ job[k] = "queued"
  /\ Goto(k, IF key = k THEN "none" ELSE "sending")
  /\ UNCHANGED <<permit, key, episode, held, pass, told_of>>

RecheckFails(k) ==
  /\ job[k] = "queued"
  /\ Goto(k, "none")
  /\ UNCHANGED <<permit, key, episode, held, pass, told_of>>

\* NotifyApply reaches everybody, ...
Deliver(k) ==
  /\ job[k] = "sending"
  /\ Goto(k, "sent")
  /\ ever' = ever \union ({k} \intersect Notices)
  /\ heard' = heard \union ({k.kind} \intersect {"soft", "urgent"})
  /\ held' = held \ {k}
  /\ UNCHANGED <<permit, key, episode, pass, slipped>>

\* Fault: a notice that reached some counts as told.
DeliverPartCounts(k) ==
  /\ job[k] = "sending"
  /\ Goto(k, "sent")
  /\ UNCHANGED <<permit, key, episode, held, pass, told_of>>

\* ... or some, or nobody: nothing is recorded, and the next attempt held off.
DeliverPart(k) ==
  /\ job[k] = "sending"
  /\ Goto(k, "none")
  /\ held' = held \union {k}
  /\ UNCHANGED <<permit, key, episode, pass, told_of>>

Record(k) ==
  /\ job[k] = "sent"
  /\ key' = k
  /\ Goto(k, IF k \in FailKeys THEN "marking" ELSE "none")
  /\ UNCHANGED <<permit, episode, held, pass, told_of>>

\* Fault: a notice whose key could not be stored is not marked either.
RecordFailsReturns(k) ==
  /\ job[k] = "sent"
  /\ Goto(k, "none")
  /\ UNCHANGED <<permit, key, episode, held, pass, told_of>>

RecordFails(k) ==
  /\ job[k] = "sent"
  /\ Goto(k, IF k \in FailKeys THEN "marking" ELSE "none")
  /\ UNCHANGED <<permit, key, episode, held, pass, told_of>>

\* The hook of a failure notice, after which the delivery is over.
Mark(k) ==
  /\ job[k] = "marking"
  /\ MarkTold(k.reg, k.kind = "urgent")
  /\ Goto(k, "none")
  /\ UNCHANGED <<permit, key, held, pass, told_of>>

MarkFails(k) ==
  /\ job[k] = "marking"
  /\ Goto(k, "none")
  /\ slipped' = TRUE
  /\ UNCHANGED <<permit, key, episode, held, pass, heard, ever>>

\* Fault: a hold has no end.
HoldForever(k) == FALSE

HoldElapses(k) ==
  /\ k \in held
  /\ held' = held \ {k}
  /\ UNCHANGED <<permit, key, episode, job, pass, told_of>>

------------------------------------------------------------------------------
(* Everything else.                                                         *)

\* The schedule moves on, or the household edits it or links its account again,
\* which clears the retry window.
ScheduleMoves(p) ==
  /\ want' = p
  /\ parked' \in {parked, NoPlate}
  /\ UNCHANGED <<on, streak, failed, key, episode, notices, pass, told_of>>

\* A request puts plate p on.
GuestApplies(p) ==
  /\ p # on
  /\ on' = p
  /\ failed' = NoPlate
  /\ UNCHANGED <<want, parked, streak, key, episode, notices, pass, told_of>>

\* The drift check finds plate p and forgets the last notice.
DriftAdopts(p) ==
  /\ p # on
  /\ on' = p
  /\ failed' = NoPlate
  /\ key' = NoKey
  /\ UNCHANGED <<want, parked, streak, episode, notices, pass, told_of>>

\* Deliveries, holds and the parking are in memory.
Restart ==
  /\ job' = [k \in Keys |-> "none"] /\ held' = {}
  /\ pc' = "idle" /\ cause' = "none" /\ asked' = NoKey /\ epi' = NoEpisode
  /\ parked' = NoPlate
  /\ slipped' = (slipped \/ \E k \in FailKeys : job[k] \in {"sent", "marking"})
  /\ UNCHANGED <<want, on, streak, failed, key, episode, heard, ever>>

------------------------------------------------------------------------------
Event ==
  \/ \E p \in Plates : ScheduleMoves(p) \/ GuestApplies(p) \/ DriftAdopts(p)
  \/ Unreadable \/ Restart
  \/ \E k \in Keys :
       RecheckFails(k) \/ DeliverPart(k) \/ RecordFails(k) \/ MarkFails(k)

PassStep ==
  \/ \E c \in Causes : ApplyFails(c)
  \/ ApplySucceeds \/ Settle \/ Judge \/ Ask \/ Claim \/ Close

Delivery(k) == Recheck(k) \/ Deliver(k) \/ Record(k) \/ Mark(k) \/ HoldElapses(k)

Work == PassStep \/ \E k \in Keys : Delivery(k)

Next == Event \/ Work

Spec == Init /\ [][Next]_vars

\* The loop ticks and tries again; a goroutine runs to its end; a hold is five
\* minutes.
Fairness == WF_vars(PassStep) /\ \A k \in Keys : WF_vars(Delivery(k))

------------------------------------------------------------------------------
(* Properties.                                                              *)

About(p) == {k \in Notices : k.reg = p}

\* The episode claims only what the household was told in full: notifyUserThen
\* marks it after the delivery, legacyFailureTold adopts only what was delivered.
EpisodeHonest ==
  told # NoPlate =>
    /\ About(told) \intersect ever # {}
    /\ urgent => FailKey(told, TRUE) \in ever

\* ... and it claims something when the household has been told, so that the
\* success which ends it reaches everybody (closeFailureEpisode).
HeardIsOnRecord ==
  heard # {} /\ ~slipped /\ (\A k \in FailKeys : job[k] \notin {"sent", "marking"})
    => told # NoPlate

\* A notice that is on record as delivered is not delivered again, whatever pass
\* asked for it and when (notifyUserThen).
NoRepeat == [][\A k \in Keys : job[k] = "sending" /\ job'[k] = "sent" => key # k]_vars

\* When a plate keeps failing, and is not parked, the household is told of it in
\* the end, or has been told of the outage that it is part of.
FailureIsTold ==
  \A p \in Plates :
    <>[](want = p /\ on # p /\ parked # p) =>
      <>(told # NoPlate \/ About(p) \intersect ever # {})

\* scheduler/notify.go:441: "an undelivered notification is retried on the next
\* tick rather than silently suppressed".
UndeliveredIsRetried ==
  \A p \in Plates : <>[](want = p /\ on # p) => <>(About(p) \intersect ever # {})

\* store/notify.go:336: "The next failure is a new episode and earns a new notice".
NewEpisodeIsTold ==
  [][pc = "judge" /\ AlreadyTold /\ pc' = "idle" =>
       heard # {} \/ \E k \in Keys : job[k] # "none"]_vars
==============================================================================
