------------------------------ MODULE PermitApply ------------------------------
(***************************************************************************)
(* One permit, and everybody who changes it or its record:                 *)
(*                                                                         *)
(*   - the reconcile loop (scheduler/reconcile.go), one goroutine that     *)
(*     works from a snapshot of the permit and SKIPS a busy permit;        *)
(*   - request handlers (server/guest_public.go, server/permits.go), which *)
(*     WAIT for the permit's apply claim, re-check their authority under   *)
(*     it, write to the council and record the plate;                      *)
(*   - the drift check (scheduler/drift.go), which takes no claim: it      *)
(*     reads the council's grid for seconds and then compare-and-swaps the *)
(*     belief;                                                             *)
(*   - the household, which edits the schedule, revokes links and may      *)
(*     change the plate on the council's own website;                      *)
(*   - the process, which may stop between any two of these steps.         *)
(*                                                                         *)
(* Claims, streaks and retry windows are keyed by permit and nothing else  *)
(* of them is shared, so one permit is modelled.                           *)
(***************************************************************************)
EXTENDS Naturals

CONSTANTS
  Plates,      \* registrations
  Guests,      \* guest links; each has at most one request being served
  NoPlate,     \* the empty registration
  Nothing,     \* nothing scheduled: reconcile leaves the permit alone
  Owner,       \* the household's own "remove the rego" request
  Loop,        \* the reconcile loop, as a holder of the claim
  Free,        \* the claim when nobody holds it
  Household,   \* the household's bookings and roster, as the winning source
  MaxStreak    \* the failure streak is counted up to here

Handlers == Guests \union {Owner}
Regos == Plates \union {NoPlate}
Targets == Regos \union {Nothing}

ASSUME ConstantsAssumption ==
  /\ MaxStreak \in Nat \ {0}
  /\ NoPlate \notin Plates
  /\ Nothing \notin Regos
  /\ Owner \notin Guests
  /\ Household \notin Guests
  /\ Loop \notin Handlers
  /\ Free \notin Handlers \union {Loop}

VARIABLES
  portal,      \* the plate the council holds on the permit
  belief,      \* permit.active_registration
  managed,     \* the row exists and the permit is not expired or cancelled
  streak,      \* permit.fail_streak
  window,      \* the retry window, nextTry: open, deferred or parked
  parkedFor,   \* the plate a parked refusal is about
  plan,        \* what the household's own bookings and roster resolve to
  booking,     \* each link's live override on this permit
  winner,      \* whose entry Resolve returns now
  link,        \* each link: live, revoked, or revoked without the claim
  claim,       \* Scheduler.applying[permit]
  hpc, act, req,               \* handlers: step, kind of request, plate to write
  lpc, snap, want, outcome,    \* the loop: step, ListPermits row, target, result
  dpc, was, seen, reading,     \* drift: step, belief before the read, belief
                               \* re-read, plate read
  doubt        \* history: what has parted portal and belief since they were joined

record   == <<portal, belief, managed>>
backoff  == <<streak, window, parkedFor>>
schedule == <<plan, booking, winner, link>>
handlers == <<hpc, act, req>>
loop     == <<lpc, snap, want, outcome>>
drift    == <<dpc, was, seen, reading>>
vars == <<record, backoff, schedule, claim, handlers, loop, drift, doubt>>

HandlerSteps == {"idle", "waiting", "claimed", "authorised", "written"}
LoopSteps    == {"idle", "pass", "resolved", "applying", "written", "book"}
DriftSteps   == {"idle", "asked", "read", "confirm", "swap", "hold"}

\* What a failed council write leaves behind, by what reconcile does about it.  A session
\* that expires is "failing", also under the read that was to confirm a write the council
\* took; "unlinked" is a household with no session to begin with.
FailureKinds == {"refused", "failing", "busy", "unserved", "unlinked"}
\* The kinds whose error can follow a write the council did take.
MayHaveLanded == {"refused", "failing", "busy"}
Outcomes == FailureKinds \union {"none", "ok", "unrecorded"}

DataOK ==
  /\ portal \in Regos /\ belief \in Regos
  /\ streak \in 0..MaxStreak
  /\ window \in {"open", "deferred", "parked"}
  /\ parkedFor \in Targets
  /\ plan \in Targets
  /\ booking \in [Guests -> Plates \union {Nothing}]
  /\ winner \in Guests \union {Household}
  /\ link \in [Guests -> {"live", "revoked", "overtaken"}]
  /\ claim \in Handlers \union {Loop, Free}
  /\ hpc \in [Handlers -> HandlerSteps]
  /\ act \in [Handlers -> {"activate", "revert", "clear"}]
  /\ req \in [Handlers -> Regos]
  /\ lpc \in LoopSteps
  /\ snap \in [belief : Regos, streak : 0..MaxStreak]
  /\ want \in Regos
  /\ outcome \in Outcomes
  /\ dpc \in DriftSteps
  /\ was \in Regos /\ seen \in Regos /\ reading \in Regos
  /\ doubt \subseteq {"portal", "record"}

TypeOK == DataOK /\ managed \in BOOLEAN

Init ==
  /\ portal \in Regos /\ belief = portal /\ managed = TRUE
  /\ streak = 0 /\ window = "open" /\ parkedFor = Nothing
  /\ plan \in Targets /\ winner = Household
  /\ booking = [g \in Guests |-> Nothing]
  /\ link = [g \in Guests |-> "live"]
  /\ claim = Free
  /\ hpc = [h \in Handlers |-> "idle"]
  /\ act = [h \in Handlers |-> "clear"]
  /\ req = [h \in Handlers |-> NoPlate]
  /\ lpc = "idle" /\ snap = [belief |-> NoPlate, streak |-> 0]
  /\ want = NoPlate /\ outcome = "none"
  /\ dpc = "idle" /\ was = NoPlate /\ seen = NoPlate /\ reading = NoPlate
  /\ doubt = {}

------------------------------------------------------------------------------
(* The schedule.  Resolve picks the freshest live booking, else the roster; *)
(* the override table is kept as its winner, with each link's own entry.    *)

Entry(w) == IF w = Household THEN plan ELSE booking[w]
Resolved == Entry(winner)

\* Whose entry may win once link g's bookings are gone.
WinnersWithout(g) ==
  IF winner # g THEN {winner}
  ELSE {Household} \union {o \in Guests \ {g} : booking[o] # Nothing}

\* A link's live bookings are deleted.
SweepLink(g) ==
  /\ booking' = [booking EXCEPT ![g] = Nothing]
  /\ winner' \in WinnersWithout(g)

\* Someone has written to the council and not yet recorded it.
MidWrite == lpc = "written" \/ \E h \in Handlers : hpc[h] = "written"

\* KickPermit and KickOwnerIn: drop the retry window, note it, wake the loop.
ClearRetry ==
  /\ window' = "open"
  /\ parkedFor' = Nothing

\* The links' bookings that an entry of the household may be hiding.
Hidden == IF winner = Household THEN {g \in Guests : booking[g] # Nothing} ELSE {}

\* A household edit to its bookings or roster.
EditSchedule(t) ==
  /\ plan' = t
  /\ winner' \in {winner, Household} \union Hidden
  /\ ClearRetry
  /\ UNCHANGED <<record, streak, booking, link, claim, handlers, loop, drift,
                 doubt>>

\* The household deletes a link's booking from the Schedule tab.
DeleteBooking(g) ==
  /\ booking[g] # Nothing
  /\ SweepLink(g)
  /\ ClearRetry
  /\ UNCHANGED <<record, streak, plan, link, claim, handlers, loop, drift,
                 doubt>>

\* The household signs in to the council again, or the saved password did.
Relink ==
  /\ ClearRetry
  /\ UNCHANGED <<record, streak, schedule, claim, handlers, loop, drift, doubt>>

\* Time passes: the roster rolls over, or a booking ends.  Nobody clears the
\* retry window for it.
ScheduleMoves ==
  /\ \/ \E t \in Targets : plan' = t
        /\ winner' \in {winner} \union Hidden
        /\ UNCHANGED booking
     \/ \E g \in Guests : booking[g] # Nothing /\ SweepLink(g) /\ UNCHANGED plan
  /\ UNCHANGED <<record, backoff, link, claim, handlers, loop, drift, doubt>>

\* Revoking a link.  The claim is taken first, so no write on the link's
\* authority is under way; after twenty seconds of waiting for a busy claim the
\* revocation goes ahead without it.
RevokeLink(g) ==
  /\ link[g] = "live"
  /\ link' = [link EXCEPT ![g] = IF claim = Free THEN "revoked" ELSE "overtaken"]
  /\ SweepLink(g)
  /\ UNCHANGED <<record, backoff, plan, claim, handlers, loop, drift, doubt>>

\* Editing a pass sweeps what it no longer covers and leaves the link live.
NarrowLink(g) ==
  /\ link[g] = "live" /\ booking[g] # Nothing
  /\ SweepLink(g)
  /\ UNCHANGED <<record, backoff, plan, link, claim, handlers, loop, drift,
                 doubt>>

------------------------------------------------------------------------------
(* Request handlers.                                                        *)

\* Handler h has decided to write p, as a request of kind a, and now waits for
\* the permit's claim.
Await(h, a, p) ==
  /\ hpc' = [hpc EXCEPT ![h] = "waiting"]
  /\ act' = [act EXCEPT ![h] = a]
  /\ req' = [req EXCEPT ![h] = p]

\* guestActivate: the booking is inserted while the link is live, and wins.
GuestActivate(g, p) ==
  /\ hpc[g] = "idle" /\ link[g] = "live" /\ managed
  /\ booking' = [booking EXCEPT ![g] = p]
  /\ winner' = g
  /\ Await(g, "activate", p)
  /\ UNCHANGED <<record, backoff, plan, link, claim, loop, drift, doubt>>

\* Fault: what is scheduled is put back even when nothing is.
GuestRevertUnchecked(g, p) ==
  /\ hpc[g] = "idle" /\ link[g] = "live" /\ managed
  /\ \E w \in WinnersWithout(g) :
       /\ booking' = [booking EXCEPT ![g] = Nothing] /\ winner' = w
       /\ Await(g, "revert", Entry(w))
  /\ UNCHANGED <<record, backoff, plan, link, claim, loop, drift, doubt>>

\* guestRevert: the link's bookings are swept and what to put back is decided
\* THEN: what is scheduled without them, else the baseline p, booked again.
\* The link's booking cap can refuse that booking; the sweep has happened.
GuestRevert(g, p) ==
  /\ hpc[g] = "idle" /\ link[g] = "live" /\ managed
  /\ \E w \in WinnersWithout(g) :
       \/ /\ Entry(w) \in Plates
          /\ booking' = [booking EXCEPT ![g] = Nothing] /\ winner' = w
          /\ Await(g, "revert", Entry(w))
       \/ /\ Entry(w) \notin Plates
          /\ booking' = [booking EXCEPT ![g] = p] /\ winner' = g
          /\ Await(g, "revert", p)
       \/ /\ Entry(w) \notin Plates
          /\ booking' = [booking EXCEPT ![g] = Nothing] /\ winner' = w
          /\ UNCHANGED handlers
  /\ UNCHANGED <<record, backoff, plan, link, claim, loop, drift, doubt>>

\* guestClear, from the household's quick picker.
GuestClear(g) ==
  /\ hpc[g] = "idle" /\ link[g] = "live" /\ managed
  /\ belief # NoPlate
  /\ SweepLink(g)
  /\ Entry(winner') \notin Plates
  /\ Await(g, "clear", NoPlate)
  /\ UNCHANGED <<record, backoff, plan, link, claim, loop, drift, doubt>>

\* clearPermit, by a member of the household.
OwnerClear ==
  /\ hpc[Owner] = "idle"
  /\ Await(Owner, "clear", NoPlate)
  /\ UNCHANGED <<record, backoff, schedule, claim, loop, drift, doubt>>

Goto(h, step) == hpc' = [hpc EXCEPT ![h] = step]

\* A handler at rest keeps nothing of the request it served.
Done(h) ==
  /\ Goto(h, "idle")
  /\ act' = [act EXCEPT ![h] = "clear"]
  /\ req' = [req EXCEPT ![h] = NoPlate]

\* Fault: the claim is taken whoever holds it.
HAcquireRegardless(h) ==
  /\ hpc[h] = "waiting"
  /\ claim' = h
  /\ Goto(h, "claimed")
  /\ UNCHANGED <<record, backoff, schedule, act, req, loop, drift, doubt>>

\* Fault: a request that could not get the claim writes without it.
HTimeoutGoesOn(h) ==
  /\ hpc[h] = "waiting" /\ claim # Free
  /\ Goto(h, "authorised")
  /\ UNCHANGED <<record, backoff, schedule, claim, act, req, loop, drift, doubt>>

\* AcquireApply waits for the claim, or gives up when its time runs out.
HAcquire(h) ==
  /\ hpc[h] = "waiting" /\ claim = Free
  /\ claim' = h
  /\ Goto(h, "claimed")
  /\ UNCHANGED <<record, backoff, schedule, act, req, loop, drift, doubt>>

HTimeout(h) ==
  /\ hpc[h] = "waiting" /\ claim # Free
  /\ Done(h)
  /\ UNCHANGED <<record, backoff, schedule, claim, loop, drift, doubt>>

\* Fault: an activation relies on the check its booking was inserted under.
AuthorisedAtInsert(h) ==
  CASE h = Owner -> Resolved = Nothing
    [] act[h] = "activate" -> TRUE
    [] act[h] = "revert" -> link[h] = "live"
    [] OTHER -> link[h] = "live" /\ Resolved \notin Plates

\* The authority each request needs, re-read under the claim.
Authorised(h) ==
  CASE h = Owner -> Resolved = Nothing
    [] act[h] = "activate" -> link[h] = "live" /\ booking[h] # Nothing
    [] act[h] = "revert" -> link[h] = "live"
    [] OTHER -> link[h] = "live" /\ Resolved \notin Plates

\* Fault: the claim is not given back when the request is turned down.
HCheckLeaks(h) ==
  /\ hpc[h] = "claimed"
  /\ IF Authorised(h) THEN Goto(h, "authorised") /\ UNCHANGED <<act, req>> ELSE Done(h)
  /\ UNCHANGED <<record, backoff, schedule, claim, loop, drift, doubt>>

HCheck(h) ==
  /\ hpc[h] = "claimed"
  /\ \/ /\ Authorised(h)
        /\ Goto(h, "authorised")
        /\ UNCHANGED <<claim, act, req>>
     \/ /\ ~Authorised(h)
        /\ claim' = Free
        /\ Done(h)
  /\ UNCHANGED <<record, backoff, schedule, loop, drift, doubt>>

\* Fault: the claim is given back before the plate is recorded.
HWriteReleases(h) ==
  /\ hpc[h] = "authorised"
  /\ portal' = req[h]
  /\ doubt' = doubt \ {"portal"}
  /\ claim' = Free
  /\ Goto(h, "written")
  /\ UNCHANGED <<belief, managed, backoff, schedule, act, req, loop, drift>>

\* SetVehicle and ClearVehicle.  A success was confirmed by reading the permit
\* back; a failure may have left the change on the permit all the same.
HWrite(h) ==
  /\ hpc[h] = "authorised"
  /\ portal' = req[h]
  /\ doubt' = doubt \ {"portal"}
  /\ Goto(h, "written")
  /\ UNCHANGED <<belief, managed, backoff, schedule, claim, act, req, loop,
                 drift>>

HWriteFails(h) ==
  /\ hpc[h] = "authorised"
  /\ \/ UNCHANGED <<portal, doubt>>
     \/ portal' = req[h] /\ doubt' = doubt \union {"portal"}
  /\ claim' = Free
  /\ Done(h)
  /\ UNCHANGED <<belief, managed, backoff, schedule, loop, drift>>

\* SetPermitActive, and the claim is released whether or not it worked.
HCommit(h) ==
  /\ hpc[h] = "written"
  /\ belief' = req[h]
  /\ doubt' = doubt \ {"record"}
  /\ claim' = Free
  /\ Done(h)
  /\ UNCHANGED <<portal, managed, backoff, schedule, loop, drift>>

HCommitFails(h) ==
  /\ hpc[h] = "written"
  /\ doubt' = doubt \union {"record"}
  /\ claim' = Free
  /\ Done(h)
  /\ UNCHANGED <<record, backoff, schedule, loop, drift>>

------------------------------------------------------------------------------
(* The reconcile loop, one permit's turn in a pass.                         *)

NoSnap == [belief |-> NoPlate, streak |-> 0]

EndPass ==
  /\ lpc' = "idle" /\ snap' = NoSnap /\ want' = NoPlate /\ outcome' = "none"

\* Fault: the snapshot alone decides that an episode is over.
SettleOnSnapshot(b, n) ==
  IF n # 0 THEN streak' = 0 /\ ClearRetry ELSE UNCHANGED backoff

\* settle: the scheduled plate is on the permit, or nothing is scheduled.  The
\* snapshot gates it, the durable row decides it.
Settle(b, n) ==
  IF n # 0 /\ streak # 0 /\ belief = b
  THEN streak' = 0 /\ ClearRetry
  ELSE UNCHANGED backoff

\* ListPermits, at the start of the pass; an expired permit is passed over.
PassStart ==
  /\ lpc = "idle" /\ managed
  /\ lpc' = "pass"
  /\ snap' = [belief |-> belief, streak |-> streak]
  /\ UNCHANGED <<record, backoff, schedule, claim, handlers, want, outcome,
                 drift, doubt>>

\* Fault: a permit with nothing to do is passed over.
PassAgreesQuietly ==
  /\ lpc = "pass"
  /\ Resolved \in {Nothing, snap.belief}
  /\ EndPass
  /\ UNCHANGED <<record, backoff, schedule, claim, handlers, drift, doubt>>

\* The schedule is resolved, and either there is nothing to do ...
PassAgrees ==
  /\ lpc = "pass"
  /\ Resolved \in {Nothing, snap.belief}
  /\ Settle(snap.belief, snap.streak)
  /\ EndPass
  /\ UNCHANGED <<record, schedule, claim, handlers, drift, doubt>>

\* Fault: a parked refusal holds every plate off.
UnparksNever(w) == FALSE

\* unparkIfTargetChanged: a parked refusal is about one plate.
Unparks(w) == parkedFor # Nothing /\ parkedFor # w

\* Fault: the retry window is not looked at.
PassResolveEager ==
  /\ lpc = "pass"
  /\ Resolved \notin {Nothing, snap.belief}
  /\ lpc' = "resolved" /\ want' = Resolved
  /\ UNCHANGED <<record, backoff, schedule, claim, handlers, snap, outcome,
                 drift, doubt>>

\* ... or there is a plate to put on, unless its retry window is shut.
PassResolve ==
  /\ lpc = "pass"
  /\ Resolved \notin {Nothing, snap.belief}
  /\ IF Unparks(Resolved) THEN ClearRetry ELSE UNCHANGED <<window, parkedFor>>
  /\ \/ /\ window' = "open"
        /\ lpc' = "resolved" /\ want' = Resolved /\ snap' = NoSnap
        /\ UNCHANGED outcome
     \/ window' # "open" /\ EndPass
  /\ UNCHANGED <<record, streak, schedule, claim, handlers, drift, doubt>>

\* tryApply: a busy permit is skipped for this tick.
PassSkips ==
  /\ lpc = "resolved" /\ claim # Free
  /\ EndPass
  /\ UNCHANGED <<record, backoff, schedule, claim, handlers, drift, doubt>>

\* The claim is free.  The permit is re-read under it: it may have expired, or
\* hold the wanted plate already, and the claim is given back at once.
PassDrops ==
  /\ lpc = "resolved" /\ claim = Free
  /\ \/ ~managed /\ UNCHANGED backoff
     \/ managed /\ belief = want /\ Settle(belief, streak)
  /\ EndPass
  /\ UNCHANGED <<record, schedule, claim, handlers, drift, doubt>>

\* Fault: the permit is not re-read under the claim.
PassClaimUnread ==
  /\ lpc = "resolved" /\ claim = Free
  /\ claim' = Loop
  /\ lpc' = "applying"
  /\ UNCHANGED <<record, backoff, schedule, handlers, snap, want, outcome,
                 drift, doubt>>

PassClaim ==
  /\ lpc = "resolved" /\ claim = Free
  /\ managed /\ belief # want
  /\ claim' = Loop
  /\ lpc' = "applying"
  /\ UNCHANGED <<record, backoff, schedule, handlers, snap, want, outcome, drift,
                 doubt>>

PassWrite ==
  /\ lpc = "applying"
  /\ portal' = want
  /\ doubt' = doubt \ {"portal"}
  /\ lpc' = "written"
  /\ UNCHANGED <<belief, managed, backoff, schedule, claim, handlers, snap,
                 want, outcome, drift>>

PassWriteFails(kind) ==
  /\ lpc = "applying"
  /\ \/ UNCHANGED <<portal, doubt>>
     \/ /\ kind \in MayHaveLanded
        /\ portal' = want /\ doubt' = doubt \union {"portal"}
  /\ outcome' = kind
  /\ claim' = Free
  /\ lpc' = "book"
  /\ UNCHANGED <<belief, managed, backoff, schedule, handlers, snap, want,
                 drift>>

\* commitActive, then the claim is released before the bookkeeping.
PassCommit ==
  /\ lpc = "written"
  /\ belief' = want
  /\ doubt' = doubt \ {"record"}
  /\ outcome' = "ok"
  /\ claim' = Free
  /\ lpc' = "book"
  /\ UNCHANGED <<portal, managed, backoff, schedule, handlers, snap, want,
                 drift>>

PassCommitFails ==
  /\ lpc = "written"
  /\ doubt' = doubt \union {"record"}
  /\ outcome' = "unrecorded"
  /\ claim' = Free
  /\ lpc' = "book"
  /\ UNCHANGED <<record, backoff, schedule, handlers, snap, want, drift>>

\* bumpFailStreak, counted up to MaxStreak.
Bump == streak' = IF streak < MaxStreak THEN streak + 1 ELSE streak

\* The outcome is booked: the streak, and when the permit is tried again.
PassBook ==
  /\ lpc = "book"
  /\ \/ outcome = "ok" /\ streak' = 0 /\ ClearRetry
     \/ /\ outcome \in {"unrecorded", "failing"}
        /\ Bump /\ window' = "deferred" /\ UNCHANGED parkedFor
     \/ outcome = "busy" /\ Bump /\ UNCHANGED <<window, parkedFor>>
     \/ outcome = "refused" /\ Bump /\ window' = "parked" /\ parkedFor' = want
     \/ outcome = "unserved" /\ window' = "deferred" /\ UNCHANGED <<streak, parkedFor>>
     \/ outcome = "unlinked" /\ UNCHANGED backoff
  /\ EndPass
  /\ UNCHANGED <<record, schedule, claim, handlers, drift, doubt>>

\* A deferral runs out; a parking does not (it is a year long).
WindowElapses ==
  /\ window = "deferred"
  /\ window' = "open"
  /\ UNCHANGED <<record, streak, parkedFor, schedule, claim, handlers, loop,
                 drift, doubt>>

------------------------------------------------------------------------------
(* The drift check: no claim, a reading that takes seconds, a swap.         *)

EndDrift ==
  /\ dpc' = "idle" /\ was' = NoPlate /\ seen' = NoPlate /\ reading' = NoPlate

DriftBegin ==
  /\ dpc = "idle"
  /\ dpc' = "asked" /\ was' = belief
  /\ UNCHANGED <<record, backoff, schedule, claim, handlers, loop, seen,
                 reading, doubt>>

\* ListPermitsComplete.
DriftRead ==
  /\ dpc = "asked"
  /\ dpc' = "read" /\ reading' = portal
  /\ UNCHANGED <<record, backoff, schedule, claim, handlers, loop, was, seen,
                 doubt>>

\* The grid may omit a rego that is there.
DriftMisreads ==
  /\ dpc = "asked" /\ portal # NoPlate
  /\ dpc' = "read" /\ reading' = NoPlate
  /\ UNCHANGED <<record, backoff, schedule, claim, handlers, loop, was, seen,
                 doubt>>

DriftReadFails ==
  /\ dpc = "asked"
  /\ EndDrift
  /\ UNCHANGED <<record, backoff, schedule, claim, handlers, loop, doubt>>

\* The rows are read again and compared with the reading.
DriftJudge ==
  /\ dpc = "read"
  /\ \/ /\ ~managed \/ reading = belief
        /\ EndDrift
     \/ /\ managed /\ reading # belief
        /\ dpc' = IF reading = NoPlate THEN "confirm" ELSE "swap"
        /\ seen' = IF reading = NoPlate THEN belief ELSE NoPlate
        /\ UNCHANGED <<was, reading>>
  /\ UNCHANGED <<record, backoff, schedule, claim, handlers, loop, doubt>>

\* An empty grid entry is believed only of CurrentVehicle, whose answer is a
\* reading of its own.
DriftConfirm ==
  /\ dpc = "confirm"
  /\ \/ portal = seen /\ EndDrift
     \/ /\ portal # seen
        /\ dpc' = "swap" /\ reading' = portal /\ seen' = NoPlate
        /\ UNCHANGED was
  /\ UNCHANGED <<record, backoff, schedule, claim, handlers, loop, doubt>>

DriftConfirmFails ==
  /\ dpc = "confirm"
  /\ EndDrift
  /\ UNCHANGED <<record, backoff, schedule, claim, handlers, loop, doubt>>

\* What adopting plate r does to the doubt.  A reading that is still true of the
\* portal re-joins the two, save for a change that is being made now.
DoubtAfter(r) ==
  IF r # portal THEN doubt \union {"record"}
  ELSE IF MidWrite THEN doubt \ {"record"}
  ELSE {}

\* SetPermitActiveIfUnchanged, against the belief of before the reading.
DriftSwap ==
  /\ dpc = "swap"
  /\ \/ /\ belief = was
        /\ belief' = reading
        /\ doubt' = DoubtAfter(reading)
        /\ dpc' = "hold" /\ was' = NoPlate
        /\ UNCHANGED <<seen, reading>>
     \/ belief # was /\ EndDrift /\ UNCHANGED <<belief, doubt>>
  /\ UNCHANGED <<portal, managed, backoff, schedule, claim, handlers, loop>>

\* holdExternalChange: with a plate scheduled, the plate found is booked as the
\* household's latest instruction, or written over when the booking fails.
DriftHold ==
  /\ dpc = "hold"
  /\ \/ /\ Resolved # Nothing /\ reading # NoPlate
        /\ plan' = reading /\ winner' = Household
     \/ UNCHANGED <<plan, winner>>
  /\ EndDrift
  /\ UNCHANGED <<record, backoff, booking, link, claim, handlers, loop, doubt>>

------------------------------------------------------------------------------
(* Everything else that happens to the permit.                              *)

\* The dashboard adopts its cached plate.  The cache holds a reading up to five
\* minutes old, and in five minutes the portal may have held any plate.
DashboardAdopts(r) ==
  /\ r # belief
  /\ belief' = r
  /\ doubt' = DoubtAfter(r)
  /\ UNCHANGED <<portal, managed, backoff, schedule, claim, handlers, loop,
                 drift>>

\* Somebody changes the plate on the council's website.
PortalEdit(p) ==
  /\ p # portal
  /\ portal' = p
  /\ doubt' = doubt \union {"portal"}
  /\ UNCHANGED <<belief, managed, backoff, schedule, claim, handlers, loop,
                 drift>>

\* The permit expires or is cancelled, or the council renews it.
LapseOrRenew ==
  /\ managed' = ~managed
  /\ UNCHANGED <<portal, belief, backoff, schedule, claim, handlers, loop,
                 drift, doubt>>

\* The process stops and starts: claims, retry windows and everything under way
\* are in memory; the rows and the portal are not.
Restart ==
  /\ claim' = Free
  /\ hpc' = [h \in Handlers |-> "idle"]
  /\ act' = [h \in Handlers |-> "clear"]
  /\ req' = [h \in Handlers |-> NoPlate]
  /\ ClearRetry
  /\ EndPass
  /\ EndDrift
  /\ doubt' = IF MidWrite THEN doubt \union {"record"} ELSE doubt
  /\ UNCHANGED <<record, streak, schedule>>

------------------------------------------------------------------------------
\* What the holder of link g, and the household about it, do.
LinkEvent(g) ==
  \/ RevokeLink(g) \/ NarrowLink(g) \/ DeleteBooking(g) \/ GuestClear(g)
  \/ \E p \in Plates : GuestActivate(g, p) \/ GuestRevert(g, p)

\* What the household, the council and the calendar do.
HouseholdEvent ==
  \/ \E t \in Targets : EditSchedule(t)
  \/ Relink \/ ScheduleMoves \/ OwnerClear \/ LapseOrRenew
  \/ \E p \in Regos : PortalEdit(p) \/ DashboardAdopts(p)

\* What goes wrong.
Failure ==
  \/ \E h \in Handlers : HWriteFails(h) \/ HCommitFails(h)
  \/ \E kind \in FailureKinds : PassWriteFails(kind)
  \/ PassCommitFails
  \/ DriftReadFails \/ DriftMisreads \/ DriftConfirmFails
  \/ Restart

Event == (\E g \in Guests : LinkEvent(g)) \/ HouseholdEvent \/ Failure

\* What the program does next, when nothing is asked of it and nothing fails.
HandlerStep(h) ==
  HAcquire(h) \/ HTimeout(h) \/ HCheck(h) \/ HWrite(h) \/ HCommit(h)

PassStep ==
  \/ PassStart \/ PassAgrees \/ PassResolve \/ PassSkips \/ PassDrops
  \/ PassClaim \/ PassWrite \/ PassCommit \/ PassBook

DriftStep ==
  DriftBegin \/ DriftRead \/ DriftJudge \/ DriftConfirm \/ DriftSwap \/ DriftHold

Work ==
  (\E h \in Handlers : HandlerStep(h)) \/ PassStep \/ DriftStep \/ WindowElapses

Next == Event \/ Work

Spec == Init /\ [][Next]_vars

\* Requests are served, the loop ticks every minute and the keep-warm worker
\* reaches every live session, so each of them takes the steps it can; nothing
\* is assumed of events.
Fairness ==
  /\ \A h \in Handlers : WF_vars(HandlerStep(h))
  /\ WF_vars(PassStep)
  /\ WF_vars(DriftStep)
  /\ WF_vars(WindowElapses)

FairSpec == Spec /\ Fairness

------------------------------------------------------------------------------
(* Properties.                                                              *)

\* The claim is held by exactly the one who is between taking and releasing it
\* (tryApply): no two parties are ever between a council write and its record.
ClaimHeld ==
  /\ \A h \in Handlers :
       claim = h <=> hpc[h] \in {"claimed", "authorised", "written"}
  /\ claim = Loop <=> lpc \in {"applying", "written"}

\* While a confirmed write waits to be recorded, the portal still holds it,
\* unless somebody changed the portal elsewhere meanwhile.
WrittenHolds ==
  "portal" \notin doubt =>
    /\ lpc = "written" => portal = want
    /\ \A h \in Handlers : hpc[h] = "written" => portal = req[h]

\* The belief may be acted upon without asking the council: it is the portal's
\* plate whenever no write is being recorded and nothing has parted the two (an
\* edit elsewhere, an unconfirmed write, a lost record, an outdated reading).
\* reconcilePermit, settle and the pages all read active_registration so.
RecordHonest == ~MidWrite /\ doubt = {} => belief = portal

\* What makes RecordHonest inductive.
RecordInv == ClaimHeld /\ WrittenHolds /\ RecordHonest

\* Nothing is written on a link's authority after its revocation took the claim
\* (claimPermitApplies, authoriseGuestApply).
RevokedLinkWritesNothing ==
  \A g \in Guests :
    hpc[g] \in {"authorised", "written"} => link[g] # "revoked"

\* A pass sets out to write only while the permit's retry window is open: a
\* refused plate is not sent again, a failing one not before its time.
NoWriteInShutWindow ==
  lpc \in {"resolved", "applying", "written"} => window = "open"

\* A pass does not set out to write the plate the council already holds, as long
\* as nothing has parted the record from the portal.  The snapshot may be minutes
\* old by then; the re-read under the claim is what makes this true.
NoPointlessWrite ==
  [][lpc = "resolved" /\ lpc' = "applying" /\ doubt = {} => portal # want]_vars

\* A failure episode is closed only on a plate that is on record now: the one
\* just put on, the one the pass wanted, or the one scheduled (settle).
SettleIsCurrent ==
  [][streak' < streak =>
       outcome = "ok" \/ belief = want \/ Resolved \in {Nothing, belief}]_vars

\* To its readers the permit is a PlateRecord: a change is one event, made when
\* the council confirms it.  The plate being written stands for the belief from
\* then until it is recorded.
Writing ==
  IF lpc = "written" THEN want
  ELSE req[CHOOSE h \in Handlers : hpc[h] = "written"]

RecordBelief  == IF MidWrite THEN Writing ELSE belief
RecordTrusted == IF MidWrite THEN "portal" \notin doubt ELSE doubt = {}

AsRecord == INSTANCE PlateRecord WITH
  belief <- RecordBelief, trusted <- RecordTrusted

ImplementsRecord == AsRecord!RecordSpec

\* Once events stop, the scheduled plate is on the permit for good, unless the
\* council refused that very plate.
Settled ==
  managed /\ Resolved # Nothing =>
    \/ portal = Resolved
    \/ window = "parked" /\ parkedFor = Resolved

\* ... and no failure is counted against it.
EpisodeOver ==
  managed => \/ streak = 0
             \/ window = "parked" /\ parkedFor = Resolved
==============================================================================
