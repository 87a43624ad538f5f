------------------------------ MODULE GuestAccess ------------------------------
(***************************************************************************)
(* Whom one household lets onto its permits (store/guests.go, guest_qr.go,  *)
(* guest_picker.go, guest_requests.go and their handlers in server/).       *)
(*                                                                         *)
(* A grant is a pass for named people, a code shown on the phone, a code    *)
(* printed for the door, or the household's own quick picker; its token     *)
(* rows are the links.  What a link leaves behind is a booking, tagged with *)
(* its token and with no foreign key to it: withdrawing a link means        *)
(* deleting what it has booked, while visitors and the members who decide   *)
(* about them are between two of their own statements.                      *)
(***************************************************************************)
EXTENDS Naturals, FiniteSets

CONSTANTS
  Permits, Cars, Members,
  Visitors,      \* browsers with a link open, one request at a time
  Plates,        \* what a visitor may type
  MaxGrants, MaxTokens, MaxBookings, MaxRequests,  \* bounds: ids ever given out
  GuestCap,      \* MaxLiveGuestOverridesPerPermit
  MaxPending,    \* maxPendingGuestRequests
  None

ASSUME GuestAssumption ==
  /\ {MaxGrants, MaxTokens, MaxBookings, MaxRequests, GuestCap, MaxPending} \subseteq Nat
  /\ Cars \cap Plates = {} /\ None \notin Cars \cup Plates \cup Permits

Kinds == {"pass", "screen", "printed", "picker"}
Addressees == {"guest", "anyone", "nobody"}   \* one named recipient; a code; a name erased
Grant == [kind : Kinds, permit : Permits, cars : SUBSET Cars, all : BOOLEAN,
          enabled : BOOLEAN, expired : BOOLEAN]
Token == [grant : 1..MaxGrants, to : Addressees, revoked : BOOLEAN]
Booking == [token : 0..MaxTokens, permit : Permits, what : Cars \cup Plates,
            request : 0..MaxRequests]   \* request is history: the one it was booked for
Request == [grant : 1..MaxGrants, permit : Permits, plate : Plates,
            st : {"pending", "approved", "denied", "expired"}]
Page == [token : 1..MaxTokens, grant : 1..MaxGrants, kind : Kinds, permit : Permits, cars : SUBSET Cars,
         undone : BOOLEAN, booking : 0..MaxBookings]

VARIABLES
  grants, tokens, bookings, requests,   \* the tables: id -> row, for the rows there are
  given,        \* the last ids given out
  standing,     \* permit -> valid, lapsed (Inactive) or gone
  guestsOn,     \* account_flags.guests_enabled
  roster,       \* the household's saved cars
  page,         \* visitor -> the link as resolved, or None
  decider,      \* member -> the decision under way
  stranded      \* history: bookings left by a stop, or by a roll-back that failed

guestVars == <<grants, tokens, bookings, requests, given, standing, guestsOn, roster, page, decider, stranded>>
rows == <<grants, tokens, bookings, requests, given>>
house == <<standing, guestsOn, roster>>
people == <<page, decider, stranded>>

Idle == [pc |-> "idle", request |-> 0, grant |-> 0, on |-> None, token |-> 0, booking |-> 0]

GuestTypeOK ==
  /\ \A g \in DOMAIN grants : g \in 1..MaxGrants /\ grants[g] \in Grant
  /\ \A t \in DOMAIN tokens : t \in 1..MaxTokens /\ tokens[t] \in Token
  /\ \A b \in DOMAIN bookings : b \in 1..MaxBookings /\ bookings[b] \in Booking
  /\ \A r \in DOMAIN requests : r \in 1..MaxRequests /\ requests[r] \in Request
  /\ standing \in [Permits -> {"valid", "lapsed", "gone"}] /\ guestsOn \in BOOLEAN /\ roster \subseteq Cars
  /\ page \in [Visitors -> Page \cup {None}]
  /\ \A m \in Members : decider[m].pc \in {"idle", "looked", "tagged", "booked", "decided", "undo"}

GuestInit ==
  /\ grants = <<>> /\ tokens = <<>> /\ bookings = <<>> /\ requests = <<>>
  /\ given = [g |-> 0, t |-> 0, b |-> 0, r |-> 0]
  /\ standing = [p \in Permits |-> "valid"] /\ guestsOn = TRUE /\ roster = Cars
  /\ page = [v \in Visitors |-> None]
  /\ decider = [m \in Members |-> Idle] /\ stranded = {}

------------------------------------------------------------------------------
(* The tables.                                                              *)

Keep(table, ids) == [i \in DOMAIN table \cap ids |-> table[i]]
Put(table, i, row) == [j \in DOMAIN table \cup {i} |-> IF j = i THEN row ELSE table[j]]

TokensOf(gs) == {t \in DOMAIN tokens : tokens[t].grant \in gs}
BookedBy(ts) == {b \in DOMAIN bookings : bookings[b].token \in ts}
GrantsWith(kind) == {g \in DOMAIN grants : grants[g].kind = kind}
OnPermit(p) == {g \in DOMAIN grants : grants[g].permit = p}
Offered(g) == IF grants[g].all THEN roster ELSE grants[g].cars

\* sweepLiveGuestOverrides.  What has ended is gone from this table.
Sweep(ts) == bookings' = Keep(bookings, DOMAIN bookings \ BookedBy(ts))

\* Rows of guest_grant go with their tokens and requests (ON DELETE CASCADE).
DropGrants(gs) ==
  /\ grants' = Keep(grants, DOMAIN grants \ gs)
  /\ tokens' = Keep(tokens, DOMAIN tokens \ TokensOf(gs))
  /\ requests' = [r \in {q \in DOMAIN requests : requests[q].grant \notin gs} |-> requests[r]]

\* A token that may still put a car on (createOverrideGuarded, GuestTokenStillLive).
Lives(t) == /\ t \in DOMAIN tokens /\ ~tokens[t].revoked
            /\ grants[tokens[t].grant].enabled /\ guestsOn

GuestRows(p) == Cardinality({b \in DOMAIN bookings : bookings[b].permit = p /\ bookings[b].token # 0})

\* The insert, one statement.  A token of 0 is not asked about.  (The cap on all rows of
\* a permit, the household's own included, is the refusal that a handler may meet.)
Inserted(t, p, what, r) ==
  /\ t # 0 => Lives(t) /\ GuestRows(p) < GuestCap
  /\ standing[p] # "gone" /\ given.b < MaxBookings
  /\ bookings' = Put(bookings, given.b + 1,
       [token |-> t, permit |-> p, what |-> what, request |-> r])
  /\ given' = [given EXCEPT !.b = @ + 1]

------------------------------------------------------------------------------
(* The household.                                                           *)

NewGrant(kind, p, cars, all) ==
  [kind |-> kind, permit |-> p, cars |-> cars, all |-> all, enabled |-> TRUE, expired |-> FALSE]

HasIds(p) == standing[p] = "valid" /\ given.g < MaxGrants /\ given.t < MaxTokens
Gives == given' = [given EXCEPT !.g = @ + 1, !.t = @ + 1]
NewToken(to) == [grant |-> given.g + 1, to |-> to, revoked |-> FALSE]

\* The row and its token, in one transaction.
CreateGuestGrant(p, cars) ==
  /\ grants' = Put(grants, given.g + 1, NewGrant("pass", p, cars, FALSE))
  /\ tokens' = Put(tokens, given.t + 1, NewToken("guest"))

\* The household's picker, if it has one.
PickerGrant == GrantsWith("picker")

CreatePickerGrant(p, cars, all) ==
  /\ PickerGrant = {}
  /\ grants' = Put(grants, given.g + 1, NewGrant("picker", p, cars, all))
  /\ tokens' = Put(tokens, given.t + 1, NewToken("anyone"))

\* A pass for somebody, with at least one car of the roster.
CreatePass(p, cars) ==
  /\ HasIds(p) /\ cars # {} /\ cars \subseteq roster /\ CreateGuestGrant(p, cars)
  /\ Gives /\ UNCHANGED <<bookings, requests, house, people>>

\* The quick picker, one per household.
CreatePicker(p, cars, all) ==
  /\ HasIds(p) /\ cars \subseteq roster /\ (all <=> cars = {}) /\ CreatePickerGrant(p, cars, all)
  /\ Gives /\ UNCHANGED <<bookings, requests, house, people>>

\* A fresh code retires the old ones: what still backs a booking is disabled, so that the
\* booking keeps the row it can be withdrawn through, and its requests are declined.
Replace(old, kind, p) ==
  LET backs == {g \in old : BookedBy(TokensOf({g})) # {}}
      gone == old \ backs
      shut == backs \cup {g \in GrantsWith(kind) : ~grants[g].enabled /\ (kind = "printed" => grants[g].permit = p)}
  IN /\ HasIds(p)
     /\ grants' = Put([g \in DOMAIN grants \ gone |-> [grants[g] EXCEPT !.enabled = @ /\ g \notin backs]],
                      given.g + 1, NewGrant(kind, p, {}, FALSE))
     /\ tokens' = Put(Keep(tokens, DOMAIN tokens \ TokensOf(gone)), given.t + 1, NewToken("anyone"))
     /\ requests' = [r \in {q \in DOMAIN requests : requests[q].grant \notin gone} |->
          IF requests[r].grant \in shut /\ requests[r].st = "pending"
          THEN [requests[r] EXCEPT !.st = "denied"] ELSE requests[r]]
     /\ Gives /\ UNCHANGED <<bookings, house, people>>

CreateQRGrant(p) == Replace({g \in GrantsWith("screen") : grants[g].expired}, "screen", p)
CreatePrintedGrant(p) == Replace(GrantsWith("printed") \cap OnPermit(p), "printed", p)

LiveQRGrant(p) == {g \in GrantsWith("screen") \cap OnPermit(p) : grants[g].enabled /\ ~grants[g].expired}
PrintedGrantForPermit(p) == {g \in GrantsWith("printed") \cap OnPermit(p) : grants[g].enabled}

\* The code on the phone, and the code for the door: shown again while it lives, else a
\* fresh one.
ShowVisitorQR(p) == LiveQRGrant(p) = {} /\ CreateQRGrant(p)
ShowPrintedQR(p) == PrintedGrantForPermit(p) = {} /\ CreatePrintedGrant(p)

\* Bookings of a grant for cars it no longer offers.
Unticked(g, cars) ==
  {b \in BookedBy(TokensOf({g})) : bookings[b].what \in Cars /\ bookings[b].what \notin cars}

\* Editing a pass, or a picker that names its cars.
UpdateGuestGrant(g, cars) ==
  /\ grants' = [grants EXCEPT ![g].cars = cars, ![g].all = FALSE]
  /\ bookings' = Keep(bookings, DOMAIN bookings \ Unticked(g, cars))

NarrowGrant(g, cars) ==
  /\ grants[g].kind = "pass" /\ standing[grants[g].permit] = "valid"
  /\ cars # {} /\ cars \subseteq roster /\ UpdateGuestGrant(g, cars)
  /\ UNCHANGED <<tokens, requests, given, house, people>>

\* A picker that offers every car takes nothing back.
UpdatePickerGrant(g, cars, all) ==
  IF all THEN grants' = [grants EXCEPT ![g].cars = {}, ![g].all = TRUE] /\ UNCHANGED bookings
         ELSE UpdateGuestGrant(g, cars)

UpdatePicker(g, cars, all) ==
  /\ grants[g].kind = "picker" /\ cars \subseteq roster /\ (all <=> cars = {})
  /\ UpdatePickerGrant(g, cars, all)
  /\ UNCHANGED <<tokens, requests, given, house, people>>

OfGuest(g) == {t \in TokensOf({g}) : tokens[t].to = "guest"}

\* AddGuestTokens: whoever has no live link gets a row of their own.
AddGuestToken(g) ==
  /\ grants[g].kind = "pass" /\ standing[grants[g].permit] = "valid"
  /\ \A t \in OfGuest(g) : tokens[t].revoked
  /\ given.t < MaxTokens
  /\ tokens' = Put(tokens, given.t + 1, [grant |-> g, to |-> "guest", revoked |-> FALSE])
  /\ given' = [given EXCEPT !.t = @ + 1]
  /\ UNCHANGED <<grants, bookings, requests, house, people>>

\* The newest row of a person, bound to the fresh link; their others are retired.
Rebind(g) ==
  LET newest == CHOOSE t \in OfGuest(g) : \A u \in OfGuest(g) : u <= t
  IN /\ tokens' = [t \in DOMAIN tokens |-> IF t \in OfGuest(g)
                     THEN [tokens[t] EXCEPT !.revoked = t # newest] ELSE tokens[t]]
     /\ UNCHANGED given

\* Fault: the row is replaced and not bound anew.
RebindAfresh(g) ==
  /\ given.t < MaxTokens
  /\ tokens' = Put(Keep(tokens, DOMAIN tokens \ OfGuest(g)), given.t + 1,
                   [grant |-> g, to |-> "guest", revoked |-> FALSE])
  /\ given' = [given EXCEPT !.t = @ + 1]

NewLink(g) == Rebind(g)

\* Sending a link again, to someone whose link was withdrawn too.  (A picker's new link
\* rebinds its only row, and leaves these tables as they are.)
ResetGuestToken(g) ==
  /\ OfGuest(g) # {} /\ standing[grants[g].permit] = "valid"
  /\ NewLink(g)
  /\ UNCHANGED <<grants, bookings, requests, house, people>>

Siblings(t) == {u \in TokensOf({tokens[t].grant}) : tokens[u].to = tokens[t].to}

\* Withdrawing a person, and not the row they happen to hold.
RevokeGuestToken(t) ==
  /\ ~tokens[t].revoked /\ grants[tokens[t].grant].kind \in {"pass", "picker"}
  /\ tokens' = [tokens EXCEPT ![t].revoked = TRUE]
  /\ Sweep(Siblings(t))
  /\ UNCHANGED <<grants, requests, given, house, people>>

\* A pass, the picker, or all printed codes of a permit; what a member who leaves has made.
Withdraw(gs) ==
  /\ gs # {} /\ Sweep(TokensOf(gs)) /\ DropGrants(gs)
  /\ UNCHANGED <<given, house, people>>

DeleteGuestGrant(g) == grants[g].kind = "pass" /\ Withdraw({g})
DeletePicker(g) == grants[g].kind = "picker" /\ Withdraw({g})
RevokePrintedGrant(g) ==
  grants[g].kind = "printed" /\ Withdraw(GrantsWith("printed") \cap OnPermit(grants[g].permit))
RevokeGrantsBy(gs) == Withdraw(gs)

\* Everything is paused at once, and what the links have booked goes.
PauseGuests ==
  /\ guestsOn /\ guestsOn' = FALSE
  /\ Sweep(DOMAIN tokens)
  /\ UNCHANGED <<grants, tokens, requests, given, standing, roster, people>>

ResumeGuests ==
  /\ ~guestsOn /\ guestsOn' = TRUE
  /\ UNCHANGED <<rows, standing, roster, people>>

\* The links follow the household to another permit.  A code printed for it stays where
\* it is, and a picker of the old permit goes when there is another.
MoveGuestGrants(p, q) ==
  LET stays == IF GrantsWith("printed") \cap OnPermit(q) # {} THEN GrantsWith("printed") ELSE {}
      second == {g \in GrantsWith("picker") \cap OnPermit(p) : GrantsWith("picker") \ OnPermit(p) # {}}
      moved == OnPermit(p) \ (stays \cup second)
  IN /\ standing[p] = "lapsed" /\ standing[q] = "valid" /\ OnPermit(p) # {}
     /\ Sweep(TokensOf(second))
     /\ grants' = [g \in DOMAIN grants \ second |->
          IF g \in moved THEN [grants[g] EXCEPT !.permit = q] ELSE grants[g]]
     /\ tokens' = Keep(tokens, DOMAIN tokens \ TokensOf(second))
     /\ requests' = [r \in {x \in DOMAIN requests : requests[x].grant \notin second} |->
          IF requests[r].grant \in moved /\ requests[r].st = "pending" /\ requests[r].permit = p
          THEN [requests[r] EXCEPT !.permit = q] ELSE requests[r]]
     /\ UNCHANGED <<given, house, people>>

\* A permit goes, with everything that hangs on it.
DeletePermit(p) ==
  LET gs == OnPermit(p)
  IN /\ standing[p] # "gone" /\ standing' = [standing EXCEPT ![p] = "gone"]
     /\ DropGrants(gs)
     /\ bookings' = [b \in {x \in DOMAIN bookings : bookings[x].permit # p} |-> bookings[b]]
     /\ UNCHANGED <<given, guestsOn, roster, people>>

\* A car leaves the roster, every pass that named it, and the bookings made with it.
DeleteVehicle(c) ==
  /\ c \in roster /\ roster' = roster \ {c}
  /\ grants' = [g \in DOMAIN grants |-> [grants[g] EXCEPT !.cars = @ \ {c}]]
  /\ bookings' = [b \in {x \in DOMAIN bookings : bookings[x].what # c} |-> bookings[b]]
  /\ UNCHANGED <<tokens, requests, given, standing, guestsOn, people>>

\* The bookings of another permit, as the household's own.  (With none, nothing changes.)
CopySchedule(p, q) ==
  LET from == {b \in DOMAIN bookings : bookings[b].permit = p}
      kept == {b \in DOMAIN bookings : bookings[b].permit # q}
      nth(b) == given.b + Cardinality({x \in from : x <= b})
      new == {nth(b) : b \in from}
  IN /\ p # q /\ "gone" \notin {standing[p], standing[q]}
     /\ from # {} /\ given.b + Cardinality(from) <= MaxBookings
     /\ bookings' = [i \in kept \cup new |-> IF i \in kept THEN bookings[i]
          ELSE LET b == CHOOSE x \in from : nth(x) = i
               IN [bookings[b] EXCEPT !.token = 0, !.permit = q, !.request = 0]]
     /\ given' = [given EXCEPT !.b = @ + Cardinality(from)]
     /\ UNCHANGED <<grants, tokens, requests, house, people>>

------------------------------------------------------------------------------
(* Visitors: one request of a browser, from the lookup of its link on.      *)

Visiting(v) == page[v] # None

\* resolveGuest and the checks after it, and the cars as they were offered then.
Open(v, t) ==
  LET g == tokens[t].grant
  IN /\ ~Visiting(v) /\ Lives(t) /\ ~grants[g].expired /\ standing[grants[g].permit] = "valid"
     /\ page' = [page EXCEPT ![v] = [token |-> t, grant |-> g, kind |-> grants[g].kind,
          permit |-> grants[g].permit, cars |-> Offered(g), undone |-> FALSE, booking |-> 0]]
     /\ UNCHANGED <<rows, house, decider, stranded>>

\* guestActivate with a car of the page, or a plate typed in; and what an undo pins back.
Book(v, what) ==
  /\ Visiting(v) /\ page[v].booking = 0
  /\ \/ page[v].kind \in {"pass", "picker"} /\ ~page[v].undone /\ what \in page[v].cars \cap roster
     \/ (page[v].kind = "screen" \/ page[v].undone) /\ what \in Plates
  /\ Inserted(page[v].token, page[v].permit, what, 0)
  /\ page' = [page EXCEPT ![v].booking = given.b + 1]
  /\ UNCHANGED <<grants, tokens, requests, house, decider, stranded>>

\* What this link has booked on this permit goes.
DeleteGuestOverrides(v) ==
  /\ page[v].booking = 0 /\ ~page[v].undone
  /\ bookings' = Keep(bookings, {b \in DOMAIN bookings :
                        bookings[b].token # page[v].token \/ bookings[b].permit # page[v].permit})
  /\ UNCHANGED <<grants, tokens, requests, given, house, decider, stranded>>

\* The undo: what was on before is pinned back (Book), unless something else covers now.
guestRevert(v) ==
  /\ Visiting(v) /\ page[v].kind # "printed" /\ DeleteGuestOverrides(v)
  /\ page' = [page EXCEPT ![v].undone = TRUE]

\* The picker takes the rego off, when nothing else is due now, and pins nothing.
guestClear(v) ==
  /\ Visiting(v) /\ page[v].kind = "picker" /\ DeleteGuestOverrides(v)
  /\ page' = [page EXCEPT ![v] = None]

\* The answer: refused, already covered, or after the council call, which asks once
\* more whether the booking is authorised and leaves it where it is either way.
Leave(v) ==
  /\ Visiting(v) /\ page' = [page EXCEPT ![v] = None]
  /\ UNCHANGED <<rows, house, decider, stranded>>

PendingOf(g) == {r \in DOMAIN requests : requests[r].grant = g /\ requests[r].st = "pending"}

\* One statement: a plate that waits already keeps its row.
CreateGuestRequest(g, p, x) ==
  /\ g \in DOMAIN grants /\ given.r < MaxRequests
  /\ \A r \in PendingOf(g) : requests[r].plate # x
  /\ Cardinality(PendingOf(g)) < MaxPending
  /\ requests' = Put(requests, given.r + 1, [grant |-> g, permit |-> p, plate |-> x, st |-> "pending"])
  /\ given' = [given EXCEPT !.r = @ + 1]

\* guestRequest, from a printed code.  (A reserve for those not heard from lately only
\* refuses more often, and a count that fails refuses nobody.)
Ask(v, x) ==
  /\ Visiting(v) /\ page[v].kind = "printed"
  /\ CreateGuestRequest(page[v].grant, page[v].permit, x)
  /\ page' = [page EXCEPT ![v] = None]
  /\ UNCHANGED <<grants, tokens, bookings, house, decider, stranded>>

------------------------------------------------------------------------------
(* Members who decide, on the page or by a mail's link (runDecideRequest).  *)

\* Fault: a request that has been decided already is decided again.
StillThere(r) == r \in DOMAIN requests

IsPending(r) == r \in DOMAIN requests /\ requests[r].st = "pending"

StillPending(r) == IsPending(r)

Settle(r, st) == requests' = [requests EXCEPT ![r].st = st]

Deny(m, r) ==
  /\ decider[m].pc = "idle" /\ IsPending(r) /\ Settle(r, "denied")
  /\ UNCHANGED <<grants, tokens, bookings, given, house, people>>

Look(m, r) ==
  /\ decider[m].pc = "idle" /\ IsPending(r) /\ standing[requests[r].permit] = "valid"
  /\ decider' = [decider EXCEPT ![m] = [pc |-> "looked", request |-> r, grant |-> requests[r].grant,
       on |-> requests[r].permit, token |-> 0, booking |-> 0]]
  /\ UNCHANGED <<rows, house, page, stranded>>

\* GrantTokenID; a token that cannot be read is none.
Tag(m, readable) ==
  LET ts == TokensOf({decider[m].grant})
  IN /\ decider[m].pc = "looked"
     /\ decider' = [decider EXCEPT ![m].pc = "tagged",
          ![m].token = IF readable /\ ts # {} THEN CHOOSE t \in ts : \A u \in ts : u <= t ELSE 0]
     /\ UNCHANGED <<rows, house, page, stranded>>

\* The plate is the one read when the page was opened, the request's own.
BookFor(m, x) ==
  LET d == decider[m]
  IN /\ d.pc = "tagged"
     /\ d.request \in DOMAIN requests => x = requests[d.request].plate
     /\ Inserted(d.token, d.on, x, d.request)
     /\ decider' = [decider EXCEPT ![m].pc = "booked", ![m].booking = given.b + 1]
     /\ UNCHANGED <<grants, tokens, requests, house, page, stranded>>

\* The link went, the permit is full, or the store failed.
BookRefused(m) ==
  /\ decider[m].pc = "tagged" /\ decider' = [decider EXCEPT ![m] = Idle]
  /\ UNCHANGED <<rows, house, page, stranded>>

Approve(m) ==
  /\ decider[m].pc = "booked" /\ StillPending(decider[m].request)
  /\ Settle(decider[m].request, "approved")
  /\ decider' = [decider EXCEPT ![m].pc = "decided"]
  /\ UNCHANGED <<grants, tokens, bookings, given, house, page, stranded>>

\* Someone else was quicker, or the store failed.
ApproveFails(m) ==
  /\ decider[m].pc = "booked" /\ decider' = [decider EXCEPT ![m].pc = "undo"]
  /\ UNCHANGED <<rows, house, page, stranded>>

DeleteOverride(b) == bookings' = Keep(bookings, DOMAIN bookings \ {b})

\* The roll-back, whose own failure is ignored.
Undo(m, done) ==
  /\ decider[m].pc = "undo"
  /\ IF done THEN DeleteOverride(decider[m].booking) ELSE UNCHANGED bookings
  /\ stranded' = IF done THEN stranded ELSE stranded \cup {decider[m].booking}
  /\ decider' = [decider EXCEPT ![m] = Idle]
  /\ UNCHANGED <<grants, tokens, requests, given, house, page>>

\* GuestOverrideStillAuthorised, for a plate.
Authorised(b) ==
  /\ b \in DOMAIN bookings /\ Lives(bookings[b].token)
  /\ grants[tokens[bookings[b].token].grant].permit = bookings[b].permit

\* applyGuestPlate under the claim; what may not go on is taken back out.
Gate(m, read, done) ==
  /\ decider[m].pc = "decided"
  /\ bookings' = IF (read /\ Authorised(decider[m].booking)) \/ ~done THEN bookings
                  ELSE Keep(bookings, DOMAIN bookings \ {decider[m].booking})
  /\ decider' = [decider EXCEPT ![m] = Idle]
  /\ UNCHANGED <<grants, tokens, requests, given, house, page, stranded>>

------------------------------------------------------------------------------
(* Time and the process.                                                    *)

\* A permit ends.  (One that is extended later is another permit here.)
PermitLapses(p) ==
  /\ standing[p] = "valid" /\ standing' = [standing EXCEPT ![p] = "lapsed"]
  /\ UNCHANGED <<rows, guestsOn, roster, people>>

BookingEnds(b) ==
  /\ DeleteOverride(b)
  /\ UNCHANGED <<grants, tokens, requests, given, house, people>>

CodeExpires(g) ==
  /\ grants[g].kind = "screen" /\ ~grants[g].expired
  /\ grants' = [grants EXCEPT ![g].expired = TRUE]
  /\ UNCHANGED <<tokens, bookings, requests, given, house, people>>

\* ExpireGuestRequests.
RequestExpires(r) ==
  /\ IsPending(r) /\ Settle(r, "expired")
  /\ UNCHANGED <<grants, tokens, bookings, given, house, people>>

\* PurgeDecidedGuestRequests, long after what was booked for them has ended.
RequestPurged(r) ==
  /\ ~IsPending(r) /\ \A b \in DOMAIN bookings : bookings[b].request # r
  /\ \A m \in Members : decider[m].request # r
  /\ requests' = Keep(requests, DOMAIN requests \ {r})
  /\ UNCHANGED <<grants, tokens, bookings, given, house, people>>

\* ForgetRevokedRecipients, when no booking of theirs can be left.
NameForgotten(t) ==
  /\ tokens[t].revoked /\ tokens[t].to = "guest" /\ BookedBy({t}) = {}
  /\ tokens' = [tokens EXCEPT ![t].to = "nobody"]
  /\ UNCHANGED <<grants, bookings, requests, given, house, people>>

GuestRestart ==
  /\ page' = [v \in Visitors |-> None]
  /\ stranded' = stranded \cup {decider[m].booking : m \in {n \in Members : decider[n].pc \in {"booked", "undo"}}}
  /\ decider' = [m \in Members |-> Idle]
  /\ UNCHANGED <<rows, house>>

------------------------------------------------------------------------------
HouseholdStep ==
  \/ \E p \in Permits, cars \in SUBSET Cars :
       CreatePass(p, cars) \/ \E all \in BOOLEAN : CreatePicker(p, cars, all)
  \/ \E p \in Permits : ShowVisitorQR(p) \/ ShowPrintedQR(p)
  \/ \E g \in DOMAIN grants, cars \in SUBSET Cars :
       NarrowGrant(g, cars) \/ \E all \in BOOLEAN : UpdatePicker(g, cars, all)
  \/ \E g \in DOMAIN grants :
       AddGuestToken(g) \/ ResetGuestToken(g) \/ DeleteGuestGrant(g) \/ DeletePicker(g) \/ RevokePrintedGrant(g)
  \/ \E t \in DOMAIN tokens : RevokeGuestToken(t)
  \/ \E gs \in SUBSET DOMAIN grants : RevokeGrantsBy(gs)
  \/ PauseGuests \/ ResumeGuests
  \/ \E p, q \in Permits : MoveGuestGrants(p, q) \/ CopySchedule(p, q)
  \/ \E p \in Permits : DeletePermit(p)
  \/ \E c \in Cars : DeleteVehicle(c)

DeciderStep ==
  \/ \E m \in Members, r \in DOMAIN requests : Deny(m, r) \/ Look(m, r)
  \/ \E m \in Members, x \in Plates : BookFor(m, x)
  \/ \E m \in Members : BookRefused(m) \/ Approve(m) \/ ApproveFails(m)
  \/ \E m \in Members, yes \in BOOLEAN : Tag(m, yes) \/ Undo(m, yes) \/ \E done \in BOOLEAN : Gate(m, yes, done)

GuestTime ==
  \/ \E p \in Permits : PermitLapses(p)
  \/ \E b \in DOMAIN bookings : BookingEnds(b)
  \/ \E g \in DOMAIN grants : CodeExpires(g)
  \/ \E r \in DOMAIN requests : RequestExpires(r) \/ RequestPurged(r)
  \/ \E t \in DOMAIN tokens : NameForgotten(t)
  \/ GuestRestart

GuestEvent == HouseholdStep \/ GuestTime \/ \E v \in Visitors, t \in DOMAIN tokens : Open(v, t)

GuestWork ==
  \/ DeciderStep
  \/ \E v \in Visitors : guestRevert(v) \/ guestClear(v) \/ Leave(v)
  \/ \E v \in Visitors, what \in Cars \cup Plates : Book(v, what)
  \/ \E v \in Visitors, x \in Plates : Ask(v, x)

GuestNext == GuestEvent \/ GuestWork

GuestSpec == GuestInit /\ [][GuestNext]_guestVars

------------------------------------------------------------------------------
(* Properties.                                                              *)

\* Somebody the household still lets in: the same person on the same grant.
Answered(t) == /\ t \in DOMAIN tokens /\ guestsOn
               /\ \E u \in Siblings(t) : ~tokens[u].revoked

\* What a link has booked is off as soon as the link is withdrawn, however the two
\* interleave (sweepLiveGuestOverrides, createOverrideGuarded, ResetGuestToken): a tag on
\* a permit in force always leads to somebody who is still let in.
BookingsAnswerTo ==
  \A b \in DOMAIN bookings :
    bookings[b].token # 0 /\ standing[bookings[b].permit] = "valid" => Answered(bookings[b].token)

InHand(b) == \E m \in Members : decider[m].booking = b /\ decider[m].pc \in {"booked", "undo"}
BookingsFor(r) == {b \in DOMAIN bookings : bookings[b].request = r /\ ~InHand(b) /\ b \notin stranded}

\* One request at the door puts one car on, and only if it was approved, whoever else of
\* the household declines or approves it at the same time (runDecideRequest).
OnlyApprovedIsBooked ==
  \A r \in 1..MaxRequests : BookingsFor(r) # {} =>
    /\ Cardinality(BookingsFor(r)) = 1
    /\ r \in DOMAIN requests => requests[r].st = "approved"
==============================================================================
