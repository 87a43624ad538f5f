# A verification of p.stonn

p.stonn keeps the right car on a council parking permit. Households, their
guests and a roster decide which plate a permit should carry; the program
writes it to the council's website through a session it keeps alive, and keeps
a record of what it believes the council holds. A wrong record is a parking
fine that nobody sees coming, because the program never asks the council before
it decides that there is nothing to do.

It is one Go process over one SQLite database. The hard part is not any one
operation but who else is at work meanwhile: a loop that ticks every minute,
request handlers, a drift check, a keep-warm worker, background refreshes and
delivery goroutines change the same few rows, over a council website that
throttles, times out, takes changes without confirming them, and is edited by
people directly. The process may stop between any two of their steps.

This directory holds TLA+ models of these protocols, TLC runs over small
instances, and theorems for every instance checked by the TLA+ proof system.
`PROJECT.json` names, for every definition, the source lines it stands for, and
lists runs, mutants, findings, hazards and theorems.

- [The system](#the-system)
- [The plan](#the-plan)
- [PermitApply](#permitapply-one-permit-and-everybody-who-changes-it)
- [FailureEpisode](#failureepisode-what-the-household-hears)
- [FleetBreaker](#fleetbreaker-pausing-the-traffic-to-a-council)
- [The `sessions` run](#the-sessions-run-what-happens-behind-a-call)
- [The `components` run](#the-components-run-what-surrounds-the-permits)
- [What disagrees with its own documentation](#what-disagrees-with-its-own-documentation)
- [Proved, checked, and neither](#proved-checked-and-neither)
- [Running it](#running-it)

## The system

Paths are below `src/internal/`. "Correct when" is what the models state as
properties.

| component | state | operations | correct when |
|---|---|---|---|
| **Reconcile loop** `scheduler/reconcile.go`, `scheduler.go` | in memory: the apply claim of each permit, retry windows and parkings (`nextTry`, `parked`), kicks; durable: the failure streak | a pass every minute over a snapshot of all permits: resolve, wait for the permit's slot, claim, re-read, write, record, book the outcome; settle | the record is the council's plate; no write in a shut window; a changed schedule is applied in the end, and held only for its slot; an episode ends when its change has landed |
| **Requests** `server/guest_public.go`, `guest_doorqr.go`, `permits.go` | bookings, links | activate, revert, clear: wait for the claim (a revocation for several), re-check authority under it, write, record | a revoked link writes nothing; the claim comes back on every path; nobody waits in a ring |
| **Drift check** `scheduler/drift.go`, `warm.go` | checkpoint per council, backoff and intent per household | read the council's grid, confirm an empty entry, compare-and-swap the belief, hold a foreign change as a booking | an outdated reading never wins over a newer apply; nobody's grid is read over and over |
| **Failure notices** `scheduler/notify.go`, `store/notify.go` | durable: the key of the last notice, the episode; in memory: claims on notices and their holds | judge, claim, deliver in a goroutine, record, mark; close | told when it should be; never twice; the record of it is honest |
| **Notices to a household** `notify/dispatch.go`, `service.go` | in memory: whom an attempt has reached | ask what everybody wants, tell one after the other, hold for the night, try again | on record as told means everybody was; nobody twice; the notice names those it went to |
| **Notification outbox** `notify/outbox.go`, **suppression** `store/suppression.go` | the outbox rows, unrecorded outcomes in memory; the list of addresses | enqueue with a key, drain, retry, give up, prune, suppress | every row is settled; its outcome is its own; nothing is sent twice in one process; a complaint stands |
| **Notification settings** `server/settings.go`, `ntfy_confirm.go` | one row per person, topics | save, new topic, test, tap | nobody is left with a push channel nobody has seen work |
| **Reminders** `scheduler/housekeeping.go` | marks, the gap between two of them | sweep: read, send, mark | each once, spaced |
| **Council sessions** `parking/parking.go`, `store/tenant.go` | the sealed session and its generation, the saved password, per-owner locks; a memo of the household's council | `withSession`, link, reconnect, refresh, retire | a superseded session is neither written over the new one nor used to retire it; the memo is not stale |
| **Reconnection and keep-warm** `scheduler/reconnect.go`, `warm.go` | a queue keyed by household and council, backoffs, reminder marks | queue, recover or retire, defer; warm, remind, expire | an expired session is recovered, retired or reported; never a newer one |
| **Fleet breaker, owner cooldown, governor** `parking/breaker.go`, `owner.go`, `governor.go` | the circuit, its generation, the tally; the row in `breaker_state`; cooldowns; token buckets and slots | allow, success, push-back, persist, restore; acquire | see below; the ceiling holds in every stretch of time |
| **Sign-in circuit** `provider/orikan/authcircuit.go` | failures, deadline, probe | allow, note | it backs off while the service is down and closes when it is back |
| **Council client** `provider/orikan/vehicle.go`, `api.go` | one call | read, edit, write, read again | what is reported as done is on file; one call edits once |
| **Schedule** `model/model.go`, `store/schedule.go`, `server/schedule.go` | bookings, cycle, anchor, rows; a page's Undo | resolve, week at, reanchor, next change; set, grow, shrink, undo, copy, book | the plan survives an edit of the cycle; the next change is foreseen; no row outlives its week |
| **Plate cache** `parking/parking.go` | a plate per permit with a generation and an age | cached read, background refresh, forget | it settles on what is on the permit |
| **Guest links, door codes, picker** `server/guest*.go`, `store/guest*.go` | grants, tokens, bookings, requests, caps | give out, narrow, pause, withdraw; visit, book, revert; ask, approve, deny, expire | a booking answers to somebody still let in; decided once |
| **Accounts, households** `store/accounts.go`, `server/account.go` | members, sessions, cars, settings, consent | invite, accept, leave, remove, delete | sharing hides nothing; one joins the household one was shown |
| **Sign-in to the app** `session/`, `webauth/` | signed cookies, epochs | sign in and out, renew, revoke, restart | a revoked session is over; none outlives its ceiling; the active stay in |
| **Operator** `scheduler/scheduler.go`, `server/mailbox.go` | alert throttles, the tally of ended sessions; mails and threads | raise, deliver; receive, answer | alerts are spaced and not muted unheard; a letter is filed once, in its thread |
| **Limiters** `server/contact.go`, `notify/throttle.go` | hits per key | allow, prune, overflow | who is refused stays refused for as long as the page said |
| **Migrations, logs, pages, mail formats, encryption, configuration** | - | - | not modelled, see the end |

How they meet: the loop, the requests and the drift check share a permit's row
and its apply claim (one module, since that sharing *is* the problem). The loop
hands failures to the notices through the streak and to the breaker through
every council call. The breaker turns calls into `ErrCouncilBusy`, which the
loop counts as a failing tick. Sessions are shared by all council calls of one
household and tagged with a generation, which the recovery queue checks. Links
and bookings reach the loop as the schedule's winner; a revocation takes the
claims of all permits its link reaches before it deletes what it booked.

The behaviours that are hard, in the order in which they could hurt: two
writers of one permit; a reading that is old when it is used; authority that is
withdrawn between its check and its use; a write that lands and cannot be
recorded; a session that is saved over its successor; a pause that is lost, or
brought back, by a restart; a notice that went out and is not known to have done
so; two tabs of one household that each read before the other wrote; a retry
window that keeps out what it should let in. `PROJECT.json` has the full list,
each at its line.

## The plan

Each module keeps its parameters as constants with a named assumption, has one
action per operation, uses no recursive operator of its own, and keeps
`...Proofs` apart.

| | module | models | run | status |
|---|---|---|---|---|
| 1 | `PermitApply`, `PlateRecord` | loop, requests, drift check, household, restarts, one permit; the record it implements | `permit_safety`, `permit_liveness` | checked, proved |
| 2 | `FailureEpisode` | streak, notices, deliveries, close-out | `episode_safety`, `episode_liveness` | checked, safety proved |
| 3 | `FleetBreaker` | circuit, calls through it, its row | `breaker_safety`, `sessions` | checked, safety proved |
| 4 | `SessionRecovery`, `SessionRegister` | `withSession`, link, recovery queue, keep-warm; the register it implements | `sessions` | checked, proved |
| 5 | `Outbox`, `Suppression` | the queue, and the list it asks | `sessions` | checked, safety proved |
| 6 | `AuthCircuit`, `PlateReadings` | a council's sign-in circuit; the plate cache | `sessions` | checked, safety proved |
| 7 | `GuestAccess`, `Households`, `ApplyClaims` | links, bookings, requests; membership; several claims | `components` | checked, safety proved |
| 8 | `Schedule`, `RolloverSpread` | the roster and its edits against a walk through every slot; the pause before a change | `components` | checked, safety proved |
| 9 | `ApplyNotice`, `Fanout`, `Channels`, `QuietHours`, `Nudges` | who is told what, when and how | `components` | checked, safety proved |
| 10 | `CouncilWrite`, `Governor`, `DriftPacing`, `TenantMemo` | one edit at a portal, the ceiling, the rounds; a household's council | `components` | checked, safety proved |
| 11 | `WebSessions`, `Limiters`, `OperatorAlerts`, `Mailbox` | sign-in, limiters, the operator | `components` | checked, safety proved |

Every invariant and every action property of a passing run is now stated by a
theorem. Still to be written: `PermitApply` with `PlateReadings` in place of the
nondeterministic `DashboardAdopts`; `SessionRecovery` with two councils of one
household, sharing `FleetBreaker`'s outcomes as its failures. A theorem worth
adding after that is an abstract specification of the queue of notices (a row is
pending, then one of sent, dead, dropped or pruned, with one copy handed over per
process) that `Outbox` implements step by step: `OutboxInv` has what its
conditions need.

## PermitApply: one permit and everybody who changes it

**State.** `portal` is the council's plate, `belief` the row's
`active_registration`, `managed` whether the row exists and is live. `claim` is
`Scheduler.applying[permit]`; `window` and `parkedFor` the retry window;
`streak` the durable failure streak. The override table is kept as its winner
(`winner`) together with each link's own entry (`booking`) and what the
household's own entries come to (`plan`), since nothing the program decides
tells two tables with the same winner apart until an entry is removed, and then
the next winner is any that it could be (`WinnersWithout`). `hpc`, `lpc` and
`dpc` are the program counters of the handlers, the loop and the drift check,
with the values each has read and not yet used. `doubt` is history: the program
does not have it. So are `landed` and `kicked`, which `MC_PermitApplyHistory`
adds for the two comments it is about.

**Actions.** A handler is `GuestActivate`/`GuestRevert`/`GuestClear`/
`OwnerClear` (its transaction, then `Await`), `HAcquire` or `HTimeout`, `HCheck`
(authority re-read under the claim), `HWrite` or `HWriteFails`, `HCommit` or
`HCommitFails`. A pass is `PassStart` (the snapshot), `PassAgrees`/`PassResolve`,
`PassSkips`/`PassDrops`/`PassClaim` (the claim is tried, the row re-read),
`PassWrite`/`PassWriteFails`, `PassCommit`/`PassCommitFails`, `PassBook`. A
drift check is `DriftBegin`, `DriftRead`/`DriftMisreads`/`DriftReadFails`,
`DriftJudge`, `DriftConfirm`, `DriftSwap`, `DriftHold`. Every boundary between
two of them is a place where the code does I/O or releases a lock. A write that
fails may have landed (`MayHaveLanded`), the grid may leave out a plate, the
dashboard may adopt any plate its five-minute cache may hold.

**Runs.**

- `permit_safety`: two plates, one link, the owner, at most three events
  (requests, edits, failures, restarts); everything the program does of its own
  accord is unbounded. `RecordHonest` (with its strengthening `RecordInv`):
  belief and portal agree unless one of four named things has parted them.
  `RevokedLinkWritesNothing`, `NoWriteInShutWindow`, `NoPointlessWrite` (the
  re-read under the claim), `SettleIsCurrent` (the re-read in `settle`), and
  `ImplementsRecord`: read with the plate being written as its belief, the
  permit is a `PlateRecord`, where a change moves portal and belief at once.
- `permit_liveness`: after any two events, `Converges` (the scheduled plate is
  on the permit for good, unless the council refused that plate), `EpisodeEnds`
  and `ClaimReturns`.
- `stale_reading`, `lost_kick`: see the findings.

**Bounds.** Two plates are what "changed and changed back" needs; one link and
the owner give two handlers beside the loop and the drift check, all of which
can be between their steps at once. Three events reach, for instance, a
request, a revocation and a failed record; each known interleaving hazard needs
at most three. `MaxStreak` 1 suffices because this module only asks whether the
streak is zero.

**Fairness.** Weak fairness of each handler, the pass, the drift check and the
end of a deferral: requests are served, the ticker ticks, the keep-warm worker
reaches every live session, a deferral is a duration. Events get none.
`MC_PermitApplyLive` adds the pace of the two loops (`PassesPerDrift` = 2: a
pass is every minute, a check hours after the last): without it there is a
behaviour in which every drift check reads the portal in the middle of the
apply that the previous one caused, adopts the plate being replaced, and so
makes the next pass put it back, for ever. The code excludes it by timing alone.

**Left out.** Deletion of the row, the spreading of a rollover over minutes
(`spreadElapsed`; it delays a pass), councils whose permits cannot be cleared,
the watchdog, an unlinked household (a stutter), a database error while the
streak is bumped. `DriftHold` after `PassCommitFails` shows that a plate
p.stonn wrote itself and could not record is later found by the drift check and
booked as the household's own choice; the code makes no promise about it.

## FailureEpisode: what the household hears

**State.** `want`, `on`, `parked`, `streak`, `failed` are the permit as the
notices see it; `key` is `permit_notify.notified_key`, `told`/`urgent` the
episode columns. `job` is how far the delivery goroutine of each key has come,
`held` the five-minute holds. `pc`, `cause`, `asked`, `epi` are the pass with
the episode as it read it. `heard`, `ever`, `slipped` are history.

**Actions.** `ApplyFails(c)` bumps the streak and, at the threshold of the cause,
reads the episode; `Judge` is `notifyFailure` with its adoption of a notice of
an earlier build (`Adopts`); `Ask` and `Claim` are `notifyUserThen` up to the
goroutine, which is `Recheck`, `Deliver`/`DeliverPart`, `Record`/`RecordFails`,
`Mark`/`MarkFails`. `Settle`, `Close` and `ApplySucceeds` end the episode.
`DriftAdopts` is the path that also forgets the key. A refused change parks the
permit when the pass ends, whatever became of its notice.

**Runs.** `episode_safety`: `EpisodeHonest` (the episode claims only what was
delivered in full), `HeardIsOnRecord` (a household that heard has an episode,
so that it also hears the end), `NoRepeat` (what is on record is not delivered
again). `episode_liveness`: `FailureIsTold`. `silent_episode` and
`untold_refusal`: see the findings.

**Bounds.** Two plates, one date, thresholds 2/3/2/2 in place of 3/15/4/4 (only
their order, and that each is passed with the streak of another cause, matters),
at most two notices on their way at a time, two events (one for liveness). The
state in which a notice of one episode is on its way while the next one opens
is reached with one move of the schedule.

**Fairness.** The loop ticks, a goroutine runs to its end, a hold elapses.
These runs set `CHECK_DEADLOCK FALSE`: with events used up and the plate on
record, or its refusal parked, nothing is left to do, and that is how a quiet
permit looks.

**Left out.** Emails to drivers, the operator's copy and its throttle,
`reportUnresolvable`, the key of an unavailable council, the pacing of attempts
(a failing tick may come at any time). Reading the key and adopting it are one
step in `Judge`: the loop is one goroutine and only deliveries run beside it. A
delivery to a household that switched notices off counts as made, as it does
in the code. A soft notice that is repeated after a plate has come and gone
(A, B, A) is documented behaviour and no property speaks against it.

## FleetBreaker: pausing the traffic to a council

**State.** A deadline is kept as the ticks left to it, so that a run's states
do not grow with its age: `circuit`/`left` are `openUntil`, `gen` the
generation, `tally` how long each owner's push-back still counts. `resting` are
the owners in a cooldown of their own. A call is `<<owner, "session">>` (one at
a time per owner, `ownerLock`) or `<<owner, "login">>` (one at a time
altogether, `loginFlow`); `permit` is what `allow` gave it, `snap` what
`persistBreaker` read and is about to store, `saved` the row. `opened`,
`lease`, `asked`, `unsaved`, `blind` are history.

**Actions.** `AllowClosed`, `AllowProbe`; the answers `SucceedQuietly`, `Resume`,
`PushedBack(c, r)`, `Neutral`; `Snapshot`, then `Save` (the upsert guarded by
the generation) or `SaveFails`; `Tick`, `RestEnds`; `Restart` from the row, or
`RestartBlind` when it cannot be read. The circuit is read again by `Snapshot`
after its lock was released by the answer, and stored a step later: this is
where saves overtake each other.

**Runs.** `breaker_safety`: `OnlyFreshProbeCloses` (only the success of a call
let through since the circuit last opened closes it), `NoStampede` (two probes
of one process are an interval apart, a closing and opening in between
included), `RowIsCurrent` (when nobody is about to save and no save failed, the
row is of the circuit as it is; a restart neither loses a pause nor brings one
back). `sessions` has the same module for `CircuitsClose`: when the edge serves
again, the circuit closes. `retry_after`: see the findings.

**Bounds.** Two owners with two calls each and `Threshold` 2 (the code: three
owners), so that opening needs distinct owners and calls from before the
opening are still out; at most three push-backs, neutral answers, failed saves
and restarts; cooldown 2, cap 3, probe interval 1 tick, and a Retry-After
beyond the cap. The liveness property is checked with one owner, `Threshold` 1
and three events; its two calls overlap.

**Fairness.** Time passes, calls are answered, a rest ends, and some household
always has a call to make, which keep-warm sees to; push-backs are events and
get none, so the property says what happens once the edge serves again.

**Left out.** How an owner's cooldown grows with its strikes (`resting` lasts
as long as it lasts), the count of traffic. The lease of a probe
starts anew with a process: a restart during one may send a second. A row that
could not be read at the start (`RestartBlind`) leaves the circuit at generation
zero, and the guard of the upsert then turns down every save until the
generation has caught up; `RowIsCurrent` excludes it by `blind`, and the code
only says that it starts closed. A probe that is pushed back after its interval
has run out does not re-open the circuit unless other owners count too
(`breaker.go:105` says it does "because openUntil is then in the near future");
the next call is then the next probe, an interval later at the earliest, which
is what `NoStampede` promises.

## The `sessions` run: what happens behind a call

`MC_Sessions` puts five modules side by side. They share no variable; a
behaviour moves one of them (`part`), so their states add up instead of
multiplying, and one run can hold a fairness condition and a property for each.
At most `MaxEvents` = 4 events happen (three for the breaker): failures, and what
the household, the council or the disk does. The program's own steps are free.

**`SessionRecovery`** has the row of `council_session` (`row`), and who changes
it: the household's link (`StartLink`, `LinkSaved`, `LinkDone`), `Unlink`,
`ForgetSavedPassword`; a call (`Begin`, the council's answer, `CallSaves` as
`UpdateTenantCookie`, `CallReports` as `queueReconnectItem`); the worker
(`WorkerTakes`, `WorkerReads`, the sign-in, `WorkerSaves`, `WorkerRetires`);
keep-warm (`WarmLists` ... `WarmRenews`); and a restart, which leaves the row
alone. Each keeps what it read until it uses it. `row.latest` and `consent` are
history: whether the cookie descends from the last sign-in, and what the
household wants. Only equality with the row's generation is ever asked, so that
six generations, of which a new one is one nobody holds, are as many as any.
`HouseholdsWord`: nothing in the background brings back a session or a password
the household ended. `ImplementsRegister`: read as a `SessionRegister`, the row
is given up only when dead or unused, recovered only with a saved password, and
never renewed with the cookie of an older sign-in. `DeadIsResolved`: an expired
session is in the end recovered, or ended so that the household is asked.

**`Outbox`** with **`Suppression`**: rows, and one worker (`stage`) that settles
the outcomes it owes, reads a batch, looks at the list, sends, and records. The
disk may refuse any write; a restart forgets `parked`. `OutboxHonest` joins
`SentOnce`, `SentIsTrue`, `NoTwins`, `ComplaintStands`; `RowsSettle` says that no
row waits for ever. Two rows, one address, two attempts: a pair of rows is what
a key, and a row deleted under the worker, need. (A push is a mail to an address
that is never listed.)

**`AuthCircuit`**: failures, deadline, one probe, with requests from before it
opened still under way; `BacksOff`, and its half of `CircuitsClose`. It needs
that a request ends within the client's timeout (`Flight` < `ProbeBase`), and
`AuthTickFreely` is the fault that drops this.

**`FleetBreaker`** as above, for the other half of `CircuitsClose`.

**`PlateReadings`**: the cache of one plate, its background reader and a writer
that meet at the council one after the other and store in any order. `PagesSettle`:
once nobody changes the plate any more, the pages come to show it.

**Fairness.** Requests end within their timeouts, the loops go round, backoffs
end, time passes, pages are looked at, the disk is seen to: weak fairness. Strong
fairness in one place, that a mail which is tried again and again is at last
taken or refused; `RowsSettle` needs it while the disk is what fails, since an
attempt that could not be recorded is repeated. Events get none.

**Left out.** Several councils of one household (a row each, independent but for
the memo, `TenantMemo`), the daily budget of automatic sign-ins, how warm-ups are
spaced, and the pacing of the worker. The reminder's mark is stored before the
message is sent (`WarmMarks`, `WarmSent`): a stop between the two loses the
message, and the code promises nothing else.

## The `components` run: what surrounds the permits

`MC_Components` does the same for nineteen parts, safety only. Where a part has
many initial states, the others hold it at one (`Aside`). Ten properties are
checked besides the types; each joins statements of several modules, which keep
their own names and comments.

**`GuestAccess`** (`BookingsAnswerTo`, `OnlyApprovedIsBooked`). The tables of
grants, tokens, bookings and requests, and every statement of `store/guests.go`,
`guest_qr.go`, `guest_picker.go`, `guest_requests.go` and of the handlers: passes,
door codes and the quick picker are made, replaced, narrowed, moved, paused and
withdrawn; a visitor opens a link, and books, reverts or asks a step later; two
members decide one request, each in the steps of `runDecideRequest` (look, tag,
book, approve or undo). A booking has no foreign key to its token: that it never
outlives the link is what the sweeps and the guard of `createOverrideGuarded`
have to see to between them. `stranded` excludes bookings left by a stop between
booking and approving.

**`Households`** (`SharingHidesNothing`, `PrefsAreTheirs`, `JoinsAsShown`). Three
people, two requests at a time, each of which asks whose account it works on and
writes later.

**`Schedule`** (`RowsInCycle`, `ChangeIsForeseen`, `GrowKeepsPlan`, `UndoIsExact`).
The arithmetic of weeks and anchors as functions, the edits in two steps each
(what the handler read, then its transaction), and an Undo that stays on a page.
`NextChange`, which looks at midnights and ends of bookings only, is compared
with a walk through every moment. A week has one day of two slots, a cycle up to
four weeks: midnight, the end of a week and of the cycle, and both signs of the
week number are all reached. The roster and the bookings are edited in separate
behaviours (`part`); copying weeks onto a permit, which makes bookings, is in both.
The longest cycle is even, as the code's is: from two weeks on, a cycle grows to it
by repeating the weeks it has, and only an even number of weeks keeps the plan.

**`RolloverSpread`** (`HeldBriefly`): for every hash, fleet, window and length of
booking up to the bounds. **`QuietHours`** (`HeldForTheNight`): for every window
and hour of a day of twelve. **`Limiters`** (`StaysBarred`): both maps, with
pruning and overflow; three keys for two places. A key's hits are noted in the
order in which they came, so those still in the window are the last ones (`Live`),
and the first of these says when the next is let in: `contact.go:132` reads it so.
**`OperatorAlerts`** (`AlertsSpaced`, `QuietMeansHeard`): claims before delivery, mute after.
**`Governor`** (`UnderCeiling`): `since` is a freely chosen start, so that the
ceiling is about every stretch of time; `doubled` counts the time that a late
asker has counted twice, see below.

**`ApplyNotice`** (`OneCopyEach`, `RecordMeansTold`), **`Fanout`** (`ToldAsNamed`),
**`Channels`** (`NeverUnheard`). An attempt tells two members one after the other,
over mail, push or both, and is repeated; wishes change meanwhile. In `Fanout`
names and copies come from two readings. In `Channels` every form writes the
whole row back, and a tap on a phone stamps it in between. `astray` leaves one
thing out of `NeverUnheard`: a form mints a topic from the row it read
(`settings.go:378-446`) while the test push goes to the topic of the row as it is
by then (`dispatch.go:514-553`), so that the tap may answer for another topic
than the form saves.

**`Nudges`** (`OnceEver`, `Spaced`): the sweep sends and then marks; a stop or a
lost outcome is `~sure`. What the sweep may mention (invitations, passes, notes
that are sent once) are three disjoint sets. **`Mailbox`** (`MailIsFiledOnce`):
letters come repeatedly and in any order, an answer is out before it is on record.

**`CouncilWrite`** (`DoneIsOnFile`, `LandsOnce`): one call against a portal that may
ignore the write, take it and lose the answer, or show it late. `disturbed` is
set when the household writes on the council's own pages meanwhile, or the first
read was behind: the call cannot tell either. **`DriftPacing`** (`ReadsApart`): two
councils, one household's backoff. **`ApplyClaims`** (`NoRing`): three claimants,
three permits; the order of the claims is what keeps the ring open.

**`WebSessions`** (`RevokedStaysOut`, `EndsInTime`, `ActiveStaysIn`): one browser of
a person, revocations stored and then known in memory, restarts; a cookie lives
four ticks, a session six. **`TenantMemo`** (`MemoFollows`): two readers and two
writers of a household's council, with the number by which a reader sees that it
was overtaken.

**Bounds.** Four events (two while notes are sent and a notice goes out, one
between its attempts, three under the ceiling, five about sign-ins), ids and rows
up to two where a pair is what can go wrong, two permits for what moves between
them. Every fault marked in the modules is found within them. The run uses
symmetry in `Members`; no part compares or orders them, and no property of the
run is a liveness property.

## What disagrees with its own documentation

Each is a run that expects a violation; the quotation is in `PROJECT.json`.

- `stale_reading`: the drift check swaps the belief against the *plate* of
  before its reading. When an apply puts that plate back during the reading (A,
  B, A), the swap succeeds with the outdated B.
- `lost_kick`: an edit or a re-link during an attempt clears the retry window;
  the refusal of that attempt then parks the permit, and the retry the user
  asked for does not happen.
- `silent_episode`: after the close-out of a change that went away, the same
  change failing again is taken for the one the close-out was about, and nobody
  is told.
- `untold_refusal`: a refused change is parked though its notice was lost, and
  no pass comes back to it to send the notice again.
- `retry_after`: the push-backs of calls that were in flight set the deadline
  anew, so a later one without a Retry-After shortens the pause that an earlier
  one asked for.

Others were met while modelling. They have no run; where a property would
trip over one, a history variable leaves it out, and is named here.

- `store/tenant.go:638`: `TenantIDFor` looks at the number and stores the answer
  in two steps. A whole write between them leaves the old council remembered
  until the next one (`overtaken`).
- `session/session.go`: a renewal that was checked before a revocation and
  issued after it carries the new epoch (`raced`); overlapping revocations of one
  person that are known out of order lower the epoch again (`inOrder`).
- `parking/governor.go`: `tryTake` reads the clock before it has the lock. A late
  asker sets the bucket back, and that time is counted twice (`doubled`), although
  line 171 says it "can never exceed either" ceiling.
- `server/guest_doorqr.go`: a stop, or a failed roll-back, between booking and
  approving leaves a booking of a request that nobody approved (`stranded`).
- `scheduler/drift.go:133`: what a guest's page asks for is kept by household. The
  round of another of its councils, or one that read its grid before the page
  saw the plate, clears it.
- `store/accounts.go`: a member who is added while their inviter accepts an
  invitation of their own makes a chain of two households; `createGuestGrant`
  and `Link`, still on their way after the removal of a member or the deletion
  of an account, write for an account that is gone; `RemoveMembership` removes
  whatever row there is by then, accepted or not.
- `server/schedule.go:947`: of two Undos on two pages, the older one pressed last
  puts its weeks back after a gap (`UndoIsExact` asks of the last removal only).
- `parking/breaker.go`: when the row cannot be read at the start, saves are
  turned down until the generation has caught up (`blind`).
- `scheduler/housekeeping.go`: the invite reminder is marked as sent when one side
  could not be reached; `MarkInviteReminded` is said to be conditional on more
  than its `WHERE` asks.
- `notify/dispatch.go:262`: the names in a notice and its copies come from two
  readings of the preferences (`steady`), and the copies stop at the first error.
- `provider/orikan/vehicle.go`: an edit that changes nothing but the state is
  reported as done on sight of the plate; a session that expires on the read
  after the write that landed is reported as expired.
- `server/contact.go`: on overflow the limiter forgets keys that are below their
  limit, who may then begin anew.

## Proved, checked, and neither

All theorems hold for every value of the constants that their assumptions
admit; each was model-checked first.

- `PermitApplyProofs`. `RecordInv` is the inductive invariant: `RecordHonest`
  alone is not inductive, since that recording a write re-joins belief and
  portal needs `WrittenHolds` (the portal still has the plate that a party is
  about to record), and that needs `ClaimHeld` (no second party is writing).
  From it follow `RecordTrue`, `HonestRecord`, `Refinement` (every step is one
  event of `PlateRecord` or a stutter) and with it `TrustedRecord`;
  `RevokedLinks`, `ShutWindow`, `SettleCurrent` and `PointlessWrite` each add
  what they need. Assumption: the distinguished constants are distinct.
- `FailureEpisodeProofs`. `Honest` needs that the key on record and every
  delivery past its sending were delivered too; `OnRecord` that a delivery which
  was made is either on its way to its mark, marked, or counted as slipped;
  `NotRepeated` that a delivery being sent is not of the key on record: only
  its own goroutine stores that key.
- `FleetBreakerProofs`. `RowCurrent` rests on two facts, by generation: every
  snapshot is of the present circuit or of an earlier generation, and whoever
  made the present one is about to store it, has done so, or failed
  (`OnItsWay`); the second is why closing has to be a new generation.
  `FreshProbe` needs that permits carry no later generation than the circuit's;
  `NoBurst` that the deadline of an open circuit is never before the end of the
  last probe's interval, which uses that a cooldown is no shorter than that
  interval (`BreakerAssumption`; 5 minutes and 30 seconds in the code).
- `SessionRecoveryProofs`. `SessionInv` adds to `HouseholdsWord` what a
  generation tells whoever holds it, for as long as the row has that one:
  `CallKnows` (from which sign-in the cookie is, and that a call that was told so
  has met an expired session), `ItemKnows` and `WorkKnows` (the session has
  expired, and once the row was read again, a password is saved). That a new
  generation is nobody's (`FreshGeneration`) makes it inductive.
  `HouseholdObeyed` follows, and `Implements`: each conditional save or deletion
  finds the guard of the register's event in what its holder knows. Assumption:
  the distinguished constants are no rows and no entries.

- `SessionsProofs`, which is about `MC_Sessions` as a whole (`SessionsTyped`,
  `SessionsSafe`) and about two parts of it alone.
  `OutboxInv`: the worker knows rows by their ids, so `OutboxHonest` needs what
  stays true of a row while its id is in the worker's hands: the id was given out
  and is not given out again (`IdsGiven`), nobody else closes the row
  (`StillOpen`), an attempt is left (`TriesLeft`), what this process handed over
  is marked or about to be (`SentIsKnown`), and an outcome that says sent is of a
  row that was (`OutcomeIsTrue`).
  `AuthInv`: `BacksOff` rests on a request that was under way when the circuit
  opened having ended before the next probe starts (`OverByThen`: its age and
  what is left of the pause make a probe interval, which uses that a request lasts
  less than the shortest pause) and on a probe being alone (`Alone`).
- `GuestAccessProofs`. `BookingsAnswerTo` and `OnlyApprovedIsBooked` are about rows
  of four tables that name each other without a foreign key. `GuestInv` adds that
  whatever names a row names an id that was given out (`GivenOut`), what a member
  in the middle of a decision knows of the rows they hold (`DecidersKnow`), that
  link, grant and permit belong together for as long as the permit is in force,
  since grants move from a lapsed permit only (`InPlace`), and that a request has
  left one booking at most (`OnePerRequest`).
- `PeopleProofs`. What is read here is used after others have moved on; each
  invariant says what still holds of it then. `HouseholdInv` (whose account a
  request was let in for); `ChannelInv` (the row, and every row a form is about to
  write, reaches somebody); `NoticeInv` (whoever is remembered was told, and
  whoever an attempt without a failure has passed was too: `Fated`); `FanoutInv`
  (what the notice says and what has gone out, for those done and those to come);
  `WebInv` (the epoch of a cookie is no later than that of its sign-in, and
  revocations known in order leave the last in force); `MemoInv` (a remembered
  council is right unless a writer is on its way to say that it is not).
- `ComponentsProofs`, about `MC_Components` as a whole: a step of it is a step of
  one part and leaves the others alone (`PartsMove`), so that the invariants of
  the parts hold together (`PeopleInvariant`, `AllInvariant`). Besides those
  above, it has, for each part in a section of its own:
  - *rounds* (`DriftInv`): a household read lately is kept from another reading by
    a backoff, or by a fresh checkpoint that nobody asked to overrule;
  - *alerts* (`AlertInv`): the mute and the time since the operator last heard add
    up to the interval, and only one delivery is under way;
  - *claims* (`ClaimsInv`): whoever has a claim has only higher permits yet to
    claim, so whoever waits for the highest permit that anybody waits for does not
    wait for somebody who waits: no ring, of any length, among any number;
  - *nights and slots* (`QuietInv`, `SpreadTypeOK`): arithmetic of windows;
  - *an edit at the portal* (`WriteInv`): it is sent once, from a reading that was
    true, and a reading that is behind is behind the wanted plate only;
  - *the ceiling* (`GovernorInv`): an account per bucket; what was taken since any
    moment and what the bucket holds is no more than the burst, what has accrued,
    and what late askers had counted twice;
  - *letters* (`MailInv`): an answer that is out is not on file yet and is to join
    the thread of a row that is;
  - *reminders* (`NudgesInv`): a note that went out is marked, or about to be, and
    one that the sweep has read and not come to has not been sent;
  - *the schedule* (`ScheduleInv`): a length to grow to was computed from the
    cycle that was read (`GrowFits`), an Undo holds what the removal took
    (`OfferFits`). `ChangeIsForeseen` is proved by showing that between two moments
    that `NextChange` looks at the resolution does not change (`QuietBetween`,
    `SeenAlike`); `GrowKeepsPlan` by showing that the longer cycle repeats the
    shorter one (`EvenCycle`, `RepeatsItsWeek`);
  - *limiters* (`LimiterInv`): a refused key holds live hits only, so that neither
    a sweep nor an overflow takes anything from it.

What is assumed of the constants stands by name in the module that declares them
(`...Assumption`), and TLC evaluates it on each run: that distinguished values are
distinct, that ids and times are numbers, that sets are disjoint or finite where
the code's are, and the proportions that the code's own figures have (a cooldown
no shorter than a probe, a session no shorter than its cookie, a request shorter
than the shortest pause, an even number of weeks in the longest cycle).

Only model-checked, on the bounds above: everything that must eventually happen
(`Converges`, `EpisodeEnds`, `ClaimReturns`, `FailureIsTold`, `DeadIsResolved`,
`CircuitsClose`, `PagesSettle`, `RowsSettle`), since liveness under fairness and
`ENABLED` are beyond the prover; and the violations. So are recursive operators,
`SelectSeq` among them: the modules cut sequences with `SubSeq` and count with sets.

Every property has a mutant in `PROJECT.json`: a plausible mistake in a mapped
definition under which TLC finds it violated in the same run. A definition
marked `\* Fault:` is such a mistake in the definition that follows it, and is
used by no specification. A property that joins several statements has one
mutant on record; the other faults in those modules were tried in the same way,
one for each statement.

## Not modelled

- Pages and what renders them, mail formats, translations, parsing of the
  council's pages, encryption, configuration: they keep no state that a property
  of this kind could be about. What they decide is an input of an action.
- Migrations: run once, before anything else.
- The change and apply logs, the connector's health and metrics, referrals and
  contact messages: written and counted, and read by no decision. (The daily cap
  of referrals counts first and inserts afterwards.)
- The tenant registry and its multiplexer: one indirection per call over a table
  that does not change while the process runs.
- The other council clients: a thin variant of the one that is modelled, and a
  test double.
- Left out of modelled components: the watchdog of a stalled loop, expiry
  warnings and permits that vanish, emails to drivers, pruning of mail, logs and
  old bookings, daylight saving, the contents of exports, and the fallback of
  `broadcastAccount` when the members cannot be read.

## Running it

    tlc -workers 2 -config PermitApply_safety.cfg MC_PermitApply
    tlapm PermitApplyProofs.tla

From nothing, `ComponentsProofs` takes about ten minutes, `GuestAccessProofs` four,
the others a minute or less each.

| run | module | configuration | distinct states | time |
|---|---|---|---|---|
| `permit_safety` | `MC_PermitApply` | `PermitApply_safety.cfg` | 1 852 267 | 1m03s |
| `permit_liveness` | `MC_PermitApplyLive` | `PermitApply_liveness.cfg` | 206 860 | 17s |
| `episode_safety` | `MC_FailureEpisode` | `FailureEpisode.cfg` | 3 478 655 | 1m39s |
| `episode_liveness` | `MC_FailureEpisode` | `FailureEpisode_live.cfg` | 656 064 | 1m15s |
| `breaker_safety` | `MC_FleetBreaker` | `FleetBreaker.cfg` | 858 313 | 20s |
| `sessions` | `MC_Sessions` | `Sessions.cfg` | 329 984 | 1m57s |
| `components` | `MC_Components` | `Components.cfg` | 1 663 253 | 2m06s |
| `stale_reading`, `lost_kick` | `MC_PermitApplyHistory` | `PermitApply_stale_reading.cfg`, `PermitApply_lost_kick.cfg` | violated | |
| `silent_episode`, `untold_refusal` | `MC_FailureEpisode` | `FailureEpisode_silent.cfg`, `FailureEpisode_unretried.cfg` | violated | |
| `retry_after` | `MC_FleetBreaker` | `FleetBreaker_retry_after.cfg` | violated | |
