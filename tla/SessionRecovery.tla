---------------------------- MODULE SessionRecovery ----------------------------
(***************************************************************************)
(* The council session of one household at one council: the row in         *)
(* council_session and everybody who changes it.  The household links,     *)
(* unlinks, forgets its password and comes by; calls use the session and   *)
(* bring it back renewed (parking.withSession); keep-warm renews it, reminds *)
(* the household and retires what is not used (scheduler/warm.go); a worker *)
(* signs in again for a session that has expired (scheduler/reconnect.go).  *)
(* All but the household's own writes are conditioned on the generation of *)
(* the row they started from.                                              *)
(***************************************************************************)
EXTENDS Naturals

CONSTANTS NoRow, NoItem

\* How long the household has not been seen: the reminder is due, the bound passed.
IdleTimes == {"active", "due", "over"}

VARIABLES
  row,       \* the row: generation, whether the council takes its cookie, a saved
             \* password, idle time, reminder and token; history: whether the cookie
             \* descends from the latest sign-in
  consent,   \* history: what the household last wanted, a link and a saved password
  link,      \* the household's sign-in under way
  confirm,   \* a reminder's token has been looked up, and not yet acted on
  call,      \* the call that holds the owner's lock
  item,      \* the entry of the household in reconnectQ
  work,      \* the reconnect worker: step, generation queued, generation re-read
  warm       \* keep-warm: step, and what it listed

sessionVars == <<row, consent, link, confirm, call, item, work, warm>>
actors      == <<link, confirm, call, item, work, warm>>

\* Only a generation's being that of the row or not is ever asked (WHERE
\* session_generation = ?), so that one nobody holds any more can be given again.
Generations == 1..6

Rows == [gen : Generations, latest : BOOLEAN, alive : BOOLEAN, pw : BOOLEAN,
         idle : IdleTimes, told : BOOLEAN, token : BOOLEAN]
Items == [gen : 0..6, due : BOOLEAN, held : BOOLEAN]

\* The session as the household knows it.
Seeing(r) == [latest |-> r.latest, alive |-> r.alive, pw |-> r.pw, idle |-> r.idle]

ASSUME SessionAssumption ==
  NoRow \notin Rows \union {Seeing(r) : r \in Rows} /\ NoItem \notin Items

CallRecords == [pc : {"no", "out", "save", "expired"}, gen : 0..6,
                alive : BOOLEAN, latest : BOOLEAN, warm : BOOLEAN]
WorkRecords == [pc : {"idle", "held", "waiting", "login", "save", "retire"},
                gen : 0..6, at : 0..6]
WarmRecords == [pc : {"idle", "listed", "marked", "renew"}, idle : IdleTimes, told : BOOLEAN]
LinkRecords == [pc : {"no", "login", "saved"}, pw : BOOLEAN]
Consents == [linked : BOOLEAN, pw : BOOLEAN]

SessionTypeOK ==
  /\ row \in Rows \union {NoRow} /\ consent \in Consents
  /\ link \in LinkRecords /\ confirm \in BOOLEAN /\ call \in CallRecords
  /\ item \in Items \union {NoItem} /\ work \in WorkRecords /\ warm \in WarmRecords

NoLink == [pc |-> "no", pw |-> FALSE]
NoCall == [pc |-> "no", gen |-> 0, alive |-> FALSE, latest |-> FALSE,
           warm |-> FALSE]
NoWork == [pc |-> "idle", gen |-> 0, at |-> 0]
NoPass == [pc |-> "idle", idle |-> "active", told |-> FALSE]

Linked(gen, pw) == [gen |-> gen, latest |-> TRUE, alive |-> TRUE, pw |-> pw,
                    idle |-> "active", told |-> FALSE, token |-> FALSE]

SessionInit ==
  /\ \E pw \in BOOLEAN :
       \/ row = NoRow /\ consent = [linked |-> FALSE, pw |-> FALSE]
       \/ row = Linked(1, pw) /\ consent = [linked |-> TRUE, pw |-> pw]
  /\ link = NoLink /\ confirm = FALSE /\ call = NoCall
  /\ item = NoItem /\ work = NoWork /\ warm = NoPass

\* The row is the one of generation gen, still.
Still(gen) == row # NoRow /\ row.gen = gen

InUse ==
  {call.gen, work.gen, work.at}
    \union (IF row = NoRow THEN {} ELSE {row.gen})
    \union (IF item = NoItem THEN {} ELSE {item.gen})

\* newSessionGeneration, or one more than the row's: always a new one.
NextGen == CHOOSE g \in Generations : g \notin InUse

------------------------------------------------------------------------------
(* The household.                                                           *)

\* The sign-in at the council, one at a time (loginFlow).
StartLink(pw) ==
  /\ link.pc = "no" /\ work.pc \notin {"login", "save"}
  /\ link' = [pc |-> "login", pw |-> pw]
  /\ UNCHANGED <<row, consent, confirm, call, item, work, warm>>

LinkRefused ==
  /\ link.pc = "login"
  /\ link' = NoLink
  /\ UNCHANGED <<row, consent, confirm, call, item, work, warm>>

\* SaveTenantSession: over whatever is there.
LinkSaved ==
  /\ link.pc = "login"
  /\ row' = Linked(NextGen, link.pw)
  /\ consent' = [linked |-> TRUE, pw |-> link.pw]
  /\ link' = [link EXCEPT !.pc = "saved"]
  /\ call' = [call EXCEPT !.latest = FALSE]
  /\ UNCHANGED <<confirm, item, work, warm>>

\* The handler then drops whatever recovery is queued, and clears the backoffs.
LinkDone ==
  /\ link.pc = "saved"
  /\ link' = NoLink /\ item' = NoItem
  /\ UNCHANGED <<row, consent, confirm, call, work, warm>>

Unlink ==
  /\ row # NoRow
  /\ row' = NoRow /\ consent' = [linked |-> FALSE, pw |-> FALSE]
  /\ item' = NoItem
  /\ UNCHANGED <<link, confirm, call, work, warm>>

ForgetSavedPassword ==
  /\ row # NoRow
  /\ row' = [row EXCEPT !.pw = FALSE, !.gen = NextGen]
  /\ consent' = [consent EXCEPT !.pw = FALSE]
  /\ item' = NoItem
  /\ UNCHANGED <<link, confirm, call, work, warm>>

Seen(r) == [r EXCEPT !.idle = "active", !.told = FALSE, !.token = FALSE]

\* Somebody of the household, or a guest of theirs, uses the app.
ComesBy ==
  /\ row # NoRow
  /\ row' = Seen(row)
  /\ UNCHANGED <<consent, actors>>

\* The link in a reminder: the token is looked up, and the row found is extended.
ConfirmFinds ==
  /\ ~confirm /\ row # NoRow /\ row.token
  /\ confirm' = TRUE
  /\ UNCHANGED <<row, consent, link, call, item, work, warm>>

ConfirmExtends ==
  /\ confirm /\ confirm' = FALSE
  /\ row' = IF row = NoRow THEN row ELSE Seen(row)
  /\ UNCHANGED <<consent, link, call, item, work, warm>>

TokenAges ==
  /\ row # NoRow /\ row.token
  /\ row' = [row EXCEPT !.token = FALSE]
  /\ UNCHANGED <<consent, actors>>

\* Time without a sign of the household; and the council ends the session, or what
\* is stored of it can no longer be opened.
Idles ==
  /\ row # NoRow /\ row.idle # "over"
  /\ row' = [row EXCEPT !.idle = IF @ = "active" THEN "due" ELSE "over"]
  /\ UNCHANGED <<consent, actors>>

Expires ==
  /\ row # NoRow /\ row.alive
  /\ row' = [row EXCEPT !.alive = FALSE]
  /\ call' = [call EXCEPT !.alive = @ /\ call.gen # row.gen]
  /\ UNCHANGED <<consent, link, confirm, item, work, warm>>

------------------------------------------------------------------------------
(* A call on the session, under the owner's lock.                           *)

Begin(w) ==
  /\ call.pc = "no" /\ row # NoRow
  /\ call' = [pc |-> "out", gen |-> row.gen, alive |-> row.alive,
              latest |-> row.latest, warm |-> w]

PageCalls ==
  /\ Begin(FALSE)
  /\ UNCHANGED <<row, consent, link, confirm, item, work, warm>>

CallTo(pc) == call' = IF pc = "no" THEN NoCall ELSE [call EXCEPT !.pc = pc]

\* The council serves it, and has changed the cookie or not; it may not serve it at
\* all, or say that the session has expired.
CallServed ==
  /\ call.pc = "out" /\ call.alive
  /\ \E pc \in {"save"} \union IF call.warm THEN {} ELSE {"no"} : CallTo(pc)
  /\ UNCHANGED <<row, consent, link, confirm, item, work, warm>>

CallFails ==
  /\ call.pc = "out"
  /\ CallTo("no")
  /\ UNCHANGED <<row, consent, link, confirm, item, work, warm>>

CallExpired ==
  /\ call.pc = "out" /\ ~call.alive
  /\ CallTo("expired")
  /\ UNCHANGED <<row, consent, link, confirm, item, work, warm>>

Renewed == [row EXCEPT !.gen = NextGen, !.alive = TRUE, !.latest = call.latest]

\* Fault: the cookie is saved over whatever is there.
CallSavesOver ==
  /\ call.pc = "save" /\ CallTo("no")
  /\ IF row # NoRow THEN row' = Renewed ELSE UNCHANGED row
  /\ UNCHANGED <<consent, link, confirm, item, work, warm>>

\* UpdateTenantCookie: an outdated one is let go.
CallSaves ==
  /\ call.pc = "save" /\ CallTo("no")
  /\ IF Still(call.gen) THEN row' = Renewed ELSE UNCHANGED row
  /\ UNCHANGED <<consent, link, confirm, item, work, warm>>

\* queueReconnectItem: one entry for the household, of the first that asks.
Enqueue(gen) ==
  item' = IF item # NoItem THEN item ELSE [gen |-> gen, due |-> TRUE, held |-> FALSE]

CallReports ==
  /\ call.pc = "expired" /\ CallTo("no")
  /\ Enqueue(call.gen)
  /\ UNCHANGED <<row, consent, link, confirm, work, warm>>

------------------------------------------------------------------------------
(* The reconnect worker.                                                    *)

\* The task ends: its entry goes, unless it has been replaced meanwhile.
Finish ==
  /\ work' = NoWork
  /\ item' = IF item # NoItem /\ item.held THEN NoItem ELSE item

\* ... or is kept for another time.
Defer ==
  /\ work' = NoWork
  /\ item' = IF item # NoItem /\ item.held THEN [item EXCEPT !.due = FALSE, !.held = FALSE]
             ELSE item

Due == work.pc = "idle" /\ item # NoItem /\ item.due

\* Fault: a task for a session that has been replaced is kept.
WorkerKeeps ==
  /\ Due
  /\ \/ /\ Still(item.gen)
        /\ work' = [pc |-> "held", gen |-> item.gen, at |-> 0]
        /\ item' = [item EXCEPT !.held = TRUE]
     \/ ~Still(item.gen) /\ item' = [item EXCEPT !.due = FALSE] /\ UNCHANGED work
  /\ UNCHANGED <<row, consent, link, confirm, call, warm>>

\* The row is still the one that expired, or the task is nobody's.
WorkerTakes ==
  /\ Due
  /\ \/ /\ Still(item.gen)
        /\ work' = [pc |-> "held", gen |-> item.gen, at |-> 0]
        /\ item' = [item EXCEPT !.held = TRUE]
     \/ ~Still(item.gen) /\ item' = NoItem /\ UNCHANGED work
  /\ UNCHANGED <<row, consent, link, confirm, call, warm>>

\* The row cannot be read.
WorkerBlind ==
  /\ Due
  /\ item' = [item EXCEPT !.due = FALSE]
  /\ UNCHANGED <<row, consent, link, confirm, call, work, warm>>

\* Reconnect reads the row again, for the password.
WorkerReads ==
  /\ work.pc = "held"
  /\ \/ row = NoRow /\ Defer
     \/ /\ row # NoRow
        /\ work' = IF row.pw THEN [work EXCEPT !.pc = "waiting", !.at = row.gen]
                   ELSE [work EXCEPT !.pc = "retire"]
        /\ UNCHANGED item
  /\ UNCHANGED <<row, consent, link, confirm, call, warm>>

WorkTo(pc) ==
  /\ work' = [work EXCEPT !.pc = pc]
  /\ UNCHANGED <<row, consent, link, confirm, call, item, warm>>

WorkerSignsIn  == work.pc = "waiting" /\ link.pc # "login" /\ WorkTo("login")
WorkerAccepted == work.pc = "login" /\ WorkTo("save")
WorkerRejected == work.pc = "login" /\ WorkTo("retire")

\* Push-back, a cooldown, a changed page, a store that fails.
WorkerDefers ==
  /\ work.pc \in {"waiting", "login", "save", "retire"}
  /\ Defer
  /\ UNCHANGED <<row, consent, link, confirm, call, warm>>

Recovered == [row EXCEPT !.gen = NextGen, !.latest = TRUE, !.alive = TRUE, !.pw = TRUE]

\* Fault: the session is saved over whatever is there.
WorkerSavesOver ==
  /\ work.pc = "save"
  /\ IF row # NoRow THEN row' = Recovered /\ call' = [call EXCEPT !.latest = FALSE]
     ELSE UNCHANGED <<row, call>>
  /\ Finish
  /\ UNCHANGED <<consent, link, confirm, warm>>

\* SaveReconnectedSessionIfGen, with the password it was made with.
WorkerSaves ==
  /\ work.pc = "save"
  /\ IF Still(work.at) THEN row' = Recovered /\ call' = [call EXCEPT !.latest = FALSE]
     ELSE UNCHANGED <<row, call>>
  /\ Finish
  /\ UNCHANGED <<consent, link, confirm, warm>>

\* DeleteTenantSessionIfGen; the household is asked to link again.
WorkerRetires ==
  /\ work.pc = "retire"
  /\ row' = IF Still(work.gen) THEN NoRow ELSE row
  /\ Finish
  /\ UNCHANGED <<consent, link, confirm, call, warm>>

BackoffEnds ==
  /\ item # NoItem /\ ~item.due
  /\ item' = [item EXCEPT !.due = TRUE]
  /\ UNCHANGED <<row, consent, link, confirm, call, work, warm>>

------------------------------------------------------------------------------
(* Keep-warm, which works through a list that may be minutes old.           *)

WarmLists ==
  /\ warm.pc = "idle" /\ row # NoRow /\ ~call.warm
  /\ warm' = [pc |-> "listed", idle |-> row.idle, told |-> row.told]
  /\ UNCHANGED <<row, consent, link, confirm, call, item, work>>

\* DeleteTenantSessionIfIdle asks the row itself.
WarmRetires ==
  /\ warm.pc = "listed" /\ warm.idle = "over"
  /\ row' = IF row # NoRow /\ row.idle = "over" THEN NoRow ELSE row
  /\ warm' = NoPass
  /\ UNCHANGED <<consent, link, confirm, call, item, work>>

\* MarkReminderSent, and only then the reminder.
WarmMarks ==
  /\ warm.pc = "listed" /\ warm.idle = "due" /\ ~warm.told
  /\ row' = IF row = NoRow THEN row ELSE [row EXCEPT !.told = TRUE, !.token = TRUE]
  /\ warm' = [warm EXCEPT !.pc = "marked"]
  /\ UNCHANGED <<consent, link, confirm, call, item, work>>

WarmSent ==
  /\ warm.pc = "marked"
  /\ warm' = [warm EXCEPT !.pc = "renew"]
  /\ UNCHANGED <<row, consent, link, confirm, call, item, work>>

\* It could not be sent: ClearReminderSent, if the store allows it.
WarmUnsent ==
  /\ warm.pc = "marked"
  /\ \/ row # NoRow /\ row' = [row EXCEPT !.told = FALSE, !.token = FALSE]
     \/ UNCHANGED row
  /\ warm' = [warm EXCEPT !.pc = "renew"]
  /\ UNCHANGED <<consent, link, confirm, call, item, work>>

NothingToSend ==
  /\ warm.pc = "listed" /\ warm.idle # "over" /\ ~(warm.idle = "due" /\ ~warm.told)
  /\ warm' = [warm EXCEPT !.pc = "renew"]
  /\ UNCHANGED <<row, consent, link, confirm, call, item, work>>

\* Refresh, if nobody is recovering the session; a row that is gone is not linked.
WarmRenews ==
  /\ warm.pc = "renew"
  /\ \/ item = NoItem /\ Begin(TRUE)
     \/ (item # NoItem \/ row = NoRow) /\ UNCHANGED call
  /\ warm' = NoPass
  /\ UNCHANGED <<row, consent, link, confirm, item, work>>

\* The session is fresh, or its renewal backed off.
WarmSkips ==
  /\ warm.pc = "renew"
  /\ warm' = NoPass
  /\ UNCHANGED <<row, consent, link, confirm, call, item, work>>

\* The process stops: only the row is left.
SessionRestart ==
  /\ link' = NoLink /\ confirm' = FALSE /\ call' = NoCall
  /\ item' = NoItem /\ work' = NoWork /\ warm' = NoPass
  /\ UNCHANGED <<row, consent>>

------------------------------------------------------------------------------
SessionEvent ==
  \/ \E pw \in BOOLEAN : StartLink(pw)
  \/ Unlink \/ ForgetSavedPassword \/ ComesBy \/ Expires \/ Idles
  \/ PageCalls \/ CallFails \/ WorkerBlind \/ WorkerRejected \/ WorkerDefers
  \/ WarmUnsent \/ WarmSkips \/ SessionRestart

Linking   == LinkRefused \/ LinkSaved \/ LinkDone
Calling   == CallServed \/ CallExpired \/ CallSaves \/ CallReports
Working   == WorkerTakes \/ WorkerReads \/ WorkerSignsIn \/ WorkerAccepted
               \/ WorkerSaves \/ WorkerRetires
Warming   == WarmLists \/ WarmRetires \/ WarmMarks \/ WarmSent \/ NothingToSend \/ WarmRenews
Confirming == ConfirmFinds \/ ConfirmExtends

SessionWork == Linking \/ Calling \/ Working \/ BackoffEnds \/ Warming \/ Confirming \/ TokenAges

SessionNext == SessionEvent \/ SessionWork

SessionSpec == SessionInit /\ [][SessionNext]_sessionVars

------------------------------------------------------------------------------
(* Properties.                                                              *)

\* Nothing in the background brings back what the household has ended: there is a
\* session only while it wants one, and a saved password only while it wants that
\* (SaveReconnectedSessionIfGen, UpdateTenantCookie).
HouseholdsWord ==
  row # NoRow => consent.linked /\ (row.pw => consent.pw)

Session == IF row = NoRow THEN NoRow ELSE Seeing(row)

Register == INSTANCE SessionRegister WITH session <- Session, NoSession <- NoRow

\* Whatever races with whatever, the row goes through the changes of that register
\* only: background work gives up nothing that works and is used, and puts no older
\* sign-in over a newer one (recoverOrRetire, withSession, warmOne).
ImplementsRegister == Register!RegisterSpec

\* A session that has expired is in the end recovered, or ended so that the
\* household is asked to link again: no stale entry blocks the queue, no lost one is
\* lost for good (queueReconnectItem, recoverOrRetire, warmOne).
DeadIsResolved == (row # NoRow /\ ~row.alive) ~> (row = NoRow \/ row.alive)
==============================================================================
