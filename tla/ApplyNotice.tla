----------------------------- MODULE ApplyNotice -----------------------------
(***************************************************************************)
(* One notice about a permit and the people who share the account           *)
(* (NotifyApply, called by notifyUserThen).  An attempt asks what everybody *)
(* wants, tells one after the other, and is repeated for as long as anybody *)
(* has been missed; whom an attempt has reached is remembered so that the   *)
(* next does not tell them again.                                           *)
(***************************************************************************)
EXTENDS Naturals

CONSTANT Household   \* AccountEmails

\* What the notice says: a change the schedule made, one made by hand, a failure, or a
\* failure that somebody has to act on (actionNeeded).
Sorts == {"routine", "success", "failure", "action"}

Wish == [mail : BOOLEAN, push : BOOLEAN, failuresOnly : BOOLEAN, asleep : BOOLEAN]

VARIABLES
  sort,      \* the notice
  wish,      \* preferences, and whether it is night for them
  attempt,   \* the attempt under way, or NoAttempt
  reachedBy, \* applySeen: who has had it
  onRecord,  \* SetPermitNotifiedKey
  told,      \* history: member -> how they have heard
  clean      \* history: no restart and no failed record so far

noticeVars == <<sort, wish, attempt, reachedBy, onRecord, told, clean>>

NoAttempt == [todo |-> {}, wish |-> <<>>, failed |-> FALSE, count |-> 0, on |-> FALSE]
Fates == {"not", "once", "twice", "queued", "capped", "none", "muted"}

NoticeTypeOK ==
  /\ sort \in Sorts /\ wish \in [Household -> Wish]
  /\ attempt.todo \subseteq Household /\ attempt.failed \in BOOLEAN /\ attempt.on \in BOOLEAN
  /\ reachedBy \subseteq Household /\ onRecord \in BOOLEAN /\ clean \in BOOLEAN
  /\ told \in [Household -> Fates]

NoticeInit ==
  /\ sort \in Sorts /\ wish \in [Household -> Wish]
  /\ attempt = NoAttempt /\ reachedBy = {} /\ onRecord = FALSE
  /\ told = [m \in Household |-> "not"] /\ clean = TRUE

\* mutedByFailuresOnly, deferUntil.
Muted(w) == sort = "routine" /\ w.failuresOnly
Waits(w) == sort # "action" /\ w.asleep

\* Fault: a switched-off mail stays off, whatever the notice.
MailAsSet(w) == w.mail

\* emailWanted.
MailWanted(w) == w.mail \/ sort = "action"

Wanted(w) == MailWanted(w) \/ w.push

\* accountDeliveries: everybody's preferences, once.  An error here is an attempt that
\* does not happen.
StartAttempt ==
  /\ ~attempt.on /\ ~onRecord
  /\ attempt' = [todo |-> Household, wish |-> wish, failed |-> FALSE, count |-> 0, on |-> TRUE]
  /\ UNCHANGED <<sort, wish, reachedBy, onRecord, told, clean>>

At(m) == attempt.on /\ m \in attempt.todo
Next0(m, failed) == attempt' = [attempt EXCEPT !.todo = @ \ {m}, !.failed = @ \/ failed, !.count = 1]
Heard(m) == told' = [told EXCEPT ![m] = IF @ \in {"once", "queued", "twice"} THEN "twice" ELSE "once"]

\* No channel, or a routine change for somebody who only wants failures.
PassOver(m) ==
  LET w == attempt.wish[m]
  IN /\ At(m) /\ (Muted(w) \/ ~Wanted(w))
     /\ attempt' = [attempt EXCEPT !.todo = @ \ {m}]
     /\ told' = [told EXCEPT ![m] = IF @ # "not" THEN @ ELSE IF Muted(w) THEN "muted" ELSE "none"]
     /\ UNCHANGED <<sort, wish, reachedBy, onRecord, clean>>

Due(m) == At(m) /\ ~Muted(attempt.wish[m]) /\ Wanted(attempt.wish[m])

HasHad(m) ==
  /\ Due(m) /\ m \in reachedBy /\ Next0(m, FALSE)
  /\ UNCHANGED <<sort, wish, reachedBy, onRecord, told, clean>>

\* The queue takes it for later (enqueueSplit), or does not.
QueueFor(m, taken) ==
  /\ Due(m) /\ m \notin reachedBy /\ Waits(attempt.wish[m]) /\ Next0(m, ~taken)
  /\ reachedBy' = IF taken THEN reachedBy \cup {m} ELSE reachedBy
  /\ IF taken THEN told' = [told EXCEPT ![m] = IF @ \in {"once", "queued", "twice"} THEN "twice" ELSE "queued"]
              ELSE UNCHANGED told
  /\ UNCHANGED <<sort, wish, onRecord, clean>>

Now(m) == Due(m) /\ m \notin reachedBy /\ ~Waits(attempt.wish[m])

\* The cap on failures in a day: as good as told.
Capped(m) ==
  /\ Now(m) /\ sort \in {"failure", "action"} /\ Next0(m, FALSE)
  /\ told' = [told EXCEPT ![m] = IF @ = "not" THEN "capped" ELSE @]
  /\ UNCHANGED <<sort, wish, reachedBy, onRecord, clean>>

\* Fault: what got through is not remembered when something else did not.
RememberClean(m, through, failed) == IF through /\ ~failed THEN reachedBy \cup {m} ELSE reachedBy

Remember(m, through, failed) == IF through THEN reachedBy \cup {m} ELSE reachedBy

\* Mail and push, one after the other: either may fail.
Tell(m, mailed, pushed) ==
  LET w == attempt.wish[m]
      through == (MailWanted(w) /\ mailed) \/ (w.push /\ pushed)
      failed == (MailWanted(w) /\ ~mailed) \/ (w.push /\ ~pushed)
  IN /\ Now(m) /\ Next0(m, failed)
     /\ reachedBy' = Remember(m, through, failed)
     /\ IF through THEN Heard(m) ELSE UNCHANGED told
     /\ UNCHANGED <<sort, wish, onRecord, clean>>

Over == attempt.on /\ attempt.todo = {}

\* Fault: an attempt that reached somebody is enough.
ReachedSome == attempt.count > 0

NobodyMissed == ~attempt.failed

\* notifyUserThen: nothing failed, nobody is remembered any more, and the key is stored.
Recorded(stored) ==
  /\ Over /\ NobodyMissed /\ attempt' = NoAttempt
  /\ reachedBy' = {}
  /\ onRecord' = stored /\ clean' = (clean /\ stored)
  /\ UNCHANGED <<sort, wish, told>>

\* Somebody was missed: held, and tried again by a later pass.
TriedAgain ==
  /\ Over /\ ~NobodyMissed /\ attempt' = NoAttempt
  /\ UNCHANGED <<sort, wish, reachedBy, onRecord, told, clean>>

WishChanges(m, w) ==
  /\ wish' = [wish EXCEPT ![m] = w]
  /\ UNCHANGED <<sort, attempt, reachedBy, onRecord, told, clean>>

NoticeRestart ==
  /\ attempt' = NoAttempt /\ reachedBy' = {} /\ clean' = FALSE
  /\ UNCHANGED <<sort, wish, onRecord, told>>

------------------------------------------------------------------------------
NoticeEvent ==
  \/ \E m \in Household, w \in Wish : WishChanges(m, w)
  \/ Recorded(FALSE) \/ NoticeRestart

NoticeWork ==
  \/ StartAttempt \/ Recorded(TRUE) \/ TriedAgain
  \/ \E m \in Household : PassOver(m) \/ HasHad(m) \/ Capped(m)
  \/ \E m \in Household, a \in BOOLEAN : QueueFor(m, a) \/ \E b \in BOOLEAN : Tell(m, a, b)

\* The component by itself.
NoticeSpec == NoticeInit /\ [][NoticeEvent \/ NoticeWork]_noticeVars

------------------------------------------------------------------------------
\* Nobody gets a notice twice because somebody else of the household was missed, as long
\* as the process lives and the store takes the record (reached, markReached).
OneCopyEach == clean => \A m \in Household : told[m] # "twice"

\* What is on record as told was told to everybody: each has it, has it waiting, has had
\* as many as a day allows, or does not want it; and what has to be acted on waits for
\* nobody's morning and goes by mail to those who have no channel on (NotifyApply).
RecordMeansTold ==
  onRecord => \A m \in Household :
    /\ told[m] # "not"
    /\ sort = "action" => told[m] \in {"once", "twice", "capped"}
==============================================================================
