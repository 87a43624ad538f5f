-------------------------------- MODULE Fanout --------------------------------
(***************************************************************************)
(* One notice for everybody who shares an account: each gets a copy, by     *)
(* mail, by push or by both, and is told who else was told                  *)
(* (notify/dispatch.go).  A change a visitor made and one found at the      *)
(* council name the others from one reading of the preferences and go out   *)
(* by a second (fanoutEnqueue); the others go by one reading, or ask each   *)
(* member as they come to them.                                             *)
(***************************************************************************)
EXTENDS Naturals, FiniteSets

CONSTANT Sharers   \* AccountEmails

Ways == {"mail", "push"}
Notices == {"apply", "action", "drift", "change", "request", "expiry", "broadcast"}
Says == [mail : BOOLEAN, push : BOOLEAN, failuresOnly : BOOLEAN]

VARIABLES
  notice,    \* the notice
  acted,     \* who made the change: one of them, or nobody
  says,      \* everybody's preferences
  named,     \* member -> how the notice says they are told
  copy,      \* the readings the copies are made from
  phase,     \* start, named, sending, over
  toTell,    \* members still to come
  outbox,    \* keys of the rows that wait
  issued,    \* copies that went directly, or into the queue: <<member, way>>
  lost,      \* history: copies that failed
  steady     \* history: nobody changed a preference meanwhile

fanoutVars == <<notice, acted, says, named, copy, phase, toTell, outbox, issued, lost, steady>>
deliveries == <<outbox, issued, lost>>

FanoutTypeOK ==
  /\ notice \in Notices /\ acted \subseteq Sharers /\ phase \in {"start", "named", "sending", "over"}
  /\ says \in [Sharers -> Says] /\ copy \in [Sharers -> Says]
  /\ named \in [Sharers -> SUBSET Ways] /\ toTell \subseteq Sharers
  /\ issued \subseteq Sharers \X Ways /\ lost \subseteq Sharers \X Ways
  /\ steady \in BOOLEAN

FanoutInit ==
  /\ notice \in Notices /\ says \in [Sharers -> Says]
  /\ acted \in IF notice = "change" THEN {{m} : m \in Sharers} ELSE {{}}
  /\ copy = says /\ named = [m \in Sharers |-> {}]
  /\ phase = "start" /\ toTell = {} /\ outbox = {} /\ issued = {} /\ lost = {} /\ steady = TRUE

ReadTwice == notice \in {"apply", "action", "drift"}
MustReach == notice \in {"action", "expiry", "broadcast"}

\* audienceOf, accountChangeAudienceOf and what each notice does in its own loop.
PassedOver(m, w) == (notice = "drift" /\ w.failuresOnly) \/ m \in acted
WaysFor(m, w) ==
  {way \in Ways : /\ ~PassedOver(m, w)
                  /\ (way = "mail" /\ MustReach) \/ w[way]}

\* accountDeliveries: whom the text names.
Name ==
  /\ phase = "start"
  /\ named' = [m \in Sharers |-> WaysFor(m, says[m])] /\ copy' = says
  /\ IF ReadTwice THEN phase' = "named" /\ toTell' = {} ELSE phase' = "sending" /\ toTell' = Sharers
  /\ UNCHANGED <<notice, acted, says, deliveries, steady>>

\* fanoutEnqueue asks again.
ReadAgain ==
  /\ phase = "named" /\ copy' = says /\ phase' = "sending" /\ toTell' = Sharers
  /\ UNCHANGED <<notice, acted, says, named, deliveries, steady>>

\* Fault: one row for the household and the way.
KeyOfHousehold(m, way) == <<way>>

\* DedupKey and the suffix enqueueSplit adds.
Key(m, way) == <<m, way>>

\* fanoutEnqueue ends at the first row the queue refuses; the other loops go on.
Stops(failed) == failed # {} /\ ReadTwice

\* A copy by each way, through the queue or, by the two notices that may, at once (an
\* expiry waits for the end of the quiet hours).  Those that fail leave the others of
\* the member alone.
CopyFor(m, failed, queued) ==
  LET w == IF notice = "broadcast" THEN says[m] ELSE copy[m]
      all == WaysFor(m, w)
      through == {way \in all \ failed : ~queued \/ Key(m, way) \notin outbox}
  IN /\ phase = "sending" /\ m \in toTell /\ failed \subseteq all
     /\ queued => notice # "broadcast"
     /\ ~queued => notice \in {"expiry", "broadcast"}
     /\ issued' = issued \cup ({m} \X through)
     /\ lost' = lost \cup ({m} \X failed)
     /\ outbox' = IF queued THEN outbox \cup {Key(m, way) : way \in through} ELSE outbox
     /\ toTell' = IF Stops(failed) THEN {} ELSE toTell \ {m}
     /\ phase' = IF toTell' = {} THEN "over" ELSE phase
     /\ UNCHANGED <<notice, acted, says, named, copy, steady>>

SaysChanges(m, w) ==
  /\ phase # "over" /\ w # says[m] /\ says' = [says EXCEPT ![m] = w] /\ steady' = FALSE
  /\ UNCHANGED <<notice, acted, named, copy, phase, toTell, deliveries>>

FanoutEvent ==
  \/ \E m \in Sharers, w \in Says : SaysChanges(m, w)
  \/ \E m \in Sharers, failed \in SUBSET Ways \ {{}}, queued \in BOOLEAN :
       CopyFor(m, failed, queued)

FanoutWork ==
  \/ Name \/ ReadAgain
  \/ \E m \in Sharers, queued \in BOOLEAN : CopyFor(m, {}, queued)

\* The component by itself.
FanoutSpec == FanoutInit /\ [][FanoutEvent \/ FanoutWork]_fanoutVars

------------------------------------------------------------------------------
\* Where nobody changes a preference meanwhile, those the notice names as told have a
\* copy in each of the ways it names, or the very copy failed; and where the loop goes
\* on, one copy that fails costs nobody else theirs.  Only a notice read twice ends at a
\* failure, and then with one at least (EnqueueApply, NotifyDriftChanged, fanoutEnqueue,
\* NotifyAccountChange, NotifyGuestRequest, NotifyPermitExpiry, broadcastAccount).
ToldAsNamed ==
  phase = "over" =>
    /\ steady /\ (ReadTwice => lost = {}) =>
         \A m \in Sharers, way \in Ways :
           way \in named[m] <=> <<m, way>> \in issued \cup lost
    /\ MustReach /\ ~ReadTwice => \A m \in Sharers : <<m, "mail">> \in issued \cup lost
    /\ \A m \in acted, way \in Ways : <<m, way>> \notin issued
==============================================================================
