---------------------------- MODULE CouncilWrite ----------------------------
(***************************************************************************)
(* One plate change at the council's portal (provider/orikan/vehicle.go and *)
(* api.go): the record is read, edited, and read again until it shows the   *)
(* plate, because the portal's 2xx says nothing of what it did.  The portal *)
(* may accept and do nothing, do it and lose the answer, show its record    *)
(* late or answer with something else, and the household changes the same   *)
(* record on the council's own pages meanwhile.  One call at a time: every  *)
(* call of an owner runs under the owner's lock.                            *)
(***************************************************************************)
EXTENDS Naturals

CONSTANTS
  Regs,         \* plates
  Regions,      \* vehicle states
  HomeState,    \* the one a bare plate is registered with
  Bare,         \* a permit with no vehicle
  NoRegion      \* a change that names no state

ASSUME CouncilAssumption ==
  HomeState \in Regions /\ Bare \notin Regs /\ NoRegion \notin Regions

VARIABLES
  onFile,     \* the portal's record of the permit: plate and state
  shown,      \* what its reads show, onFile once it has caught up
  change,     \* the call: what it wants, what it is to write, how far it is
  result,     \* what the last call returned
  landings,   \* history: how often this call's write was taken
  disturbed   \* history: the household wrote meanwhile, or the first read was behind

councilVars == <<onFile, shown, change, result, landings, disturbed>>

NoVehicle == [plate |-> Bare, state |-> HomeState]
Records == {NoVehicle} \cup [plate : Regs, state : Regions]

\* How an exchange fails, by what the caller makes of it (api.go, provider.Classify).
Failures == {"transient", "busy", "rejected", "expired", "unexpected"}
NoChange == [pc |-> "idle", plate |-> Bare, region |-> NoRegion, write |-> NoVehicle, renewed |-> FALSE]

CouncilTypeOK ==
  /\ onFile \in Records /\ shown \in Records
  /\ change.pc \in {"idle", "read", "post", "confirm", "wait", "again"}
  /\ change.plate \in Regs \cup {Bare} /\ change.write \in Records
  /\ result \in Failures \cup {"none", "ok"} /\ landings \in Nat

CouncilInit ==
  /\ onFile \in Records /\ shown = onFile
  /\ change = NoChange /\ result = "none" /\ landings = 0 /\ disturbed = FALSE

Returns(r) == change' = [change EXCEPT !.pc = "idle"] /\ result' = r
GoesTo(pc) == change' = [change EXCEPT !.pc = pc, !.renewed = FALSE] /\ UNCHANGED result

------------------------------------------------------------------------------
(* The requests.                                                            *)

\* SetVehicle with a plate, ClearVehicle with none.
Begins(plate, region) ==
  /\ change.pc = "idle" /\ (plate = Bare => region = NoRegion)
  /\ change' = [NoChange EXCEPT !.pc = "read", !.plate = plate, !.region = region]
  /\ result' = "none" /\ landings' = 0 /\ disturbed' = FALSE
  /\ UNCHANGED <<onFile, shown>>

\* What the record is to say; an unnamed state keeps the one there was, or is the home one.
writeToken(prior) == IF change.region # NoRegion THEN change.region
                     ELSE IF prior.plate # Bare THEN prior.state ELSE HomeState
Edited == [plate |-> change.plate, state |-> writeToken(shown)]
addVehicle == [plate |-> change.plate, state |-> writeToken(NoVehicle)]
clearVehicle == NoVehicle
Target == IF change.plate = Bare THEN clearVehicle
          ELSE IF shown.plate = Bare THEN addVehicle ELSE Edited

\* The first read, understood: nothing to do, or the edit, the add or the delete.
setVehicle ==
  /\ change.pc = "read" /\ disturbed' = (disturbed \/ shown # onFile)
  /\ change' = [change EXCEPT !.write = Target, !.renewed = FALSE,
                              !.pc = IF shown = Target THEN "idle" ELSE "post"]
  /\ result' = IF shown = Target THEN "ok" ELSE result
  /\ UNCHANGED <<onFile, shown, landings>>

\* A body that lacks what is looked for: a list that is empty without the permit's number
\* and a count of zero, several vehicles, one with no plate or no id.
NotUnderstood ==
  /\ change.pc = "read" /\ Returns("unexpected")
  /\ UNCHANGED <<onFile, shown, landings, disturbed>>

Garbled == NotUnderstood

\* Fault: an empty list is believed as it stands.
EmptyBelieved ==
  /\ change.pc = "read"
  /\ IF change.plate = Bare THEN Returns("ok") ELSE Returns("unexpected")
  /\ UNCHANGED <<onFile, shown, landings, disturbed>>

\* The portal takes the edit.  Its reads may not show it yet.
PortalTakes ==
  /\ onFile' = change.write /\ landings' = landings + 1
  /\ shown' \in {shown, change.write}
Ignores == UNCHANGED <<onFile, shown, landings>>

\* A 2xx, whether the portal did anything or not.
postManage ==
  /\ change.pc = "post" /\ (PortalTakes \/ Ignores) /\ GoesTo("confirm") /\ UNCHANGED disturbed

\* Fault: the 2xx is the confirmation.
postUnread ==
  /\ change.pc = "post" /\ (PortalTakes \/ Ignores) /\ Returns("ok") /\ UNCHANGED disturbed

Posted == postManage

\* A 401: the token is renewed and the request sent once more, which the portal has not
\* acted upon.
RenewsToken ==
  /\ change.pc \in {"read", "post", "confirm", "again"} /\ ~change.renewed
  /\ change' = [change EXCEPT !.renewed = TRUE]
  /\ UNCHANGED <<onFile, shown, result, landings, disturbed>>

\* No answer, an error of the server or a redirect, the edge, a refusal, a second 401,
\* a renewal that fails.  Only without an answer, or with an error of the server or the
\* edge, may the edit have been taken.
FirstReadFails(kind) ==
  /\ change.pc = "read" /\ Returns(kind) /\ UNCHANGED <<onFile, shown, landings, disturbed>>

PostFails(kind) ==
  /\ change.pc = "post" /\ Returns(kind) /\ UNCHANGED disturbed
  /\ \/ Ignores
     \/ kind \in {"transient", "busy"} /\ PortalTakes

\* Fault: a request without an answer is sent again.
PostAgain(kind) ==
  /\ change.pc = "post" /\ UNCHANGED disturbed
  /\ \/ Ignores /\ Returns(kind)
     \/ kind \in {"transient", "busy"} /\ PortalTakes /\ UNCHANGED <<change, result>>

Unanswered(kind) == PostFails(kind)

\* confirmWrite: what cannot be read is not confirmed, and is tried again.  (The kind of
\* the failed read shows through where it is the edge's or an expiry.)
ConfirmFails(kind) ==
  /\ change.pc \in {"confirm", "again"} /\ kind \in {"transient", "busy", "expired"}
  /\ Returns(kind) /\ UNCHANGED <<onFile, shown, landings, disturbed>>

confirmWrite ==
  /\ change.pc \in {"confirm", "again"}
  /\ IF shown.plate = change.plate THEN Returns("ok")
     ELSE IF change.pc = "confirm" THEN GoesTo("wait") ELSE Returns("rejected")
  /\ UNCHANGED <<onFile, shown, landings, disturbed>>

WaitOver ==
  /\ change.pc = "wait" /\ (GoesTo("again") \/ Returns("transient"))
  /\ UNCHANGED <<onFile, shown, landings, disturbed>>

------------------------------------------------------------------------------
(* The portal and the household.                                            *)

CatchesUp == shown # onFile /\ shown' = onFile /\ UNCHANGED <<onFile, change, result, landings, disturbed>>

ElsewhereChanged(r) ==
  /\ r # onFile /\ onFile' = r /\ shown' \in {shown, r}
  /\ disturbed' = TRUE /\ UNCHANGED <<change, result, landings>>

CouncilWork ==
  \/ setVehicle \/ Posted \/ RenewsToken \/ confirmWrite \/ WaitOver \/ CatchesUp
  \/ Garbled
  \/ \E kind \in Failures : FirstReadFails(kind) \/ Unanswered(kind) \/ ConfirmFails(kind)

CouncilEvent ==
  \/ \E plate \in Regs \cup {Bare}, region \in Regions \cup {NoRegion} : Begins(plate, region)
  \/ \E r \in Records : ElsewhereChanged(r)

CouncilNext == CouncilWork \/ CouncilEvent

------------------------------------------------------------------------------
\* What is reported as done is on the portal's record, whatever the portal answered on
\* the way, unless the household changed it meanwhile or its reads were behind before
\* (setVehicle, clearVehicle, confirmWrite, emptyIsCredible).  It is the plate alone:
\* the state, which an edit may have been about, is not compared.
DoneIsOnFile ==
  change.pc = "idle" /\ result = "ok" /\ ~disturbed => onFile.plate = change.plate

\* One call edits the record once, so that it cannot undo what the household writes after
\* it: a request is replayed after a 401 alone (apiRequest).
LandsOnce == landings <= 1
==============================================================================
