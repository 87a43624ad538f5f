----------------------------- MODULE PlateRecord -----------------------------
(***************************************************************************)
(* What one permit's record promises its readers.                          *)
(*                                                                         *)
(* The council's portal holds a plate; p.stonn keeps a belief about it and *)
(* never asks the portal before deciding that there is nothing to do.  The *)
(* promise is that a change made by p.stonn is ONE event: the plate on the *)
(* portal and the belief move together, whoever else is changing the same  *)
(* permit.  Everything that can part the two is an event of its own, and   *)
(* makes the record untrusted until a change or a reading re-joins them.   *)
(***************************************************************************)
CONSTANTS Plates, NoPlate

VARIABLES
  portal,    \* the plate the council holds
  belief,    \* the plate p.stonn believes it holds
  trusted    \* nothing has parted the two since they were last joined

recordVars == <<portal, belief, trusted>>

Regos == Plates \union {NoPlate}

RecordInit ==
  /\ portal \in Regos
  /\ belief = portal
  /\ trusted = TRUE

\* A change p.stonn makes and records.
Change(p) ==
  /\ portal' = p
  /\ belief' = p
  /\ trusted' = TRUE

\* The portal's plate may have moved without p.stonn knowing it: an edit on the
\* council's website, or a write whose confirmation never came.
Elsewhere(p) ==
  /\ portal' = p
  /\ trusted' = FALSE
  /\ UNCHANGED belief

\* The record of a change is lost, or overwritten by an outdated reading.
Lose(b) ==
  /\ belief' = b
  /\ trusted' = FALSE
  /\ UNCHANGED portal

\* A reading of the portal becomes the belief.
Adopt ==
  /\ belief' = portal
  /\ trusted' = TRUE
  /\ UNCHANGED portal

RecordNext ==
  \/ \E p \in Regos : Change(p) \/ Elsewhere(p) \/ Lose(p)
  \/ Adopt

RecordSpec == RecordInit /\ [][RecordNext]_recordVars

\* The promise: a trusted record is the council's own.
TrustedIsTrue == trusted => belief = portal
==============================================================================
