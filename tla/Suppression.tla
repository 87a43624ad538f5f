----------------------------- MODULE Suppression -----------------------------
(***************************************************************************)
(* The list of addresses p.stonn does not write to (store/suppression.go). *)
(* An address comes onto it by a bounce, by a complaint that its owner's   *)
(* mail provider reports, or by the unsubscribe link in a mail; the        *)
(* strongest reason on record wins, since each reason has a way off the    *)
(* list of its own, and a complaint has none.                              *)
(***************************************************************************)
EXTENDS Naturals

CONSTANT Addresses

Reasons == {"unsubscribed", "bounce", "complaint"}

VARIABLES listed,       \* the reason on the list for an address, or "free"
          complained    \* addresses whose owner has reported us (history)

suppVars == <<listed, complained>>

SuppTypeOK ==
  /\ listed \in [Addresses -> Reasons \cup {"free"}]
  /\ complained \subseteq Addresses

SuppInit == listed = [a \in Addresses |-> "free"] /\ complained = {}

Rank(r) == CASE r = "complaint" -> 3 [] r = "bounce" -> 2
             [] r = "unsubscribed" -> 1 [] OTHER -> 0

\* SuppressAddress: what the row says once reason r is reported of address a.
Stronger(a, r) == [listed EXCEPT ![a] = IF Rank(r) >= Rank(@) THEN r ELSE @]

\* Fault: the newest report wins.
Newest(a, r) == [listed EXCEPT ![a] = r]

Suppressed(a, r) == Stronger(a, r)

\* The one-click link of a mail, pressed by anyone who holds it.
Unsubscribe(a) ==
  /\ listed' = Suppressed(a, "unsubscribed")
  /\ UNCHANGED complained

\* A signed report that the address is dead, as often as it is redelivered.
ReportBounce(a) ==
  /\ listed' = Suppressed(a, "bounce")
  /\ UNCHANGED complained

ReportComplaint(a) ==
  /\ listed' = Suppressed(a, "complaint")
  /\ complained' = complained \cup {a}

\* Turning email on in Settings, or the banner's button: the member's own
\* unsubscribe is undone, and nothing else is.
Resubscribe(a) ==
  /\ listed[a] = "unsubscribed"
  /\ listed' = [listed EXCEPT ![a] = "free"]
  /\ UNCHANGED complained

\* Two years on.  Complaints are kept.
PruneSuppression(a) ==
  /\ listed[a] \in {"unsubscribed", "bounce"}
  /\ listed' = [listed EXCEPT ![a] = "free"]
  /\ UNCHANGED complained

\* The owner of the address deletes the account: a later account of theirs owes
\* nothing to this one, a complaint included (DeleteAllForOwner).
ForgetAddress(a) ==
  /\ listed' = [listed EXCEPT ![a] = "free"]
  /\ complained' = complained \ {a}

\* sendEmailAs: an unsubscribe does not stop a safety notice.
Muted(a, critical) ==
  listed[a] # "free" /\ ~(critical /\ listed[a] = "unsubscribed")

ListChanges(a) ==
  \/ Unsubscribe(a) \/ ReportBounce(a) \/ ReportComplaint(a)
  \/ Resubscribe(a) \/ PruneSuppression(a) \/ ForgetAddress(a)

------------------------------------------------------------------------------
\* Someone who has reported p.stonn is not written to again, whatever else is
\* reported of the address afterwards, however often Settings are saved and
\* however old the row is, until they delete their account (SuppressAddress).
ComplaintStands == \A a \in complained : listed[a] = "complaint"
==============================================================================
