------------------------------ MODULE Households ------------------------------
(***************************************************************************)
(* Who shares whose account (store/accounts.go, server/account.go and the   *)
(* guards in SaveTenantSession and CreateVehicle).  A household is the      *)
(* address it belongs to and up to MaxShared others, invited and then, by   *)
(* their own hand, accepted.  Every mutating request asks the table first   *)
(* whose account it works on (accountForWrite) and writes later: what was   *)
(* true then may not be true any more, and the statements that matter ask   *)
(* again.                                                                   *)
(***************************************************************************)
EXTENDS Naturals, FiniteSets

CONSTANTS
  People, Nobody,
  MaxShared,     \* the cap handed to AddMemberCapped
  Tabs           \* requests on their way at the same time

ASSUME HouseholdAssumption == Nobody \notin People /\ MaxShared \in Nat

VARIABLES
  member,      \* account_member, by member_email: a row of another's household
  linked,      \* people with a council session of their own
  fleet,       \* ... with vehicles
  managing,    \* ... with permits
  prefs,       \* ... with a row in notify_pref
  agreed,      \* ... with a consent on record
  form         \* tab -> the request it has under way

householdVars == <<member, linked, fleet, managing, prefs, agreed, form>>
own == <<linked, fleet, managing>>

NoMember == [of |-> Nobody, pending |-> FALSE]
Accepted(p) == member[p].of # Nobody /\ ~member[p].pending
AccountOf(p) == IF Accepted(p) THEN member[p].of ELSE p
Sharing(o) == {p \in People : member[p].of = o}

Primary == {"invite", "remove", "delete", "link", "unlink", "unpermit"}
Anyone == {"car", "uncar", "permit"}
NoForm == [step |-> "none"]
Form == [step : {"begun", "listed", "offered", "read"}, who : People, owner : People,
         kind : Primary \cup Anyone \cup {"leave", "decline", "accept"}, other : People]

HouseholdTypeOK ==
  /\ member \in [People -> [of : People \cup {Nobody}, pending : BOOLEAN]]
  /\ linked \subseteq People /\ fleet \subseteq People /\ managing \subseteq People
  /\ prefs \subseteq People /\ agreed \subseteq People
  /\ form \in [Tabs -> Form \cup {NoForm}]

HouseholdInit ==
  /\ member = [p \in People |-> NoMember]
  /\ linked = {} /\ fleet = {} /\ managing = {} /\ prefs = {} /\ agreed = {}
  /\ form = [t \in Tabs |-> NoForm]

Under(t, kind) == form[t].step = "begun" /\ form[t].kind = kind
Done(t) == form' = [form EXCEPT ![t] = NoForm]

------------------------------------------------------------------------------
\* accountForWrite: whose account it is, and whether it may be done there at all.
Begin(t, p, kind, q) ==
  /\ form[t].step = "none"
  /\ kind \in Primary => ~Accepted(p)
  /\ kind = "leave" => Accepted(p)
  /\ kind = "invite" => p # q
  /\ kind \notin {"invite", "remove"} => p = q
  /\ kind \in Primary \cup Anyone \cup {"leave", "decline"}
  /\ form' = [form EXCEPT ![t] = [step |-> "begun", who |-> p, owner |-> AccountOf(p), kind |-> kind, other |-> q]]
  /\ UNCHANGED <<member, own, prefs, agreed>>

\* A request that is refused, or whose council call or statement fails.
GiveUpForm(t) ==
  /\ form[t].step # "none" /\ Done(t)
  /\ UNCHANGED <<member, own, prefs, agreed>>

\* AddMemberCapped.  An address with a row already gets the same answer and no row.
Invite(t) ==
  LET f == form[t]
  IN /\ Under(t, "invite") /\ Done(t)
     /\ Cardinality(Sharing(f.owner)) < MaxShared /\ member[f.other] = NoMember
     /\ member' = [member EXCEPT ![f.other] = [of |-> f.owner, pending |-> TRUE]]
     /\ UNCHANGED <<own, prefs, agreed>>

\* Fault: an offer is torn down like a membership.
AnyRow(o, q) == member[q].of = o

\* What a removal may tear down: that of somebody who had access.
HadAccess(o, q) == member[q] = [of |-> o, pending |-> FALSE]

\* RemoveMember.  (Passes and queued mail of theirs: GuestAccess, Outbox.)
RemoveMember(t) ==
  LET f == form[t]
  IN /\ Under(t, "remove") /\ Done(t) /\ member[f.other].of = f.owner
     /\ member' = [member EXCEPT ![f.other] = NoMember]
     /\ prefs' = IF HadAccess(f.owner, f.other) THEN prefs \ {f.other} ELSE prefs
     /\ UNCHANGED <<own, agreed>>

\* RemoveMembership, whatever row there is by then.
Leave0(p) ==
  /\ member' = [member EXCEPT ![p] = NoMember]
  /\ prefs' = IF member[p] = NoMember THEN prefs ELSE prefs \ {p}

LeaveAccount(t) ==
  /\ Under(t, "leave") /\ Done(t) /\ Leave0(form[t].who)
  /\ UNCHANGED <<own, agreed>>

\* declineTerms: a member leaves, anybody else loses the council sessions.
DeclineTerms(t) ==
  LET f == form[t]
  IN /\ Under(t, "decline") /\ Done(t)
     /\ \/ f.owner # f.who /\ Leave0(f.who) /\ UNCHANGED linked
        \/ f.owner = f.who /\ linked' = linked \ {f.who} /\ UNCHANGED <<member, prefs>>
     /\ UNCHANGED <<fleet, managing, agreed>>

\* DeleteAllForOwner.
OwnRowsGo(p) ==
  /\ prefs' = prefs \ ({p} \cup {q \in Sharing(p) : Accepted(q)})
  /\ linked' = linked \ {p} /\ fleet' = fleet \ {p} /\ managing' = managing \ {p}
  /\ agreed' = agreed \ {p}

\* (And, elsewhere: the passes they made with what those have booked, and their name.)
MembersGo(p) ==
  member' = [q \in People |-> IF q = p \/ q \in Sharing(p) THEN NoMember ELSE member[q]]

AccountDelete(t) == Under(t, "delete") /\ Done(t) /\ OwnRowsGo(form[t].who) /\ MembersGo(form[t].who)

\* What SaveTenantSession and CreateVehicle ask once more, within the statement.
MayOwn(p) == ~Accepted(p)

\* Fault: what accountForWrite has found is relied on.
MayOwnStill(p) == p \in People

HoldsSession(p) == MayOwn(p)
HoldsVehicle(p) == MayOwn(p)

\* The council has taken the password; SaveTenantSession.
LinkSession(t) ==
  /\ Under(t, "link") /\ Done(t) /\ HoldsSession(form[t].who)
  /\ linked' = linked \cup {form[t].who}
  /\ UNCHANGED <<member, fleet, managing, prefs, agreed>>

UnlinkSession(t) ==
  /\ Under(t, "unlink") /\ Done(t) /\ linked' = linked \ {form[t].who}
  /\ UNCHANGED <<member, fleet, managing, prefs, agreed>>

CreateVehicle(t) ==
  /\ Under(t, "car") /\ Done(t) /\ HoldsVehicle(form[t].owner)
  /\ fleet' = fleet \cup {form[t].owner}
  /\ UNCHANGED <<member, linked, managing, prefs, agreed>>

LastVehicleGoes(t) ==
  /\ Under(t, "uncar") /\ Done(t) /\ fleet' = fleet \ {form[t].owner}
  /\ UNCHANGED <<member, linked, managing, prefs, agreed>>

\* addPermit: the council's list is read with the session of the account ...
ListPermits(t) ==
  /\ Under(t, "permit") /\ form[t].owner \in linked
  /\ form' = [form EXCEPT ![t].step = "listed"]
  /\ UNCHANGED <<member, own, prefs, agreed>>

\* ... and UpsertPermit asks nothing.
UpsertPermit(t) ==
  /\ form[t].step = "listed" /\ Done(t) /\ managing' = managing \cup {form[t].owner}
  /\ UNCHANGED <<member, linked, fleet, prefs, agreed>>

LastPermitGoes(t) ==
  /\ Under(t, "unpermit") /\ Done(t) /\ managing' = managing \ {form[t].owner}
  /\ UNCHANGED <<member, linked, fleet, prefs, agreed>>

------------------------------------------------------------------------------
(* The invited.                                                             *)

\* The page that shows an invitation, and from whom.
ShowInvite(t, p) ==
  /\ form[t].step = "none" /\ member[p].pending
  /\ form' = [form EXCEPT ![t] = [step |-> "offered", who |-> p, owner |-> member[p].of,
                                  kind |-> "accept", other |-> p]]
  /\ UNCHANGED <<member, own, prefs, agreed>>

\* acceptInvite: PendingInvite, IsPrimary, HasOwnData.
ReadInvite(t) ==
  LET f == form[t]
  IN /\ f.step = "offered" /\ member[f.who] = [of |-> f.owner, pending |-> TRUE]
     /\ Sharing(f.who) = {} /\ f.who \notin linked \cup fleet \cup managing
     /\ form' = [form EXCEPT ![t].step = "read"]
     /\ UNCHANGED <<member, own, prefs, agreed>>

\* Fault: any offer will do.
SomeOffer(p, o) == o \in People /\ member[p].pending

\* The conditions of the statement in AcceptInvite.
StillFree(p) == Sharing(p) = {} /\ p \notin linked \cup fleet \cup managing
StillOffered(p, o) == member[p] = [of |-> o, pending |-> TRUE]

AcceptInvite(t) ==
  LET f == form[t]
  IN /\ f.step = "read" /\ Done(t)
     /\ StillOffered(f.who, f.owner) /\ StillFree(f.who)
     /\ member' = [member EXCEPT ![f.who].pending = FALSE]
     /\ UNCHANGED <<own, prefs, agreed>>

DeclineInvite(p) ==
  /\ member[p].pending /\ member' = [member EXCEPT ![p] = NoMember]
  /\ UNCHANGED <<own, prefs, agreed, form>>

\* acceptTerms; and settings saved, for the person and not for the account.
AcceptTerms(p) ==
  /\ p \notin agreed /\ agreed' = agreed \cup {p}
  /\ UNCHANGED <<member, own, prefs, form>>

SavePrefs(p) ==
  /\ p \notin prefs /\ prefs' = prefs \cup {p}
  /\ UNCHANGED <<member, own, agreed, form>>

------------------------------------------------------------------------------
PeopleAct ==
  \/ \E t \in Tabs, p, q \in People, kind \in Primary \cup Anyone \cup {"leave", "decline"} : Begin(t, p, kind, q)
  \/ \E t \in Tabs, p \in People : ShowInvite(t, p)
  \/ \E p \in People : DeclineInvite(p) \/ AcceptTerms(p) \/ SavePrefs(p)

FormsMove ==
  \E t \in Tabs :
    \/ GiveUpForm(t) \/ Invite(t) \/ RemoveMember(t) \/ LeaveAccount(t) \/ DeclineTerms(t)
    \/ AccountDelete(t) \/ LinkSession(t) \/ UnlinkSession(t) \/ CreateVehicle(t) \/ LastVehicleGoes(t)
    \/ ListPermits(t) \/ UpsertPermit(t) \/ LastPermitGoes(t) \/ ReadInvite(t) \/ AcceptInvite(t)

HouseholdNext == PeopleAct \/ FormsMove

\* The component by itself.
HouseholdSpec == HouseholdInit /\ [][HouseholdNext]_householdVars

------------------------------------------------------------------------------
(* Properties.                                                              *)

\* Nobody shares another's account and holds a council session or vehicles of their own,
\* which no page would show: "the two guards together must hold whichever way the race
\* falls" (SaveTenantSession, CreateVehicle, AcceptInvite).
SharingHidesNothing == \A p \in People : Accepted(p) => p \notin linked \cup fleet

\* An offer gives its household no hold on the invited: settings go by the hand of their
\* owner, or of a household they had joined (RemoveMember, DeleteAllForOwner).
PrefsAreTheirs ==
  [][\A p \in prefs \ prefs' : \E t \in Tabs :
       /\ form[t] # NoForm /\ form'[t] = NoForm
       /\ form[t].who = p \/ member[p] = [of |-> form[t].owner, pending |-> FALSE]]_householdVars

\* Who joins joins the household whose invitation they were shown, and which has not
\* taken it back (AcceptInvite).
JoinsAsShown ==
  [][\A p \in People : ~Accepted(p) /\ Accepted(p)' =>
       \E t \in Tabs : form[t].step = "read" /\ form[t].who = p /\ member'[p].of = form[t].owner
                       /\ member[p] = [of |-> form[t].owner, pending |-> TRUE]]_householdVars
==============================================================================
