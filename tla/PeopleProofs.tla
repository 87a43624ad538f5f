------------------------------ MODULE PeopleProofs ------------------------------
(***************************************************************************)
(* Theorems about the people of a household: who is in it (Households), how *)
(* one of them is reached (Channels), what all of them are told             *)
(* (ApplyNotice, Fanout), how they are signed in (WebSessions) and which     *)
(* council they are at (TenantMemo).  In each of these a value is read, and  *)
(* used after others have moved on: every invariant says what is still true  *)
(* of such a value when it is used.                                          *)
(***************************************************************************)
EXTENDS Households, Channels, ApplyNotice, Fanout, WebSessions, TenantMemo,
        WellFoundedInduction, TLAPS

------------------------------------------------------------------------------
(* Who shares whose account.                                                *)

\* A request which only the account's own person may make was let in for that account.
OwnAccount ==
  \A t \in Tabs : form[t].step # "none" /\ form[t].kind \in Primary => form[t].owner = form[t].who

\* An offer is somebody's.
Offers == \A p \in People : member[p].pending => member[p].of \in People

HouseholdInv == HouseholdTypeOK /\ SharingHidesNothing /\ OwnAccount /\ Offers

------------------------------------------------------------------------------
(* How one person is reached.                                               *)

\* Mail is on, or pushes to a topic that was seen on a device; and a stamp is for one.
Heeded(row, seen) ==
  /\ row.email \/ (row.push /\ row.topic \in seen)
  /\ row.stamp => row.topic \in seen

\* So it is with the row, and with each row a form is about to write.
ChannelInv ==
  /\ ChannelTypeOK
  /\ ~astray => Heeded(Pref, reached)
  /\ ~astray => \A f \in Forms : work[f].todo = "write" => Heeded(work[f].row, reached)

------------------------------------------------------------------------------
(* What a household is told of a permit.                                    *)

Attempt == [todo : SUBSET Household, wish : [Household -> Wish] \cup {<<>>}, failed : BOOLEAN,
            count : {0, 1}, on : BOOLEAN]

\* A notice to act on is put off for nobody and passes nobody over; who is remembered has
\* had it, and is remembered while the process lives; an attempt without a failure has
\* told everybody it has come to.
Fated(m) ==
  /\ sort = "action" => told[m] \in {"not", "once", "twice", "capped"}
  /\ m \in reachedBy => told[m] \in {"once", "queued", "twice"}
  /\ clean /\ ~onRecord /\ told[m] \in {"once", "queued"} => m \in reachedBy
  /\ attempt.on /\ ~attempt.failed /\ m \notin attempt.todo => told[m] # "not"

NoticeInv ==
  /\ NoticeTypeOK /\ attempt \in Attempt
  /\ attempt.on => attempt.wish \in [Household -> Wish] /\ ~onRecord
  /\ OneCopyEach /\ RecordMeansTold
  /\ \A m \in Household : Fated(m)

------------------------------------------------------------------------------
(* What everybody is told.                                                  *)

\* The others have theirs, as the notice says, or it failed ...
Served(m) ==
  /\ steady /\ (ReadTwice => lost = {}) =>
       \A way \in Ways : way \in named[m] <=> <<m, way>> \in issued \cup lost
  /\ MustReach /\ ~ReadTwice => <<m, "mail">> \in issued \cup lost

\* ... and those still to come have nothing.
Unserved(m) == \A way \in Ways : <<m, way>> \notin outbox \cup issued \cup lost

FanoutInv ==
  /\ FanoutTypeOK
  /\ acted # {} => notice = "change"
  /\ phase \in {"start", "named"} => \A m \in Sharers : Unserved(m)
  /\ steady /\ phase # "start" => copy = says /\ \A m \in Sharers : named[m] = WaysFor(m, says[m])
  /\ phase = "sending" => \A m \in Sharers : IF m \in toTell THEN Unserved(m) ELSE Served(m)
  /\ phase = "over" => \A m \in Sharers : Served(m)
  /\ \A m \in acted, way \in Ways : <<m, way>> \notin issued

------------------------------------------------------------------------------
(* How a person is signed in.                                               *)

\* A cookie knows when its session began; its epoch is no later than the person's when
\* they signed in, and what is left of it lasts until half a life after the last visit.
Sound(c) ==
  /\ c \in Cookie /\ c.since = c.iat
  /\ ~c.raced => c.ep <= c.born
  /\ c.steady => 2 * c.gap < Ttl /\ Ttl <= 2 * (c.exp + c.gap)

\* Revocations known in their order leave the last of them in force.
Revocations == inOrder => \A n \in done : n <= known

WebInv ==
  /\ WebTypeOK /\ Revocations
  /\ \A b \in Browsers : cookie[b] # NoCookie => Sound(cookie[b])
  /\ \A b \in Browsers : renewing[b] # NoCookie => Sound(renewing[b])

------------------------------------------------------------------------------
(* Which council a household is at.                                         *)

\* An answer nobody has counted up since, and the memo, are right, unless a writer is on
\* its way to say that they are not.
MemoInv ==
  /\ MemoTypeOK
  /\ \A r \in Resolvers : resolver[r].pc \in {"answered", "checked"} /\ ~resolver[r].moved =>
       resolver[r].id = CurrentTenant \/ \E w \in Choosers : chooser[w] = "written"
  /\ memo # NoTenant /\ ~overtaken =>
       memo = CurrentTenant \/ \E w \in Choosers : chooser[w] # "away"
HouseholdRows == [of : People \cup {Nobody}, pending : BOOLEAN]

\* A tab with a request under way holds a whole one.
LEMMA FormIsWhole ==
  ASSUME HouseholdTypeOK, NEW t \in Tabs, form[t].step # "none"
  PROVE  /\ form[t] \in Form /\ form[t].who \in People /\ form[t].owner \in People
         /\ form[t].other \in People
<1>1. form[t] \in Form \cup {NoForm}
  BY DEF HouseholdTypeOK
<1>2. form[t] \in Form
  BY <1>1 DEF NoForm
<1> QED
  BY <1>2 DEF Form

LEMMA HouseholdStarts == HouseholdInit => HouseholdInv
<1> SUFFICES ASSUME HouseholdInit
             PROVE  HouseholdInv
  OBVIOUS
<1>1. HouseholdTypeOK
  BY SMT DEF HouseholdInit, HouseholdTypeOK, NoMember, NoForm
<1>2. SharingHidesNothing /\ OwnAccount /\ Offers
  BY DEF HouseholdInit, SharingHidesNothing, OwnAccount, Offers, NoMember, Accepted, NoForm
<1> QED
  BY <1>1, <1>2 DEF HouseholdInv

\* Whose account it is, is somebody.
LEMMA AccountIsSomebody ==
  ASSUME HouseholdTypeOK, NEW p \in People
  PROVE  /\ AccountOf(p) \in People /\ member[p] \in HouseholdRows
         /\ ~Accepted(p) => AccountOf(p) = p
<1>1. member[p] \in HouseholdRows
  BY DEF HouseholdTypeOK, HouseholdRows
<1>2. member[p].of \in People \cup {Nobody}
  BY <1>1 DEF HouseholdRows
<1> QED
  BY <1>1, <1>2 DEF AccountOf, Accepted

\* What a step makes of the tabs: one ends its request, goes a step on with it, or
\* begins one; in each case the request is the account's own where it has to be.
LEMMA TabMoves ==
  ASSUME HouseholdInv, NEW t \in Tabs
  PROVE  /\ Done(t) => form' \in [Tabs -> Form \cup {NoForm}] /\ OwnAccount'
         /\ \A s \in {"listed", "read"} : form[t].step # "none" /\ form' = [form EXCEPT ![t].step = s]
              => form' \in [Tabs -> Form \cup {NoForm}] /\ OwnAccount'
         /\ \A f \in Form : (f.kind \in Primary => f.owner = f.who) /\ form' = [form EXCEPT ![t] = f]
              => form' \in [Tabs -> Form \cup {NoForm}] /\ OwnAccount'
<1> USE DEF HouseholdInv, HouseholdTypeOK
<1>1. Done(t) => form' \in [Tabs -> Form \cup {NoForm}] /\ OwnAccount'
  BY DEF Done, OwnAccount, NoForm
<1>2. ASSUME NEW s \in {"listed", "read"}, form[t].step # "none", form' = [form EXCEPT ![t].step = s]
      PROVE  form' \in [Tabs -> Form \cup {NoForm}] /\ OwnAccount'
  <2>1. form[t] \in Form
    BY <1>2, FormIsWhole
  <2> DEFINE g == [form[t] EXCEPT !.step = s]
  <2>2. g \in Form /\ g.kind = form[t].kind /\ g.owner = form[t].owner /\ g.who = form[t].who
    BY <2>1 DEF Form
  <2>3. form' = [form EXCEPT ![t] = g]
    BY <1>2
  <2> HIDE DEF g
  <2> QED
    BY <1>2, <2>2, <2>3 DEF OwnAccount
<1>3. ASSUME NEW f \in Form, f.kind \in Primary => f.owner = f.who, form' = [form EXCEPT ![t] = f]
      PROVE  form' \in [Tabs -> Form \cup {NoForm}] /\ OwnAccount'
  BY <1>3 DEF OwnAccount
<1> QED
  BY <1>1, <1>2, <1>3

\* The table after a step, and that nobody has come to share an account by it.
Rows0 == member' \in [People -> HouseholdRows] /\ Offers'
NobodyJoins == \A q \in People : Accepted(q)' => Accepted(q)

\* What a step makes of the table: one row goes, one offer is made, one is taken up, or
\* a whole household goes.
LEMMA RowMoves ==
  ASSUME HouseholdInv, NEW p \in People
  PROVE  /\ member' = [member EXCEPT ![p] = NoMember] => Rows0 /\ NobodyJoins
         /\ \A o \in People : member' = [member EXCEPT ![p] = [of |-> o, pending |-> TRUE]]
                                => Rows0 /\ NobodyJoins
         /\ member' = [member EXCEPT ![p].pending = FALSE]
              => Rows0 /\ \A q \in People : Accepted(q)' => Accepted(q) \/ q = p
         /\ MembersGo(p) => Rows0 /\ NobodyJoins
         /\ UNCHANGED member => Rows0 /\ NobodyJoins
<1> USE DEF HouseholdInv, HouseholdTypeOK, HouseholdRows, Accepted, Offers, Rows0, NobodyJoins
<1>1. NoMember \in HouseholdRows /\ NoMember.of = Nobody /\ NoMember.pending = FALSE
  BY DEF NoMember
<1>3. member' = [member EXCEPT ![p] = NoMember] => Rows0 /\ NobodyJoins
  BY <1>1
<1>4. ASSUME NEW o \in People, member' = [member EXCEPT ![p] = [of |-> o, pending |-> TRUE]]
      PROVE  Rows0 /\ NobodyJoins
  <2> DEFINE g == [of |-> o, pending |-> TRUE]
  <2>1. g \in HouseholdRows /\ g.of = o /\ g.pending = TRUE
    OBVIOUS
  <2>2. member' = [member EXCEPT ![p] = g]
    BY <1>4
  <2> HIDE DEF g
  <2> QED
    BY <2>1, <2>2
<1>5. ASSUME member' = [member EXCEPT ![p].pending = FALSE]
      PROVE  Rows0 /\ \A q \in People : Accepted(q)' => Accepted(q) \/ q = p
  <2> DEFINE g == [member[p] EXCEPT !.pending = FALSE]
  <2>1. g \in HouseholdRows
    BY Zenon DEF HouseholdRows
  <2>2. g.pending = FALSE
    BY <2>1
  <2>3. member' = [member EXCEPT ![p] = g]
    BY <1>5
  <2> HIDE DEF g
  <2> QED
    BY <2>1, <2>2, <2>3
<1>6. MembersGo(p) => Rows0 /\ NobodyJoins
  BY <1>1 DEF MembersGo
<1>7. UNCHANGED member => Rows0 /\ NobodyJoins
  OBVIOUS
<1> QED
  BY <1>3, <1>4, <1>5, <1>6, <1>7

\* A step by which nobody joins, and nobody comes to own anything, hides nothing.
LEMMA StillHidesNothing ==
  ASSUME HouseholdInv, NobodyJoins, linked' \subseteq linked, fleet' \subseteq fleet
  PROVE  SharingHidesNothing'
BY DEF HouseholdInv, SharingHidesNothing, NobodyJoins

\* The invariant goes on, for each form and each edit that comes between.
LEMMA HouseholdSteps == HouseholdInv /\ [HouseholdNext]_householdVars => HouseholdInv'
<1> SUFFICES ASSUME HouseholdInv, [HouseholdNext]_householdVars
             PROVE  HouseholdInv'
  OBVIOUS
<1> DEFINE Sets == /\ linked' \subseteq People /\ fleet' \subseteq People /\ managing' \subseteq People
                   /\ prefs' \subseteq People /\ agreed' \subseteq People
           Tabs0 == form' \in [Tabs -> Form \cup {NoForm}] /\ OwnAccount'
           Still == Rows0 /\ NobodyJoins
<1>a. HouseholdTypeOK
  BY DEF HouseholdInv
<1>b. ASSUME NEW t \in Tabs, form[t].step # "none"
      PROVE  /\ form[t] \in Form /\ form[t].who \in People /\ form[t].owner \in People
             /\ form[t].other \in People
  BY <1>a, <1>b, FormIsWhole
<1>c. ASSUME NEW t \in Tabs, NEW kind, Under(t, kind)
      PROVE  /\ form[t] \in Form /\ form[t].who \in People /\ form[t].owner \in People
             /\ form[t].other \in People /\ form[t].kind = kind
             /\ kind \in Primary => form[t].owner = form[t].who
  BY <1>b, <1>c DEF Under, HouseholdInv, OwnAccount
<1>d. ASSUME NEW t \in Tabs, Done(t)
      PROVE  Tabs0
  BY <1>d, TabMoves
<1>e. ASSUME Rows0, Tabs0, Sets, SharingHidesNothing'
      PROVE  HouseholdInv'
  BY <1>e DEF HouseholdInv, HouseholdTypeOK, Rows0, HouseholdRows
<1>f. ASSUME Still, Tabs0, Sets, linked' \subseteq linked, fleet' \subseteq fleet
      PROVE  HouseholdInv'
  BY <1>f, <1>e, StillHidesNothing
<1>g. ASSUME UNCHANGED <<linked, fleet, managing, prefs, agreed>>
      PROVE  Sets /\ linked' \subseteq linked /\ fleet' \subseteq fleet
  BY <1>a, <1>g DEF HouseholdTypeOK
<1>h. ASSUME UNCHANGED member
      PROVE  Still
  <2>1. CASE People = {}
    BY <1>a, <1>h, <2>1 DEF Rows0, NobodyJoins, Offers, HouseholdTypeOK, HouseholdRows
  <2>2. CASE People # {}
    BY <1>h, <2>2, RowMoves
  <2> QED
    BY <2>1, <2>2
<1>1. ASSUME NEW t \in Tabs, NEW p \in People, NEW q \in People,
             NEW kind \in Primary \cup Anyone \cup {"leave", "decline"}, Begin(t, p, kind, q)
      PROVE  HouseholdInv'
  <2> DEFINE f == [step |-> "begun", who |-> p, owner |-> AccountOf(p), kind |-> kind, other |-> q]
  <2>1. f \in Form /\ (f.kind \in Primary => f.owner = f.who)
    BY <1>1, <1>a, AccountIsSomebody DEF Begin, Form
  <2>2. form' = [form EXCEPT ![t] = f]
    BY <1>1 DEF Begin
  <2>3. Tabs0
    <3> HIDE DEF f
    <3> QED
      BY <2>1, <2>2, TabMoves
  <2> QED
    BY <1>1, <2>3, <1>f, <1>g, <1>h DEF Begin, own
<1>2. ASSUME NEW t \in Tabs, NEW p \in People, ShowInvite(t, p)
      PROVE  HouseholdInv'
  <2> DEFINE f == [step |-> "offered", who |-> p, owner |-> member[p].of, kind |-> "accept", other |-> p]
  <2>1. f \in Form /\ f.kind \notin Primary
    BY <1>2 DEF ShowInvite, Form, HouseholdInv, Offers, Primary
  <2>2. form' = [form EXCEPT ![t] = f]
    BY <1>2 DEF ShowInvite
  <2>3. Tabs0
    <3> HIDE DEF f
    <3> QED
      BY <2>1, <2>2, TabMoves
  <2> QED
    BY <1>2, <2>3, <1>f, <1>g, <1>h DEF ShowInvite, own
<1>3. ASSUME NEW p \in People, DeclineInvite(p)
      PROVE  HouseholdInv'
  <2>1. Still
    BY <1>3, RowMoves DEF DeclineInvite
  <2>2. Tabs0
    BY <1>3, <1>a DEF DeclineInvite, HouseholdInv, HouseholdTypeOK, OwnAccount
  <2> QED
    BY <1>3, <2>1, <2>2, <1>f, <1>g DEF DeclineInvite, own
<1>4. ASSUME NEW p \in People, AcceptTerms(p) \/ SavePrefs(p)
      PROVE  HouseholdInv'
  <2>1. UNCHANGED <<member, linked, fleet, managing, form>> /\ agreed' \cup prefs' \subseteq People
    BY <1>4, <1>a DEF AcceptTerms, SavePrefs, own, HouseholdTypeOK
  <2>2. Tabs0
    BY <2>1, <1>a DEF HouseholdInv, HouseholdTypeOK, OwnAccount
  <2> QED
    BY <1>a, <2>1, <2>2, <1>f, <1>h DEF HouseholdTypeOK
<1>5. ASSUME NEW t \in Tabs, GiveUpForm(t)
      PROVE  HouseholdInv'
  BY <1>5, <1>d, <1>f, <1>g, <1>h DEF GiveUpForm, own
<1>6. ASSUME NEW t \in Tabs, Invite(t)
      PROVE  HouseholdInv'
  <2>1. Still
    BY <1>6, <1>c, RowMoves DEF Invite
  <2> QED
    BY <1>6, <2>1, <1>d, <1>f, <1>g DEF Invite, own
<1>7. ASSUME NEW t \in Tabs, RemoveMember(t)
      PROVE  HouseholdInv'
  <2>1. Still
    BY <1>7, <1>c, RowMoves DEF RemoveMember
  <2>2. Sets /\ linked' \subseteq linked /\ fleet' \subseteq fleet
    BY <1>7, <1>a DEF RemoveMember, own, HouseholdTypeOK
  <2> QED
    BY <1>7, <2>1, <2>2, <1>d, <1>f DEF RemoveMember
<1>8. ASSUME NEW p \in People, Leave0(p), UNCHANGED <<fleet, managing, agreed>>, linked' \subseteq linked,
             Tabs0
      PROVE  HouseholdInv'
  <2>1. Still
    BY <1>8, RowMoves DEF Leave0
  <2>2. Sets
    BY <1>8, <1>a DEF Leave0, HouseholdTypeOK
  <2> QED
    BY <1>8, <2>1, <2>2, <1>f
<1>9. ASSUME NEW t \in Tabs, LeaveAccount(t)
      PROVE  HouseholdInv'
  BY <1>8, <1>9, <1>c, <1>d DEF LeaveAccount, own
<1>10. ASSUME NEW t \in Tabs, DeclineTerms(t)
       PROVE  HouseholdInv'
  <2>1. Tabs0 /\ form[t].who \in People
    BY <1>10, <1>c, <1>d DEF DeclineTerms
  <2>2. CASE Leave0(form[t].who) /\ UNCHANGED linked
    BY <1>8, <1>10, <2>1, <2>2 DEF DeclineTerms
  <2>3. CASE linked' = linked \ {form[t].who} /\ UNCHANGED <<member, prefs>>
    BY <1>10, <1>a, <1>f, <1>h, <2>1, <2>3 DEF DeclineTerms, HouseholdTypeOK
  <2> QED
    BY <1>10, <2>2, <2>3 DEF DeclineTerms
<1>11. ASSUME NEW t \in Tabs, AccountDelete(t)
       PROVE  HouseholdInv'
  <2>1. Still
    BY <1>11, <1>c, RowMoves DEF AccountDelete
  <2>2. Sets /\ linked' \subseteq linked /\ fleet' \subseteq fleet
    BY <1>11, <1>a DEF AccountDelete, OwnRowsGo, HouseholdTypeOK
  <2> QED
    BY <1>11, <2>1, <2>2, <1>d, <1>f DEF AccountDelete
<1>12. ASSUME NEW t \in Tabs, LinkSession(t)
       PROVE  HouseholdInv'
  <2>1. Sets /\ SharingHidesNothing'
    BY <1>12, <1>a, <1>c DEF LinkSession, HouseholdTypeOK, HouseholdInv, SharingHidesNothing, Accepted,
                             HoldsSession, MayOwn
  <2> QED
    BY <1>12, <2>1, <1>d, <1>e, <1>h DEF LinkSession
<1>13. ASSUME NEW t \in Tabs, CreateVehicle(t)
       PROVE  HouseholdInv'
  <2>1. Sets /\ SharingHidesNothing'
    BY <1>13, <1>a, <1>c DEF CreateVehicle, HouseholdTypeOK, HouseholdInv, SharingHidesNothing, Accepted,
                             HoldsVehicle, MayOwn
  <2> QED
    BY <1>13, <2>1, <1>d, <1>e, <1>h DEF CreateVehicle
<1>14. ASSUME NEW t \in Tabs, UnlinkSession(t) \/ LastVehicleGoes(t) \/ LastPermitGoes(t)
       PROVE  HouseholdInv'
  <2>1. /\ UNCHANGED <<member, prefs, agreed>> /\ Done(t) /\ managing' \subseteq managing
        /\ linked' \subseteq linked /\ fleet' \subseteq fleet
    BY <1>14 DEF UnlinkSession, LastVehicleGoes, LastPermitGoes
  <2> QED
    BY <2>1, <1>a, <1>d, <1>f, <1>h DEF HouseholdTypeOK
<1>15. ASSUME NEW t \in Tabs, ListPermits(t) \/ ReadInvite(t)
       PROVE  HouseholdInv'
  <2>1. Tabs0
    BY <1>15, TabMoves DEF ListPermits, ReadInvite, Under
  <2> QED
    BY <1>15, <2>1, <1>f, <1>g, <1>h DEF ListPermits, ReadInvite, own
<1>16. ASSUME NEW t \in Tabs, UpsertPermit(t)
       PROVE  HouseholdInv'
  <2>1. Sets /\ linked' \subseteq linked /\ fleet' \subseteq fleet
    BY <1>16, <1>a, <1>b DEF UpsertPermit, HouseholdTypeOK
  <2> QED
    BY <1>16, <2>1, <1>d, <1>f, <1>h DEF UpsertPermit
<1>17. ASSUME NEW t \in Tabs, AcceptInvite(t)
       PROVE  HouseholdInv'
  <2>1. Rows0 /\ \A q \in People : Accepted(q)' => Accepted(q) \/ q = form[t].who
    BY <1>17, <1>b, RowMoves DEF AcceptInvite
  <2>2. SharingHidesNothing'
    BY <1>17, <2>1 DEF AcceptInvite, HouseholdInv, SharingHidesNothing, StillFree, own
  <2> QED
    BY <1>17, <2>1, <2>2, <1>d, <1>e, <1>g DEF AcceptInvite, own
<1>18. ASSUME UNCHANGED householdVars
       PROVE  HouseholdInv'
  <2>1. Tabs0
    BY <1>18, <1>a DEF householdVars, HouseholdInv, HouseholdTypeOK, OwnAccount
  <2> QED
    BY <1>18, <2>1, <1>f, <1>g, <1>h DEF householdVars
<1> QED
  <2> HIDE DEF Tabs0, Sets, Still
  <2> QED
    BY <1>1, <1>2, <1>3, <1>4, <1>5, <1>6, <1>7, <1>9, <1>10, <1>11, <1>12, <1>13, <1>14, <1>15, <1>16,
       <1>17, <1>18 DEF HouseholdNext, PeopleAct, FormsMove
\* Nobody shares an account while they have a council session or vehicles of their own,
\* whoever accepts, links and adds at the same time (SaveTenantSession, CreateVehicle,
\* AcceptInvite).
THEOREM NothingIsHidden == HouseholdSpec => []SharingHidesNothing
<1>1. HouseholdInv => SharingHidesNothing
  BY DEF HouseholdInv
<1> QED
  BY <1>1, HouseholdStarts, HouseholdSteps, PTL DEF HouseholdSpec

\* A step that takes a row of settings is the end of a request of its owner, or of the
\* household they had joined.
LEMMA PrefsGoByTheirs ==
  ASSUME HouseholdInv, [HouseholdNext]_householdVars, NEW p \in prefs \ prefs'
  PROVE  \E t \in Tabs :
           /\ form[t] # NoForm /\ form'[t] = NoForm
           /\ form[t].who = p \/ member[p] = [of |-> form[t].owner, pending |-> FALSE]
<1> DEFINE Whose(t) == /\ form[t] # NoForm /\ form'[t] = NoForm
                       /\ form[t].who = p \/ member[p] = [of |-> form[t].owner, pending |-> FALSE]
<1>a. HouseholdTypeOK /\ p \in People /\ member[p] \in HouseholdRows
  BY DEF HouseholdInv, HouseholdTypeOK, HouseholdRows
<1>b. ASSUME NEW t \in Tabs, NEW kind, Under(t, kind), Done(t)
      PROVE  form[t] # NoForm /\ form'[t] = NoForm /\ (kind \in Primary => form[t].owner = form[t].who)
  BY <1>a, <1>b DEF Under, Done, NoForm, HouseholdTypeOK, HouseholdInv, OwnAccount
<1>1. ASSUME NEW t \in Tabs, RemoveMember(t)
      PROVE  Whose(t)
  BY <1>1, <1>b DEF RemoveMember, HadAccess
<1>2. ASSUME NEW t \in Tabs, LeaveAccount(t) \/ DeclineTerms(t)
      PROVE  Whose(t)
  <2>1. form[t] # NoForm /\ form'[t] = NoForm
    BY <1>2, <1>b DEF LeaveAccount, DeclineTerms
  <2> QED
    BY <1>2, <2>1 DEF LeaveAccount, DeclineTerms, Leave0
<1>3. ASSUME NEW t \in Tabs, AccountDelete(t)
      PROVE  Whose(t)
  <2>1. form[t] # NoForm /\ form'[t] = NoForm /\ form[t].owner = form[t].who
    BY <1>3, <1>b DEF AccountDelete, Primary
  <2>2. CASE p # form[t].who
    <3>1. member[p].of = form[t].who /\ Accepted(p)
      BY <1>3, <2>2 DEF AccountDelete, OwnRowsGo, Sharing
    <3>2. member[p].pending = FALSE
      BY <1>a, <3>1 DEF Accepted, HouseholdRows
    <3>3. member[p] = [of |-> form[t].owner, pending |-> FALSE]
      BY <1>a, <2>1, <3>1, <3>2 DEF HouseholdRows
    <3> QED
      BY <2>1, <3>3
  <2> QED
    BY <2>1, <2>2
<1>4. \E t \in Tabs : Whose(t)
  <2>1. ~ \E t \in Tabs : \/ GiveUpForm(t) \/ Invite(t) \/ LinkSession(t) \/ UnlinkSession(t)
                          \/ CreateVehicle(t) \/ LastVehicleGoes(t) \/ ListPermits(t) \/ UpsertPermit(t)
                          \/ LastPermitGoes(t) \/ ReadInvite(t) \/ AcceptInvite(t)
    BY DEF GiveUpForm, Invite, LinkSession, UnlinkSession, CreateVehicle, LastVehicleGoes, ListPermits,
           UpsertPermit, LastPermitGoes, ReadInvite, AcceptInvite
  <2>2. ~PeopleAct /\ ~(UNCHANGED householdVars)
    BY DEF PeopleAct, Begin, ShowInvite, DeclineInvite, AcceptTerms, SavePrefs, householdVars
  <2>3. \E t \in Tabs : RemoveMember(t) \/ LeaveAccount(t) \/ DeclineTerms(t) \/ AccountDelete(t)
    BY <2>1, <2>2 DEF HouseholdNext, FormsMove
  <2> HIDE DEF Whose
  <2> QED
    BY <2>3, <1>1, <1>2, <1>3
<1> QED
  BY <1>4

\* An offer gives its household no hold on the settings of the invited (RemoveMember,
\* DeleteAllForOwner).
THEOREM SettingsAreTheirs == HouseholdSpec => PrefsAreTheirs
<1>1. HouseholdInv /\ [HouseholdNext]_householdVars =>
        [\A p \in prefs \ prefs' : \E t \in Tabs :
           /\ form[t] # NoForm /\ form'[t] = NoForm
           /\ form[t].who = p \/ member[p] = [of |-> form[t].owner, pending |-> FALSE]]_householdVars
  BY PrefsGoByTheirs
<1> QED
  BY <1>1, HouseholdStarts, HouseholdSteps, PTL DEF HouseholdSpec, PrefsAreTheirs

\* A step by which somebody joins is an acceptance of the offer they had been shown.
LEMMA JoinsByAcceptance ==
  ASSUME HouseholdInv, [HouseholdNext]_householdVars, NEW p \in People, ~Accepted(p), Accepted(p)'
  PROVE  \E t \in Tabs : /\ form[t].step = "read" /\ form[t].who = p /\ member'[p].of = form[t].owner
                         /\ member[p] = [of |-> form[t].owner, pending |-> TRUE]
<1>a. HouseholdTypeOK /\ member \in [People -> HouseholdRows]
  BY DEF HouseholdInv, HouseholdTypeOK, HouseholdRows
<1>b. ~NobodyJoins
  BY DEF NobodyJoins
<1>c. member' # member
  BY <1>b DEF NobodyJoins, Accepted
<1>d. ASSUME NEW t \in Tabs, NEW kind, Under(t, kind)
      PROVE  form[t].who \in People /\ form[t].owner \in People /\ form[t].other \in People
  BY <1>a, <1>d, FormIsWhole DEF Under
<1>1. ~ \E t \in Tabs : \/ GiveUpForm(t) \/ LinkSession(t) \/ UnlinkSession(t)
                        \/ CreateVehicle(t) \/ LastVehicleGoes(t) \/ ListPermits(t) \/ UpsertPermit(t)
                        \/ LastPermitGoes(t) \/ ReadInvite(t)
  BY <1>c DEF GiveUpForm, LinkSession, UnlinkSession, CreateVehicle, LastVehicleGoes, ListPermits,
              UpsertPermit, LastPermitGoes, ReadInvite
<1>2. ~ \E t \in Tabs : Invite(t) \/ RemoveMember(t) \/ AccountDelete(t)
  BY <1>b, <1>d, RowMoves DEF Invite, RemoveMember, AccountDelete
<1>3. ~ \E t \in Tabs : LeaveAccount(t) \/ DeclineTerms(t)
  BY <1>b, <1>c, <1>d, RowMoves DEF LeaveAccount, DeclineTerms, Leave0
<1>4. ~PeopleAct /\ ~(UNCHANGED householdVars)
  <2>1. ~ \E q \in People : DeclineInvite(q)
    BY <1>b, RowMoves DEF DeclineInvite
  <2> QED
    BY <1>c, <2>1 DEF PeopleAct, Begin, ShowInvite, AcceptTerms, SavePrefs, householdVars
<1>5. PICK t \in Tabs : AcceptInvite(t)
  BY <1>1, <1>2, <1>3, <1>4 DEF HouseholdNext, FormsMove
<1>6. form[t].step = "read" /\ form[t].who \in People
  BY <1>5, <1>a, FormIsWhole DEF AcceptInvite
<1>7. form[t].who = p
  BY <1>5, <1>6, RowMoves DEF AcceptInvite
<1>8. member'[p].of = form[t].owner /\ member[p] = [of |-> form[t].owner, pending |-> TRUE]
  <2>1. member'[p] = [member[p] EXCEPT !.pending = FALSE]
    BY <1>5, <1>7, <1>a DEF AcceptInvite
  <2> QED
    BY <1>5, <1>7, <1>a, <2>1 DEF AcceptInvite, StillOffered, HouseholdRows
<1> QED
  BY <1>6, <1>7, <1>8

\* Who joins joins the household whose invitation they were shown, and which has not
\* taken it back meanwhile (AcceptInvite).
THEOREM JoinedAsShown == HouseholdSpec => JoinsAsShown
<1>1. HouseholdInv /\ [HouseholdNext]_householdVars =>
        [\A p \in People : ~Accepted(p) /\ Accepted(p)' =>
           \E t \in Tabs : form[t].step = "read" /\ form[t].who = p /\ member'[p].of = form[t].owner
                           /\ member[p] = [of |-> form[t].owner, pending |-> TRUE]]_householdVars
  BY JoinsByAcceptance
<1> QED
  BY <1>1, HouseholdStarts, HouseholdSteps, PTL DEF HouseholdSpec, JoinsAsShown
------------------------------------------------------------------------------
(* One person's channels.                                                   *)

\* What is read of a person without a row is a row.
LEMMA PrefIsRow == ChannelTypeOK => Pref \in Row
<1> SUFFICES ASSUME ChannelTypeOK
             PROVE  Pref \in Row
  OBVIOUS
<1>1. Defaults \in Row
  <2>1. 0 \in 0..MaxTopics
    BY ChannelAssumption, SMT
  <2> QED
    BY <2>1, Zenon DEF Defaults, Row
<1> QED
  BY <1>1 DEF ChannelTypeOK, Pref

LEMMA ChannelStarts == ChannelInit => ChannelInv
<1> SUFFICES ASSUME ChannelInit
             PROVE  ChannelInv
  OBVIOUS
<1>1. ChannelTypeOK
  <2>1. lastTopic \in 0..MaxTopics
    BY ChannelAssumption, SMT DEF ChannelInit
  <2> QED
    BY <2>1, Zenon DEF ChannelInit, ChannelTypeOK
<1>2. Pref = Defaults /\ Defaults.email = TRUE /\ Defaults.stamp = FALSE
  BY Zenon DEF ChannelInit, Pref, Defaults
<1>3. Heeded(Pref, reached)
  BY <1>2, Zenon DEF Heeded
<1>4. \A f \in Forms : work[f].todo = "none"
  BY DEF ChannelInit, NoWork
<1> QED
  BY <1>1, <1>3, <1>4 DEF ChannelInv

\* A row with one field changed is a row, and the other fields are what they were.
LEMMA EmailField ==
  ASSUME NEW row \in Row, NEW b \in BOOLEAN
  PROVE  /\ [row EXCEPT !.email = b] \in Row
         /\ [row EXCEPT !.email = b].email = b
         /\ [row EXCEPT !.email = b].push = row.push
         /\ [row EXCEPT !.email = b].topic = row.topic
         /\ [row EXCEPT !.email = b].stamp = row.stamp
BY Zenon DEF Row

\* One field of a row, changed.
LEMMA PushField ==
  ASSUME NEW row \in Row, NEW b \in BOOLEAN
  PROVE  /\ [row EXCEPT !.push = b] \in Row
         /\ [row EXCEPT !.push = b].email = row.email
         /\ [row EXCEPT !.push = b].push = b
         /\ [row EXCEPT !.push = b].topic = row.topic
         /\ [row EXCEPT !.push = b].stamp = row.stamp
BY Zenon DEF Row

\* The same of its topic.
LEMMA TopicField ==
  ASSUME NEW row \in Row, NEW t \in 0..MaxTopics
  PROVE  /\ [row EXCEPT !.topic = t] \in Row
         /\ [row EXCEPT !.topic = t].email = row.email
         /\ [row EXCEPT !.topic = t].push = row.push
         /\ [row EXCEPT !.topic = t].topic = t
         /\ [row EXCEPT !.topic = t].stamp = row.stamp
BY Zenon DEF Row

\* The same of its stamp.
LEMMA StampField ==
  ASSUME NEW row \in Row, NEW b \in BOOLEAN
  PROVE  /\ [row EXCEPT !.stamp = b] \in Row
         /\ [row EXCEPT !.stamp = b].email = row.email
         /\ [row EXCEPT !.stamp = b].push = row.push
         /\ [row EXCEPT !.stamp = b].topic = row.topic
         /\ [row EXCEPT !.stamp = b].stamp = b
BY Zenon DEF Row

\* What a form is to do, once it is known to be a whole row or a button's topic.
LEMMA WorkIs ==
  ASSUME ChannelTypeOK, NEW f \in Forms
  PROVE  /\ work[f].todo = "write" => work[f].row \in Row
         /\ work[f].todo = "publish" => work[f].token \in Topics
<1>1. work[f] \in Write \cup Publish \cup {NoWork}
  BY DEF ChannelTypeOK
<1> QED
  BY <1>1 DEF Write, Publish, NoWork

\* The forms after a step: whatever they are about to write is heeded.
WorkHeeded ==
  /\ work \in [Forms -> Write \cup Publish \cup {NoWork}]
  /\ ~astray => \A f \in Forms : work[f].todo = "write" => Heeded(work[f].row, reached)

\* What a step makes of the forms: one has a row to write, or something else, or nothing.
LEMMA FormTurns ==
  ASSUME ChannelInv, NEW f \in Forms, reached \subseteq reached', ~astray' => ~astray
  PROVE  /\ \A row \in Row : /\ work' = [work EXCEPT ![f] = [todo |-> "write", row |-> row]]
                             /\ ~astray' => Heeded(row, reached')
              => WorkHeeded'
         /\ \A w \in Publish \cup {NoWork} : work' = [work EXCEPT ![f] = w] => WorkHeeded'
         /\ UNCHANGED work => WorkHeeded'
<1>a. work \in [Forms -> Write \cup Publish \cup {NoWork}]
  BY DEF ChannelInv, ChannelTypeOK
<1>b. ASSUME NEW h \in Forms, ~astray', work[h].todo = "write"
      PROVE  Heeded(work[h].row, reached')
  <2>1. Heeded(work[h].row, reached)
    BY <1>b DEF ChannelInv
  <2> QED
    BY <2>1, Zenon DEF Heeded
<1>1. ASSUME NEW row \in Row, work' = [work EXCEPT ![f] = [todo |-> "write", row |-> row]],
             ~astray' => Heeded(row, reached')
      PROVE  WorkHeeded'
  <2> DEFINE w == [todo |-> "write", row |-> row]
  <2>1. w \in Write /\ w.row = row
    BY DEF Write
  <2>2. work' = [work EXCEPT ![f] = w]
    BY <1>1
  <2> HIDE DEF w
  <2>3. work' \in [Forms -> Write \cup Publish \cup {NoWork}]
    BY <2>1, <2>2, <1>a
  <2>4. ASSUME NEW h \in Forms, ~astray', work'[h].todo = "write"
        PROVE  Heeded(work'[h].row, reached')
    <3>1. CASE h = f
      <4>1. work'[h].row = row
        BY <3>1, <2>1, <2>2, <1>a
      <4> QED
        BY <4>1, <1>1, <2>4
    <3>2. CASE h # f
      BY <3>2, <2>2, <2>4, <1>a, <1>b
    <3> QED
      BY <3>1, <3>2
  <2> QED
    BY <2>3, <2>4 DEF WorkHeeded
<1>2. ASSUME NEW w \in Publish \cup {NoWork}, work' = [work EXCEPT ![f] = w]
      PROVE  WorkHeeded'
  <2>1. w.todo # "write"
    BY DEF Publish, NoWork
  <2>2. work' \in [Forms -> Write \cup Publish \cup {NoWork}]
    BY <1>2, <1>a
  <2>3. ASSUME NEW h \in Forms, ~astray', work'[h].todo = "write"
        PROVE  Heeded(work'[h].row, reached')
    BY <1>2, <2>1, <2>3, <1>a, <1>b
  <2> QED
    BY <2>2, <2>3 DEF WorkHeeded
<1>3. UNCHANGED work => WorkHeeded'
  BY <1>a, <1>b DEF WorkHeeded
<1> QED
  BY <1>1, <1>2, <1>3

\* The invariant goes on, unless a test has gone to a topic that was read too early.
LEMMA ChannelMoves == ChannelInv /\ [ChannelNext]_channelVars => ChannelInv'
<1> SUFFICES ASSUME ChannelInv, [ChannelNext]_channelVars
             PROVE  ChannelInv'
  OBVIOUS
<1> DEFINE Rest0 == /\ lastTopic' \in 0..MaxTopics /\ tests' \subseteq Topics \X Topics
                    /\ reached' \subseteq Topics /\ astray' \in BOOLEAN
           PrefHeeded == pref' \in Row \cup {NoPref} /\ (~astray' => Heeded(Pref', reached'))
<1>a. ChannelTypeOK /\ Pref \in Row /\ (~astray => Heeded(Pref, reached))
  BY PrefIsRow DEF ChannelInv
<1>b. ASSUME PrefHeeded, WorkHeeded', Rest0
      PROVE  ChannelInv'
  BY <1>b, Zenon DEF ChannelInv, ChannelTypeOK, WorkHeeded
<1>c. ASSUME UNCHANGED <<pref, reached, astray>>
      PROVE  PrefHeeded
  BY <1>a, <1>c, Zenon DEF ChannelTypeOK, Pref
<1>d. ASSUME UNCHANGED <<lastTopic, tests, reached, astray>>
      PROVE  Rest0
  BY <1>a, <1>d, Zenon DEF ChannelTypeOK
<1>e. ASSUME NewTopic
      PROVE  lastTopic' \in 0..MaxTopics /\ lastTopic + 1 \in 0..MaxTopics
  <2>1. lastTopic \in 0..MaxTopics
    BY <1>a DEF ChannelTypeOK
  <2> QED
    BY <1>e, <2>1, ChannelAssumption, SMT DEF NewTopic
<1>f. ASSUME NEW row \in Row, UNCHANGED <<reached, astray>>,
             pref' = row, ~astray => Heeded(row, reached)
      PROVE  PrefHeeded
  <2>1. Pref' = row \/ (Pref' = Defaults)
    BY <1>f, Zenon DEF Pref
  <2>2. Heeded(Defaults, reached)
    BY Zenon DEF Heeded, Defaults
  <2> QED
    BY <1>f, <2>1, <2>2, Zenon
<1>1. ASSUME NEW f \in Forms, NEW email \in BOOLEAN, NEW push \in BOOLEAN, SaveNotify(f, email, push)
      PROVE  ChannelInv'
  <2> DEFINE one == [Pref EXCEPT !.email = email]
             two == [one EXCEPT !.push = push]
  <2>1. one \in Row /\ one.email = email /\ one.topic = Pref.topic /\ one.stamp = Pref.stamp
    BY <1>a, EmailField, Zenon
  <2>2. two \in Row /\ two.email = email /\ two.push = push /\ two.topic = Pref.topic /\ two.stamp = Pref.stamp
    <3> HIDE DEF one
    <3> QED
      BY <2>1, PushField, Zenon
  <2>3. work' = [work EXCEPT ![f] = [todo |-> "write", row |-> two]]
    BY <1>1, Zenon DEF SaveNotify, Will
  <2>4. UNCHANGED <<pref, lastTopic, tests, reached, astray>>
    BY <1>1, Zenon DEF SaveNotify
  <2> HIDE DEF one, two
  <2>5. ~astray' => Heeded(two, reached')
    <3>1. CASE email
      <4>1. two.email = TRUE
        BY <2>2, <3>1, Zenon
      <4>2. ~astray' => (Pref.stamp => Pref.topic \in reached')
        BY <1>a, <2>4, Zenon DEF Heeded
      <4> QED
        BY <4>1, <4>2, <2>2, Zenon DEF Heeded
    <3>2. CASE ~email
      <4>1. push /\ Pref.stamp
        BY <1>1, <3>2, Zenon DEF SaveNotify, Confirmed
      <4>2. two.push = TRUE
        BY <2>2, <4>1, Zenon
      <4>3. ~astray' => two.topic \in reached'
        BY <1>a, <2>2, <2>4, <4>1, Zenon DEF Heeded
      <4> QED
        BY <4>2, <4>3, Zenon DEF Heeded
    <3> QED
      BY <3>1, <3>2, Zenon
  <2>6. WorkHeeded'
    BY <2>2, <2>3, <2>4, <2>5, FormTurns
  <2> QED
    BY <2>4, <2>6, <1>b, <1>c, <1>d, Zenon
<1>2. ASSUME NEW f \in Forms, RegenTopic(f)
      PROVE  ChannelInv'
  <2> DEFINE row == [email |-> TRUE, push |-> TRUE, topic |-> lastTopic + 1, stamp |-> FALSE]
  <2>1. row \in Row /\ row.email = TRUE /\ row.stamp = FALSE
    BY <1>2, <1>e, Zenon DEF Row, RegenTopic
  <2>2. UNCHANGED <<pref, tests, reached, astray>>
    BY <1>2, Zenon DEF RegenTopic
  <2>3. Heeded(row, reached')
    <3> HIDE DEF row
    <3> QED
      BY <2>1, Zenon DEF Heeded
  <2>4. work' = [work EXCEPT ![f] = [todo |-> "write", row |-> row]]
    BY <1>2, Zenon DEF RegenTopic, Will
  <2> HIDE DEF row
  <2>5. WorkHeeded'
    BY <2>1, <2>2, <2>3, <2>4, FormTurns
  <2>6. Rest0
    BY <1>2, <1>a, <1>e, <2>2, Zenon DEF RegenTopic, ChannelTypeOK
  <2> QED
    BY <2>2, <2>5, <2>6, <1>b, <1>c, Zenon
<1>3. ASSUME NEW f \in Forms, SettingsPage(f)
      PROVE  ChannelInv'
  <2> DEFINE row == [Pref EXCEPT !.topic = lastTopic + 1]
  <2>1. NewTopic /\ UNCHANGED <<pref, tests, reached, astray>> /\ Pref.topic = 0
    BY <1>3, Zenon DEF SettingsPage
  <2>2. /\ row \in Row /\ row.email = Pref.email /\ row.stamp = Pref.stamp
    BY <1>a, <1>e, <2>1, TopicField, Zenon
  <2>3. ~astray' => Heeded(row, reached')
    <3>1. 0 \notin reached
      <4>1. reached \subseteq Topics
        BY <1>a DEF ChannelTypeOK
      <4>2. 0 \notin Topics
        BY SMT DEF Topics
      <4> QED
        BY <4>1, <4>2
    <3> HIDE DEF row
    <3> QED
      BY <1>a, <2>1, <2>2, <3>1, Zenon DEF Heeded
  <2>4. work' = [work EXCEPT ![f] = [todo |-> "write", row |-> row]]
    BY <1>3, Zenon DEF SettingsPage, Will
  <2> HIDE DEF row
  <2>5. WorkHeeded'
    BY <2>1, <2>2, <2>3, <2>4, FormTurns
  <2>6. Rest0
    BY <1>a, <1>e, <2>1, Zenon DEF ChannelTypeOK
  <2> QED
    BY <2>1, <2>5, <2>6, <1>b, <1>c, Zenon
<1>4. ASSUME NEW f \in Forms, SetNotifyPref(f)
      PROVE  ChannelInv'
  <2> DEFINE old == work[f].row
             row == [old EXCEPT !.stamp = StampFor(old)]
  <2>1. old \in Row /\ UNCHANGED <<lastTopic, tests, reached, astray>>
    BY <1>4, <1>a, WorkIs DEF SetNotifyPref
  <2>2. StampFor(old) \in BOOLEAN
    <3>1. pref # NoPref => pref \in Row
      BY <1>a DEF ChannelTypeOK
    <3> HIDE DEF old
    <3> QED
      BY <2>1, <3>1, Zenon DEF StampFor, Row
  <2>3. ~astray => Heeded(old, reached)
    BY <1>4 DEF ChannelInv, SetNotifyPref
  <2>4. ~astray => (StampFor(old) => old.topic \in reached)
    <3>1. pref # NoPref => Pref = pref
      BY Zenon DEF Pref
    <3> HIDE DEF old
    <3> QED
      BY <1>a, <2>3, <3>1, Zenon DEF StampFor, Heeded
  <2>5. /\ row \in Row /\ row.email = old.email /\ row.push = old.push /\ row.topic = old.topic
        /\ row.stamp = StampFor(old)
    <3> HIDE DEF old
    <3> QED
      BY <2>1, <2>2, StampField, Zenon
  <2>6. pref' = row
    BY <1>4, Zenon DEF SetNotifyPref
  <2>7. work' = [work EXCEPT ![f] = NoWork]
    BY <1>4, Zenon DEF SetNotifyPref
  <2> HIDE DEF row, old
  <2>8. ~astray => Heeded(row, reached)
    BY <2>3, <2>4, <2>5, Zenon DEF Heeded
  <2>9. WorkHeeded'
    BY <2>1, <2>7, FormTurns
  <2> QED
    BY <2>1, <2>5, <2>6, <2>8, <2>9, <1>b, <1>d, <1>f, Zenon
<1>5. ASSUME NEW f \in Forms, WriteFails(f)
      PROVE  ChannelInv'
  <2>1. WorkHeeded'
    BY <1>5, FormTurns DEF WriteFails
  <2> QED
    BY <1>5, <2>1, <1>b, <1>c, <1>d, Zenon DEF WriteFails
<1>6. ASSUME NEW f \in Forms, MintConfirm(f)
      PROVE  ChannelInv'
  <2> DEFINE w == [todo |-> "publish", token |-> Pref.topic]
  <2>1. w \in Publish
    <3>1. Pref.topic \in Topics
      <4>1. Pref.topic \in 0..MaxTopics /\ Pref.topic # 0
        BY <1>6, <1>a, Zenon DEF MintConfirm, Row
      <4> QED
        BY <4>1, ChannelAssumption, SMT DEF Topics
    <3> QED
      BY <3>1, Zenon DEF Publish
  <2>2. work' = [work EXCEPT ![f] = w] /\ UNCHANGED <<pref, lastTopic, tests, reached, astray>>
    BY <1>6, Zenon DEF MintConfirm, Will
  <2> HIDE DEF w
  <2>3. WorkHeeded'
    BY <2>1, <2>2, FormTurns
  <2> QED
    BY <2>2, <2>3, <1>b, <1>c, <1>d, Zenon
<1>7. ASSUME NEW f \in Forms, PublishTest(f)
      PROVE  ChannelInv'
  <2>1. work' = [work EXCEPT ![f] = NoWork] /\ UNCHANGED <<pref, lastTopic, reached, astray>>
    BY <1>7, Zenon DEF PublishTest
  <2>2. WorkHeeded'
    BY <2>1, FormTurns
  <2>3. tests' \subseteq Topics \X Topics
    <3>1. work[f].token \in Topics
      BY <1>7, <1>a, WorkIs DEF PublishTest
    <3>2. Pref.topic # 0 => Pref.topic \in Topics
      <4>1. Pref.topic \in 0..MaxTopics
        BY <1>a, Zenon DEF Row
      <4> QED
        BY <4>1, ChannelAssumption, SMT DEF Topics
    <3>3. tests \subseteq Topics \X Topics
      BY <1>a, Zenon DEF ChannelTypeOK
    <3>4. tests' = tests \/ (Pref.topic # 0 /\ tests' = tests \cup {<<Pref.topic, work[f].token>>})
      BY <1>7, Zenon DEF PublishTest
    <3> QED
      BY <3>1, <3>2, <3>3, <3>4
  <2>4. Rest0
    BY <1>a, <2>1, <2>3, Zenon DEF ChannelTypeOK
  <2> QED
    BY <2>1, <2>2, <2>4, <1>b, <1>c, Zenon
<1>8. ASSUME NEW t \in Topics, NEW u \in Topics, Tap(t, u)
      PROVE  ChannelInv'
  <2>1. /\ reached' = reached \cup {t} /\ UNCHANGED <<lastTopic, work, tests>>
        /\ astray' = (astray \/ t # u)
    BY <1>8, Zenon DEF Tap
  <2>2. Rest0
    BY <1>a, <2>1, Zenon DEF ChannelTypeOK
  <2>3. WorkHeeded'
    <3>1. CASE Forms = {}
      BY <1>a, <2>1, <3>1, Zenon DEF ChannelTypeOK, WorkHeeded
    <3>2. CASE Forms # {}
      BY <2>1, <3>2, FormTurns
    <3> QED
      BY <3>1, <3>2
  <2>4. PrefHeeded
    <3>1. CASE ItsTopic(u)
      <4> DEFINE row == [pref EXCEPT !.stamp = TRUE]
      <4>1. pref \in Row /\ Pref = pref /\ pref.topic = u
        BY <1>a, <3>1, Zenon DEF ItsTopic, ChannelTypeOK, Pref
      <4>2. /\ row \in Row /\ row.email = pref.email /\ row.push = pref.push /\ row.topic = pref.topic
            /\ row.stamp = TRUE
        BY <4>1, StampField, Zenon
      <4>3. pref' = row
        BY <1>8, <3>1, Zenon DEF Tap
      <4> HIDE DEF row
      <4>4. ~astray' => Heeded(row, reached')
        BY <1>a, <2>1, <4>1, <4>2, Zenon DEF Heeded
      <4>5. Pref' = row \/ Pref' = Defaults
        BY <4>3, Zenon DEF Pref
      <4>6. Heeded(Defaults, reached')
        BY Zenon DEF Heeded, Defaults
      <4> QED
        BY <4>2, <4>3, <4>4, <4>5, <4>6, Zenon
    <3>2. CASE ~ItsTopic(u)
      <4>1. pref' = pref /\ Pref' = Pref
        BY <1>8, <3>2, Zenon DEF Tap, Pref
      <4>2. ~astray' => Heeded(Pref, reached')
        BY <1>a, <2>1, Zenon DEF Heeded
      <4> QED
        BY <1>a, <4>1, <4>2, Zenon DEF ChannelTypeOK
    <3> QED
      BY <3>1, <3>2
  <2> QED
    BY <2>2, <2>3, <2>4, <1>b, Zenon
<1>g. ASSUME UNCHANGED <<work, reached, astray>>
      PROVE  WorkHeeded'
  BY <1>g, Zenon DEF WorkHeeded, ChannelInv, ChannelTypeOK
<1>9. ASSUME NEW t \in Topics, NEW u \in Topics, TokenExpires(t, u)
      PROVE  ChannelInv'
  <2>1. Rest0 /\ UNCHANGED <<pref, work, reached, astray>>
    BY <1>9, <1>a, Zenon DEF TokenExpires, ChannelTypeOK
  <2> QED
    BY <2>1, <1>b, <1>c, <1>g, Zenon
<1>10. CASE PrefRowGone
  <2>1. pref' = NoPref /\ Pref' = Defaults /\ UNCHANGED <<lastTopic, work, tests, reached, astray>>
    BY <1>10, Zenon DEF PrefRowGone, Pref
  <2>2. Heeded(Defaults, reached')
    BY Zenon DEF Heeded, Defaults
  <2>3. PrefHeeded
    BY <2>1, <2>2, Zenon
  <2> QED
    BY <2>1, <2>3, <1>b, <1>d, <1>g, Zenon
<1>11. CASE UNCHANGED channelVars
  <2>1. UNCHANGED <<pref, lastTopic, work, tests, reached, astray>>
    BY <1>11, Zenon DEF channelVars
  <2> QED
    BY <2>1, <1>b, <1>c, <1>d, <1>g, Zenon
<1> QED
  BY <1>1, <1>2, <1>3, <1>4, <1>5, <1>6, <1>7, <1>8, <1>9, <1>10, <1>11, Zenon
     DEF ChannelNext, PersonActs, ChannelWork

\* Nobody is left with a push channel alone which no device has ever shown to work, however
\* many forms, new topics, tests and taps overtake one another (saveNotify, regenTopic,
\* SetNotifyPref, ConfirmNtfy); but for the one case that NeverUnheard names.
THEOREM SomebodyHears == ChannelSpec => []NeverUnheard
<1>1. ChannelInv => NeverUnheard
  BY Zenon DEF ChannelInv, NeverUnheard, Heeded
<1> QED
  BY <1>1, ChannelStarts, ChannelMoves, PTL DEF ChannelSpec
------------------------------------------------------------------------------
(* A notice about a permit.                                                 *)

LEMMA NoticeStarts == NoticeInit => NoticeInv
<1> SUFFICES ASSUME NoticeInit
             PROVE  NoticeInv
  OBVIOUS
<1>1. attempt \in Attempt /\ attempt.on = FALSE /\ attempt.todo = {} /\ attempt.failed = FALSE
  BY DEF NoticeInit, NoAttempt, Attempt
<1>2. \A m \in Household : told[m] = "not"
  BY DEF NoticeInit
<1>3. NoticeTypeOK
  BY <1>1, Zenon DEF NoticeInit, NoticeTypeOK, Fates
<1>4. OneCopyEach /\ RecordMeansTold
  BY <1>2 DEF NoticeInit, OneCopyEach, RecordMeansTold
<1>5. \A m \in Household : Fated(m)
  BY <1>1, <1>2 DEF NoticeInit, Fated
<1> QED
  BY <1>1, <1>3, <1>4, <1>5, Zenon DEF NoticeInv

\* An attempt with somebody ticked off is one.
LEMMA TickedOff ==
  ASSUME attempt \in Attempt, NEW m, NEW failed \in BOOLEAN,
         \/ Next0(m, failed)
         \/ failed = FALSE /\ attempt' = [attempt EXCEPT !.todo = @ \ {m}]
  PROVE  /\ attempt' \in Attempt /\ attempt'.todo = attempt.todo \ {m}
         /\ attempt'.wish = attempt.wish /\ attempt'.on = attempt.on
         /\ attempt'.failed = (attempt.failed \/ failed)
<1> DEFINE one == [attempt EXCEPT !.todo = attempt.todo \ {m}]
           two == [one EXCEPT !.failed = attempt.failed \/ failed]
           three == [two EXCEPT !.count = 1]
<1>1. attempt.todo \ {m} \in SUBSET Household /\ attempt.failed \in BOOLEAN
  BY DEF Attempt
<1>2. /\ one \in Attempt /\ one.todo = attempt.todo \ {m} /\ one.wish = attempt.wish
      /\ one.on = attempt.on /\ one.failed = attempt.failed /\ one.count = attempt.count
  BY <1>1, Zenon DEF Attempt
<1>3. /\ two \in Attempt /\ two.todo = attempt.todo \ {m} /\ two.wish = attempt.wish
      /\ two.on = attempt.on /\ two.failed = (attempt.failed \/ failed)
  <2> HIDE DEF one
  <2>1. (attempt.failed \/ failed) \in BOOLEAN
    BY Zenon
  <2> QED
    BY <1>2, <2>1, Zenon DEF Attempt
<1>4. /\ three \in Attempt /\ three.todo = attempt.todo \ {m} /\ three.wish = attempt.wish
      /\ three.on = attempt.on /\ three.failed = (attempt.failed \/ failed)
  <2> HIDE DEF two
  <2> QED
    BY <1>3, Zenon DEF Attempt
<1>5. CASE Next0(m, failed)
  <2>1. attempt' = three
    BY <1>5, Zenon DEF Next0
  <2> HIDE DEF three
  <2> QED
    BY <1>4, <2>1, Zenon
<1>6. CASE failed = FALSE /\ attempt' = [attempt EXCEPT !.todo = @ \ {m}]
  <2>1. attempt' = one
    BY <1>6, Zenon
  <2>2. attempt.failed = (attempt.failed \/ failed)
    BY <1>1, <1>6, Zenon
  <2> HIDE DEF one
  <2> QED
    BY <1>2, <2>1, <2>2, Zenon
<1> QED
  BY <1>5, <1>6

\* An attempt that comes to one member changes nothing for the others.
LEMMA OneIsTold ==
  ASSUME NoticeInv, NEW m \in Household, NEW failed \in BOOLEAN, NEW v \in Fates, attempt.on,
         \/ Next0(m, failed)
         \/ failed = FALSE /\ attempt' = [attempt EXCEPT !.todo = @ \ {m}],
         told' = [told EXCEPT ![m] = v], reachedBy' \in {reachedBy, reachedBy \cup {m}},
         UNCHANGED <<sort, wish, onRecord, clean>>,
         sort = "action" => v \in {"not", "once", "twice", "capped"},
         m \in reachedBy' => v \in {"once", "queued", "twice"},
         v \in {"once", "queued"} /\ clean => m \in reachedBy',
         ~attempt.failed /\ ~failed => v # "not",
         clean => v # "twice"
  PROVE  NoticeInv'
<1>a. /\ attempt' \in Attempt /\ attempt'.todo = attempt.todo \ {m}
      /\ attempt'.wish = attempt.wish /\ attempt'.on = attempt.on
      /\ attempt'.failed = (attempt.failed \/ failed)
  BY TickedOff, Zenon DEF NoticeInv
<1>b. NoticeTypeOK /\ ~onRecord /\ told \in [Household -> Fates]
  BY Zenon DEF NoticeInv, NoticeTypeOK
<1>c. told'[m] = v /\ \A n \in Household \ {m} : told'[n] = told[n]
  BY <1>b
<1>1. NoticeTypeOK'
  <2>1. told' \in [Household -> Fates] /\ reachedBy' \subseteq Household
    BY <1>b DEF NoticeTypeOK
  <2>2. attempt'.todo \subseteq Household /\ attempt'.failed \in BOOLEAN /\ attempt'.on \in BOOLEAN
    BY <1>a, Zenon DEF Attempt
  <2> QED
    BY <1>b, <2>1, <2>2, Zenon DEF NoticeTypeOK
<1>2. (OneCopyEach /\ RecordMeansTold)'
  BY <1>b, <1>c, Zenon DEF NoticeInv, OneCopyEach, RecordMeansTold
<1>3. Fated(m)'
  BY <1>a, <1>c, Zenon DEF Fated
<1>4. ASSUME NEW n \in Household, n # m
      PROVE  Fated(n)'
  <2>1. Fated(n) /\ told'[n] = told[n] /\ (n \in reachedBy' <=> n \in reachedBy)
    BY <1>4, <1>c, Zenon DEF NoticeInv
  <2>2. n \in attempt'.todo <=> n \in attempt.todo
    BY <1>4, <1>a
  <2> QED
    BY <1>a, <2>1, <2>2, Zenon DEF Fated
<1>5. \A n \in Household : Fated(n)'
  BY <1>3, <1>4, Zenon
<1> QED
  BY <1>a, <1>b, <1>1, <1>2, <1>5, Zenon DEF NoticeInv

\* An attempt that begins, or is over and to be repeated, changes nothing for anybody.
LEMMA NobodyIsTold ==
  ASSUME NoticeInv, NEW a \in Attempt, attempt' = a, a.on => a.todo = Household,
         a.on => a.wish \in [Household -> Wish] /\ ~onRecord,
         UNCHANGED <<sort, wish, reachedBy, onRecord, told, clean>>
  PROVE  NoticeInv'
<1>1. NoticeTypeOK'
  <2>1. a.todo \subseteq Household /\ a.failed \in BOOLEAN /\ a.on \in BOOLEAN
    BY Zenon DEF Attempt
  <2> QED
    BY <2>1, Zenon DEF NoticeInv, NoticeTypeOK
<1>2. \A m \in Household : Fated(m)'
  BY Zenon DEF NoticeInv, Fated
<1> QED
  BY <1>1, <1>2, Zenon DEF NoticeInv, OneCopyEach, RecordMeansTold

\* The invariant goes on, for each attempt, reader by reader.
LEMMA NoticeMoves == NoticeInv /\ [NoticeEvent \/ NoticeWork]_noticeVars => NoticeInv'
<1> SUFFICES ASSUME NoticeInv, [NoticeEvent \/ NoticeWork]_noticeVars
             PROVE  NoticeInv'
  OBVIOUS
<1>a. /\ NoticeTypeOK /\ attempt \in Attempt /\ told \in [Household -> Fates]
      /\ attempt.on \in BOOLEAN /\ attempt.failed \in BOOLEAN
  BY Zenon DEF NoticeInv, NoticeTypeOK
<1>b. NoAttempt \in Attempt /\ NoAttempt.on = FALSE /\ NoAttempt.todo = {} /\ NoAttempt.failed = FALSE
  BY DEF NoAttempt, Attempt
<1>c. ASSUME NEW m \in Household
      PROVE  /\ Fated(m) /\ told[m] \in Fates /\ (clean => told[m] # "twice")
             /\ attempt.on => ~onRecord
  BY <1>a, Zenon DEF NoticeInv, OneCopyEach
<1>d. ASSUME NEW m \in Household, UNCHANGED told
      PROVE  told' = [told EXCEPT ![m] = told[m]]
  BY <1>a, <1>d
<1>1. CASE StartAttempt
  <2> DEFINE a == [todo |-> Household, wish |-> wish, failed |-> FALSE, count |-> 0, on |-> TRUE]
  <2>1. a \in Attempt /\ a.todo = Household /\ a.wish \in [Household -> Wish]
    BY <1>a DEF Attempt, NoticeTypeOK
  <2>2. attempt' = a /\ ~onRecord /\ UNCHANGED <<sort, wish, reachedBy, onRecord, told, clean>>
    BY <1>1, Zenon DEF StartAttempt
  <2> HIDE DEF a
  <2> QED
    BY <2>1, <2>2, NobodyIsTold
<1>2. ASSUME NEW m \in Household, PassOver(m)
      PROVE  NoticeInv'
  <2> DEFINE w == attempt.wish[m]
             v == IF told[m] # "not" THEN told[m] ELSE IF Muted(w) THEN "muted" ELSE "none"
  <2>1. /\ attempt.on /\ (Muted(w) \/ ~Wanted(w)) /\ attempt' = [attempt EXCEPT !.todo = @ \ {m}]
        /\ told' = [told EXCEPT ![m] = v] /\ UNCHANGED <<sort, wish, reachedBy, onRecord, clean>>
    BY <1>2, Zenon DEF PassOver, At
  <2>2. sort # "action"
    BY <2>1 DEF Muted, Wanted, MailWanted
  <2>3. v \in Fates /\ v # "not"
    BY <1>c DEF Fates
  <2>4. told[m] # "not" => v = told[m]
    OBVIOUS
  <2>5. told[m] = "not" => v \in {"muted", "none"}
    OBVIOUS
  <2>6. /\ m \in reachedBy => v \in {"once", "queued", "twice"}
        /\ v \in {"once", "queued"} /\ clean => m \in reachedBy
        /\ clean => v # "twice"
    <3> HIDE DEF v, w
    <3> QED
      BY <1>c, <2>1, <2>4, <2>5 DEF Fated
  <2> HIDE DEF v, w
  <2> QED
    BY <2>1, <2>2, <2>3, <2>6, OneIsTold, Zenon
<1>3. ASSUME NEW m \in Household, HasHad(m)
      PROVE  NoticeInv'
  <2>1. attempt.on /\ m \in reachedBy /\ Next0(m, FALSE)
        /\ UNCHANGED <<sort, wish, reachedBy, onRecord, told, clean>>
    BY <1>3, Zenon DEF HasHad, Due, At
  <2>2. told[m] \in {"once", "queued", "twice"} /\ told[m] \in Fates
        /\ (sort = "action" => told[m] \in {"not", "once", "twice", "capped"})
        /\ (clean => told[m] # "twice")
    BY <1>c, <2>1 DEF Fated
  <2>3. told[m] # "not"
    BY <2>2
  <2> QED
    BY <1>d, <2>1, <2>2, <2>3, OneIsTold, Zenon
<1>4. ASSUME NEW m \in Household, NEW taken \in BOOLEAN, QueueFor(m, taken)
      PROVE  NoticeInv'
  <2>1. /\ attempt.on /\ m \notin reachedBy /\ Waits(attempt.wish[m]) /\ Next0(m, ~taken)
        /\ UNCHANGED <<sort, wish, onRecord, clean>>
    BY <1>4, Zenon DEF QueueFor, Due, At
  <2>2. sort # "action"
    BY <2>1, Zenon DEF Waits
  <2>3. told[m] \in Fates /\ (clean => told[m] \notin {"once", "queued", "twice"})
    BY <1>c, <2>1 DEF Fated
  <2>4. CASE taken
    <3> DEFINE v == IF told[m] \in {"once", "queued", "twice"} THEN "twice" ELSE "queued"
    <3>1. told' = [told EXCEPT ![m] = v] /\ reachedBy' = reachedBy \cup {m}
      BY <1>4, <2>4, Zenon DEF QueueFor
    <3>2. v \in Fates /\ v # "not" /\ v \in {"once", "queued", "twice"} /\ (clean => v # "twice")
      BY <2>3 DEF Fates
    <3> HIDE DEF v
    <3> QED
      BY <2>1, <2>2, <3>1, <3>2, OneIsTold, Zenon
  <2>5. CASE ~taken
    <3>1. UNCHANGED <<told, reachedBy>>
      BY <1>4, <2>5, Zenon DEF QueueFor
    <3> QED
      BY <1>d, <2>1, <2>2, <2>3, <2>5, <3>1, OneIsTold, Zenon
  <2> QED
    BY <2>4, <2>5
<1>5. ASSUME NEW m \in Household, Capped(m)
      PROVE  NoticeInv'
  <2> DEFINE v == IF told[m] = "not" THEN "capped" ELSE told[m]
  <2>1. /\ attempt.on /\ m \notin reachedBy /\ Next0(m, FALSE) /\ told' = [told EXCEPT ![m] = v]
        /\ UNCHANGED <<sort, wish, reachedBy, onRecord, clean>>
    BY <1>5, Zenon DEF Capped, Now, Due, At
  <2>2. told[m] \in Fates /\ (clean => told[m] \notin {"once", "queued", "twice"})
        /\ (sort = "action" => told[m] \in {"not", "once", "twice", "capped"})
    BY <1>c, <2>1 DEF Fated
  <2>3. /\ v \in Fates /\ v # "not" /\ (clean => v \notin {"once", "queued", "twice"})
        /\ (sort = "action" => v \in {"not", "once", "twice", "capped"})
    BY <2>2 DEF Fates
  <2>4. clean => v # "twice"
    BY <2>3
  <2> HIDE DEF v
  <2> QED
    BY <2>1, <2>3, <2>4, OneIsTold, Zenon
<1>6. ASSUME NEW m \in Household, NEW mailed \in BOOLEAN, NEW pushed \in BOOLEAN, Tell(m, mailed, pushed)
      PROVE  NoticeInv'
  <2> DEFINE w == attempt.wish[m]
             through == (MailWanted(w) /\ mailed) \/ (w.push /\ pushed)
             failed == (MailWanted(w) /\ ~mailed) \/ (w.push /\ ~pushed)
  <2>1. /\ attempt.on /\ m \notin reachedBy /\ Wanted(w) /\ Next0(m, failed)
        /\ reachedBy' = Remember(m, through, failed)
        /\ IF through THEN Heard(m) ELSE UNCHANGED told
        /\ UNCHANGED <<sort, wish, onRecord, clean>>
    BY <1>6, Zenon DEF Tell, Now, Due, At
  <2>2. ~through => failed
    BY <2>1, Zenon DEF Wanted
  <2>3. failed \in BOOLEAN /\ through \in BOOLEAN
    BY Zenon
  <2>4. told[m] \in Fates /\ (clean => told[m] \notin {"once", "queued", "twice"})
        /\ (sort = "action" => told[m] \in {"not", "once", "twice", "capped"})
    BY <1>c, <2>1 DEF Fated
  <2> HIDE DEF through, failed, w
  <2>5. CASE through
    <3> DEFINE v == IF told[m] \in {"once", "queued", "twice"} THEN "twice" ELSE "once"
    <3>1. told' = [told EXCEPT ![m] = v] /\ reachedBy' = reachedBy \cup {m}
      BY <2>1, <2>5, Zenon DEF Heard, Remember
    <3>2. v \in Fates /\ v # "not" /\ v \in {"once", "twice"} /\ (clean => v # "twice")
      BY <2>4 DEF Fates
    <3>3. v \in {"not", "once", "twice", "capped"} /\ v \in {"once", "queued", "twice"}
      BY <3>2
    <3> HIDE DEF v
    <3> QED
      BY <2>1, <2>3, <3>1, <3>2, <3>3, OneIsTold, Zenon
  <2>6. CASE ~through
    <3>1. UNCHANGED <<told, reachedBy>> /\ failed
      BY <2>1, <2>2, <2>6, Zenon DEF Remember
    <3>2. told' = [told EXCEPT ![m] = told[m]]
      BY <1>d, <3>1
    <3>3. m \notin reachedBy' /\ (clean => told[m] \notin {"once", "queued"} /\ told[m] # "twice")
      BY <2>1, <2>4, <3>1
    <3> QED
      BY <2>1, <2>3, <2>4, <3>1, <3>2, <3>3, OneIsTold, Zenon
  <2> QED
    BY <2>5, <2>6
<1>7. ASSUME NEW stored \in BOOLEAN, Recorded(stored)
      PROVE  NoticeInv'
  <2>1. /\ attempt.on /\ attempt.todo = {} /\ ~attempt.failed /\ attempt' = NoAttempt /\ reachedBy' = {}
        /\ onRecord' = stored /\ clean' = (clean /\ stored) /\ UNCHANGED <<sort, wish, told>>
    BY <1>7, Zenon DEF Recorded, Over, NobodyMissed
  <2>2. NoticeTypeOK'
    BY <1>a, <1>b, <2>1, Zenon DEF NoticeTypeOK
  <2>3. ASSUME NEW m \in Household
        PROVE  /\ told[m] # "not" /\ (clean => told[m] # "twice")
               /\ sort = "action" => told[m] \in {"once", "twice", "capped"}
    BY <1>c, <2>1 DEF Fated
  <2>4. (OneCopyEach /\ RecordMeansTold)'
    BY <2>1, <2>3, Zenon DEF OneCopyEach, RecordMeansTold
  <2>5. \A m \in Household : Fated(m)'
    <3>1. ~(clean' /\ ~onRecord') /\ attempt'.on = FALSE
      BY <1>b, <2>1, Zenon
    <3> QED
      BY <1>c, <2>1, <3>1, Zenon DEF Fated
  <2> QED
    BY <1>b, <2>1, <2>2, <2>4, <2>5, Zenon DEF NoticeInv
<1>8. CASE TriedAgain
  BY <1>8, <1>b, NobodyIsTold, Zenon DEF TriedAgain
<1>9. ASSUME NEW m \in Household, NEW w \in Wish, WishChanges(m, w)
      PROVE  NoticeInv'
  <2>1. wish' \in [Household -> Wish] /\ UNCHANGED <<sort, attempt, reachedBy, onRecord, told, clean>>
    BY <1>9, <1>a DEF WishChanges, NoticeTypeOK
  <2> QED
    BY <1>a, <2>1, Zenon DEF NoticeInv, NoticeTypeOK, OneCopyEach, RecordMeansTold, Fated
<1>10. CASE NoticeRestart
  <2>1. /\ attempt' = NoAttempt /\ reachedBy' = {} /\ clean' = FALSE /\ UNCHANGED <<sort, wish, onRecord, told>>
    BY <1>10, Zenon DEF NoticeRestart
  <2>2. NoticeTypeOK' /\ (OneCopyEach /\ RecordMeansTold)'
    BY <1>a, <1>b, <2>1, Zenon DEF NoticeInv, NoticeTypeOK, OneCopyEach, RecordMeansTold
  <2>3. \A m \in Household : Fated(m)'
    BY <1>b, <1>c, <2>1, Zenon DEF Fated
  <2> QED
    BY <1>b, <2>1, <2>2, <2>3, Zenon DEF NoticeInv
<1>11. CASE UNCHANGED noticeVars
  <2>1. UNCHANGED <<sort, wish, attempt, reachedBy, onRecord, told, clean>>
    BY <1>11, Zenon DEF noticeVars
  <2> QED
    BY <2>1, Zenon DEF NoticeInv, NoticeTypeOK, OneCopyEach, RecordMeansTold, Fated
<1> QED
  BY <1>1, <1>2, <1>3, <1>4, <1>5, <1>6, <1>7, <1>8, <1>9, <1>10, <1>11, Zenon DEF NoticeEvent, NoticeWork

\* Nobody hears of a change twice because somebody else of the household was missed, while
\* the process lives and the store takes the record (NotifyApply, markReached).
THEOREM NobodyHearsTwice == NoticeSpec => []OneCopyEach
<1>1. NoticeInv => OneCopyEach
  BY Zenon DEF NoticeInv
<1> QED
  BY <1>1, NoticeStarts, NoticeMoves, PTL DEF NoticeSpec

\* What is on record as told was told to everybody, whichever members an attempt missed and
\* however their wishes changed meanwhile (NotifyApply, notifyUserThen).
THEOREM RecordIsTrue == NoticeSpec => []RecordMeansTold
<1>1. NoticeInv => RecordMeansTold
  BY Zenon DEF NoticeInv
<1> QED
  BY <1>1, NoticeStarts, NoticeMoves, PTL DEF NoticeSpec
------------------------------------------------------------------------------
(* A notice for everybody.                                                  *)

LEMMA FanoutStarts == FanoutInit => FanoutInv
<1> SUFFICES ASSUME FanoutInit
             PROVE  FanoutInv
  OBVIOUS
<1>1. acted \subseteq Sharers /\ (acted # {} => notice = "change")
  BY DEF FanoutInit
<1>2. FanoutTypeOK
  BY <1>1, Zenon DEF FanoutInit, FanoutTypeOK
<1>3. \A m \in Sharers : Unserved(m)
  BY DEF FanoutInit, Unserved
<1> QED
  BY <1>1, <1>2, <1>3 DEF FanoutInit, FanoutInv

\* What a copy's ways come to: all of them went or failed, for one who had none.
CopyWays(m) == WaysFor(m, IF notice = "broadcast" THEN says[m] ELSE copy[m])

CopyGoes(m, failed) ==
  /\ failed \subseteq CopyWays(m)
  /\ issued' = issued \cup ({m} \X (CopyWays(m) \ failed)) /\ lost' = lost \cup ({m} \X failed)
  /\ outbox' = outbox \/ outbox' = outbox \cup {<<m, way>> : way \in CopyWays(m) \ failed}

\* The copies that go to a person.
LEMMA CopiesOf ==
  ASSUME FanoutInv, NEW m \in Sharers, NEW failed \in SUBSET Ways, NEW queued \in BOOLEAN,
         CopyFor(m, failed, queued)
  PROVE  CopyWays(m) \in SUBSET Ways /\ CopyGoes(m, failed)
<1> DEFINE w == IF notice = "broadcast" THEN says[m] ELSE copy[m]
           all == WaysFor(m, w)
           through == {way \in all \ failed : ~queued \/ Key(m, way) \notin outbox}
<1>1. /\ phase = "sending" /\ m \in toTell /\ failed \subseteq all
      /\ issued' = issued \cup ({m} \X through) /\ lost' = lost \cup ({m} \X failed)
      /\ outbox' = IF queued THEN outbox \cup {Key(m, way) : way \in through} ELSE outbox
  BY Zenon DEF CopyFor
<1>2. all \in SUBSET Ways
  BY DEF WaysFor
<1>3. Unserved(m)
  BY <1>1, Zenon DEF FanoutInv
<1>4. through = all \ failed
  <2> HIDE DEF all
  <2> QED
    BY <1>2, <1>3 DEF Unserved, Key
<1>6. outbox' = outbox \/ outbox' = outbox \cup {<<m, way>> : way \in all \ failed}
  <2> HIDE DEF all, through
  <2> QED
    BY <1>1, <1>4, Zenon DEF Key
<1>7. all = CopyWays(m)
  BY Zenon DEF CopyWays
<1> HIDE DEF all, through
<1> QED
  BY <1>1, <1>2, <1>4, <1>6, <1>7, Zenon DEF CopyGoes

\* A copy for one member is none for another.
LEMMA OthersCopies ==
  ASSUME FanoutInv, NEW m \in Sharers, NEW failed \in SUBSET Ways, NEW queued \in BOOLEAN,
         CopyFor(m, failed, queued), NEW n \in Sharers, n # m
  PROVE  /\ Unserved(n) => Unserved(n)'
         /\ Served(n) => Served(n)'
         /\ \A way \in Ways : <<n, way>> \in issued' <=> <<n, way>> \in issued
<1> DEFINE all == CopyWays(m)
<1>0. all \in SUBSET Ways /\ CopyGoes(m, failed)
  BY CopiesOf
<1>1. /\ failed \subseteq all /\ all \in SUBSET Ways
      /\ issued' = issued \cup ({m} \X (all \ failed)) /\ lost' = lost \cup ({m} \X failed)
      /\ outbox' = outbox \/ outbox' = outbox \cup {<<m, way>> : way \in all \ failed}
  BY <1>0, Zenon DEF CopyGoes
<1> HIDE DEF all
<1>2. \A way \in Ways : /\ <<n, way>> \in issued' <=> <<n, way>> \in issued
                        /\ <<n, way>> \in lost' <=> <<n, way>> \in lost
                        /\ <<n, way>> \in outbox' <=> <<n, way>> \in outbox
  BY <1>1
<1>3. UNCHANGED <<notice, named, steady>> /\ (lost' = {} => lost = {}) /\ "mail" \in Ways
  BY <1>1 DEF CopyFor, Ways
<1>4. ReadTwice' = ReadTwice /\ MustReach' = MustReach
  BY <1>3 DEF ReadTwice, MustReach
<1>5. Unserved(n) => Unserved(n)'
  BY <1>2 DEF Unserved
<1>6. ASSUME Served(n)
      PROVE  Served(n)'
  <2>1. ASSUME steady', ReadTwice' => lost' = {}, NEW way \in Ways
        PROVE  way \in named'[n] <=> <<n, way>> \in issued' \cup lost'
    <3>1. way \in named[n] <=> <<n, way>> \in issued \cup lost
      BY <1>3, <1>4, <1>6, <2>1, Zenon DEF Served
    <3> QED
      BY <1>2, <1>3, <3>1
  <2>2. MustReach' /\ ~ReadTwice' => <<n, "mail">> \in issued' \cup lost'
    BY <1>2, <1>3, <1>4, <1>6 DEF Served
  <2> QED
    BY <2>1, <2>2, Zenon DEF Served
<1> QED
  BY <1>2, <1>5, <1>6

\* The invariant goes on, reader by reader.
LEMMA FanoutMoves == FanoutInv /\ [FanoutEvent \/ FanoutWork]_fanoutVars => FanoutInv'
<1> SUFFICES ASSUME FanoutInv, [FanoutEvent \/ FanoutWork]_fanoutVars
             PROVE  FanoutInv'
  OBVIOUS
<1>a. FanoutTypeOK /\ (acted # {} => notice = "change")
  BY Zenon DEF FanoutInv
<1>1. CASE Name
  <2>1. /\ phase = "start" /\ named' = [m \in Sharers |-> WaysFor(m, says[m])] /\ copy' = says
        /\ phase' \in {"named", "sending"} /\ toTell' \in {{}, Sharers}
        /\ (phase' = "sending" => toTell' = Sharers)
        /\ UNCHANGED <<notice, acted, says, outbox, issued, lost, steady>>
    BY <1>1 DEF Name, deliveries
  <2>2. \A m \in Sharers : WaysFor(m, says[m]) \in SUBSET Ways
    BY DEF WaysFor
  <2>3. FanoutTypeOK'
    BY <1>a, <2>1, <2>2 DEF FanoutTypeOK
  <2>4. \A m \in Sharers : Unserved(m)'
    BY <2>1, Zenon DEF FanoutInv, Unserved
  <2>5. steady' /\ phase' # "start" =>
          copy' = says' /\ \A m \in Sharers : named'[m] = WaysFor(m, says[m])'
    <3>1. \A m \in Sharers : WaysFor(m, says[m])' = WaysFor(m, says[m])
      BY <2>1 DEF WaysFor, PassedOver, MustReach
    <3> QED
      BY <2>1, <3>1
  <2> QED
    BY <1>a, <2>1, <2>3, <2>4, <2>5 DEF FanoutInv
<1>2. CASE ReadAgain
  <2>1. /\ phase = "named" /\ copy' = says /\ phase' = "sending" /\ toTell' = Sharers
        /\ UNCHANGED <<notice, acted, says, named, outbox, issued, lost, steady>>
    BY <1>2 DEF ReadAgain, deliveries
  <2>2. FanoutTypeOK'
    BY <1>a, <2>1 DEF FanoutTypeOK
  <2>3. \A m \in Sharers : Unserved(m)'
    BY <2>1, Zenon DEF FanoutInv, Unserved
  <2>4. steady => \A m \in Sharers : named'[m] = WaysFor(m, says[m])'
    <3>1. \A m \in Sharers : WaysFor(m, says[m])' = WaysFor(m, says[m])
      BY <2>1 DEF WaysFor, PassedOver, MustReach
    <3>2. steady => \A m \in Sharers : named[m] = WaysFor(m, says[m])
      BY <2>1 DEF FanoutInv
    <3> QED
      BY <2>1, <3>1, <3>2
  <2> QED
    BY <1>a, <2>1, <2>2, <2>3, <2>4 DEF FanoutInv
<1>3. ASSUME NEW m \in Sharers, NEW failed \in SUBSET Ways, NEW queued \in BOOLEAN, CopyFor(m, failed, queued)
      PROVE  FanoutInv'
  <2> DEFINE all == CopyWays(m)
  <2>0. all \in SUBSET Ways /\ CopyGoes(m, failed)
    BY <1>3, CopiesOf
  <2>1. /\ failed \subseteq all /\ all \in SUBSET Ways
        /\ issued' = issued \cup ({m} \X (all \ failed)) /\ lost' = lost \cup ({m} \X failed)
        /\ outbox' = outbox \/ outbox' = outbox \cup {<<m, way>> : way \in all \ failed}
    BY <2>0, Zenon DEF CopyGoes
  <2>2. /\ phase = "sending" /\ UNCHANGED <<notice, acted, says, named, copy, steady>>
        /\ toTell' = IF Stops(failed) THEN {} ELSE toTell \ {m}
        /\ phase' = IF toTell' = {} THEN "over" ELSE phase
    BY <1>3, Zenon DEF CopyFor
  <2>3. FanoutTypeOK'
    BY <1>a, <2>1, <2>2 DEF FanoutTypeOK
  <2>4. \A n \in Sharers : IF n \in toTell THEN Unserved(n) ELSE Served(n)
    BY <2>2, Zenon DEF FanoutInv
  <2>5. steady => copy = says /\ \A n \in Sharers : named[n] = WaysFor(n, says[n])
    BY <2>2 DEF FanoutInv
  <2>6. m \in acted => all = {}
    BY DEF CopyWays, WaysFor, PassedOver
  <2>7. MustReach /\ ~ReadTwice => "mail" \in all
    BY <1>a DEF CopyWays, WaysFor, PassedOver, MustReach, ReadTwice, Ways
  <2>14. steady => all = WaysFor(m, says[m])
    BY <2>5 DEF CopyWays
  <2> HIDE DEF all
  <2>8. ReadTwice' = ReadTwice /\ MustReach' = MustReach /\ Unserved(m)
    BY <1>3, <2>2, <2>4, Zenon DEF ReadTwice, MustReach, CopyFor
  <2>9. Served(m)'
    <3>1. ASSUME steady, NEW way \in Ways
          PROVE  way \in named'[m] <=> <<m, way>> \in issued' \cup lost'
      <4>1. named'[m] = all
        BY <2>2, <2>5, <2>14, <3>1
      <4> QED
        BY <2>1, <2>8, <3>1, <4>1 DEF Unserved
    <3>2. MustReach /\ ~ReadTwice => <<m, "mail">> \in issued' \cup lost'
      BY <2>1, <2>7
    <3> QED
      BY <2>2, <2>8, <3>1, <3>2, Zenon DEF Served
  <2>10. ASSUME NEW n \in Sharers, n \notin toTell'
         PROVE  Served(n)'
    <3>1. CASE n = m
      BY <3>1, <2>9
    <3>2. CASE n # m /\ ~Stops(failed)
      BY <3>2, <1>3, <2>2, <2>4, <2>10, OthersCopies
    <3>3. CASE Stops(failed)
      <4>1. ReadTwice /\ lost' # {}
        <5>1. ReadTwice /\ failed # {}
          BY <3>3, Zenon DEF Stops
        <5>2. PICK way \in failed : TRUE
          BY <5>1
        <5>3. <<m, way>> \in lost'
          BY <2>1, <5>2
        <5> QED
          BY <5>1, <5>3
      <4> QED
        BY <2>8, <4>1, Zenon DEF Served
    <3> QED
      BY <3>1, <3>2, <3>3
  <2>11. ASSUME NEW n \in Sharers, n \in toTell'
         PROVE  Unserved(n)'
    <3>1. n # m /\ n \in toTell
      BY <2>2, <2>11
    <3> QED
      BY <1>3, <2>4, <3>1, OthersCopies
  <2>12. ASSUME NEW n \in acted, NEW way \in Ways
         PROVE  <<n, way>> \notin issued'
    <3>1. <<n, way>> \notin issued
      BY <2>12 DEF FanoutInv
    <3> QED
      BY <2>1, <2>6, <2>12, <3>1
  <2>13. phase' \in {"sending", "over"} /\ (phase' = "over" => toTell' = {})
    BY <2>2
  <2> QED
    <3>1. steady' /\ phase' # "start" =>
            copy' = says' /\ \A n \in Sharers : named'[n] = WaysFor(n, says[n])'
      <4>1. \A n \in Sharers : WaysFor(n, says[n])' = WaysFor(n, says[n])
        BY <2>2 DEF WaysFor, PassedOver, MustReach
      <4> QED
        BY <2>2, <2>5, <4>1
    <3> QED
      BY <1>a, <2>2, <2>3, <2>10, <2>11, <2>12, <2>13, <3>1, Zenon DEF FanoutInv
<1>4. ASSUME NEW m \in Sharers, NEW w \in Says, SaysChanges(m, w)
      PROVE  FanoutInv'
  <2>1. /\ says' \in [Sharers -> Says] /\ steady' = FALSE
        /\ UNCHANGED <<notice, acted, named, copy, phase, toTell, outbox, issued, lost>>
    BY <1>4, <1>a DEF SaysChanges, deliveries, FanoutTypeOK
  <2>2. FanoutTypeOK'
    BY <1>a, <2>1, Zenon DEF FanoutTypeOK
  <2>3. \A n \in Sharers : (Unserved(n) => Unserved(n)') /\ (Served(n) => Served(n)')
    BY <2>1, Zenon DEF Unserved, Served, ReadTwice, MustReach
  <2> QED
    BY <1>a, <2>1, <2>2, <2>3, Zenon DEF FanoutInv
<1>5. CASE UNCHANGED fanoutVars
  <2>1. UNCHANGED <<notice, acted, says, named, copy, phase, toTell, outbox, issued, lost, steady>>
    BY <1>5, Zenon DEF fanoutVars
  <2> QED
    BY <2>1, Zenon DEF FanoutInv, FanoutTypeOK, Unserved, Served, ReadTwice, MustReach, WaysFor, PassedOver
<1> QED
  <2>1. {} \in SUBSET Ways
    OBVIOUS
  <2>2. ASSUME FanoutEvent
        PROVE  FanoutInv'
    BY <2>2, <1>3, <1>4 DEF FanoutEvent
  <2>3. ASSUME FanoutWork
        PROVE  FanoutInv'
    BY <2>1, <2>3, <1>1, <1>2, <1>3, Zenon DEF FanoutWork
  <2> QED
    BY <2>2, <2>3, <1>5, Zenon

\* Those a notice names as told have their copies, in the ways it names, whatever fails for
\* others and whichever of its readings they come from (fanoutEnqueue, EnqueueApply,
\* NotifyAccountChange, NotifyPermitExpiry).
THEOREM NamedAreTold == FanoutSpec => []ToldAsNamed
<1>1. FanoutInv => ToldAsNamed
  BY Zenon DEF FanoutInv, ToldAsNamed, Served
<1> QED
  BY <1>1, FanoutStarts, FanoutMoves, PTL DEF FanoutSpec
------------------------------------------------------------------------------
(* Signed in.                                                               *)

\* The bounds of a cookie's life.
LEMMA CookieLives == Ttl \in Nat /\ MaxAge \in Nat /\ MaxEpoch \in Nat /\ Ttl > 0 /\ Ttl <= MaxAge
BY WebAssumption

LEMMA WebStarts == WebInit => WebInv
<1> SUFFICES ASSUME WebInit
             PROVE  WebInv
  OBVIOUS
<1>1. epoch \in 0..MaxEpoch /\ known \in 0..epoch
  BY CookieLives, SMT DEF WebInit
<1>2. WebTypeOK
  BY <1>1, Zenon DEF WebInit, WebTypeOK
<1>3. \A b \in Browsers : cookie[b] = NoCookie /\ renewing[b] = NoCookie
  BY Zenon DEF WebInit
<1>4. Revocations
  BY Zenon DEF WebInit, Revocations
<1> QED
  BY <1>2, <1>3, <1>4, Zenon DEF WebInv

\* What is kept in a browser, or about to be renewed there, is a cookie and sound.
LEMMA CookiesAre ==
  ASSUME WebInv, NEW b \in Browsers
  PROVE  /\ cookie[b] # NoCookie => Sound(cookie[b]) /\ cookie[b] \in Cookie
         /\ renewing[b] # NoCookie => Sound(renewing[b]) /\ renewing[b] \in Cookie
BY Zenon DEF WebInv, Sound

\* The fields of a cookie are numbers in their bounds, and Booleans.
LEMMA FieldsAre ==
  ASSUME NEW c \in Cookie
  PROVE  /\ c.exp \in 0..Ttl /\ c.iat \in 0..MaxAge /\ c.ep \in 0..MaxEpoch /\ c.born \in 0..MaxEpoch
         /\ c.since \in 0..MaxAge /\ c.gap \in 0..Ttl
         /\ c.admin \in BOOLEAN /\ c.steady \in BOOLEAN /\ c.raced \in BOOLEAN
BY Zenon DEF Cookie

\* A cookie that has grown older is sound.
LEMMA OlderIsSound ==
  ASSUME NEW c, Sound(c)
  PROVE  Sound(Older(c))
<1> DEFINE e == IF c.exp = 0 THEN 0 ELSE c.exp - 1
           i == IF c.iat = MaxAge THEN c.iat ELSE c.iat + 1
           s == IF c.since = MaxAge THEN c.since ELSE c.since + 1
           g == IF c.gap = Ttl THEN c.gap ELSE c.gap + 1
           y == c.steady /\ 2 * (c.gap + 1) < Ttl
           d == Older(c)
<1>1. /\ c \in Cookie /\ c.exp \in 0..Ttl /\ c.iat \in 0..MaxAge /\ c.since \in 0..MaxAge /\ c.gap \in 0..Ttl
      /\ c.since = c.iat
  BY FieldsAre, Zenon DEF Sound
<1>2. e \in 0..Ttl /\ i \in 0..MaxAge /\ s \in 0..MaxAge /\ g \in 0..Ttl /\ s = i
  BY <1>1, CookieLives, SMT
<1>3. y \in BOOLEAN
  BY Zenon
<1>4. d = [c EXCEPT !.exp = e, !.iat = i, !.since = s, !.gap = g, !.steady = y]
  BY Zenon DEF Older
<1>5. /\ d \in Cookie /\ d.exp = e /\ d.iat = i /\ d.since = s /\ d.gap = g /\ d.steady = y
      /\ d.ep = c.ep /\ d.admin = c.admin /\ d.born = c.born /\ d.raced = c.raced
  <2> HIDE DEF e, i, s, g, y, d
  <2> QED
    BY <1>1, <1>2, <1>3, <1>4, Zenon DEF Cookie
<1>6. ASSUME y
      PROVE  2 * g < Ttl /\ Ttl <= 2 * (e + g)
  <2>1. 2 * (c.gap + 1) < Ttl /\ Ttl <= 2 * (c.exp + c.gap)
    BY <1>6, Zenon DEF Sound
  <2> QED
    BY <1>1, <2>1, CookieLives, SMT
<1> HIDE DEF e, i, s, g, y
<1>7. d.steady => 2 * d.gap < Ttl /\ Ttl <= 2 * (d.exp + d.gap)
  BY <1>5, <1>6, Zenon
<1>8. ~d.raced => d.ep <= d.born
  BY <1>5, Zenon DEF Sound
<1> HIDE DEF d
<1>9. Sound(d)
  BY <1>2, <1>5, <1>7, <1>8, Zenon DEF Sound
<1> QED
  BY <1>9 DEF d

\* So is one that has been seen, and one whose renewal was lost.
LEMMA SeenIsSound ==
  ASSUME NEW c, Sound(c)
  PROVE  /\ ~HalfSpent(c) => Sound([c EXCEPT !.gap = 0])
         /\ Sound([c EXCEPT !.steady = FALSE])
<1>1. c \in Cookie /\ c.exp \in 0..Ttl /\ 0 \in 0..Ttl
  <2>1. 0 \in 0..Ttl
    BY CookieLives, SMT
  <2> QED
    BY <2>1, FieldsAre, Zenon DEF Sound
<1>2. ASSUME ~HalfSpent(c)
      PROVE  Sound([c EXCEPT !.gap = 0])
  <2> DEFINE d == [c EXCEPT !.gap = 0]
  <2>1. /\ d \in Cookie /\ d.exp = c.exp /\ d.iat = c.iat /\ d.since = c.since /\ d.gap = 0
        /\ d.steady = c.steady /\ d.ep = c.ep /\ d.born = c.born /\ d.raced = c.raced
    BY <1>1, Zenon DEF Cookie
  <2>2. 2 * 0 < Ttl /\ Ttl <= 2 * (c.exp + 0)
    BY <1>1, <1>2, CookieLives, SMT DEF HalfSpent
  <2> HIDE DEF d
  <2>3. Sound(d)
    BY <2>1, <2>2, Zenon DEF Sound
  <2> QED
    BY <2>3 DEF d
<1>3. Sound([c EXCEPT !.steady = FALSE])
  <2> DEFINE d == [c EXCEPT !.steady = FALSE]
  <2>1. /\ d \in Cookie /\ d.exp = c.exp /\ d.iat = c.iat /\ d.since = c.since /\ d.gap = c.gap
        /\ d.steady = FALSE /\ d.ep = c.ep /\ d.born = c.born /\ d.raced = c.raced
    BY <1>1, Zenon DEF Cookie
  <2> HIDE DEF d
  <2>2. Sound(d)
    BY <2>1, Zenon DEF Sound
  <2> QED
    BY <2>2 DEF d
<1> QED
  BY <1>2, <1>3

\* The tables after a step that moves neither epochs nor revocations.
LEMMA CookiesMove ==
  ASSUME WebInv, UNCHANGED people0, login' \in [Browsers -> {"none", "away", "back"}],
         \E b \in Browsers : \E c : (c # NoCookie => Sound(c)) /\ cookie' = [cookie EXCEPT ![b] = c],
         \/ UNCHANGED renewing
         \/ \E b \in Browsers : \E c : (c # NoCookie => Sound(c)) /\ renewing' = [renewing EXCEPT ![b] = c]
  PROVE  WebInv'
<1>a. /\ cookie \in [Browsers -> Cookie \cup {NoCookie}] /\ renewing \in [Browsers -> Cookie \cup {NoCookie}]
      /\ \A b \in Browsers : cookie[b] # NoCookie => Sound(cookie[b])
      /\ \A b \in Browsers : renewing[b] # NoCookie => Sound(renewing[b])
  BY Zenon DEF WebInv, WebTypeOK
<1>b. \A c : Sound(c) => c \in Cookie
  BY Zenon DEF Sound
<1>1. /\ cookie' \in [Browsers -> Cookie \cup {NoCookie}]
      /\ \A b \in Browsers : cookie'[b] # NoCookie => Sound(cookie'[b])
  <2>1. PICK b \in Browsers : \E c : (c # NoCookie => Sound(c)) /\ cookie' = [cookie EXCEPT ![b] = c]
    OBVIOUS
  <2>2. PICK c : (c # NoCookie => Sound(c)) /\ cookie' = [cookie EXCEPT ![b] = c]
    BY <2>1
  <2> QED
    BY <1>a, <1>b, <2>2
<1>2. /\ renewing' \in [Browsers -> Cookie \cup {NoCookie}]
      /\ \A b \in Browsers : renewing'[b] # NoCookie => Sound(renewing'[b])
  <2>1. CASE UNCHANGED renewing
    BY <1>a, <2>1
  <2>2. ASSUME NEW b \in Browsers, NEW c, c # NoCookie => Sound(c), renewing' = [renewing EXCEPT ![b] = c]
        PROVE  /\ renewing' \in [Browsers -> Cookie \cup {NoCookie}]
               /\ \A a \in Browsers : renewing'[a] # NoCookie => Sound(renewing'[a])
    BY <1>a, <1>b, <2>2
  <2> QED
    BY <2>1, <2>2
<1>3. Revocations' /\ WebTypeOK'
  BY <1>1, <1>2, Zenon DEF WebInv, WebTypeOK, Revocations, people0
<1> QED
  BY <1>1, <1>2, <1>3, Zenon DEF WebInv

\* A renewed cookie is sound, under the epoch known when it is issued.
LEMMA RenewedIsSound ==
  ASSUME NEW c, Sound(c), known \in 0..MaxEpoch
  PROVE  Sound([c EXCEPT !.exp = Ttl, !.iat = SessionBegan(c), !.ep = known, !.gap = 0,
                         !.raced = @ \/ ~Accepts(c)])
<1> DEFINE z == c.raced \/ ~Accepts(c)
           i == SessionBegan(c)
           d == [c EXCEPT !.exp = Ttl, !.iat = i, !.ep = known, !.gap = 0, !.raced = z]
<1>1. /\ c \in Cookie /\ i = c.iat /\ c.iat \in 0..MaxAge /\ c.ep \in 0..MaxEpoch /\ c.born \in 0..MaxEpoch
      /\ c.since = c.iat
  BY FieldsAre, Zenon DEF Sound, SessionBegan
<1>2. Ttl \in 0..Ttl /\ 0 \in 0..Ttl /\ 2 * 0 < Ttl /\ Ttl <= 2 * (Ttl + 0)
  BY CookieLives, SMT
<1>3. z \in BOOLEAN
  BY Zenon
<1>4. ~z => known <= c.born
  <2>1. ASSUME ~z
        PROVE  c.ep >= known /\ c.ep <= c.born
    BY <2>1, Zenon DEF Accepts, Sound
  <2>2. ASSUME ~z
        PROVE  known <= c.born
    BY <1>1, <2>1, <2>2, CookieLives, SMT
  <2> QED
    BY <2>2
<1> HIDE DEF z, i
<1>5. /\ d \in Cookie /\ d.exp = Ttl /\ d.iat = i /\ d.ep = known /\ d.gap = 0 /\ d.raced = z
      /\ d.since = c.since /\ d.born = c.born /\ d.steady = c.steady
  BY <1>1, <1>2, <1>3, Zenon DEF Cookie
<1> HIDE DEF d
<1>6. Sound(d)
  BY <1>1, <1>2, <1>4, <1>5, Zenon DEF Sound
<1> QED
  BY <1>6, Zenon DEF d, z, i

\* The invariant goes on: no cookie outlives the session it was made for.
LEMMA WebMoves == WebInv /\ [WebNext]_webVars => WebInv'
<1> SUFFICES ASSUME WebInv, [WebNext]_webVars
             PROVE  WebInv'
  OBVIOUS
<1>a. /\ WebTypeOK /\ Revocations
      /\ cookie \in [Browsers -> Cookie \cup {NoCookie}] /\ renewing \in [Browsers -> Cookie \cup {NoCookie}]
      /\ login \in [Browsers -> {"none", "away", "back"}] /\ admin \in BOOLEAN
  BY Zenon DEF WebInv, WebTypeOK
<1>b. epoch \in 0..MaxEpoch /\ known \in 0..epoch /\ revoking \subseteq 1..epoch /\ done \subseteq 1..epoch
  BY <1>a, Zenon DEF WebTypeOK
<1>c. epoch \in Nat /\ known \in 0..MaxEpoch /\ known <= epoch
  BY <1>b, CookieLives, SMT
<1>d. ASSUME NEW b \in Browsers
      PROVE  /\ cookie[b] # NoCookie => Sound(cookie[b])
             /\ renewing[b] # NoCookie => Sound(renewing[b])
             /\ UNCHANGED cookie => cookie' = [cookie EXCEPT ![b] = cookie[b]]
  <2>1. UNCHANGED cookie => cookie' = [cookie EXCEPT ![b] = cookie[b]]
    BY <1>a
  <2> QED
    BY <2>1, CookiesAre
<1>e. \A c : Sound(c) => c \in Cookie
  BY Zenon DEF Sound
<1>1. ASSUME NEW b \in Browsers, \E s \in {"none", "away", "back"} : login' = [login EXCEPT ![b] = s],
             UNCHANGED <<people0, cookie, renewing>>
      PROVE  WebInv'
  <2>1. login' \in [Browsers -> {"none", "away", "back"}]
    BY <1>1, <1>a
  <2>2. \E d \in Browsers : \E c : (c # NoCookie => Sound(c)) /\ cookie' = [cookie EXCEPT ![d] = c]
    BY <1>1, <1>d
  <2> QED
    BY <1>1, <2>1, <2>2, CookiesMove, Zenon
<1>2. ASSUME NEW b \in Browsers, Callback(b)
      PROVE  WebInv'
  <2> DEFINE c == [exp |-> Ttl, iat |-> 0, ep |-> known, admin |-> admin,
                   born |-> epoch, since |-> 0, gap |-> 0, steady |-> TRUE, raced |-> FALSE]
  <2>1. /\ Ttl \in 0..Ttl /\ 0 \in 0..MaxAge /\ 0 \in 0..Ttl /\ known <= epoch
        /\ 2 * 0 < Ttl /\ Ttl <= 2 * (Ttl + 0)
    BY <1>c, CookieLives, SMT
  <2>2. /\ c \in Cookie /\ c.exp = Ttl /\ c.iat = 0 /\ c.ep = known /\ c.born = epoch /\ c.since = 0
        /\ c.gap = 0 /\ c.raced = FALSE
    BY <1>a, <1>b, <1>c, <2>1, Zenon DEF Cookie
  <2>3. /\ cookie' = [cookie EXCEPT ![b] = c] /\ UNCHANGED <<people0, renewing>>
        /\ login' = [login EXCEPT ![b] = "none"]
    BY <1>2, Zenon DEF Callback, Issue
  <2> HIDE DEF c
  <2>4. Sound(c)
    BY <2>1, <2>2, Zenon DEF Sound
  <2>5. login' \in [Browsers -> {"none", "away", "back"}]
    BY <2>3, <1>a
  <2> QED
    BY <2>3, <2>4, <2>5, CookiesMove, Zenon
<1>3. ASSUME NEW b \in Browsers, Logout(b)
      PROVE  WebInv'
  <2>1. cookie' = [cookie EXCEPT ![b] = NoCookie] /\ UNCHANGED <<people0, login, renewing>>
    BY <1>3, Zenon DEF Logout
  <2> QED
    BY <1>a, <2>1, CookiesMove, Zenon
<1>4. ASSUME NEW b \in Browsers, Visits(b)
      PROVE  WebInv'
  <2> DEFINE c == [cookie[b] EXCEPT !.gap = 0]
  <2>1. cookie[b] # NoCookie /\ ~HalfSpent(cookie[b])
    BY <1>4, Zenon DEF Visits, Accepts
  <2>2. cookie' = [cookie EXCEPT ![b] = c] /\ UNCHANGED <<people0, login, renewing>>
    BY <1>4, Zenon DEF Visits
  <2>3. Sound(c)
    BY <1>d, <2>1, SeenIsSound
  <2> HIDE DEF c
  <2> QED
    BY <1>a, <2>2, <2>3, CookiesMove, Zenon
<1>5. ASSUME NEW b \in Browsers, Decode(b)
      PROVE  WebInv'
  <2>1. /\ renewing' = [renewing EXCEPT ![b] = cookie[b]] /\ UNCHANGED <<people0, login, cookie>>
    BY <1>5, Zenon DEF Decode
  <2>2. cookie[b] # NoCookie => Sound(cookie[b])
    BY <1>d
  <2>3. cookie' = [cookie EXCEPT ![b] = cookie[b]]
    BY <1>d, <2>1
  <2> QED
    BY <1>a, <2>1, <2>2, <2>3, CookiesMove, Zenon
<1>6. ASSUME NEW b \in Browsers, Renews(b)
      PROVE  WebInv'
  <2> DEFINE c == renewing[b]
             d == [c EXCEPT !.exp = Ttl, !.iat = SessionBegan(c), !.ep = known, !.gap = 0,
                            !.raced = @ \/ ~Accepts(c)]
  <2>1. /\ c # NoCookie /\ renewing' = [renewing EXCEPT ![b] = NoCookie]
        /\ cookie' = [cookie EXCEPT ![b] = d] /\ UNCHANGED <<people0, login>>
    BY <1>6, Zenon DEF Renews
  <2>2. Sound(c)
    BY <1>d, <2>1
  <2>3. Sound(d)
    <3> HIDE DEF c
    <3> QED
      BY <1>c, <2>2, RenewedIsSound
  <2> HIDE DEF c, d
  <2> QED
    BY <1>a, <2>1, <2>3, CookiesMove, Zenon
<1>7. ASSUME NEW b \in Browsers, RenewalLost(b)
      PROVE  WebInv'
  <2>1. /\ renewing' = [renewing EXCEPT ![b] = NoCookie] /\ UNCHANGED <<people0, login>>
        /\ cookie' = IF cookie[b] = NoCookie THEN cookie ELSE [cookie EXCEPT ![b].steady = FALSE]
    BY <1>7, Zenon DEF RenewalLost
  <2>2. \E a \in Browsers : \E c : (c # NoCookie => Sound(c)) /\ cookie' = [cookie EXCEPT ![a] = c]
    <3>1. CASE cookie[b] = NoCookie
      BY <1>d, <2>1, <3>1
    <3>2. CASE cookie[b] # NoCookie
      <4> DEFINE d == [cookie[b] EXCEPT !.steady = FALSE]
      <4>1. cookie' = [cookie EXCEPT ![b] = d]
        BY <2>1, <3>2, Zenon
      <4>2. Sound(d)
        BY <1>d, <3>2, SeenIsSound
      <4> HIDE DEF d
      <4> QED
        BY <4>1, <4>2, Zenon
    <3> QED
      BY <3>1, <3>2
  <2> QED
    BY <1>a, <2>1, <2>2, CookiesMove, Zenon
<1>8. CASE WebTick
  <2>1. /\ cookie' = [b \in Browsers |-> IF cookie[b] = NoCookie THEN NoCookie ELSE Older(cookie[b])]
        /\ UNCHANGED <<people0, login, renewing>>
    BY <1>8, Zenon DEF WebTick
  <2>2. ASSUME NEW b \in Browsers, cookie[b] # NoCookie
        PROVE  Sound(Older(cookie[b]))
    BY <1>d, <2>2, OlderIsSound
  <2>3. ASSUME NEW b \in Browsers
        PROVE  /\ cookie'[b] \in Cookie \cup {NoCookie}
               /\ cookie'[b] # NoCookie => Sound(cookie'[b])
    <3>1. CASE cookie[b] = NoCookie
      BY <2>1, <3>1, Zenon
    <3>2. CASE cookie[b] # NoCookie
      <4>1. cookie'[b] = Older(cookie[b])
        BY <2>1, <3>2, Zenon
      <4>2. Sound(Older(cookie[b])) /\ Older(cookie[b]) \in Cookie
        BY <2>2, <3>2, <1>e
      <4> QED
        BY <4>1, <4>2, Zenon
    <3> QED
      BY <3>1, <3>2
  <2>4. cookie' \in [Browsers -> Cookie \cup {NoCookie}]
    BY <2>1, <2>3, Zenon
  <2>5. WebTypeOK' /\ Revocations'
    BY <1>a, <2>1, <2>4, Zenon DEF WebTypeOK, Revocations, people0
  <2> QED
    BY <1>d, <2>1, <2>3, <2>5, Zenon DEF WebInv
<1>9. ASSUME epoch' \in 0..MaxEpoch, known' \in 0..epoch', revoking' \subseteq 1..epoch', done' \subseteq 1..epoch',
             inOrder' \in BOOLEAN, admin' \in BOOLEAN, login' \in [Browsers -> {"none", "away", "back"}],
             UNCHANGED cookie, renewing' \in {renewing, [b \in Browsers |-> NoCookie]}, Revocations'
      PROVE  WebInv'
  <2>1. /\ renewing' \in [Browsers -> Cookie \cup {NoCookie}]
        /\ \A b \in Browsers : renewing'[b] # NoCookie => Sound(renewing'[b])
    <3>1. CASE renewing' = renewing
      BY <1>a, <1>d, <3>1, Zenon
    <3>2. CASE renewing' = [b \in Browsers |-> NoCookie]
      BY <3>2, Zenon
    <3> QED
      BY <1>9, <3>1, <3>2
  <2>2. WebTypeOK'
    BY <1>9, <1>a, <2>1, Zenon DEF WebTypeOK
  <2> QED
    BY <1>9, <1>d, <2>1, <2>2, Zenon DEF WebInv
<1>10. CASE BumpSessionEpoch
  <2>1. /\ epoch' \in 0..MaxEpoch /\ known \in 0..epoch' /\ revoking' \subseteq 1..epoch' /\ done \subseteq 1..epoch'
    BY <1>10, <1>b, <1>c, CookieLives, SMT DEF BumpSessionEpoch
  <2>2. UNCHANGED <<known, admin, login, cookie, renewing, done, inOrder>>
    BY <1>10, Zenon DEF BumpSessionEpoch
  <2>3. Revocations' /\ inOrder \in BOOLEAN
    BY <1>a, <2>2, Zenon DEF Revocations, WebTypeOK
  <2> QED
    BY <1>a, <1>9, <2>1, <2>2, <2>3, Zenon
<1>11. ASSUME NEW n \in revoking, RevokeTo(n)
       PROVE  WebInv'
  <2>1. /\ known' = n /\ revoking' = revoking \ {n} /\ done' = done \cup {n} /\ inOrder' = (inOrder /\ known < n)
        /\ UNCHANGED <<epoch, admin, login, cookie, renewing>>
    BY <1>11, Zenon DEF RevokeTo
  <2>2. known' \in 0..epoch' /\ revoking' \subseteq 1..epoch' /\ done' \subseteq 1..epoch'
    <3>1. n \in 1..epoch
      BY <1>b
    <3>2. n \in 0..epoch
      BY <1>c, <3>1, SMT
    <3> QED
      BY <1>b, <2>1, <3>1, <3>2, Zenon
  <2>3. ASSUME inOrder, known < n, NEW k \in done'
        PROVE  k <= n
    <3>1. CASE k \in done
      <4>1. k <= known /\ k \in 1..epoch /\ n \in 1..epoch
        BY <1>a, <1>b, <2>3, <3>1, Zenon DEF Revocations
      <4> QED
        BY <1>c, <2>3, <4>1, SMT
    <3>2. CASE k = n
      <4>1. n \in 1..epoch
        BY <1>b
      <4> QED
        BY <1>c, <3>2, <4>1, SMT
    <3> QED
      BY <2>1, <2>3, <3>1, <3>2, Zenon
  <2>4. Revocations' /\ inOrder' \in BOOLEAN
    BY <2>1, <2>3, Zenon DEF Revocations
  <2> QED
    BY <1>a, <1>b, <1>9, <2>1, <2>2, <2>4, Zenon
<1>12. CASE RoleChanges
  <2>1. admin' \in BOOLEAN /\ UNCHANGED <<epoch, known, revoking, login, cookie, renewing, done, inOrder>>
    BY <1>12, Zenon DEF RoleChanges
  <2>2. Revocations' /\ inOrder \in BOOLEAN
    BY <1>a, <2>1, Zenon DEF Revocations, WebTypeOK
  <2> QED
    BY <1>a, <1>b, <1>9, <2>1, <2>2, Zenon
<1>13. CASE WebRestart
  <2>1. /\ known' = epoch /\ revoking' = {} /\ done' = 1..epoch /\ inOrder' = TRUE
        /\ renewing' = [b \in Browsers |-> NoCookie]
        /\ login' = [b \in Browsers |-> IF login[b] = "back" THEN "none" ELSE login[b]]
        /\ UNCHANGED <<epoch, admin, cookie>>
    BY <1>13, Zenon DEF WebRestart, SetEpochs
  <2>2. login' \in [Browsers -> {"none", "away", "back"}]
    BY <1>a, <2>1
  <2>3. epoch \in 0..epoch /\ \A k \in 1..epoch : k <= epoch
    BY <1>c, SMT
  <2>4. Revocations'
    BY <2>1, <2>3, Zenon DEF Revocations
  <2> QED
    BY <1>a, <1>b, <1>9, <2>1, <2>2, <2>3, <2>4, Zenon
<1>14. CASE UNCHANGED webVars
  <2>1. /\ UNCHANGED <<epoch, known, revoking, admin, login, cookie, renewing, done, inOrder>>
    BY <1>14, Zenon DEF webVars
  <2>2. Revocations' /\ inOrder \in BOOLEAN
    BY <1>a, <2>1, Zenon DEF Revocations, WebTypeOK
  <2> QED
    BY <1>a, <1>b, <1>9, <2>1, <2>2, Zenon
<1>15. ASSUME NEW b \in Browsers, Login(b) \/ TakeOAuthState(b) \/ LoginFails(b)
       PROVE  WebInv'
  <2>1. /\ \E s \in {"none", "away", "back"} : login' = [login EXCEPT ![b] = s]
        /\ UNCHANGED <<people0, cookie, renewing>>
    BY <1>15 DEF Login, TakeOAuthState, LoginFails
  <2> QED
    BY <2>1, <1>1
<1> QED
  BY <1>2, <1>3, <1>4, <1>5, <1>6, <1>7, <1>8, <1>10, <1>11, <1>12, <1>13, <1>14, <1>15, Zenon
     DEF WebNext, WebEvent, WebWork

\* A cookie from before a revocation stays out: its epoch is no later than the person's at
\* sign-in, and what is known is no earlier than any revocation that is over.
LEMMA OldCookiesStayOut == WebInv => RevokedStaysOut
<1> SUFFICES ASSUME WebInv, inOrder, NEW b \in Browsers, Accepts(cookie[b]), ~cookie[b].raced, NEW n \in done
             PROVE  cookie[b].born >= n
  BY Zenon DEF RevokedStaysOut
<1> DEFINE c == cookie[b]
<1>1. Sound(c) /\ c \in Cookie /\ c.ep >= known
  BY CookiesAre, Zenon DEF Accepts
<1>2. c.ep <= c.born /\ n <= known
  BY <1>1, Zenon DEF Sound, WebInv, Revocations
<1>3. c.ep \in 0..MaxEpoch /\ c.born \in 0..MaxEpoch /\ n \in 1..epoch /\ known \in 0..epoch /\ epoch \in 0..MaxEpoch
  BY <1>1, FieldsAre, Zenon DEF WebInv, WebTypeOK
<1> HIDE DEF c
<1>4. c.born >= n
  BY <1>1, <1>2, <1>3, CookieLives, SMT
<1> QED
  BY <1>4 DEF c

\* A session ends in time.
LEMMA SessionsEnd == WebInv => EndsInTime
<1> SUFFICES ASSUME WebInv, NEW b \in Browsers, Accepts(cookie[b])
             PROVE  cookie[b].since < Ceiling(cookie[b])
  BY Zenon DEF EndsInTime
<1>1. Sound(cookie[b])
  BY CookiesAre, Zenon DEF Accepts
<1> QED
  BY <1>1, Zenon DEF Accepts, Sound

\* Who keeps coming stays signed in.
LEMMA VisitorsStay == WebInv => ActiveStaysIn
<1> SUFFICES ASSUME WebInv, NEW b \in Browsers, NEW c, c = cookie[b], c # NoCookie, c.steady,
                    c.since < Ceiling(c), c.ep >= known
             PROVE  Accepts(c)
  BY Zenon DEF ActiveStaysIn
<1>1. Sound(c) /\ c.exp \in 0..Ttl /\ c.gap \in 0..Ttl /\ c.since = c.iat
  BY CookiesAre, FieldsAre, Zenon DEF Sound
<1>2. 2 * c.gap < Ttl /\ Ttl <= 2 * (c.exp + c.gap)
  BY <1>1, Zenon DEF Sound
<1>3. c.exp > 0
  BY <1>1, <1>2, CookieLives, SMT
<1> QED
  BY <1>1, <1>3, Zenon DEF Accepts

\* A session revoked is refused from then on, also after a restart, and no renewal carries
\* it over (Decode, RevokeTo, SetEpochs); none outlives its ceiling (Decode); and nobody who
\* is active is signed out early.  For every length of life, and any number of browsers.
THEOREM SignedInAsMeant == WebSpec => [](RevokedStaysOut /\ EndsInTime /\ ActiveStaysIn)
BY OldCookiesStayOut, SessionsEnd, VisitorsStay, WebStarts, WebMoves, PTL DEF WebSpec
------------------------------------------------------------------------------
(* The council a household is at.                                           *)

\* The first of some councils is one of them.
LEMMA FirstOfSome ==
  ASSUME NEW S \in SUBSET Nat, S # {}
  PROVE  Min(S) \in S /\ \A y \in S : Min(S) <= y
<1>1. PICK n \in S : \A m \in S : n <= m
  <2> DEFINE R == OpToRel(<, Nat)
  <2>1. IsWellFoundedOn(R, Nat)
    BY NatLessThanWellFounded
  <2>2. \A x, y \in Nat : <<y, x>> \notin R => x <= y
    <3>1. ASSUME NEW x \in Nat, NEW y \in Nat, y < x
          PROVE  <<y, x>> \in R
      <4>1. <<y, x>> \in Nat \X Nat /\ <<y, x>>[1] = y /\ <<y, x>>[2] = x
        OBVIOUS
      <4> QED
        BY <3>1, <4>1, Zenon DEF OpToRel
    <3> HIDE DEF R
    <3> QED
      BY <3>1
  <2> HIDE DEF R
  <2>3. \E x \in S : \A y \in S : ~(<<y, x>> \in R)
    BY <2>1, WFMin
  <2> QED
    BY <2>2, <2>3
<1> QED
  BY <1>1, Zenon DEF Min

\* The council a household is at is one of them.
LEMMA CurrentIsOne ==
  ASSUME MemoTypeOK
  PROVE  CurrentTenant \in Tenants
<1>1. linkedTo # {} => Min(linkedTo) \in linkedTo
  <2>1. linkedTo \in SUBSET Nat
    BY TenantAssumption DEF MemoTypeOK
  <2> QED
    BY <2>1, FirstOfSome
<1>2. choice \in Tenants \cup {NoTenant} /\ linkedTo \subseteq Tenants
  BY DEF MemoTypeOK
<1> QED
  BY <1>1, <1>2, TenantAssumption, Zenon DEF CurrentTenant

LEMMA MemoStarts == MemoInit => MemoInv
<1> SUFFICES ASSUME MemoInit
             PROVE  MemoInv
  OBVIOUS
<1>1. NotResolving \in Resolving /\ NotResolving.pc = "away"
  BY DEF NotResolving, Resolving
<1>2. MemoTypeOK
  BY <1>1, Zenon DEF MemoInit, MemoTypeOK
<1>3. \A r \in Resolvers : resolver[r].pc = "away"
  BY <1>1, Zenon DEF MemoInit
<1> QED
  BY <1>2, <1>3 DEF MemoInit, MemoInv

\* What a reader holds is right, or a writer is on its way to say that it is not.
Trusted(r) ==
  resolver[r].pc \in {"answered", "checked"} /\ ~resolver[r].moved =>
    resolver[r].id = CurrentTenant \/ \E w \in Choosers : chooser[w] = "written"

MemoTrusted ==
  memo # NoTenant /\ ~overtaken => memo = CurrentTenant \/ \E w \in Choosers : chooser[w] # "away"

\* A step of one reader, while the tables and the writers rest.
LEMMA OneResolves ==
  ASSUME MemoInv, NEW r \in Resolvers, NEW v \in Resolving, resolver' = [resolver EXCEPT ![r] = v],
         UNCHANGED tenantRows, memo' \in Tenants \cup {NoTenant}, overtaken' \in BOOLEAN, MemoTrusted',
         v.pc \in {"answered", "checked"} /\ ~v.moved =>
           v.id = CurrentTenant \/ \E w \in Choosers : chooser[w] = "written"
  PROVE  MemoInv'
<1>1. MemoTypeOK' /\ CurrentTenant' = CurrentTenant /\ UNCHANGED chooser
  <2>1. resolver' \in [Resolvers -> Resolving] /\ UNCHANGED <<choice, linkedTo, chooser>>
    BY Zenon DEF MemoInv, MemoTypeOK, tenantRows
  <2>2. CurrentTenant' = CurrentTenant
    BY <2>1 DEF CurrentTenant
  <2>3. {choice', memo'} \subseteq Tenants \cup {NoTenant}
    BY <2>1 DEF MemoInv, MemoTypeOK
  <2> QED
    BY <2>1, <2>2, <2>3, Zenon DEF MemoInv, MemoTypeOK
<1>2. ASSUME NEW s \in Resolvers
      PROVE  Trusted(s)'
  <2>1. resolver'[s] = resolver[s] \/ (s = r /\ resolver'[s] = v)
    BY DEF MemoInv, MemoTypeOK
  <2> QED
    BY <1>1, <2>1, Zenon DEF MemoInv, Trusted
<1> QED
  BY <1>1, <1>2, Zenon DEF MemoInv, Trusted, MemoTrusted

\* The invariant goes on: a memo is right, or a writer is on its way.
LEMMA MemoMoves == MemoInv /\ [MemoNext]_memoVars => MemoInv'
<1> SUFFICES ASSUME MemoInv, [MemoNext]_memoVars
             PROVE  MemoInv'
  OBVIOUS
<1>a. /\ MemoTypeOK /\ resolver \in [Resolvers -> Resolving] /\ choice \in Tenants \cup {NoTenant}
      /\ memo \in Tenants \cup {NoTenant} /\ linkedTo \subseteq Tenants /\ overtaken \in BOOLEAN
      /\ chooser \in [Choosers -> {"away", "written", "counted"}] /\ MemoTrusted
      /\ \A r \in Resolvers : Trusted(r)
  <2>1. {choice, memo} \subseteq Tenants \cup {NoTenant}
    BY Zenon DEF MemoInv, MemoTypeOK
  <2> QED
    BY <2>1, Zenon DEF MemoInv, MemoTypeOK, MemoTrusted, Trusted
<1>b. ASSUME UNCHANGED <<tenantRows, memo, overtaken>>
      PROVE  MemoTrusted'
  BY <1>a, <1>b DEF MemoTrusted, tenantRows, CurrentTenant
<1>c. NotResolving \in Resolving /\ NotResolving.pc = "away"
  BY DEF NotResolving, Resolving
<1>1. ASSUME NEW r \in Resolvers, Resolves(r)
      PROVE  MemoInv'
  <2> DEFINE v == [resolver[r] EXCEPT !.pc = "asks"]
  <2>1. resolver[r] \in Resolving
    BY <1>a
  <2>2. v \in Resolving /\ v.pc = "asks"
    BY <2>1, Zenon DEF Resolving
  <2>3. resolver' = [resolver EXCEPT ![r] = v] /\ UNCHANGED <<tenantRows, memo, overtaken>>
    BY <1>1, Zenon DEF Resolves
  <2>4. v.pc \notin {"answered", "checked"}
    BY <2>2
  <2> HIDE DEF v
  <2> QED
    BY <1>a, <1>b, <2>2, <2>3, <2>4, OneResolves, Zenon
<1>2. ASSUME NEW r \in Resolvers, AsksTable(r)
      PROVE  MemoInv'
  <2> DEFINE v == [resolver[r] EXCEPT !.pc = "answered", !.id = CurrentTenant]
  <2>1. resolver[r] \in Resolving /\ CurrentTenant \in Tenants
    BY <1>a, CurrentIsOne
  <2>2. v \in Resolving /\ v.id = CurrentTenant
    BY <2>1, Zenon DEF Resolving
  <2>3. resolver' = [resolver EXCEPT ![r] = v] /\ UNCHANGED <<tenantRows, memo, overtaken>>
    <3>1. resolver' = [resolver EXCEPT ![r].pc = "answered", ![r].id = CurrentTenant]
      BY <1>2, Zenon DEF AsksTable
    <3>2. resolver' = [resolver EXCEPT ![r] = v]
      BY <1>a, <3>1, Zenon
    <3> QED
      BY <1>2, <3>2, Zenon DEF AsksTable
  <2> HIDE DEF v
  <2> QED
    BY <1>a, <1>b, <2>2, <2>3, OneResolves, Zenon
<1>3. ASSUME NEW r \in Resolvers, TableFails(r)
      PROVE  MemoInv'
  <2>1. resolver' = [resolver EXCEPT ![r] = NotResolving] /\ UNCHANGED <<tenantRows, memo, overtaken>>
    BY <1>3, Zenon DEF TableFails, Returned
  <2>2. NotResolving.pc \notin {"answered", "checked"}
    BY <1>c
  <2> QED
    BY <1>a, <1>b, <1>c, <2>1, <2>2, OneResolves, Zenon
<1>4. ASSUME NEW r \in Resolvers, ComparesEpoch(r)
      PROVE  MemoInv'
  <2> DEFINE v == IF resolver[r].moved THEN NotResolving ELSE [resolver[r] EXCEPT !.pc = "checked"]
  <2>1. resolver[r] \in Resolving /\ resolver[r].pc = "answered" /\ Trusted(r)
    BY <1>4, <1>a, Zenon DEF ComparesEpoch, Step
  <2>2. CASE resolver[r].moved
    <3>1. resolver' = [resolver EXCEPT ![r] = NotResolving] /\ UNCHANGED <<tenantRows, memo, overtaken>>
      BY <1>4, <2>2, Zenon DEF ComparesEpoch
    <3>2. NotResolving.pc \notin {"answered", "checked"}
      BY <1>c
    <3> QED
      BY <1>a, <1>b, <1>c, <3>1, <3>2, OneResolves, Zenon
  <2>3. CASE ~resolver[r].moved
    <3> DEFINE u == [resolver[r] EXCEPT !.pc = "checked"]
    <3>1. resolver' = [resolver EXCEPT ![r] = u] /\ UNCHANGED <<tenantRows, memo, overtaken>>
      BY <1>4, <2>3, Zenon DEF ComparesEpoch
    <3>2. u \in Resolving /\ u.id = resolver[r].id
      BY <2>1, Zenon DEF Resolving
    <3>3. resolver[r].id = CurrentTenant \/ \E w \in Choosers : chooser[w] = "written"
      BY <2>1, <2>3 DEF Trusted
    <3> HIDE DEF u
    <3> QED
      BY <1>a, <1>b, <3>1, <3>2, <3>3, OneResolves, Zenon
  <2> QED
    BY <2>2, <2>3
<1>5. ASSUME NEW r \in Resolvers, Remembers(r)
      PROVE  MemoInv'
  <2>1. /\ resolver[r].pc = "checked" /\ memo' = resolver[r].id /\ overtaken' = resolver[r].moved
        /\ resolver' = [resolver EXCEPT ![r] = NotResolving] /\ UNCHANGED tenantRows
    BY <1>5, Zenon DEF Remembers, Step, Returned
  <2>2. resolver[r].id \in Tenants \cup {NoTenant} /\ resolver[r].moved \in BOOLEAN
    BY <1>a, Zenon DEF Resolving
  <2>3. UNCHANGED <<choice, linkedTo, chooser>>
    BY <2>1, Zenon DEF tenantRows
  <2>4. CurrentTenant' = CurrentTenant
    BY <2>3 DEF CurrentTenant
  <2>5. ~resolver[r].moved => memo' = CurrentTenant \/ \E w \in Choosers : chooser[w] = "written"
    BY <1>a, <2>1 DEF Trusted
  <2>6. MemoTrusted'
    <3>1. ASSUME NEW w \in Choosers, chooser[w] = "written"
          PROVE  chooser'[w] # "away"
      BY <2>3, <3>1
    <3> QED
      BY <2>1, <2>3, <2>4, <2>5, <3>1, Zenon DEF MemoTrusted
  <2>7. NotResolving.pc \notin {"answered", "checked"}
    BY <1>c
  <2> QED
    BY <1>c, <2>1, <2>2, <2>6, <2>7, OneResolves, Zenon
<1>6. ASSUME NEW w \in Choosers, NEW c \in Tenants \cup {NoTenant}, NEW ls \in SUBSET Tenants, WritesTenant(w, c, ls)
      PROVE  MemoInv'
  <2>1. /\ choice' = c /\ linkedTo' = ls /\ chooser' = [chooser EXCEPT ![w] = "written"]
        /\ UNCHANGED <<memo, resolver, overtaken>>
    BY <1>6, Zenon DEF WritesTenant
  <2>2. chooser' \in [Choosers -> {"away", "written", "counted"}] /\ chooser'[w] = "written" /\ chooser'[w] # "away"
    BY <1>a, <2>1
  <2>3. {choice', memo'} \subseteq Tenants \cup {NoTenant}
    BY <1>a, <2>1
  <2>4. MemoTypeOK'
    BY <1>a, <2>1, <2>2, <2>3, Zenon DEF MemoTypeOK
  <2> QED
    BY <2>2, <2>4, Zenon DEF MemoInv
<1>7. ASSUME NEW w \in Choosers, CountsUp(w)
      PROVE  MemoInv'
  <2>1. /\ chooser' = [chooser EXCEPT ![w] = "counted"] /\ UNCHANGED <<choice, linkedTo, memo, overtaken>>
        /\ resolver' = [r \in Resolvers |-> IF Step(r, "away") THEN resolver[r]
                                            ELSE [resolver[r] EXCEPT !.moved = TRUE]]
    BY <1>7, Zenon DEF CountsUp
  <2>2. ASSUME NEW r \in Resolvers
        PROVE  resolver'[r] \in Resolving /\ (resolver'[r].pc = "away" \/ resolver'[r].moved = TRUE)
    <3>1. CASE Step(r, "away")
      BY <1>a, <2>1, <3>1, Zenon DEF Step
    <3>2. CASE ~Step(r, "away")
      <4> DEFINE v == [resolver[r] EXCEPT !.moved = TRUE]
      <4>1. v \in Resolving /\ v.moved = TRUE
        BY <1>a, Zenon DEF Resolving
      <4>2. resolver'[r] = v
        BY <2>1, <3>2, Zenon
      <4> HIDE DEF v
      <4> QED
        BY <4>1, <4>2, Zenon
    <3> QED
      BY <3>1, <3>2
  <2>3. chooser' \in [Choosers -> {"away", "written", "counted"}] /\ chooser'[w] # "away"
    BY <1>a, <2>1
  <2>4. MemoTypeOK'
    <3>1. resolver' \in [Resolvers -> Resolving]
      BY <2>1, <2>2, Zenon
    <3> QED
      BY <1>a, <2>1, <2>3, <3>1, Zenon DEF MemoTypeOK
  <2>5. \A r \in Resolvers : ~(resolver'[r].pc \in {"answered", "checked"} /\ ~resolver'[r].moved)
    BY <2>2
  <2> QED
    BY <2>3, <2>4, <2>5, Zenon DEF MemoInv
<1>8. ASSUME NEW w \in Choosers, Forgets(w)
      PROVE  MemoInv'
  <2>1. /\ chooser[w] = "counted" /\ chooser' = [chooser EXCEPT ![w] = "away"] /\ memo' = NoTenant
        /\ overtaken' = FALSE /\ UNCHANGED <<choice, linkedTo, resolver>>
    BY <1>8, Zenon DEF Forgets
  <2>2. /\ chooser' \in [Choosers -> {"away", "written", "counted"}]
        /\ \A v \in Choosers : chooser[v] = "written" => chooser'[v] = "written"
    BY <1>a, <2>1
  <2>3. {choice', memo'} \subseteq Tenants \cup {NoTenant}
    BY <1>a, <2>1
  <2>4. MemoTypeOK'
    BY <1>a, <2>1, <2>2, <2>3, Zenon DEF MemoTypeOK
  <2>5. CurrentTenant' = CurrentTenant
    BY <2>1 DEF CurrentTenant
  <2>6. \A r \in Resolvers : Trusted(r)'
    BY <1>a, <2>1, <2>2, <2>5, Zenon DEF Trusted
  <2> QED
    BY <2>1, <2>4, <2>6, Zenon DEF MemoInv, Trusted
<1>9. CASE UNCHANGED memoVars
  <2>1. UNCHANGED <<choice, linkedTo, memo, resolver, chooser, overtaken>>
    BY <1>9, Zenon DEF memoVars
  <2>2. CurrentTenant' = CurrentTenant
    BY <2>1 DEF CurrentTenant
  <2> QED
    BY <2>1, <2>2, Zenon DEF MemoInv, MemoTypeOK
<1> QED
  BY <1>1, <1>2, <1>3, <1>4, <1>5, <1>6, <1>7, <1>8, <1>9, Zenon DEF MemoNext

\* The memo follows the choice.
LEMMA MemoIsRight == MemoInv => MemoFollows
BY Zenon DEF MemoInv, MemoFollows

\* Once the writes are over the council remembered is the household's own, whoever read the
\* table before them (TenantIDFor, forgetTenant); but for the one case MemoFollows names.
THEOREM CouncilIsTheirs == MemoSpec => []MemoFollows
BY MemoIsRight, MemoStarts, MemoMoves, PTL DEF MemoSpec
==============================================================================
