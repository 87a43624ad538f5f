--------------------------- MODULE GuestAccessProofs ---------------------------
(***************************************************************************)
(* Theorems about the household's links and the bookings made through them  *)
(* (GuestAccess): a booking answers to somebody who is still let in, and a   *)
(* request at the door puts one car on, if it was approved.  The rows of     *)
(* four tables name one another with no foreign key between a booking and    *)
(* its link, and browsers and members hold on to ids across statements, so   *)
(* the proof first says what one step does to one row of each table, then    *)
(* what is known of the ids that anybody holds.                              *)
(***************************************************************************)
EXTENDS GuestAccess, FiniteSetTheorems, WellFoundedInduction, TLAPS

------------------------------------------------------------------------------
(* The invariant.                                                           *)

\* Ids are given out in order, and what names a row names one that was given out.
Given == given \in [g : 0..MaxGrants, t : 0..MaxTokens, b : 0..MaxBookings, r : 0..MaxRequests]

GivenOut ==
  /\ \A g \in DOMAIN grants : g <= given.g
  /\ \A t \in DOMAIN tokens : t <= given.t /\ tokens[t].grant \in DOMAIN grants
  /\ \A b \in DOMAIN bookings : /\ b <= given.b /\ bookings[b].token <= given.t
                                /\ bookings[b].request <= given.r
  /\ \A r \in DOMAIN requests : r <= given.r /\ requests[r].grant \in DOMAIN grants
  /\ \A v \in Visitors : Visiting(v) => page[v].token <= given.t /\ page[v].grant <= given.g
  /\ \A s \in stranded : s \in Nat /\ s <= given.b

\* What a member's decision holds, step by step.
Decision == [pc : {"idle", "looked", "tagged", "booked", "decided", "undo"}, request : 0..MaxRequests,
             grant : 0..MaxGrants, on : Permits \cup {None}, token : 0..MaxTokens, booking : 0..MaxBookings]

HoldsBooking(m) == decider[m].pc \in {"booked", "decided", "undo"}

Knows(m) ==
  /\ decider[m].request <= given.r /\ decider[m].grant <= given.g
  /\ decider[m].token <= given.t /\ decider[m].booking <= given.b
  /\ decider[m].pc # "idle" => decider[m].on \in Permits
  /\ HoldsBooking(m) <=> decider[m].booking # 0
  /\ decider[m].booking \in DOMAIN bookings
       => bookings[decider[m].booking].request = decider[m].request

DecidersKnow ==
  /\ decider \in [Members -> Decision]
  /\ \A m \in Members : Knows(m)
  /\ \A m, n \in Members : HoldsBooking(m) /\ decider[n].booking = decider[m].booking => m = n

\* Whoever holds a link and its grant holds them for the permit the grant is on, for as
\* long as that permit is in force: links move from a lapsed permit only.
OnItsPermit(t, g, p) ==
  /\ t \in DOMAIN tokens => tokens[t].grant = g
  /\ standing[p] = "valid" /\ g \in DOMAIN grants => grants[g].permit = p

InPlace ==
  /\ \A v \in Visitors : Visiting(v) => OnItsPermit(page[v].token, page[v].grant, page[v].permit)
  /\ \A m \in Members : decider[m].pc # "idle" =>
       OnItsPermit(decider[m].token, decider[m].grant, decider[m].on)
  /\ \A r \in DOMAIN requests : OnItsPermit(0, requests[r].grant, requests[r].permit)
  /\ \A b \in DOMAIN bookings : bookings[b].token \in DOMAIN tokens =>
       OnItsPermit(bookings[b].token, tokens[bookings[b].token].grant, bookings[b].permit)

\* A booking that a request has left behind, and nobody has in hand.
Left(b) == b \in DOMAIN bookings /\ bookings[b].request # 0 /\ ~InHand(b) /\ b \notin stranded

OnePerRequest ==
  /\ \A b, c \in DOMAIN bookings :
       Left(b) /\ Left(c) /\ bookings[b].request = bookings[c].request => b = c
  /\ \A b \in DOMAIN bookings : Left(b) /\ bookings[b].request \in DOMAIN requests
       => requests[bookings[b].request].st = "approved"

GuestInv ==
  /\ GuestTypeOK /\ Given /\ GivenOut /\ DecidersKnow /\ InPlace
  /\ BookingsAnswerTo /\ OnePerRequest

------------------------------------------------------------------------------
(* What one step does to one row.                                           *)

\* What the constants allow.
LEMMA Bounds ==
  /\ MaxGrants \in Nat /\ MaxTokens \in Nat /\ MaxBookings \in Nat /\ MaxRequests \in Nat
  /\ GuestCap \in Nat /\ MaxPending \in Nat
BY GuestAssumption

\* The steps, those that do the same to the tables as one.
Edits ==
  \/ \E p \in Permits, cars \in SUBSET Cars : CreatePass(p, cars)
  \/ \E p \in Permits, cars \in SUBSET Cars, all \in BOOLEAN : CreatePicker(p, cars, all)
  \/ \E old \in SUBSET DOMAIN grants, kind \in {"screen", "printed"}, p \in Permits : Replace(old, kind, p)
  \/ \E g \in DOMAIN grants, cars \in SUBSET Cars : NarrowGrant(g, cars)
  \/ \E g \in DOMAIN grants, cars \in SUBSET Cars, all \in BOOLEAN : UpdatePicker(g, cars, all)
  \/ \E g \in DOMAIN grants : AddGuestToken(g) \/ ResetGuestToken(g)
  \/ \E t \in DOMAIN tokens : RevokeGuestToken(t)
  \/ \E gs \in SUBSET DOMAIN grants : Withdraw(gs)
  \/ PauseGuests \/ ResumeGuests
  \/ \E p, q \in Permits : MoveGuestGrants(p, q)
  \/ \E p, q \in Permits : CopySchedule(p, q)
  \/ \E p \in Permits : DeletePermit(p)
  \/ \E c \in Cars : DeleteVehicle(c)

GuestVisits ==
  \/ \E v \in Visitors, t \in DOMAIN tokens : Open(v, t)
  \/ \E v \in Visitors : guestRevert(v) \/ guestClear(v) \/ Leave(v)
  \/ \E v \in Visitors, what \in Cars \cup Plates : Book(v, what)
  \/ \E v \in Visitors, x \in Plates : Ask(v, x)

LEMMA GuestSteps == GuestNext => Edits \/ GuestVisits \/ DeciderStep \/ GuestTime
<1>1. ASSUME HouseholdStep PROVE Edits
  <2>1. \A p \in Permits : /\ ShowVisitorQR(p) => \E old \in SUBSET DOMAIN grants : Replace(old, "screen", p)
                           /\ ShowPrintedQR(p) => \E old \in SUBSET DOMAIN grants : Replace(old, "printed", p)
    BY DEF ShowVisitorQR, ShowPrintedQR, CreateQRGrant, CreatePrintedGrant, GrantsWith, OnPermit
  <2>2. \A g \in DOMAIN grants : DeleteGuestGrant(g) \/ DeletePicker(g) \/ RevokePrintedGrant(g)
          => \E gs \in SUBSET DOMAIN grants : Withdraw(gs)
    BY DEF DeleteGuestGrant, DeletePicker, RevokePrintedGrant, GrantsWith, OnPermit
  <2> QED BY <1>1, <2>1, <2>2 DEF HouseholdStep, Edits, RevokeGrantsBy
<1> QED BY <1>1 DEF GuestNext, GuestEvent, GuestWork, GuestVisits

\* The newest of some rows.
LEMMA Newest ==
  ASSUME NEW N \in Nat, NEW S \in SUBSET (0..N), S # {}
  PROVE  \E t \in S : \A u \in S : u <= t
<1> DEFINE T == {n \in Nat : n <= N /\ N - n \in S}
<1>1. T # {} /\ T \in SUBSET Nat
  <2>1. PICK s \in S : TRUE
    OBVIOUS
  <2>2. N - s \in Nat /\ N - (N - s) = s /\ N - s <= N
    BY <2>1
  <2>3. N - s \in T
    BY <2>1, <2>2
  <2> QED BY <2>3
<1>2. PICK n \in T : \A m \in T : n <= m
  <2> DEFINE R == OpToRel(<, Nat)
  <2>1. IsWellFoundedOn(R, Nat)
    BY NatLessThanWellFounded
  <2>2. \A x, y \in Nat : <<y, x>> \notin R => x <= y
    <3>1. ASSUME NEW x \in Nat, NEW y \in Nat, y < x PROVE <<y, x>> \in R
      <4>1. <<y, x>> \in Nat \X Nat /\ <<y, x>>[1] = y /\ <<y, x>>[2] = x
        OBVIOUS
      <4> QED BY <3>1, <4>1, Zenon DEF OpToRel
    <3> HIDE DEF R
    <3> QED BY <3>1
  <2> HIDE DEF T, R
  <2>3. \E x \in T : \A y \in T : ~(<<y, x>> \in R)
    BY <1>1, <2>1, WFMin
  <2> QED BY <1>1, <2>2, <2>3
<1>3. \A u \in S : u <= N - n
  <2>1. ASSUME NEW u \in S PROVE u <= N - n
    <3>1. u \in Nat /\ N - u \in Nat /\ N - (N - u) = u /\ N - u <= N
      OBVIOUS
    <3>2. N - u \in T
      BY <3>1
    <3>3. n <= N - u
      BY <1>2, <3>2
    <3> QED BY <1>2, <3>1, <3>3
  <2> QED BY <2>1
<1> QED BY <1>2, <1>3

\* Ids given out stay given out.
GivenStep ==
  /\ given' \in [g : 0..MaxGrants, t : 0..MaxTokens, b : 0..MaxBookings, r : 0..MaxRequests]
  /\ given.g <= given'.g /\ given.t <= given'.t /\ given.b <= given'.b /\ given.r <= given'.r

LEMMA SomeBookings ==
  ASSUME GuestTypeOK, NEW S \in SUBSET DOMAIN bookings
  PROVE  /\ IsFiniteSet(S) /\ Cardinality(S) \in Nat
         /\ \A b \in S : LET low == {x \in S : x <= b} IN Cardinality(low) \in 1..Cardinality(S)
<1>1. S \subseteq 1..MaxBookings /\ IsFiniteSet(1..MaxBookings)
  BY FS_Interval, Bounds DEF GuestTypeOK
<1>2. IsFiniteSet(S) /\ Cardinality(S) \in Nat
  BY <1>1, FS_Subset, FS_CardinalityType
<1>3. ASSUME NEW b \in S PROVE Cardinality({x \in S : x <= b}) \in 1..Cardinality(S)
  <2> DEFINE low == {x \in S : x <= b}
  <2>1. low \subseteq S /\ b \in low
    BY <1>1, <1>3
  <2>2. IsFiniteSet(low) /\ Cardinality(low) <= Cardinality(S) /\ Cardinality(low) \in Nat
    BY <1>2, <2>1, FS_Subset, FS_CardinalityType
  <2>3. Cardinality(low) # 0
    BY <2>1, <2>2, FS_EmptySet
  <2> QED BY <1>2, <2>2, <2>3
<1> QED BY <1>2, <1>3

LEMMA NextIds ==
  ASSUME GuestTypeOK, Given, Edits \/ GuestVisits \/ DeciderStep \/ GuestTime \/ UNCHANGED guestVars
  PROVE  GivenStep
<1> USE Bounds DEF Given
<1>1. CASE UNCHANGED given
  BY <1>1 DEF GivenStep
<1>2. CASE Gives /\ given.g < MaxGrants /\ given.t < MaxTokens
  <2>1. /\ given'.g = given.g + 1 /\ given'.t = given.t + 1
        /\ given'.b = given.b /\ given'.r = given.r
    BY <1>2 DEF Gives
  <2>2. given' = [g |-> given'.g, t |-> given'.t, b |-> given'.b, r |-> given'.r]
    BY <1>2 DEF Gives
  <2> QED BY <1>2, <2>1, <2>2 DEF GivenStep
<1>3. CASE given' = [given EXCEPT !.t = @ + 1] /\ given.t < MaxTokens
  BY <1>3 DEF GivenStep
<1>4. CASE given' = [given EXCEPT !.b = @ + 1] /\ given.b < MaxBookings
  BY <1>4 DEF GivenStep
<1>5. CASE given' = [given EXCEPT !.r = @ + 1] /\ given.r < MaxRequests
  BY <1>5 DEF GivenStep
<1>6. ASSUME NEW p \in Permits, NEW q \in Permits, CopySchedule(p, q) PROVE GivenStep
  <2> DEFINE from == {b \in DOMAIN bookings : bookings[b].permit = p}
  <2>1. Cardinality(from) \in Nat
    BY SomeBookings
  <2>2. given.b + Cardinality(from) <= MaxBookings /\ given' = [given EXCEPT !.b = @ + Cardinality(from)]
    BY <1>6 DEF CopySchedule
  <2> HIDE DEF from
  <2> QED BY <2>1, <2>2 DEF GivenStep
<1>7. CASE Edits
  BY <1>1, <1>2, <1>3, <1>6, <1>7 DEF Edits, CreatePass, CreatePicker, HasIds, Replace, NarrowGrant,
     UpdatePicker, AddGuestToken, ResetGuestToken, NewLink, Rebind, RevokeGuestToken, Withdraw, PauseGuests,
     ResumeGuests, rows, MoveGuestGrants, DeletePermit, DeleteVehicle
<1>8. CASE GuestVisits
  BY <1>1, <1>4, <1>5, <1>8 DEF GuestVisits, Open, rows, guestRevert, guestClear, DeleteGuestOverrides, Leave,
     Book, Inserted, Ask, CreateGuestRequest
<1>9. CASE DeciderStep
  BY <1>1, <1>4, <1>9 DEF DeciderStep, Deny, Look, BookFor, Inserted, BookRefused, Approve, ApproveFails,
     Tag, Undo, Gate, rows
<1>10. CASE GuestTime \/ UNCHANGED guestVars
  BY <1>1, <1>10 DEF GuestTime, PermitLapses, BookingEnds, CodeExpires, RequestExpires, RequestPurged,
     NameForgotten, GuestRestart, rows, guestVars
<1> QED BY <1>7, <1>8, <1>9, <1>10

\* A row of a grant stays on its permit, unless that permit has lapsed.
GrantRow(g) ==
  /\ g \in 1..MaxGrants /\ grants'[g] \in Grant /\ g <= given'.g
  /\ g \in DOMAIN grants => grants'[g].permit = grants[g].permit \/ standing[grants[g].permit] # "valid"
  /\ g \notin DOMAIN grants => g = given.g + 1

\* Editing a grant leaves it a grant of its permit.
LEMMA GrantEdits ==
  ASSUME NEW row \in Grant, NEW cs \in SUBSET Cars, NEW a \in BOOLEAN
  PROVE  /\ [row EXCEPT !.cars = cs] \in Grant /\ [row EXCEPT !.cars = cs].permit = row.permit
         /\ [row EXCEPT !.all = a] \in Grant /\ [row EXCEPT !.all = a].permit = row.permit
<1>1. [row EXCEPT !.cars = cs] \in Grant
  BY Zenon DEF Grant
<1>2. [row EXCEPT !.all = a] \in Grant
  BY Zenon DEF Grant
<1>3. [row EXCEPT !.cars = cs].permit = row.permit /\ [row EXCEPT !.all = a].permit = row.permit
  BY DEF Grant
<1> QED BY <1>1, <1>2, <1>3

LEMMA GrantRows ==
  ASSUME GuestTypeOK, Given, GivenOut,
         Edits \/ GuestVisits \/ DeciderStep \/ GuestTime \/ UNCHANGED guestVars,
         NEW g \in DOMAIN grants'
  PROVE  GrantRow(g)
<1>b. GivenStep
  BY NextIds
<1>g. given.g \in Nat /\ given.g <= MaxGrants /\ given'.g \in Nat /\ given.g <= given'.g /\ MaxGrants \in Nat
  BY <1>b, Bounds DEF Given, GivenStep
<1>t. \A h \in DOMAIN grants : h \in 1..MaxGrants /\ h <= given.g /\ grants[h] \in Grant
  BY DEF GuestTypeOK, GivenOut
<1>1. CASE g \in DOMAIN grants /\ grants'[g] = grants[g]
  BY <1>1, <1>g, <1>t DEF GrantRow
<1>2. ASSUME g = given.g + 1, given.g < MaxGrants, Gives, g \notin DOMAIN grants,
             NEW kind \in Kinds, NEW p \in Permits, NEW cars \in SUBSET Cars, NEW all \in BOOLEAN,
             grants'[g] = NewGrant(kind, p, cars, all)
      PROVE  GrantRow(g)
  <2>1. given'.g = given.g + 1
    BY <1>2 DEF Gives, Given
  <2> QED BY <1>2, <1>g, <2>1 DEF GrantRow, NewGrant, Grant
<1>3. given.g + 1 \notin DOMAIN grants
  BY <1>g, <1>t
<1>4. CASE Edits
  <2>1. ASSUME NEW p \in Permits, NEW cars \in SUBSET Cars, CreatePass(p, cars) PROVE GrantRow(g)
    BY <1>1, <1>2, <1>3, <2>1 DEF CreatePass, HasIds, CreateGuestGrant, Put, Kinds
  <2>2. ASSUME NEW p \in Permits, NEW cars \in SUBSET Cars, NEW all \in BOOLEAN, CreatePicker(p, cars, all)
        PROVE  GrantRow(g)
    BY <1>1, <1>2, <1>3, <2>2 DEF CreatePicker, HasIds, CreatePickerGrant, Put, Kinds
  <2>3. ASSUME NEW old \in SUBSET DOMAIN grants, NEW kind \in {"screen", "printed"}, NEW p \in Permits,
               Replace(old, kind, p)
        PROVE  GrantRow(g)
    <3>1. CASE g = given.g + 1
      BY <1>2, <1>3, <2>3, <3>1 DEF Replace, HasIds, Put, Kinds
    <3>2. ASSUME g # given.g + 1
          PROVE  g \in DOMAIN grants /\ \E b \in BOOLEAN : grants'[g] = [grants[g] EXCEPT !.enabled = b]
      BY <2>3, <3>2, <1>t DEF Replace, Put, Grant
    <3> QED BY <1>g, <1>t, <3>1, <3>2 DEF GrantRow, Grant
  <2>4. ASSUME NEW h \in DOMAIN grants, NEW cars \in SUBSET Cars, NEW all \in BOOLEAN,
               NarrowGrant(h, cars) \/ UpdatePicker(h, cars, all)
        PROVE  GrantRow(g)
    <3>1. g \in DOMAIN grants /\ \/ grants'[g] = grants[g]
                                 \/ \E cs \in SUBSET Cars, a \in BOOLEAN :
                                      grants'[g] = [grants[g] EXCEPT !.cars = cs, !.all = a]
      BY <2>4 DEF NarrowGrant, UpdatePicker, UpdatePickerGrant, UpdateGuestGrant
    <3>4. grants[g] \in Grant
      BY <1>t, <3>1
    <3>5. ASSUME NEW cs \in SUBSET Cars, NEW a \in BOOLEAN, grants'[g] = [grants[g] EXCEPT !.cars = cs, !.all = a]
          PROVE  grants'[g] \in Grant /\ grants'[g].permit = grants[g].permit
      <4> DEFINE one == [grants[g] EXCEPT !.cars = cs]
      <4>1. one \in Grant /\ one.permit = grants[g].permit
        BY <3>4, GrantEdits
      <4>2. grants'[g] = [one EXCEPT !.all = a]
        BY <3>5, Zenon
      <4> HIDE DEF one
      <4>3. [one EXCEPT !.all = a] \in Grant /\ [one EXCEPT !.all = a].permit = one.permit
        BY <4>1, GrantEdits
      <4> QED BY <4>1, <4>2, <4>3, Zenon
    <3>6. grants'[g] \in Grant /\ grants'[g].permit = grants[g].permit
      BY <3>1, <3>4, <3>5
    <3>7. g \in DOMAIN grants
      BY <3>1
    <3> QED BY <1>g, <1>t, <3>7, <3>6 DEF GrantRow
  <2>5. ASSUME NEW h \in DOMAIN grants, AddGuestToken(h) \/ ResetGuestToken(h) PROVE GrantRow(g)
    BY <1>1, <2>5 DEF AddGuestToken, ResetGuestToken
  <2>6. ASSUME NEW gs \in SUBSET DOMAIN grants, Withdraw(gs) PROVE GrantRow(g)
    BY <1>1, <2>6 DEF Withdraw, DropGrants, Keep
  <2>7. ASSUME NEW p \in Permits, NEW q \in Permits, MoveGuestGrants(p, q) PROVE GrantRow(g)
    <3>1. g \in DOMAIN grants /\ \/ grants'[g] = grants[g]
                                 \/ g \in OnPermit(p) /\ grants'[g] = [grants[g] EXCEPT !.permit = q]
      BY <2>7 DEF MoveGuestGrants
    <3>2. standing[p] = "lapsed"
      BY <2>7 DEF MoveGuestGrants
    <3> QED BY <1>g, <1>t, <3>1, <3>2 DEF GrantRow, Grant, OnPermit
  <2>8. ASSUME NEW p \in Permits, NEW q \in Permits, DeletePermit(p) \/ CopySchedule(p, q) PROVE GrantRow(g)
    BY <1>1, <2>8 DEF DeletePermit, DropGrants, Keep, CopySchedule
  <2>9. ASSUME NEW c \in Cars, DeleteVehicle(c) PROVE GrantRow(g)
    <3>1. g \in DOMAIN grants /\ grants'[g] = [grants[g] EXCEPT !.cars = @ \ {c}]
      BY <2>9 DEF DeleteVehicle
    <3> QED BY <1>g, <1>t, <3>1 DEF GrantRow, Grant
  <2>10. CASE PauseGuests \/ ResumeGuests \/ \E t \in DOMAIN tokens : RevokeGuestToken(t)
    BY <1>1, <2>10 DEF PauseGuests, ResumeGuests, RevokeGuestToken, rows
  <2> QED BY <1>4, <2>1, <2>2, <2>3, <2>4, <2>5, <2>6, <2>7, <2>8, <2>9, <2>10 DEF Edits
<1>5. CASE GuestVisits \/ DeciderStep
  BY <1>1, <1>5 DEF GuestVisits, Open, rows, guestRevert, guestClear, DeleteGuestOverrides, Leave, Book, Ask,
     DeciderStep, Deny, Look, BookFor, BookRefused, Approve, ApproveFails, Tag, Undo, Gate
<1>6. CASE GuestTime
  <2>1. g \in DOMAIN grants /\ (grants'[g] = grants[g] \/ grants'[g] = [grants[g] EXCEPT !.expired = TRUE])
    BY <1>6 DEF GuestTime, PermitLapses, BookingEnds, CodeExpires, RequestExpires, RequestPurged,
       NameForgotten, GuestRestart, rows
  <2>2. [grants[g] EXCEPT !.expired = TRUE] \in Grant
    BY <1>t, <2>1, Zenon DEF Grant
  <2>3. [grants[g] EXCEPT !.expired = TRUE].permit = grants[g].permit
    BY <1>t, <2>1 DEF Grant
  <2>4. grants'[g] \in Grant /\ grants'[g].permit = grants[g].permit
    BY <1>t, <2>1, <2>2, <2>3
  <2> QED BY <1>g, <1>t, <2>1, <2>4 DEF GrantRow
<1>7. CASE UNCHANGED guestVars
  BY <1>1, <1>7 DEF guestVars
<1> QED BY <1>4, <1>5, <1>6, <1>7

\* A link stays with its grant, and both are there or neither.
TokenRow(t) ==
  /\ t \in 1..MaxTokens /\ tokens'[t] \in Token /\ t <= given'.t
  /\ tokens'[t].grant \in DOMAIN grants'
  /\ t \in DOMAIN tokens => tokens'[t].grant = tokens[t].grant
  /\ t \notin DOMAIN tokens => t = given.t + 1

LEMMA TokenRows ==
  ASSUME GuestTypeOK, Given, GivenOut,
         Edits \/ GuestVisits \/ DeciderStep \/ GuestTime \/ UNCHANGED guestVars,
         NEW t \in DOMAIN tokens'
  PROVE  TokenRow(t)
<1>b. GivenStep
  BY NextIds
<1>g. /\ given.t \in Nat /\ given.t <= MaxTokens /\ given'.t \in Nat /\ given.t <= given'.t /\ MaxTokens \in Nat
      /\ given.g \in Nat /\ given.g <= MaxGrants /\ MaxGrants \in Nat
  BY <1>b, Bounds DEF Given, GivenStep
<1>t. \A u \in DOMAIN tokens : /\ u \in 1..MaxTokens /\ u <= given.t /\ tokens[u] \in Token
                               /\ tokens[u].grant \in DOMAIN grants
  BY DEF GuestTypeOK, GivenOut
<1>1. CASE t \in DOMAIN tokens /\ tokens'[t] = tokens[t] /\ tokens[t].grant \in DOMAIN grants'
  BY <1>1, <1>g, <1>t DEF TokenRow
<1>2. ASSUME t = given.t + 1, given.t < MaxTokens, given'.t = given.t + 1,
             NEW g \in DOMAIN grants', NEW to \in Addressees, g \in 1..MaxGrants,
             tokens'[t] = [grant |-> g, to |-> to, revoked |-> FALSE]
      PROVE  TokenRow(t)
  BY <1>2, <1>g, <1>t DEF TokenRow, Token
<1>3. given.t + 1 \notin DOMAIN tokens
  BY <1>g, <1>t
<1>4. ASSUME NEW u \in DOMAIN tokens, NEW r \in BOOLEAN
      PROVE  /\ [tokens[u] EXCEPT !.revoked = r] \in Token
             /\ [tokens[u] EXCEPT !.revoked = r].grant = tokens[u].grant
             /\ [tokens[u] EXCEPT !.revoked = r].to = tokens[u].to
  <2>1. tokens[u] \in Token
    BY <1>t
  <2>2. [tokens[u] EXCEPT !.revoked = r] \in Token
    BY <2>1, Zenon DEF Token
  <2> QED BY <2>1, <2>2 DEF Token
<1>5. ASSUME t \in DOMAIN tokens, tokens'[t] \in Token, tokens'[t].grant = tokens[t].grant,
             tokens[t].grant \in DOMAIN grants'
      PROVE  TokenRow(t)
  BY <1>5, <1>g, <1>t DEF TokenRow
<1>6. ASSUME NEW gs \in SUBSET DOMAIN grants, DropGrants(gs)
      PROVE  t \in DOMAIN tokens /\ tokens'[t] = tokens[t] /\ tokens[t].grant \in DOMAIN grants'
  BY <1>6, <1>t DEF DropGrants, Keep, TokensOf
<1>7. CASE Edits
  <2>1. ASSUME \/ \E p \in Permits, cars \in SUBSET Cars : CreatePass(p, cars)
               \/ \E p \in Permits, cars \in SUBSET Cars, all \in BOOLEAN : CreatePicker(p, cars, all)
        PROVE  TokenRow(t)
    <3>1. /\ given.t < MaxTokens /\ given'.t = given.t + 1 /\ given.g < MaxGrants
          /\ DOMAIN grants' = DOMAIN grants \cup {given.g + 1}
      BY <2>1 DEF CreatePass, CreatePicker, HasIds, Gives, CreateGuestGrant, CreatePickerGrant, Put, Given
    <3>2. \E to \in Addressees : tokens' = Put(tokens, given.t + 1, [grant |-> given.g + 1, to |-> to, revoked |-> FALSE])
      BY <2>1 DEF CreatePass, CreatePicker, CreateGuestGrant, CreatePickerGrant, NewToken, Addressees
    <3>3. \/ t = given.t + 1 /\ \E to \in Addressees : tokens'[t] = [grant |-> given.g + 1, to |-> to, revoked |-> FALSE]
          \/ t \in DOMAIN tokens /\ tokens'[t] = tokens[t]
      <4>1. PICK to \in Addressees : tokens' = Put(tokens, given.t + 1, [grant |-> given.g + 1, to |-> to, revoked |-> FALSE])
        BY <3>2
      <4> DEFINE row == [grant |-> given.g + 1, to |-> to, revoked |-> FALSE]
      <4>2. tokens' = Put(tokens, given.t + 1, row)
        BY <4>1
      <4> HIDE DEF row
      <4>3. (t = given.t + 1 /\ tokens'[t] = row) \/ (t \in DOMAIN tokens /\ tokens'[t] = tokens[t])
        BY <4>2, <1>3 DEF Put
      <4> QED BY <4>3 DEF row
    <3>4. given.g + 1 \in 1..MaxGrants
      BY <1>g, <3>1
    <3> QED BY <1>1, <1>2, <1>t, <3>1, <3>3, <3>4
  <2>2. ASSUME NEW old \in SUBSET DOMAIN grants, NEW kind \in {"screen", "printed"}, NEW p \in Permits,
               Replace(old, kind, p)
        PROVE  TokenRow(t)
    <3> DEFINE gone == old \ {g \in old : BookedBy(TokensOf({g})) # {}}
    <3>1. /\ given.t < MaxTokens /\ given'.t = given.t + 1 /\ given.g < MaxGrants
          /\ DOMAIN grants' = (DOMAIN grants \ gone) \cup {given.g + 1}
      BY <2>2 DEF Replace, HasIds, Gives, Put, Given
    <3>2. tokens' = Put(Keep(tokens, DOMAIN tokens \ TokensOf(gone)), given.t + 1,
                        [grant |-> given.g + 1, to |-> "anyone", revoked |-> FALSE])
      BY <2>2 DEF Replace, NewToken
    <3> HIDE DEF gone
    <3>3. \/ t = given.t + 1 /\ \E to \in Addressees : tokens'[t] = [grant |-> given.g + 1, to |-> to, revoked |-> FALSE]
          \/ t \in DOMAIN tokens \ TokensOf(gone) /\ tokens'[t] = tokens[t]
      BY <3>2, <1>3 DEF Put, Keep, Addressees
    <3>4. given.g + 1 \in 1..MaxGrants
      BY <1>g, <3>1
    <3>5. t \in DOMAIN tokens \ TokensOf(gone) => tokens[t].grant \in DOMAIN grants'
      BY <3>1, <1>t DEF TokensOf
    <3> QED BY <1>1, <1>2, <3>1, <3>3, <3>4, <3>5
  <2>3. ASSUME NEW h \in DOMAIN grants, NEW cars \in SUBSET Cars, NEW all \in BOOLEAN,
               NarrowGrant(h, cars) \/ UpdatePicker(h, cars, all)
        PROVE  TokenRow(t)
    <3>1. tokens' = tokens /\ DOMAIN grants' = DOMAIN grants
      BY <2>3 DEF NarrowGrant, UpdatePicker, UpdatePickerGrant, UpdateGuestGrant
    <3> QED BY <1>1, <1>t, <3>1
  <2>4. ASSUME NEW h \in DOMAIN grants, AddGuestToken(h) PROVE TokenRow(t)
    <3>1. /\ given.t < MaxTokens /\ given'.t = given.t + 1 /\ grants' = grants
          /\ tokens' = Put(tokens, given.t + 1, [grant |-> h, to |-> "guest", revoked |-> FALSE])
      BY <2>4 DEF AddGuestToken, Given
    <3>2. \/ t = given.t + 1 /\ tokens'[t] = [grant |-> h, to |-> "guest", revoked |-> FALSE]
          \/ t \in DOMAIN tokens /\ tokens'[t] = tokens[t]
      BY <3>1, <1>3 DEF Put
    <3>3. h \in 1..MaxGrants
      BY DEF GuestTypeOK
    <3> QED BY <1>1, <1>2, <1>t, <3>1, <3>2, <3>3 DEF Addressees
  <2>5. ASSUME NEW h \in DOMAIN grants, ResetGuestToken(h) PROVE TokenRow(t)
    <3>1. grants' = grants /\ t \in DOMAIN tokens
      BY <2>5 DEF ResetGuestToken, NewLink, Rebind
    <3>2. tokens'[t] = tokens[t] \/ \E r \in BOOLEAN : tokens'[t] = [tokens[t] EXCEPT !.revoked = r]
      BY <2>5 DEF ResetGuestToken, NewLink, Rebind
    <3> QED BY <1>1, <1>4, <1>5, <1>t, <3>1, <3>2
  <2>6. ASSUME NEW u \in DOMAIN tokens, RevokeGuestToken(u) PROVE TokenRow(t)
    <3>1. /\ grants' = grants /\ t \in DOMAIN tokens
          /\ tokens'[t] = tokens[t] \/ tokens'[t] = [tokens[t] EXCEPT !.revoked = TRUE]
      BY <2>6 DEF RevokeGuestToken
    <3> QED BY <1>1, <1>4, <1>5, <1>t, <3>1
  <2>7. ASSUME NEW gs \in SUBSET DOMAIN grants, Withdraw(gs) PROVE TokenRow(t)
    BY <1>1, <1>6, <2>7 DEF Withdraw
  <2>8. ASSUME NEW p \in Permits, DeletePermit(p) PROVE TokenRow(t)
    BY <1>1, <1>6, <2>8 DEF DeletePermit, OnPermit
  <2>9. ASSUME NEW p \in Permits, NEW q \in Permits, MoveGuestGrants(p, q) PROVE TokenRow(t)
    <3> DEFINE second == {g \in GrantsWith("picker") \cap OnPermit(p) : GrantsWith("picker") \ OnPermit(p) # {}}
    <3>1. tokens' = Keep(tokens, DOMAIN tokens \ TokensOf(second)) /\ DOMAIN grants' = DOMAIN grants \ second
      BY <2>9 DEF MoveGuestGrants
    <3> HIDE DEF second
    <3> QED BY <1>1, <1>t, <3>1 DEF Keep, TokensOf
  <2>10. ASSUME NEW p \in Permits, NEW q \in Permits, CopySchedule(p, q) PROVE TokenRow(t)
    BY <1>1, <1>t, <2>10 DEF CopySchedule
  <2>11. ASSUME NEW c \in Cars, DeleteVehicle(c) PROVE TokenRow(t)
    BY <1>1, <1>t, <2>11 DEF DeleteVehicle
  <2>12. CASE PauseGuests \/ ResumeGuests
    BY <1>1, <1>t, <2>12 DEF PauseGuests, ResumeGuests, rows
  <2> QED BY <1>7, <2>1, <2>2, <2>3, <2>4, <2>5, <2>6, <2>7, <2>8, <2>9, <2>10, <2>11, <2>12 DEF Edits
<1>8. CASE GuestVisits \/ DeciderStep \/ UNCHANGED guestVars
  <2>1. tokens' = tokens /\ grants' = grants
    BY <1>8 DEF GuestVisits, Open, rows, guestRevert, guestClear, DeleteGuestOverrides, Leave, Book, Ask,
     DeciderStep, Deny, Look, BookFor, BookRefused, Approve, ApproveFails, Tag, Undo, Gate, guestVars
  <2> QED BY <1>1, <1>t, <2>1
<1>9. CASE GuestTime
  <2>1. ASSUME NEW u \in DOMAIN tokens, NameForgotten(u) PROVE TokenRow(t)
    <3>1. /\ grants' = grants /\ t \in DOMAIN tokens
          /\ tokens'[t] = tokens[t] \/ tokens'[t] = [tokens[t] EXCEPT !.to = "nobody"]
      BY <2>1 DEF NameForgotten
    <3>2. tokens[t] \in Token
      BY <1>t, <3>1
    <3>3. [tokens[t] EXCEPT !.to = "nobody"] \in Token /\ [tokens[t] EXCEPT !.to = "nobody"].grant = tokens[t].grant
      <4>1. [tokens[t] EXCEPT !.to = "nobody"] \in Token
        BY <3>2, Zenon DEF Token, Addressees
      <4> QED BY <3>2, <4>1 DEF Token
    <3> QED BY <1>1, <1>5, <1>t, <3>1, <3>3
  <2>2. CASE ~\E u \in DOMAIN tokens : NameForgotten(u)
    <3>1. tokens' = tokens /\ DOMAIN grants' = DOMAIN grants
      BY <1>9, <2>2 DEF GuestTime, PermitLapses, BookingEnds, CodeExpires, RequestExpires, RequestPurged,
         GuestRestart, rows
    <3> QED BY <1>1, <1>t, <3>1
  <2> QED BY <2>1, <2>2
<1> QED BY <1>7, <1>8, <1>9

\* A request stays with its grant, a decided one is not decided again, and one that moves
\* goes where its grant goes.
RequestRow(r) ==
  /\ r \in 1..MaxRequests /\ requests'[r] \in Request /\ r <= given'.r
  /\ requests'[r].grant \in DOMAIN grants'
  /\ r \in DOMAIN requests =>
       /\ requests'[r].grant = requests[r].grant
       /\ requests'[r].st = requests[r].st \/ requests[r].st = "pending"
       /\ \/ requests'[r].permit = requests[r].permit
          \/ requests'[r].permit = grants'[requests[r].grant].permit
  /\ r \notin DOMAIN requests =>
       /\ r = given.r + 1
       /\ \E v \in Visitors : /\ Visiting(v) /\ requests'[r].grant = page[v].grant
                              /\ requests'[r].permit = page[v].permit

LEMMA RequestRows ==
  ASSUME GuestTypeOK, Given, GivenOut,
         Edits \/ GuestVisits \/ DeciderStep \/ GuestTime \/ UNCHANGED guestVars,
         NEW r \in DOMAIN requests'
  PROVE  RequestRow(r)
<1>b. GivenStep
  BY NextIds
<1>g. given.r \in Nat /\ given.r <= MaxRequests /\ given'.r \in Nat /\ given.r <= given'.r /\ MaxRequests \in Nat
  BY <1>b, Bounds DEF Given, GivenStep
<1>t. \A x \in DOMAIN requests : /\ x \in 1..MaxRequests /\ x <= given.r /\ requests[x] \in Request
                                 /\ requests[x].grant \in DOMAIN grants
  BY DEF GuestTypeOK, GivenOut
<1>1. CASE r \in DOMAIN requests /\ requests'[r] = requests[r] /\ requests[r].grant \in DOMAIN grants'
  BY <1>1, <1>g, <1>t DEF RequestRow
<1>2. ASSUME r \in DOMAIN requests, requests[r].grant \in DOMAIN grants', requests[r].st = "pending",
             NEW st \in {"approved", "denied", "expired"}, requests'[r] = [requests[r] EXCEPT !.st = st]
      PROVE  RequestRow(r)
  BY <1>2, <1>g, <1>t DEF RequestRow, Request
<1>3. ASSUME NEW gs \in SUBSET DOMAIN grants, DropGrants(gs)
      PROVE  r \in DOMAIN requests /\ requests'[r] = requests[r] /\ requests[r].grant \in DOMAIN grants'
  BY <1>3, <1>t DEF DropGrants, Keep
<1>4. ASSUME \A g \in DOMAIN grants : g \in DOMAIN grants', requests' = requests PROVE RequestRow(r)
  BY <1>1, <1>4, <1>t
<1>5. CASE Edits
  <2>1. ASSUME \/ \E p \in Permits, cars \in SUBSET Cars : CreatePass(p, cars)
               \/ \E p \in Permits, cars \in SUBSET Cars, all \in BOOLEAN : CreatePicker(p, cars, all)
        PROVE  RequestRow(r)
    <3>1. requests' = requests /\ \A g \in DOMAIN grants : g \in DOMAIN grants'
      BY <2>1 DEF CreatePass, CreatePicker, CreateGuestGrant, CreatePickerGrant, Put
    <3> QED BY <1>4, <3>1
  <2>2. ASSUME NEW old \in SUBSET DOMAIN grants, NEW kind \in {"screen", "printed"}, NEW p \in Permits,
               Replace(old, kind, p)
        PROVE  RequestRow(r)
    <3> DEFINE gone == old \ {g \in old : BookedBy(TokensOf({g})) # {}}
    <3>1. DOMAIN grants' = (DOMAIN grants \ gone) \cup {given.g + 1}
      BY <2>2 DEF Replace, Put
    <3>2. /\ r \in DOMAIN requests /\ requests[r].grant \notin gone
          /\ \/ requests'[r] = requests[r]
             \/ requests[r].st = "pending" /\ requests'[r] = [requests[r] EXCEPT !.st = "denied"]
      BY <2>2 DEF Replace
    <3> HIDE DEF gone
    <3> QED BY <1>1, <1>2, <1>t, <3>1, <3>2
  <2>3. ASSUME NEW h \in DOMAIN grants, NEW cars \in SUBSET Cars, NEW all \in BOOLEAN,
               NarrowGrant(h, cars) \/ UpdatePicker(h, cars, all)
        PROVE  RequestRow(r)
    <3>1. requests' = requests /\ DOMAIN grants' = DOMAIN grants
      BY <2>3 DEF NarrowGrant, UpdatePicker, UpdatePickerGrant, UpdateGuestGrant
    <3> QED BY <1>4, <3>1
  <2>4. ASSUME NEW h \in DOMAIN grants, AddGuestToken(h) \/ ResetGuestToken(h) PROVE RequestRow(r)
    BY <1>4, <2>4 DEF AddGuestToken, ResetGuestToken
  <2>5. ASSUME NEW gs \in SUBSET DOMAIN grants, Withdraw(gs) PROVE RequestRow(r)
    BY <1>1, <1>3, <2>5 DEF Withdraw
  <2>6. ASSUME NEW p \in Permits, DeletePermit(p) PROVE RequestRow(r)
    BY <1>1, <1>3, <2>6 DEF DeletePermit, OnPermit
  <2>7. ASSUME NEW p \in Permits, NEW q \in Permits, MoveGuestGrants(p, q) PROVE RequestRow(r)
    <3> DEFINE stays == IF GrantsWith("printed") \cap OnPermit(q) # {} THEN GrantsWith("printed") ELSE {}
               second == {g \in GrantsWith("picker") \cap OnPermit(p) : GrantsWith("picker") \ OnPermit(p) # {}}
               moved == OnPermit(p) \ (stays \cup second)
    <3>1. grants' = [g \in DOMAIN grants \ second |->
                       IF g \in moved THEN [grants[g] EXCEPT !.permit = q] ELSE grants[g]]
      BY <2>7 DEF MoveGuestGrants
    <3>2. /\ r \in DOMAIN requests /\ requests[r].grant \notin second
          /\ \/ requests'[r] = requests[r]
             \/ requests[r].grant \in moved /\ requests'[r] = [requests[r] EXCEPT !.permit = q]
      BY <2>7 DEF MoveGuestGrants
    <3>3. requests[r].grant \in DOMAIN grants' /\ requests[r].grant \in DOMAIN grants
      BY <1>t, <3>1, <3>2
    <3> HIDE DEF second, moved, stays
    <3>4. requests[r].grant \in moved => grants'[requests[r].grant].permit = q
      BY <3>1, <3>2, <3>3 DEF GuestTypeOK, Grant
    <3>5. CASE requests[r].grant \in moved /\ requests'[r] = [requests[r] EXCEPT !.permit = q]
      BY <3>2, <3>3, <3>4, <3>5, <1>g, <1>t DEF RequestRow, Request
    <3> QED BY <1>1, <3>2, <3>3, <3>5
  <2>8. CASE PauseGuests \/ ResumeGuests \/ \E t \in DOMAIN tokens : RevokeGuestToken(t)
    BY <1>4, <2>8 DEF PauseGuests, ResumeGuests, RevokeGuestToken, rows
  <2>9. ASSUME NEW p \in Permits, NEW q \in Permits, CopySchedule(p, q) PROVE RequestRow(r)
    BY <1>4, <2>9 DEF CopySchedule
  <2>10. ASSUME NEW c \in Cars, DeleteVehicle(c) PROVE RequestRow(r)
    BY <1>4, <2>10 DEF DeleteVehicle
  <2> QED BY <1>5, <2>1, <2>2, <2>3, <2>4, <2>5, <2>6, <2>7, <2>8, <2>9, <2>10 DEF Edits
<1>6. CASE GuestVisits
  <2>1. grants' = grants
    BY <1>6 DEF GuestVisits, Open, rows, guestRevert, guestClear, DeleteGuestOverrides, Leave, Book, Ask
  <2>2. ASSUME NEW v \in Visitors, NEW x \in Plates, Ask(v, x) PROVE RequestRow(r)
    <3> DEFINE row == [grant |-> page[v].grant, permit |-> page[v].permit, plate |-> x, st |-> "pending"]
    <3>1. /\ Visiting(v) /\ page[v].grant \in DOMAIN grants /\ given'.r = given.r + 1 /\ given.r < MaxRequests
          /\ requests' = Put(requests, given.r + 1, row)
      BY <2>2 DEF Ask, CreateGuestRequest, Given
    <3>2. row \in Request
      BY <3>1 DEF GuestTypeOK, Page, Visiting, Request
    <3>3. row.grant = page[v].grant /\ row.permit = page[v].permit
      OBVIOUS
    <3> HIDE DEF row
    <3>4. (r = given.r + 1 /\ requests'[r] = row) \/ (r \in DOMAIN requests /\ requests'[r] = requests[r])
      BY <3>1 DEF Put
    <3>5. given.r + 1 \notin DOMAIN requests
      BY <1>g, <1>t
    <3> QED BY <1>1, <1>g, <1>t, <2>1, <3>1, <3>2, <3>3, <3>4, <3>5 DEF RequestRow
  <2>3. CASE ~\E v \in Visitors, x \in Plates : Ask(v, x)
    BY <1>4, <1>6, <2>1, <2>3 DEF GuestVisits, Open, rows, guestRevert, guestClear, DeleteGuestOverrides, Leave, Book
  <2> QED BY <2>2, <2>3
<1>7. CASE DeciderStep
  <2>1. grants' = grants
    BY <1>7 DEF DeciderStep, Deny, Look, BookFor, BookRefused, Approve, ApproveFails, Tag, Undo, Gate, rows
  <2>2. /\ r \in DOMAIN requests
        /\ \/ requests'[r] = requests[r]
           \/ requests[r].st = "pending" /\ \E st \in {"approved", "denied"} : requests'[r] = [requests[r] EXCEPT !.st = st]
    BY <1>7 DEF DeciderStep, Deny, Look, BookFor, BookRefused, Approve, ApproveFails, Tag, Undo, Gate, rows,
       Settle, IsPending, StillPending
  <2> QED BY <1>1, <1>2, <1>t, <2>1, <2>2
<1>8. CASE GuestTime \/ UNCHANGED guestVars
  <2>1. DOMAIN grants' = DOMAIN grants
    BY <1>8 DEF GuestTime, PermitLapses, BookingEnds, CodeExpires, RequestExpires, RequestPurged,
       NameForgotten, GuestRestart, rows, guestVars
  <2>2. /\ r \in DOMAIN requests
        /\ \/ requests'[r] = requests[r]
           \/ requests[r].st = "pending" /\ requests'[r] = [requests[r] EXCEPT !.st = "expired"]
    BY <1>8 DEF GuestTime, PermitLapses, BookingEnds, CodeExpires, RequestExpires, RequestPurged,
       NameForgotten, GuestRestart, rows, guestVars, Settle, IsPending, Keep
  <2> QED BY <1>1, <1>2, <1>t, <2>1, <2>2
<1> QED BY <1>5, <1>6, <1>7, <1>8

\* What stands no more does not stand again, and a permit deleted stays so.
LEMMA StandingStep ==
  ASSUME GuestTypeOK, Edits \/ GuestVisits \/ DeciderStep \/ GuestTime \/ UNCHANGED guestVars,
         NEW p \in Permits
  PROVE  /\ standing'[p] = "valid" => standing[p] = "valid"
         /\ standing' \in [Permits -> {"valid", "lapsed", "gone"}]
         /\ standing' = standing \/ guestsOn' = guestsOn
<1>1. CASE standing' = standing
  BY <1>1 DEF GuestTypeOK
<1>2. ASSUME NEW q \in Permits, NEW st \in {"lapsed", "gone"}, standing' = [standing EXCEPT ![q] = st],
             guestsOn' = guestsOn
      PROVE  /\ standing'[p] = "valid" => standing[p] = "valid"
             /\ standing' \in [Permits -> {"valid", "lapsed", "gone"}]
             /\ standing' = standing \/ guestsOn' = guestsOn
  BY <1>2 DEF GuestTypeOK
<1>3. CASE Edits
  BY <1>1, <1>2, <1>3 DEF Edits, CreatePass, CreatePicker, Replace, NarrowGrant, UpdatePicker, AddGuestToken,
     ResetGuestToken, RevokeGuestToken, Withdraw, PauseGuests, ResumeGuests, MoveGuestGrants, CopySchedule,
     DeletePermit, DeleteVehicle, house
<1>4. CASE GuestVisits \/ DeciderStep
  BY <1>1, <1>4 DEF GuestVisits, Open, guestRevert, guestClear, DeleteGuestOverrides, Leave, Book, Ask,
     DeciderStep, Deny, Look, BookFor, BookRefused, Approve, ApproveFails, Tag, Undo, Gate, house
<1>5. CASE GuestTime \/ UNCHANGED guestVars
  BY <1>1, <1>2, <1>5 DEF GuestTime, PermitLapses, BookingEnds, CodeExpires, RequestExpires, RequestPurged,
     NameForgotten, GuestRestart, house, guestVars
<1> QED BY <1>3, <1>4, <1>5

\* A booking does not change.  A new one is the household's own, or a visitor's on the
\* page they opened, or a member's for the request they decide.
Still == grants' = grants /\ tokens' = tokens /\ guestsOn' = guestsOn /\ standing' = standing

ByVisitor(b) == \E v \in Visitors :
  /\ Visiting(v) /\ Still /\ Lives(page[v].token) /\ bookings'[b].request = 0
  /\ bookings'[b].token = page[v].token /\ bookings'[b].permit = page[v].permit

ByMember(b) == \E m \in Members :
  /\ decider[m].pc = "tagged" /\ Still /\ bookings'[b].request = decider[m].request
  /\ bookings'[b].token = decider[m].token /\ bookings'[b].permit = decider[m].on
  /\ decider[m].token # 0 => Lives(decider[m].token)
  /\ decider'[m].pc = "booked" /\ decider'[m].booking = b

BookingRow(b) ==
  /\ b \in 1..MaxBookings /\ bookings'[b] \in Booking
  /\ b <= given'.b /\ bookings'[b].token <= given'.t /\ bookings'[b].request <= given'.r
  /\ b \in DOMAIN bookings => bookings'[b] = bookings[b]
  /\ b \notin DOMAIN bookings =>
       /\ given.b < b
       /\ \/ bookings'[b].token = 0 /\ bookings'[b].request = 0
          \/ ByVisitor(b) \/ ByMember(b)

LEMMA BookingRows ==
  ASSUME GuestTypeOK, Given, GivenOut, DecidersKnow,
         Edits \/ GuestVisits \/ DeciderStep \/ GuestTime \/ UNCHANGED guestVars,
         NEW b \in DOMAIN bookings'
  PROVE  BookingRow(b)
<1>b. GivenStep
  BY NextIds
<1>g. /\ given.b \in Nat /\ given.b <= MaxBookings /\ given'.b \in Nat /\ given.b <= given'.b /\ MaxBookings \in Nat
      /\ given.t \in Nat /\ given'.t \in Nat /\ given.t <= given'.t /\ given'.t <= MaxTokens /\ MaxTokens \in Nat
      /\ given.r \in Nat /\ given'.r \in Nat /\ given.r <= given'.r /\ given'.r <= MaxRequests /\ MaxRequests \in Nat
      /\ given'.b <= MaxBookings
  BY <1>b, Bounds DEF Given, GivenStep
<1>t. \A x \in DOMAIN bookings : /\ x \in 1..MaxBookings /\ x <= given.b /\ bookings[x] \in Booking
                                 /\ bookings[x].token <= given.t /\ bookings[x].request <= given.r
  BY DEF GuestTypeOK, GivenOut
<1>u. \A x \in DOMAIN bookings : bookings[x].token \in Nat /\ bookings[x].request \in Nat
  BY <1>g, <1>t DEF Booking
<1>1. CASE b \in DOMAIN bookings /\ bookings'[b] = bookings[b]
  BY <1>1, <1>g, <1>t, <1>u DEF BookingRow
<1>2. ASSUME NEW t \in 0..MaxTokens, NEW p \in Permits, NEW what \in Cars \cup Plates, NEW r \in 0..MaxRequests,
             t <= given.t, r <= given.r, Inserted(t, p, what, r), b \notin DOMAIN bookings
      PROVE  /\ b = given.b + 1 /\ b <= given'.b /\ b \in 1..MaxBookings /\ bookings'[b] \in Booking
             /\ bookings'[b].token = t /\ bookings'[b].permit = p /\ bookings'[b].request = r
             /\ t # 0 => Lives(t)
             /\ t <= given'.t /\ r <= given'.r
  <2> DEFINE row == [token |-> t, permit |-> p, what |-> what, request |-> r]
  <2>1. row \in Booking /\ row.token = t /\ row.permit = p /\ row.request = r
    BY DEF Booking
  <2>2. bookings' = Put(bookings, given.b + 1, row) /\ given'.b = given.b + 1 /\ given.b < MaxBookings
    BY <1>2 DEF Inserted, Given
  <2>3. t # 0 => Lives(t)
    BY <1>2 DEF Inserted
  <2> HIDE DEF row
  <2>4. b = given.b + 1 /\ bookings'[b] = row
    BY <1>2, <2>2 DEF Put
  <2> QED BY <1>2, <1>g, <2>1, <2>2, <2>3, <2>4
<1>3. given.b + 1 \notin DOMAIN bookings
  BY <1>g, <1>t
<1>4. CASE Edits
  <2>1. ASSUME NEW p \in Permits, NEW q \in Permits, CopySchedule(p, q), b \notin DOMAIN bookings
        PROVE  BookingRow(b)
    <3> DEFINE from == {x \in DOMAIN bookings : bookings[x].permit = p}
               low(x) == {y \in from : y <= x}
               nth(x) == given.b + Cardinality(low(x))
               kept == {x \in DOMAIN bookings : bookings[x].permit # q}
               new == {nth(x) : x \in from}
    <3>1. /\ bookings' = [i \in kept \cup new |-> IF i \in kept THEN bookings[i]
               ELSE LET y == CHOOSE x \in from : nth(x) = i
                    IN [bookings[y] EXCEPT !.token = 0, !.permit = q, !.request = 0]]
          /\ given' = [given EXCEPT !.b = @ + Cardinality(from)] /\ given.b + Cardinality(from) <= MaxBookings
      BY <2>1 DEF CopySchedule
    <3>2. Cardinality(from) \in Nat /\ \A x \in from : Cardinality(low(x)) \in 1..Cardinality(from)
      BY SomeBookings
    <3>3. given'.b = given.b + Cardinality(from)
      BY <3>1 DEF Given
    <3>4. b \in new /\ b \notin kept
      BY <2>1, <3>1
    <3> DEFINE y == CHOOSE x \in from : nth(x) = b
    <3>5. y \in from /\ nth(y) = b
      BY <3>4
    <3>6. given.b < b /\ b <= given'.b /\ b \in 1..MaxBookings
      <4>1. Cardinality(low(y)) \in 1..Cardinality(from) /\ b = given.b + Cardinality(low(y))
        BY <3>2, <3>5
      <4>2. given.b + Cardinality(from) <= MaxBookings /\ Cardinality(from) \in Nat
        BY <3>1, <3>2
      <4> HIDE DEF y, from, low
      <4> QED BY <1>g, <3>3, <4>1, <4>2
    <3>7. bookings'[b] = [bookings[y] EXCEPT !.token = 0, !.permit = q, !.request = 0]
      BY <3>1, <3>4
    <3>8. y \in DOMAIN bookings
      BY <3>5
    <3> HIDE DEF y, from, low, nth, kept, new
    <3>9. bookings'[b] \in Booking /\ bookings'[b].token = 0 /\ bookings'[b].request = 0
      <4>1. bookings[y] \in Booking /\ 0 \in 0..MaxTokens /\ 0 \in 0..MaxRequests
        BY <1>g, <1>t, <3>8
      <4> DEFINE one == [bookings[y] EXCEPT !.token = 0]
                 two == [one EXCEPT !.permit = q]
      <4>2. one \in Booking /\ one.token = 0
        BY <4>1 DEF Booking
      <4>3. bookings'[b] = [two EXCEPT !.request = 0]
        BY <3>7, Zenon
      <4> HIDE DEF one
      <4>4. two \in Booking /\ two.token = 0
        BY <4>2 DEF Booking
      <4> HIDE DEF two
      <4> QED BY <4>1, <4>3, <4>4 DEF Booking
    <3> QED BY <1>g, <2>1, <3>6, <3>9 DEF BookingRow
  <2>2. ASSUME NEW p \in Permits, NEW q \in Permits, CopySchedule(p, q), b \in DOMAIN bookings
        PROVE  BookingRow(b)
    <3> DEFINE from == {x \in DOMAIN bookings : bookings[x].permit = p}
               low(x) == {y \in from : y <= x}
               nth(x) == given.b + Cardinality(low(x))
               kept == {x \in DOMAIN bookings : bookings[x].permit # q}
               new == {nth(x) : x \in from}
    <3>1. bookings' = [i \in kept \cup new |-> IF i \in kept THEN bookings[i]
               ELSE LET y == CHOOSE x \in from : nth(x) = i
                    IN [bookings[y] EXCEPT !.token = 0, !.permit = q, !.request = 0]]
      BY <2>2 DEF CopySchedule
    <3>2. \A x \in from : Cardinality(low(x)) \in 1..Cardinality(from) /\ Cardinality(from) \in Nat
      BY SomeBookings
    <3>3. \A x \in from : nth(x) \notin DOMAIN bookings
      <4>1. \A x \in from : nth(x) > given.b
        <5> HIDE DEF from, low
        <5> QED BY <1>g, <3>2
      <4> QED BY <1>g, <1>t, <4>1
    <3>4. b \notin new
      BY <2>2, <3>3
    <3>5. b \in kept /\ bookings'[b] = bookings[b]
      <4> HIDE DEF new, kept, nth, from, low
      <4> QED BY <3>1, <3>4
    <3> QED BY <1>1, <2>2, <3>5
  <2>3. CASE ~\E p, q \in Permits : CopySchedule(p, q)
    <3>1. b \in DOMAIN bookings /\ bookings'[b] = bookings[b]
      BY <1>4, <2>3 DEF Edits, CreatePass, CreatePicker, Replace, NarrowGrant, UpdatePicker, UpdatePickerGrant,
         UpdateGuestGrant, AddGuestToken, ResetGuestToken, RevokeGuestToken, Withdraw, PauseGuests, ResumeGuests,
         MoveGuestGrants, DeletePermit, DeleteVehicle, Sweep, Keep, rows
    <3> QED BY <1>1, <3>1
  <2> QED BY <2>1, <2>2, <2>3
<1>5. CASE GuestVisits
  <2>1. ASSUME NEW v \in Visitors, NEW what \in Cars \cup Plates, Book(v, what), b \notin DOMAIN bookings
        PROVE  BookingRow(b)
    <3>1. /\ Visiting(v) /\ Still /\ Inserted(page[v].token, page[v].permit, what, 0)
      BY <2>1 DEF Book, Still, house
    <3>2. /\ page[v].token \in 0..MaxTokens /\ page[v].permit \in Permits /\ page[v].token # 0
          /\ page[v].token <= given.t
      BY <1>g, <3>1 DEF GuestTypeOK, Page, Visiting, GivenOut
    <3>3. /\ b = given.b + 1 /\ b <= given'.b /\ b \in 1..MaxBookings /\ bookings'[b] \in Booking
          /\ bookings'[b].token = page[v].token /\ bookings'[b].permit = page[v].permit
          /\ bookings'[b].request = 0 /\ Lives(page[v].token) /\ page[v].token <= given'.t
      BY <1>2, <1>g, <2>1, <3>1, <3>2
    <3>4. ByVisitor(b)
      BY <3>1, <3>3 DEF ByVisitor
    <3> QED BY <1>g, <2>1, <3>3, <3>4 DEF BookingRow
  <2>2. ASSUME NEW v \in Visitors, NEW what \in Cars \cup Plates, Book(v, what), b \in DOMAIN bookings
        PROVE  BookingRow(b)
    BY <1>1, <1>3, <2>2 DEF Book, Inserted, Put
  <2>3. CASE ~\E v \in Visitors, what \in Cars \cup Plates : Book(v, what)
    <3>1. b \in DOMAIN bookings /\ bookings'[b] = bookings[b]
      BY <1>5, <2>3 DEF GuestVisits, Open, guestRevert, guestClear, DeleteGuestOverrides, Leave, Ask, Keep, rows
    <3> QED BY <1>1, <3>1
  <2> QED BY <2>1, <2>2, <2>3
<1>6. CASE DeciderStep
  <2>1. ASSUME NEW m \in Members, NEW x \in Plates, BookFor(m, x), b \notin DOMAIN bookings
        PROVE  BookingRow(b)
    <3>1. /\ decider[m].pc = "tagged" /\ Still /\ Inserted(decider[m].token, decider[m].on, x, decider[m].request)
      BY <2>1 DEF BookFor, Still, house
    <3>2. /\ decider[m].token \in 0..MaxTokens /\ decider[m].on \in Permits /\ decider[m].request \in 0..MaxRequests
          /\ decider[m].token <= given.t /\ decider[m].request <= given.r
      BY <3>1 DEF DecidersKnow, Knows, Decision
    <3>3. /\ b = given.b + 1 /\ b <= given'.b /\ b \in 1..MaxBookings /\ bookings'[b] \in Booking
          /\ bookings'[b].token = decider[m].token /\ bookings'[b].permit = decider[m].on
          /\ bookings'[b].request = decider[m].request
          /\ decider[m].token # 0 => Lives(decider[m].token)
          /\ decider[m].token <= given'.t /\ decider[m].request <= given'.r
      BY <1>2, <1>g, <2>1, <3>1, <3>2
    <3>4. decider'[m].pc = "booked" /\ decider'[m].booking = b
      <4>1. decider' = [decider EXCEPT ![m].pc = "booked", ![m].booking = b]
        BY <2>1, <3>3 DEF BookFor
      <4>2. decider \in [Members -> Decision]
        BY DEF DecidersKnow
      <4>3. decider'[m] = [decider[m] EXCEPT !.pc = "booked", !.booking = b]
        BY <4>1, <4>2
      <4>4. decider[m] \in Decision
        BY <4>2
      <4> QED BY <4>3, <4>4 DEF Decision
    <3>5. ByMember(b)
      BY <3>1, <3>3, <3>4 DEF ByMember
    <3> QED BY <1>g, <2>1, <3>3, <3>5 DEF BookingRow
  <2>2. ASSUME NEW m \in Members, NEW x \in Plates, BookFor(m, x), b \in DOMAIN bookings
        PROVE  BookingRow(b)
    BY <1>1, <1>3, <2>2 DEF BookFor, Inserted, Put
  <2>3. CASE ~\E m \in Members, x \in Plates : BookFor(m, x)
    <3>1. b \in DOMAIN bookings /\ bookings'[b] = bookings[b]
      BY <1>6, <2>3 DEF DeciderStep, Deny, Look, BookRefused, Approve, ApproveFails, Tag, Undo, Gate,
         DeleteOverride, Keep, rows
    <3> QED BY <1>1, <3>1
  <2> QED BY <2>1, <2>2, <2>3
<1>7. CASE GuestTime \/ UNCHANGED guestVars
  <2>1. b \in DOMAIN bookings /\ bookings'[b] = bookings[b]
    BY <1>7 DEF GuestTime, PermitLapses, BookingEnds, CodeExpires, RequestExpires, RequestPurged,
       NameForgotten, GuestRestart, rows, guestVars, DeleteOverride, Keep
  <2> QED BY <1>1, <2>1
<1> QED BY <1>4, <1>5, <1>6, <1>7

------------------------------------------------------------------------------
(* What is known of the ids somebody holds.                                 *)

\* The pages: a page is left, or is as it was, or has just been opened on its link.
PageRow(v) ==
  Visiting(v)' =>
    \/ /\ Visiting(v) /\ page'[v].token = page[v].token
       /\ page'[v].grant = page[v].grant /\ page'[v].permit = page[v].permit
    \/ /\ Still /\ page'[v].token \in DOMAIN tokens
       /\ page'[v].grant = tokens[page'[v].token].grant
       /\ page'[v].permit = grants[page'[v].grant].permit

LEMMA PageRows ==
  ASSUME GuestTypeOK, GivenOut, Given,
         Edits \/ GuestVisits \/ DeciderStep \/ GuestTime \/ UNCHANGED guestVars
  PROVE  page' \in [Visitors -> Page \cup {None}] /\ \A v \in Visitors : PageRow(v)
<1>1. CASE page' = page
  BY <1>1 DEF PageRow, Visiting, GuestTypeOK
<1>2. ASSUME NEW v \in Visitors, NEW x \in Page \cup {None}, page' = [page EXCEPT ![v] = x],
             x = None \/ PageRow(v)
      PROVE  page' \in [Visitors -> Page \cup {None}] /\ \A u \in Visitors : PageRow(u)
  <2>1. page' \in [Visitors -> Page \cup {None}]
    BY <1>2 DEF GuestTypeOK
  <2>2. \A u \in Visitors : PageRow(u)
    BY <1>2 DEF GuestTypeOK, PageRow, Visiting
  <2> QED BY <2>1, <2>2
<1>3. CASE Edits
  BY <1>1, <1>3 DEF Edits, CreatePass, CreatePicker, Replace, NarrowGrant, UpdatePicker, AddGuestToken,
     ResetGuestToken, RevokeGuestToken, Withdraw, PauseGuests, ResumeGuests, MoveGuestGrants, CopySchedule,
     DeletePermit, DeleteVehicle, people
<1>4. CASE DeciderStep
  BY <1>1, <1>4 DEF DeciderStep, Deny, Look, BookFor, BookRefused, Approve, ApproveFails, Tag, Undo, Gate, people
<1>5. CASE UNCHANGED guestVars
  BY <1>1, <1>5 DEF guestVars
<1>6. CASE GuestTime
  <2>1. CASE GuestRestart
    BY <2>1 DEF GuestRestart, PageRow, Visiting
  <2>2. CASE ~GuestRestart
    BY <1>1, <1>6, <2>2 DEF GuestTime, PermitLapses, BookingEnds, CodeExpires, RequestExpires, RequestPurged,
       NameForgotten, people
  <2> QED BY <2>1, <2>2
<1>7. CASE GuestVisits
  <2>1. ASSUME NEW v \in Visitors, NEW t \in DOMAIN tokens, Open(v, t)
        PROVE  page' \in [Visitors -> Page \cup {None}] /\ \A u \in Visitors : PageRow(u)
    <3> DEFINE g == tokens[t].grant
               x == [token |-> t, grant |-> g, kind |-> grants[g].kind,
                     permit |-> grants[g].permit, cars |-> Offered(g), undone |-> FALSE, booking |-> 0]
    <3>1. page' = [page EXCEPT ![v] = x] /\ Still
      BY <2>1 DEF Open, Still, rows, house
    <3>2. t \in 1..MaxTokens /\ tokens[t] \in Token /\ g \in 1..MaxGrants /\ grants[g] \in Grant
      BY DEF GuestTypeOK, GivenOut
    <3>3. grants[g].kind \in Kinds /\ grants[g].permit \in Permits /\ grants[g].cars \in SUBSET Cars
      BY <3>2, Zenon DEF Grant
    <3>4. Offered(g) \in SUBSET Cars
      BY <3>3, Zenon DEF Offered, GuestTypeOK
    <3>5. 0 \in 0..MaxBookings
      BY Bounds
    <3>6. x \in Page
      BY <3>2, <3>3, <3>4, <3>5, Zenon DEF Page
    <3>7. x.token = t /\ x.grant = g /\ x.permit = grants[g].permit
      OBVIOUS
    <3> HIDE DEF x
    <3>8. page'[v] = x
      BY <3>1 DEF GuestTypeOK
    <3>9. PageRow(v)
      BY <3>1, <3>7, <3>8 DEF PageRow
    <3> QED BY <1>2, <3>1, <3>6, <3>9
  <2>2. ASSUME NEW v \in Visitors, guestRevert(v)
        PROVE  page' \in [Visitors -> Page \cup {None}] /\ \A u \in Visitors : PageRow(u)
    <3> DEFINE x == [page[v] EXCEPT !.undone = TRUE]
    <3>1. page[v] \in Page /\ Visiting(v) /\ page' = [page EXCEPT ![v] = x] /\ page'[v] = x
      BY <2>2 DEF guestRevert, Visiting, GuestTypeOK
    <3>2. x \in Page
      BY <3>1, Zenon DEF Page
    <3>3. x.token = page[v].token /\ x.grant = page[v].grant /\ x.permit = page[v].permit
      BY <3>1 DEF Page
    <3> HIDE DEF x
    <3>4. PageRow(v)
      BY <3>1, <3>3 DEF PageRow
    <3> QED BY <1>2, <3>1, <3>2, <3>4
  <2>3. ASSUME NEW v \in Visitors, NEW what \in Cars \cup Plates, Book(v, what)
        PROVE  page' \in [Visitors -> Page \cup {None}] /\ \A u \in Visitors : PageRow(u)
    <3> DEFINE x == [page[v] EXCEPT !.booking = given.b + 1]
    <3>1. page[v] \in Page /\ Visiting(v) /\ page' = [page EXCEPT ![v] = x] /\ page'[v] = x
      BY <2>3 DEF Book, Visiting, GuestTypeOK
    <3>2. given.b + 1 \in 0..MaxBookings
      BY <2>3, Bounds DEF Book, Inserted, Given
    <3>3. x \in Page
      BY <3>1, <3>2, Zenon DEF Page
    <3>4. x.token = page[v].token /\ x.grant = page[v].grant /\ x.permit = page[v].permit
      BY <3>1 DEF Page
    <3> HIDE DEF x
    <3>5. PageRow(v)
      BY <3>1, <3>4 DEF PageRow
    <3> QED BY <1>2, <3>1, <3>3, <3>5
  <2>4. ASSUME NEW v \in Visitors, guestClear(v) \/ Leave(v) \/ \E x \in Plates : Ask(v, x)
        PROVE  page' \in [Visitors -> Page \cup {None}] /\ \A u \in Visitors : PageRow(u)
    BY <1>2, <2>4 DEF guestClear, Leave, Ask
  <2> QED BY <1>7, <2>1, <2>2, <2>3, <2>4 DEF GuestVisits
<1> QED BY <1>3, <1>4, <1>5, <1>6, <1>7

\* The decisions: a member goes on with what they hold, tags it with a link of its grant,
\* books for it, begins anew with a request that waits, or has nothing in hand.
Same(m) ==
  /\ decider'[m].request = decider[m].request /\ decider'[m].grant = decider[m].grant
  /\ decider'[m].on = decider[m].on

GoesOn(m) ==
  /\ Same(m) /\ decider'[m].booking = decider[m].booking
  /\ (decider'[m].pc = "idle") <=> (decider[m].pc = "idle")
  /\ HoldsBooking(m)' <=> HoldsBooking(m)
  /\ \/ decider'[m].token = decider[m].token
     \/ /\ decider[m].pc # "idle" /\ Still
        /\ decider'[m].token = 0 \/ decider'[m].token \in TokensOf({decider[m].grant})

EntersUpon(m) ==
  /\ Still /\ requests' = requests /\ bookings' = bookings
  /\ \E r \in DOMAIN requests : decider'[m] = [pc |-> "looked", request |-> r, grant |-> requests[r].grant,
       on |-> requests[r].permit, token |-> 0, booking |-> 0]

HasBooked(m) ==
  /\ Still /\ Same(m) /\ decider'[m].token = decider[m].token
  /\ decider[m].pc = "tagged" /\ decider'[m].pc = "booked"
  /\ decider'[m].booking = given.b + 1 /\ given'.b = given.b + 1
  /\ given.b + 1 \in DOMAIN bookings' /\ bookings'[given.b + 1].request = decider[m].request
  /\ \A n \in Members \ {m} : decider'[n] = decider[n]

DeciderRow(m) == decider'[m] = Idle \/ GoesOn(m) \/ EntersUpon(m) \/ HasBooked(m)

LEMMA DeciderRows ==
  ASSUME GuestTypeOK, GivenOut, Given, DecidersKnow,
         Edits \/ GuestVisits \/ DeciderStep \/ GuestTime \/ UNCHANGED guestVars
  PROVE  decider' \in [Members -> Decision] /\ \A m \in Members : DeciderRow(m)
<1>d. decider \in [Members -> Decision] /\ Idle \in Decision
  BY Bounds DEF DecidersKnow, Decision, Idle
<1>1. CASE decider' = decider
  BY <1>1, <1>d DEF DeciderRow, GoesOn, Same, HoldsBooking
<1>2. ASSUME NEW m \in Members, NEW x \in Decision, decider' = [decider EXCEPT ![m] = x],
             DeciderRow(m)
      PROVE  decider' \in [Members -> Decision] /\ \A n \in Members : DeciderRow(n)
  <2>1. \A n \in Members \ {m} : decider'[n] = decider[n]
    BY <1>2, <1>d
  <2> QED BY <1>2, <1>d, <2>1 DEF DeciderRow, GoesOn, Same, HoldsBooking
<1>3. ASSUME NEW m \in Members, decider' = [decider EXCEPT ![m] = Idle]
      PROVE  decider' \in [Members -> Decision] /\ \A n \in Members : DeciderRow(n)
  <2>1. DeciderRow(m)
    BY <1>3, <1>d DEF DeciderRow
  <2> QED BY <1>2, <1>3, <1>d, <2>1
<1>4. ASSUME NEW m \in Members, NEW pc \in {"decided", "undo"}, decider' = [decider EXCEPT ![m].pc = pc],
             decider[m].pc = "booked"
      PROVE  decider' \in [Members -> Decision] /\ \A n \in Members : DeciderRow(n)
  <2> DEFINE x == [decider[m] EXCEPT !.pc = pc]
  <2>1. decider' = [decider EXCEPT ![m] = x] /\ decider'[m] = x
    BY <1>4, <1>d
  <2>2. /\ x \in Decision /\ x.pc = pc /\ x.request = decider[m].request /\ x.grant = decider[m].grant
        /\ x.on = decider[m].on /\ x.booking = decider[m].booking /\ x.token = decider[m].token
    BY <1>d DEF Decision
  <2> HIDE DEF x
  <2>3. GoesOn(m)
    BY <1>4, <2>1, <2>2 DEF GoesOn, Same, HoldsBooking
  <2> QED BY <1>2, <2>1, <2>2, <2>3 DEF DeciderRow
<1>5. CASE Edits \/ GuestVisits
  BY <1>1, <1>5 DEF Edits, CreatePass, CreatePicker, Replace, NarrowGrant, UpdatePicker, AddGuestToken,
     ResetGuestToken, RevokeGuestToken, Withdraw, PauseGuests, ResumeGuests, MoveGuestGrants, CopySchedule,
     DeletePermit, DeleteVehicle, people, GuestVisits, Open, guestRevert, guestClear, DeleteGuestOverrides, Leave,
     Book, Ask
<1>6. CASE GuestTime \/ UNCHANGED guestVars
  <2>1. CASE GuestRestart
    BY <1>d, <2>1 DEF GuestRestart, DeciderRow
  <2>2. CASE ~GuestRestart
    BY <1>1, <1>6, <2>2 DEF GuestTime, PermitLapses, BookingEnds, CodeExpires, RequestExpires, RequestPurged,
       NameForgotten, people, guestVars
  <2> QED BY <2>1, <2>2
<1>7. CASE DeciderStep
  <2>1. ASSUME NEW m \in Members, NEW r \in DOMAIN requests, Look(m, r)
        PROVE  decider' \in [Members -> Decision] /\ \A n \in Members : DeciderRow(n)
    <3> DEFINE x == [pc |-> "looked", request |-> r, grant |-> requests[r].grant,
                     on |-> requests[r].permit, token |-> 0, booking |-> 0]
    <3>1. decider' = [decider EXCEPT ![m] = x] /\ Still /\ requests' = requests /\ bookings' = bookings
      BY <2>1 DEF Look, Still, rows, house
    <3>2. r \in 1..MaxRequests /\ requests[r] \in Request
      BY DEF GuestTypeOK
    <3>3. x \in Decision
      BY <3>2, Bounds DEF Decision, Request
    <3>4. EntersUpon(m)
      BY <3>1, <1>d DEF EntersUpon
    <3> QED BY <1>2, <3>1, <3>3, <3>4 DEF DeciderRow
  <2>2. ASSUME NEW m \in Members, NEW yes \in BOOLEAN, Tag(m, yes)
        PROVE  decider' \in [Members -> Decision] /\ \A n \in Members : DeciderRow(n)
    <3> DEFINE ts == TokensOf({decider[m].grant})
               t == IF yes /\ ts # {} THEN CHOOSE t \in ts : \A u \in ts : u <= t ELSE 0
               one == [decider[m] EXCEPT !.pc = "tagged"]
               x == [one EXCEPT !.token = t]
    <3>1. decider[m].pc = "looked" /\ Still
      BY <2>2 DEF Tag, Still, rows, house
    <3>2. ts \in SUBSET (0..MaxTokens)
      BY Bounds DEF TokensOf, GuestTypeOK
    <3>3. t = 0 \/ t \in ts
      <4> HIDE DEF ts
      <4>1. CASE yes /\ ts # {}
        BY <3>2, <4>1, Newest, Bounds
      <4>2. CASE ~(yes /\ ts # {})
        BY <4>2
      <4> QED BY <4>1, <4>2
    <3>4. t \in 0..MaxTokens
      <4>1. 0 \in 0..MaxTokens /\ \A u \in ts : u \in 0..MaxTokens
        BY <3>2, Bounds
      <4> HIDE DEF t, ts
      <4> QED BY <3>3, <4>1, Zenon
    <3>5. decider' = [decider EXCEPT ![m].pc = "tagged", ![m].token = t]
      BY <2>2 DEF Tag
    <3>5a. t = 0 \/ t \in TokensOf({decider[m].grant})
      BY <3>3
    <3> HIDE DEF t, ts
    <3>6. /\ one \in Decision /\ one.pc = "tagged" /\ one.request = decider[m].request
          /\ one.grant = decider[m].grant /\ one.on = decider[m].on /\ one.booking = decider[m].booking
      BY <1>d DEF Decision
    <3>7. decider' = [decider EXCEPT ![m] = x]
      BY <1>d, <3>5
    <3> HIDE DEF one
    <3>8. /\ x \in Decision /\ x.pc = "tagged" /\ x.request = decider[m].request /\ x.token = t
          /\ x.grant = decider[m].grant /\ x.on = decider[m].on /\ x.booking = decider[m].booking
      BY <3>4, <3>6 DEF Decision
    <3>9. decider'[m] = x
      BY <1>d, <3>7
    <3> HIDE DEF x
    <3>10. GoesOn(m)
      BY <3>1, <3>5a, <3>8, <3>9 DEF GoesOn, Same, HoldsBooking
    <3> QED BY <1>2, <3>7, <3>8, <3>10 DEF DeciderRow
  <2>3. ASSUME NEW m \in Members, NEW c \in Plates, BookFor(m, c)
        PROVE  decider' \in [Members -> Decision] /\ \A n \in Members : DeciderRow(n)
    <3> DEFINE one == [decider[m] EXCEPT !.pc = "booked"]
               x == [one EXCEPT !.booking = given.b + 1]
    <3>1. decider[m].pc = "tagged" /\ Still
          /\ decider' = [decider EXCEPT ![m].pc = "booked", ![m].booking = given.b + 1]
      BY <2>3 DEF BookFor, Still, house
    <3>2. /\ given'.b = given.b + 1 /\ given.b + 1 \in 0..MaxBookings
          /\ given.b + 1 \in DOMAIN bookings' /\ bookings'[given.b + 1].request = decider[m].request
      BY <2>3, Bounds DEF BookFor, Inserted, Put, Given
    <3>3. /\ one \in Decision /\ one.pc = "booked" /\ one.request = decider[m].request
          /\ one.grant = decider[m].grant /\ one.on = decider[m].on /\ one.token = decider[m].token
      BY <1>d DEF Decision
    <3>4. decider' = [decider EXCEPT ![m] = x]
      BY <1>d, <3>1
    <3> HIDE DEF one
    <3>5. /\ x \in Decision /\ x.pc = "booked" /\ x.request = decider[m].request /\ x.token = decider[m].token
          /\ x.grant = decider[m].grant /\ x.on = decider[m].on /\ x.booking = given.b + 1
      BY <3>2, <3>3 DEF Decision
    <3>6. decider'[m] = x /\ \A n \in Members \ {m} : decider'[n] = decider[n]
      BY <1>d, <3>4
    <3> HIDE DEF x
    <3>7. HasBooked(m)
      BY <3>1, <3>2, <3>5, <3>6 DEF HasBooked, Same
    <3> QED BY <1>2, <3>4, <3>5, <3>7 DEF DeciderRow
  <2>4. ASSUME NEW m \in Members, Approve(m) \/ ApproveFails(m)
        PROVE  decider' \in [Members -> Decision] /\ \A n \in Members : DeciderRow(n)
    BY <1>4, <2>4 DEF Approve, ApproveFails
  <2>5. ASSUME NEW m \in Members, \/ BookRefused(m) \/ \E yes \in BOOLEAN : Undo(m, yes)
                                  \/ \E yes, done \in BOOLEAN : Gate(m, yes, done)
        PROVE  decider' \in [Members -> Decision] /\ \A n \in Members : DeciderRow(n)
    BY <1>3, <2>5 DEF BookRefused, Undo, Gate
  <2>6. ASSUME NEW m \in Members, NEW r \in DOMAIN requests, Deny(m, r)
        PROVE  decider' \in [Members -> Decision] /\ \A n \in Members : DeciderRow(n)
    BY <1>1, <2>6 DEF Deny, people
  <2> QED BY <1>7, <2>1, <2>2, <2>3, <2>4, <2>5, <2>6 DEF DeciderStep
<1> QED BY <1>5, <1>6, <1>7

\* What a stop or a failed roll-back strands is a booking somebody had in hand.
LEMMA StrandedStep ==
  ASSUME Edits \/ GuestVisits \/ DeciderStep \/ GuestTime \/ UNCHANGED guestVars
  PROVE  /\ \A s \in stranded : s \in stranded'
         /\ \A s \in stranded' : s \in stranded \/ \E m \in Members : s = decider[m].booking
<1>1. CASE stranded' = stranded
  BY <1>1
<1>2. CASE Edits \/ GuestVisits
  BY <1>1, <1>2 DEF Edits, CreatePass, CreatePicker, Replace, NarrowGrant, UpdatePicker, AddGuestToken,
     ResetGuestToken, RevokeGuestToken, Withdraw, PauseGuests, ResumeGuests, MoveGuestGrants, CopySchedule,
     DeletePermit, DeleteVehicle, people, GuestVisits, Open, guestRevert, guestClear, DeleteGuestOverrides, Leave,
     Book, Ask
<1>3. CASE DeciderStep
  BY <1>1, <1>3 DEF DeciderStep, Deny, Look, BookFor, BookRefused, Approve, ApproveFails, Tag, Undo, Gate, people
<1>4. CASE GuestTime \/ UNCHANGED guestVars
  BY <1>1, <1>4 DEF GuestTime, PermitLapses, BookingEnds, CodeExpires, RequestExpires, RequestPurged,
     NameForgotten, GuestRestart, people, guestVars
<1> QED BY <1>2, <1>3, <1>4

\* The roster only shrinks, and the switch is a switch.
LEMMA HouseStep ==
  ASSUME GuestTypeOK, Edits \/ GuestVisits \/ DeciderStep \/ GuestTime \/ UNCHANGED guestVars
  PROVE  roster' \subseteq Cars /\ guestsOn' \in BOOLEAN
<1>1. roster \subseteq Cars /\ guestsOn \in BOOLEAN
  BY Zenon DEF GuestTypeOK
<1>2. roster' \subseteq roster
  <2>1. CASE Edits \/ GuestVisits
    BY <2>1 DEF Edits, CreatePass, CreatePicker, Replace, NarrowGrant, UpdatePicker, AddGuestToken,
     ResetGuestToken, RevokeGuestToken, Withdraw, PauseGuests, ResumeGuests, MoveGuestGrants, CopySchedule,
     DeletePermit, DeleteVehicle, house, GuestVisits, Open, guestRevert, guestClear, DeleteGuestOverrides, Leave,
     Book, Ask
  <2>2. CASE DeciderStep
    BY <2>2 DEF DeciderStep, Deny, Look, BookFor, BookRefused, Approve, ApproveFails, Tag, Undo, Gate, house
  <2>3. CASE GuestTime \/ UNCHANGED guestVars
    BY <2>3 DEF GuestTime, PermitLapses, BookingEnds, CodeExpires, RequestExpires, RequestPurged,
     NameForgotten, GuestRestart, house, guestVars
  <2> QED BY <2>1, <2>2, <2>3
<1>3. guestsOn' = guestsOn \/ guestsOn' = TRUE \/ guestsOn' = FALSE
  <2>1. CASE Edits
    BY <2>1 DEF Edits, CreatePass, CreatePicker, Replace, NarrowGrant, UpdatePicker, AddGuestToken,
     ResetGuestToken, RevokeGuestToken, Withdraw, PauseGuests, ResumeGuests, MoveGuestGrants, CopySchedule,
     DeletePermit, DeleteVehicle, house
  <2>2. CASE GuestVisits \/ DeciderStep
    BY <2>2 DEF DeciderStep, Deny, Look, BookFor, BookRefused, Approve, ApproveFails, Tag, Undo, Gate, house,
       GuestVisits, Open, guestRevert, guestClear, DeleteGuestOverrides, Leave, Book, Ask
  <2>3. CASE GuestTime \/ UNCHANGED guestVars
    BY <2>3 DEF GuestTime, PermitLapses, BookingEnds, CodeExpires, RequestExpires, RequestPurged,
     NameForgotten, GuestRestart, house, guestVars
  <2> QED BY <2>1, <2>2, <2>3
<1> QED BY <1>1, <1>2, <1>3, Zenon

LEMMA GuestTyped ==
  ASSUME GuestTypeOK, Given, GivenOut, DecidersKnow,
         Edits \/ GuestVisits \/ DeciderStep \/ GuestTime \/ UNCHANGED guestVars
  PROVE  GuestTypeOK' /\ Given'
<1>1. Given'
  BY NextIds DEF GivenStep, Given
<1>2. \A g \in DOMAIN grants' : g \in 1..MaxGrants /\ grants'[g] \in Grant
  BY GrantRows DEF GrantRow
<1>3. \A t \in DOMAIN tokens' : t \in 1..MaxTokens /\ tokens'[t] \in Token
  BY TokenRows DEF TokenRow
<1>4. \A b \in DOMAIN bookings' : b \in 1..MaxBookings /\ bookings'[b] \in Booking
  BY BookingRows DEF BookingRow
<1>5. \A r \in DOMAIN requests' : r \in 1..MaxRequests /\ requests'[r] \in Request
  BY RequestRows DEF RequestRow
<1>6. standing' \in [Permits -> {"valid", "lapsed", "gone"}]
  <2>1. CASE Permits = {}
    <3>1. standing' = standing
      <4>1. CASE Edits \/ GuestVisits
        BY <2>1, <4>1 DEF Edits, CreatePass, CreatePicker, Replace, NarrowGrant, UpdatePicker, AddGuestToken,
           ResetGuestToken, RevokeGuestToken, Withdraw, PauseGuests, ResumeGuests, DeleteVehicle, house, GuestVisits,
           Open, guestRevert, guestClear, DeleteGuestOverrides, Leave, Book, Ask
      <4>2. CASE DeciderStep \/ GuestTime \/ UNCHANGED guestVars
        BY <2>1, <4>2 DEF DeciderStep, Deny, Look, BookFor, BookRefused, Approve, ApproveFails, Tag, Undo, Gate,
           house, GuestTime, BookingEnds, CodeExpires, RequestExpires, RequestPurged, NameForgotten,
           GuestRestart, guestVars
      <4> QED BY <4>1, <4>2
    <3> QED BY <3>1 DEF GuestTypeOK
  <2>2. CASE Permits # {}
    BY <2>2, StandingStep
  <2> QED BY <2>1, <2>2
<1>7. page' \in [Visitors -> Page \cup {None}]
  BY PageRows
<1>8. \A m \in Members : decider'[m].pc \in {"idle", "looked", "tagged", "booked", "decided", "undo"}
  BY DeciderRows DEF Decision
<1>9. roster' \subseteq Cars /\ guestsOn' \in BOOLEAN
  BY HouseStep
<1> QED BY <1>1, <1>2, <1>3, <1>4, <1>5, <1>6, <1>7, <1>8, <1>9, Zenon DEF GuestTypeOK

\* A key that is out stays given by the household.
LEMMA GivenOutStays ==
  ASSUME GuestTypeOK, Given, GivenOut, DecidersKnow,
         Edits \/ GuestVisits \/ DeciderStep \/ GuestTime \/ UNCHANGED guestVars
  PROVE  GivenOut'
<1>g. /\ given.g \in Nat /\ given.t \in Nat /\ given.b \in Nat /\ given.r \in Nat
      /\ given'.g \in Nat /\ given'.t \in Nat /\ given'.b \in Nat /\ given'.r \in Nat
      /\ given.g <= given'.g /\ given.t <= given'.t /\ given.b <= given'.b /\ given.r <= given'.r
  BY NextIds, Bounds DEF GivenStep, Given
<1>1. \A g \in DOMAIN grants' : g <= given'.g
  BY GrantRows DEF GrantRow
<1>2. \A t \in DOMAIN tokens' : t <= given'.t /\ tokens'[t].grant \in DOMAIN grants'
  BY TokenRows DEF TokenRow
<1>3. \A b \in DOMAIN bookings' : b <= given'.b /\ bookings'[b].token <= given'.t /\ bookings'[b].request <= given'.r
  BY BookingRows DEF BookingRow
<1>4. \A r \in DOMAIN requests' : r <= given'.r /\ requests'[r].grant \in DOMAIN grants'
  BY RequestRows DEF RequestRow
<1>5. ASSUME NEW v \in Visitors, Visiting(v)' PROVE page'[v].token <= given'.t /\ page'[v].grant <= given'.g
  <2>1. PageRow(v)
    BY PageRows
  <2>2. CASE Visiting(v) /\ page'[v].token = page[v].token /\ page'[v].grant = page[v].grant
    <3>1. page[v].token <= given.t /\ page[v].grant <= given.g /\ page[v].token \in Nat /\ page[v].grant \in Nat
      BY <2>2, Bounds DEF GivenOut, GuestTypeOK, Page, Visiting
    <3> QED BY <1>g, <2>2, <3>1
  <2>3. CASE Still /\ page'[v].token \in DOMAIN tokens /\ page'[v].grant = tokens[page'[v].token].grant
    <3>1. page'[v].token \in DOMAIN tokens' /\ page'[v].grant \in DOMAIN grants'
      BY <2>3 DEF Still, GivenOut
    <3> QED BY <1>1, <1>2, <3>1
  <2> QED BY <1>5, <2>1, <2>2, <2>3 DEF PageRow
<1>6. ASSUME NEW s \in stranded' PROVE s \in Nat /\ s <= given'.b
  <2>1. s \in stranded \/ \E m \in Members : s = decider[m].booking
    BY StrandedStep
  <2>2. \A m \in Members : decider[m].booking \in Nat /\ decider[m].booking <= given.b
    BY Bounds DEF DecidersKnow, Knows, Decision
  <2> QED BY <1>g, <2>1, <2>2 DEF GivenOut
<1> QED BY <1>1, <1>2, <1>3, <1>4, <1>5, <1>6 DEF GivenOut

\* A link and a grant that somebody holds stay together, and on their permit while it is in force.
LEMMA HeldStep ==
  ASSUME GuestTypeOK, Given, GivenOut,
         Edits \/ GuestVisits \/ DeciderStep \/ GuestTime \/ UNCHANGED guestVars,
         NEW t \in Nat, NEW g \in Nat, NEW p \in Permits, t <= given.t, g <= given.g, OnItsPermit(t, g, p)
  PROVE  OnItsPermit(t, g, p)'
<1>g. given.g \in Nat /\ given.t \in Nat
  BY Bounds DEF Given
<1>1. ASSUME t \in DOMAIN tokens' PROVE tokens'[t].grant = g
  <2>1. TokenRow(t)
    BY <1>1, TokenRows
  <2> QED BY <1>g, <2>1 DEF TokenRow, OnItsPermit
<1>2. ASSUME standing'[p] = "valid", g \in DOMAIN grants' PROVE grants'[g].permit = p
  <2>1. GrantRow(g) /\ standing[p] = "valid"
    BY <1>2, GrantRows, StandingStep
  <2> QED BY <1>g, <2>1 DEF GrantRow, OnItsPermit
<1> QED BY <1>1, <1>2 DEF OnItsPermit

\* What a member holds on to is still so after a step that leaves their decision where it is.
LEMMA StillKnows ==
  ASSUME GuestTypeOK, Given, GivenOut, DecidersKnow,
         Edits \/ GuestVisits \/ DeciderStep \/ GuestTime \/ UNCHANGED guestVars, NEW m \in Members
  PROVE  Knows(m)'
<1>g. /\ given.g \in Nat /\ given.t \in Nat /\ given.b \in Nat /\ given.r \in Nat
      /\ given'.g \in Nat /\ given'.t \in Nat /\ given'.b \in Nat /\ given'.r \in Nat
      /\ given.g <= given'.g /\ given.t <= given'.t /\ given.b <= given'.b /\ given.r <= given'.r
  BY NextIds, Bounds DEF GivenStep, Given
<1>d. /\ decider[m].request \in Nat /\ decider[m].grant \in Nat /\ decider[m].token \in Nat
      /\ decider[m].booking \in Nat /\ Knows(m)
  BY Bounds DEF DecidersKnow, Decision
<1>t. \A b \in DOMAIN bookings' : 0 < b /\ (b \in DOMAIN bookings => bookings'[b] = bookings[b])
                                        /\ (b \notin DOMAIN bookings => given.b < b)
  BY BookingRows, Bounds DEF BookingRow
<1>1. DeciderRow(m) /\ decider'[m] \in Decision
  BY DeciderRows
<1>2. CASE decider'[m] = Idle
  BY <1>2, <1>g, <1>t DEF Knows, HoldsBooking, Idle
<1>3. CASE GoesOn(m)
  <2>1. decider'[m].token = decider[m].token \/ decider'[m].token = 0
          \/ (decider'[m].token \in DOMAIN tokens)
    BY <1>3 DEF GoesOn, TokensOf
  <2>2. decider'[m].token \in Nat /\ decider'[m].token <= given.t
    BY <1>g, <1>d, <2>1, Bounds DEF Knows, GivenOut, GuestTypeOK
  <2>3. decider'[m].booking \in DOMAIN bookings'
          => bookings'[decider'[m].booking].request = decider'[m].request
    BY <1>3, <1>d, <1>t, <1>g DEF GoesOn, Same, Knows
  <2>4. HoldsBooking(m)' <=> decider'[m].booking # 0
    BY <1>3, <1>d DEF GoesOn, Knows
  <2>5. decider'[m].pc # "idle" => decider'[m].on \in Permits
    BY <1>3, <1>d DEF GoesOn, Same, Knows
  <2>6. decider'[m].request <= given'.r /\ decider'[m].grant <= given'.g /\ decider'[m].booking <= given'.b
    BY <1>3, <1>d, <1>g DEF GoesOn, Same, Knows
  <2> QED BY <1>g, <2>2, <2>3, <2>4, <2>5, <2>6 DEF Knows
<1>4. CASE EntersUpon(m)
  <2>1. PICK r \in DOMAIN requests : decider'[m] = [pc |-> "looked", request |-> r, grant |-> requests[r].grant,
       on |-> requests[r].permit, token |-> 0, booking |-> 0]
    BY <1>4 DEF EntersUpon
  <2>2. r <= given.r /\ r \in Nat /\ requests[r].grant <= given.g /\ requests[r].grant \in Nat /\ requests[r].permit \in Permits
    BY <1>g, Bounds DEF GivenOut, GuestTypeOK, Request
  <2> QED BY <1>g, <1>t, <2>1, <2>2 DEF Knows, HoldsBooking
<1>5. CASE HasBooked(m)
  BY <1>5, <1>g, <1>d DEF HasBooked, Same, Knows, HoldsBooking
<1> QED BY <1>1, <1>2, <1>3, <1>4, <1>5 DEF DeciderRow

\* Who decides goes on knowing what they decide.
LEMMA DecidersStay ==
  ASSUME GuestTypeOK, Given, GivenOut, DecidersKnow,
         Edits \/ GuestVisits \/ DeciderStep \/ GuestTime \/ UNCHANGED guestVars
  PROVE  DecidersKnow'
<1>1. decider' \in [Members -> Decision] /\ \A m \in Members : DeciderRow(m) /\ Knows(m)'
  BY DeciderRows, StillKnows
<1>2. ASSUME NEW m \in Members, NEW n \in Members, HoldsBooking(m)', decider'[n].booking = decider'[m].booking
      PROVE  m = n
  <2>g. given.b \in Nat /\ decider[n].booking \in Nat /\ decider[m].booking \in Nat
        /\ decider[n].booking <= given.b /\ decider[m].booking <= given.b
    BY Bounds DEF Given, DecidersKnow, Knows, Decision
  <2>1. decider'[m].booking # 0 /\ HoldsBooking(n)'
    BY <1>1, <1>2 DEF Knows
  <2>2. ASSUME NEW k \in Members, HoldsBooking(k)' PROVE (GoesOn(k) /\ HoldsBooking(k)) \/ HasBooked(k)
    BY <1>1, <2>2 DEF DeciderRow, Idle, HoldsBooking, EntersUpon, GoesOn
  <2>3. CASE HasBooked(m)
    BY <1>2, <2>1, <2>g, <2>3 DEF HasBooked
  <2>4. CASE HasBooked(n)
    <3>1. m # n => decider'[m] = decider[m]
      BY <2>4 DEF HasBooked
    <3>2. decider'[n].booking = given.b + 1
      BY <2>4 DEF HasBooked
    <3>3. decider'[m].booking = given.b + 1
      BY <1>2, <3>2
    <3>4. m # n => given.b + 1 <= given.b
      BY <2>g, <3>1, <3>3
    <3> QED BY <2>g, <3>4
  <2>5. CASE GoesOn(m) /\ HoldsBooking(m) /\ GoesOn(n)
    BY <1>2, <2>5 DEF GoesOn, DecidersKnow
  <2> QED BY <1>2, <2>1, <2>2, <2>3, <2>4, <2>5
<1> QED BY <1>1, <1>2 DEF DecidersKnow

\* What is in place stays in place.
LEMMA InPlaceStays ==
  ASSUME GuestTypeOK, Given, GivenOut, DecidersKnow, InPlace,
         Edits \/ GuestVisits \/ DeciderStep \/ GuestTime \/ UNCHANGED guestVars
  PROVE  InPlace'
<1>g. given.g \in Nat /\ given.t \in Nat
  BY Bounds DEF Given
<1>n. 0 \notin DOMAIN tokens'
  <2>1. \A t \in DOMAIN tokens' : t \in 1..MaxTokens
    BY TokenRows DEF TokenRow
  <2> QED BY <2>1, Bounds
<1>1. ASSUME NEW v \in Visitors, Visiting(v)'
      PROVE  OnItsPermit(page[v].token, page[v].grant, page[v].permit)'
  <2>1. PageRow(v)
    BY PageRows
  <2>2. ASSUME Visiting(v), page'[v].token = page[v].token, page'[v].grant = page[v].grant,
               page'[v].permit = page[v].permit
        PROVE  OnItsPermit(page[v].token, page[v].grant, page[v].permit)'
    <3>1. /\ page[v].token \in Nat /\ page[v].grant \in Nat /\ page[v].permit \in Permits
          /\ page[v].token <= given.t /\ page[v].grant <= given.g
      BY <2>2, Bounds DEF GivenOut, GuestTypeOK, Page, Visiting
    <3>2. OnItsPermit(page[v].token, page[v].grant, page[v].permit)
      BY <2>2 DEF InPlace
    <3> DEFINE t == page[v].token
               g == page[v].grant
               p == page[v].permit
    <3>3. t \in DOMAIN tokens' => tokens'[t].grant = g
      <4> HIDE DEF t, g, p
      <4> QED BY <3>1, <3>2, HeldStep DEF OnItsPermit, t, g, p
    <3>4. standing'[p] = "valid" /\ g \in DOMAIN grants' => grants'[g].permit = p
      <4> HIDE DEF t, g, p
      <4> QED BY <3>1, <3>2, HeldStep DEF OnItsPermit, t, g, p
    <3> QED BY <2>2, <3>3, <3>4 DEF OnItsPermit
  <2>3. ASSUME Still, page'[v].token \in DOMAIN tokens, page'[v].grant = tokens[page'[v].token].grant,
               page'[v].permit = grants[page'[v].grant].permit
        PROVE  OnItsPermit(page[v].token, page[v].grant, page[v].permit)'
    BY <2>3 DEF OnItsPermit, Still
  <2> QED BY <1>1, <2>1, <2>2, <2>3 DEF PageRow
<1>2. ASSUME NEW m \in Members, decider'[m].pc # "idle"
      PROVE  OnItsPermit(decider[m].token, decider[m].grant, decider[m].on)'
  <2>1. DeciderRow(m)
    BY DeciderRows
  <2>d. /\ decider[m].token \in Nat /\ decider[m].grant \in Nat
        /\ decider[m].token <= given.t /\ decider[m].grant <= given.g
        /\ decider[m].pc # "idle" => decider[m].on \in Permits
    BY Bounds DEF DecidersKnow, Knows, Decision
  <2>2. ASSUME Same(m), decider'[m].token = decider[m].token, decider[m].pc # "idle"
        PROVE  OnItsPermit(decider[m].token, decider[m].grant, decider[m].on)'
    <3>1. OnItsPermit(decider[m].token, decider[m].grant, decider[m].on)
      BY <2>2 DEF InPlace
    <3>2. /\ decider[m].token \in DOMAIN tokens' => tokens'[decider[m].token].grant = decider[m].grant
          /\ standing'[decider[m].on] = "valid" /\ decider[m].grant \in DOMAIN grants'
               => grants'[decider[m].grant].permit = decider[m].on
      BY <2>d, <2>2, <3>1, HeldStep DEF OnItsPermit
    <3> QED BY <2>2, <3>2 DEF OnItsPermit, Same
  <2>3. ASSUME Same(m), decider[m].pc # "idle", Still,
               decider'[m].token = 0 \/ decider'[m].token \in TokensOf({decider[m].grant})
        PROVE  OnItsPermit(decider[m].token, decider[m].grant, decider[m].on)'
    <3>1. OnItsPermit(decider[m].token, decider[m].grant, decider[m].on)
      BY <2>3 DEF InPlace
    <3>2. decider'[m].token \in DOMAIN tokens' => tokens'[decider'[m].token].grant = decider[m].grant
      BY <1>n, <2>3 DEF TokensOf, Still
    <3> QED BY <2>3, <3>1, <3>2 DEF OnItsPermit, Same, Still
  <2>4. CASE EntersUpon(m)
    <3>1. PICK r \in DOMAIN requests : decider'[m] = [pc |-> "looked", request |-> r, grant |-> requests[r].grant,
       on |-> requests[r].permit, token |-> 0, booking |-> 0]
      BY <2>4 DEF EntersUpon
    <3>2. decider'[m].token = 0 /\ decider'[m].grant = requests[r].grant /\ decider'[m].on = requests[r].permit
      BY <3>1
    <3>3. OnItsPermit(0, requests[r].grant, requests[r].permit) /\ Still
      BY <2>4 DEF InPlace, EntersUpon
    <3> QED BY <1>n, <3>2, <3>3 DEF OnItsPermit, Still
  <2>5. CASE decider'[m] = Idle
    BY <1>2, <2>5 DEF Idle
  <2>6. CASE GoesOn(m)
    BY <1>2, <2>2, <2>3, <2>6 DEF GoesOn
  <2>7. CASE HasBooked(m)
    BY <2>2, <2>7 DEF HasBooked
  <2> QED BY <2>1, <2>4, <2>5, <2>6, <2>7 DEF DeciderRow
<1>3. ASSUME NEW r \in DOMAIN requests' PROVE OnItsPermit(0, requests[r].grant, requests[r].permit)'
  <2>1. RequestRow(r)
    BY RequestRows
  <2>2. ASSUME NEW g \in Nat, NEW p \in Permits, g <= given.g, requests'[r].grant = g, requests'[r].permit = p,
               standing[p] = "valid" /\ g \in DOMAIN grants => grants[g].permit = p
        PROVE  OnItsPermit(0, requests[r].grant, requests[r].permit)'
    <3>1. standing'[p] = "valid" /\ g \in DOMAIN grants' => grants'[g].permit = p
      <4>1. OnItsPermit(0, g, p)
        BY <2>2 DEF OnItsPermit, GuestTypeOK
      <4>2. standing'[p] = "valid" /\ g \in DOMAIN grants' => grants'[g].permit = p
        BY <1>g, <2>2, <4>1, HeldStep DEF OnItsPermit
      <4> QED BY <4>2
    <3> QED BY <1>n, <2>2, <3>1 DEF OnItsPermit
  <2>3. ASSUME r \in DOMAIN requests, requests'[r].grant = requests[r].grant,
               requests'[r].permit = requests[r].permit
        PROVE  OnItsPermit(0, requests[r].grant, requests[r].permit)'
    <3>1. requests[r].grant \in Nat /\ requests[r].permit \in Permits /\ requests[r].grant <= given.g
      BY <2>3, Bounds DEF GuestTypeOK, Request, GivenOut
    <3>2. standing[requests[r].permit] = "valid" /\ requests[r].grant \in DOMAIN grants
            => grants[requests[r].grant].permit = requests[r].permit
      BY <2>3 DEF InPlace, OnItsPermit
    <3> QED BY <2>2, <2>3, <3>1, <3>2
  <2>4. ASSUME r \in DOMAIN requests, requests'[r].grant = requests[r].grant,
               requests'[r].permit = grants'[requests[r].grant].permit
        PROVE  OnItsPermit(0, requests[r].grant, requests[r].permit)'
    BY <1>n, <2>4 DEF OnItsPermit
  <2>5. ASSUME NEW v \in Visitors, Visiting(v), requests'[r].grant = page[v].grant,
               requests'[r].permit = page[v].permit
        PROVE  OnItsPermit(0, requests[r].grant, requests[r].permit)'
    <3>1. page[v].grant \in Nat /\ page[v].permit \in Permits /\ page[v].grant <= given.g
      BY <2>5, Bounds DEF GivenOut, GuestTypeOK, Page, Visiting
    <3>2. standing[page[v].permit] = "valid" /\ page[v].grant \in DOMAIN grants
            => grants[page[v].grant].permit = page[v].permit
      BY <2>5 DEF InPlace, OnItsPermit
    <3> QED BY <2>2, <2>5, <3>1, <3>2
  <2> QED BY <2>1, <2>3, <2>4, <2>5 DEF RequestRow
<1>4. ASSUME NEW b \in DOMAIN bookings', bookings'[b].token \in DOMAIN tokens'
      PROVE  OnItsPermit(bookings[b].token, tokens[bookings[b].token].grant, bookings[b].permit)'
  <2> DEFINE t == bookings'[b].token
             p == bookings'[b].permit
  <2>1. BookingRow(b) /\ TokenRow(t)
    BY <1>4, BookingRows, TokenRows
  <2>2. ASSUME b \in DOMAIN bookings
        PROVE  standing'[p] = "valid" /\ tokens'[t].grant \in DOMAIN grants' => grants'[tokens'[t].grant].permit = p
    <3>1. t = bookings[b].token /\ p = bookings[b].permit /\ t <= given.t /\ t \in Nat /\ p \in Permits
      BY <2>1, <2>2, Bounds DEF BookingRow, GivenOut, GuestTypeOK, Booking
    <3> HIDE DEF t, p
    <3>2. t \in DOMAIN tokens
      BY <1>g, <2>1, <3>1 DEF TokenRow
    <3>3. tokens'[t].grant = tokens[t].grant /\ tokens[t].grant \in DOMAIN grants /\ tokens[t].grant <= given.g
          /\ tokens[t].grant \in Nat
      BY <2>1, <3>2, Bounds DEF TokenRow, GivenOut, GuestTypeOK, Token
    <3>4. OnItsPermit(t, tokens[t].grant, p)
      BY <2>2, <3>1, <3>2 DEF InPlace
    <3> DEFINE g == tokens[t].grant
    <3>5. g \in Nat /\ g <= given.g /\ OnItsPermit(t, g, p)
      BY <3>3, <3>4
    <3>6. standing'[p] = "valid" /\ g \in DOMAIN grants' => grants'[g].permit = p
      BY <3>1, <3>5, HeldStep DEF OnItsPermit
    <3> QED BY <3>3, <3>6
  <2>3. ASSUME NEW v \in Visitors, Visiting(v), Still, t = page[v].token, p = page[v].permit
        PROVE  standing'[p] = "valid" /\ tokens'[t].grant \in DOMAIN grants' => grants'[tokens'[t].grant].permit = p
    <3>1. OnItsPermit(page[v].token, page[v].grant, page[v].permit)
      BY <2>3 DEF InPlace
    <3> HIDE DEF t, p
    <3> QED BY <2>3, <3>1 , <1>4 DEF OnItsPermit, Still, t
  <2>4. ASSUME NEW m \in Members, decider[m].pc # "idle", Still, t = decider[m].token, p = decider[m].on
        PROVE  standing'[p] = "valid" /\ tokens'[t].grant \in DOMAIN grants' => grants'[tokens'[t].grant].permit = p
    <3>1. OnItsPermit(decider[m].token, decider[m].grant, decider[m].on)
      BY <2>4 DEF InPlace
    <3> HIDE DEF t, p
    <3> QED BY <2>4, <3>1 , <1>4 DEF OnItsPermit, Still, t
  <2>5. t # 0
    BY <1>4, <1>n
  <2>6. standing'[p] = "valid" /\ tokens'[t].grant \in DOMAIN grants' => grants'[tokens'[t].grant].permit = p
    BY <2>1, <2>2, <2>3, <2>4, <2>5 DEF BookingRow, ByVisitor, ByMember
  <2> QED BY <2>6 DEF OnItsPermit
<1> QED BY <1>1, <1>2, <1>3, <1>4 DEF InPlace

------------------------------------------------------------------------------
(* A booking answers to somebody who is let in.                             *)

\* Whoever answers for a link goes on doing so while both rows stay as they are.
LEMMA StillAnswered ==
  ASSUME NEW t \in DOMAIN tokens, NEW u \in Siblings(t), ~tokens[u].revoked,
         t \in DOMAIN tokens', u \in DOMAIN tokens', tokens'[t] = tokens[t], tokens'[u] = tokens[u], guestsOn'
  PROVE  Answered(t)'
<1>1. u \in DOMAIN tokens /\ tokens[u].grant = tokens[t].grant /\ tokens[u].to = tokens[t].to
  BY DEF Siblings, TokensOf
<1>2. u \in Siblings(t)'
  BY <1>1 DEF Siblings, TokensOf
<1>3. ~tokens'[u].revoked
  OBVIOUS
<1> QED BY <1>2, <1>3 DEF Answered

\* The household's own changes: each takes the bookings along with the links it withdraws.
LEMMA AnsweredThroughEdits ==
  ASSUME GuestTypeOK, Given, GivenOut, InPlace, BookingsAnswerTo, Edits,
         NEW b \in DOMAIN bookings, b \in DOMAIN bookings',
         NEW t, t = bookings[b].token, NEW p, p = bookings[b].permit,
         t # 0, standing[p] = "valid"
  PROVE  Answered(t)'
<1>1. t \in DOMAIN tokens /\ guestsOn /\ \E u \in Siblings(t) : ~tokens[u].revoked
  BY DEF BookingsAnswerTo, Answered
<1>2. PICK u \in Siblings(t) : ~tokens[u].revoked
  BY <1>1
<1>3. u \in DOMAIN tokens /\ tokens[u].grant = tokens[t].grant /\ tokens[u].to = tokens[t].to
  BY <1>2 DEF Siblings, TokensOf
<1>4. given.t + 1 \notin DOMAIN tokens
  BY Bounds DEF Given, GivenOut
<1>5. b \in BookedBy(TokensOf({tokens[t].grant})) /\ b \in BookedBy(DOMAIN tokens)
  BY <1>1 DEF BookedBy, TokensOf
<1>6. t \in Siblings(t)
  BY <1>1 DEF Siblings, TokensOf
<1>7. p \in Permits /\ (tokens[t].grant \in DOMAIN grants => grants[tokens[t].grant].permit = p)
  BY <1>1 DEF InPlace, OnItsPermit, GuestTypeOK, Booking
<1>8. ASSUME tokens' = tokens, guestsOn' = guestsOn PROVE Answered(t)'
  BY <1>1, <1>2, <1>3, <1>8, StillAnswered
<1>9. ASSUME t \in DOMAIN tokens', u \in DOMAIN tokens', tokens'[t] = tokens[t], tokens'[u] = tokens[u],
             guestsOn' = guestsOn
      PROVE  Answered(t)'
  BY <1>1, <1>2, <1>9, StillAnswered
<1>10. ASSUME NEW to, NEW g, tokens' = Put(tokens, given.t + 1, [grant |-> g, to |-> to, revoked |-> FALSE]),
              guestsOn' = guestsOn
       PROVE  Answered(t)'
  BY <1>1, <1>3, <1>4, <1>9, <1>10 DEF Put
<1>11. ASSUME NEW gs \in SUBSET DOMAIN grants, DropGrants(gs), tokens[t].grant \notin gs, guestsOn' = guestsOn
       PROVE  Answered(t)'
  BY <1>1, <1>3, <1>9, <1>11 DEF DropGrants, Keep, TokensOf
<1>12. ASSUME \/ \E q \in Permits, cars \in SUBSET Cars : CreatePass(q, cars)
              \/ \E q \in Permits, cars \in SUBSET Cars, all \in BOOLEAN : CreatePicker(q, cars, all)
       PROVE  Answered(t)'
  BY <1>10, <1>12 DEF CreatePass, CreatePicker, CreateGuestGrant, CreatePickerGrant, NewToken, house
<1>13. ASSUME NEW old \in SUBSET DOMAIN grants, NEW kind \in {"screen", "printed"}, NEW q \in Permits,
              Replace(old, kind, q)
       PROVE  Answered(t)'
  <2> DEFINE gone == old \ {g \in old : BookedBy(TokensOf({g})) # {}}
             row == [grant |-> given.g + 1, to |-> "anyone", revoked |-> FALSE]
  <2>1. tokens' = Put(Keep(tokens, DOMAIN tokens \ TokensOf(gone)), given.t + 1, row) /\ guestsOn' = guestsOn
    BY <1>13 DEF Replace, NewToken, house
  <2>2. tokens[t].grant \notin gone
    BY <1>5
  <2> HIDE DEF gone, row
  <2>3. t \in DOMAIN tokens \ TokensOf(gone) /\ u \in DOMAIN tokens \ TokensOf(gone)
    BY <1>1, <1>3, <2>2 DEF TokensOf
  <2> QED BY <1>4, <1>9, <2>1, <2>3 DEF Put, Keep
<1>14. ASSUME NEW g \in DOMAIN grants, NEW cars \in SUBSET Cars, NEW all \in BOOLEAN,
              NarrowGrant(g, cars) \/ UpdatePicker(g, cars, all)
       PROVE  Answered(t)'
  BY <1>8, <1>14 DEF NarrowGrant, UpdatePicker, house
<1>15. ASSUME NEW g \in DOMAIN grants, AddGuestToken(g) PROVE Answered(t)'
  BY <1>10, <1>15 DEF AddGuestToken, house
<1>16. ASSUME NEW g \in DOMAIN grants, ResetGuestToken(g) PROVE Answered(t)'
  <2> DEFINE newest == CHOOSE x \in OfGuest(g) : \A y \in OfGuest(g) : y <= x
  <2>1. /\ tokens' = [x \in DOMAIN tokens |-> IF x \in OfGuest(g)
                        THEN [tokens[x] EXCEPT !.revoked = x # newest] ELSE tokens[x]]
        /\ OfGuest(g) # {} /\ guestsOn' = guestsOn
    BY <1>16 DEF ResetGuestToken, NewLink, Rebind, house
  <2>2. OfGuest(g) \in SUBSET (0..MaxTokens)
    BY Bounds DEF OfGuest, TokensOf, GuestTypeOK
  <2>3. newest \in OfGuest(g)
    BY <2>1, <2>2, Newest, Bounds
  <2>4. \A x \in OfGuest(g) : x \in DOMAIN tokens /\ tokens[x].to = "guest" /\ tokens[x].grant = g
    BY DEF OfGuest, TokensOf
  <2> HIDE DEF newest
  <2>5. CASE t \in OfGuest(g)
    <3> DEFINE n == newest
    <3>1. tokens'[n] = [tokens[n] EXCEPT !.revoked = FALSE]
      <4>1. n \in OfGuest(g) /\ n \in DOMAIN tokens /\ (n # newest) = FALSE
        BY <2>3, <2>4
      <4> QED BY <2>1, <4>1, Zenon
    <3>2. \E r \in BOOLEAN : tokens'[t] = [tokens[t] EXCEPT !.revoked = r]
      BY <1>1, <2>1, <2>5
    <3>3. tokens[n] \in Token /\ tokens[t] \in Token
      BY <1>1, <2>3, <2>4 DEF GuestTypeOK
    <3>4. tokens'[n].revoked = FALSE /\ tokens'[n].grant = g /\ tokens'[n].to = "guest"
      BY <2>3, <2>4, <3>1, <3>3 DEF Token
    <3>5. tokens'[t].grant = g /\ tokens'[t].to = "guest"
      BY <2>4, <2>5, <3>2, <3>3 DEF Token
    <3>6. n \in DOMAIN tokens' /\ t \in DOMAIN tokens'
      BY <1>1, <2>1, <2>3, <2>4
    <3>7. n \in Siblings(t)'
      BY <3>4, <3>5, <3>6 DEF Siblings, TokensOf
    <3>8. ~tokens'[n].revoked
      BY <3>4
    <3> QED BY <1>1, <2>1, <3>6, <3>7, <3>8, Zenon DEF Answered
  <2>6. CASE t \notin OfGuest(g)
    <3>1. u \notin OfGuest(g)
      BY <1>1, <1>3, <2>6 DEF OfGuest, TokensOf
    <3> QED BY <1>1, <1>3, <1>9, <2>1, <2>6, <3>1
  <2> QED BY <2>5, <2>6
<1>17. ASSUME NEW x \in DOMAIN tokens, RevokeGuestToken(x) PROVE Answered(t)'
  <2>1. /\ tokens' = [tokens EXCEPT ![x].revoked = TRUE] /\ guestsOn' = guestsOn
        /\ bookings' = Keep(bookings, DOMAIN bookings \ BookedBy(Siblings(x)))
    BY <1>17 DEF RevokeGuestToken, Sweep, house
  <2>2. t \notin Siblings(x)
    BY <2>1 DEF Keep, BookedBy
  <2>3. x # t /\ x # u
    BY <1>1, <1>2, <1>3, <2>2 DEF Siblings, TokensOf
  <2> QED BY <1>1, <1>3, <1>9, <2>1, <2>3
<1>18. ASSUME NEW gs \in SUBSET DOMAIN grants, Withdraw(gs) PROVE Answered(t)'
  <2>1. t \notin TokensOf(gs)
    BY <1>18 DEF Withdraw, Sweep, Keep, BookedBy
  <2> QED BY <1>1, <1>11, <1>18, <2>1 DEF Withdraw, TokensOf, house
<1>19. CASE PauseGuests
  BY <1>1, <1>5, <1>19 DEF PauseGuests, Sweep, Keep
<1>20. CASE ResumeGuests
  BY <1>1, <1>20 DEF ResumeGuests
<1>21. ASSUME NEW x \in Permits, NEW q \in Permits, MoveGuestGrants(x, q) PROVE Answered(t)'
  <2> DEFINE second == {g \in GrantsWith("picker") \cap OnPermit(x) : GrantsWith("picker") \ OnPermit(x) # {}}
  <2>1. /\ tokens' = Keep(tokens, DOMAIN tokens \ TokensOf(second)) /\ guestsOn' = guestsOn
        /\ bookings' = Keep(bookings, DOMAIN bookings \ BookedBy(TokensOf(second)))
    BY <1>21 DEF MoveGuestGrants, Sweep, house
  <2> HIDE DEF second
  <2>2. t \notin TokensOf(second)
    BY <2>1 DEF Keep, BookedBy
  <2> QED BY <1>1, <1>3, <1>9, <2>1, <2>2 DEF Keep, TokensOf
<1>22. ASSUME NEW x \in Permits, NEW q \in Permits, CopySchedule(x, q) PROVE Answered(t)'
  BY <1>8, <1>22 DEF CopySchedule, house
<1>23. ASSUME NEW x \in Permits, DeletePermit(x) PROVE Answered(t)'
  <2>1. p # x
    BY <1>23 DEF DeletePermit
  <2>2. tokens[t].grant \notin OnPermit(x)
    BY <1>7, <2>1 DEF OnPermit
  <2>3. OnPermit(x) \in SUBSET DOMAIN grants
    BY DEF OnPermit
  <2> QED BY <1>11, <1>23, <2>2, <2>3 DEF DeletePermit
<1>24. ASSUME NEW c \in Cars, DeleteVehicle(c) PROVE Answered(t)'
  BY <1>8, <1>24 DEF DeleteVehicle
<1> QED BY <1>12, <1>13, <1>14, <1>15, <1>16, <1>17, <1>18, <1>19, <1>20, <1>21, <1>22, <1>23, <1>24 DEF Edits

\* Bookings go on answering to a key.
LEMMA AnswersStay ==
  ASSUME GuestTypeOK, Given, GivenOut, DecidersKnow, InPlace, BookingsAnswerTo,
         Edits \/ GuestVisits \/ DeciderStep \/ GuestTime \/ UNCHANGED guestVars
  PROVE  BookingsAnswerTo'
<1> SUFFICES ASSUME NEW b \in DOMAIN bookings', NEW t, t = bookings'[b].token, NEW p, p = bookings'[b].permit,
                    t # 0, standing'[p] = "valid"
             PROVE  Answered(t)'
  BY DEF BookingsAnswerTo
<1>1. BookingRow(b)
  BY BookingRows
<1>2. ASSUME b \notin DOMAIN bookings PROVE Answered(t)'
  <2>1. Still /\ Lives(t)
    BY <1>1, <1>2 DEF BookingRow, ByVisitor, ByMember
  <2> QED BY <2>1 DEF Still, Lives, Answered, Siblings, TokensOf
<1>3. ASSUME b \in DOMAIN bookings PROVE Answered(t)'
  <2>1. t = bookings[b].token /\ p = bookings[b].permit /\ p \in Permits
    BY <1>1, <1>3 DEF BookingRow, GuestTypeOK, Booking
  <2>2. standing[p] = "valid"
    BY <2>1, StandingStep
  <2>3. t \in DOMAIN tokens /\ guestsOn /\ \E u \in Siblings(t) : ~tokens[u].revoked
    BY <1>3, <2>1, <2>2 DEF BookingsAnswerTo, Answered
  <2>4. PICK u \in Siblings(t) : ~tokens[u].revoked
    BY <2>3
  <2>5. u \in DOMAIN tokens /\ t \in DOMAIN tokens
    BY <2>3, <2>4 DEF Siblings, TokensOf
  <2>6. ASSUME tokens' = tokens, guestsOn' = guestsOn PROVE Answered(t)'
    BY <2>3, <2>4, <2>5, <2>6, StillAnswered
  <2>7. CASE Edits
    BY <1>3, <2>1, <2>2, <2>7, AnsweredThroughEdits
  <2>8. CASE GuestVisits \/ DeciderStep \/ UNCHANGED guestVars
    BY <2>6, <2>8 DEF GuestVisits, Open, rows, house, guestRevert, guestClear, DeleteGuestOverrides, Leave, Book, Ask,
     DeciderStep, Deny, Look, BookFor, BookRefused, Approve, ApproveFails, Tag, Undo, Gate, guestVars
  <2>9. CASE GuestTime
    <3>1. ASSUME NEW x \in DOMAIN tokens, NameForgotten(x) PROVE Answered(t)'
      <4>1. /\ tokens' = [tokens EXCEPT ![x].to = "nobody"] /\ guestsOn' = guestsOn
            /\ tokens[x].revoked /\ BookedBy({x}) = {}
        BY <3>1 DEF NameForgotten, house
      <4>2. x # t /\ x # u
        BY <1>3, <2>1, <2>4, <4>1 DEF BookedBy
      <4>3. t \in DOMAIN tokens' /\ u \in DOMAIN tokens' /\ tokens'[t] = tokens[t] /\ tokens'[u] = tokens[u]
        BY <2>5, <4>1, <4>2
      <4> QED BY <2>3, <2>4, <2>5, <4>1, <4>3, StillAnswered
    <3>2. CASE ~\E x \in DOMAIN tokens : NameForgotten(x)
      BY <2>6, <2>9, <3>2 DEF GuestTime, PermitLapses, BookingEnds, CodeExpires, RequestExpires, RequestPurged,
         GuestRestart, rows, house
    <3> QED BY <3>1, <3>2
  <2> QED BY <2>7, <2>8, <2>9
<1> QED BY <1>2, <1>3

------------------------------------------------------------------------------
(* One request at the door puts one car on.                                 *)

\* A booking that is left behind was so before, unless a request has just been approved.
LEMMA LeftStep ==
  ASSUME GuestTypeOK, Given, GivenOut, DecidersKnow,
         Edits \/ GuestVisits \/ DeciderStep \/ GuestTime \/ UNCHANGED guestVars,
         NEW b \in DOMAIN bookings', Left(b)'
  PROVE  /\ b \in DOMAIN bookings /\ bookings'[b] = bookings[b]
         /\ \/ Left(b)
            \/ \E m \in Members : Approve(m) /\ b = decider[m].booking
<1>1. BookingRow(b)
  BY BookingRows
<1>2. b \in DOMAIN bookings /\ bookings'[b] = bookings[b]
  BY <1>1 DEF BookingRow, Left, ByVisitor, ByMember, InHand
<1>3. b \notin stranded
  BY StrandedStep DEF Left
<1>4. ASSUME InHand(b) PROVE \E m \in Members : Approve(m) /\ b = decider[m].booking
  <2>1. PICK m \in Members : decider[m].booking = b /\ decider[m].pc \in {"booked", "undo"}
    BY <1>4 DEF InHand
  <2>2. ASSUME decider' = decider PROVE FALSE
    BY <2>1, <2>2 DEF Left, InHand
  <2>d. decider \in [Members -> Decision]
    BY DEF DecidersKnow
  <2>3. CASE Edits \/ GuestVisits
    BY <2>2, <2>3 DEF Edits, CreatePass, CreatePicker, Replace, NarrowGrant, UpdatePicker, AddGuestToken,
     ResetGuestToken, RevokeGuestToken, Withdraw, PauseGuests, ResumeGuests, MoveGuestGrants, CopySchedule,
     DeletePermit, DeleteVehicle, people, GuestVisits, Open, guestRevert, guestClear, DeleteGuestOverrides, Leave,
     Book, Ask
  <2>4. CASE GuestTime \/ UNCHANGED guestVars
    <3>1. CASE GuestRestart
      <4>1. decider[m].booking \in stranded'
        BY <2>1, <3>1 DEF GuestRestart
      <4> QED BY <2>1, <4>1 DEF Left
    <3>2. CASE ~GuestRestart
      BY <2>2, <2>4, <3>2 DEF GuestTime, PermitLapses, BookingEnds, CodeExpires, RequestExpires, RequestPurged,
         NameForgotten, people, guestVars
    <3> QED BY <3>1, <3>2
  <2>5. ASSUME NEW n \in Members, NEW x, decider' = [decider EXCEPT ![n] = x] PROVE m = n
    BY <2>1, <2>5, <2>d DEF Left, InHand
  <2>6. CASE DeciderStep
    <3>1. ASSUME NEW n \in Members, NEW r \in DOMAIN requests, Deny(n, r) \/ Look(n, r) PROVE FALSE
      <4>1. decider[n].pc = "idle"
        BY <3>1 DEF Deny, Look
      <4>2. decider' = decider \/ \E x : decider' = [decider EXCEPT ![n] = x]
        BY <3>1 DEF Deny, Look, people
      <4> QED BY <2>1, <2>2, <2>5, <4>1, <4>2
    <3>2. ASSUME NEW n \in Members, decider[n].pc \in {"looked", "tagged", "decided"},
                 \A k \in Members \ {n} : decider'[k] = decider[k]
          PROVE  FALSE
      BY <2>1, <3>2 DEF Left, InHand
    <3>3. ASSUME NEW n \in Members, NEW c \in Plates, BookFor(n, c) PROVE FALSE
      <4>1. decider[n].pc = "tagged" /\ \A k \in Members \ {n} : decider'[k] = decider[k]
        BY <2>d, <3>3 DEF BookFor
      <4> QED BY <3>2, <4>1
    <3>4. ASSUME NEW n \in Members, BookRefused(n) PROVE FALSE
      BY <2>d, <3>2, <3>4 DEF BookRefused
    <3>5. ASSUME NEW n \in Members, NEW yes \in BOOLEAN, Tag(n, yes) PROVE FALSE
      <4>1. decider[n].pc = "looked" /\ \A k \in Members \ {n} : decider'[k] = decider[k]
        BY <2>d, <3>5 DEF Tag
      <4> QED BY <3>2, <4>1
    <3>6. ASSUME NEW n \in Members, NEW yes \in BOOLEAN, NEW done \in BOOLEAN, Gate(n, yes, done) PROVE FALSE
      BY <2>d, <3>2, <3>6 DEF Gate
    <3>7. ASSUME NEW n \in Members, ApproveFails(n) PROVE FALSE
      <4>1. decider' = [decider EXCEPT ![n] = [decider[n] EXCEPT !.pc = "undo"]] /\ decider[n].pc = "booked"
        BY <2>d, <3>7 DEF ApproveFails
      <4>2. m = n
        BY <2>5, <4>1
      <4>3. decider'[m].pc = "undo" /\ decider'[m].booking = b
        BY <2>1, <2>d, <4>1, <4>2 DEF Decision
      <4> QED BY <4>3 DEF Left, InHand
    <3>8. ASSUME NEW n \in Members, NEW done \in BOOLEAN, Undo(n, done) PROVE FALSE
      <4>1. m = n
        BY <2>5, <3>8 DEF Undo
      <4>2. done => b \notin DOMAIN bookings'
        BY <2>1, <3>8, <4>1 DEF Undo, DeleteOverride, Keep
      <4>3. ~done => b \in stranded'
        BY <2>1, <3>8, <4>1 DEF Undo
      <4> QED BY <4>2, <4>3 DEF Left
    <3>9. ASSUME NEW n \in Members, Approve(n) PROVE b = decider[n].booking
      <4>1. decider' = [decider EXCEPT ![n] = [decider[n] EXCEPT !.pc = "decided"]]
        BY <2>d, <3>9 DEF Approve
      <4> QED BY <2>1, <2>5, <4>1
    <3> QED BY <2>6, <3>1, <3>3, <3>4, <3>5, <3>6, <3>7, <3>8, <3>9 DEF DeciderStep
  <2> QED BY <2>3, <2>4, <2>6
<1> QED BY <1>2, <1>3, <1>4 DEF Left

\* A request goes on having one car.
LEMMA OneStays ==
  ASSUME GuestTypeOK, Given, GivenOut, DecidersKnow, OnePerRequest,
         Edits \/ GuestVisits \/ DeciderStep \/ GuestTime \/ UNCHANGED guestVars
  PROVE  OnePerRequest'
<1>1. ASSUME NEW m \in Members, Approve(m)
      PROVE  /\ decider[m].request \in DOMAIN requests /\ requests[decider[m].request].st = "pending"
             /\ decider[m].request \in DOMAIN requests' /\ requests'[decider[m].request].st = "approved"
             /\ decider[m].booking \in DOMAIN bookings => bookings[decider[m].booking].request = decider[m].request
  <2>1. /\ decider[m].request \in DOMAIN requests /\ requests[decider[m].request].st = "pending"
        /\ requests' = [requests EXCEPT ![decider[m].request].st = "approved"]
    BY <1>1 DEF Approve, StillPending, IsPending, Settle
  <2>2. requests'[decider[m].request] = [requests[decider[m].request] EXCEPT !.st = "approved"]
    BY <2>1
  <2>3. requests[decider[m].request] \in Request
    BY <2>1 DEF GuestTypeOK
  <2>4. requests'[decider[m].request].st = "approved"
    BY <2>2, <2>3 DEF Request
  <2> QED BY <2>1, <2>4 DEF DecidersKnow, Knows
<1>2. ASSUME NEW m \in Members, NEW n \in Members, Approve(m), Approve(n) PROVE m = n
  <2>1. /\ decider[m].pc = "booked" /\ decider[n].pc = "booked"
        /\ decider' = [decider EXCEPT ![m].pc = "decided"] /\ decider' = [decider EXCEPT ![n].pc = "decided"]
    BY <1>2 DEF Approve
  <2>2. m # n => decider'[m].pc = "decided" /\ decider'[m].pc = "booked"
    BY <2>1 DEF DecidersKnow, Decision
  <2> QED BY <2>2
<1>3. ASSUME NEW b \in DOMAIN bookings', NEW c \in DOMAIN bookings', Left(b)', Left(c)',
             bookings'[b].request = bookings'[c].request
      PROVE  b = c
  <2>1. /\ b \in DOMAIN bookings /\ bookings'[b] = bookings[b]
        /\ Left(b) \/ \E m \in Members : Approve(m) /\ b = decider[m].booking
    BY <1>3, LeftStep
  <2>2. /\ c \in DOMAIN bookings /\ bookings'[c] = bookings[c]
        /\ Left(c) \/ \E m \in Members : Approve(m) /\ c = decider[m].booking
    BY <1>3, LeftStep
  <2>3. CASE Left(b) /\ Left(c)
    BY <1>3, <2>1, <2>2, <2>3 DEF OnePerRequest
  <2>4. ASSUME NEW m \in Members, Approve(m), b = decider[m].booking, Left(c) PROVE FALSE
    BY <1>1, <1>3, <2>1, <2>2, <2>4 DEF OnePerRequest
  <2>5. ASSUME NEW m \in Members, Approve(m), c = decider[m].booking, Left(b) PROVE FALSE
    BY <1>1, <1>3, <2>1, <2>2, <2>5 DEF OnePerRequest
  <2> QED BY <1>2, <2>1, <2>2, <2>3, <2>4, <2>5
<1>4. ASSUME NEW b \in DOMAIN bookings', Left(b)', bookings'[b].request \in DOMAIN requests'
      PROVE  requests'[bookings'[b].request].st = "approved"
  <2>1. /\ b \in DOMAIN bookings /\ bookings'[b] = bookings[b]
        /\ Left(b) \/ \E m \in Members : Approve(m) /\ b = decider[m].booking
    BY <1>4, LeftStep
  <2> DEFINE r == bookings[b].request
  <2>2. RequestRow(r) /\ r <= given.r /\ r \in Nat /\ given.r \in Nat
    BY <1>4, <2>1, RequestRows, Bounds DEF GivenOut, GuestTypeOK, Booking, Given
  <2>3. CASE Left(b)
    <3>1. r \in DOMAIN requests
      <4> HIDE DEF r
      <4> QED BY <2>2 DEF RequestRow
    <3>2. requests[r].st = "approved"
      BY <2>1, <2>3, <3>1 DEF OnePerRequest
    <3> HIDE DEF r
    <3>3. requests'[r].st = "approved"
      BY <2>2, <3>1, <3>2 DEF RequestRow
    <3> QED BY <2>1, <3>3 DEF r
  <2>4. ASSUME NEW m \in Members, Approve(m), b = decider[m].booking
        PROVE  requests'[bookings'[b].request].st = "approved"
    BY <1>1, <2>1, <2>4
  <2> QED BY <2>1, <2>3, <2>4
<1> QED BY <1>3, <1>4 DEF OnePerRequest

------------------------------------------------------------------------------
(* The theorems.                                                            *)

LEMMA GuestStarts == GuestInit => GuestInv
<1> SUFFICES ASSUME GuestInit PROVE GuestInv
  OBVIOUS
<1>1. /\ DOMAIN grants = {} /\ DOMAIN tokens = {} /\ DOMAIN bookings = {} /\ DOMAIN requests = {}
      /\ stranded = {} /\ given = [g |-> 0, t |-> 0, b |-> 0, r |-> 0]
      /\ \A v \in Visitors : page[v] = None
      /\ decider = [m \in Members |-> Idle]
  BY DEF GuestInit
<1>2. GuestTypeOK
  <2>1. /\ standing \in [Permits -> {"valid", "lapsed", "gone"}]
        /\ page \in [Visitors -> Page \cup {None}]
        /\ \A m \in Members : decider[m].pc \in {"idle", "looked", "tagged", "booked", "decided", "undo"}
    BY DEF GuestInit, Idle
  <2>2. guestsOn \in BOOLEAN /\ roster \subseteq Cars
    BY Zenon DEF GuestInit
  <2> QED BY <1>1, <2>1, <2>2, Zenon DEF GuestTypeOK
<1>3. Given /\ GivenOut
  BY <1>1, Bounds DEF Given, GivenOut, Visiting
<1>4. DecidersKnow
  BY <1>1, Bounds DEF DecidersKnow, Decision, Knows, HoldsBooking, Idle
<1>5. InPlace /\ BookingsAnswerTo /\ OnePerRequest
  BY <1>1 DEF InPlace, Visiting, Idle, BookingsAnswerTo, OnePerRequest
<1> QED BY <1>2, <1>3, <1>4, <1>5 DEF GuestInv

\* The invariant goes on.
LEMMA GuestMoves == GuestInv /\ [GuestNext]_guestVars => GuestInv'
<1> SUFFICES ASSUME GuestInv, [GuestNext]_guestVars PROVE GuestInv'
  OBVIOUS
<1>1. Edits \/ GuestVisits \/ DeciderStep \/ GuestTime \/ UNCHANGED guestVars
  BY GuestSteps
<1>2. GuestTypeOK' /\ Given' /\ GivenOut' /\ DecidersKnow'
  BY <1>1, GuestTyped, GivenOutStays, DecidersStay DEF GuestInv
<1>3. InPlace' /\ BookingsAnswerTo' /\ OnePerRequest'
  BY <1>1, InPlaceStays, AnswersStay, OneStays DEF GuestInv
<1> QED BY <1>2, <1>3 DEF GuestInv

\* What the invariant says of the bookings of one request.
LEMMA OneOf == GuestInv => OnlyApprovedIsBooked
<1> SUFFICES ASSUME GuestInv, NEW r \in 1..MaxRequests, BookingsFor(r) # {}
             PROVE  /\ Cardinality(BookingsFor(r)) = 1
                    /\ r \in DOMAIN requests => requests[r].st = "approved"
  BY DEF OnlyApprovedIsBooked
<1>1. PICK b \in BookingsFor(r) : TRUE
  OBVIOUS
<1>2. \A c \in BookingsFor(r) : Left(c) /\ bookings[c].request = r /\ c \in DOMAIN bookings
  BY DEF BookingsFor, Left
<1>3. BookingsFor(r) = {b}
  BY <1>1, <1>2 DEF GuestInv, OnePerRequest
<1>4. Cardinality(BookingsFor(r)) = 1
  BY <1>3, FS_Singleton
<1> QED BY <1>1, <1>2, <1>4 DEF GuestInv, OnePerRequest

\* The invariant holds of every behaviour of the household's links.
LEMMA GuestInvariant == GuestSpec => []GuestInv
BY GuestStarts, GuestMoves, PTL DEF GuestSpec

\* The rows of the four tables, the pages and the decisions are what the code makes of them
\* (store/guests.go, guest_qr.go, guest_picker.go, guest_requests.go).
THEOREM GuestsTyped == GuestSpec => []GuestTypeOK
<1>1. GuestInv => GuestTypeOK
  BY DEF GuestInv
<1> QED BY <1>1, GuestInvariant, PTL

\* However many grants, links, browsers and members there are, and however they interleave,
\* a booking on a permit in force leads to somebody who is still let in
\* (sweepLiveGuestOverrides, createOverrideGuarded, ResetGuestToken).
THEOREM NobodyWithdrawnIsBooked == GuestSpec => []BookingsAnswerTo
<1>1. GuestInv => BookingsAnswerTo
  BY DEF GuestInv
<1> QED BY <1>1, GuestInvariant, PTL

\* However many members decide about a request at once, it leaves one booking, and only
\* if it was approved (runDecideRequest, DecideGuestRequest).
THEOREM OneCarPerRequest == GuestSpec => []OnlyApprovedIsBooked
BY OneOf, GuestInvariant, PTL
==============================================================================
