--------------------------- MODULE ComponentsProofs ---------------------------
(***************************************************************************)
(* The parts side by side: a step of MC_Components is a step of each part  *)
(* or leaves it alone, so what holds of every part holds of them together. *)
(* Here are the invariants of the parts that GuestAccessProofs and         *)
(* PeopleProofs do not treat, and the theorems about all of them.          *)
(***************************************************************************)
EXTENDS MC_Components, GuestAccessProofs, PeopleProofs

------------------------------------------------------------------------------
(* From the whole to a part.                                                *)

allVars ==
  <<guestVars, householdVars, channelVars, noticeVars, fanoutVars, nudgeVars, quietVars,
    scheduleVars, spreadVars, mailVars, councilVars, governorVars, driftVars, alertVars,
    limiterVars, claimVars, webVars, memoVars, part, events>>

\* Every part begins in one of its initial states.
LEMMA PartsStart ==
  MCInit =>
    /\ GuestInit /\ HouseholdInit /\ ChannelInit /\ NoticeInit /\ FanoutInit
    /\ NudgesInit /\ QuietInit /\ ScheduleInit /\ SpreadInit /\ MailInit
    /\ CouncilInit /\ GovernorInit /\ DriftInit /\ AlertInit /\ LimiterInit
    /\ ClaimsInit /\ WebInit /\ MemoInit
BY DEF MCInit

\* A step is a step of a part, or leaves it as it is.
LEMMA PartsMove ==
  [MCNext]_allVars =>
    /\ [GuestNext]_guestVars
    /\ [HouseholdNext]_householdVars
    /\ [ChannelNext]_channelVars
    /\ [NoticeEvent \/ NoticeWork]_noticeVars
    /\ [FanoutEvent \/ FanoutWork]_fanoutVars
    /\ [NudgeEvent \/ NudgeWork]_nudgeVars
    /\ [QuietNext]_quietVars
    /\ [SpreadNext]_spreadVars
    /\ [MailEvent \/ MailWork]_mailVars
    /\ [CouncilNext]_councilVars
    /\ [GovernorNext]_governorVars
    /\ [DriftNext]_driftVars
    /\ [AlertNext]_alertVars
    /\ [LimiterNext]_limiterVars
    /\ [ClaimsNext]_claimVars
    /\ [WebNext]_webVars
    /\ [MemoNext]_memoVars
    /\ [RosterEvent \/ BookingEvent \/ ScheduleWork]_scheduleVars
<1> SUFFICES ASSUME [MCNext]_allVars
             PROVE  /\ [GuestNext]_guestVars
                    /\ [HouseholdNext]_householdVars
                    /\ [ChannelNext]_channelVars
                    /\ [NoticeEvent \/ NoticeWork]_noticeVars
                    /\ [FanoutEvent \/ FanoutWork]_fanoutVars
                    /\ [NudgeEvent \/ NudgeWork]_nudgeVars
                    /\ [QuietNext]_quietVars
                    /\ [SpreadNext]_spreadVars
                    /\ [MailEvent \/ MailWork]_mailVars
                    /\ [CouncilNext]_councilVars
                    /\ [GovernorNext]_governorVars
                    /\ [DriftNext]_driftVars
                    /\ [AlertNext]_alertVars
                    /\ [LimiterNext]_limiterVars
                    /\ [ClaimsNext]_claimVars
                    /\ [WebNext]_webVars
                    /\ [MemoNext]_memoVars
                    /\ [RosterEvent \/ BookingEvent \/ ScheduleWork]_scheduleVars
  OBVIOUS
<1>1. [GuestNext]_guestVars
  BY DEF MCNext, Rest, allVars, GuestNext
<1>2. [HouseholdNext]_householdVars
  BY DEF MCNext, Rest, allVars, HouseholdNext
<1>3. [ChannelNext]_channelVars
  BY DEF MCNext, Rest, allVars
<1>4. [NoticeEvent \/ NoticeWork]_noticeVars
  BY DEF MCNext, Rest, allVars
<1>5. [FanoutEvent \/ FanoutWork]_fanoutVars
  BY DEF MCNext, Rest, allVars
<1>6. [NudgeEvent \/ NudgeWork]_nudgeVars
  BY DEF MCNext, Rest, allVars
<1>7. [QuietNext]_quietVars
  BY DEF MCNext, Rest, allVars
<1>8. [SpreadNext]_spreadVars
  BY DEF MCNext, Rest, allVars
<1>9. [MailEvent \/ MailWork]_mailVars
  BY DEF MCNext, Rest, allVars
<1>10. [CouncilNext]_councilVars
  BY DEF MCNext, Rest, allVars, CouncilNext
<1>11. [GovernorNext]_governorVars
  BY DEF MCNext, Rest, allVars, GovernorNext
<1>12. [DriftNext]_driftVars
  BY DEF MCNext, Rest, allVars
<1>13. [AlertNext]_alertVars
  BY DEF MCNext, Rest, allVars
<1>14. [LimiterNext]_limiterVars
  BY DEF MCNext, Rest, allVars
<1>15. [ClaimsNext]_claimVars
  BY DEF MCNext, Rest, allVars
<1>16. [WebNext]_webVars
  BY DEF MCNext, Rest, allVars, WebNext
<1>17. [MemoNext]_memoVars
  BY DEF MCNext, Rest, allVars
<1>18. [RosterEvent \/ BookingEvent \/ ScheduleWork]_scheduleVars
  BY DEF MCNext, Rest, allVars, RestOfSchedule
<1> QED BY <1>1, <1>2, <1>3, <1>4, <1>5, <1>6, <1>7, <1>8, <1>9, <1>10, <1>11, <1>12, <1>13, <1>14, <1>15, <1>16, <1>17, <1>18
---------------------------------------------------------------------------
(* The households, together.                                                *)

\* What is proved of the parts for people holds wherever the whole can get to.
PeopleInv ==
  /\ GuestInv /\ HouseholdInv /\ ChannelInv /\ NoticeInv /\ FanoutInv /\ WebInv /\ MemoInv

\* ... together, in every reachable state.
LEMMA PeopleInvariant == MCSpec => []PeopleInv
<1>1. MCInit => PeopleInv
  BY PartsStart, GuestStarts, HouseholdStarts, ChannelStarts, NoticeStarts, FanoutStarts,
     WebStarts, MemoStarts, Zenon DEF PeopleInv
<1>2. PeopleInv /\ [MCNext]_allVars => PeopleInv'
  BY PartsMove, GuestMoves, HouseholdSteps, ChannelMoves, NoticeMoves, FanoutMoves, WebMoves,
     MemoMoves, Zenon DEF PeopleInv
<1> QED BY <1>1, <1>2, PTL DEF MCSpec, allVars

\* Whoever works on a household's permits may, for any number of people, browsers and
\* councils: what is shared is never hidden from who shares it (store/accounts.go), a session
\* revoked or over is refused and one in use is not (session/session.go), and the council
\* remembered is the household's (store/tenant.go).
THEOREM EverybodyMay == MCSpec => []AccessAsMeant
<1>1. PeopleInv => SharingHidesNothing
  BY DEF PeopleInv, HouseholdInv
<1>2. PeopleInv => RevokedStaysOut /\ EndsInTime /\ ActiveStaysIn /\ MemoFollows
  BY OldCookiesStayOut, SessionsEnd, VisitorsStay, MemoIsRight DEF PeopleInv
<1>3. PeopleInv => AccessAsMeant
  BY <1>1, <1>2 DEF AccessAsMeant
<1> QED BY <1>3, PeopleInvariant, PTL

\* A notice is never lost on the way to who has to hear it, for any household: one copy to
\* each person, what is recorded as told was told, a notice for everybody reaches all it
\* names, and a channel that is marked as working works (notify/service.go, server/settings.go).
THEOREM NoticesAreHonest == MCSpec => []NoticeHonest
<1>1. PeopleInv => OneCopyEach /\ RecordMeansTold
  BY Zenon DEF PeopleInv, NoticeInv
<1>2. PeopleInv => ToldAsNamed
  BY Zenon DEF PeopleInv, FanoutInv, ToldAsNamed, Served
<1>3. PeopleInv => NeverUnheard
  BY Zenon DEF PeopleInv, ChannelInv, NeverUnheard, Heeded
<1>4. PeopleInv => NoticeHonest
  BY <1>1, <1>2, <1>3 DEF NoticeHonest
<1> QED BY <1>4, PeopleInvariant, PTL

\* Whatever comes between a form and its end, settings go by their owner's or the
\* household's own request, and whoever joins has accepted the offer they were shown
\* (server/account.go, store/accounts.go).
THEOREM MembershipIsShown == MCSpec => MembershipAsShown
<1>1. PeopleInv /\ [MCNext]_allVars =>
        [\A p \in prefs \ prefs' : \E t \in Tabs :
           /\ form[t] # NoForm /\ form'[t] = NoForm
           /\ form[t].who = p \/ member[p] = [of |-> form[t].owner, pending |-> FALSE]]_householdVars
  BY PrefsGoByTheirs, PartsMove DEF PeopleInv
<1>2. PeopleInv /\ [MCNext]_allVars =>
        [\A p \in People : ~Accepted(p) /\ Accepted(p)' =>
           \E t \in Tabs : form[t].step = "read" /\ form[t].who = p /\ member'[p].of = form[t].owner
                           /\ member[p] = [of |-> form[t].owner, pending |-> TRUE]]_householdVars
  BY JoinsByAcceptance, PartsMove DEF PeopleInv
<1> QED
  BY <1>1, <1>2, PeopleInvariant, PTL
     DEF MCSpec, allVars, MembershipAsShown, PrefsAreTheirs, JoinsAsShown
---------------------------------------------------------------------------
(* When grids are read.                                                     *)

\* What has been read lately is not due: a backoff runs, or its checkpoint is fresh and
\* nobody has asked.  While a round is under way no backoff runs.
DriftInv ==
  /\ DriftTypeOK /\ ReadsApart
  /\ round = NoRound => \A k \in lately : rest > 0 \/ (~asap /\ checked[k] < DriftInterval)
  /\ round # NoRound => rest = 0 /\ \A k \in lately : k = round \/ checked[k] < DriftInterval

\* A backoff is never none.
LEMMA BackoffBounds == \A n \in Nat \ {0} : Backoff(n) \in 1..DriftInterval
<1> SUFFICES ASSUME NEW n \in Nat \ {0} PROVE Backoff(n) \in 1..DriftInterval
  OBVIOUS
<1> DEFINE times == Times4[IF n < 5 THEN n ELSE 5]
<1>1. times \in Nat /\ times > 0
  BY DEF Times4
<1>2. FirstRest \in Nat /\ FirstRest > 0 /\ DriftInterval \in Nat /\ DriftInterval > 0
  BY DriftAssumption
<1> HIDE DEF times
<1>3. FirstRest * times \in Nat /\ FirstRest * times > 0
  BY <1>1, <1>2
<1> QED BY <1>2, <1>3 DEF Backoff, times

LEMMA DriftStarts == DriftInit => DriftInv
<1> SUFFICES ASSUME DriftInit PROVE DriftInv
  OBVIOUS
<1>1. checked \in [Councils -> 0..DriftInterval] /\ fails \in 0..MaxFails /\ rest \in 0..DriftInterval
  BY DriftAssumption DEF DriftInit
<1>2. lately = {} /\ round = NoRound /\ asap \in BOOLEAN /\ hasty = FALSE
  BY Zenon DEF DriftInit
<1>3. DriftTypeOK
  BY <1>1, <1>2, Zenon DEF DriftTypeOK
<1> QED BY <1>2, <1>3, Zenon DEF DriftInv, ReadsApart

\* The invariant goes on: a round that is put off takes the reading of its council with it.
LEMMA DriftMoves == DriftInv /\ [DriftNext]_driftVars => DriftInv'
<1> SUFFICES ASSUME DriftInv, [DriftNext]_driftVars PROVE DriftInv'
  OBVIOUS
<1> USE DEF DriftInv, DriftTypeOK, ReadsApart
<1>c. DriftInterval \in Nat /\ DriftInterval > 0 /\ MaxFails \in Nat /\ MaxFails > 0 /\ NoRound \notin Councils
  BY DriftAssumption
<1>1. ASSUME NEW k \in Councils, RoundStarts(k) PROVE DriftInv'
  <2>1. rest = 0 /\ round = NoRound /\ \A j \in lately : j \in Councils /\ ~asap /\ checked[j] < DriftInterval
    BY <1>c, <1>1 DEF RoundStarts, driftDue
  <2>2. k \notin lately
    BY <1>c, <1>1, <2>1 DEF RoundStarts, driftDue
  <2>3. round' = k /\ lately' = lately \cup {k} /\ rest' = 0 /\ checked' = checked /\ k # NoRound /\ fails' = fails
    BY <1>c, <1>1, <2>1 DEF RoundStarts
  <2>4. hasty' = FALSE /\ asap' = asap
    BY <1>1, <2>2, Zenon DEF RoundStarts
  <2>5. DriftTypeOK'
    BY <2>1, <2>3, <2>4, Zenon
  <2> QED BY <2>1, <2>3, <2>4, <2>5, Zenon
<1>2. CASE RoundCounts
  <2>1. /\ round # NoRound /\ round' = NoRound /\ lately' = lately /\ fails' = 0 /\ rest' = 0
        /\ checked' \in [Councils -> 0..DriftInterval] /\ \A k \in lately : checked'[k] < DriftInterval
    BY <1>c, <1>2 DEF RoundCounts, noteDriftSuccess
  <2>2. asap' = FALSE /\ hasty' = hasty
    BY <1>2, Zenon DEF RoundCounts
  <2>3. 0 \in 0..MaxFails /\ 0 \in 0..DriftInterval
    BY <1>c
  <2>4. DriftTypeOK'
    BY <2>1, <2>2, <2>3, Zenon
  <2> QED BY <2>1, <2>2, <2>4, Zenon
<1>3. CASE RoundDoesNotCount
  <2>1. fails' \in 0..MaxFails /\ rest' \in 1..DriftInterval
    BY <1>c, <1>3, BackoffBounds DEF RoundDoesNotCount, RoundFails, noteDriftFailure
  <2> QED BY <1>c, <1>3, <2>1 DEF RoundDoesNotCount, RoundFails
<1>4. CASE RoundPartial
  BY <1>c, <1>4 DEF RoundPartial, noteDriftDeferred
<1>5. CASE DriftTick
  BY <1>c, <1>5 DEF DriftTick
<1>6. CASE guestCurrentPlate \/ LinksAnew \/ DriftRestart
  <2>1. /\ lately' = {} /\ (round' = NoRound \/ (round' = round /\ (rest' = rest \/ rest' = 0)))
        /\ checked' \in [Councils -> 0..DriftInterval] /\ fails' \in 0..MaxFails
        /\ rest' \in 0..DriftInterval /\ round' \in Councils \cup {NoRound}
    BY <1>c, <1>6 DEF guestCurrentPlate, RequestDriftSoon, LinksAnew, DriftRestart, noteDriftSuccess
  <2>2. asap' \in BOOLEAN /\ hasty' = hasty
    BY <1>6, Zenon DEF guestCurrentPlate, RequestDriftSoon, LinksAnew, DriftRestart, noteDriftSuccess
  <2>3. DriftTypeOK'
    BY <2>1, <2>2, Zenon
  <2> QED BY <2>1, <2>2, <2>3, Zenon
<1>7. CASE UNCHANGED driftVars
  BY <1>7 DEF driftVars
<1> QED BY <1>1, <1>2, <1>3, <1>4, <1>5, <1>6, <1>7 DEF DriftNext, DriftWork, DriftEvent
---------------------------------------------------------------------------
(* What the operator hears of.                                              *)

\* The mute and the time since the operator last heard it add up to the interval, and no
\* delivery is under way but the one the mute is for: so none arrives before its time.
AlertInv ==
  /\ AlertTypeOK /\ AlertsSpaced
  /\ heard + muted >= Throttle
  /\ muted > Retry => heard + muted <= Throttle
  /\ \A d, e \in underWay : d = e
  /\ \A d \in underWay : d + muted >= Retry /\ heard >= Throttle

\* What the constants allow.
LEMMA AlertBounds ==
  /\ Throttle \in Nat /\ Retry \in Nat /\ Deadline \in Nat /\ Far \in Nat
  /\ 0 < Deadline /\ Deadline < Retry /\ Retry < Throttle /\ Throttle <= Far
BY AlertAssumption

LEMMA AlertStarts == AlertInit => AlertInv
<1> SUFFICES ASSUME AlertInit PROVE AlertInv
  OBVIOUS
<1>1. muted = 0 /\ heard = Far /\ underWay = {} /\ expiries \in [Tallied -> 0..Far]
  BY AlertBounds DEF AlertInit
<1>2. repeats = FALSE
  BY Zenon DEF AlertInit
<1>3. muted \in 0..Throttle /\ heard \in 0..Far /\ heard + muted >= Throttle /\ ~(muted > Retry)
  BY <1>1, AlertBounds
<1>4. AlertTypeOK
  BY <1>1, <1>2, <1>3, Zenon DEF AlertTypeOK
<1> QED BY <1>1, <1>2, <1>3, <1>4, Zenon DEF AlertInv, AlertsSpaced

\* An alert is put out only when none is under way.
LEMMA OneAlert ==
  ASSUME AlertInv, systemAlert
  PROVE  /\ muted' \in 0..Throttle /\ underWay' \subseteq 0..Deadline
         /\ heard + muted' >= Throttle /\ (muted' > Retry => heard + muted' <= Throttle)
         /\ \A d, e \in underWay' : d = e
         /\ \A d \in underWay' : d + muted' >= Retry /\ heard >= Throttle
<1>1. /\ muted \in 0..Throttle /\ heard \in 0..Far /\ underWay \subseteq 0..Deadline
      /\ heard + muted >= Throttle /\ (muted > Retry => heard + muted <= Throttle)
      /\ \A d, e \in underWay : d = e
      /\ \A d \in underWay : d \in 0..Deadline /\ d + muted >= Retry /\ heard >= Throttle
  BY DEF AlertInv, AlertTypeOK
<1>2. CASE muted > 0
  BY <1>1, <1>2 DEF systemAlert
<1>3. CASE ~(muted > 0)
  <2>1. muted = 0 /\ underWay = {}
    BY <1>1, <1>3, AlertBounds
  <2>2. muted' = Retry /\ underWay' = {0}
    BY <2>1 DEF systemAlert, Claims, ClaimsSlot
  <2> QED BY <1>1, <2>1, <2>2, AlertBounds
<1> QED BY <1>2, <1>3

\* The invariant goes on: one mail is under way at a time, and the throttle outlasts it.
LEMMA AlertMoves == AlertInv /\ [AlertNext]_alertVars => AlertInv'
<1> SUFFICES ASSUME AlertInv, [AlertNext]_alertVars PROVE AlertInv'
  OBVIOUS
<1>t. /\ muted \in 0..Throttle /\ heard \in 0..Far /\ underWay \subseteq 0..Deadline
      /\ expiries \in [Tallied -> 0..Far]
      /\ heard + muted >= Throttle /\ (muted > Retry => heard + muted <= Throttle)
      /\ \A d, e \in underWay : d = e
      /\ \A d \in underWay : d \in 0..Deadline /\ d + muted >= Retry /\ heard >= Throttle
  BY DEF AlertInv, AlertTypeOK
<1>r. repeats = FALSE
  BY Zenon DEF AlertInv, AlertTypeOK, AlertsSpaced
<1> USE AlertBounds
<1>1. CASE Raises \/ \E o \in Tallied : SessionEnds(o)
  <2>1. heard' = heard /\ expiries' \in [Tallied -> 0..Far]
    <3>1. heard' = heard /\ (expiries' = expiries \/ \E o \in Tallied : expiries' = [expiries EXCEPT ![o] = 0])
      BY <1>1, Zenon DEF Raises, SessionEnds
    <3> QED BY <1>t, <3>1
  <2>2. repeats' = FALSE
    BY <1>1, <1>r, Zenon DEF Raises, SessionEnds
  <2>3. systemAlert \/ UNCHANGED <<muted, underWay>>
    BY <1>1 DEF Raises, SessionEnds
  <2>4. /\ muted' \in 0..Throttle /\ underWay' \subseteq 0..Deadline
        /\ heard' + muted' >= Throttle /\ (muted' > Retry => heard' + muted' <= Throttle)
        /\ \A d, e \in underWay' : d = e
        /\ \A d \in underWay' : d + muted' >= Retry /\ heard' >= Throttle
    BY <1>t, <2>1, <2>3, OneAlert
  <2>5. AlertTypeOK'
    BY <1>t, <2>1, <2>2, <2>4, Zenon DEF AlertTypeOK
  <2> QED BY <2>2, <2>4, <2>5, Zenon DEF AlertInv, AlertsSpaced
<1>2. ASSUME NEW d \in underWay, Delivers(d) PROVE AlertInv'
  <2>1. underWay' = {} /\ muted' = Throttle /\ heard' = 0 /\ expiries' = expiries
    BY <1>2, <1>t DEF Delivers
  <2>2. ~(heard < Throttle - Deadline)
    BY <1>t
  <2>3. repeats' = FALSE
    BY <1>2, <1>r, <2>2, Zenon DEF Delivers
  <2>4. /\ muted' \in 0..Throttle /\ heard' \in 0..Far /\ heard' + muted' >= Throttle
        /\ heard' + muted' <= Throttle
    BY <2>1
  <2>5. AlertTypeOK'
    BY <1>t, <2>1, <2>3, <2>4, Zenon DEF AlertTypeOK
  <2> QED BY <2>1, <2>3, <2>4, <2>5, Zenon DEF AlertInv, AlertsSpaced
<1>3. ASSUME NEW d \in underWay, DeliveryFails(d) PROVE AlertInv'
  <2>1. underWay' \subseteq underWay /\ muted' = muted /\ heard' = heard /\ expiries' = expiries
    BY <1>3 DEF DeliveryFails
  <2>2. repeats' = FALSE
    BY <1>3, <1>r, Zenon DEF DeliveryFails
  <2>3. AlertTypeOK'
    BY <1>t, <2>1, <2>2, Zenon DEF AlertTypeOK
  <2> QED BY <1>t, <2>1, <2>2, <2>3, Zenon DEF AlertInv, AlertsSpaced
<1>4. CASE AlertTick
  <2>1. \A d \in underWay : d \in Nat /\ d + 1 \in 0..Deadline
    BY <1>4, <1>t DEF AlertTick
  <2>2. \A e \in underWay' : \E d \in underWay : e = d + 1
    BY <1>4 DEF AlertTick
  <2>3. muted' = (IF muted = 0 THEN 0 ELSE muted - 1) /\ heard' = IF heard < Far THEN heard + 1 ELSE Far
    BY <1>4 DEF AlertTick
  <2>4. /\ muted' \in 0..Throttle /\ heard' \in 0..Far /\ heard' >= heard
        /\ heard' + muted' >= Throttle /\ (muted' > Retry => heard' + muted' <= Throttle)
    BY <1>t, <2>3
  <2>5. \A d \in underWay : d + 1 + muted' >= Retry /\ heard' >= Throttle
    BY <1>t, <2>1, <2>3
  <2>6. underWay' \subseteq 0..Deadline /\ \A d, e \in underWay' : d = e
    BY <1>t, <2>1, <2>2
  <2>7. expiries' \in [Tallied -> 0..Far]
    BY <1>4, <1>t DEF AlertTick
  <2>8. repeats' = FALSE
    BY <1>4, <1>r, Zenon DEF AlertTick
  <2>9. AlertTypeOK'
    BY <2>4, <2>6, <2>7, <2>8, Zenon DEF AlertTypeOK
  <2>10. \A e \in underWay' : e + muted' >= Retry /\ heard' >= Throttle
    BY <2>2, <2>5
  <2> QED BY <2>4, <2>6, <2>8, <2>9, <2>10, Zenon DEF AlertInv, AlertsSpaced
<1>5. CASE AlertRestart
  <2>1. muted' = 0 /\ underWay' = {} /\ heard' = Far /\ expiries' \in [Tallied -> 0..Far]
    BY <1>5 DEF AlertRestart
  <2>2. repeats' = FALSE
    BY <1>5, <1>r, Zenon DEF AlertRestart
  <2>3. muted' \in 0..Throttle /\ heard' \in 0..Far /\ heard' + muted' >= Throttle /\ ~(muted' > Retry)
    BY <2>1
  <2>4. AlertTypeOK'
    BY <2>1, <2>2, <2>3, Zenon DEF AlertTypeOK
  <2> QED BY <2>1, <2>2, <2>3, <2>4, Zenon DEF AlertInv, AlertsSpaced
<1>6. CASE UNCHANGED alertVars
  BY <1>6, Zenon DEF alertVars, AlertInv, AlertTypeOK, AlertsSpaced
<1> QED BY <1>1, <1>2, <1>3, <1>4, <1>5, <1>6 DEF AlertNext

\* Two alerts are as far apart as the throttle says, and silence means that one was heard.
LEMMA AlertsAreSpaced == AlertInv => AlertsSpaced /\ QuietMeansHeard
<1> SUFFICES ASSUME AlertInv PROVE AlertsSpaced /\ QuietMeansHeard
  OBVIOUS
<1>1. muted > Retry => heard <= Throttle
  BY AlertBounds DEF AlertInv, AlertTypeOK
<1> QED BY <1>1, Zenon DEF AlertInv, QuietMeansHeard
---------------------------------------------------------------------------
(* The claims on permits.                                                   *)

\* Whoever has a claim works under it, or has only higher permits yet to claim; whoever
\* waits, waits for the lowest of those, and behind the one who has it; and there is a
\* highest permit that anybody waits for.
Claimed ==
  \A w \in Claimants, p \in PermitIds :
    applying[p] = w => (w \in working \/ toClaim[w] # {}) /\ \A q \in toClaim[w] : p < q

LinedUp ==
  \A w \in Claimants : \A p \in inLine[w] :
    /\ inLine[w] = {p} /\ Ascending(w, p)
    /\ behind[w] \in Claimants /\ applying[p] = behind[w]

ClaimsInv ==
  /\ ClaimsTypeOK /\ Claimed /\ LinedUp
  /\ \A w \in working : toClaim[w] = {}
  /\ \E n \in Nat : \A w \in Claimants : \A p \in inLine[w] : p <= n

LEMMA ClaimsStart == ClaimsInit => ClaimsInv
<1> SUFFICES ASSUME ClaimsInit PROVE ClaimsInv
  OBVIOUS
<1>1. ClaimsTypeOK /\ \A w \in Claimants : inLine[w] = {}
  BY DEF ClaimsInit, ClaimsTypeOK
<1>2. 0 \in Nat
  OBVIOUS
<1>3. Claimed /\ LinedUp /\ working = {}
  BY ClaimsAssumption, <1>1 DEF ClaimsInit, Claimed, LinedUp
<1> QED BY <1>1, <1>2, <1>3, Zenon DEF ClaimsInv

\* What the steps that take nothing new into the line make of it.
LEMMA ShorterLine ==
  ASSUME ClaimsInv, ClaimsTypeOK', Claimed', LinedUp', \A w \in working' : toClaim'[w] = {},
         \A w \in Claimants : inLine'[w] \subseteq inLine[w]
  PROVE  ClaimsInv'
BY Zenon DEF ClaimsInv

\* The invariant goes on: who waits holds only permits below the one they wait for.
LEMMA ClaimsMove == ClaimsInv /\ [ClaimsNext]_claimVars => ClaimsInv'
<1> SUFFICES ASSUME ClaimsInv, [ClaimsNext]_claimVars PROVE ClaimsInv'
  OBVIOUS
<1>t. ClaimsTypeOK /\ Claimed /\ LinedUp /\ \A w \in working : toClaim[w] = {}
  BY DEF ClaimsInv
<1> USE ClaimsAssumption
<1>1. ASSUME NEW w \in Claimants, NEW permits \in SUBSET PermitIds, Wants(w, permits) PROVE ClaimsInv'
  <2>1. \A p \in PermitIds : applying[p] # w
    BY <1>t, <1>1 DEF Wants, Unoccupied, Claimed
  <2>2. inLine[w] = {}
    BY <1>t, <1>1 DEF Wants, Unoccupied, LinedUp, Ascending
  <2>3. /\ applying' = applying /\ inLine' = inLine /\ behind' = behind /\ working' = working /\ w \notin working
        /\ toClaim' = [toClaim EXCEPT ![w] = permits]
    BY <1>1 DEF Wants, Unoccupied
  <2>4. ClaimsTypeOK' /\ Claimed'
    BY <1>t, <2>1, <2>3 DEF ClaimsTypeOK, Claimed
  <2>5. LinedUp'
    BY <1>t, <2>2, <2>3 DEF LinedUp, ClaimsTypeOK, Ascending
  <2>6. \A v \in working' : toClaim'[v] = {}
    BY <1>t, <2>3 DEF ClaimsTypeOK
  <2> QED BY <2>3, <2>4, <2>5, <2>6, ShorterLine, Zenon
<1>2. ASSUME NEW w \in Claimants, NEW p \in PermitIds, tryApply(w, p) PROVE ClaimsInv'
  <2>1. /\ p \in toClaim[w] /\ (\A q \in toClaim[w] : p <= q) /\ inLine[w] = {} /\ applying[p] = NoClaimant
        /\ applying' = [applying EXCEPT ![p] = w] /\ inLine' = inLine /\ behind' = behind
        /\ toClaim' = [toClaim EXCEPT ![w] = @ \ {p}]
        /\ working' = IF toClaim[w] = {p} THEN working \cup {w} ELSE working
    BY <1>2 DEF tryApply, IsNext, Ascending, Proceeds
  <2>2. ClaimsTypeOK' /\ \A v \in working' : toClaim'[v] = {}
    BY <1>t, <2>1 DEF ClaimsTypeOK
  <2>3. ASSUME NEW v \in Claimants, NEW q \in PermitIds, applying'[q] = v
        PROVE  (v \in working' \/ toClaim'[v] # {}) /\ \A r \in toClaim'[v] : q < r
    <3>1. CASE v = w
      <4>1. toClaim'[w] = toClaim[w] \ {p} /\ toClaim[w] \subseteq Nat /\ q \in Nat /\ p \in Nat
        BY <1>t, <2>1 DEF ClaimsTypeOK
      <4>2. w \in working' \/ toClaim'[w] # {}
        BY <2>1, <4>1
      <4>3. q = p \/ applying[q] = w
        BY <1>t, <2>1, <2>3, <3>1 DEF ClaimsTypeOK
      <4>4. \A r \in toClaim[w] \ {p} : q < r
        BY <1>t, <2>1, <4>1, <4>3 DEF Claimed
      <4> QED BY <3>1, <4>1, <4>2, <4>4
    <3>2. CASE v # w
      BY <1>t, <2>1, <2>3, <3>2 DEF ClaimsTypeOK, Claimed
    <3> QED BY <3>1, <3>2
  <2>4. LinedUp'
    BY <1>t, <2>1 DEF LinedUp, ClaimsTypeOK, Ascending
  <2> QED BY <2>1, <2>2, <2>3, <2>4, ShorterLine, Zenon DEF Claimed
<1>3. ASSUME NEW w \in Claimants, NEW p \in PermitIds, Queues(w, p) PROVE ClaimsInv'
  <2>1. /\ p \in toClaim[w] /\ (\A q \in toClaim[w] : p <= q) /\ inLine[w] = {} /\ applying[p] # NoClaimant
        /\ applying' = applying /\ toClaim' = toClaim /\ working' = working
        /\ inLine' = [inLine EXCEPT ![w] = {p}] /\ behind' = [behind EXCEPT ![w] = applying[p]]
    BY <1>3 DEF Queues, IsNext, Ascending
  <2>2. ClaimsTypeOK' /\ Claimed' /\ (\A v \in working' : toClaim'[v] = {})
    BY <1>t, <2>1 DEF ClaimsTypeOK, Claimed
  <2>3. LinedUp'
    BY <1>t, <2>1 DEF LinedUp, ClaimsTypeOK, Ascending
  <2>4. PICK n \in Nat : \A v \in Claimants : \A q \in inLine[v] : q <= n
    BY DEF ClaimsInv
  <2> DEFINE m == IF p <= n THEN n ELSE p
  <2>5. m \in Nat /\ \A v \in Claimants : \A q \in inLine'[v] : q <= m
    BY <1>t, <2>1, <2>4 DEF ClaimsTypeOK
  <2> HIDE DEF m
  <2> QED BY <2>2, <2>3, <2>5, Zenon DEF ClaimsInv
<1>4. ASSUME NEW w \in Claimants, NEW p \in PermitIds, GivesUp(w, p) PROVE ClaimsInv'
  <2>1. /\ inLine[w] = {p} /\ applying' = applying
        /\ inLine' = [inLine EXCEPT ![w] = {}] /\ behind' = [behind EXCEPT ![w] = NoClaimant]
        /\ toClaim' = [toClaim EXCEPT ![w] = @ \ {p}]
        /\ working' = IF toClaim[w] = {p} THEN working \cup {w} ELSE working
    BY <1>4 DEF GivesUp, Proceeds
  <2>2. p \in toClaim[w]
    BY <1>t, <2>1 DEF LinedUp, Ascending
  <2>3. ClaimsTypeOK' /\ \A v \in working' : toClaim'[v] = {}
    BY <1>t, <2>1 DEF ClaimsTypeOK
  <2>4. Claimed'
    BY <1>t, <2>1, <2>2 DEF ClaimsTypeOK, Claimed
  <2>5. LinedUp'
    BY <1>t, <2>1 DEF LinedUp, ClaimsTypeOK, Ascending
  <2>6. \A v \in Claimants : inLine'[v] \subseteq inLine[v]
    BY <1>t, <2>1 DEF ClaimsTypeOK
  <2> QED BY <2>3, <2>4, <2>5, <2>6, ShorterLine, Zenon
<1>5. ASSUME NEW w \in Claimants, NEW p \in PermitIds, PassSkips(w, p) PROVE ClaimsInv'
  <2>1. /\ toClaim[w] = {p} /\ inLine[w] = {} /\ (\A q \in PermitIds : applying[q] # w)
        /\ toClaim' = [toClaim EXCEPT ![w] = {}]
        /\ applying' = applying /\ inLine' = inLine /\ behind' = behind /\ working' = working
    BY <1>5 DEF PassSkips, ClaimsOf
  <2>2. ClaimsTypeOK' /\ (\A v \in working' : toClaim'[v] = {}) /\ Claimed'
    BY <1>t, <2>1 DEF ClaimsTypeOK, Claimed
  <2>3. LinedUp'
    BY <1>t, <2>1 DEF LinedUp, ClaimsTypeOK, Ascending
  <2> QED BY <2>1, <2>2, <2>3, ShorterLine, Zenon
<1>6. ASSUME NEW w \in Claimants, Releases(w) PROVE ClaimsInv'
  <2>1. /\ w \in working /\ working' = working \ {w} /\ toClaim' = toClaim
        /\ applying' = [p \in PermitIds |-> IF applying[p] = w THEN NoClaimant ELSE applying[p]]
        /\ inLine' = [v \in Claimants |-> IF behind[v] = w THEN {} ELSE inLine[v]]
        /\ behind' = [v \in Claimants |-> IF behind[v] = w THEN NoClaimant ELSE behind[v]]
    BY <1>6 DEF Releases
  <2>2. ClaimsTypeOK' /\ \A v \in working' : toClaim'[v] = {}
    BY <1>t, <2>1 DEF ClaimsTypeOK
  <2>3. Claimed'
    BY <1>t, <2>1 DEF ClaimsTypeOK, Claimed
  <2>4. LinedUp'
    BY <1>t, <2>1 DEF LinedUp, ClaimsTypeOK, Ascending
  <2>5. \A v \in Claimants : inLine'[v] \subseteq inLine[v]
    BY <2>1
  <2> QED BY <2>2, <2>3, <2>4, <2>5, ShorterLine, Zenon
<1>7. CASE UNCHANGED claimVars
  BY <1>7, Zenon DEF claimVars, ClaimsInv, ClaimsTypeOK, Claimed, LinedUp, Ascending
<1> QED BY <1>1, <1>2, <1>3, <1>4, <1>5, <1>6, <1>7 DEF ClaimsNext

\* Numbers up to a bound have a greatest.
LEMMA LastOfSome ==
  ASSUME NEW S \in SUBSET Nat, S # {}, NEW n \in Nat, \A x \in S : x <= n
  PROVE  \E x \in S : \A y \in S : y <= x
<1> DEFINE D == {d \in 0..n : n - d \in S}
<1>1. D \in SUBSET Nat /\ D # {}
  <2>1. PICK x \in S : TRUE
    OBVIOUS
  <2>2. n - x \in 0..n /\ n - (n - x) = x
    OBVIOUS
  <2> QED BY <2>1, <2>2
<1>2. \A d \in D : d \in Nat /\ n - d \in S
  OBVIOUS
<1>3. \A y \in S : n - y \in D
  <2> SUFFICES ASSUME NEW y \in S PROVE n - y \in D
    OBVIOUS
  <2>1. n - y \in 0..n /\ n - (n - y) = y
    OBVIOUS
  <2> QED BY <2>1
<1> HIDE DEF D
<1>4. Min(D) \in D /\ \A y \in D : Min(D) <= y
  BY <1>1, FirstOfSome
<1>5. n - Min(D) \in S /\ \A y \in S : y <= n - Min(D)
  BY <1>2, <1>3, <1>4
<1> QED BY <1>5

\* In a ring everybody would wait for a higher permit than the one before them.
LEMMA NobodyInARing == ClaimsInv => NoRing
<1> SUFFICES ASSUME ClaimsInv PROVE NoRing
  OBVIOUS
<1>1. \A w \in Claimants : \A p \in inLine[w] : applying[p] = behind[w]
  BY DEF ClaimsInv, LinedUp
<1>2. ASSUME NEW S \in SUBSET Claimants, S # {}, \A w \in S : inLine[w] # {} /\ behind[w] \in S
      PROVE  FALSE
  <2> DEFINE Awaited == {p \in PermitIds : \E w \in S : p \in inLine[w]}
  <2>1. PICK n \in Nat : \A w \in Claimants : \A p \in inLine[w] : p <= n
    BY DEF ClaimsInv
  <2>2. Awaited \in SUBSET Nat /\ Awaited # {} /\ \A p \in Awaited : p <= n
    <3>1. \A w \in Claimants : inLine[w] \subseteq PermitIds
      BY DEF ClaimsInv, ClaimsTypeOK
    <3>2. PICK w \in S : inLine[w] # {}
      BY <1>2
    <3>3. Awaited # {}
      BY <3>1, <3>2
    <3>4. \A p \in Awaited : p \in Nat /\ p <= n
      BY <2>1, ClaimsAssumption
    <3> QED BY <3>3, <3>4
  <2>3. \A p \in Awaited : \E q \in Awaited : p < q
    <3> SUFFICES ASSUME NEW p \in Awaited PROVE \E q \in Awaited : p < q
      OBVIOUS
    <3>1. PICK w \in S : p \in inLine[w]
      OBVIOUS
    <3>2. PICK q \in inLine[behind[w]] : TRUE
      BY <1>2
    <3>3. behind[w] \in S /\ behind[w] \in Claimants /\ applying[p] = behind[w] /\ p \in PermitIds
      BY <1>1, <1>2, <3>1
    <3>4. q \in toClaim[behind[w]] /\ q \in PermitIds
      BY <3>2, <3>3 DEF ClaimsInv, ClaimsTypeOK, LinedUp, Ascending
    <3>5. p < q
      BY <3>3, <3>4 DEF ClaimsInv, Claimed
    <3> QED BY <3>2, <3>3, <3>4, <3>5
  <2>4. Awaited \subseteq Nat
    BY <2>2
  <2> HIDE DEF Awaited
  <2>5. PICK x \in Awaited : \A y \in Awaited : y <= x
    BY <2>2, LastOfSome
  <2> QED BY <2>3, <2>4, <2>5
<1> QED BY <1>1, <1>2, Zenon DEF NoRing
---------------------------------------------------------------------------
(* What waits for the morning.                                              *)

\* How far into a window that begins at f the hour h is, and how long the window lasts.
Into(f, h) == IF h >= f THEN h - f ELSE h - f + Day
Window(f, u) == Into(f, Ends(f, u))

QuietInv ==
  /\ QuietTypeOK
  /\ held # -1 => /\ from # until /\ held = Ends(from, until)
                  /\ waited <= Into(from, hour) /\ Into(from, hour) <= Window(from, until)

\* What the constants allow.
LEMMA DayBounds == Day \in Nat /\ MaxQuiet \in Nat /\ 1 <= MaxQuiet /\ MaxQuiet < Day
BY QuietAssumption

\* Hours of two days, by the clock.
LEMMA AroundTheClock == \A x \in 0..(2 * Day - 1) : x % Day = IF x < Day THEN x ELSE x - Day
<1>1. \A x \in 0..(Day - 1) : x % Day = x /\ (x + Day) % Day = x
  BY DayBounds
<1> SUFFICES ASSUME NEW x \in 0..(2 * Day - 1) PROVE x % Day = IF x < Day THEN x ELSE x - Day
  OBVIOUS
<1>2. CASE x < Day
  BY <1>1, <1>2, DayBounds
<1>3. CASE x >= Day
  <2>1. x - Day \in 0..(Day - 1) /\ (x - Day) + Day = x
    BY <1>3, DayBounds
  <2> HIDE DEF Hours
  <2>2. x % Day = x - Day
    BY <1>1, <2>1
  <2> QED BY <1>3, <2>2, DayBounds
<1> QED BY <1>2, <1>3, DayBounds

\* The window, wherever midnight falls: it lasts no longer than the cap, it ends where it
\* says, and an hour is in it that is not as far into it as it lasts.
LEMMA WindowLasts ==
  ASSUME NEW f \in Hours, NEW u \in Hours, NEW h \in Hours
  PROVE  /\ Ends(f, u) \in Hours
         /\ f # u => Window(f, u) \in 1..MaxQuiet
         /\ InQuiet(f, u, h) <=> f # u /\ Into(f, h) < Window(f, u)
         /\ h = Ends(f, u) <=> Into(f, h) = Window(f, u)
<1>1. Span(f, u) = Into(f, u)
  <2>1. u - f + Day \in 0..(2 * Day - 1)
    BY DayBounds DEF Hours
  <2>2. (u - f + Day) % Day = IF u - f + Day < Day THEN u - f + Day ELSE u - f
    BY <2>1, AroundTheClock, DayBounds DEF Hours
  <2> QED BY <2>2, DayBounds DEF Span, Into, Hours
<1>2. (f + MaxQuiet) % Day = IF f + MaxQuiet < Day THEN f + MaxQuiet ELSE f + MaxQuiet - Day
  BY AroundTheClock, DayBounds DEF Hours
<1>3. Ends(f, u) = IF Into(f, u) > MaxQuiet
                   THEN IF f + MaxQuiet < Day THEN f + MaxQuiet ELSE f + MaxQuiet - Day
                   ELSE u
  BY <1>1, <1>2 DEF Ends
<1>4. Ends(f, u) \in Hours /\ (f # u => Window(f, u) \in 1..MaxQuiet)
  BY <1>3, DayBounds DEF Window, Into, Hours
<1>5. h = Ends(f, u) <=> Into(f, h) = Window(f, u)
  BY <1>4, DayBounds DEF Window, Into, Hours
<1>6. InQuiet(f, u, h) <=> f # u /\ Into(f, h) < Window(f, u)
  BY <1>4, DayBounds DEF InQuiet, Window, Into, Hours
<1> QED BY <1>4, <1>5, <1>6

LEMMA QuietStarts == QuietInit => QuietInv
BY DayBounds DEF QuietInit, QuietInv, QuietTypeOK, Hours

\* The invariant goes on, hour by hour.
LEMMA QuietMoves == QuietInv /\ [QuietNext]_quietVars => QuietInv'
<1> SUFFICES ASSUME QuietInv, [QuietNext]_quietVars PROVE QuietInv'
  OBVIOUS
<1>t. from \in Hours /\ until \in Hours /\ hour \in Hours /\ held \in Hours \cup {-1} /\ waited \in 0..Day
  BY DEF QuietInv, QuietTypeOK
<1>1. CASE Queue
  <2>1. /\ from' = from /\ until' = until /\ hour' = hour /\ held' = Ends(from, until) /\ waited' = 0
        /\ from # until /\ held' \in Hours /\ Into(from, hour) <= Window(from, until)
    <3>1. from' = from /\ until' = until /\ hour' = hour /\ held' = Ends(from, until) /\ waited' = 0
          /\ InQuiet(from, until, hour)
      BY <1>1 DEF Queue
    <3>2. from # until /\ Ends(from, until) \in Hours /\ Into(from, hour) < Window(from, until)
          /\ Window(from, until) \in 1..MaxQuiet
      BY <1>t, <3>1, WindowLasts
    <3>3. Into(from, hour) \in Int
      BY <1>t, DayBounds DEF Into, Hours
    <3> QED BY <3>1, <3>2, <3>3, DayBounds
  <2>2. Into(from, hour) >= 0
    BY <1>t, DayBounds DEF Into, Hours
  <2> QED BY <1>t, <2>1, <2>2, DayBounds DEF QuietInv, QuietTypeOK, Into, Window, Ends, Span
<1>2. CASE HourPasses
  <2>1. /\ from' = from /\ until' = until /\ held' = held /\ hour # held
        /\ hour' = (hour + 1) % Day /\ waited' = IF held = -1 THEN 0 ELSE waited + 1
    BY <1>2 DEF HourPasses
  <2>2. hour' = IF hour + 1 < Day THEN hour + 1 ELSE hour + 1 - Day
    BY <1>t, <2>1, AroundTheClock, DayBounds DEF Hours
  <2>3. hour' \in Hours
    BY <1>t, <2>2, DayBounds DEF Hours
  <2>4. CASE held = -1
    BY <1>t, <2>1, <2>3, <2>4, DayBounds DEF QuietInv, QuietTypeOK
  <2>5. CASE held # -1
    <3>1. /\ from # until /\ held = Ends(from, until) /\ waited <= Into(from, hour)
          /\ Into(from, hour) < Window(from, until) /\ Window(from, until) \in 1..MaxQuiet
      <4>1. /\ from # until /\ held = Ends(from, until) /\ waited <= Into(from, hour)
            /\ Into(from, hour) <= Window(from, until)
        BY <2>5 DEF QuietInv
      <4>2. Window(from, until) \in 1..MaxQuiet /\ Into(from, hour) # Window(from, until)
        BY <1>t, <2>1, <4>1, WindowLasts
      <4>3. Into(from, hour) \in Int
        BY <1>t, DayBounds DEF Into, Hours
      <4> QED BY <4>1, <4>2, <4>3, DayBounds
    <3>2. Into(from, hour') = Into(from, hour) + 1
      BY <1>t, <2>2, <3>1, DayBounds DEF Into, Hours
    <3>3. Into(from, hour) \in Nat /\ waited' = waited + 1
      BY <1>t, <2>1, <2>5, DayBounds DEF Into, Hours
    <3>4. waited' \in 0..Day /\ waited' <= Into(from, hour') /\ Into(from, hour') <= Window(from, until)
      BY <1>t, <3>1, <3>2, <3>3, DayBounds
    <3>5. Into(from, hour)' = Into(from, hour') /\ Window(from, until)' = Window(from, until)
          /\ Ends(from, until)' = Ends(from, until)
      BY <2>1 DEF Into, Window, Ends, Span
    <3> QED BY <1>t, <2>1, <2>3, <3>1, <3>4, <3>5 DEF QuietInv, QuietTypeOK
  <2> QED BY <2>4, <2>5
<1>3. CASE Goes \/ SwitchQuietOff
  BY <1>3, <1>t, DayBounds DEF Goes, SwitchQuietOff, QuietInv, QuietTypeOK, Hours
<1>4. ASSUME NEW f \in Hours, NEW u \in Hours, SaveHours(f, u) PROVE QuietInv'
  <2>1. from' = f /\ until' = Chosen(f, u) /\ held' = -1 /\ hour' = hour /\ waited' = waited
    BY <1>4 DEF SaveHours
  <2>2. (f + 1) % Day \in Hours /\ (f + MaxQuiet) % Day \in Hours
    BY AroundTheClock, DayBounds DEF Hours
  <2>3. Chosen(f, u) \in Hours
    BY <2>2 DEF Chosen
  <2> QED BY <1>t, <2>1, <2>3 DEF QuietInv, QuietTypeOK
<1>5. CASE UNCHANGED quietVars
  BY <1>5 DEF quietVars, QuietInv, QuietTypeOK, Into, Window, Ends, Span
<1> QED BY <1>1, <1>2, <1>3, <1>4, <1>5 DEF QuietNext

\* A notice waits until the morning its reader has asked for, and no longer.
LEMMA HeldUntilMorning == QuietInv => HeldForTheNight
<1> SUFFICES ASSUME QuietInv, held # -1
             PROVE  waited <= MaxQuiet /\ (hour = held <=> ~InQuiet(from, until, hour))
  BY DEF HeldForTheNight
<1>1. from \in Hours /\ until \in Hours /\ hour \in Hours /\ waited \in Nat
  BY DayBounds DEF QuietInv, QuietTypeOK
<1>2. /\ from # until /\ held = Ends(from, until)
      /\ waited <= Into(from, hour) /\ Into(from, hour) <= Window(from, until)
  BY DEF QuietInv
<1>3. /\ Window(from, until) \in 1..MaxQuiet /\ (hour = held <=> Into(from, hour) = Window(from, until))
      /\ (InQuiet(from, until, hour) <=> Into(from, hour) < Window(from, until))
  BY <1>1, <1>2, WindowLasts
<1>4. Into(from, hour) \in Nat
  BY <1>1, DayBounds DEF Into, Hours
<1>5. waited <= MaxQuiet
  BY <1>1, <1>2, <1>3, <1>4, DayBounds
<1>6. Into(from, hour) = Window(from, until) <=> ~(Into(from, hour) < Window(from, until))
  BY <1>2, <1>3, <1>4, DayBounds
<1> QED BY <1>3, <1>5, <1>6
---------------------------------------------------------------------------
(* The pause before a change that falls due.                                *)

\* The lesser of two is one of them.
LEMMA LesserOfTwo ==
  ASSUME NEW x \in Nat, NEW y \in Nat
  PROVE  Min({x, y}) \in Nat /\ Min({x, y}) <= x /\ Min({x, y}) <= y
<1>1. {x, y} \in SUBSET Nat /\ {x, y} # {}
  OBVIOUS
<1>2. Min({x, y}) \in {x, y} /\ \A z \in {x, y} : Min({x, y}) <= z
  BY <1>1, FirstOfSome
<1> QED BY <1>2

LEMMA SpreadStarts == SpreadInit => SpreadTypeOK
<1> SUFFICES ASSUME SpreadInit PROVE SpreadTypeOK
  OBVIOUS
<1>1. elapsed \in -1..MaxWait
  BY SpreadAssumption DEF SpreadInit
<1>2. applied \in BOOLEAN
  BY Zenon DEF SpreadInit
<1> QED BY <1>1, <1>2, Zenon DEF SpreadInit, SpreadTypeOK

\* The invariant goes on.
LEMMA SpreadMoves == SpreadTypeOK /\ [SpreadNext]_spreadVars => SpreadTypeOK'
<1> SUFFICES ASSUME SpreadTypeOK, [SpreadNext]_spreadVars PROVE SpreadTypeOK'
  OBVIOUS
<1>1. CASE PassApplies \/ UNCHANGED spreadVars
  BY <1>1, Zenon DEF PassApplies, spreadVars, SpreadTypeOK
<1>2. CASE PassHolds
  <2>1. elapsed' \in -1..MaxWait
    BY <1>2, SpreadAssumption DEF PassHolds, SpreadTypeOK
  <2> QED BY <1>2, <2>1, Zenon DEF PassHolds, SpreadTypeOK
<1>3. ASSUME NEW n \in 1..MaxFleet, PassCounts(n) PROVE SpreadTypeOK'
  <2>1. n \in 0..MaxFleet
    BY SpreadAssumption
  <2> QED BY <1>3, <2>1, Zenon DEF PassCounts, SpreadTypeOK
<1> QED BY <1>1, <1>2, <1>3, Zenon DEF SpreadNext

\* A permit is held back for no longer than its share of the time there is.
LEMMA PauseIsShort == SpreadTypeOK => HeldBriefly
<1> SUFFICES ASSUME SpreadTypeOK, ~applied, ~SpreadElapsed
             PROVE  /\ due # "asked" /\ elapsed < SpreadWindow
                    /\ due = "booking" => elapsed < OverrideCap /\ (length > 0 => 10 * elapsed < length)
  BY Zenon DEF HeldBriefly
<1>1. /\ due # "asked" /\ Spread # 0 /\ ~(elapsed < 0) /\ ~(elapsed >= Spread) /\ ~(elapsed >= Offset)
  BY Zenon DEF SpreadElapsed
<1>2. /\ SpreadWindow \in Nat /\ OpDrain \in Nat /\ OverrideCap \in Nat /\ Lots \in Nat /\ Lots > 0
      /\ counted \in Nat /\ lot \in Nat /\ length \in Nat /\ elapsed \in Int
  BY SpreadAssumption DEF SpreadTypeOK
<1>3. Spread \in Nat /\ Spread <= SpreadWindow
  <2> DEFINE total == counted * OpDrain * SpacingFactor
  <2>1. total \in Nat
    BY <1>2 DEF SpacingFactor
  <2> HIDE DEF total
  <2>2. Min({SpreadWindow, total}) \in Nat /\ Min({SpreadWindow, total}) <= SpreadWindow
    BY <1>2, <2>1, LesserOfTwo
  <2> QED BY <1>2, <2>2 DEF Spread, total
<1>4. elapsed < SpreadWindow
  BY <1>1, <1>2, <1>3
<1>5. CASE due = "booking"
  <2> DEFINE tenth == IF length > 0 /\ Slot > length \div 10 THEN length \div 10 ELSE Slot
  <2>1. Slot \in Nat
    BY <1>2, <1>3 DEF Slot
  <2>2. tenth \in Nat /\ (length > 0 => tenth <= length \div 10)
    BY <1>2, <2>1
  <2>3. Min({tenth, OverrideCap}) \in Nat /\ Min({tenth, OverrideCap}) <= tenth
        /\ Min({tenth, OverrideCap}) <= OverrideCap
    BY <1>2, <2>2, LesserOfTwo
  <2>4. Offset = Min({tenth, OverrideCap})
    BY <1>5 DEF Offset, BookingSlot, ShortSlot
  <2> HIDE DEF tenth
  <2>5. elapsed < OverrideCap /\ (length > 0 => elapsed < length \div 10)
    BY <1>1, <1>2, <2>2, <2>3, <2>4
  <2> QED BY <1>1, <1>2, <1>4, <2>5
<1> QED BY <1>1, <1>4, <1>5, Zenon
---------------------------------------------------------------------------
(* One edit of a portal's record.                                           *)

Calls == [pc : {"idle", "read", "post", "confirm", "wait", "again"}, plate : Regs \cup {Bare},
          region : Regions \cup {NoRegion}, write : Records, renewed : BOOLEAN]

\* The edit is sent at most once, from a reading that was true; once it is out, reads that
\* are behind are behind a record with the plate that is wanted.
WriteInv ==
  /\ CouncilTypeOK /\ change \in Calls /\ disturbed \in BOOLEAN
  /\ landings \in {0, 1}
  /\ change.pc \in {"read", "post"} => landings = 0
  /\ change.pc # "idle" => result = "none"
  /\ change.pc = "post" => change.write.plate = change.plate
  /\ change.pc = "post" /\ ~disturbed => onFile = shown
  /\ change.pc \in {"confirm", "wait", "again"} /\ ~disturbed => onFile = shown \/ onFile.plate = change.plate
  /\ DoneIsOnFile

\* A record is a plate and a state.
LEMMA RecordFields ==
  /\ NoVehicle \in Records /\ NoVehicle.plate = Bare
  /\ \A r \in Records : r.plate \in Regs \cup {Bare} /\ r.state \in Regions
  /\ \A p \in Regs, s \in Regions : [plate |-> p, state |-> s] \in Records
<1>1. HomeState \in Regions
  BY CouncilAssumption
<1>2. NoVehicle \in Records /\ NoVehicle.plate = Bare /\ NoVehicle.state = HomeState
  BY Zenon DEF Records, NoVehicle
<1>3. \A p \in Regs, s \in Regions : [plate |-> p, state |-> s] \in Records
  BY Zenon DEF Records
<1>4. \A r \in Records : r = NoVehicle \/ (r.plate \in Regs /\ r.state \in Regions)
  BY Zenon DEF Records
<1> QED BY <1>1, <1>2, <1>3, <1>4, Zenon

\* What is to be written has the plate that was asked for.
LEMMA TargetIsWanted ==
  ASSUME change \in Calls, shown \in Records
  PROVE  Target \in Records /\ Target.plate = change.plate
<1>1. change.plate \in Regs \cup {Bare} /\ change.region \in Regions \cup {NoRegion}
  BY Zenon DEF Calls
<1>2. HomeState \in Regions
  BY CouncilAssumption
<1>3. \A r \in Records : writeToken(r) \in Regions
  BY <1>1, <1>2, RecordFields, Zenon DEF writeToken
<1>4. CASE change.plate = Bare
  BY <1>4, RecordFields, Zenon DEF Target, clearVehicle
<1>5. CASE change.plate # Bare
  <2>1. change.plate \in Regs /\ Target \in {addVehicle, Edited}
    BY <1>1, <1>5, Zenon DEF Target
  <2>2. addVehicle \in Records /\ addVehicle.plate = change.plate
    BY <1>3, <2>1, RecordFields, Zenon DEF addVehicle
  <2>3. Edited \in Records /\ Edited.plate = change.plate
    BY <1>3, <2>1, RecordFields, Zenon DEF Edited
  <2> QED BY <2>1, <2>2, <2>3, Zenon
<1> QED BY <1>4, <1>5

LEMMA WriteStarts == CouncilInit => WriteInv
<1> SUFFICES ASSUME CouncilInit PROVE WriteInv
  OBVIOUS
<1>1. change = NoChange /\ result = "none" /\ landings = 0 /\ disturbed = FALSE /\ onFile \in Records /\ shown = onFile
  BY Zenon DEF CouncilInit
<1>2. NoChange \in Calls /\ NoChange.pc = "idle" /\ NoChange.plate = Bare /\ NoChange.write = NoVehicle
  BY RecordFields, Zenon DEF NoChange, Calls
<1>3. CouncilTypeOK
  BY <1>1, <1>2, RecordFields, Zenon DEF CouncilTypeOK
<1>4. result # "ok" /\ landings \in {0, 1}
  BY <1>1
<1> QED BY <1>1, <1>2, <1>3, <1>4 DEF WriteInv, DoneIsOnFile

\* What a call becomes when it ends, or goes on.
LEMMA CallGoesOn ==
  ASSUME change \in Calls
  PROVE  /\ \A r : Returns(r) => /\ change' \in Calls /\ change'.pc = "idle" /\ result' = r
                                 /\ change'.plate = change.plate /\ change'.write = change.write
         /\ \A p \in {"idle", "read", "post", "confirm", "wait", "again"} :
              GoesTo(p) => /\ change' \in Calls /\ change'.pc = p /\ result' = result
                           /\ change'.plate = change.plate /\ change'.write = change.write
BY Zenon DEF Returns, GoesTo, Calls

\* The invariant goes on: a write that was seen to land is not made again.
LEMMA WriteMoves == WriteInv /\ [CouncilNext]_councilVars => WriteInv'
<1> SUFFICES ASSUME WriteInv, [CouncilNext]_councilVars PROVE WriteInv'
  OBVIOUS
<1>t. /\ change \in Calls /\ disturbed \in BOOLEAN /\ onFile \in Records /\ shown \in Records
      /\ result \in Failures \cup {"none", "ok"} /\ landings \in {0, 1}
  BY DEF WriteInv, CouncilTypeOK
<1>i. /\ change.pc \in {"read", "post"} => landings = 0
      /\ change.pc # "idle" => result = "none"
      /\ change.pc = "post" => change.write.plate = change.plate
      /\ change.pc = "post" /\ ~disturbed => onFile = shown
      /\ change.pc \in {"confirm", "wait", "again"} /\ ~disturbed => onFile = shown \/ onFile.plate = change.plate
      /\ change.pc = "idle" /\ result = "ok" /\ ~disturbed => onFile.plate = change.plate
  BY Zenon DEF WriteInv, DoneIsOnFile
<1>c. ASSUME change' \in Calls, disturbed' \in BOOLEAN, onFile' \in Records, shown' \in Records,
             result' \in Failures \cup {"none", "ok"}, landings' \in {0, 1},
             change'.pc \in {"read", "post"} => landings' = 0,
             change'.pc # "idle" => result' = "none",
             change'.pc = "post" => change'.write.plate = change'.plate,
             change'.pc = "post" /\ ~disturbed' => onFile' = shown',
             change'.pc \in {"confirm", "wait", "again"} /\ ~disturbed' =>
                onFile' = shown' \/ onFile'.plate = change'.plate,
             change'.pc = "idle" /\ result' = "ok" /\ ~disturbed' => onFile'.plate = change'.plate
      PROVE  WriteInv'
  <2>1. landings' \in Nat
    BY <1>c
  <2>2. /\ change'.pc \in {"idle", "read", "post", "confirm", "wait", "again"}
        /\ change'.plate \in Regs \cup {Bare} /\ change'.write \in Records
    BY <1>c, Zenon DEF Calls
  <2>3. CouncilTypeOK'
    BY <1>c, <2>1, <2>2, Zenon DEF CouncilTypeOK
  <2> QED BY <1>c, <2>3, Zenon DEF WriteInv, DoneIsOnFile
\* A call that ends without having written, other than well.
<1>e. ASSUME NEW r \in Failures, Returns(r), disturbed' = disturbed, onFile' \in Records, shown' \in Records,
             landings' \in {0, 1}
      PROVE  WriteInv'
  <2>1. r # "ok"
    BY DEF Failures
  <2>2. change' \in Calls /\ change'.pc = "idle" /\ result' = r
    BY <1>t, <1>e, CallGoesOn, Zenon
  <2> QED BY <1>t, <1>c, <1>e, <2>1, <2>2
<1>1. ASSUME NEW plate \in Regs \cup {Bare}, NEW region \in Regions \cup {NoRegion}, Begins(plate, region)
      PROVE  WriteInv'
  <2> DEFINE c == [NoChange EXCEPT !.pc = "read", !.plate = plate, !.region = region]
  <2>1. c \in Calls /\ c.pc = "read"
    BY RecordFields, Zenon DEF NoChange, Calls
  <2>2. change' = c /\ result' = "none" /\ landings' = 0 /\ onFile' = onFile /\ shown' = shown
    BY <1>1, Zenon DEF Begins
  <2>3. disturbed' = FALSE
    BY <1>1, Zenon DEF Begins
  <2> HIDE DEF c
  <2> QED BY <1>t, <1>c, <2>1, <2>2, <2>3
<1>2. CASE setVehicle
  <2>1. Target \in Records /\ Target.plate = change.plate
    BY <1>t, TargetIsWanted
  <2>2. /\ change.pc = "read" /\ onFile' = onFile /\ shown' = shown /\ landings' = landings
        /\ change' = [change EXCEPT !.write = Target, !.renewed = FALSE,
                                    !.pc = IF shown = Target THEN "idle" ELSE "post"]
        /\ result' = IF shown = Target THEN "ok" ELSE result
    BY <1>2, Zenon DEF setVehicle
  <2>3. disturbed' \in BOOLEAN /\ (~disturbed' => shown = onFile)
    BY <1>2, <1>t, Zenon DEF setVehicle
  <2> DEFINE w == Target
  <2>5. w \in Records /\ w.plate = change.plate
    BY <2>1
  <2>4. /\ change' \in Calls /\ change'.plate = change.plate /\ change'.write = w
        /\ change'.pc = IF shown = w THEN "idle" ELSE "post"
    <3> DEFINE pc == IF shown = w THEN "idle" ELSE "post"
    <3>1. pc \in {"idle", "read", "post", "confirm", "wait", "again"}
      OBVIOUS
    <3>2. change' = [change EXCEPT !.write = w, !.renewed = FALSE, !.pc = pc]
      BY <2>2
    <3> HIDE DEF w, pc
    <3>3. change' \in Calls /\ change'.plate = change.plate /\ change'.write = w /\ change'.pc = pc
      BY <1>t, <2>5, <3>1, <3>2, Zenon DEF Calls
    <3> QED BY <3>3 DEF pc
  <2>6. result' = IF shown = w THEN "ok" ELSE result
    BY <2>2
  <2> HIDE DEF w
  <2>7. result = "none" /\ landings' = 0
    BY <1>i, <2>2, Zenon
  <2>8. CASE shown = w
    BY <1>t, <1>c, <2>2, <2>3, <2>4, <2>5, <2>6, <2>7, <2>8
  <2>9. CASE shown # w
    BY <1>t, <1>c, <2>2, <2>3, <2>4, <2>5, <2>6, <2>7, <2>9
  <2> QED BY <2>8, <2>9
<1>3. CASE postManage
  <2>1. change.pc = "post" /\ landings = 0 /\ change.write.plate = change.plate
    BY <1>3, <1>i, Zenon DEF postManage
  <2>2. /\ change' \in Calls /\ change'.pc = "confirm" /\ result' = result
        /\ change'.plate = change.plate
    BY <1>3, <1>t, CallGoesOn, Zenon DEF postManage
  <2>3. disturbed' = disturbed /\ result = "none"
    BY <1>3, <1>i, <2>1 DEF postManage
  <2>4. change.write \in Records
    BY <1>t, Zenon DEF Calls
  <2>5. /\ onFile' \in Records /\ shown' \in Records /\ landings' \in {0, 1}
        /\ ~disturbed => onFile' = shown' \/ onFile'.plate = change.plate
    BY <1>3, <1>t, <1>i, <2>1, <2>4 DEF postManage, PortalTakes, Ignores
  <2> QED BY <1>t, <1>c, <2>2, <2>3, <2>5
<1>4. CASE RenewsToken
  <2>1. /\ change' = [change EXCEPT !.renewed = TRUE] /\ onFile' = onFile /\ shown' = shown /\ result' = result
        /\ landings' = landings
    BY <1>4, Zenon DEF RenewsToken
  <2>2. disturbed' = disturbed
    BY <1>4 DEF RenewsToken
  <2>3. change' \in Calls /\ change'.pc = change.pc /\ change'.plate = change.plate /\ change'.write = change.write
    BY <1>t, <2>1, Zenon DEF Calls
  <2> QED BY <1>t, <1>i, <1>c, <2>1, <2>2, <2>3
<1>5. CASE confirmWrite
  <2>1. /\ change.pc \in {"confirm", "again"} /\ onFile' = onFile /\ shown' = shown /\ landings' = landings
        /\ disturbed' = disturbed
    BY <1>5 DEF confirmWrite
  <2>2. (shown.plate = change.plate /\ Returns("ok")) \/ GoesTo("wait") \/ Returns("rejected")
    BY <1>5 DEF confirmWrite
  <2>3. CASE Returns("rejected")
    BY <1>t, <1>e, <2>1, <2>3 DEF Failures
  <2>4. CASE GoesTo("wait")
    <3>1. change' \in Calls /\ change'.pc = "wait" /\ result' = result /\ change'.plate = change.plate
      BY <1>t, <2>4, CallGoesOn, Zenon
    <3> QED BY <1>t, <1>i, <1>c, <2>1, <3>1
  <2>5. CASE shown.plate = change.plate /\ Returns("ok")
    <3>1. change' \in Calls /\ change'.pc = "idle" /\ result' = "ok" /\ change'.plate = change.plate
      BY <1>t, <2>5, CallGoesOn, Zenon
    <3> QED BY <1>t, <1>i, <1>c, <2>1, <2>5, <3>1
  <2> QED BY <2>2, <2>3, <2>4, <2>5
<1>6. CASE WaitOver
  <2>1. /\ change.pc = "wait" /\ onFile' = onFile /\ shown' = shown /\ landings' = landings
        /\ disturbed' = disturbed /\ (GoesTo("again") \/ Returns("transient"))
    BY <1>6 DEF WaitOver
  <2>2. CASE Returns("transient")
    BY <1>t, <1>e, <2>1, <2>2 DEF Failures
  <2>3. CASE GoesTo("again")
    <3>1. change' \in Calls /\ change'.pc = "again" /\ result' = result /\ change'.plate = change.plate
      BY <1>t, <2>3, CallGoesOn, Zenon
    <3> QED BY <1>t, <1>i, <1>c, <2>1, <3>1
  <2> QED BY <2>1, <2>2, <2>3
<1>7. CASE CatchesUp
  <2>1. /\ shown' = onFile /\ onFile' = onFile /\ change' = change /\ result' = result /\ landings' = landings
        /\ disturbed' = disturbed
    BY <1>7 DEF CatchesUp
  <2> QED BY <1>t, <1>i, <1>c, <2>1
<1>8. CASE Garbled
  <2>1. Returns("unexpected") /\ onFile' = onFile /\ shown' = shown /\ landings' = landings /\ disturbed' = disturbed
    BY <1>8 DEF Garbled, NotUnderstood
  <2> QED BY <1>t, <1>e, <2>1 DEF Failures
<1>9. ASSUME NEW kind \in Failures, FirstReadFails(kind) \/ Unanswered(kind) \/ ConfirmFails(kind)
      PROVE  WriteInv'
  <2>1. Returns(kind) /\ disturbed' = disturbed
    BY <1>9 DEF FirstReadFails, Unanswered, PostFails, ConfirmFails
  <2>2. change.write \in Records
    BY <1>t, Zenon DEF Calls
  <2>3. Ignores \/ (change.pc = "post" /\ PortalTakes)
    BY <1>9 DEF FirstReadFails, Unanswered, PostFails, ConfirmFails, Ignores
  <2>4. onFile' \in Records /\ shown' \in Records /\ landings' \in {0, 1}
    BY <1>t, <1>i, <2>2, <2>3 DEF Ignores, PortalTakes
  <2> QED BY <1>e, <2>1, <2>4
<1>10. ASSUME NEW r \in Records, ElsewhereChanged(r) PROVE WriteInv'
  <2>1. /\ onFile' = r /\ shown' \in {shown, r} /\ change' = change /\ result' = result /\ landings' = landings
        /\ disturbed' = TRUE
    BY <1>10 DEF ElsewhereChanged
  <2> QED BY <1>t, <1>i, <1>c, <2>1
<1>11. CASE UNCHANGED councilVars
  BY <1>11, <1>t, <1>i, <1>c DEF councilVars
<1> QED
  BY <1>1, <1>2, <1>3, <1>4, <1>5, <1>6, <1>7, <1>8, <1>9, <1>10, <1>11
     DEF CouncilNext, CouncilWork, CouncilEvent, Posted

\* Done means on file, and a vehicle lands once.
LEMMA WritesOnce == WriteInv => DoneIsOnFile /\ LandsOnce
<1> SUFFICES ASSUME WriteInv PROVE DoneIsOnFile /\ LandsOnce
  OBVIOUS
<1>1. landings <= 1
  BY DEF WriteInv
<1> QED BY <1>1, Zenon DEF WriteInv, LandsOnce
---------------------------------------------------------------------------
(* The ceiling on requests.                                                 *)

AskerStates == [pc : {"away", "login", "total", "slot", "shared", "sent"}, wake : Int, read : Int]

\* What a bucket will have held by the start of the stretch that is looked at.
AtStart(stock, lastFill, start, full, rate) ==
  IF lastFill >= start THEN stock ELSE Lesser(full, stock + rate * (start - lastFill))

\* What was taken and what is left, or will be left at the start of the stretch, is no more
\* than the burst, what has accrued in it since, and what late askers had counted twice.
Accounted(taken, stock, lastFill, start, twice, full, rate) ==
  taken * Cost + AtStart(stock, lastFill, start, full, rate)
    <= full + rate * (twice + IF lastFill >= start THEN lastFill - start ELSE 0)

BucketInv(b) ==
  /\ parts[b] \in 0..Full[b] /\ last[b] \in 0..time /\ paid[b] \in Nat /\ doubled[b] \in Nat
  /\ Accounted(paid[b], parts[b], last[b], since, doubled[b], Full[b], Rate[b])

SlotInv ==
  /\ IsFiniteSet(Holding) /\ Cardinality(Holding) <= Concurrency
  /\ elsewhere \in 0..SharedCap /\ Cardinality(Sent) + elsewhere <= SharedCap

GovernorInv ==
  /\ time \in 0..MaxTime /\ since \in 0..time
  /\ asker \in [Askers -> AskerStates]
  /\ \A a \in Askers : asker[a].read <= time /\ (asker[a].read # Unread => asker[a].read >= 0)
  /\ parts \in [Buckets -> Nat] /\ last \in [Buckets -> Nat]
  /\ paid \in [Buckets -> Nat] /\ doubled \in [Buckets -> Nat]
  /\ \A b \in Buckets : BucketInv(b)
  /\ SlotInv

\* What the constants allow.
LEMMA GovernorBounds ==
  /\ Cost \in Nat /\ Cost > 0 /\ Concurrency \in Nat /\ Concurrency > 0 /\ SharedCap \in Nat /\ SharedCap > 0
  /\ MaxTime \in Nat
  /\ Full \in [Buckets -> Nat] /\ Rate \in [Buckets -> Nat]
  /\ \A b \in Buckets : Full[b] \in Nat /\ Rate[b] \in Nat /\ Rate[b] > 0
<1>1. /\ Cost \in Nat /\ Cost > 0 /\ Concurrency \in Nat /\ Concurrency > 0 /\ SharedCap \in Nat /\ SharedCap > 0
      /\ MaxTime \in Nat /\ TotalRate \in Nat /\ TotalRate > 0 /\ LoginRate \in Nat /\ LoginRate > 0
      /\ TotalBurst \in Nat /\ LoginBurst \in Nat
  BY GovernorAssumption
<1>2. TotalBurst * Cost \in Nat /\ LoginBurst * Cost \in Nat
  BY <1>1
<1>3. Full \in [Buckets -> Nat] /\ Rate \in [Buckets -> Nat]
  BY <1>1, <1>2 DEF Full, Rate, Buckets
<1>4. \A b \in Buckets : Full[b] \in Nat /\ Rate[b] \in Nat /\ Rate[b] > 0
  BY <1>1, <1>2 DEF Full, Rate, Buckets
<1> QED BY <1>1, <1>3, <1>4

\* One asker that reads a bucket as of the time r it had read, and finds what the bucket
\* has then: if the account was even, it is, with a token taken and without.
StaysEven(taken, stock, l, start, twice, full, rate, r, has, twice2) ==
  /\ Cost \in Nat /\ Accounted(taken, stock, l, start, twice, full, rate)
  /\ has = IF r > l THEN Lesser(full, stock + (r - l) * rate) ELSE stock
  /\ twice2 = twice + IF r < l THEN l - r ELSE 0
  => /\ has \in 0..full /\ twice2 \in Nat
     /\ Accounted(taken, has, r, start, twice2, full, rate)
     /\ has >= Cost =>
          Accounted(taken + IF r >= start THEN 1 ELSE 0, has - Cost, r, start, twice2, full, rate)

\* The account of a bucket: what was paid and what is left are never more than it began with
\* and what has come in since, counting twice what a change of the ceiling counts twice.
LEMMA AccountStays ==
  ASSUME NEW full \in Nat, NEW rate \in Nat, NEW stock \in 0..full, NEW l \in Nat, NEW r \in Nat,
         NEW start \in Nat, NEW taken \in Nat, NEW twice \in Nat, NEW has, NEW twice2
  PROVE  StaysEven(taken, stock, l, start, twice, full, rate, r, has, twice2)
<1>a. SUFFICES ASSUME Cost \in Nat, Accounted(taken, stock, l, start, twice, full, rate),
                      has = IF r > l THEN Lesser(full, stock + (r - l) * rate) ELSE stock,
                      twice2 = twice + IF r < l THEN l - r ELSE 0
               PROVE  /\ has \in 0..full /\ twice2 \in Nat
                      /\ Accounted(taken, has, r, start, twice2, full, rate)
                      /\ has >= Cost =>
                           Accounted(taken + IF r >= start THEN 1 ELSE 0, has - Cost, r, start, twice2, full, rate)
  BY DEF StaysEven
<1> DEFINE x == rate * l
           y == rate * r
           z == rate * start
           w == rate * twice
           v == rate * twice2
           c == taken * Cost
<1>1. x \in Nat /\ y \in Nat /\ z \in Nat /\ w \in Nat /\ c \in Nat /\ twice2 \in Nat /\ v \in Nat
  BY <1>a
<1>2. /\ (r >= l => y >= x) /\ (r <= l => y <= x) /\ (l >= start => x >= z) /\ (l < start => x <= z)
      /\ (r >= start => y >= z) /\ (r < start => y <= z)
  OBVIOUS
<1>3. v = IF r < l THEN w + x - y ELSE w
  BY <1>a
<1>4. has = IF r > l THEN Lesser(full, stock + (y - x)) ELSE stock
  BY <1>a
<1>5. c + (IF l >= start THEN stock ELSE Lesser(full, stock + (z - x)))
        <= full + w + IF l >= start THEN x - z ELSE 0
  BY <1>a DEF Accounted, AtStart
<1>6. ASSUME NEW t \in Nat, NEW h \in Int,
             t * Cost + (IF r >= start THEN h ELSE Lesser(full, h + (z - y)))
               <= full + v + IF r >= start THEN y - z ELSE 0
      PROVE  Accounted(t, h, r, start, twice2, full, rate)
  <2>1. rate * (start - r) = z - y /\ rate * (twice2 + (r - start)) = v + (y - z) /\ rate * (twice2 + 0) = v
    BY <1>1
  <2> HIDE DEF x, y, z, w, v, c
  <2>2. CASE r >= start
    <3>1. AtStart(h, r, start, full, rate) = h
      BY <2>2 DEF AtStart
    <3>2. rate * (twice2 + IF r >= start THEN r - start ELSE 0) = v + (y - z)
      BY <2>1, <2>2
    <3> DEFINE p == t * Cost
    <3>3. p + h <= full + (v + (y - z))
      <4>1. (IF r >= start THEN h ELSE Lesser(full, h + (z - y))) = h
            /\ (full + v + IF r >= start THEN y - z ELSE 0) = full + v + (y - z)
        BY <1>1, <2>2
      <4>2. p + h <= full + v + (y - z)
        BY <1>6, <4>1
      <4>3. p \in Int
        BY <1>a
      <4> HIDE DEF p
      <4> QED BY <1>1, <4>2, <4>3
    <3>4. p + AtStart(h, r, start, full, rate)
            <= full + rate * (twice2 + IF r >= start THEN r - start ELSE 0)
      <4> HIDE DEF p
      <4> QED BY <3>1, <3>2, <3>3
    <3> QED BY <3>4 DEF Accounted
  <2>3. CASE ~(r >= start)
    <3>1. AtStart(h, r, start, full, rate) = Lesser(full, h + (z - y))
      BY <2>1, <2>3 DEF AtStart
    <3>2. rate * (twice2 + IF r >= start THEN r - start ELSE 0) = v
      BY <2>1, <2>3
    <3>3. t * Cost + Lesser(full, h + (z - y)) <= full + v
      <4>1. (IF r >= start THEN h ELSE Lesser(full, h + (z - y))) = Lesser(full, h + (z - y))
            /\ (full + v + IF r >= start THEN y - z ELSE 0) = full + v
        BY <1>1, <2>3
      <4> QED BY <1>6, <4>1
    <3> DEFINE p == t * Cost
               q == Lesser(full, h + (z - y))
    <3>4. p + AtStart(h, r, start, full, rate)
            <= full + rate * (twice2 + IF r >= start THEN r - start ELSE 0)
      <4>1. p + q <= full + v
        BY <3>3
      <4>2. AtStart(h, r, start, full, rate) = q
        BY <3>1
      <4> HIDE DEF p, q
      <4> QED BY <3>2, <4>1, <4>2
    <3> QED BY <3>4 DEF Accounted
  <2> QED BY <2>2, <2>3
<1>7. (taken + 1) * Cost = c + Cost /\ (taken + 0) * Cost = c
  BY <1>a, <1>1
<1> HIDE DEF x, y, z, w, v, c
<1>8. has \in 0..full
  BY <1>1, <1>2, <1>4 DEF Lesser
<1>9. c + (IF r >= start THEN has ELSE Lesser(full, has + (z - y)))
        <= full + v + IF r >= start THEN y - z ELSE 0
  <2>l. \A p, q \in Int : /\ Lesser(p, q) \in Int /\ Lesser(p, q) <= p /\ Lesser(p, q) <= q
                         /\ (Lesser(p, q) = p \/ Lesser(p, q) = q)
    BY DEF Lesser
  <2> DEFINE early == Lesser(full, stock + (z - x))
             later == Lesser(full, has + (z - y))
             soon  == Lesser(full, stock + (y - x))
  <2>t. full \in Int /\ stock + (z - x) \in Int /\ has + (z - y) \in Int /\ stock + (y - x) \in Int
    BY <1>1, <1>8
  <2>e. early \in Int /\ (early = full \/ early = stock + (z - x))
    BY <2>l, <2>t
  <2>s. soon \in Int /\ soon <= full /\ soon <= stock + (y - x)
    BY <2>t DEF Lesser
  <2>n. later \in Int /\ later <= full /\ later <= has + (z - y)
    BY <2>t DEF Lesser
  <2>h. has = IF r > l THEN soon ELSE stock
    BY <1>4
  <2>i. c + (IF l >= start THEN stock ELSE early) <= full + w + IF l >= start THEN x - z ELSE 0
    BY <1>5
  <2> HIDE DEF early, later, soon
  <2>g. c + (IF r >= start THEN has ELSE later) <= full + v + IF r >= start THEN y - z ELSE 0
    <3>1. CASE l >= start
      <4>1. c + stock <= full + w + (x - z)
        BY <2>i, <3>1
      <4> QED BY <1>1, <1>2, <1>3, <1>8, <2>s, <2>n, <2>h, <3>1, <4>1
    <3>2. CASE ~(l >= start)
      <4>1. c + early <= full + w
        BY <1>1, <2>i, <2>e, <3>2
      <4> QED BY <1>1, <1>2, <1>3, <1>8, <2>e, <2>s, <2>n, <2>h, <3>2, <4>1
    <3> QED BY <3>1, <3>2
  <2> QED BY <2>g DEF later
<1>10. Accounted(taken, has, r, start, twice2, full, rate)
  <2>1. taken * Cost = c
    BY DEF c
  <2> QED BY <1>6, <1>8, <1>9, <2>1
<1>11. ASSUME has >= Cost
       PROVE  Accounted(taken + IF r >= start THEN 1 ELSE 0, has - Cost, r, start, twice2, full, rate)
  <2> DEFINE t == taken + IF r >= start THEN 1 ELSE 0
  <2>1. t \in Nat /\ t * Cost = c + IF r >= start THEN Cost ELSE 0
    BY <1>a, <1>7
  <2>2. Cost \in Nat /\ has \in Int /\ has - Cost \in Int
    BY <1>a, <1>8
  <2>3. t * Cost + (IF r >= start THEN has - Cost ELSE Lesser(full, (has - Cost) + (z - y)))
          <= full + v + IF r >= start THEN y - z ELSE 0
    BY <1>1, <1>2, <1>8, <1>9, <2>1, <2>2 DEF Lesser
  <2> HIDE DEF t
  <2>4. Accounted(t, has - Cost, r, start, twice2, full, rate)
    BY <1>6, <2>1, <2>2, <2>3
  <2> QED BY <2>4 DEF t
<1> QED BY <1>1, <1>8, <1>10, <1>11

LEMMA GovernorStarts == GovernorInit => GovernorInv
<1> SUFFICES ASSUME GovernorInit PROVE GovernorInv
  OBVIOUS
<1>1. time = 0 /\ since = 0 /\ elsewhere = 0 /\ time \in 0..MaxTime /\ since \in 0..time /\ elsewhere \in 0..SharedCap
  BY GovernorBounds DEF GovernorInit
<1>2. /\ asker \in [Askers -> AskerStates]
      /\ \A a \in Askers : asker[a].read <= time /\ (asker[a].read # Unread => asker[a].read >= 0)
      /\ \A a \in Askers : asker[a].pc = "away"
  BY DEF GovernorInit, Away, AskerStates, Unread
<1>3. /\ parts \in [Buckets -> Nat] /\ last \in [Buckets -> Nat]
      /\ paid \in [Buckets -> Nat] /\ doubled \in [Buckets -> Nat]
  BY GovernorBounds DEF GovernorInit
<1>4. ASSUME NEW b \in Buckets PROVE BucketInv(b)
  <2>1. parts[b] = Full[b] /\ last[b] = 0 /\ paid[b] = 0 /\ doubled[b] = 0 /\ Full[b] \in Nat /\ Rate[b] \in Nat
    BY GovernorBounds DEF GovernorInit
  <2>2. Accounted(0, Full[b], 0, 0, 0, Full[b], Rate[b])
    BY <2>1, GovernorBounds DEF Accounted, AtStart
  <2> QED BY <1>1, <2>1, <2>2 DEF BucketInv
<1>5. Holding = {} /\ Sent = {}
  BY <1>2 DEF Holding, Sent
<1>6. SlotInv
  <2>1. Cardinality({}) = 0 /\ IsFiniteSet({})
    BY FS_EmptySet
  <2> QED BY <1>1, <1>5, <2>1, GovernorBounds DEF SlotInv
<1> QED BY <1>1, <1>2, <1>3, <1>4, <1>6, Zenon DEF GovernorInv

\* Requests that are under way as before hold their slots as before.
LEMMA SameSlots ==
  SlotInv /\ Holding' = Holding /\ Sent' = Sent /\ elsewhere' = elsewhere => SlotInv'
BY Zenon DEF SlotInv

\* A request that lets go of its slots leaves the more for the others.
LEMMA FewerSlots ==
  SlotInv /\ Holding' \subseteq Holding /\ Sent' \subseteq Sent /\ elsewhere' = elsewhere => SlotInv'
<1> SUFFICES ASSUME SlotInv, Holding' \subseteq Holding, Sent' \subseteq Sent, elsewhere' = elsewhere
             PROVE  SlotInv'
  OBVIOUS
<1>1. Sent \subseteq Holding
  BY DEF Sent, Holding
<1>2. IsFiniteSet(Holding) /\ IsFiniteSet(Sent)
  BY <1>1, FS_Subset DEF SlotInv
<1>3. IsFiniteSet(Holding') /\ Cardinality(Holding') <= Cardinality(Holding)
      /\ Cardinality(Sent') <= Cardinality(Sent) /\ IsFiniteSet(Sent')
  BY <1>2, FS_Subset
<1>4. /\ Cardinality(Holding) \in Nat /\ Cardinality(Sent) \in Nat
      /\ Cardinality(Holding') \in Nat /\ Cardinality(Sent') \in Nat
  BY <1>2, <1>3, FS_CardinalityType
<1> QED BY <1>3, <1>4, GovernorBounds DEF SlotInv

\* The invariant goes on: the accounts, and one asker in the slot.
LEMMA GovernorMoves == GovernorInv /\ [GovernorNext]_governorVars => GovernorInv'
<1> SUFFICES ASSUME GovernorInv, [GovernorNext]_governorVars PROVE GovernorInv'
  OBVIOUS
<1> DEFINE ReadsIn(f, t) == \A a \in Askers : f[a].read <= t /\ (f[a].read # Unread => f[a].read >= 0)
<1>i. /\ time \in 0..MaxTime /\ since \in 0..time /\ asker \in [Askers -> AskerStates]
      /\ ReadsIn(asker, time) /\ MaxTime \in Nat
      /\ parts \in [Buckets -> Nat] /\ last \in [Buckets -> Nat]
      /\ paid \in [Buckets -> Nat] /\ doubled \in [Buckets -> Nat]
      /\ \A b \in Buckets : BucketInv(b)
      /\ SlotInv
  BY GovernorBounds DEF GovernorInv
\* Where the buckets are left alone.
<1>b. ASSUME UNCHANGED <<time, parts, last, since, paid, doubled>>,
             asker' \in [Askers -> AskerStates], ReadsIn(asker', time), SlotInv'
      PROVE  GovernorInv'
  <2>1. ASSUME NEW b \in Buckets PROVE BucketInv(b)'
    BY <1>b, <1>i, Zenon DEF BucketInv
  <2> QED BY <1>b, <1>i, <2>1, Zenon DEF GovernorInv
<1>1. ASSUME NEW a \in Askers, NEW surface \in {"api", "login"}, AsksToSend(a, surface) PROVE GovernorInv'
  <2>1. /\ asker' \in [Askers -> AskerStates] /\ ReadsIn(asker', time)
        /\ \A q \in Askers : asker'[q].pc = asker[q].pc
                               \/ (q = a /\ asker[q].pc = "away" /\ asker'[q].pc \in {"login", "total"})
    BY <1>1, <1>i DEF AsksToSend, Away, AskerStates, Unread
  <2>2. Holding' = Holding /\ Sent' = Sent
    BY <2>1 DEF Holding, Sent
  <2>3. SlotInv'
    BY <1>1, <1>i, <2>2, SameSlots DEF AsksToSend
  <2> QED BY <1>1, <1>b, <2>1, <2>3, Zenon DEF AsksToSend
<1>2. ASSUME NEW a \in Askers, ReadsClock(a) PROVE GovernorInv'
  <2>1. /\ asker' \in [Askers -> AskerStates] /\ ReadsIn(asker', time)
        /\ \A q \in Askers : asker'[q].pc = asker[q].pc
    BY <1>2, <1>i DEF ReadsClock, AskerStates, Unread
  <2>2. Holding' = Holding /\ Sent' = Sent
    BY <2>1 DEF Holding, Sent
  <2>3. SlotInv'
    BY <1>2, <1>i, <2>2, SameSlots DEF ReadsClock
  <2> QED BY <1>2, <1>b, <2>1, <2>3, Zenon DEF ReadsClock
<1>3. ASSUME NEW a \in Askers, GetsSlot(a) PROVE GovernorInv'
  <2>1. /\ asker' \in [Askers -> AskerStates] /\ ReadsIn(asker', time)
        /\ asker[a].pc = "slot" /\ asker'[a].pc = "shared"
        /\ \A q \in Askers \ {a} : asker'[q].pc = asker[q].pc
    BY <1>3, <1>i DEF GetsSlot, AskerStates
  <2>2. Holding' = Holding \cup {a} /\ a \notin Holding /\ Sent' = Sent
    BY <2>1 DEF Holding, Sent
  <2>3. IsFiniteSet(Holding') /\ Cardinality(Holding') = Cardinality(Holding) + 1
    BY <1>i, <2>2, FS_AddElement DEF SlotInv
  <2>4. Cardinality(Holding) < Concurrency /\ Cardinality(Holding) \in Nat /\ elsewhere' = elsewhere
    BY <1>3, <1>i, FS_CardinalityType DEF GetsSlot, SlotInv
  <2>5. Cardinality(Holding') <= Concurrency
    BY <2>3, <2>4, GovernorBounds
  <2>6. SlotInv'
    BY <1>i, <2>2, <2>3, <2>4, <2>5, Zenon DEF SlotInv
  <2> QED BY <1>3, <1>b, <2>1, <2>6, Zenon DEF GetsSlot
<1>4. ASSUME NEW a \in Askers, GetsShared(a) PROVE GovernorInv'
  <2>1. /\ asker' \in [Askers -> AskerStates] /\ ReadsIn(asker', time)
        /\ asker[a].pc = "shared" /\ asker'[a].pc = "sent"
        /\ \A q \in Askers \ {a} : asker'[q].pc = asker[q].pc
    BY <1>4, <1>i DEF GetsShared, AskerStates
  <2>2. Holding' = Holding /\ Sent' = Sent \cup {a} /\ a \notin Sent /\ Sent \subseteq Holding
    BY <2>1 DEF Holding, Sent
  <2>3. Cardinality(Sent') = Cardinality(Sent) + 1 /\ Cardinality(Sent) \in Nat
    BY <1>i, <2>2, FS_AddElement, FS_Subset, FS_CardinalityType DEF SlotInv
  <2>4. Cardinality(Sent) + elsewhere < SharedCap /\ elsewhere' = elsewhere /\ elsewhere \in Nat
    BY <1>4, <1>i, GovernorBounds DEF GetsShared, SlotInv
  <2>5. Cardinality(Sent') + elsewhere' <= SharedCap
    BY <2>3, <2>4, GovernorBounds
  <2>6. SlotInv'
    BY <1>i, <2>2, <2>4, <2>5, Zenon DEF SlotInv
  <2> QED BY <1>4, <1>b, <2>1, <2>6, Zenon DEF GetsShared
<1>5. ASSUME NEW a \in Askers, GoesAway(a) PROVE GovernorInv'
  <2>1. /\ asker' \in [Askers -> AskerStates] /\ ReadsIn(asker', time)
        /\ \A q \in Askers : asker'[q].pc = asker[q].pc \/ asker'[q].pc = "away"
    BY <1>5, <1>i DEF GoesAway, Away, AskerStates, Unread
  <2>2. Holding' \subseteq Holding /\ Sent' \subseteq Sent
    BY <2>1 DEF Holding, Sent
  <2>3. SlotInv'
    BY <1>5, <1>i, <2>2, FewerSlots DEF GoesAway
  <2> QED BY <1>5, <1>b, <2>1, <2>3, Zenon DEF GoesAway
<1>6. ASSUME NEW n \in 0..SharedCap, OthersMove(n) PROVE GovernorInv'
  <2>1. Holding' = Holding /\ Sent' = Sent /\ elsewhere' = n
    BY <1>6 DEF OthersMove, Holding, Sent
  <2>2. Sent \subseteq Holding
    BY DEF Sent, Holding
  <2>3. Cardinality(Sent) \in Nat
    BY <1>i, <2>2, FS_Subset, FS_CardinalityType DEF SlotInv
  <2>4. Cardinality(Sent) + n <= SharedCap
    BY <1>6, <2>3, GovernorBounds DEF OthersMove
  <2>5. SlotInv'
    BY <1>i, <2>1, <2>4, Zenon DEF SlotInv
  <2> QED BY <1>6, <1>i, <1>b, <2>5, Zenon DEF OthersMove
<1>7. ASSUME ClockTicks PROVE GovernorInv'
  <2>1. /\ time' = time + 1 /\ time' \in 0..MaxTime /\ since' = since /\ since' \in 0..time'
        /\ parts' = parts /\ last' = last /\ paid' = paid /\ doubled' = doubled
        /\ asker' = asker /\ elsewhere' = elsewhere
    BY <1>7, <1>i DEF ClockTicks
  <2>2. ReadsIn(asker', time')
    <3>1. \A a \in Askers : asker[a].read \in Int
      BY <1>i DEF AskerStates
    <3> QED BY <1>i, <2>1, <3>1
  <2>3. ASSUME NEW b \in Buckets PROVE BucketInv(b)'
    <3>1. last[b] \in 0..time'
      BY <1>i, <2>1 DEF BucketInv
    <3> QED BY <1>i, <2>1, <3>1, Zenon DEF BucketInv
  <2>4. Holding' = Holding /\ Sent' = Sent
    BY <2>1 DEF Holding, Sent
  <2>5. SlotInv'
    BY <1>i, <2>1, <2>4, SameSlots
  <2> QED BY <1>i, <2>1, <2>2, <2>3, <2>5, Zenon DEF GovernorInv
<1>8. ASSUME LooksFromNow PROVE GovernorInv'
  <2>1. /\ time' = time /\ since' = time /\ since' \in 0..time'
        /\ parts' = parts /\ last' = last /\ paid' = [b \in Buckets |-> 0] /\ doubled' = [b \in Buckets |-> 0]
        /\ asker' = asker /\ elsewhere' = elsewhere
    BY <1>8, <1>i DEF LooksFromNow
  <2>2. paid' \in [Buckets -> Nat] /\ doubled' \in [Buckets -> Nat]
    BY <2>1
  <2>3. ASSUME NEW b \in Buckets PROVE BucketInv(b)'
    <3>1. /\ parts[b] \in 0..Full[b] /\ last[b] \in 0..time /\ Full[b] \in Nat /\ Rate[b] \in Nat /\ time \in Nat
      BY <1>i, GovernorBounds DEF BucketInv
    <3>2. Accounted(0, parts[b], last[b], time, 0, Full[b], Rate[b])
      <4>1. AtStart(parts[b], last[b], time, Full[b], Rate[b]) <= Full[b]
            /\ AtStart(parts[b], last[b], time, Full[b], Rate[b]) \in Int
        BY <3>1 DEF AtStart, Lesser
      <4>2. (IF last[b] >= time THEN last[b] - time ELSE 0) = 0
        BY <3>1
      <4>3. 0 * Cost = 0 /\ Rate[b] * (0 + 0) = 0
        BY <3>1, GovernorBounds
      <4> QED BY <3>1, <4>1, <4>2, <4>3 DEF Accounted
    <3>3. paid'[b] = 0 /\ doubled'[b] = 0
      BY <2>1
    <3> QED BY <2>1, <3>1, <3>2, <3>3, 0 \in Nat, Zenon DEF BucketInv
  <2>4. Holding' = Holding /\ Sent' = Sent
    BY <2>1 DEF Holding, Sent
  <2>5. SlotInv'
    BY <1>i, <2>1, <2>4, SameSlots
  <2> QED BY <1>i, <2>1, <2>2, <2>3, <2>5, Zenon DEF GovernorInv
<1>9. ASSUME NEW a \in Askers, TriesToTake(a) PROVE GovernorInv'
  <2>p. asker[a].pc \in Buckets /\ asker[a].read # Unread /\ asker[a].read \in Nat
    BY <1>9, <1>i DEF TriesToTake, AskerStates
  <2>b. PICK b \in Buckets : b = asker[a].pc
    BY <2>p
  <2>r. PICK r \in Nat : r = asker[a].read
    BY <2>p
  <2> DEFINE has == Filled(b, r)
             twice == doubled[b] + IF r < last[b] THEN last[b] - r ELSE 0
  <2>0. r \in 0..time /\ time \in Nat /\ since \in Nat /\ asker[a] \in AskerStates
    BY <1>i, <2>r
  <2>u. Unread \in Int /\ Unread <= time
    BY <2>0 DEF Unread
  <2>1. /\ parts[b] \in 0..Full[b] /\ last[b] \in Nat /\ paid[b] \in Nat /\ doubled[b] \in Nat
        /\ Full[b] \in Nat /\ Rate[b] \in Nat /\ Cost \in Nat /\ Rate[b] > 0
        /\ Accounted(paid[b], parts[b], last[b], since, doubled[b], Full[b], Rate[b])
    BY <1>i, <2>0, GovernorBounds DEF BucketInv
  <2>2. has = IF r > last[b] THEN Lesser(Full[b], parts[b] + (r - last[b]) * Rate[b]) ELSE parts[b]
    BY DEF Filled
  <2>3. /\ has \in 0..Full[b] /\ twice \in Nat
        /\ Accounted(paid[b], has, r, since, twice, Full[b], Rate[b])
        /\ has >= Cost =>
             Accounted(paid[b] + IF r >= since THEN 1 ELSE 0, has - Cost, r, since, twice, Full[b], Rate[b])
    <3> HIDE DEF has
    <3>1. StaysEven(paid[b], parts[b], last[b], since, doubled[b], Full[b], Rate[b], r, has, twice)
      BY <2>0, <2>1, AccountStays
    <3> QED BY <2>1, <2>2, <3>1 DEF StaysEven
  <2>4. /\ last' = [last EXCEPT ![b] = r]
        /\ doubled' = [doubled EXCEPT ![b] = twice]
        /\ time' = time /\ elsewhere' = elsewhere /\ since' = since
    BY <1>9, <2>b, <2>r DEF TriesToTake
  <2>5. last' \in [Buckets -> Nat] /\ doubled' \in [Buckets -> Nat]
    BY <1>i, <2>0, <2>3, <2>4
  <2>o. \A q \in Buckets : last'[q] = (IF q = b THEN r ELSE last[q])
                           /\ doubled'[q] = (IF q = b THEN twice ELSE doubled[q])
    BY <1>i, <2>4
  <2>6. ASSUME NEW left \in Nat, left <= Full[b], NEW taken \in Nat,
               parts' = [parts EXCEPT ![b] = left], paid' = [paid EXCEPT ![b] = taken],
               Accounted(taken, left, r, since, twice, Full[b], Rate[b])
        PROVE  /\ parts' \in [Buckets -> Nat] /\ paid' \in [Buckets -> Nat]
               /\ \A q \in Buckets : BucketInv(q)'
    <3>1. parts' \in [Buckets -> Nat] /\ paid' \in [Buckets -> Nat]
      BY <1>i, <2>6
    <3>2. BucketInv(b)'
      <4>1. parts'[b] = left /\ paid'[b] = taken /\ last'[b] = r /\ doubled'[b] = twice
        BY <1>i, <2>0, <2>6, <2>o
      <4>2. left \in 0..Full[b]
        BY <2>1, <2>6
      <4> QED BY <2>0, <2>3, <2>4, <2>6, <4>1, <4>2, Zenon DEF BucketInv
    <3>3. ASSUME NEW q \in Buckets, q # b PROVE BucketInv(q)'
      <4>1. parts'[q] = parts[q] /\ paid'[q] = paid[q] /\ last'[q] = last[q] /\ doubled'[q] = doubled[q]
        BY <1>i, <2>6, <2>o, <3>3
      <4> QED BY <1>i, <2>4, <4>1, Zenon DEF BucketInv
    <3> QED BY <3>1, <3>2, <3>3, Zenon
  <2>7. ASSUME asker' \in [Askers -> AskerStates], ReadsIn(asker', time),
               \A q \in Askers : asker'[q].pc = asker[q].pc
                                   \/ (asker[q].pc \in Buckets /\ asker'[q].pc \in {"total", "slot"}),
               /\ parts' \in [Buckets -> Nat] /\ paid' \in [Buckets -> Nat]
               /\ \A q \in Buckets : BucketInv(q)'
        PROVE  GovernorInv'
    <3>1. Holding' = Holding /\ Sent' = Sent
      BY <2>7 DEF Holding, Sent, Buckets
    <3>2. SlotInv'
      BY <1>i, <2>4, <3>1, SameSlots
    <3> QED BY <1>i, <2>4, <2>5, <2>7, <3>2, Zenon DEF GovernorInv
  <2>8. CASE has >= Cost
    <3> DEFINE taken == paid[b] + IF r >= since THEN 1 ELSE 0
               left == has - Cost
               on == IF b = "login" THEN "total" ELSE "slot"
               none == 0
    <3>1. /\ parts' = [parts EXCEPT ![b] = left] /\ paid' = [paid EXCEPT ![b] = taken]
          /\ asker' = [asker EXCEPT ![a].pc = on, ![a].read = Unread, ![a].wake = none]
      BY <1>9, <2>b, <2>r, <2>8 DEF TriesToTake, Holds
    <3>2. taken \in Nat /\ left \in Nat /\ left <= Full[b] /\ on \in {"total", "slot"} /\ none \in Int
      BY <2>0, <2>1, <2>3, <2>8
    <3>3. Accounted(taken, left, r, since, twice, Full[b], Rate[b])
      BY <2>3, <2>8
    <3> HIDE DEF taken, left, on, none, has, twice
    <3>4. /\ parts' \in [Buckets -> Nat] /\ paid' \in [Buckets -> Nat]
          /\ \A q \in Buckets : BucketInv(q)'
      BY <2>6, <3>1, <3>2, <3>3
    <3>5. /\ asker' \in [Askers -> AskerStates] /\ ReadsIn(asker', time)
          /\ \A q \in Askers : asker'[q].pc = asker[q].pc
                                 \/ (asker[q].pc \in Buckets /\ asker'[q].pc \in {"total", "slot"})
      <4>1. /\ \A q \in Askers : asker'[q] = IF q = a THEN [asker[a] EXCEPT !.pc = on, !.read = Unread, !.wake = none]
                                               ELSE asker[q]
            /\ asker' = [q \in Askers |-> asker'[q]]
        BY <1>i, <3>1
      <4>2. /\ [asker[a] EXCEPT !.pc = on, !.read = Unread, !.wake = none] \in AskerStates
            /\ [asker[a] EXCEPT !.pc = on, !.read = Unread, !.wake = none].pc = on
            /\ [asker[a] EXCEPT !.pc = on, !.read = Unread, !.wake = none].read = Unread
        BY <2>0, <2>u, <3>2 DEF AskerStates
      <4> QED BY <1>i, <2>0, <2>b, <2>u, <3>2, <4>1, <4>2
    <3> QED BY <2>7, <3>4, <3>5
  <2>9. CASE ~(has >= Cost)
    <3> DEFINE till == time + ((Cost - has + Rate[b] - 1) \div Rate[b])
    <3>1. /\ parts' = [parts EXCEPT ![b] = has] /\ paid' = paid
          /\ asker' = [asker EXCEPT ![a].read = Unread, ![a].wake = till]
      BY <1>9, <2>b, <2>r, <2>9 DEF TriesToTake, Holds
    <3>2. till \in Int /\ has \in Nat /\ has <= Full[b]
      BY <2>0, <2>1, <2>3, <2>9
    <3>3. paid' = [paid EXCEPT ![b] = paid[b]]
      BY <1>i, <3>1
    <3> HIDE DEF till, has, twice
    <3>4. /\ parts' \in [Buckets -> Nat] /\ paid' \in [Buckets -> Nat]
          /\ \A q \in Buckets : BucketInv(q)'
      BY <2>1, <2>3, <2>6, <3>1, <3>2, <3>3
    <3>5. /\ asker' \in [Askers -> AskerStates] /\ ReadsIn(asker', time)
          /\ \A q \in Askers : asker'[q].pc = asker[q].pc
                                 \/ (asker[q].pc \in Buckets /\ asker'[q].pc \in {"total", "slot"})
      <4>1. /\ \A q \in Askers : asker'[q] = IF q = a THEN [asker[a] EXCEPT !.read = Unread, !.wake = till]
                                               ELSE asker[q]
            /\ asker' = [q \in Askers |-> asker'[q]]
        BY <1>i, <3>1
      <4>2. /\ [asker[a] EXCEPT !.read = Unread, !.wake = till] \in AskerStates
            /\ [asker[a] EXCEPT !.read = Unread, !.wake = till].pc = b
            /\ [asker[a] EXCEPT !.read = Unread, !.wake = till].read = Unread
        BY <2>0, <2>b, <2>u, <3>2 DEF AskerStates
      <4> QED BY <1>i, <2>0, <2>b, <2>u, <3>2, <4>1, <4>2
    <3> QED BY <2>7, <3>4, <3>5
  <2> QED BY <2>8, <2>9
<1>10. ASSUME UNCHANGED governorVars PROVE GovernorInv'
  <2>1. Holding' = Holding /\ Sent' = Sent
    BY <1>10 DEF governorVars, Holding, Sent
  <2>2. SlotInv'
    BY <1>10, <1>i, <2>1, SameSlots DEF governorVars
  <2> QED BY <1>10, <1>i, <1>b, <2>2, Zenon DEF governorVars
<1> QED
  BY <1>1, <1>2, <1>3, <1>4, <1>5, <1>6, <1>7, <1>8, <1>9, <1>10
     DEF GovernorNext, GovernorEvent, GovernorWork

\* The account bounds what a council is asked in any stretch of time.
LEMMA NeverOverCeiling == GovernorInv => UnderCeiling /\ GovernorTypeOK
<1> SUFFICES ASSUME GovernorInv PROVE UnderCeiling /\ GovernorTypeOK
  OBVIOUS
<1>1. /\ time \in 0..MaxTime /\ since \in 0..time /\ MaxTime \in Nat /\ asker \in [Askers -> AskerStates]
      /\ SlotInv /\ \A b \in Buckets : BucketInv(b)
  BY GovernorBounds DEF GovernorInv
<1>2. ASSUME NEW b \in Buckets PROVE paid[b] * Cost <= Full[b] + Rate[b] * (time - since + doubled[b])
  <2>1. /\ parts[b] \in 0..Full[b] /\ last[b] \in 0..time /\ paid[b] \in Nat /\ doubled[b] \in Nat
        /\ Full[b] \in Nat /\ Rate[b] \in Nat /\ Cost \in Nat /\ time \in Nat /\ since \in Nat
        /\ Accounted(paid[b], parts[b], last[b], since, doubled[b], Full[b], Rate[b])
    BY <1>1, <1>2, GovernorBounds DEF BucketInv
  <2> DEFINE early == AtStart(parts[b], last[b], since, Full[b], Rate[b])
             counted1 == doubled[b] + IF last[b] >= since THEN last[b] - since ELSE 0
             most == time - since + doubled[b]
             spent == paid[b] * Cost
             low == Rate[b] * counted1
             high == Rate[b] * most
  <2>2. spent + early <= Full[b] + low
    BY <2>1 DEF Accounted
  <2>3. early \in Int /\ early >= 0
    <3>1. CASE last[b] >= since
      BY <2>1, <3>1 DEF AtStart
    <3>2. CASE ~(last[b] >= since)
      <4>1. Rate[b] * (since - last[b]) \in Nat
        BY <2>1, <3>2
      <4> QED BY <2>1, <3>2, <4>1 DEF AtStart, Lesser
    <3> QED BY <3>1, <3>2
  <2>4. counted1 \in Nat /\ most \in Nat /\ counted1 <= most
    BY <1>1, <2>1
  <2>5. spent \in Int /\ low \in Int /\ high \in Int /\ low <= high
    <3> HIDE DEF counted1, most
    <3> QED BY <2>1, <2>4
  <2>6. spent <= Full[b] + high
    <3> HIDE DEF early, low, high, spent
    <3> QED BY <2>1, <2>2, <2>3, <2>5
  <2> QED BY <2>6
<1>3. GovernorTypeOK
  <2>1. since \in 0..MaxTime
    BY <1>1
  <2>2. \A b \in Buckets : parts[b] \in 0..Full[b] /\ last[b] \in 0..MaxTime
    BY <1>1 DEF BucketInv
  <2>3. \A a \in Askers : asker[a].pc \in {"away", "login", "total", "slot", "shared", "sent"}
    BY <1>1 DEF AskerStates
  <2> QED BY <1>1, <2>1, <2>2, <2>3, Zenon DEF GovernorTypeOK, SlotInv
<1> QED BY <1>1, <1>2, <1>3 DEF UnderCeiling, SlotInv
---------------------------------------------------------------------------
(* The operator's mailbox.                                                  *)

\* A row that is there, by its name, for one of the letters a letter refers to.
Follows(names, thread) ==
  \E j \in DOMAIN mail : mail[j].named /\ mail[j].letter \in Range(names) /\ mail[j].thread = thread

MailRow(i) == mail[i].letter \in letters /\ mail[i].thread \in 1..i /\ mail[i].named \in BOOLEAN

\* An answer that is out is nowhere on file, and is to join the thread of what it answers.
AnswerInv ==
  /\ sending = NoAnswer \/ sending \in [letter : byUs, thread : DOMAIN mail]
  /\ sending # NoAnswer =>
       /\ ~OnFile(sending.letter)
       /\ refs[sending.letter] = <<>> \/ Follows(refs[sending.letter], sending.thread)

Mails == [letter : Letters, thread : Nat, named : BOOLEAN]

MailInv ==
  /\ letters \subseteq Letters /\ byUs \subseteq letters /\ arrived \subseteq letters
  /\ refs \in [Letters -> Seq(Letters)] /\ \A l \in Letters : Range(refs[l]) \subseteq letters \ {l}
  /\ \A l \in Letters \ letters : refs[l] = <<>>
  /\ mail \in Seq(Mails) /\ Len(mail) <= MaxMail /\ \A i \in DOMAIN mail : MailRow(i)
  /\ alerts \in [Letters -> Nat] /\ \A l \in Letters : alerts[l] = 0 \/ OnFile(l)
  /\ AnswerInv /\ MailIsFiledOnce

LEMMA MailStarts == MailInit => MailInv
<1> SUFFICES ASSUME MailInit PROVE MailInv
  OBVIOUS
<1>1. mail = <<>> /\ mail \in Seq(Mails) /\ Len(mail) = 0 /\ DOMAIN mail = {} /\ Len(mail) <= MaxMail
  BY MailAssumption DEF MailInit
<1>2. /\ refs \in [Letters -> Seq(Letters)] /\ \A l \in Letters : refs[l] = <<>>
      /\ alerts \in [Letters -> Nat] /\ \A l \in Letters : alerts[l] = 0
  BY DEF MailInit
<1>3. \A l \in Letters : Range(refs[l]) = {}
  BY <1>2 DEF Range
<1>4. \A l \in Letters : alerts[l] <= 1
  BY <1>2
<1>5. MailIsFiledOnce
  BY <1>1, <1>4, Zenon DEF MailIsFiledOnce
<1> QED BY <1>1, <1>2, <1>3, <1>5, Zenon DEF MailInit, MailInv, AnswerInv

\* The thread a letter joins is that of a row before it, if it refers to any.
LEMMA ThreadIsOne ==
  ASSUME MailInv, NEW names \in Seq(Letters)
  PROVE  /\ ThreadFor(names) \in 1..(Len(mail) + 1)
         /\ (\E j \in DOMAIN mail : mail[j].named /\ mail[j].letter \in Range(names))
              => Follows(names, ThreadFor(names))
<1> DEFINE found == {k \in DOMAIN names : Rows(names[k]) # {}}
           last1 == Max(found)
           those == Rows(names[last1])
<1>1. /\ mail \in Seq(Mails) /\ \A i \in DOMAIN mail : mail[i].thread \in 1..i
      /\ DOMAIN mail = 1..Len(mail) /\ Len(mail) \in Nat
  BY DEF MailInv, MailRow
<1>2. CASE found = {}
  <2>1. ThreadFor(names) = Len(mail) + 1
    BY <1>2 DEF ThreadFor
  <2>2. ASSUME NEW j \in DOMAIN mail, mail[j].named, mail[j].letter \in Range(names) PROVE FALSE
    <3>1. PICK k \in DOMAIN names : names[k] = mail[j].letter
      BY <2>2 DEF Range
    <3>2. j \in Rows(names[k])
      BY <2>2, <3>1, Zenon DEF Rows
    <3> QED BY <1>2, <3>2
  <2> QED BY <1>1, <2>1, <2>2
<1>3. CASE found # {}
  <2>1. found \in SUBSET Nat /\ \A k \in found : k <= Len(names) /\ Len(names) \in Nat
    BY DEF found
  <2>2. \E x \in found : \A y \in found : y <= x
    <3> HIDE DEF found
    <3> QED BY <1>3, <2>1, LastOfSome
  <2>3. last1 \in found
    <3> HIDE DEF found
    <3>1. \E x \in found : \A y \in found : x >= y
      BY <2>1, <2>2
    <3> QED BY <3>1, Zenon DEF Max
  <2>4. those # {} /\ those \in SUBSET Nat /\ those \subseteq DOMAIN mail
    <3>1. \A k \in found : Rows(names[k]) # {}
      OBVIOUS
    <3>2. those # {}
      <4> HIDE DEF found, last1
      <4> QED BY <2>3, <3>1
    <3>3. \A l : Rows(l) \subseteq DOMAIN mail
      BY DEF Rows
    <3> HIDE DEF found, last1
    <3> QED BY <1>1, <3>2, <3>3
  <2>5. Min(those) \in those
    <3> HIDE DEF those
    <3> QED BY <2>4, FirstOfSome
  <2>6. ThreadFor(names) = mail[Min(those)].thread
    BY <1>3, Zenon DEF ThreadFor
  <2>7. /\ Min(those) \in DOMAIN mail /\ mail[Min(those)].letter = names[last1] /\ mail[Min(those)].named
    <3> DEFINE first == Min(those)
    <3>1. first \in Rows(names[last1])
      BY <2>5
    <3> HIDE DEF first, last1
    <3>2. first \in DOMAIN mail /\ mail[first].letter = names[last1] /\ mail[first].named
      BY <3>1, Zenon DEF Rows
    <3> QED BY <3>2 DEF first
  <2>8. names[last1] \in Range(names)
    BY <2>3 DEF Range
  <2>9. Follows(names, ThreadFor(names))
    BY <2>6, <2>7, <2>8, Zenon DEF Follows
  <2>10. ThreadFor(names) \in 1..(Len(mail) + 1)
    <3> HIDE DEF those, last1, found
    <3> QED BY <1>1, <2>6, <2>7
  <2> QED BY <2>9, <2>10
<1> QED BY <1>2, <1>3

\* One row more, of a letter that was nowhere on file.
LEMMA OneMoreRow ==
  ASSUME MailInv, NEW l \in Letters, l \in letters, ~OnFile(l), NEW thread \in 1..(Len(mail) + 1),
         NEW byName \in BOOLEAN, AddMail(l, thread, byName), letters' = letters, refs' = refs,
         byName /\ (\E j \in DOMAIN mail : mail[j].named /\ mail[j].letter \in Range(refs[l]))
           => Follows(refs[l], thread)
  PROVE  /\ mail' \in Seq(Mails) /\ Len(mail') <= MaxMail /\ \A i \in DOMAIN mail' : MailRow(i)'
         /\ DOMAIN mail \subseteq DOMAIN mail'
         /\ \A q \in Letters : OnFile(q)' <=> OnFile(q) \/ q = l
         /\ \A names \in Seq(Letters), at \in Nat : Follows(names, at) => Follows(names, at)'
         /\ (\A q \in Letters : alerts'[q] <= 1) => MailIsFiledOnce'
<1> DEFINE row == [letter |-> l, thread |-> thread, named |-> byName]
           n == Len(mail) + 1
<1>1. /\ mail \in Seq(Mails) /\ Len(mail) \in Nat /\ DOMAIN mail = 1..Len(mail)
      /\ \A i \in DOMAIN mail : MailRow(i)
  BY DEF MailInv
<1>2. row \in Mails /\ row.letter = l /\ row.thread = thread /\ row.named = byName
  BY <1>1 DEF Mails
<1>3. mail' = Append(mail, row) /\ Len(mail) < MaxMail
  BY DEF AddMail
<1> HIDE DEF row
<1>4. /\ mail' \in Seq(Mails) /\ Len(mail') = n /\ DOMAIN mail' = 1..n /\ n \in Nat /\ n \in DOMAIN mail'
      /\ mail'[n] = row
      /\ \A i \in DOMAIN mail : mail'[i] = mail[i] /\ i \in DOMAIN mail' /\ i < n
      /\ \A i \in DOMAIN mail' : i \in DOMAIN mail \/ i = n
  BY <1>1, <1>2, <1>3
<1>5. Len(mail') <= MaxMail
  BY <1>1, <1>3, <1>4, MailAssumption
<1>6. ASSUME NEW i \in DOMAIN mail' PROVE MailRow(i)'
  <2>1. CASE i \in DOMAIN mail
    BY <1>1, <1>4, <2>1, Zenon DEF MailRow
  <2>2. CASE i = n
    <3>1. mail'[i] = row
      BY <1>4, <2>2
    <3>2. thread \in 1..i
      BY <2>2
    <3> QED BY <1>2, <3>1, <3>2, Zenon DEF MailRow
  <2> QED BY <1>4, <2>1, <2>2
<1> HIDE DEF n
<1>7. \A q \in Letters : OnFile(q)' <=> OnFile(q) \/ q = l
  BY <1>2, <1>4, Zenon DEF OnFile
<1>8. \A names \in Seq(Letters), at \in Nat : Follows(names, at) => Follows(names, at)'
  BY <1>4, Zenon DEF Follows
<1>9. ASSUME \A q \in Letters : alerts'[q] <= 1 PROVE MailIsFiledOnce'
  <2>0. /\ \A i, j \in DOMAIN mail : mail[i].letter = mail[j].letter => i = j
        /\ \A i \in DOMAIN mail :
             LET earlier == {j \in 1..(i - 1) : mail[j].named /\ mail[j].letter \in Range(refs[mail[i].letter])}
             IN mail[i].named /\ earlier # {} => \E j \in earlier : mail[j].thread = mail[i].thread
    BY Zenon DEF MailInv, MailIsFiledOnce
  <2>1. \A i, j \in DOMAIN mail' : mail'[i].letter = mail'[j].letter => i = j
    <3>1. ASSUME NEW i \in DOMAIN mail', NEW j \in DOMAIN mail', mail'[i].letter = mail'[j].letter,
                 j = n, i \in DOMAIN mail
          PROVE  FALSE
      <4>1. mail'[i] = mail[i] /\ mail'[j].letter = l
        BY <1>2, <1>4, <3>1, Zenon
      <4> QED BY <3>1, <4>1, Zenon DEF OnFile
    <3>2. ASSUME NEW i \in DOMAIN mail, NEW j \in DOMAIN mail, mail'[i].letter = mail'[j].letter
          PROVE  i = j
      BY <1>4, <2>0, <3>2, Zenon
    <3> QED BY <1>4, <3>1, <3>2, Zenon
  <2>2. ASSUME NEW i \in DOMAIN mail'
        PROVE  LET earlier == {j \in 1..(i - 1) : mail'[j].named /\ mail'[j].letter \in Range(refs'[mail'[i].letter])}
               IN mail'[i].named /\ earlier # {} => \E j \in earlier : mail'[j].thread = mail'[i].thread
    <3>1. 1..(i - 1) \subseteq DOMAIN mail /\ \A j \in 1..(i - 1) : mail'[j] = mail[j]
      BY <1>1, <1>4 DEF n
    <3>2. CASE i \in DOMAIN mail
      <4>1. mail'[i] = mail[i]
        BY <1>4, <3>2
      <4> DEFINE before == {j \in 1..(i - 1) : mail[j].named /\ mail[j].letter \in Range(refs[mail[i].letter])}
                 after == {j \in 1..(i - 1) : mail'[j].named /\ mail'[j].letter \in Range(refs'[mail'[i].letter])}
      <4>2. after = before
        BY <3>1, <4>1, Zenon
      <4>3. mail[i].named /\ before # {} => \E j \in before : mail[j].thread = mail[i].thread
        BY <2>0, <3>2, Zenon
      <4>4. \A j \in before : mail'[j] = mail[j]
        BY <3>1, Zenon
      <4>5. mail'[i].named /\ after # {} => \E j \in after : mail'[j].thread = mail'[i].thread
        <5> HIDE DEF before, after
        <5> QED BY <4>1, <4>2, <4>3, <4>4, Zenon
      <4> QED BY <4>5, Zenon
    <3>3. CASE i = n
      <4>1. mail'[i] = row /\ 1..(i - 1) = DOMAIN mail
        BY <1>1, <1>4, <3>3 DEF n
      <4>2. refs'[mail'[i].letter] = refs[l] /\ mail'[i].thread = thread /\ mail'[i].named = byName
        BY <1>2, <4>1, Zenon
      <4> DEFINE earlier == {j \in 1..(i - 1) : mail'[j].named /\ mail'[j].letter \in Range(refs[l])}
      <4>3. ASSUME byName, earlier # {} PROVE \E j \in earlier : mail'[j].thread = thread
        <5>1. PICK k \in earlier : TRUE
          BY <4>3
        <5>2. k \in DOMAIN mail /\ mail[k].named /\ mail[k].letter \in Range(refs[l])
          BY <3>1, <4>1, <5>1, Zenon
        <5>3. Follows(refs[l], thread)
          BY <4>3, <5>2
        <5>4. PICK j \in DOMAIN mail : mail[j].named /\ mail[j].letter \in Range(refs[l]) /\ mail[j].thread = thread
          BY <5>3, Zenon DEF Follows
        <5>5. j \in 1..(i - 1) /\ mail'[j] = mail[j]
          BY <3>1, <4>1, <5>4, Zenon
        <5> QED BY <5>4, <5>5, Zenon
      <4> QED BY <4>2, <4>3, Zenon
    <3> QED BY <1>4, <3>2, <3>3
  <2> QED BY <1>9, <2>1, <2>2, Zenon DEF MailIsFiledOnce
<1> QED BY <1>4, <1>5, <1>6, <1>7, <1>8, <1>9, Zenon

\* The invariant goes on: what is filed is filed by its name, and an answer after it was sent.
LEMMA MailMoves == MailInv /\ [MailEvent \/ MailWork]_mailVars => MailInv'
<1> SUFFICES ASSUME MailInv, [MailEvent \/ MailWork]_mailVars PROVE MailInv'
  OBVIOUS
<1>i. /\ letters \subseteq Letters /\ byUs \subseteq letters /\ arrived \subseteq letters
      /\ refs \in [Letters -> Seq(Letters)] /\ \A l \in Letters : Range(refs[l]) \subseteq letters \ {l}
      /\ \A l \in Letters \ letters : refs[l] = <<>>
      /\ mail \in Seq(Mails) /\ Len(mail) <= MaxMail /\ \A i \in DOMAIN mail : MailRow(i)
      /\ alerts \in [Letters -> Nat] /\ \A l \in Letters : alerts[l] = 0 \/ OnFile(l)
      /\ AnswerInv /\ MailIsFiledOnce
  BY Zenon DEF MailInv
<1>a. \A l \in Letters : alerts[l] <= 1
  BY <1>i, Zenon DEF MailIsFiledOnce
<1>n. NoLetter \notin Letters /\ NoAnswer.letter = NoLetter
  BY MailAssumption DEF NoAnswer
\* Where no row comes: a letter may be written, with its references.
<1>k. ASSUME mail' = mail, alerts' = alerts, letters \subseteq letters', \A q \in letters : refs'[q] = refs[q]
      PROVE  /\ \A i \in DOMAIN mail' : MailRow(i)'
             /\ \A q : OnFile(q)' <=> OnFile(q)
             /\ \A names, at : Follows(names, at)' <=> Follows(names, at)
             /\ MailIsFiledOnce'
  <2>1. \A i \in DOMAIN mail : mail[i].letter \in letters
    BY <1>i, Zenon DEF MailRow
  <2>2. ASSUME NEW i \in DOMAIN mail'
        PROVE  LET earlier == {j \in 1..(i - 1) : mail'[j].named /\ mail'[j].letter \in Range(refs'[mail'[i].letter])}
               IN mail'[i].named /\ earlier # {} => \E j \in earlier : mail'[j].thread = mail'[i].thread
    <3>1. refs'[mail'[i].letter] = refs[mail[i].letter] /\ i \in DOMAIN mail
      BY <1>k, <2>1, <2>2, Zenon
    <3> DEFINE before == {j \in 1..(i - 1) : mail[j].named /\ mail[j].letter \in Range(refs[mail[i].letter])}
               after == {j \in 1..(i - 1) : mail'[j].named /\ mail'[j].letter \in Range(refs'[mail'[i].letter])}
    <3>2. after = before
      BY <1>k, <3>1, Zenon
    <3>3. mail[i].named /\ before # {} => \E j \in before : mail[j].thread = mail[i].thread
      BY <1>i, <3>1, Zenon DEF MailIsFiledOnce
    <3>4. mail'[i].named /\ after # {} => \E j \in after : mail'[j].thread = mail'[i].thread
      <4> HIDE DEF before, after
      <4> QED BY <1>k, <3>2, <3>3, Zenon
    <3> QED BY <3>4, Zenon
  <2>3. \A i \in DOMAIN mail' : MailRow(i)'
    BY <1>i, <1>k, Zenon DEF MailRow
  <2>4. \A i, j \in DOMAIN mail' : mail'[i].letter = mail'[j].letter => i = j
    BY <1>i, <1>k, Zenon DEF MailIsFiledOnce
  <2>5. MailIsFiledOnce'
    BY <1>a, <1>k, <2>2, <2>4, Zenon DEF MailIsFiledOnce
  <2> QED BY <1>k, <2>3, <2>5, Zenon DEF OnFile, Follows
<1>1. ASSUME NEW l \in Letters, NEW to \in Letters \cup {NoLetter}, Writes(l, to) PROVE MailInv'
  <2>1. /\ l \notin letters /\ letters' = letters \cup {l} /\ letters' \subseteq Letters
        /\ byUs' = byUs /\ mail' = mail /\ sending' = sending /\ arrived' = arrived /\ alerts' = alerts
        /\ byUs' \subseteq letters' /\ arrived' \subseteq letters'
    BY <1>1, <1>i DEF Writes
  <2>2. /\ refs' \in [Letters -> Seq(Letters)] /\ \A q \in Letters \ {l} : refs'[q] = refs[q]
        /\ Range(refs'[l]) \subseteq letters
    <3>1. CASE to = NoLetter
      <4>1. refs' = refs
        BY <1>1, <3>1 DEF Writes
      <4> QED BY <1>i, <4>1
    <3>2. CASE to # NoLetter
      <4> DEFINE names == Append(refs[to], to)
      <4>1. refs' = [refs EXCEPT ![l] = names] /\ to \in letters /\ to \in Letters
        BY <1>1, <1>i, <3>2 DEF Writes
      <4>2. refs[to] \in Seq(Letters) /\ Range(refs[to]) \subseteq letters
        BY <1>i, <4>1
      <4>3. names \in Seq(Letters) /\ Range(names) \subseteq letters
        BY <4>1, <4>2 DEF Range
      <4> HIDE DEF names
      <4> QED BY <1>i, <4>1, <4>3
    <3> QED BY <3>1, <3>2
  <2>3. \A q \in letters : refs'[q] = refs[q]
    BY <1>i, <2>1, <2>2
  <2>4. /\ \A q \in Letters : Range(refs'[q]) \subseteq letters' \ {q}
        /\ \A q \in Letters \ letters' : refs'[q] = <<>>
    BY <1>i, <2>1, <2>2
  <2>5. AnswerInv'
    <3>1. sending # NoAnswer => sending.letter \in letters
      BY <1>i DEF AnswerInv
    <3>2. sending # NoAnswer => refs'[sending.letter] = refs[sending.letter]
      BY <2>3, <3>1, Zenon
    <3> QED BY <1>i, <1>k, <2>1, <2>3, <3>2, Zenon DEF AnswerInv
  <2> QED BY <1>i, <1>k, <2>1, <2>2, <2>3, <2>4, <2>5, Zenon DEF MailInv
<1>2. ASSUME NEW l \in Letters, NEW i \in DOMAIN mail, SendAnswer(l, i) PROVE MailInv'
  <2> DEFINE to == mail[i].letter
             names == Append(refs[to], to)
  <2>1. /\ l \notin letters /\ letters' = letters \cup {l} /\ letters' \subseteq Letters
        /\ byUs' = byUs \cup {l} /\ mail' = mail /\ arrived' = arrived /\ alerts' = alerts
        /\ byUs' \subseteq letters' /\ arrived' \subseteq letters'
        /\ sending' = [letter |-> l, thread |-> mail[i].thread]
    BY <1>2, <1>i DEF SendAnswer
  <2>2. to \in letters /\ to \in Letters /\ MailRow(i)
    BY <1>i, Zenon DEF MailRow
  <2>3. refs[to] \in Seq(Letters) /\ Range(refs[to]) \subseteq letters
    BY <1>i, <2>2
  <2>4. names \in Seq(Letters) /\ Range(names) \subseteq letters /\ to \in Range(names)
    <3>1. names \in Seq(Letters) /\ Range(names) \subseteq letters
      BY <2>2, <2>3 DEF Range
    <3>2. Len(names) \in DOMAIN names /\ names[Len(names)] = to
      BY <2>2, <2>3
    <3> QED BY <3>1, <3>2 DEF Range
  <2>5. mail[i].named => refs' = [refs EXCEPT ![l] = names]
    BY <1>2, Zenon DEF SendAnswer
  <2>6. ~mail[i].named => refs' = refs
    BY <1>2, Zenon DEF SendAnswer
  <2>7. /\ refs' \in [Letters -> Seq(Letters)] /\ \A q \in Letters \ {l} : refs'[q] = refs[q]
        /\ Range(refs'[l]) \subseteq letters
        /\ refs'[l] = <<>> \/ (mail[i].named /\ refs'[l] = names)
    <3> HIDE DEF names, to
    <3>1. CASE mail[i].named
      <4>1. refs' = [refs EXCEPT ![l] = names]
        BY <2>5, <3>1
      <4>2. /\ refs' \in [Letters -> Seq(Letters)] /\ \A q \in Letters \ {l} : refs'[q] = refs[q]
            /\ refs'[l] = names
        BY <1>i, <2>4, <4>1
      <4> QED BY <2>4, <3>1, <4>2, Zenon
    <3>2. CASE ~mail[i].named
      <4>1. refs' = refs /\ refs[l] = <<>>
        BY <1>i, <2>1, <2>6, <3>2, Zenon
      <4> QED BY <1>i, <4>1
    <3> QED BY <3>1, <3>2
  <2>8. \A q \in letters : refs'[q] = refs[q]
    BY <1>i, <2>1, <2>7
  <2>9. /\ \A q \in Letters : Range(refs'[q]) \subseteq letters' \ {q}
        /\ \A q \in Letters \ letters' : refs'[q] = <<>>
    BY <1>i, <2>1, <2>7
  <2>10. AnswerInv'
    <3>1. sending'.letter = l /\ sending'.thread = mail[i].thread
      BY <2>1
    <3>2. ~OnFile(l)
      BY <1>i, <2>1, Zenon DEF OnFile, MailRow
    <3>3. refs'[l] = <<>> \/ Follows(refs'[l], mail[i].thread)
      BY <2>4, <2>7, Zenon DEF Follows
    <3>4. sending' \in [letter : byUs', thread : DOMAIN mail']
      <4>1. mail[i].thread \in DOMAIN mail
        <5>1. mail[i].thread \in 1..i /\ DOMAIN mail = 1..Len(mail) /\ Len(mail) \in Nat
          BY <1>i, <2>2 DEF MailRow
        <5> HIDE DEF to
        <5> QED BY <5>1
      <4> QED BY <2>1, <4>1
    <3>5. mail' = mail
      BY <2>1
    <3>6. OnFile(sending.letter)' <=> OnFile(l)
      BY <3>1, <3>5, Zenon DEF OnFile
    <3>7. (refs[sending.letter] = <<>> \/ Follows(refs[sending.letter], sending.thread))'
      BY <3>1, <3>3, <3>5, Zenon DEF Follows
    <3> QED BY <3>2, <3>4, <3>6, <3>7, Zenon DEF AnswerInv
  <2> QED BY <1>i, <1>k, <2>1, <2>7, <2>8, <2>9, <2>10, Zenon DEF MailInv
<1>3. ASSUME AnswerUnrecorded PROVE MailInv'
  <2>1. /\ letters' = letters /\ refs' = refs /\ byUs' = byUs /\ mail' = mail /\ arrived' = arrived
        /\ alerts' = alerts /\ sending' = NoAnswer
    BY <1>3 DEF AnswerUnrecorded
  <2>2. AnswerInv'
    BY <2>1 DEF AnswerInv, NoAnswer
  <2> QED BY <1>i, <1>k, <2>1, <2>2, Zenon DEF MailInv
<1>4. ASSUME NEW l \in Letters, NEW readable \in BOOLEAN, NEW flagged \in BOOLEAN, NEW gotBack \in BOOLEAN,
             Receive(l, readable, flagged, gotBack)
      PROVE  MailInv'
  <2>1. /\ letters' = letters /\ refs' = refs /\ byUs' = byUs /\ sending' = sending
        /\ l \in letters /\ l \notin byUs /\ arrived' \subseteq letters'
    BY <1>4, <1>i DEF Receive
  <2>2. CASE OnFile(l)
    <3>1. mail' = mail /\ alerts' = alerts
      BY <1>4, <2>2, Zenon DEF Receive, Repeated
    <3>2. AnswerInv'
      BY <1>i, <1>k, <2>1, <3>1, Zenon DEF AnswerInv
    <3> QED BY <1>i, <1>k, <2>1, <3>1, <3>2, Zenon DEF MailInv
  <2>3. CASE ~OnFile(l)
    <3> DEFINE names == IF readable THEN refs[l] ELSE <<>>
               thread == ThreadFor(names)
    <3>1. AddMail(l, thread, readable)
      BY <1>4, <2>3, Zenon DEF Receive, Repeated
    <3>2. names \in Seq(Letters)
      BY <1>i
    <3>3. /\ thread \in 1..(Len(mail) + 1)
          /\ (\E j \in DOMAIN mail : mail[j].named /\ mail[j].letter \in Range(names)) => Follows(names, thread)
      BY <3>2, ThreadIsOne
    <3>4. readable /\ (\E j \in DOMAIN mail : mail[j].named /\ mail[j].letter \in Range(refs[l]))
            => Follows(refs[l], thread)
      <4> SUFFICES ASSUME readable, \E j \in DOMAIN mail : mail[j].named /\ mail[j].letter \in Range(refs[l])
                   PROVE  Follows(refs[l], thread)
        OBVIOUS
      <4>1. names = refs[l]
        BY Zenon
      <4> HIDE DEF names, thread
      <4> QED BY <3>3, <4>1
    <3> HIDE DEF names, thread
    <3>5. /\ mail' \in Seq(Mails) /\ Len(mail') <= MaxMail /\ \A i \in DOMAIN mail' : MailRow(i)'
          /\ DOMAIN mail \subseteq DOMAIN mail'
          /\ \A q \in Letters : OnFile(q)' <=> OnFile(q) \/ q = l
          /\ \A nn \in Seq(Letters), at \in Nat : Follows(nn, at) => Follows(nn, at)'
          /\ (\A q \in Letters : alerts'[q] <= 1) => MailIsFiledOnce'
      BY <2>1, <2>3, <3>1, <3>3, <3>4, OneMoreRow
    <3>6. alerts' = alerts \/ alerts' = [alerts EXCEPT ![l] = @ + 1]
      BY <1>4, <2>3 DEF Receive, Repeated
    <3>7. /\ alerts' \in [Letters -> Nat] /\ \A q \in Letters : alerts'[q] <= 1
          /\ \A q \in Letters : alerts'[q] = alerts[q] \/ q = l
      <4>1. alerts[l] = 0
        BY <1>i, <2>3
      <4>2. alerts \in [Letters -> Nat] /\ \A q \in Letters : alerts[q] <= 1
        BY <1>i, <1>a
      <4>3. CASE alerts' = alerts
        BY <4>2, <4>3
      <4>4. CASE alerts' = [alerts EXCEPT ![l] = @ + 1]
        BY <4>1, <4>2, <4>4
      <4> QED BY <3>6, <4>3, <4>4
    <3>8. \A q \in Letters : alerts'[q] = 0 \/ OnFile(q)'
      BY <1>i, <3>5, <3>7, Zenon
    <3>9. AnswerInv'
      <4>1. CASE sending = NoAnswer
        BY <2>1, <4>1, Zenon DEF AnswerInv
      <4>2. CASE sending # NoAnswer
        <5>1. /\ sending \in [letter : byUs, thread : DOMAIN mail] /\ ~OnFile(sending.letter)
              /\ refs[sending.letter] = <<>> \/ Follows(refs[sending.letter], sending.thread)
          BY <1>i, <4>2, Zenon DEF AnswerInv
        <5>2. sending.letter \in Letters /\ sending.letter # l /\ sending.thread \in Nat
              /\ refs[sending.letter] \in Seq(Letters)
              /\ sending \in [letter : byUs, thread : DOMAIN mail']
          BY <1>i, <2>1, <3>5, <5>1
        <5>3. ~OnFile(sending.letter)'
          <6> DEFINE s == sending.letter
          <6>1. \A q \in Letters : q # l /\ ~OnFile(q) => ~OnFile(q)'
            BY <3>5
          <6>2. PICK q \in Letters : q = s
            BY <5>2
          <6>3. ~OnFile(q)'
            BY <5>1, <5>2, <6>1, <6>2
          <6> QED BY <2>1, <6>2, <6>3, Zenon DEF OnFile
        <5>4. refs[sending.letter] = <<>> \/ Follows(refs[sending.letter], sending.thread)'
          <6>1. PICK nn \in Seq(Letters), at \in Nat : nn = refs[sending.letter] /\ at = sending.thread
            BY <5>2
          <6>2. nn = <<>> \/ Follows(nn, at)'
            BY <3>5, <5>1, <6>1
          <6>3. refs'[sending'.letter] = nn /\ sending'.thread = at
            BY <2>1, <6>1, Zenon
          <6> QED BY <2>1, <6>1, <6>2, <6>3, Zenon DEF Follows
        <5> QED BY <2>1, <5>2, <5>3, <5>4, Zenon DEF AnswerInv, OnFile, Follows
      <4> QED BY <4>1, <4>2
    <3> QED BY <1>i, <2>1, <3>5, <3>7, <3>8, <3>9, Zenon DEF MailInv
  <2> QED BY <2>2, <2>3
<1>5. ASSUME RecordAnswer PROVE MailInv'
  <2>1. /\ letters' = letters /\ refs' = refs /\ byUs' = byUs /\ arrived' = arrived
        /\ alerts' = alerts /\ sending' = NoAnswer /\ sending # NoAnswer
        /\ AddMail(sending.letter, sending.thread, TRUE)
    BY <1>5, Zenon DEF RecordAnswer
  <2>2. PICK l \in byUs, thread \in DOMAIN mail : sending = [letter |-> l, thread |-> thread]
    BY <1>i, <2>1 DEF AnswerInv
  <2>3. sending.letter = l /\ sending.thread = thread /\ l \in letters /\ l \in Letters
    BY <1>i, <2>2
  <2>4. ~OnFile(l) /\ (refs[l] = <<>> \/ Follows(refs[l], thread)) /\ AddMail(l, thread, TRUE)
    BY <1>i, <2>1, <2>3, Zenon DEF AnswerInv
  <2>5. thread \in 1..(Len(mail) + 1)
    BY <1>i
  <2>6. (\E j \in DOMAIN mail : mail[j].named /\ mail[j].letter \in Range(refs[l])) => Follows(refs[l], thread)
    <3>1. Range(<<>>) = {}
      BY DEF Range
    <3> QED BY <2>4, <3>1, Zenon
  <2>7. /\ mail' \in Seq(Mails) /\ Len(mail') <= MaxMail /\ \A i \in DOMAIN mail' : MailRow(i)'
        /\ \A q \in Letters : OnFile(q)' <=> OnFile(q) \/ q = l
        /\ (\A q \in Letters : alerts'[q] <= 1) => MailIsFiledOnce'
    BY <2>1, <2>3, <2>4, <2>5, <2>6, OneMoreRow
  <2>8. \A q \in Letters : alerts'[q] <= 1
    BY <1>a, <2>1
  <2>9. AnswerInv'
    BY <2>1 DEF AnswerInv, NoAnswer
  <2> QED BY <1>i, <2>1, <2>7, <2>8, <2>9, Zenon DEF MailInv
<1>6. CASE UNCHANGED mailVars
  <2>1. /\ letters' = letters /\ refs' = refs /\ byUs' = byUs /\ mail' = mail /\ arrived' = arrived
        /\ alerts' = alerts /\ sending' = sending
    BY <1>6 DEF mailVars
  <2>2. AnswerInv'
    BY <1>i, <1>k, <2>1, Zenon DEF AnswerInv
  <2> QED BY <1>i, <1>k, <2>1, <2>2, Zenon DEF MailInv
<1> QED BY <1>1, <1>2, <1>3, <1>4, <1>5, <1>6, Zenon DEF MailEvent, MailWork
---------------------------------------------------------------------------
(* Notes that are sent once.                                                *)

AtInvites == {"invites", "member", "owner", "noteOwner", "mark"}
AtOne == {"member", "owner", "noteOwner", "mark"}
Outgoing == {"noteOwner", "notePass", "markPasses"}

\* Why a note that was sent is not sent again: it is marked, or about to be.
Told(n) ==
  \/ n \in OnceNotes /\ (n \in flags \/ (stage = n /\ gone))
  \/ n \in Invited /\ (invite[n] \in {"none", "reminded", "accepted"}
                       \/ (about = n /\ gone /\ stage \in {"owner", "noteOwner", "mark"}))
  \/ n \in Passes /\ (pass[n] \in {"noted", "used"} \/ (n \in todo /\ stage = "markPasses"))

SweepInv ==
  /\ stage \in AtInvites => todo \subseteq Invited
  /\ stage \in AtOne => about \in Invited \ todo
  /\ stage \in {"passes", "markPasses"} => todo \subseteq Passes
  /\ stage \in Outgoing => gone

\* What the sweep has read and not come to is not told of.
CountInv ==
  /\ \A n \in Nudged : copies[n] = 0 \/ (copies[n] = 1 /\ Told(n))
  /\ stage \in AtInvites \cup {"passes"} => \A n \in todo : copies[n] = 0
  /\ stage = "member" => copies[about] = 0

PaceInv ==
  /\ close = FALSE
  /\ stage \notin Outgoing => noteAge <= quietFor
  /\ stage \in {"member", "owner"} => tellOwner = FALSE \/ quietFor = NudgeGap

NudgesInv == NudgesTypeOK /\ SweepInv /\ (sure => CountInv /\ PaceInv)

LEMMA NudgesStart == NudgesInit => NudgesInv
<1> SUFFICES ASSUME NudgesInit PROVE NudgesInv
  OBVIOUS
<1>1. /\ flags = {} /\ progress = "agreed" /\ noteAge = NudgeGap /\ quietFor = NudgeGap
      /\ invite \in [Invited -> {"none", "waiting"}] /\ pass \in [Passes -> {"fresh", "used"}]
      /\ stage = "idle" /\ todo = {} /\ about = NoInvite /\ tellOwner = FALSE /\ gone = FALSE
      /\ copies = [n \in Nudged |-> 0] /\ close = FALSE /\ sure = TRUE
  BY DEF NudgesInit
<1>2. /\ noteAge \in 0..NudgeGap /\ quietFor \in 0..NudgeGap /\ noteAge <= quietFor
      /\ copies \in [Nudged -> 0..2] /\ \A n \in Nudged : copies[n] = 0
      /\ invite \in [Invited -> {"none", "fresh", "waiting", "reminded", "accepted"}]
      /\ pass \in [Passes -> {"fresh", "waiting", "noted", "used"}]
      /\ stage \in Stages /\ stage \notin AtInvites /\ stage \notin AtOne /\ stage \notin Outgoing
      /\ stage # "passes" /\ stage # "markPasses" /\ stage # "member" /\ stage # "owner"
  BY <1>1, NudgeAssumption DEF Stages, AtInvites, AtOne, Outgoing
<1>3. {tellOwner, gone, close, sure} \subseteq BOOLEAN
  BY <1>1, Zenon
<1>4. NudgesTypeOK
  BY <1>1, <1>2, <1>3, Zenon DEF NudgesTypeOK
<1>5. SweepInv /\ CountInv /\ PaceInv
  BY <1>1, <1>2, Zenon DEF SweepInv, CountInv, PaceInv
<1> QED BY <1>4, <1>5, Zenon DEF NudgesInv

\* What going out to some of those who get notes makes of the copies.
LEMMA CopiesGoOut ==
  ASSUME copies \in [Nudged -> 0..2], NEW ns, Delivered(ns)
  PROVE  /\ copies' \in [Nudged -> 0..2]
         /\ \A n \in Nudged : /\ n \notin ns => copies'[n] = copies[n]
                              /\ n \in ns /\ copies[n] = 0 => copies'[n] = 1
<1>1. \A n \in Nudged : copies[n] \in 0..2
  OBVIOUS
<1>2. \A n \in Nudged : copies'[n] = IF n \in ns /\ copies[n] < 2 THEN copies[n] + 1 ELSE copies[n]
  BY DEF Delivered
<1>3. copies' = [n \in Nudged |-> IF n \in ns /\ copies[n] < 2 THEN copies[n] + 1 ELSE copies[n]]
  BY DEF Delivered
<1> QED BY <1>1, <1>2, <1>3

\* Steps that tell nobody anything: what they leave, and where they lead.
LEMMA QuietSteps ==
  ASSUME NudgesInv, copies' = copies, flags' = flags, invite' = invite, pass' = pass, progress' = progress,
         noteAge' = noteAge, quietFor' = quietFor, close' = close, sure' \in BOOLEAN, sure' => sure,
         stage' \in Stages, todo' \subseteq Invited \cup Passes, about' \in Invited \cup {NoInvite},
         tellOwner' \in BOOLEAN, gone' \in BOOLEAN, SweepInv',
         sure' => (\A n \in Nudged : Told(n) => Told(n)'),
         sure' /\ stage' \in AtInvites \cup {"passes"} => \A n \in todo' : copies[n] = 0,
         sure' /\ stage' = "member" => copies[about'] = 0,
         sure' /\ stage' \notin Outgoing => noteAge <= quietFor,
         sure' /\ stage' \in {"member", "owner"} => tellOwner' = FALSE \/ quietFor = NudgeGap
  PROVE  NudgesInv'
<1>1. NudgesTypeOK'
  <2>1. {tellOwner', gone', close', sure'} \subseteq BOOLEAN
    BY Zenon DEF NudgesInv, NudgesTypeOK
  <2> QED BY <2>1, Zenon DEF NudgesInv, NudgesTypeOK
<1>2. ASSUME sure' PROVE CountInv' /\ PaceInv'
  <2>1. CountInv /\ PaceInv
    BY <1>2, Zenon DEF NudgesInv
  <2>2. \A n \in Nudged : copies'[n] = 0 \/ (copies'[n] = 1 /\ Told(n)')
    BY <1>2, <2>1, Zenon DEF CountInv
  <2>3. PaceInv'
    BY <1>2, <2>1, Zenon DEF PaceInv
  <2> QED BY <1>2, <2>2, <2>3, Zenon DEF CountInv
<1> QED BY <1>1, <1>2, Zenon DEF NudgesInv

\* A mail to those who get a note, and what is known of it when nothing is in doubt.
LEMMA MailsOut ==
  ASSUME copies \in [Nudged -> 0..2], sure \in BOOLEAN, NEW ns, NEW o \in Outcomes, Tells(o, ns)
  PROVE  /\ copies' \in [Nudged -> 0..2] /\ sure' \in BOOLEAN
         /\ sure' => sure /\ o \in {"sent", "suppressed", "failed"}
         /\ \A n \in Nudged : n \notin ns => copies'[n] = copies[n]
         /\ o = "sent" => \A n \in Nudged : n \in ns /\ copies[n] = 0 => copies'[n] = 1
         /\ o \in {"suppressed", "failed"} => copies' = copies
<1>1. sure' = (sure /\ o # "unclear")
  BY Zenon DEF Tells, Track
<1>2. sure' \in BOOLEAN /\ (sure' => sure /\ o # "unclear")
  BY <1>1, Zenon
<1>3. o # "unclear" => o \in {"sent", "suppressed", "failed"}
  BY DEF Outcomes
<1>4. CASE Arrives(o)
  <2>1. Delivered(ns)
    BY <1>4, Zenon DEF Tells
  <2>2. o \notin {"suppressed", "failed"}
    BY <1>4 DEF Arrives
  <2> QED BY <1>2, <1>3, <2>1, <2>2, CopiesGoOut, Zenon
<1>5. CASE ~Arrives(o)
  <2>1. copies' = copies
    BY <1>5, Zenon DEF Tells
  <2>2. o # "sent"
    BY <1>5 DEF Arrives
  <2> QED BY <1>2, <1>3, <2>1, <2>2, Zenon
<1> QED BY <1>4, <1>5

\* A mail to the household about somebody who does not act.
LEMMA HeardOfIt ==
  ASSUME quietFor \in 0..NudgeGap, close \in BOOLEAN, NEW ns, NEW o \in Outcomes, TellsOfInaction(o, ns)
  PROVE  /\ quietFor' \in 0..NudgeGap /\ close' \in BOOLEAN
         /\ close = FALSE /\ quietFor = NudgeGap => close' = FALSE
         /\ o \in {"suppressed", "failed"} => quietFor' = quietFor
<1>1. /\ quietFor' = IF Arrives(o) THEN 0 ELSE quietFor
      /\ close' = (close \/ (Arrives(o) /\ quietFor < NudgeGap))
  BY DEF TellsOfInaction
<1>2. quietFor' \in 0..NudgeGap
  BY <1>1, NudgeAssumption
<1>3. close' \in BOOLEAN
  BY <1>1, Zenon
<1>4. ASSUME close = FALSE, quietFor = NudgeGap PROVE close' = FALSE
  <2>1. ~(quietFor < NudgeGap)
    BY <1>4, NudgeAssumption
  <2> QED BY <1>1, <1>4, <2>1, Zenon
<1>5. ASSUME o \in {"suppressed", "failed"} PROVE quietFor' = quietFor
  BY <1>1, <1>5 DEF Arrives
<1> QED BY <1>2, <1>3, <1>4, <1>5, Zenon

\* The invariant goes on, for each sweep, note by note, with stops between a note and its mark.
LEMMA NudgesMove == NudgesInv /\ [NudgeEvent \/ NudgeWork]_nudgeVars => NudgesInv'
<1> SUFFICES ASSUME NudgesInv, [NudgeEvent \/ NudgeWork]_nudgeVars PROVE NudgesInv'
  OBVIOUS
<1>i. NudgesTypeOK /\ SweepInv /\ (sure => CountInv /\ PaceInv)
  BY Zenon DEF NudgesInv
<1>b. tellOwner \in BOOLEAN /\ gone \in BOOLEAN /\ close \in BOOLEAN /\ sure \in BOOLEAN
  BY <1>i, Zenon DEF NudgesTypeOK
<1>n. /\ NoInvite \notin Invited /\ \A n \in Invited : n \notin Passes /\ n \notin OnceNotes
      /\ \A n \in Passes : n \notin Invited /\ n \notin OnceNotes
      /\ \A n \in OnceNotes : n \notin Invited /\ n \notin Passes
  BY NudgeAssumption
<1>1. ASSUME Starts PROVE NudgesInv'
  <2>1. /\ stage = "idle" /\ stage' \in {"welcome", "portal"} /\ stage' \in Stages
        /\ stage' \notin AtInvites \cup {"passes"} /\ stage' \notin AtOne /\ stage' \notin Outgoing /\ stage' # "member"
        /\ stage' \notin {"member", "owner"} /\ stage' \notin {"passes", "markPasses"}
        /\ stage \notin OnceNotes /\ stage # "owner" /\ stage # "noteOwner" /\ stage # "mark" /\ stage # "markPasses"
        /\ stage \notin Outgoing
    BY <1>1 DEF Starts, Stages, AtInvites, AtOne, Outgoing, OnceNotes
  <2>2. UNCHANGED <<flags, invite, pass, progress, noteAge, todo, about, tellOwner, gone, copies, quietFor, close, sure>>
    BY <1>1 DEF Starts, household, hearsay
  <2>3. SweepInv'
    BY <2>1, Zenon DEF SweepInv
  <2>4. \A n \in Nudged : Told(n) => Told(n)'
    BY <2>1, <2>2, Zenon DEF Told
  <2>5. sure => noteAge <= quietFor
    BY <1>i, <2>1, Zenon DEF PaceInv
  <2> QED BY <1>i, <1>b, <2>1, <2>2, <2>3, <2>4, <2>5, QuietSteps, Zenon DEF NudgesTypeOK
<1>2. ASSUME NEW n \in OnceNotes, NotDue(n) PROVE NudgesInv'
  <2>1. /\ stage = n /\ stage' \in {"fortnight", "readInvites", "idle"} /\ stage' \in Stages
        /\ stage' \notin AtInvites \cup {"passes"} /\ stage' \notin AtOne /\ stage' \notin Outgoing /\ stage' # "member"
        /\ stage' \notin {"member", "owner"} /\ stage' \notin {"passes", "markPasses"}
        /\ stage # "markPasses" /\ stage \notin Outgoing
    BY <1>2 DEF NotDue, Go, After, Stages, AtInvites, AtOne, Outgoing, OnceNotes
  <2>2. UNCHANGED <<flags, invite, pass, progress, noteAge, todo, about, tellOwner, gone, copies, quietFor, close, sure>>
    BY <1>2 DEF NotDue, household, hearsay
  <2>3. SweepInv' /\ ~gone
    BY <1>2, <2>1, Zenon DEF SweepInv, NotDue
  <2>4. \A q \in Nudged : Told(q) => Told(q)'
    BY <2>1, <2>2, <2>3, Zenon DEF Told
  <2>5. sure => noteAge <= quietFor
    BY <1>i, <2>1, Zenon DEF PaceInv
  <2> QED BY <1>i, <1>b, <2>1, <2>2, <2>3, <2>4, <2>5, QuietSteps, Zenon DEF NudgesTypeOK
<1>3. ASSUME ReadInvites PROVE NudgesInv'
  <2>1. /\ stage = "readInvites" /\ stage' = "invites" /\ stage' \in Stages
        /\ stage' \in AtInvites /\ stage' \notin AtOne /\ stage' \notin Outgoing /\ stage' # "member"
        /\ stage' \notin {"member", "owner"} /\ stage' \notin {"passes", "markPasses"}
        /\ stage # "markPasses" /\ stage \notin Outgoing /\ stage \notin OnceNotes
        /\ stage \notin {"owner", "noteOwner", "mark"}
    BY <1>3 DEF ReadInvites, Go, Stages, AtInvites, AtOne, Outgoing, OnceNotes
  <2>2. UNCHANGED <<flags, invite, pass, progress, noteAge, about, tellOwner, gone, copies, quietFor, close, sure>>
    BY <1>3 DEF ReadInvites, household, hearsay
  <2>3. todo' \subseteq Invited /\ \A m \in todo' : invite[m] = "waiting" /\ m \in Nudged
    BY <1>3 DEF ReadInvites, Nudged
  <2>4. \A q \in Nudged : Told(q) => Told(q)'
    BY <2>1, <2>2, Zenon DEF Told
  <2>5. SweepInv'
    BY <2>1, <2>3, Zenon DEF SweepInv
  <2>6. ASSUME sure, NEW m \in todo' PROVE copies[m] = 0
    <3>1. invite[m] \notin {"none", "reminded", "accepted"} /\ m \notin OnceNotes /\ m \notin Passes
      BY <1>n, <2>3
    <3>2. ~Told(m)
      BY <2>1, <3>1, Zenon DEF Told
    <3> QED BY <1>i, <2>3, <2>6, <3>2, Zenon DEF CountInv
  <2>7. sure => noteAge <= quietFor
    BY <1>i, <2>1, Zenon DEF PaceInv
  <2>8. todo' \subseteq Invited \cup Passes
    BY <2>3
  <2> QED BY <1>i, <1>b, <2>1, <2>2, <2>4, <2>5, <2>6, <2>7, <2>8, QuietSteps, Zenon DEF NudgesTypeOK
<1>4. ASSUME NEW m \in Invited, NEW ok \in BOOLEAN, Consider(m, ok) PROVE NudgesInv'
  <2>1. /\ stage = "invites" /\ m \in todo /\ todo' = todo \ {m}
        /\ stage \in AtInvites /\ stage \notin Outgoing /\ stage \notin OnceNotes
        /\ stage # "markPasses" /\ stage \notin {"owner", "noteOwner", "mark"}
    BY <1>4 DEF Consider, AtInvites, Outgoing, OnceNotes
  <2>2. UNCHANGED <<flags, invite, pass, progress, noteAge, gone, copies, quietFor, close, sure>>
    BY <1>4 DEF Consider, household, hearsay
  <2>3. \/ stage' = "member" /\ about' = m /\ tellOwner' = (noteAge = NudgeGap)
        \/ stage' = "invites" /\ about' = about /\ tellOwner' = tellOwner
    BY <1>4, <2>1, Zenon DEF Consider, MayTell, Allowed, Go
  <2>4. /\ stage' \in Stages /\ stage' \in AtInvites /\ stage' \notin Outgoing
        /\ stage' \notin {"passes", "markPasses"}
        /\ stage' \in AtOne \/ stage' \in {"member", "owner"} => stage' = "member"
    BY <2>1, <2>3 DEF Stages, AtInvites, AtOne, Outgoing
  <2>5. todo \subseteq Invited /\ todo' \subseteq Invited /\ todo' \subseteq todo /\ todo' \subseteq Invited \cup Passes /\ m \notin todo'
    <3>1. todo \subseteq Invited
      BY <1>i, <2>1, Zenon DEF SweepInv
    <3> QED BY <2>1, <3>1
  <2>6. \A q \in Nudged : Told(q) => Told(q)'
    BY <2>1, <2>2, Zenon DEF Told
  <2>s. stage' = "member" => about' = m
    <3>1. "member" # "invites"
      OBVIOUS
    <3> QED BY <2>3, <3>1, Zenon
  <2>7. SweepInv'
    <3>1. stage' = "member" => about' \in Invited \ todo'
      BY <2>5, <2>s
    <3> QED BY <2>4, <2>5, <3>1, Zenon DEF SweepInv
  <2>8. sure => (noteAge <= quietFor /\ copies[m] = 0 /\ \A q \in todo' : copies[q] = 0)
    BY <1>i, <2>1, <2>5, Zenon DEF PaceInv, CountInv
  <2>9. tellOwner' \in BOOLEAN /\ about' \in Invited \cup {NoInvite}
    BY <1>i, <1>b, <2>3, Zenon DEF NudgesTypeOK
  <2>10. sure /\ stage' = "member" => tellOwner' = FALSE \/ quietFor = NudgeGap
    <3>1. CASE noteAge = NudgeGap
      <4>1. noteAge \in 0..NudgeGap /\ quietFor \in 0..NudgeGap
        BY <1>i DEF NudgesTypeOK
      <4>2. noteAge <= quietFor => quietFor = NudgeGap
        BY <3>1, <4>1, NudgeAssumption
      <4> QED BY <2>8, <4>2, Zenon
    <3>2. CASE noteAge # NudgeGap
      <4>1. "member" # "invites"
        OBVIOUS
      <4>2. stage' = "member" => tellOwner' = (noteAge = NudgeGap)
        BY <2>3, <4>1, Zenon
      <4>3. (noteAge = NudgeGap) = FALSE
        BY <3>2, Zenon
      <4> QED BY <4>2, <4>3, Zenon
    <3> QED BY <3>1, <3>2
  <2> QED BY <1>i, <1>b, <2>s, <2>2, <2>4, <2>5, <2>6, <2>7, <2>8, <2>9, <2>10, QuietSteps, Zenon
<1>5. ASSUME OwnerHeld PROVE NudgesInv'
  <2>1. /\ stage = "owner" /\ stage' = "mark" /\ stage' \in Stages
        /\ stage \in AtInvites /\ stage \in AtOne /\ stage \notin Outgoing /\ stage \notin OnceNotes
        /\ stage' \in AtInvites /\ stage' \notin Outgoing /\ stage' # "member"
        /\ stage' \notin {"member", "owner"} /\ stage' \notin {"passes", "markPasses"}
        /\ stage' \in {"owner", "noteOwner", "mark"} /\ stage # "markPasses"
    BY <1>5 DEF OwnerHeld, Go, Stages, AtInvites, AtOne, Outgoing, OnceNotes
  <2>2. UNCHANGED <<flags, invite, pass, progress, noteAge, todo, about, tellOwner, gone, copies, quietFor, close, sure>>
    BY <1>5 DEF OwnerHeld, household, hearsay
  <2>3. SweepInv'
    BY <1>i, <2>1, <2>2, Zenon DEF SweepInv
  <2>4. \A q \in Nudged : Told(q) => Told(q)'
    BY <2>1, <2>2, Zenon DEF Told
  <2>5. sure => noteAge <= quietFor /\ \A q \in todo' : copies[q] = 0
    BY <1>i, <2>1, <2>2, Zenon DEF PaceInv, CountInv
  <2> QED BY <1>i, <1>b, <2>1, <2>2, <2>3, <2>4, <2>5, QuietSteps, Zenon DEF NudgesTypeOK
<1>6. ASSUME InvitesDone PROVE NudgesInv'
  <2>1. /\ stage = "invites" /\ stage' = "readPasses" /\ stage' \in Stages
        /\ stage \in AtInvites /\ stage \notin Outgoing /\ stage \notin OnceNotes
        /\ stage' \notin AtInvites \cup {"passes"} /\ stage' \notin AtOne /\ stage' \notin Outgoing /\ stage' # "member"
        /\ stage' \notin {"member", "owner"} /\ stage' \notin {"passes", "markPasses"}
        /\ stage \notin {"owner", "noteOwner", "mark"} /\ stage # "markPasses"
    BY <1>6 DEF InvitesDone, Go, Stages, AtInvites, AtOne, Outgoing, OnceNotes
  <2>2. UNCHANGED <<flags, invite, pass, progress, noteAge, todo, about, tellOwner, gone, copies, quietFor, close, sure>>
    BY <1>6 DEF InvitesDone, household, hearsay
  <2>3. SweepInv'
    BY <2>1, Zenon DEF SweepInv
  <2>4. \A q \in Nudged : Told(q) => Told(q)'
    BY <2>1, <2>2, Zenon DEF Told
  <2>5. sure => noteAge <= quietFor
    BY <1>i, <2>1, Zenon DEF PaceInv
  <2> QED BY <1>i, <1>b, <2>1, <2>2, <2>3, <2>4, <2>5, QuietSteps, Zenon DEF NudgesTypeOK
<1>7. ASSUME ReadPasses PROVE NudgesInv'
  <2>1. /\ stage = "readPasses" /\ stage' \in {"passes", "idle"} /\ stage' \in Stages
        /\ stage \notin AtInvites /\ stage \notin Outgoing /\ stage \notin OnceNotes
        /\ stage' \notin AtInvites /\ stage' \notin AtOne /\ stage' \notin Outgoing /\ stage' # "member"
        /\ stage' \notin {"member", "owner"}
        /\ stage \notin {"owner", "noteOwner", "mark"} /\ stage # "markPasses"
    BY <1>7 DEF ReadPasses, Go, Stages, AtInvites, AtOne, Outgoing, OnceNotes
  <2>2. UNCHANGED <<flags, invite, pass, progress, noteAge, about, tellOwner, gone, copies, quietFor, close, sure>>
    BY <1>7 DEF ReadPasses, household, hearsay
  <2>3. todo' \subseteq Passes /\ \A p \in todo' : pass[p] = "waiting" /\ p \in Nudged
    BY <1>7 DEF ReadPasses, Nudged
  <2>4. \A q \in Nudged : Told(q) => Told(q)'
    BY <2>1, <2>2, Zenon DEF Told
  <2>5. SweepInv'
    BY <2>1, <2>3, Zenon DEF SweepInv
  <2>6. ASSUME sure, NEW p \in todo' PROVE copies[p] = 0
    <3>1. pass[p] \notin {"noted", "used"} /\ p \notin OnceNotes /\ p \notin Invited
      BY <1>n, <2>3
    <3>2. ~Told(p)
      BY <2>1, <3>1, Zenon DEF Told
    <3> QED BY <1>i, <2>3, <2>6, <3>2, Zenon DEF CountInv
  <2>7. sure => noteAge <= quietFor
    BY <1>i, <2>1, Zenon DEF PaceInv
  <2>8. todo' \subseteq Invited \cup Passes
    BY <2>3
  <2> QED BY <1>i, <1>b, <2>1, <2>2, <2>4, <2>5, <2>6, <2>7, <2>8, QuietSteps, Zenon DEF NudgesTypeOK
<1>8. ASSUME NEW ok \in BOOLEAN, PassesHeld(ok) PROVE NudgesInv'
  <2>1. /\ stage = "passes" /\ stage' = "idle" /\ stage' \in Stages /\ todo' = {}
        /\ stage \notin AtInvites /\ stage \notin Outgoing /\ stage \notin OnceNotes
        /\ stage' \notin AtInvites \cup {"passes"} /\ stage' \notin AtOne /\ stage' \notin Outgoing /\ stage' # "member"
        /\ stage' \notin {"member", "owner"} /\ stage' \notin {"passes", "markPasses"}
        /\ stage \notin {"owner", "noteOwner", "mark"} /\ stage # "markPasses"
    BY <1>8 DEF PassesHeld, Go, Stages, AtInvites, AtOne, Outgoing, OnceNotes
  <2>2. UNCHANGED <<flags, invite, pass, progress, noteAge, about, tellOwner, gone, copies, quietFor, close, sure>>
    BY <1>8 DEF PassesHeld, household, hearsay
  <2>3. SweepInv' /\ todo' \subseteq Invited \cup Passes
    BY <2>1, Zenon DEF SweepInv
  <2>4. \A q \in Nudged : Told(q) => Told(q)'
    BY <2>1, <2>2, Zenon DEF Told
  <2>5. sure => noteAge <= quietFor
    BY <1>i, <2>1, Zenon DEF PaceInv
  <2> QED BY <1>i, <1>b, <2>1, <2>2, <2>3, <2>4, <2>5, QuietSteps, Zenon DEF NudgesTypeOK
<1>9. ASSUME NudgesRestart PROVE NudgesInv'
  <2>1. /\ stage' = "idle" /\ stage' \in Stages /\ todo' = {} /\ about' = NoInvite /\ gone' = FALSE
        /\ stage' \notin AtInvites \cup {"passes"} /\ stage' \notin AtOne /\ stage' \notin Outgoing /\ stage' # "member"
        /\ stage' \notin {"member", "owner"} /\ stage' \notin {"passes", "markPasses"}
        /\ "markPasses" \in Outgoing
    BY <1>9 DEF NudgesRestart, Go, Stages, AtInvites, AtOne, Outgoing
  <2>2. UNCHANGED <<flags, invite, pass, progress, noteAge, tellOwner, copies, quietFor, close>>
    BY <1>9 DEF NudgesRestart, household, hearsay
  <2>3. SweepInv' /\ todo' \subseteq Invited \cup Passes /\ about' \in Invited \cup {NoInvite}
    BY <2>1, Zenon DEF SweepInv
  <2>4. sure' \in BOOLEAN /\ (sure' => sure /\ ~gone) /\ gone' \in BOOLEAN
    BY <1>9, <1>b, <2>1, Zenon DEF NudgesRestart
  <2>5. ~gone => stage \notin Outgoing /\ stage # "markPasses"
    BY <1>i, <2>1, Zenon DEF SweepInv
  <2>6. ~gone => \A q \in Nudged : Told(q) => Told(q)'
    BY <2>2, <2>5, Zenon DEF Told
  <2>7. sure' => noteAge <= quietFor
    BY <1>i, <2>4, <2>5, Zenon DEF PaceInv
  <2> QED BY <1>i, <1>b, <2>1, <2>2, <2>3, <2>4, <2>6, <2>7, QuietSteps, Zenon
<1>t. ASSUME NudgesTypeOK', SweepInv', sure' => CountInv' /\ PaceInv' PROVE NudgesInv'
  BY <1>t, Zenon DEF NudgesInv
<1>10. ASSUME NEW n \in OnceNotes, NEW o \in Outcomes, SendOnce(n, o) PROVE NudgesInv'
  <2>1. /\ stage = n /\ gone = FALSE /\ n \notin flags /\ Tells(o, {n}) /\ gone' = Settled(o)
    BY <1>10, <1>b, Zenon DEF SendOnce, Fits
  <2>2. UNCHANGED <<flags, invite, pass, progress, noteAge, todo, about, tellOwner, quietFor, close>>
    BY <1>10 DEF SendOnce, household
  <2>3. gone' \in BOOLEAN /\ (o \in {"sent"} => gone' = TRUE) /\ (gone' => stage' = n)
    <3>1. Settled(o) \in BOOLEAN /\ (o \in {"sent"} => Settled(o))
      BY DEF Settled
    <3>2. gone' => stage' = n
      BY <1>10, Zenon DEF SendOnce, Go
    <3> QED BY <2>1, <3>1, <3>2, Zenon
  <2>4. /\ stage' \in Stages /\ stage' \notin AtInvites \cup {"passes"} /\ stage' \notin AtOne
        /\ stage' \notin Outgoing /\ stage' # "member" /\ stage' \notin {"member", "owner"}
        /\ stage' \notin {"passes", "markPasses"} /\ stage # "markPasses"
        /\ stage \notin {"owner", "noteOwner", "mark"} /\ stage \notin Outgoing
    BY <1>10, <2>1 DEF SendOnce, Go, After, Stages, AtInvites, AtOne, Outgoing, OnceNotes
  <2>5. /\ copies' \in [Nudged -> 0..2] /\ sure' \in BOOLEAN
        /\ sure' => sure /\ o \in {"sent", "suppressed", "failed"}
        /\ \A q \in Nudged : q \notin {n} => copies'[q] = copies[q]
        /\ o = "sent" => \A q \in Nudged : q \in {n} /\ copies[q] = 0 => copies'[q] = 1
        /\ o \in {"suppressed", "failed"} => copies' = copies
    BY <1>i, <1>b, <2>1, MailsOut, Zenon DEF NudgesTypeOK
  <2>6. NudgesTypeOK' /\ SweepInv'
    <3>1. {tellOwner', gone', close', sure'} \subseteq BOOLEAN
      BY <1>b, <2>2, <2>3, <2>5, Zenon
    <3> QED BY <1>i, <2>2, <2>4, <2>5, <3>1, Zenon DEF NudgesTypeOK, SweepInv
  <2>7. ASSUME sure' PROVE CountInv' /\ PaceInv'
    <3>1. CountInv /\ PaceInv
      BY <1>i, <2>5, <2>7, Zenon
    <3>2. copies[n] = 0
      <4>1. n \in Nudged /\ ~Told(n)
        BY <1>n, <2>1, Zenon DEF Told, Nudged
      <4> QED BY <3>1, <4>1, Zenon DEF CountInv
    <3>3. ASSUME NEW q \in Nudged, q # n PROVE copies'[q] = 0 \/ (copies'[q] = 1 /\ Told(q)')
      <4>1. copies'[q] = copies[q] /\ (Told(q) => Told(q)')
        BY <2>1, <2>2, <2>4, <2>5, <3>3, Zenon DEF Told
      <4> QED BY <3>1, <4>1, Zenon DEF CountInv
    <3>4. copies'[n] = 0 \/ (copies'[n] = 1 /\ Told(n)')
      <4>1. CASE o = "sent"
        <5>1. n \in Nudged /\ copies'[n] = 1
          BY <2>5, <3>2, <4>1, Zenon DEF Nudged
        <5>2. gone' = TRUE /\ stage' = n
          BY <2>3, <4>1, Zenon
        <5> QED BY <5>1, <5>2, Zenon DEF Told
      <4>2. CASE o # "sent"
        BY <2>5, <2>7, <3>2, <4>2, Zenon
      <4> QED BY <4>1, <4>2
    <3>5. CountInv'
      BY <2>4, <3>3, <3>4, Zenon DEF CountInv
    <3> QED BY <2>2, <2>4, <3>1, <3>5, Zenon DEF PaceInv
  <2> QED BY <1>t, <2>6, <2>7
<1>11. ASSUME NEW n \in OnceNotes, NEW ok \in BOOLEAN, MarkOnce(n, ok) PROVE NudgesInv'
  <2>1. /\ stage = n /\ gone /\ gone' = FALSE /\ sure' = (sure /\ (ok \/ ~gone))
        /\ (ok => flags' = flags \cup {n}) /\ (~ok => flags' = flags)
    BY <1>11, Zenon DEF MarkOnce, Marks
  <2>2. UNCHANGED <<invite, pass, progress, noteAge, todo, about, tellOwner, copies, quietFor, close>>
    BY <1>11 DEF MarkOnce, household, hearsay
  <2>4. /\ stage' \in Stages /\ stage' \notin AtInvites \cup {"passes"} /\ stage' \notin AtOne
        /\ stage' \notin Outgoing /\ stage' # "member" /\ stage' \notin {"member", "owner"}
        /\ stage' \notin {"passes", "markPasses"} /\ stage # "markPasses"
        /\ stage \notin {"owner", "noteOwner", "mark"} /\ stage \notin Outgoing
    BY <1>11, <2>1 DEF MarkOnce, Go, After, Stages, AtInvites, AtOne, Outgoing, OnceNotes
  <2>5. sure' \in BOOLEAN /\ (sure' => sure /\ ok) /\ flags' \subseteq OnceNotes
    <3>1. flags \subseteq OnceNotes
      BY <1>i, Zenon DEF NudgesTypeOK
    <3> QED BY <2>1, <3>1, Zenon
  <2>6. NudgesTypeOK' /\ SweepInv'
    <3>1. {tellOwner', gone', close', sure'} \subseteq BOOLEAN
      BY <1>b, <2>1, <2>2, <2>5, Zenon
    <3> QED BY <1>i, <2>2, <2>4, <2>5, <3>1, Zenon DEF NudgesTypeOK, SweepInv
  <2>7. ASSUME sure' PROVE CountInv' /\ PaceInv'
    <3>1. CountInv /\ PaceInv /\ flags' = flags \cup {n}
      BY <1>i, <2>1, <2>5, <2>7, Zenon
    <3>2. \A q \in Nudged : Told(q) => Told(q)'
      BY <2>1, <2>2, <2>4, <3>1, Zenon DEF Told
    <3>3. CountInv'
      BY <2>2, <2>4, <3>1, <3>2, Zenon DEF CountInv
    <3> QED BY <2>2, <2>4, <3>1, <3>3, Zenon DEF PaceInv
  <2> QED BY <1>t, <2>6, <2>7
<1>12. ASSUME NEW o \in Outcomes, RemindMember(o) PROVE NudgesInv'
  <2>1. stage = "member" /\ Tells(o, {about}) /\ gone' = Settled(o) /\ stage' = "owner"
    BY <1>12, Zenon DEF RemindMember, Go
  <2>2. UNCHANGED <<flags, invite, pass, progress, noteAge, todo, about, tellOwner, quietFor, close>>
    BY <1>12 DEF RemindMember, household
  <2>3. gone' \in BOOLEAN /\ (o = "sent" => gone' = TRUE)
    <3>1. Settled(o) \in BOOLEAN /\ (o = "sent" => Settled(o))
      BY DEF Settled
    <3> QED BY <2>1, <3>1, Zenon
  <2>4. /\ stage' \in Stages /\ stage' \in AtInvites /\ stage' \in AtOne
        /\ stage' \notin Outgoing /\ stage' # "member" /\ stage' \in {"member", "owner"}
        /\ stage' \notin {"passes", "markPasses"} /\ stage # "markPasses" /\ stage \notin OnceNotes
        /\ stage \notin {"owner", "noteOwner", "mark"} /\ stage' \in {"owner", "noteOwner", "mark"}
        /\ stage \in AtInvites /\ stage \in AtOne /\ stage \notin Outgoing /\ stage \in {"member", "owner"}
    BY <2>1 DEF Stages, AtInvites, AtOne, Outgoing, OnceNotes
  <2>a. about \in Invited \ todo /\ about \in Nudged /\ todo \subseteq Invited /\ todo \subseteq Nudged
    <3>1. about \in Invited \ todo /\ todo \subseteq Invited
      BY <1>i, <2>4, Zenon DEF SweepInv
    <3> QED BY <3>1 DEF Nudged
  <2>5. /\ copies' \in [Nudged -> 0..2] /\ sure' \in BOOLEAN
        /\ sure' => sure /\ o \in {"sent", "suppressed", "failed"}
        /\ \A q \in Nudged : q \notin {about} => copies'[q] = copies[q]
        /\ o = "sent" => \A q \in Nudged : q \in {about} /\ copies[q] = 0 => copies'[q] = 1
        /\ o \in {"suppressed", "failed"} => copies' = copies
    BY <1>i, <1>b, <2>1, MailsOut, Zenon DEF NudgesTypeOK
  <2>6. NudgesTypeOK' /\ SweepInv'
    <3>1. {tellOwner', gone', close', sure'} \subseteq BOOLEAN
      BY <1>b, <2>2, <2>3, <2>5, Zenon
    <3> QED BY <1>i, <2>2, <2>4, <2>5, <2>a, <3>1, Zenon DEF NudgesTypeOK, SweepInv
  <2>7. ASSUME sure' PROVE CountInv' /\ PaceInv'
    <3>1. CountInv /\ PaceInv
      BY <1>i, <2>5, <2>7, Zenon
    <3>2. copies[about] = 0
      BY <2>1, <3>1, Zenon DEF CountInv
    <3>3. ASSUME NEW q \in Nudged, q # about PROVE copies'[q] = 0 \/ (copies'[q] = 1 /\ Told(q)')
      <4>1. copies'[q] = copies[q] /\ (Told(q) => Told(q)')
        BY <2>1, <2>2, <2>4, <2>5, <3>3, Zenon DEF Told
      <4> QED BY <3>1, <4>1, Zenon DEF CountInv
    <3>4. ASSUME NEW q \in Nudged, q = about PROVE copies'[q] = 0 \/ (copies'[q] = 1 /\ Told(q)')
      <4>1. CASE o = "sent"
        <5>1. copies'[q] = 1
          BY <2>5, <3>2, <3>4, <4>1, Zenon
        <5>2. gone' = TRUE /\ about' = q /\ q \in Invited
          BY <2>2, <2>3, <2>a, <3>4, <4>1, Zenon
        <5> QED BY <2>4, <5>1, <5>2, Zenon DEF Told
      <4>2. CASE o # "sent"
        BY <2>5, <2>7, <3>2, <3>4, <4>2, Zenon
      <4> QED BY <4>1, <4>2
    <3>5. \A q \in todo' : copies'[q] = 0
      <4>1. \A q \in todo : q # about /\ q \in Nudged /\ copies[q] = 0
        BY <2>4, <2>a, <3>1, Zenon DEF CountInv
      <4> QED BY <2>2, <2>5, <4>1, Zenon
    <3>6. CountInv'
      BY <2>4, <3>3, <3>4, <3>5, Zenon DEF CountInv
    <3> QED BY <2>2, <2>4, <3>1, <3>6, Zenon DEF PaceInv
  <2> QED BY <1>t, <2>6, <2>7
<1>13. ASSUME NEW o \in Outcomes, TellOwner(o) PROVE NudgesInv'
  <2>1. stage = "owner" /\ tellOwner /\ TellsOfInaction(o, {}) /\ Tells(o, {}) /\ gone' = (gone \/ Settled(o))
    BY <1>13, Zenon DEF TellOwner, TellsOfInaction
  <2>2. UNCHANGED <<flags, invite, pass, progress, noteAge, todo, about, tellOwner>>
    BY <1>13 DEF TellOwner, household
  <2>3. \/ Settled(o) /\ stage' = "noteOwner"
        \/ ~Settled(o) /\ stage' = "mark"
    BY <1>13, Zenon DEF TellOwner, Go
  <2>4. /\ stage' \in Stages /\ stage' \in AtInvites /\ stage' \in AtOne
        /\ stage' # "member" /\ stage' \notin {"member", "owner"}
        /\ stage' \notin {"passes", "markPasses"} /\ stage # "markPasses" /\ stage \notin OnceNotes
        /\ stage' \in {"owner", "noteOwner", "mark"}
        /\ stage \in AtInvites /\ stage \in AtOne /\ stage \notin Outgoing /\ stage \in {"member", "owner"}
        /\ "mark" \notin Outgoing /\ "noteOwner" \in Outgoing /\ "mark" # "noteOwner"
    BY <2>1, <2>3 DEF Stages, AtInvites, AtOne, Outgoing, OnceNotes
  <2>g. gone' \in BOOLEAN /\ (gone => gone') /\ (stage' \in Outgoing => gone')
    BY <2>1, <2>3, <2>4, Zenon
  <2>5. /\ copies' \in [Nudged -> 0..2] /\ sure' \in BOOLEAN
        /\ sure' => sure /\ o \in {"sent", "suppressed", "failed"}
        /\ \A q \in Nudged : copies'[q] = copies[q]
    <3> DEFINE nobody == {}
    <3>1. Tells(o, nobody) /\ \A q \in Nudged : q \notin nobody
      BY <2>1, Zenon
    <3> HIDE DEF nobody
    <3>2. copies \in [Nudged -> 0..2]
      BY <1>i, Zenon DEF NudgesTypeOK
    <3> QED BY <1>b, <3>1, <3>2, MailsOut, Zenon
  <2>h. /\ quietFor' \in 0..NudgeGap /\ close' \in BOOLEAN
        /\ close = FALSE /\ quietFor = NudgeGap => close' = FALSE
        /\ o \in {"suppressed", "failed"} => quietFor' = quietFor
    BY <1>i, <1>b, <2>1, HeardOfIt, Zenon DEF NudgesTypeOK
  <2>6. NudgesTypeOK' /\ SweepInv'
    <3>1. {tellOwner', gone', close', sure'} \subseteq BOOLEAN
      BY <1>b, <2>2, <2>g, <2>h, <2>5, Zenon
    <3> QED BY <1>i, <2>2, <2>4, <2>5, <2>g, <2>h, <3>1, Zenon DEF NudgesTypeOK, SweepInv
  <2>7. ASSUME sure' PROVE CountInv' /\ PaceInv'
    <3>1. CountInv /\ PaceInv
      BY <1>i, <2>5, <2>7, Zenon
    <3>2. \A q \in Nudged : copies'[q] = copies[q] /\ (Told(q) => Told(q)')
      BY <2>1, <2>2, <2>4, <2>5, <2>g, Zenon DEF Told
    <3>3. \A q \in todo' : copies'[q] = 0
      <4>1. todo \subseteq Nudged
        <5>1. todo \subseteq Invited
          BY <1>i, <2>4, Zenon DEF SweepInv
        <5> QED BY <5>1 DEF Nudged
      <4> QED BY <2>2, <2>4, <3>1, <3>2, <4>1, Zenon DEF CountInv
    <3>4. CountInv'
      BY <2>4, <3>1, <3>2, <3>3, Zenon DEF CountInv
    <3>5. quietFor = NudgeGap /\ close = FALSE /\ noteAge <= quietFor
      BY <2>1, <2>4, <3>1, Zenon DEF PaceInv
    <3>6. stage' \notin Outgoing => noteAge' <= quietFor'
      <4>1. CASE Settled(o)
        BY <2>3, <2>4, <4>1, Zenon
      <4>2. CASE ~Settled(o)
        <5>1. o # "sent"
          BY <4>2 DEF Settled
        <5>2. o \in {"suppressed", "failed"}
          BY <2>5, <2>7, <5>1, Zenon
        <5> QED BY <2>2, <2>h, <3>5, <5>2, Zenon
      <4> QED BY <4>1, <4>2
    <3> QED BY <2>4, <2>h, <3>4, <3>5, <3>6, Zenon DEF PaceInv
  <2> QED BY <1>t, <2>6, <2>7
<1>14. ASSUME NEW ok \in BOOLEAN, NoteInaction(ok) PROVE NudgesInv'
  <2>1. /\ stage \in {"noteOwner", "notePass"} /\ sure' = (sure /\ (ok \/ ~gone))
        /\ (ok => noteAge' = 0) /\ (~ok => noteAge' = noteAge)
        /\ gone' = (gone /\ stage = "noteOwner")
        /\ (stage = "noteOwner" => stage' = "mark") /\ (stage # "noteOwner" => stage' = "idle")
    BY <1>14, Zenon DEF NoteInaction, Marks, Go
  <2>2. UNCHANGED <<flags, invite, pass, progress, todo, about, tellOwner, copies, quietFor, close>>
    BY <1>14 DEF NoteInaction, household, hearsay
  <2>4. /\ stage' \in Stages
        /\ stage' \in AtInvites => stage \in AtInvites /\ stage = "noteOwner"
        /\ stage' \in AtOne => stage \in AtOne
        /\ stage' \notin Outgoing /\ stage' # "member" /\ stage' # "passes" /\ stage' \notin {"member", "owner"}
        /\ stage' \notin {"passes", "markPasses"} /\ stage # "markPasses" /\ stage \notin OnceNotes
        /\ stage \in Outgoing
        /\ stage \in {"owner", "noteOwner", "mark"} => stage' \in {"owner", "noteOwner", "mark"} /\ stage = "noteOwner"
    BY <2>1 DEF Stages, AtInvites, AtOne, Outgoing, OnceNotes
  <2>5. gone /\ gone' \in BOOLEAN /\ sure' \in BOOLEAN /\ (sure' => sure /\ ok) /\ (stage = "noteOwner" => gone')
    <3>1. gone
      BY <1>i, <2>4, Zenon DEF SweepInv
    <3> QED BY <2>1, <3>1, Zenon
  <2>a. noteAge' \in 0..NudgeGap
    <3>1. noteAge \in 0..NudgeGap /\ 0 \in 0..NudgeGap
      BY <1>i, NudgeAssumption DEF NudgesTypeOK
    <3> QED BY <2>1, <3>1, Zenon
  <2>6. NudgesTypeOK' /\ SweepInv'
    <3>1. {tellOwner', gone', close', sure'} \subseteq BOOLEAN
      BY <1>b, <2>2, <2>5, Zenon
    <3> QED BY <1>i, <2>2, <2>4, <2>a, <3>1, Zenon DEF NudgesTypeOK, SweepInv
  <2>7. ASSUME sure' PROVE CountInv' /\ PaceInv'
    <3>1. CountInv /\ PaceInv /\ noteAge' = 0
      BY <1>i, <2>1, <2>5, <2>7, Zenon
    <3>2. \A q \in Nudged : Told(q) => Told(q)'
      BY <2>1, <2>2, <2>4, <2>5, Zenon DEF Told
    <3>3. CountInv'
      BY <2>2, <2>4, <3>1, <3>2, Zenon DEF CountInv
    <3>4. noteAge' <= quietFor'
      BY <1>i, <2>2, <3>1, NudgeAssumption DEF NudgesTypeOK
    <3> QED BY <2>2, <2>4, <3>1, <3>3, <3>4, Zenon DEF PaceInv
  <2> QED BY <1>t, <2>6, <2>7
<1>15. ASSUME NEW ok \in BOOLEAN, MarkReminded(ok) PROVE NudgesInv'
  <2>1. /\ stage = "mark" /\ sure' = (sure /\ (ok \/ ~gone)) /\ gone' = FALSE /\ about' = NoInvite
        /\ stage' = "invites"
        /\ (gone /\ ok /\ invite[about] \in {"fresh", "waiting"} => invite' = [invite EXCEPT ![about] = "reminded"])
        /\ (~(gone /\ ok /\ invite[about] \in {"fresh", "waiting"}) => invite' = invite)
    BY <1>15, Zenon DEF MarkReminded, Marks, Go
  <2>2. UNCHANGED <<flags, pass, progress, noteAge, todo, tellOwner, copies, quietFor, close>>
    BY <1>15 DEF MarkReminded, hearsay
  <2>4. /\ stage' \in Stages /\ stage' \in AtInvites /\ stage' \notin AtOne
        /\ stage' \notin Outgoing /\ stage' # "member" /\ stage' \notin {"member", "owner"}
        /\ stage' \notin {"passes", "markPasses"} /\ stage # "markPasses" /\ stage \notin OnceNotes
        /\ stage \in AtInvites /\ stage \in AtOne /\ stage \notin Outgoing
    BY <2>1 DEF Stages, AtInvites, AtOne, Outgoing, OnceNotes
  <2>a. about \in Invited /\ todo \subseteq Invited
    BY <1>i, <2>4, Zenon DEF SweepInv
  <2>b. invite \in [Invited -> {"none", "fresh", "waiting", "reminded", "accepted"}]
    BY <1>i, Zenon DEF NudgesTypeOK
  <2>c. /\ invite' \in [Invited -> {"none", "fresh", "waiting", "reminded", "accepted"}]
        /\ \A m \in Invited : invite'[m] = invite[m] \/ invite'[m] = "reminded"
    <3>1. invite' = invite \/ invite' = [invite EXCEPT ![about] = "reminded"]
      BY <2>1, Zenon
    <3> QED BY <2>a, <2>b, <3>1
  <2>d. gone /\ ok => invite'[about] \in {"none", "reminded", "accepted"}
    <3>1. CASE invite[about] \in {"fresh", "waiting"}
      <4>1. [invite EXCEPT ![about] = "reminded"][about] = "reminded"
        BY <2>a, <2>b
      <4> QED BY <2>1, <3>1, <4>1, Zenon
    <3>2. CASE invite[about] \notin {"fresh", "waiting"}
      <4>1. invite[about] \in {"none", "reminded", "accepted"}
        BY <2>a, <2>b, <3>2
      <4> QED BY <2>1, <3>2, <4>1, Zenon
    <3> QED BY <3>1, <3>2
  <2>5. sure' \in BOOLEAN /\ (sure' => sure /\ (gone => ok))
    BY <2>1, Zenon
  <2>6. NudgesTypeOK' /\ SweepInv'
    <3>1. {tellOwner', gone', close', sure'} \subseteq BOOLEAN
      BY <1>b, <2>1, <2>2, <2>5, Zenon
    <3> QED BY <1>i, <2>1, <2>2, <2>4, <2>a, <2>c, <3>1, Zenon DEF NudgesTypeOK, SweepInv
  <2>7. ASSUME sure' PROVE CountInv' /\ PaceInv'
    <3>1. CountInv /\ PaceInv /\ (gone => ok)
      BY <1>i, <2>5, <2>7, Zenon
    <3>2. ASSUME NEW q \in Nudged, Told(q) PROVE Told(q)'
      <4>1. CASE q \in OnceNotes
        BY <1>n, <2>1, <2>2, <2>4, <3>2, <4>1, Zenon DEF Told
      <4>2. CASE q \in Passes
        BY <1>n, <2>1, <2>2, <2>4, <3>2, <4>2, Zenon DEF Told
      <4>3. CASE q \in Invited
        <5>1. invite[q] \in {"none", "reminded", "accepted"} \/ (about = q /\ gone)
          BY <1>n, <3>2, <4>3, Zenon DEF Told
        <5>2. invite'[q] \in {"none", "reminded", "accepted"}
          BY <2>c, <2>d, <3>1, <4>3, <5>1, Zenon
        <5> QED BY <4>3, <5>2, Zenon DEF Told
      <4> QED BY <4>1, <4>2, <4>3, Zenon DEF Nudged
    <3>3. CountInv'
      BY <2>2, <2>4, <3>1, <3>2, Zenon DEF CountInv
    <3> QED BY <2>2, <2>4, <3>1, <3>3, Zenon DEF PaceInv
  <2> QED BY <1>t, <2>6, <2>7
<1>16. ASSUME NEW o \in Outcomes, TellOfPasses(o) PROVE NudgesInv'
  <2>1. stage = "passes" /\ noteAge = NudgeGap /\ TellsOfInaction(o, todo) /\ Tells(o, todo) /\ gone' = Settled(o)
    BY <1>16, Zenon DEF TellOfPasses, TellsOfInaction, MayTell, Allowed
  <2>2. UNCHANGED <<flags, invite, pass, progress, noteAge, about, tellOwner>>
    BY <1>16 DEF TellOfPasses, household
  <2>3. \/ Settled(o) /\ stage' = "markPasses" /\ todo' = todo
        \/ ~Settled(o) /\ stage' = "idle" /\ todo' = {}
    BY <1>16, Zenon DEF TellOfPasses, Go
  <2>4. /\ stage' \in Stages /\ stage' \notin AtInvites \cup {"passes"} /\ stage' \notin AtOne
        /\ stage' # "member" /\ stage' \notin {"member", "owner"}
        /\ stage # "markPasses" /\ stage \notin OnceNotes /\ stage \in {"passes", "markPasses"}
        /\ stage \notin {"owner", "noteOwner", "mark"} /\ stage \notin Outgoing
        /\ "idle" \notin Outgoing /\ "markPasses" \in Outgoing /\ stage \in AtInvites \cup {"passes"}
    BY <2>1, <2>3 DEF Stages, AtInvites, AtOne, Outgoing, OnceNotes
  <2>g. gone' \in BOOLEAN /\ (stage' \in Outgoing => gone')
    <3>1. Settled(o) \in BOOLEAN
      BY DEF Settled
    <3> QED BY <2>1, <2>3, <2>4, <3>1, Zenon
  <2>a. todo \subseteq Passes /\ todo \subseteq Nudged /\ todo' \subseteq Passes /\ todo' \subseteq Invited \cup Passes
    <3>1. todo \subseteq Passes
      BY <1>i, <2>4, Zenon DEF SweepInv
    <3> QED BY <2>3, <3>1 DEF Nudged
  <2>5. /\ copies' \in [Nudged -> 0..2] /\ sure' \in BOOLEAN
        /\ sure' => sure /\ o \in {"sent", "suppressed", "failed"}
        /\ \A q \in Nudged : q \notin todo => copies'[q] = copies[q]
        /\ o = "sent" => \A q \in Nudged : q \in todo /\ copies[q] = 0 => copies'[q] = 1
        /\ o \in {"suppressed", "failed"} => copies' = copies
    BY <1>i, <1>b, <2>1, MailsOut, Zenon DEF NudgesTypeOK
  <2>h. /\ quietFor' \in 0..NudgeGap /\ close' \in BOOLEAN
        /\ close = FALSE /\ quietFor = NudgeGap => close' = FALSE
        /\ o \in {"suppressed", "failed"} => quietFor' = quietFor
    BY <1>i, <1>b, <2>1, HeardOfIt, Zenon DEF NudgesTypeOK
  <2>6. NudgesTypeOK' /\ SweepInv'
    <3>1. {tellOwner', gone', close', sure'} \subseteq BOOLEAN
      BY <1>b, <2>2, <2>g, <2>h, <2>5, Zenon
    <3> QED BY <1>i, <2>2, <2>4, <2>5, <2>a, <2>g, <2>h, <3>1, Zenon DEF NudgesTypeOK, SweepInv
  <2>7. ASSUME sure' PROVE CountInv' /\ PaceInv'
    <3>1. CountInv /\ PaceInv
      BY <1>i, <2>5, <2>7, Zenon
    <3>2. \A q \in todo : copies[q] = 0
      BY <2>4, <3>1, Zenon DEF CountInv
    <3>3. ASSUME NEW q \in Nudged, q \notin todo PROVE copies'[q] = 0 \/ (copies'[q] = 1 /\ Told(q)')
      <4>1. copies'[q] = copies[q] /\ (Told(q) => Told(q)')
        BY <2>1, <2>2, <2>4, <2>5, <3>3, Zenon DEF Told
      <4> QED BY <3>1, <4>1, Zenon DEF CountInv
    <3>4. ASSUME NEW q \in todo PROVE copies'[q] = 0 \/ (copies'[q] = 1 /\ Told(q)')
      <4>1. CASE o = "sent"
        <5>1. copies'[q] = 1 /\ q \in Passes
          BY <2>5, <2>a, <3>2, <4>1, Zenon
        <5>2. Settled(o)
          BY <4>1 DEF Settled
        <5>3. q \in todo' /\ stage' = "markPasses"
          BY <2>3, <5>2, Zenon
        <5> QED BY <5>1, <5>3, Zenon DEF Told
      <4>2. CASE o # "sent"
        BY <2>5, <2>7, <3>2, <4>2, Zenon
      <4> QED BY <4>1, <4>2
    <3>5. CountInv'
      BY <2>4, <3>3, <3>4, Zenon DEF CountInv
    <3>6. close = FALSE /\ noteAge <= quietFor
      BY <2>4, <3>1, Zenon DEF PaceInv
    <3>7. quietFor = NudgeGap
      BY <1>i, <2>1, <3>6, NudgeAssumption DEF NudgesTypeOK
    <3>8. stage' \notin Outgoing => noteAge' <= quietFor'
      <4>1. CASE Settled(o)
        BY <2>3, <2>4, <4>1, Zenon
      <4>2. CASE ~Settled(o)
        <5>1. o # "sent"
          BY <4>2 DEF Settled
        <5>2. o \in {"suppressed", "failed"}
          BY <2>5, <2>7, <5>1, Zenon
        <5> QED BY <2>2, <2>h, <3>6, <5>2, Zenon
      <4> QED BY <4>1, <4>2
    <3> QED BY <2>4, <2>h, <3>5, <3>6, <3>7, <3>8, Zenon DEF PaceInv
  <2> QED BY <1>t, <2>6, <2>7
<1>17. ASSUME NEW marks \in SUBSET todo, MarkPasses(marks) PROVE NudgesInv'
  <2>1. /\ stage = "markPasses" /\ sure' = (sure /\ (marks = todo \/ ~gone)) /\ todo' = {}
        /\ gone' = (marks = todo)
    BY <1>17, Zenon DEF MarkPasses, Marks
  <2>2. UNCHANGED <<flags, invite, progress, noteAge, about, tellOwner, copies, quietFor, close>>
    BY <1>17 DEF MarkPasses, hearsay
  <2>3. (marks = todo /\ stage' = "notePass") \/ (marks # todo /\ stage' = "idle")
    BY <1>17, <2>1, Zenon DEF MarkPasses, Go
  <2>4. /\ stage' \in Stages /\ stage' \notin AtInvites \cup {"passes"} /\ stage' \notin AtOne
        /\ stage' # "member" /\ stage' \notin {"member", "owner"} /\ stage' \notin {"passes", "markPasses"}
        /\ stage \notin OnceNotes /\ stage \in {"passes", "markPasses"}
        /\ stage \notin {"owner", "noteOwner", "mark"} /\ stage \in Outgoing
        /\ "idle" \notin Outgoing /\ "notePass" \in Outgoing
    BY <2>1, <2>3 DEF Stages, AtInvites, AtOne, Outgoing, OnceNotes
  <2>5. /\ gone' \in BOOLEAN /\ (stage' \in Outgoing => gone')
        /\ sure' \in BOOLEAN /\ (sure' => sure /\ marks = todo)
    <3>1. gone
      BY <1>i, <2>4, Zenon DEF SweepInv
    <3> QED BY <2>1, <2>3, <2>4, <3>1, Zenon
  <2>a. todo \subseteq Passes
    BY <1>i, <2>4, Zenon DEF SweepInv
  <2>b. /\ pass' \in [Passes -> {"fresh", "waiting", "noted", "used"}]
        /\ \A p \in Passes : /\ pass[p] \in {"noted", "used"} => pass'[p] \in {"noted", "used"}
                             /\ p \in marks => pass'[p] \in {"noted", "used"}
    <3>1. pass \in [Passes -> {"fresh", "waiting", "noted", "used"}]
      BY <1>i, Zenon DEF NudgesTypeOK
    <3>2. pass' = [p \in Passes |-> IF p \in marks /\ pass[p] # "used" THEN "noted" ELSE pass[p]]
      BY <1>17 DEF MarkPasses
    <3> QED BY <3>1, <3>2
  <2>6. NudgesTypeOK' /\ SweepInv'
    <3>1. {tellOwner', gone', close', sure'} \subseteq BOOLEAN
      BY <1>b, <2>2, <2>5, Zenon
    <3> QED BY <1>i, <2>1, <2>2, <2>4, <2>5, <2>b, <3>1, Zenon DEF NudgesTypeOK, SweepInv
  <2>7. ASSUME sure' PROVE CountInv' /\ PaceInv'
    <3>1. CountInv /\ PaceInv /\ marks = todo
      BY <1>i, <2>5, <2>7, Zenon
    <3>2. ASSUME NEW q \in Nudged, Told(q) PROVE Told(q)'
      <4>1. CASE q \in OnceNotes \/ q \in Invited
        BY <1>n, <2>1, <2>2, <2>4, <3>2, <4>1, Zenon DEF Told
      <4>2. CASE q \in Passes
        <5>1. pass[q] \in {"noted", "used"} \/ q \in todo
          BY <1>n, <3>2, <4>2, Zenon DEF Told
        <5>2. pass'[q] \in {"noted", "used"}
          BY <2>b, <3>1, <4>2, <5>1, Zenon
        <5> QED BY <4>2, <5>2, Zenon DEF Told
      <4> QED BY <4>1, <4>2, Zenon DEF Nudged
    <3>3. CountInv'
      BY <2>2, <2>4, <3>1, <3>2, Zenon DEF CountInv
    <3>4. stage' \in Outgoing
      BY <2>3, <2>4, <3>1, Zenon
    <3> QED BY <2>2, <2>4, <3>1, <3>3, <3>4, Zenon DEF PaceInv
  <2> QED BY <1>t, <2>6, <2>7
<1>18. ASSUME DaysPass PROVE NudgesInv'
  <2>1. /\ invite' = [m \in Invited |-> IF invite[m] = "fresh" THEN "waiting" ELSE invite[m]]
        /\ pass' = [p \in Passes |-> IF pass[p] = "fresh" THEN "waiting" ELSE pass[p]]
        /\ noteAge' = IF noteAge < NudgeGap THEN noteAge + 1 ELSE noteAge
        /\ quietFor' = IF quietFor < NudgeGap THEN quietFor + 1 ELSE quietFor
    BY <1>18 DEF DaysPass
  <2>2. UNCHANGED <<flags, progress, stage, todo, about, tellOwner, gone, copies, close, sure>>
    BY <1>18 DEF DaysPass, sweep
  <2>3. /\ invite' \in [Invited -> {"none", "fresh", "waiting", "reminded", "accepted"}]
        /\ pass' \in [Passes -> {"fresh", "waiting", "noted", "used"}]
        /\ \A m \in Invited : invite[m] \in {"none", "reminded", "accepted"} => invite'[m] = invite[m]
        /\ \A p \in Passes : pass[p] \in {"noted", "used"} => pass'[p] = pass[p]
    <3>1. /\ invite \in [Invited -> {"none", "fresh", "waiting", "reminded", "accepted"}]
          /\ pass \in [Passes -> {"fresh", "waiting", "noted", "used"}]
      BY <1>i, Zenon DEF NudgesTypeOK
    <3> QED BY <2>1, <3>1
  <2>4. /\ noteAge' \in 0..NudgeGap /\ quietFor' \in 0..NudgeGap
        /\ noteAge <= quietFor => noteAge' <= quietFor'
        /\ quietFor = NudgeGap => quietFor' = NudgeGap
    <3>1. noteAge \in 0..NudgeGap /\ quietFor \in 0..NudgeGap
      BY <1>i, Zenon DEF NudgesTypeOK
    <3> QED BY <2>1, <3>1, NudgeAssumption
  <2>5. \A q \in Nudged : Told(q) => Told(q)'
    BY <2>2, <2>3, Zenon DEF Told
  <2>6. NudgesTypeOK' /\ SweepInv'
    BY <1>i, <2>2, <2>3, <2>4, Zenon DEF NudgesTypeOK, SweepInv
  <2>7. ASSUME sure' PROVE CountInv' /\ PaceInv'
    <3>1. CountInv /\ PaceInv
      BY <1>i, <2>2, <2>7, Zenon
    <3> QED BY <2>2, <2>4, <2>5, <3>1, Zenon DEF CountInv, PaceInv
  <2> QED BY <1>t, <2>6, <2>7
<1>19. ASSUME HouseholdMoves PROVE NudgesInv'
  <2>1. UNCHANGED <<flags, noteAge, stage, todo, about, tellOwner, gone, quietFor, close, sure>>
    BY <1>19 DEF HouseholdMoves, sweep
  <2>i. /\ invite \in [Invited -> {"none", "fresh", "waiting", "reminded", "accepted"}]
        /\ pass \in [Passes -> {"fresh", "waiting", "noted", "used"}]
        /\ progress \in {"agreed", "linked", "changed"} /\ copies \in [Nudged -> 0..2]
    BY <1>i, Zenon DEF NudgesTypeOK
  \* Each note is as it was, or its row says that it has been sent, or it is a new one.
  <2>2. ASSUME /\ invite' \in [Invited -> {"none", "fresh", "waiting", "reminded", "accepted"}]
               /\ pass' \in [Passes -> {"fresh", "waiting", "noted", "used"}]
               /\ progress' \in {"agreed", "linked", "changed"} /\ copies' \in [Nudged -> 0..2],
               /\ \A m \in Invited : invite'[m] = invite[m] \/ invite'[m] \in {"none", "reminded", "accepted"}
                                     \/ copies'[m] = 0
               /\ \A p \in Passes : pass'[p] = pass[p] \/ pass'[p] \in {"noted", "used"}
               /\ \A n \in Nudged : copies'[n] = copies[n] \/ copies'[n] = 0
        PROVE  NudgesInv'
    <3>1. NudgesTypeOK' /\ SweepInv'
      BY <1>i, <2>1, <2>2, Zenon DEF NudgesTypeOK, SweepInv
    <3>2. ASSUME sure' PROVE CountInv' /\ PaceInv'
      <4>1. CountInv /\ PaceInv
        BY <1>i, <2>1, <3>2, Zenon
      <4>2. ASSUME NEW n \in Nudged PROVE copies'[n] = 0 \/ (copies'[n] = 1 /\ Told(n)')
        <5>1. ASSUME copies'[n] # 0 PROVE copies'[n] = 1 /\ Told(n)
          BY <2>2, <4>1, <5>1, Zenon DEF CountInv
        <5>2. ASSUME copies'[n] # 0, Told(n) PROVE Told(n)'
          BY <2>1, <2>2, <5>2, Zenon DEF Told
        <5> QED BY <5>1, <5>2, Zenon
      <4>3. stage \in AtInvites \cup {"passes"} => todo \subseteq Nudged
        <5>1. todo \subseteq Invited \cup Passes
          BY <1>i, Zenon DEF NudgesTypeOK
        <5> QED BY <5>1 DEF Nudged
      <4>4. stage' \in AtInvites \cup {"passes"} => \A n \in todo' : copies'[n] = 0
        BY <2>1, <2>2, <4>1, <4>3, Zenon DEF CountInv
      <4>5. stage' = "member" => copies'[about'] = 0
        <5>1. "member" \in AtOne
          BY DEF AtOne
        <5>2. stage = "member" => about \in Nudged
          BY <1>i, <5>1, Zenon DEF SweepInv, Nudged
        <5> QED BY <2>1, <2>2, <4>1, <5>2, Zenon DEF CountInv
      <4>6. CountInv'
        BY <4>2, <4>4, <4>5, Zenon DEF CountInv
      <4> QED BY <2>1, <4>1, <4>6, Zenon DEF PaceInv
    <3> QED BY <1>t, <3>1, <3>2
  <2>3. ASSUME NEW m \in Invited,
               \/ invite[m] = "none" /\ invite' = [invite EXCEPT ![m] = "fresh"]
               \/ invite[m] # "none" /\ invite' = [invite EXCEPT ![m] = "none"]
               \/ invite[m] \in {"fresh", "waiting", "reminded"}
                    /\ invite' = [invite EXCEPT ![m] = "accepted"],
               copies' = IF invite'[m] = "fresh" THEN [copies EXCEPT ![m] = 0] ELSE copies,
               UNCHANGED <<pass, progress>>
        PROVE  NudgesInv'
    <3>1. PICK s \in {"fresh", "none", "accepted"} : invite' = [invite EXCEPT ![m] = s]
      BY <2>3
    <3>2. /\ invite' \in [Invited -> {"none", "fresh", "waiting", "reminded", "accepted"}]
          /\ invite'[m] = s /\ \A q \in Invited \ {m} : invite'[q] = invite[q]
      BY <2>i, <2>3, <3>1
    <3>3. m \in Nudged
      BY <2>3 DEF Nudged
    <3>4. /\ copies' \in [Nudged -> 0..2] /\ \A n \in Nudged : copies'[n] = copies[n] \/ copies'[n] = 0
          /\ s = "fresh" => copies'[m] = 0
      BY <2>i, <2>3, <3>2, <3>3
    <3>5. \A q \in Invited : invite'[q] = invite[q] \/ invite'[q] \in {"none", "reminded", "accepted"}
                             \/ copies'[q] = 0
      BY <3>2, <3>4
    <3>6. pass' = pass /\ progress' = progress
      BY <2>3
    <3> QED BY <2>i, <2>2, <3>2, <3>4, <3>5, <3>6, Zenon
  <2>4. ASSUME NEW p \in Passes, pass' = [pass EXCEPT ![p] = "used"], UNCHANGED <<invite, progress, copies>>
        PROVE  NudgesInv'
    <3>1. /\ pass' \in [Passes -> {"fresh", "waiting", "noted", "used"}]
          /\ \A q \in Passes : pass'[q] = pass[q] \/ pass'[q] \in {"noted", "used"}
      BY <2>i, <2>4
    <3>2. invite' = invite /\ progress' = progress /\ copies' = copies
      BY <2>4
    <3> QED BY <2>i, <2>2, <3>1, <3>2, Zenon
  <2>5. ASSUME progress' = IF progress = "agreed" THEN "linked" ELSE "changed", UNCHANGED <<invite, pass, copies>>
        PROVE  NudgesInv'
    <3>1. progress' \in {"agreed", "linked", "changed"}
      BY <2>5
    <3>2. invite' = invite /\ pass' = pass /\ copies' = copies
      BY <2>5
    <3> QED BY <2>i, <2>2, <3>1, <3>2, Zenon
  <2> QED BY <1>19, <2>3, <2>4, <2>5 DEF HouseholdMoves
<1>20. CASE UNCHANGED nudgeVars
  <2>1. UNCHANGED <<flags, invite, pass, progress, noteAge, stage, todo, about, tellOwner, gone, copies, quietFor, close, sure>>
    BY <1>20 DEF nudgeVars
  <2>2. \A q \in Nudged : Told(q) => Told(q)'
    BY <2>1, Zenon DEF Told
  <2>3. NudgesTypeOK' /\ SweepInv'
    BY <1>i, <2>1, Zenon DEF NudgesTypeOK, SweepInv
  <2>4. sure' => CountInv' /\ PaceInv'
    BY <1>i, <2>1, <2>2, Zenon DEF CountInv, PaceInv
  <2> QED BY <1>t, <2>3, <2>4
<1>s. ASSUME NEW outs \in SUBSET Outcomes, NEW oks \in SUBSET BOOLEAN, NEW some \in SUBSET (SUBSET todo),
             SweepSteps(outs, oks, some)
      PROVE  NudgesInv'
  <2>1. CASE \E n \in OnceNotes : \/ \E o \in outs : SendOnce(n, o)
                                  \/ \E ok \in oks : MarkOnce(n, ok)
    BY <1>s, <1>10, <1>11, <2>1
  <2>2. CASE \E o \in outs : RemindMember(o) \/ TellOwner(o) \/ TellOfPasses(o)
    BY <1>s, <1>12, <1>13, <1>16, <2>2
  <2>3. CASE \E ok \in oks : \/ NoteInaction(ok) \/ MarkReminded(ok) \/ PassesHeld(ok)
                            \/ \E m \in Invited : Consider(m, ok)
    <3>1. PICK ok \in oks : \/ NoteInaction(ok) \/ MarkReminded(ok) \/ PassesHeld(ok)
                            \/ \E m \in Invited : Consider(m, ok)
      BY <2>3
    <3>2. ok \in BOOLEAN
      OBVIOUS
    <3> QED BY <1>4, <1>8, <1>14, <1>15, <3>1, <3>2, Zenon
  <2>4. CASE \E marks \in some : MarkPasses(marks)
    <3>1. PICK marks \in some : MarkPasses(marks)
      BY <2>4
    <3>2. some \in SUBSET (SUBSET todo)
      OBVIOUS
    <3>3. marks \in SUBSET todo
      BY <3>2, <3>1
    <3> QED BY <1>17, <3>1, <3>3
  <2> QED BY <1>s, <2>1, <2>2, <2>3, <2>4, Zenon DEF SweepSteps
<1>e. CASE NudgeEvent
  <2>1. {"failed", "unclear"} \in SUBSET Outcomes /\ {FALSE} \in SUBSET BOOLEAN
        /\ (SUBSET todo) \ {todo} \in SUBSET (SUBSET todo)
    BY DEF Outcomes
  <2> QED BY <1>e, <1>9, <1>18, <1>19, <1>s, <2>1, Zenon DEF NudgeEvent
<1>w. CASE NudgeWork
  <2>1. {"sent", "suppressed"} \in SUBSET Outcomes /\ {TRUE} \in SUBSET BOOLEAN
        /\ {todo} \in SUBSET (SUBSET todo)
    BY DEF Outcomes
  <2> QED BY <1>w, <1>1, <1>2, <1>3, <1>5, <1>6, <1>7, <1>s, <2>1, Zenon DEF NudgeWork
<1> QED BY <1>20, <1>e, <1>w

\* A note that was sent is not sent again, and nobody hears twice within the gap.
LEMMA EachNoteOnce == NudgesInv => OnceEver /\ Spaced
<1> SUFFICES ASSUME NudgesInv PROVE OnceEver /\ Spaced
  OBVIOUS
<1>1. sure => CountInv /\ PaceInv
  BY Zenon DEF NudgesInv
<1>2. CountInv => \A n \in Nudged : copies[n] <= 1
  <2> SUFFICES ASSUME CountInv, NEW n \in Nudged PROVE copies[n] <= 1
    OBVIOUS
  <2>1. copies[n] = 0 \/ copies[n] = 1
    BY Zenon DEF CountInv
  <2> QED BY <2>1
<1>3. PaceInv => ~close
  BY Zenon DEF PaceInv
<1> QED BY <1>1, <1>2, <1>3, Zenon DEF OnceEver, Spaced
---------------------------------------------------------------------------
(* The schedule.                                                            *)

\* The lengths a roster can have, and a permit's rows.
Ladder == [weeks : {1, 2, MaxCycleWeeks}, anchor : Int]
Rosters == [Cells -> Targets \cup {NoWrite}]

SetEdits == [do : {"set"}, cell : Cells, to : Targets \cup {NoWrite}]
CycleEdits == [do : {"grow", "shrink"}, read : Ladder, next : Ladder]
UndoOffers == [do : {"offer", "undo"}, to : Ladder, rows : SUBSET (Cells \X Targets), fresh : BOOLEAN,
           before : Ladder \X Rosters, after : Ladder \X Rosters]

\* A longer cycle is what the page computed from the cycle it had read, then or earlier.
GrowFits(e, now) ==
  e.do = "grow" => /\ e.read.weeks < MaxCycleWeeks
                   /\ \E s \in 0..now : e.next = ReanchoredCycle(e.read, NextCycleWeeks(e.read.weeks), s)

\* An Undo holds exactly what the removal took away.
Removed(r, weeks) == {<<c, r[c]>> : c \in {d \in Cells : d[1] >= weeks /\ r[d] # NoWrite}}
KeptRows(r, weeks) == [c \in Cells |-> IF c[1] >= weeks THEN NoWrite ELSE r[c]]
OfferFits(u) ==
  u.do \in {"offer", "undo"} /\ u.fresh =>
    /\ u.to = u.before[1] /\ u.after[1].weeks < u.to.weeks
    /\ u.after[2] = KeptRows(u.before[2], u.after[1].weeks)
    /\ u.rows = Removed(u.before[2], u.after[1].weeks)
    /\ \A c \in Cells : c[1] >= u.to.weeks => u.before[2][c] = NoWrite

EditInv ==
  /\ edit \in [Pages -> {NoPage} \cup SetEdits \cup CycleEdits \cup UndoOffers]
  /\ \A t \in Pages : GrowFits(edit[t], clock) /\ OfferFits(edit[t])

ScheduleInv ==
  /\ clock \in 0..MaxClock /\ made \in 0..MaxMade /\ booked \subseteq Entry
  /\ cycle \in Ladder /\ rule \in Rosters /\ RowsInCycle /\ EditInv

\* What the constants allow.
LEMMA ScheduleBounds ==
  /\ WeekDays \in Nat /\ WeekDays > 0 /\ Slots \in Nat /\ Slots > 0
  /\ MaxCycleWeeks \in Nat /\ MaxCycleWeeks >= 2 /\ MaxCycleWeeks % 2 = 0
  /\ Horizon \in Nat /\ MaxClock \in Nat /\ MaxMade \in Nat
  /\ \A c \in Cells : c[1] \in 0..(MaxCycleWeeks - 1) /\ c[2] \in 0..(WeekDays - 1) /\ c = <<c[1], c[2]>>
BY ScheduleAssumption DEF Cells

\* A moment has a day of its week.
LEMMA OnCalendar ==
  ASSUME NEW t \in Nat
  PROVE  DayOf(t) \in Nat /\ WeekOf(t) \in Nat /\ DayOf(t) % WeekDays \in 0..(WeekDays - 1)
<1>1. t \div Slots \in Nat
  BY ScheduleBounds
<1>2. DayOf(t) \in Nat
  BY <1>1 DEF DayOf
<1>3. DayOf(t) \div WeekDays \in Nat /\ DayOf(t) % WeekDays \in 0..(WeekDays - 1)
  BY <1>2, ScheduleBounds
<1> QED BY <1>2, <1>3 DEF WeekOf

\* A moment has a week of its cycle.
LEMMA WeekInCycle ==
  ASSUME NEW c \in Ladder, NEW t \in Nat
  PROVE  WeekAt(c, t) \in 0..(c.weeks - 1) /\ c.weeks \in Nat /\ c.weeks > 0 /\ c.anchor \in Int
<1>1. c.weeks \in Nat /\ c.weeks > 0 /\ c.anchor \in Int
  BY ScheduleBounds DEF Ladder
<1>2. WeekOf(t) \in Nat
  BY OnCalendar
<1>3. (WeekOf(t) - c.anchor) % c.weeks \in 0..(c.weeks - 1)
  BY <1>1, <1>2
<1> QED BY <1>1, <1>3 DEF WeekAt

\* A cycle of another length is a cycle.
LEMMA Reanchored ==
  ASSUME NEW c \in Ladder, NEW to \in {1, 2, MaxCycleWeeks}, NEW t \in Nat
  PROVE  ReanchoredCycle(c, to, t) \in Ladder /\ ReanchoredCycle(c, to, t).weeks = to
<1>1. WeekAt(c, t) \in Int /\ WeekOf(t) \in Int /\ to \in Nat /\ to > 0
  BY WeekInCycle, OnCalendar, ScheduleBounds
<1>2. WeekOf(t) - (WeekAt(c, t) % to) \in Int
  BY <1>1
<1> QED BY <1>2 DEF ReanchoredCycle, Plain, Ladder

\* Lengths are one, two and the longest.
LEMMA NextIsOnLadder ==
  ASSUME NEW w \in {1, 2, MaxCycleWeeks}
  PROVE  NextCycleWeeks(w) \in {1, 2, MaxCycleWeeks} /\ PrevCycleWeeks(w) \in {1, 2, MaxCycleWeeks}
BY ScheduleBounds DEF NextCycleWeeks, PrevCycleWeeks

LEMMA ScheduleStarts == ScheduleInit => ScheduleInv
<1> SUFFICES ASSUME ScheduleInit PROVE ScheduleInv
  OBVIOUS
<1>1. clock \in 0..MaxClock /\ made \in 0..MaxMade /\ booked \subseteq Entry /\ cycle \in Ladder
  BY ScheduleBounds DEF ScheduleInit, Plain, Ladder
<1>2. rule \in Rosters /\ \A c \in Cells : rule[c] = NoWrite
  BY DEF ScheduleInit, Rosters
<1>3. edit \in [Pages -> {NoPage} \cup SetEdits \cup CycleEdits \cup UndoOffers] /\ \A t \in Pages : edit[t] = NoPage
  BY DEF ScheduleInit
<1>4. NoPage.do = "nothing"
  BY DEF NoPage
<1>5. \A t \in Pages : GrowFits(edit[t], clock) /\ OfferFits(edit[t])
  BY <1>3, <1>4 DEF GrowFits, OfferFits
<1> QED BY <1>1, <1>2, <1>3, <1>5, Zenon DEF ScheduleInv, EditInv, RowsInCycle

\* What an edit is tells what it holds.
LEMMA EditIs ==
  ASSUME NEW e \in {NoPage} \cup SetEdits \cup CycleEdits \cup UndoOffers
  PROVE  /\ e.do = "set" => e \in SetEdits
         /\ e.do \in {"grow", "shrink"} => e \in CycleEdits
         /\ e.do \in {"offer", "undo"} => e \in UndoOffers
         /\ e.do \in {"nothing", "set", "grow", "shrink", "offer", "undo"}
<1>1. /\ NoPage.do = "nothing" /\ \A x \in SetEdits : x.do = "set"
      /\ \A x \in CycleEdits : x.do \in {"grow", "shrink"}
      /\ \A x \in UndoOffers : x.do \in {"offer", "undo"}
  BY DEF NoPage, SetEdits, CycleEdits, UndoOffers
<1> QED BY <1>1

\* One tab's edit in place of what it had; time goes on, or stands still.
LEMMA EditGoesOn ==
  ASSUME EditInv, NEW t \in Pages, NEW e \in {NoPage} \cup SetEdits \cup CycleEdits \cup UndoOffers,
         edit' = [edit EXCEPT ![t] = e], GrowFits(e, clock), OfferFits(e), clock' = clock
  PROVE  EditInv'
<1>1. edit' \in [Pages -> {NoPage} \cup SetEdits \cup CycleEdits \cup UndoOffers]
  BY Zenon DEF EditInv
<1>2. edit'[t] = e /\ \A q \in Pages : q # t => edit'[q] = edit[q]
  BY Zenon DEF EditInv
<1>3. ASSUME NEW q \in Pages PROVE GrowFits(edit'[q], clock') /\ OfferFits(edit'[q])
  <2>1. CASE q = t
    <3>1. edit'[q] = e
      BY <1>2, <2>1, Zenon
    <3> QED BY <3>1, Zenon
  <2>2. CASE q # t
    <3>1. edit'[q] = edit[q] /\ GrowFits(edit[q], clock) /\ OfferFits(edit[q])
      BY <1>2, <2>2, Zenon DEF EditInv
    <3> QED BY <3>1, Zenon
  <2> QED BY <2>1, <2>2, Zenon
<1> QED BY <1>1, <1>3, Zenon DEF EditInv

\* The invariant goes on, whatever other pages do between an edit and its transaction.
LEMMA ScheduleMoves == ScheduleInv /\ [RosterEvent \/ BookingEvent \/ ScheduleWork]_scheduleVars => ScheduleInv'
<1> SUFFICES ASSUME ScheduleInv, [RosterEvent \/ BookingEvent \/ ScheduleWork]_scheduleVars PROVE ScheduleInv'
  OBVIOUS
<1> DEFINE AllEdits == {NoPage} \cup SetEdits \cup CycleEdits \cup UndoOffers
<1>i. /\ clock \in 0..MaxClock /\ made \in 0..MaxMade /\ booked \subseteq Entry
      /\ cycle \in Ladder /\ rule \in Rosters /\ RowsInCycle /\ EditInv
      /\ clock \in Nat /\ cycle.weeks \in Nat /\ cycle.weeks > 0 /\ cycle.weeks \in {1, 2, MaxCycleWeeks}
      /\ MaxCycleWeeks \in Nat /\ MaxClock \in Nat /\ MaxMade \in Nat
  BY ScheduleBounds DEF ScheduleInv, Ladder
<1>e. \A t \in Pages : edit[t] \in AllEdits
  BY <1>i, Zenon DEF EditInv
<1>n. NoPage \in AllEdits /\ NoPage.do = "nothing" /\ GrowFits(NoPage, clock) /\ OfferFits(NoPage)
  BY DEF NoPage, GrowFits, OfferFits
\* Where neither the cycle nor its rows nor a booking changes.
<1>c. ASSUME UNCHANGED <<clock, cycle, rule, booked, made>>, EditInv' PROVE ScheduleInv'
  BY <1>c, <1>i, Zenon DEF ScheduleInv, RowsInCycle
\* Where the cycle or its rows change.
<1>r. ASSUME UNCHANGED <<clock, booked, made>>, cycle' \in Ladder, rule' \in Rosters, RowsInCycle', EditInv'
      PROVE  ScheduleInv'
  BY <1>r, <1>i, Zenon DEF ScheduleInv
<1>1. ASSUME NEW t \in Pages, NEW cell \in Cells, NEW to \in Targets \cup {NoWrite}, StartSet(t, cell, to)
      PROVE  ScheduleInv'
  <2> DEFINE e == [do |-> "set", cell |-> cell, to |-> to]
  <2>1. e \in SetEdits /\ e.do = "set"
    BY DEF SetEdits
  <2>2. GrowFits(e, clock) /\ OfferFits(e)
    BY <2>1 DEF GrowFits, OfferFits
  <2>3. edit' = [edit EXCEPT ![t] = e] /\ UNCHANGED <<clock, cycle, rule, booked, made>>
    BY <1>1, Zenon DEF StartSet, Shows
  <2> HIDE DEF e
  <2>4. EditInv'
    BY <1>i, <2>1, <2>2, <2>3, EditGoesOn, Zenon
  <2> QED BY <1>c, <2>3, <2>4
<1>2. ASSUME NEW t \in Pages, EndSet(t) PROVE ScheduleInv'
  <2>1. /\ edit[t].do = "set" /\ edit' = [edit EXCEPT ![t] = NoPage] /\ UNCHANGED <<clock, cycle, booked, made>>
        /\ rule' = IF edit[t].to = NoWrite \/ InCycle(edit[t].cell)
                   THEN [rule EXCEPT ![edit[t].cell] = edit[t].to] ELSE rule
    BY <1>2, Zenon DEF EndSet, Finish, Shows
  <2>2. EditInv'
    BY <1>i, <1>n, <2>1, EditGoesOn, Zenon
  <2>3. PICK cell \in Cells, to \in Targets \cup {NoWrite} : cell = edit[t].cell /\ to = edit[t].to
    <3>1. edit[t] \in SetEdits
      BY <1>e, <2>1, EditIs
    <3> QED BY <3>1 DEF SetEdits
  <2>4. rule' = IF to = NoWrite \/ cell[1] < cycle.weeks THEN [rule EXCEPT ![cell] = to] ELSE rule
    BY <2>1, <2>3, Zenon DEF InCycle
  <2>5. rule' \in Rosters
    BY <1>i, <2>4 DEF Rosters
  <2>6. RowsInCycle'
    <3>1. \A c \in Cells : c[1] \in Nat
      BY ScheduleBounds
    <3>2. \A c \in Cells : c[1] >= cycle.weeks => rule[c] = NoWrite
      BY <1>i DEF RowsInCycle
    <3>3. \A c \in Cells : c[1] >= cycle.weeks => rule'[c] = NoWrite
      BY <1>i, <2>4, <3>1, <3>2 DEF Rosters
    <3>4. cycle' = cycle
      BY <2>1
    <3> QED BY <3>3, <3>4, Zenon DEF RowsInCycle
  <2>7. cycle' \in Ladder
    BY <1>i, <2>1
  <2> QED BY <1>r, <2>1, <2>2, <2>5, <2>6, <2>7
<1>3. ASSUME NEW t \in Pages, StartGrow(t) \/ StartShrink(t) PROVE ScheduleInv'
  <2>1. PICK kind \in {"grow", "shrink"}, to \in {1, 2, MaxCycleWeeks} :
          /\ edit' = [edit EXCEPT ![t] = [do |-> kind, read |-> cycle, next |-> ReanchoredCycle(cycle, to, clock)]]
          /\ kind = "grow" => to = NextCycleWeeks(cycle.weeks) /\ cycle.weeks < MaxCycleWeeks
          /\ UNCHANGED <<clock, cycle, rule, booked, made>>
    <3>1. NextCycleWeeks(cycle.weeks) \in {1, 2, MaxCycleWeeks} /\ PrevCycleWeeks(cycle.weeks) \in {1, 2, MaxCycleWeeks}
      BY <1>i, NextIsOnLadder
    <3>2. CASE StartGrow(t)
      BY <3>1, <3>2 DEF StartGrow, Shows
    <3>3. CASE StartShrink(t)
      BY <3>1, <3>3 DEF StartShrink, Shows
    <3> QED BY <1>3, <3>2, <3>3
  <2> DEFINE next == ReanchoredCycle(cycle, to, clock)
             e == [do |-> kind, read |-> cycle, next |-> next]
  <2>2. next \in Ladder
    BY <1>i, Reanchored
  <2>3. e \in CycleEdits /\ e.do = kind /\ e.read = cycle /\ e.next = next
    <3> HIDE DEF next
    <3> QED BY <1>i, <2>2 DEF CycleEdits
  <2>4. OfferFits(e)
    BY <2>3 DEF OfferFits
  <2>5. GrowFits(e, clock)
    <3> SUFFICES ASSUME kind = "grow"
                 PROVE  e.read.weeks < MaxCycleWeeks
                        /\ \E s \in 0..clock : e.next = ReanchoredCycle(e.read, NextCycleWeeks(e.read.weeks), s)
      BY <2>3, Zenon DEF GrowFits
    <3>1. clock \in 0..clock
      BY <1>i
    <3>2. next = ReanchoredCycle(cycle, NextCycleWeeks(cycle.weeks), clock) /\ cycle.weeks < MaxCycleWeeks
      BY <2>1, Zenon
    <3> QED BY <2>3, <3>1, <3>2, Zenon
  <2>6. edit' = [edit EXCEPT ![t] = e]
    BY <2>1
  <2> HIDE DEF e, next
  <2>7. EditInv'
    BY <1>i, <2>1, <2>3, <2>4, <2>5, <2>6, EditGoesOn, Zenon
  <2> QED BY <1>c, <2>1, <2>7
<1>4. ASSUME NEW t \in Pages, EndGrow(t) PROVE ScheduleInv'
  <2>1. edit[t].do = "grow" /\ edit' = [edit EXCEPT ![t] = NoPage] /\ UNCHANGED <<clock, booked, made>>
    BY <1>4, Zenon DEF EndGrow, Finish, Shows
  <2>2. EditInv'
    BY <1>i, <1>n, <2>1, EditGoesOn, Zenon
  <2>3. PICK next \in Ladder : next = edit[t].next
    <3>1. edit[t] \in CycleEdits
      BY <1>e, <2>1, EditIs
    <3> QED BY <3>1 DEF CycleEdits
  <2>4. CASE next.weeks <= cycle.weeks
    <3>1. UNCHANGED <<cycle, rule>>
      BY <1>4, <2>3, <2>4 DEF EndGrow
    <3> QED BY <1>c, <2>1, <2>2, <3>1
  <2>5. CASE ~(next.weeks <= cycle.weeks)
    <3>1. /\ cycle' = next
          /\ rule' = [c \in Cells |->
                  IF c[1] \in cycle.weeks..(next.weeks - 1)
                  THEN rule[<<SeedWeek(rule, cycle.weeks, c[1]), c[2]>>] ELSE rule[c]]
      BY <1>4, <2>3, <2>5 DEF EndGrow
    <3>2. next.weeks \in {1, 2, MaxCycleWeeks} /\ next.weeks \in Nat
      BY ScheduleBounds DEF Ladder
    <3>3. ASSUME NEW c \in Cells PROVE <<SeedWeek(rule, cycle.weeks, c[1]), c[2]>> \in Cells
      <4>1. c[1] \in Nat /\ c[2] \in 0..(WeekDays - 1) /\ c[1] % cycle.weeks \in 0..(cycle.weeks - 1)
        BY <1>i, ScheduleBounds
      <4>2. c[1] % cycle.weeks \in 0..(MaxCycleWeeks - 1)
        BY <1>i, <4>1, ScheduleBounds
      <4> QED BY <4>1, <4>2 DEF SeedWeek, Cells
    <3>4. rule' \in Rosters
      BY <1>i, <3>1, <3>3 DEF Rosters
    <3>5. RowsInCycle'
      <4>1. ASSUME NEW c \in Cells, c[1] >= next.weeks PROVE rule'[c] = NoWrite
        <5>1. c[1] \in Nat /\ ~(c[1] \in cycle.weeks..(next.weeks - 1)) /\ c[1] >= cycle.weeks
          BY <1>i, <2>5, <3>2, <4>1, ScheduleBounds
        <5>2. rule'[c] = rule[c]
          BY <3>1, <5>1
        <5> QED BY <1>i, <5>1, <5>2 DEF RowsInCycle
      <4> QED BY <3>1, <4>1, Zenon DEF RowsInCycle
    <3>6. cycle' \in Ladder
      BY <3>1
    <3> QED BY <1>r, <2>1, <2>2, <3>4, <3>5, <3>6
  <2> QED BY <2>4, <2>5
<1>5. ASSUME NEW t \in Pages, EndShrink(t) PROVE ScheduleInv'
  <2>1. edit[t].do = "shrink" /\ UNCHANGED <<clock, booked, made>>
    BY <1>5, Zenon DEF EndShrink
  <2>2. PICK next \in Ladder, read \in Ladder : next = edit[t].next /\ read = edit[t].read
    <3>1. edit[t] \in CycleEdits
      BY <1>e, <2>1, EditIs
    <3> QED BY <3>1 DEF CycleEdits
  <2>3. CASE next.weeks >= cycle.weeks
    <3>1. UNCHANGED <<cycle, rule>> /\ edit' = [edit EXCEPT ![t] = NoPage]
      BY <1>5, <2>2, <2>3 DEF EndShrink, Finish, Shows
    <3>2. EditInv'
      BY <1>i, <1>n, <2>1, <3>1, EditGoesOn, Zenon
    <3> QED BY <1>c, <2>1, <3>1, <3>2
  <2>4. CASE ~(next.weeks >= cycle.weeks)
    <3> DEFINE kept == KeptRows(rule, next.weeks)
               gap == Removed(rule, next.weeks)
               to == [weeks |-> read.weeks, anchor |-> read.anchor]
               e == [do |-> "offer", to |-> to, rows |-> gap, fresh |-> read = cycle,
                     before |-> <<cycle, rule>>, after |-> <<next, kept>>]
    <3>1. cycle' = next /\ rule' = kept /\ edit' = [edit EXCEPT ![t] = e]
      BY <1>5, <2>2, <2>4 DEF EndShrink, Shows, UndoAnchor, KeptRows, Removed
    <3>2. next.weeks \in Nat /\ next.weeks < cycle.weeks
      BY <1>i, <2>4, ScheduleBounds DEF Ladder
    <3>3. to \in Ladder /\ to = read
      BY DEF Ladder
    <3>4. kept \in Rosters
      BY <1>i DEF Rosters, KeptRows
    <3>5. gap \in SUBSET (Cells \X Targets)
      <4>1. \A c \in Cells : rule[c] # NoWrite => rule[c] \in Targets
        BY <1>i DEF Rosters
      <4> QED BY <4>1 DEF Removed
    <3>6. RowsInCycle'
      <4>1. \A c \in Cells : c[1] >= next.weeks => kept[c] = NoWrite
        BY DEF KeptRows
      <4> QED BY <3>1, <4>1, Zenon DEF RowsInCycle
    <3>7. /\ e.do = "offer" /\ e.to = to /\ e.rows = gap /\ e.fresh = (read = cycle)
          /\ e.before[1] = cycle /\ e.before[2] = rule /\ e.after[1] = next /\ e.after[2] = kept
      OBVIOUS
    <3>8. e \in UndoOffers
      <4>1. <<cycle, rule>> \in Ladder \X Rosters /\ <<next, kept>> \in Ladder \X Rosters /\ (read = cycle) \in BOOLEAN
        BY <1>i, <3>4, Zenon
      <4> HIDE DEF to, gap, kept
      <4> QED BY <3>3, <3>5, <4>1, Zenon DEF UndoOffers
    <3>9. OfferFits(e)
      <4>1. \A c \in Cells : c[1] >= cycle.weeks => rule[c] = NoWrite
        BY <1>i, Zenon DEF RowsInCycle
      <4>2. ASSUME e.fresh PROVE e.to = cycle /\ next.weeks < e.to.weeks
        BY <3>2, <3>3, <3>7, <4>2, Zenon
      <4> HIDE DEF e, to
      <4> QED BY <3>7, <4>1, <4>2, Zenon DEF OfferFits
    <3>10. GrowFits(e, clock)
      BY <3>7 DEF GrowFits
    <3> HIDE DEF e, to, gap, kept
    <3>11. EditInv'
      BY <1>i, <2>1, <3>1, <3>8, <3>9, <3>10, EditGoesOn, Zenon
    <3>12. cycle' \in Ladder /\ rule' \in Rosters
      BY <3>1, <3>4, Zenon
    <3> QED BY <1>r, <2>1, <3>6, <3>11, <3>12
  <2> QED BY <2>3, <2>4
<1>6. ASSUME NEW t \in Pages, StartUndo(t) PROVE ScheduleInv'
  <2> DEFINE u == edit[t]
             e == [u EXCEPT !.do = "undo"]
  <2>1. u.do = "offer" /\ edit' = [edit EXCEPT ![t].do = "undo"] /\ UNCHANGED <<clock, cycle, rule, booked, made>>
    BY <1>6, Zenon DEF StartUndo
  <2>2. u \in UndoOffers
    BY <1>e, <2>1, EditIs
  <2>3. edit' = [edit EXCEPT ![t] = e]
    BY <2>1
  <2>4. OfferFits(u)
    BY <1>i, Zenon DEF EditInv
  <2> HIDE DEF u
  <2>5. /\ e \in UndoOffers /\ e.do = "undo" /\ e.to = u.to /\ e.rows = u.rows /\ e.fresh = u.fresh
        /\ e.before = u.before /\ e.after = u.after
    BY <2>2 DEF UndoOffers
  <2> HIDE DEF e
  <2>6. OfferFits(e)
    BY <2>1, <2>4, <2>5, Zenon DEF OfferFits
  <2>7. GrowFits(e, clock)
    BY <2>5 DEF GrowFits
  <2>8. EditInv'
    BY <1>i, <2>1, <2>3, <2>5, <2>6, <2>7, EditGoesOn, Zenon
  <2> QED BY <1>c, <2>1, <2>8
<1>7. ASSUME NEW t \in Pages, EndUndo(t) PROVE ScheduleInv'
  <2>1. edit[t].do = "undo" /\ edit' = [edit EXCEPT ![t] = NoPage] /\ UNCHANGED <<clock, booked, made>>
    BY <1>7, Zenon DEF EndUndo, Finish, Shows
  <2>2. EditInv'
    BY <1>i, <1>n, <2>1, EditGoesOn, Zenon
  <2>3. edit[t] \in UndoOffers
    BY <1>e, <2>1, EditIs
  <2>4. CASE ~Takes(edit[t], cycle.weeks)
    <3>1. UNCHANGED <<cycle, rule>>
      BY <1>7, <2>4, Zenon DEF EndUndo
    <3> QED BY <1>c, <2>1, <2>2, <3>1
  <2>5. CASE Takes(edit[t], cycle.weeks)
    <3> DEFINE gap(c) == {x \in edit[t].rows : x[1] = c}
    <3>1. /\ cycle' = edit[t].to
          /\ rule' = [c \in Cells |-> IF gap(c) = {} THEN rule[c] ELSE (CHOOSE x \in gap(c) : TRUE)[2]]
      BY <1>7, <2>5 DEF EndUndo
    <3>2. PICK to \in Ladder, taken \in SUBSET (Cells \X Targets) : to = edit[t].to /\ taken = edit[t].rows
      BY <2>3 DEF UndoOffers
    <3>3. to.weeks > cycle.weeks /\ \A x \in taken : x[1][1] \in cycle.weeks..(to.weeks - 1)
      BY <2>5, <3>2 DEF Takes
    <3>4. ASSUME NEW c \in Cells, gap(c) # {}
          PROVE  (CHOOSE x \in gap(c) : TRUE) \in taken /\ (CHOOSE x \in gap(c) : TRUE)[1] = c
      BY <3>2, <3>4
    <3>5. ASSUME NEW x \in taken PROVE x[2] \in Targets /\ x[1] \in Cells
      BY <3>5
    <3>6. rule' \in Rosters
      <4>1. ASSUME NEW c \in Cells
            PROVE  (IF gap(c) = {} THEN rule[c] ELSE (CHOOSE x \in gap(c) : TRUE)[2]) \in Targets \cup {NoWrite}
        BY <1>i, <3>4, <3>5, Zenon DEF Rosters
      <4> HIDE DEF gap
      <4> QED BY <3>1, <4>1, Zenon DEF Rosters
    <3>7. RowsInCycle'
      <4>1. ASSUME NEW c \in Cells, c[1] >= to.weeks PROVE rule'[c] = NoWrite
        <5>1. to.weeks \in Nat /\ c[1] \in Nat /\ ~(c[1] \in cycle.weeks..(to.weeks - 1)) /\ c[1] >= cycle.weeks
          BY <1>i, <3>3, <4>1, ScheduleBounds DEF Ladder
        <5>2. gap(c) = {}
          BY <3>2, <3>3, <5>1
        <5>3. rule'[c] = rule[c]
          BY <3>1, <5>2, Zenon
        <5> QED BY <1>i, <5>1, <5>3, Zenon DEF RowsInCycle
      <4> QED BY <3>1, <3>2, <4>1, Zenon DEF RowsInCycle
    <3>8. cycle' \in Ladder
      BY <3>1, <3>2
    <3> QED BY <1>r, <2>1, <2>2, <3>6, <3>7, <3>8
  <2> QED BY <2>4, <2>5, Zenon
<1>8. ASSUME NEW weeks \in 1..2, NEW even \in Targets, NEW odd \in Targets, NEW start \in Nat, NEW end \in Nat,
             CopyOver(weeks, even, odd, start, end)
      PROVE  ScheduleInv'
  <2>1. made \in Nat /\ made + 1 \in 1..MaxMade /\ made + 1 \in 0..MaxMade
    BY <1>i, <1>8 DEF CopyOver
  <2>2. [n |-> made + 1, rego |-> even, from |-> start, until |-> end] \in Entry
    <3> DEFINE next == made + 1
    <3>1. next \in 1..MaxMade
      BY <2>1
    <3> HIDE DEF next
    <3>2. [n |-> next, rego |-> even, from |-> start, until |-> end] \in Entry
      BY <3>1 DEF Entry
    <3> QED BY <3>2 DEF next
  <2>3. booked' \subseteq Entry /\ made' \in 0..MaxMade /\ clock' = clock /\ edit' = edit
    BY <1>i, <1>8, <2>1, <2>2 DEF CopyOver
  <2>4. cycle' \in Ladder /\ cycle'.weeks = weeks
    <3>1. WeekOf(clock) \in Int
      BY <1>i, OnCalendar
    <3> QED BY <1>8, <3>1, ScheduleBounds DEF CopyOver, Plain, Ladder
  <2>5. rule' = [c \in Cells |-> IF c[1] >= weeks THEN NoWrite ELSE IF c[1] % 2 = 0 THEN even ELSE odd]
    BY <1>8 DEF CopyOver
  <2>6. rule' \in Rosters
    BY <2>5 DEF Rosters
  <2>7. RowsInCycle'
    <3>1. \A c \in Cells : c[1] >= weeks => rule'[c] = NoWrite
      BY <2>5
    <3> QED BY <2>4, <3>1, Zenon DEF RowsInCycle
  <2>8. EditInv'
    BY <1>i, <2>3, Zenon DEF EditInv
  <2>9. clock' \in 0..MaxClock
    BY <1>i, <2>3, Zenon
  <2> QED BY <2>3, <2>4, <2>6, <2>7, <2>8, <2>9, Zenon DEF ScheduleInv
<1>9. ASSUME NEW rego \in Targets, NEW start \in Nat, NEW end \in Nat, AddBooking(rego, start, end)
      PROVE  ScheduleInv'
  <2>1. made \in Nat /\ made + 1 \in 1..MaxMade /\ made + 1 \in 0..MaxMade
    BY <1>i, <1>9 DEF AddBooking, createOverrideCapped
  <2>2. [n |-> made + 1, rego |-> rego, from |-> start, until |-> end] \in Entry
    <3> DEFINE next == made + 1
    <3>1. next \in 1..MaxMade
      BY <2>1
    <3> HIDE DEF next
    <3>2. [n |-> next, rego |-> rego, from |-> start, until |-> end] \in Entry
      BY <3>1 DEF Entry
    <3> QED BY <3>2 DEF next
  <2>3. booked' \subseteq Entry /\ made' \in 0..MaxMade /\ UNCHANGED <<clock, cycle, rule, edit>>
    BY <1>i, <1>9, <2>1, <2>2 DEF AddBooking, createOverrideCapped
  <2> QED BY <1>i, <2>3, Zenon DEF ScheduleInv, EditInv, RowsInCycle
<1>10. ASSUME NEW b \in booked, DeleteBooking(b) PROVE ScheduleInv'
  <2>1. booked' \subseteq Entry /\ UNCHANGED <<clock, cycle, rule, made, edit>>
    BY <1>i, <1>10 DEF DeleteBooking
  <2> QED BY <1>i, <2>1, Zenon DEF ScheduleInv, EditInv, RowsInCycle
<1>11. ASSUME TimePasses PROVE ScheduleInv'
  <2>1. clock' \in 0..MaxClock /\ 0..clock \subseteq 0..clock' /\ UNCHANGED <<cycle, rule, booked, made, edit>>
    BY <1>i, <1>11 DEF TimePasses
  <2>2. \A t \in Pages : GrowFits(edit[t], clock')
    BY <1>i, <2>1, Zenon DEF EditInv, GrowFits
  <2> QED BY <1>i, <2>1, <2>2, Zenon DEF ScheduleInv, EditInv, RowsInCycle
<1>12. CASE UNCHANGED scheduleVars
  BY <1>c, <1>i, <1>12, Zenon DEF scheduleVars, EditInv
<1>13. CASE RosterEvent
  <2>1. clock \in Nat /\ clock + 1 \in Nat
    BY <1>i
  <2> QED BY <1>1, <1>3, <1>8, <1>13, <2>1, Zenon DEF RosterEvent
<1>14. CASE BookingEvent
  <2>1. /\ clock..(clock + Horizon) \subseteq Nat /\ (clock + 1)..(clock + Horizon) \subseteq Nat
        /\ clock \in Nat /\ 2 \in 1..2
    BY <1>i, ScheduleBounds
  <2> QED BY <1>8, <1>9, <1>10, <1>14, <2>1, Zenon DEF BookingEvent
<1>15. CASE ScheduleWork
  BY <1>2, <1>4, <1>5, <1>6, <1>7, <1>11, <1>15, Zenon DEF ScheduleWork
<1> QED BY <1>12, <1>13, <1>14, <1>15

\* The same day of the roster at u and just before, where u is no midnight.
LEMMA SlotBefore ==
  ASSUME NEW u \in Nat, NEW n \in Nat, n > 0, u % n # 0
  PROVE  u - 1 \in Nat /\ (u - 1) \div n = u \div n
<1> DEFINE q == u \div n
           r == u % n
           p == n * q
<1>1. q \in Nat /\ r \in Nat /\ r < n /\ u = n * q + r /\ r > 0
  OBVIOUS
<1>2. p \in Nat /\ u = p + r /\ n * q = p
  BY <1>1
<1>3. u - 1 \in Nat /\ u - 1 = n * q + (r - 1) /\ 0 <= r - 1 /\ r - 1 < n
  BY <1>1
<1> HIDE DEF q, r, p
<1>4. \A x \in Nat : x = n * q + (r - 1) => x \div n = q
  BY <1>1, <1>3
<1> QED BY <1>3, <1>4 DEF q

\* A plate changes only at midnight, or where a booking begins or ends.
LEMMA QuietBetween ==
  ASSUME NEW u \in Nat, u > 0, booked \subseteq Entry, u % Slots # 0,
         \A b \in booked : u # b.from /\ u # b.until
  PROVE  Resolve(u) = Resolve(u - 1)
<1>1. DayOf(u) = DayOf(u - 1) /\ u - 1 \in Nat
  BY SlotBefore, ScheduleBounds DEF DayOf
<1>2. WeekAt(cycle, u) = WeekAt(cycle, u - 1)
  BY <1>1, Zenon DEF WeekAt, WeekOf
<1>3. OnRoster(cycle, rule, u) = OnRoster(cycle, rule, u - 1)
  BY <1>1, <1>2, Zenon DEF OnRoster
<1>4. ASSUME NEW b \in booked PROVE (b.from <= u /\ u < b.until) <=> (b.from <= u - 1 /\ u - 1 < b.until)
  BY <1>1 DEF Entry
<1> DEFINE Valid(x) == {b \in booked : b.from <= x /\ x < b.until}
           Latest(S) == (CHOOSE b \in S : \A o \in S : o.n <= b.n).rego
<1>5. Valid(u) = Valid(u - 1)
  BY <1>4
<1>6. Resolve(u) = IF Valid(u) = {} THEN OnRoster(cycle, rule, u) ELSE Latest(Valid(u))
  BY DEF Resolve
<1>7. Resolve(u - 1) = IF Valid(u - 1) = {} THEN OnRoster(cycle, rule, u - 1) ELSE Latest(Valid(u - 1))
  BY DEF Resolve
<1> HIDE DEF Valid, Latest
<1> QED BY <1>3, <1>5, <1>6, <1>7

\* Numbers up to a bound have a greatest, and Max finds it.
LEMMA MaxOfSome ==
  ASSUME NEW S \in SUBSET Nat, S # {}, NEW n \in Nat, \A x \in S : x <= n
  PROVE  Max(S) \in S /\ \A y \in S : y <= Max(S)
<1>1. PICK m \in S : \A y \in S : y <= m
  BY LastOfSome
<1>2. \A y \in S : m >= y
  BY <1>1
<1>3. Max(S) \in S /\ \A y \in S : Max(S) >= y
  BY <1>2, Zenon DEF Max
<1> QED BY <1>3

\* What is seen by u, and the last of it.
Seen(t, u) == {v \in t..u : Resolve(v) # NoWrite}

\* The last of what was seen is on the permit.
LEMMA LastOfSeen ==
  ASSUME NEW t \in Nat, NEW u \in Nat, Seen(t, u) # {}
  PROVE  /\ Max(Seen(t, u)) \in t..u /\ Resolve(Max(Seen(t, u))) # NoWrite
         /\ PlateBy(t, u) = Resolve(Max(Seen(t, u)))
         /\ \A v \in t..u : Resolve(v) # NoWrite => v <= Max(Seen(t, u))
<1>1. Seen(t, u) \in SUBSET Nat /\ \A x \in Seen(t, u) : x <= u
  BY DEF Seen
<1>2. Max(Seen(t, u)) \in Seen(t, u) /\ \A y \in Seen(t, u) : y <= Max(Seen(t, u))
  BY <1>1, MaxOfSome
<1> QED BY <1>2, Zenon DEF Seen, PlateBy

\* A walk through every moment sees what the walk through the candidates sees.
LEMMA SeenAlike ==
  ASSUME ScheduleInv, NEW u \in (clock + 1)..(clock + Horizon)
  PROVE  LastSeen(clock, u) = PlateBy(clock, u - 1)
<1> DEFINE t == clock
           C == Candidates(t)
           few == {v \in {t} \cup C : v < u /\ Resolve(v) # NoWrite}
           all == Seen(t, u - 1)
<1>1. t \in Nat /\ u \in Nat /\ u - 1 \in Nat /\ u > 0 /\ t <= u - 1 /\ booked \subseteq Entry /\ Horizon \in Nat
  BY ScheduleBounds DEF ScheduleInv
<1>2. \A v \in C : v \in Nat /\ v > t
  BY <1>1 DEF Candidates, Beginnings
<1>3. \A v \in Nat : v > t /\ v < u /\ v \notin C => Resolve(v) = Resolve(v - 1)
  <2> SUFFICES ASSUME NEW v \in Nat, v > t, v < u, v \notin C PROVE Resolve(v) = Resolve(v - 1)
    OBVIOUS
  <2>1. v \in (t + 1)..(t + Horizon) /\ v > 0
    BY <1>1
  <2>2. v % Slots # 0 /\ \A b \in booked : v # b.from /\ v # b.until
    BY <2>1 DEF Candidates, Beginnings
  <2> QED BY <1>1, <2>1, <2>2, QuietBetween
<1>4. few \subseteq all
  BY <1>1, <1>2 DEF Seen
<1>5. LastSeen(t, u) = IF few = {} THEN NoWrite ELSE Resolve(Max(few))
  BY DEF LastSeen
<1>6. PlateBy(t, u - 1) = IF all = {} THEN NoWrite ELSE Resolve(Max(all))
  BY DEF PlateBy, Seen
<1>7. \A v \in all : v \in Nat /\ v <= u - 1 /\ v >= t /\ Resolve(v) # NoWrite
  BY <1>1 DEF Seen
<1> HIDE DEF C
<1>8. CASE all = {}
  BY <1>4, <1>5, <1>6, <1>8, Zenon
<1>9. CASE all # {}
  <2> DEFINE M == Max(all)
             same == {v \in t..M : \A x \in v..M : Resolve(x) = Resolve(M)}
             v0 == Min(same)
  <2>1. M \in all /\ \A y \in all : y <= M
    BY <1>1, <1>7, <1>9, MaxOfSome
  <2>2. M \in Nat /\ M <= u - 1 /\ M >= t /\ Resolve(M) # NoWrite
    BY <1>7, <2>1
  <2> HIDE DEF M
  <2>3. same \in SUBSET Nat /\ same # {}
    <3>1. M \in t..M /\ \A x \in M..M : x = M
      BY <1>1, <2>2
    <3>2. M \in same
      BY <3>1, Zenon
    <3> QED BY <1>1, <2>2, <3>2
  <2>4. v0 \in same /\ \A y \in same : v0 <= y
    BY <2>3, FirstOfSome
  <2> HIDE DEF v0
  <2>5. v0 \in Nat /\ t <= v0 /\ v0 <= M /\ \A x \in v0..M : Resolve(x) = Resolve(M)
    BY <1>1, <2>2, <2>4
  <2>6. v0 \in {t} \cup C
    <3> SUFFICES ASSUME v0 # t, v0 \notin C PROVE FALSE
      OBVIOUS
    <3>1. v0 > t /\ v0 < u /\ v0 - 1 \in t..M /\ v0 \in v0..M
      BY <1>1, <2>2, <2>5
    <3>2. Resolve(v0 - 1) = Resolve(v0) /\ Resolve(v0) = Resolve(M)
      BY <1>3, <2>5, <3>1
    <3>3. ASSUME NEW x \in (v0 - 1)..M PROVE Resolve(x) = Resolve(M)
      <4>1. x = v0 - 1 \/ x \in v0..M
        BY <2>2, <2>5
      <4> QED BY <2>5, <3>2, <4>1
    <3>4. v0 - 1 \in same
      BY <3>1, <3>3
    <3>5. v0 <= v0 - 1
      BY <2>4, <3>4
    <3> QED BY <2>5, <3>5
  <2>7. v0 \in few
    <3>1. v0 < u /\ v0 \in v0..M
      BY <1>1, <2>2, <2>5
    <3> QED BY <2>2, <2>5, <2>6, <3>1
  <2> DEFINE L == Max(few)
  <2>8. L \in few /\ \A y \in few : y <= L
    BY <1>1, <1>4, <1>7, <2>7, MaxOfSome
  <2> HIDE DEF L
  <2>9. L \in v0..M
    <3>1. v0 <= L /\ L <= M /\ L \in Nat
      BY <1>4, <1>7, <2>1, <2>7, <2>8
    <3> QED BY <2>2, <2>5, <3>1
  <2>10. Resolve(L) = Resolve(M) /\ few # {}
    BY <2>5, <2>7, <2>9
  <2> QED BY <1>5, <1>6, <1>9, <2>10 DEF L, M
<1> QED BY <1>8, <1>9

\* Where the plate changes there is something to write.
LEMMA ChangesAreWrites ==
  ASSUME ScheduleInv, NEW u \in (clock + 1)..(clock + Horizon)
  PROVE  PlateBy(clock, u) # PlateBy(clock, u - 1)
         <=> u \in Candidates(clock) /\ Resolve(u) # NoWrite /\ Resolve(u) # LastSeen(clock, u)
<1> DEFINE t == clock
<1>1. t \in Nat /\ u \in Nat /\ u - 1 \in Nat /\ u > 0 /\ t <= u - 1 /\ booked \subseteq Entry
  BY ScheduleBounds DEF ScheduleInv
<1>2. LastSeen(t, u) = PlateBy(t, u - 1)
  BY SeenAlike
<1>3. CASE Resolve(u) = NoWrite
  <2>1. Seen(t, u) = Seen(t, u - 1)
    <3>1. \A v \in t..u : v = u \/ v \in t..(u - 1)
      BY <1>1
    <3>2. \A v \in t..(u - 1) : v \in t..u
      BY <1>1
    <3> QED BY <1>3, <3>1, <3>2 DEF Seen
  <2>2. PlateBy(t, u) = PlateBy(t, u - 1)
    BY <2>1, Zenon DEF PlateBy, Seen
  <2> QED BY <1>3, <2>2
<1>4. CASE Resolve(u) # NoWrite
  <2>1. PlateBy(t, u) = Resolve(u)
    <3>1. u \in t..u /\ u \in Seen(t, u)
      BY <1>1, <1>4 DEF Seen
    <3>2. Max(Seen(t, u)) \in t..u /\ u <= Max(Seen(t, u)) /\ PlateBy(t, u) = Resolve(Max(Seen(t, u)))
      BY <1>1, <1>4, <3>1, LastOfSeen
    <3>3. Max(Seen(t, u)) = u
      BY <1>1, <3>2
    <3> QED BY <3>2, <3>3
  <2>2. CASE u \in Candidates(t)
    BY <1>2, <1>4, <2>1, <2>2
  <2>3. CASE u \notin Candidates(t)
    <3>1. u % Slots # 0 /\ \A b \in booked : u # b.from /\ u # b.until
      BY <2>3 DEF Candidates, Beginnings
    <3>2. Resolve(u - 1) = Resolve(u)
      BY <1>1, <3>1, QuietBetween
    <3>3. u - 1 \in t..(u - 1) /\ u - 1 \in Seen(t, u - 1)
      BY <1>1, <1>4, <3>2 DEF Seen
    <3>4. Max(Seen(t, u - 1)) \in t..(u - 1) /\ u - 1 <= Max(Seen(t, u - 1))
          /\ PlateBy(t, u - 1) = Resolve(Max(Seen(t, u - 1)))
      BY <1>1, <1>4, <3>2, <3>3, LastOfSeen
    <3>5. Max(Seen(t, u - 1)) = u - 1
      BY <1>1, <3>4
    <3>6. PlateBy(t, u - 1) = Resolve(u)
      BY <3>2, <3>4, <3>5
    <3> QED BY <2>1, <2>3, <3>6
  <2> QED BY <2>2, <2>3
<1> QED BY <1>3, <1>4

\* NextChange finds the first change that a walk through every moment would find.
LEMMA NothingIsMissed == ScheduleInv => ChangeIsForeseen
<1> SUFFICES ASSUME ScheduleInv PROVE ChangeIsForeseen
  OBVIOUS
<1> DEFINE t == clock
           changes == {u \in (t + 1)..(t + Horizon) : PlateBy(t, u) # PlateBy(t, u - 1)}
           writes == {u \in Candidates(t) : Resolve(u) # NoWrite /\ Resolve(u) # LastSeen(t, u)}
<1>1. \A u \in Candidates(t) : u \in (t + 1)..(t + Horizon)
  BY DEF Candidates, Beginnings
<1>2. \A u \in (t + 1)..(t + Horizon) : PlateBy(t, u) # PlateBy(t, u - 1)
          <=> u \in Candidates(t) /\ Resolve(u) # NoWrite /\ Resolve(u) # LastSeen(t, u)
  BY ChangesAreWrites
<1>3. changes = writes
  BY <1>1, <1>2, Zenon
<1>4. NextChange(t) = IF writes = {} THEN 0 ELSE Min(writes)
  BY DEF NextChange
<1>5. ChangeIsForeseen <=> (NextChange(t) = IF changes = {} THEN 0 ELSE Min(changes))
  BY DEF ChangeIsForeseen
<1> QED BY <1>3, <1>4, <1>5, Zenon

\* Counting by an even number keeps a number odd or even.
LEMMA EvenCycle ==
  ASSUME NEW y \in Int, NEW n \in Nat, n > 0, n % 2 = 0
  PROVE  (y % n) % 2 = y % 2
<1> DEFINE q == y \div n
           r == y % n
           m == n \div 2
           mq == m * q
<1>1. q \in Int /\ r \in Int /\ m \in Int /\ y = n * q + r /\ n = 2 * m
  OBVIOUS
<1>2. mq \in Int /\ n * q = 2 * mq
  BY <1>1
<1> HIDE DEF q, m, mq, r
<1>3. y = 2 * mq + r
  BY <1>1, <1>2
<1>4. r % 2 = y % 2
  BY <1>1, <1>2, <1>3
<1> QED BY <1>4 DEF r

\* ... and so does counting from a week that is odd or even likewise.
LEMMA SameParity ==
  ASSUME NEW a \in Int, NEW b \in Int, NEW c \in Int, NEW p \in Int, p = (b - a) % 2
  PROVE  (c - (b - p)) % 2 = (c - a) % 2
OBVIOUS

\* The week of a longer cycle that a day falls in repeats the week it had.
LEMMA RepeatsItsWeek ==
  ASSUME NEW c \in Ladder, c.weeks < MaxCycleWeeks, NEW s \in Nat, NEW x \in Nat
  PROVE  LET next == ReanchoredCycle(c, NextCycleWeeks(c.weeks), s)
         IN next.weeks > c.weeks /\ WeekAt(next, x) % c.weeks = WeekAt(c, x)
<1> DEFINE n == NextCycleWeeks(c.weeks)
           next == ReanchoredCycle(c, n, s)
           W == WeekOf(x)
           S == WeekOf(s)
<1>1. W \in Nat /\ S \in Nat /\ c.weeks \in {1, 2, MaxCycleWeeks} /\ c.anchor \in Int
  BY OnCalendar DEF Ladder
<1>2. c.weeks \in {1, 2} /\ n \in Nat /\ n > c.weeks /\ n > 1 /\ n % 2 = 0
  BY <1>1, ScheduleBounds DEF NextCycleWeeks
<1>3. WeekAt(c, s) \in 0..(c.weeks - 1) /\ WeekAt(c, x) \in 0..(c.weeks - 1)
  BY WeekInCycle
<1>4. next = [weeks |-> n, anchor |-> S - (WeekAt(c, s) % n)]
  BY <1>2 DEF ReanchoredCycle
<1>5. next.weeks = n /\ next.anchor = S - (WeekAt(c, s) % n)
  BY <1>4
<1> HIDE DEF next, n, W, S
<1>6. WeekAt(c, s) % n = WeekAt(c, s)
  BY <1>2, <1>3
<1>7. WeekAt(next, x) = (W - (S - WeekAt(c, s))) % n
  BY <1>2, <1>5, <1>6 DEF WeekAt, W
<1>8. CASE c.weeks = 1
  <2>1. WeekAt(c, x) = 0 /\ WeekAt(next, x) \in Int
    BY <1>1, <1>2, <1>3, <1>7, <1>8
  <2> QED BY <1>2, <1>5, <1>8, <2>1 DEF next, n
<1>9. CASE c.weeks = 2
  <2>1. WeekAt(c, s) = (S - c.anchor) % 2 /\ WeekAt(c, x) = (W - c.anchor) % 2
    BY <1>9 DEF WeekAt, S, W
  <2>2. WeekAt(next, x) % 2 = (W - (S - WeekAt(c, s))) % 2
    <3> DEFINE y == W - (S - WeekAt(c, s))
    <3>1. y \in Int
      BY <1>1, <1>3, <1>9
    <3>2. WeekAt(next, x) = y % n
      BY <1>7
    <3> HIDE DEF y
    <3>3. (y % n) % 2 = y % 2
      BY <1>2, <3>1, EvenCycle
    <3> QED BY <3>2, <3>3 DEF y
  <2>3. (W - (S - WeekAt(c, s))) % 2 = (W - c.anchor) % 2
    BY <1>1, <1>3, <2>1, SameParity
  <2> QED BY <1>2, <1>5, <1>9, <2>1, <2>2, <2>3 DEF next, n
<1> QED BY <1>2, <1>8, <1>9

\* Adding weeks changes no day.
LEMMA GrowthKeeps ==
  ASSUME ScheduleInv, NEW t \in Pages, EndGrow(t), edit[t].read = cycle
  PROVE  SamePlan(cycle, rule, cycle', rule')
<1> DEFINE next == edit[t].next
<1>1. clock \in Nat /\ cycle \in Ladder /\ rule \in Rosters /\ GrowFits(edit[t], clock)
  BY DEF ScheduleInv, EditInv
<1>2. PICK s \in 0..clock : next = ReanchoredCycle(cycle, NextCycleWeeks(cycle.weeks), s)
  BY <1>1 DEF EndGrow, GrowFits
<1>3. cycle.weeks < MaxCycleWeeks /\ s \in Nat
  BY <1>1 DEF EndGrow, GrowFits
<1>4. \A x \in Nat : next.weeks > cycle.weeks /\ WeekAt(next, x) % cycle.weeks = WeekAt(cycle, x)
  BY <1>1, <1>2, <1>3, RepeatsItsWeek
<1>5. cycle.weeks \in Nat /\ cycle.weeks > 0 /\ next \in Ladder /\ next.weeks \in Nat /\ next.weeks <= MaxCycleWeeks
  <2>1. cycle.weeks \in {1, 2, MaxCycleWeeks}
    BY <1>1 DEF Ladder
  <2>2. next \in Ladder
    BY <1>1, <1>2, <1>3, <2>1, NextIsOnLadder, Reanchored
  <2> QED BY <2>1, <2>2, ScheduleBounds DEF Ladder
<1>6. /\ cycle' = next
      /\ rule' = [c \in Cells |-> IF c[1] \in cycle.weeks..(next.weeks - 1)
                                  THEN rule[<<SeedWeek(rule, cycle.weeks, c[1]), c[2]>>] ELSE rule[c]]
  <2>1. ~(next.weeks <= cycle.weeks)
    BY <1>4, <1>5
  <2> QED BY <2>1 DEF EndGrow
<1> HIDE DEF next
<1>7. ASSUME NEW x \in Nat PROVE OnRoster(cycle, rule, x) = OnRoster(next, rule', x)
  <2> DEFINE k == WeekAt(next, x)
             d == DayOf(x) % WeekDays
  <2>1. k \in 0..(next.weeks - 1) /\ d \in 0..(WeekDays - 1) /\ k % cycle.weeks = WeekAt(cycle, x)
    BY <1>4, <1>5, OnCalendar, WeekInCycle
  <2> HIDE DEF k, d
  <2>2. <<k, d>> \in Cells /\ <<k, d>>[1] = k /\ <<k, d>>[2] = d
    BY <1>5, <2>1, ScheduleBounds DEF Cells
  <2>3. rule'[<<k, d>>] = rule[<<k % cycle.weeks, d>>]
    <3>1. CASE k \in cycle.weeks..(next.weeks - 1)
      BY <1>6, <2>2, <3>1 DEF SeedWeek
    <3>2. CASE k \notin cycle.weeks..(next.weeks - 1)
      <4>1. k % cycle.weeks = k
        BY <1>5, <2>1, <3>2
      <4> QED BY <1>6, <2>2, <3>2, <4>1
    <3> QED BY <3>1, <3>2
  <2> QED BY <2>1, <2>3 DEF OnRoster, k, d
<1>8. \A x \in Ahead : x \in Nat
  BY <1>1 DEF Ahead
<1> QED BY <1>6, <1>7, <1>8, Zenon DEF SamePlan

\* An Undo puts back what the removal took.
LEMMA UndoRestores ==
  ASSUME ScheduleInv, NEW t \in Pages, EndUndo(t), edit[t].fresh, edit[t].after = <<cycle, rule>>
  PROVE  SamePlan(edit[t].before[1], edit[t].before[2], cycle', rule')
<1> DEFINE u == edit[t]
           old == u.before[2]
           gap(c) == {x \in u.rows : x[1] = c}
<1>1. u.do = "undo" /\ edit[t] \in {NoPage} \cup SetEdits \cup CycleEdits \cup UndoOffers /\ OfferFits(u)
  BY Zenon DEF ScheduleInv, EditInv, EndUndo
<1>2. /\ u.to = u.before[1] /\ cycle.weeks < u.to.weeks
      /\ rule = KeptRows(old, cycle.weeks) /\ u.rows = Removed(old, cycle.weeks)
      /\ \A c \in Cells : c[1] >= u.to.weeks => old[c] = NoWrite
  <2>1. u.after[1] = cycle /\ u.after[2] = rule
    OBVIOUS
  <2> QED BY <1>1, <2>1 DEF OfferFits
<1>3. u \in UndoOffers
  BY <1>1, EditIs
<1>4. u.to \in Ladder /\ old \in Rosters /\ cycle \in Ladder
  BY <1>3 DEF UndoOffers, ScheduleInv
<1>5. u.to.weeks \in Nat /\ cycle.weeks \in Nat
  BY <1>4, ScheduleBounds DEF Ladder
<1>6. Takes(u, cycle.weeks)
  <2>1. ASSUME NEW x \in u.rows PROVE x[1][1] \in cycle.weeks..(u.to.weeks - 1)
    <3>1. PICK c \in Cells : c[1] >= cycle.weeks /\ old[c] # NoWrite /\ x = <<c, old[c]>>
      BY <1>2 DEF Removed
    <3>2. x[1] = c /\ c[1] \in Nat /\ ~(c[1] >= u.to.weeks)
      BY <1>2, <3>1, ScheduleBounds
    <3> QED BY <1>5, <3>1, <3>2
  <2> QED BY <1>2, <1>5, <2>1 DEF Takes
<1>7. /\ cycle' = u.to
      /\ rule' = [c \in Cells |-> IF gap(c) = {} THEN rule[c] ELSE (CHOOSE x \in gap(c) : TRUE)[2]]
  BY <1>6 DEF EndUndo
<1>8. ASSUME NEW c \in Cells PROVE rule'[c] = old[c]
  <2>1. rule[c] = IF c[1] >= cycle.weeks THEN NoWrite ELSE old[c]
    BY <1>2 DEF KeptRows
  <2>2. CASE c[1] >= cycle.weeks /\ old[c] # NoWrite
    <3>1. <<c, old[c]>> \in gap(c)
      BY <1>2, <2>2 DEF Removed
    <3>2. \A x \in gap(c) : x = <<c, old[c]>>
      BY <1>2, <2>2 DEF Removed
    <3>3. (CHOOSE x \in gap(c) : TRUE) = <<c, old[c]>>
      <4> HIDE DEF gap, old
      <4>1. (CHOOSE x \in gap(c) : TRUE) \in gap(c)
        BY <3>1
      <4> QED BY <3>2, <4>1, Zenon
    <3> QED BY <1>7, <3>1, <3>3
  <2>3. CASE ~(c[1] >= cycle.weeks /\ old[c] # NoWrite)
    <3>1. gap(c) = {}
      <4> SUFFICES ASSUME NEW x \in gap(c) PROVE FALSE
        OBVIOUS
      <4>1. PICK e \in Cells : e[1] >= cycle.weeks /\ old[e] # NoWrite /\ x = <<e, old[e]>>
        BY <1>2 DEF Removed
      <4>2. e = c
        BY <4>1
      <4> QED BY <2>3, <4>1, <4>2
    <3>2. rule'[c] = rule[c]
      BY <1>7, <3>1
    <3> QED BY <2>1, <2>3, <3>2
  <2> QED BY <2>2, <2>3
<1>9. rule' = old
  <2>1. rule' = [c \in Cells |-> rule'[c]] /\ old = [c \in Cells |-> old[c]]
    BY <1>4, <1>7 DEF Rosters
  <2> QED BY <1>8, <2>1
<1> QED BY <1>2, <1>7, <1>9 DEF SamePlan

---------------------------------------------------------------------------
(* Limiters.  A key is refused only when all that it holds is live, so that *)
(* what a sweep or an overflow may take away is nothing of it.              *)

\* How long a key that holds these ages stays refused.
Refused(ages) == Len(Live(ages)) >= Limit
RefusedFor(ages) == IF Refused(ages) THEN LimitWindow - Head(Live(ages)) ELSE 0
AllLive(ages) == \A i \in DOMAIN ages : ages[i] < LimitWindow

LimiterInv ==
  /\ limiter \in {"form", "mail"} /\ asks \in 0..PruneEvery /\ hits \in [Callers -> Ages]
  /\ barred \in [Callers -> 0..LimitWindow]
  /\ limiter = "form" => \A k \in Callers : RefusedFor(hits[k]) = barred[k]

\* What the constants allow.
LEMMA LimiterBounds ==
  /\ Limit \in Nat /\ Limit > 0 /\ LimitWindow \in Nat /\ LimitWindow > 0
  /\ PruneEvery \in Nat /\ PruneEvery > 0 /\ MaxKeys \in Nat /\ IsFiniteSet(Callers)
BY LimiterAssumption

\* Ages are numbers up to the window, the oldest first.
LEMMA AgesAre ==
  ASSUME NEW s \in Ages
  PROVE  /\ s \in Seq(0..LimitWindow) /\ Len(s) \in Nat /\ Len(s) <= Limit /\ DOMAIN s = 1..Len(s)
         /\ \A i \in 1..Len(s) : s[i] \in Nat /\ s[i] <= LimitWindow
         /\ \A i, j \in 1..Len(s) : i < j => s[i] >= s[j]
<1>1. s \in Seq(0..LimitWindow) /\ Len(s) <= Limit /\ OldestFirst(s)
  BY DEF Ages
<1>2. Len(s) \in Nat /\ DOMAIN s = 1..Len(s)
  BY <1>1
<1>3. \A i \in 1..Len(s) : s[i] \in 0..LimitWindow
  <2>1. ASSUME NEW S, s \in Seq(S) PROVE \A i \in 1..Len(s) : s[i] \in S
    BY <2>1
  <2> QED BY <1>1, <2>1
<1>4. \A i, j \in 1..Len(s) : i < j => s[i] >= s[j]
  BY <1>1, <1>2 DEF OldestFirst
<1> QED BY <1>1, <1>2, <1>3, <1>4, LimiterBounds

\* From the first to the last is the whole.
LEMMA TheWholeOfIt ==
  ASSUME NEW S, NEW s \in Seq(S)
  PROVE  SubSeq(s, 1, Len(s)) = s
<1> DEFINE e == SubSeq(s, 1, Len(s))
<1>1. Len(s) \in Nat /\ DOMAIN s = 1..Len(s) /\ s = [i \in 1..Len(s) |-> s[i]]
  OBVIOUS
<1>2. e = [i \in 1..Len(s) |-> s[i]]
  <2>1. Len(e) = Len(s) /\ \A i \in 1..Len(s) : e[i] = s[i]
    <3>1. Len(e) = Len(s) - 1 + 1 /\ \A i \in 1..(Len(s) - 1 + 1) : e[i] = s[i + 1 - 1]
      BY <1>1
    <3> HIDE DEF e
    <3> QED BY <1>1, <3>1
  <2>2. e \in Seq(S)
    BY <1>1
  <2> HIDE DEF e
  <2>3. DOMAIN e = 1..Len(s) /\ e = [i \in DOMAIN e |-> e[i]]
    BY <1>1, <2>1, <2>2
  <2> QED BY <2>1, <2>3
<1> QED BY <1>1, <1>2

\* A key that is not in the map is not refused.
LEMMA NoAges == <<>> \in Ages /\ Live(<<>>) = <<>> /\ RefusedFor(<<>>) = 0 /\ ~Refused(<<>>)
<1>1. <<>> \in Ages
  BY LimiterBounds DEF Ages, OldestFirst
<1>2. Live(<<>>) = <<>>
  BY DEF Live
<1>3. ~Refused(<<>>)
  BY <1>2, LimiterBounds DEF Refused
<1> QED BY <1>1, <1>2, <1>3 DEF RefusedFor

\* What is live is the end of what there is; all of it, when it is as much as the limit.
LEMMA LiveIs ==
  ASSUME NEW s \in Ages
  PROVE  /\ Live(s) \in Ages /\ AllLive(Live(s))
         /\ Refused(s) => Live(s) = s /\ Len(s) = Limit /\ s # <<>>
<1> DEFINE fresh == {i \in DOMAIN s : s[i] < LimitWindow}
           n == Len(s)
           m == Min(fresh)
<1>1. /\ s \in Seq(0..LimitWindow) /\ n \in Nat /\ n <= Limit /\ DOMAIN s = 1..n
      /\ \A i \in 1..n : s[i] \in Nat /\ s[i] <= LimitWindow
      /\ \A i, j \in 1..n : i < j => s[i] >= s[j]
  BY AgesAre
<1>2. CASE fresh = {}
  <2>1. Live(s) = <<>>
    BY <1>2 DEF Live
  <2> QED BY <2>1, NoAges, LimiterBounds DEF AllLive, Refused
<1>3. CASE fresh # {}
  <2>1. Live(s) = SubSeq(s, m, n)
    BY <1>3 DEF Live
  <2>2. fresh \in SUBSET Nat
    BY <1>1
  <2>3. m \in fresh /\ \A y \in fresh : m <= y
    BY <1>3, <2>2, FirstOfSome
  <2> HIDE DEF m
  <2>4. m \in 1..n /\ s[m] < LimitWindow
    BY <1>1, <2>3
  <2>5. \A i \in m..n : s[i] < LimitWindow
    <3> SUFFICES ASSUME NEW i \in m..n PROVE s[i] < LimitWindow
      OBVIOUS
    <3>1. i \in 1..n /\ (i = m \/ m < i)
      BY <1>1, <2>4
    <3>2. m < i => s[m] >= s[i]
      BY <1>1, <2>4, <3>1
    <3> QED BY <1>1, <2>4, <3>1, <3>2, LimiterBounds
  <2> DEFINE e == SubSeq(s, m, n)
  <2>6. e \in Seq(0..LimitWindow) /\ Len(e) = n - m + 1 /\ \A i \in 1..(n - m + 1) : e[i] = s[i + m - 1]
    BY <1>1, <2>4
  <2>7. DOMAIN e = 1..(n - m + 1) /\ Len(e) \in Nat /\ Len(e) <= Limit
    BY <1>1, <2>4, <2>6, LimiterBounds
  <2> HIDE DEF e
  <2>8. \A i \in 1..(n - m + 1) : i + m - 1 \in m..n /\ i + m - 1 \in 1..n
    BY <1>1, <2>4
  <2>9. AllLive(e)
    BY <2>5, <2>6, <2>7, <2>8 DEF AllLive
  <2>10. OldestFirst(e)
    <3> SUFFICES ASSUME NEW i \in 1..(n - m + 1), NEW j \in 1..(n - m + 1), i < j PROVE e[i] >= e[j]
      BY <2>7 DEF OldestFirst
    <3>1. i + m - 1 < j + m - 1
      BY <1>1, <2>4
    <3> QED BY <1>1, <2>6, <2>8, <3>1
  <2>11. e \in Ages
    BY <2>6, <2>7, <2>10 DEF Ages
  <2>12. ASSUME Len(e) >= Limit PROVE e = s /\ n = Limit /\ s # <<>>
    <3>1. m = 1 /\ n = Limit
      <4>1. n - m + 1 >= Limit
        BY <2>6, <2>12
      <4>2. m \in Nat /\ m >= 1 /\ n \in Nat /\ n <= Limit
        BY <1>1, <2>4
      <4> QED BY <4>1, <4>2, LimiterBounds
    <3>2. SubSeq(s, 1, n) = s
      BY <1>1, TheWholeOfIt
    <3>3. s # <<>>
      BY <3>1, LimiterBounds
    <3> QED BY <3>1, <3>2, <3>3 DEF e
  <2> QED BY <2>1, <2>9, <2>11, <2>12 DEF e, Refused
<1> QED BY <1>2, <1>3

\* Where all is live, all of it counts.
LEMMA AllOfItIsLive ==
  ASSUME NEW s \in Ages, AllLive(s)
  PROVE  Live(s) = s
<1> DEFINE fresh == {i \in DOMAIN s : s[i] < LimitWindow}
<1>1. s \in Seq(0..LimitWindow) /\ Len(s) \in Nat /\ DOMAIN s = 1..Len(s)
  BY AgesAre
<1>2. fresh = 1..Len(s)
  BY <1>1 DEF AllLive
<1>3. CASE Len(s) = 0
  <2>1. s = <<>>
    BY <1>1, <1>3
  <2> QED BY <2>1, NoAges
<1>4. CASE Len(s) # 0
  <2>1. 1 \in fresh /\ fresh \in SUBSET Nat
    BY <1>1, <1>2, <1>4
  <2>2. Min(fresh) \in fresh /\ Min(fresh) <= 1
    BY <2>1, FirstOfSome
  <2>3. Min(fresh) = 1
    BY <1>2, <2>2
  <2>4. Live(s) = SubSeq(s, 1, Len(s))
    BY <2>1, <2>3 DEF Live
  <2> QED BY <1>1, <2>4
<1> QED BY <1>3, <1>4

\* A key is refused for as long as its oldest hit is live.
LEMMA RetryIs ==
  ASSUME NEW s \in Ages
  PROVE  /\ RefusedFor(s) \in 0..LimitWindow /\ (RefusedFor(s) = 0 <=> ~Refused(s))
         /\ Refused(s) => RefusedFor(s) = LimitWindow - s[1] /\ 1 \in 1..Len(s) /\ s[1] < LimitWindow
<1>1. CASE ~Refused(s)
  BY <1>1, LimiterBounds DEF RefusedFor
<1>2. CASE Refused(s)
  <2>1. Live(s) = s /\ Len(s) = Limit /\ AllLive(s) /\ s \in Seq(0..LimitWindow)
    BY <1>2, LiveIs, AgesAre
  <2>2. 1 \in 1..Len(s) /\ Head(s) = s[1] /\ s[1] \in 0..LimitWindow /\ 1 \in DOMAIN s
    BY <2>1, LimiterBounds
  <2>3. s[1] < LimitWindow
    BY <2>1, <2>2 DEF AllLive
  <2>4. RefusedFor(s) = LimitWindow - s[1]
    BY <1>2, <2>1, <2>2 DEF RefusedFor
  <2> QED BY <1>2, <2>2, <2>3, <2>4, LimiterBounds
<1> QED BY <1>1, <1>2

\* One more, where there is room.
LEMMA OneMoreAge ==
  ASSUME NEW s \in Ages, AllLive(s), Len(s) < Limit
  PROVE  Append(s, 0) \in Ages /\ AllLive(Append(s, 0))
<1> DEFINE e == Append(s, 0)
           n == Len(s)
<1>1. /\ s \in Seq(0..LimitWindow) /\ n \in Nat /\ DOMAIN s = 1..n
      /\ \A i \in 1..n : s[i] \in Nat /\ s[i] <= LimitWindow
      /\ \A i, j \in 1..n : i < j => s[i] >= s[j]
  BY AgesAre
<1>2. 0 \in 0..LimitWindow
  BY LimiterBounds
<1>3. /\ e \in Seq(0..LimitWindow) /\ Len(e) = n + 1 /\ DOMAIN e = 1..(n + 1)
      /\ e[n + 1] = 0 /\ \A i \in 1..n : e[i] = s[i]
  BY <1>1, <1>2
<1>4. \A i \in 1..(n + 1) : i = n + 1 \/ i \in 1..n
  BY <1>1
<1> HIDE DEF e
<1>5. AllLive(e)
  BY <1>1, <1>3, <1>4, LimiterBounds DEF AllLive
<1>6. OldestFirst(e)
  <2> SUFFICES ASSUME NEW i \in 1..(n + 1), NEW j \in 1..(n + 1), i < j PROVE e[i] >= e[j]
    BY <1>3 DEF OldestFirst
  <2>1. i \in 1..n
    BY <1>1
  <2>2. CASE j = n + 1
    BY <1>1, <1>3, <2>1, <2>2
  <2>3. CASE j \in 1..n
    BY <1>1, <1>3, <2>1, <2>3
  <2> QED BY <1>4, <2>2, <2>3
<1>7. e \in Ages
  BY <1>1, <1>3, <1>6, LimiterBounds DEF Ages
<1> QED BY <1>5, <1>7 DEF e

\* A tick later.
LEMMA ATickLater ==
  ASSUME NEW s \in Ages
  PROVE  Aged(s) \in Ages /\ RefusedFor(Aged(s)) = IF RefusedFor(s) = 0 THEN 0 ELSE RefusedFor(s) - 1
<1> DEFINE e == Aged(s)
           n == Len(s)
<1>1. /\ s \in Seq(0..LimitWindow) /\ n \in Nat /\ n <= Limit /\ DOMAIN s = 1..n
      /\ \A i \in 1..n : s[i] \in Nat /\ s[i] <= LimitWindow
      /\ \A i, j \in 1..n : i < j => s[i] >= s[j]
  BY AgesAre
<1>2. e = [i \in 1..n |-> IF s[i] < LimitWindow THEN s[i] + 1 ELSE LimitWindow]
  BY <1>1 DEF Aged
<1>3. \A i \in 1..n : e[i] = (IF s[i] < LimitWindow THEN s[i] + 1 ELSE LimitWindow) /\ e[i] \in 0..LimitWindow
  BY <1>1, <1>2, LimiterBounds
<1>4. e \in Seq(0..LimitWindow) /\ Len(e) = n /\ DOMAIN e = 1..n
  BY <1>1, <1>2, <1>3
<1> HIDE DEF e
<1>5. OldestFirst(e)
  <2> SUFFICES ASSUME NEW i \in 1..n, NEW j \in 1..n, i < j PROVE e[i] >= e[j]
    BY <1>4 DEF OldestFirst
  <2>1. s[i] >= s[j] /\ s[i] \in Nat /\ s[j] \in Nat /\ s[i] <= LimitWindow /\ s[j] <= LimitWindow
    BY <1>1
  <2> QED BY <1>3, <2>1, LimiterBounds
<1>6. e \in Ages
  BY <1>1, <1>4, <1>5 DEF Ages
<1>7. CASE ~Refused(s)
  <2>1. ~Refused(e)
    <3> SUFFICES ASSUME Refused(e) PROVE FALSE
      OBVIOUS
    <3>1. AllLive(e) /\ n = Limit
      BY <1>4, <1>6, LiveIs
    <3>2. AllLive(s)
      <4> SUFFICES ASSUME NEW i \in 1..n PROVE s[i] < LimitWindow
        BY <1>1 DEF AllLive
      <4>1. e[i] < LimitWindow
        BY <1>4, <3>1 DEF AllLive
      <4> QED BY <1>1, <1>3, <4>1, LimiterBounds
    <3>3. Live(s) = s
      BY <3>2, AllOfItIsLive
    <3>4. Refused(s)
      BY <3>1, <3>3, LimiterBounds DEF Refused
    <3> QED BY <1>7, <3>4
  <2>2. RefusedFor(s) = 0 /\ RefusedFor(e) = 0
    BY <1>7, <2>1 DEF RefusedFor
  <2> QED BY <1>6, <2>2 DEF e
<1>8. CASE Refused(s)
  <2>1. Live(s) = s /\ n = Limit /\ RefusedFor(s) = LimitWindow - s[1] /\ 1 \in 1..n /\ s[1] < LimitWindow
    BY <1>8, LiveIs, RetryIs
  <2>2. s[1] \in Nat /\ e[1] = s[1] + 1
    BY <1>1, <1>3, <2>1
  <2>3. CASE s[1] + 1 < LimitWindow
    <3>1. AllLive(e)
      <4> SUFFICES ASSUME NEW i \in 1..n PROVE e[i] < LimitWindow
        BY <1>4 DEF AllLive
      <4>1. i = 1 \/ 1 < i
        OBVIOUS
      <4>2. s[1] >= s[i] /\ s[i] \in Nat
        BY <1>1, <2>1, <2>2, <4>1
      <4> QED BY <1>3, <2>2, <2>3, <4>2, LimiterBounds
    <3>2. Live(e) = e
      BY <1>6, <3>1, AllOfItIsLive
    <3>3. Refused(e)
      BY <1>4, <2>1, <3>2, LimiterBounds DEF Refused
    <3>4. RefusedFor(e) = LimitWindow - (s[1] + 1)
      BY <1>6, <2>2, <3>3, RetryIs
    <3> QED BY <1>6, <2>1, <2>2, <2>3, <3>4, LimiterBounds DEF e
  <2>4. CASE ~(s[1] + 1 < LimitWindow)
    <3>1. ~Refused(e)
      <4> SUFFICES ASSUME Refused(e) PROVE FALSE
        OBVIOUS
      <4>1. e[1] < LimitWindow
        BY <1>6, RetryIs
      <4> QED BY <2>2, <2>4, <4>1
    <3>2. RefusedFor(e) = 0
      BY <3>1 DEF RefusedFor
    <3>3. RefusedFor(s) = 1
      BY <2>1, <2>2, <2>4, LimiterBounds
    <3> QED BY <1>6, <3>2, <3>3 DEF e
  <2> QED BY <2>3, <2>4
<1> QED BY <1>7, <1>8

\* What a call finds of any key, once it has swept.
LEMMA SweptAges ==
  ASSUME LimiterInv, NEW key \in Callers
  PROVE  Swept(key) \in [Callers -> Ages]
<1> DEFINE pruned == IF asks + 1 >= PruneEvery THEN Pruned(key) ELSE hits
<1>1. hits \in [Callers -> Ages] /\ limiter \in {"form", "mail"}
  BY DEF LimiterInv
<1>2. \A k \in Callers : hits[k] \in Ages /\ Live(hits[k]) \in Ages
  BY <1>1, LiveIs
<1>3. <<>> \in Ages
  BY NoAges
<1>4. pruned \in [Callers -> Ages]
  BY <1>1, <1>2, <1>3 DEF Pruned
<1>5. Swept(key) = IF limiter = "form"
                   THEN IF Cardinality(Tracked(pruned)) > MaxKeys THEN Room(pruned) ELSE pruned
                   ELSE IF Cardinality(Tracked(hits)) > MaxKeys THEN [k \in Callers |-> <<>>] ELSE pruned
  BY DEF Swept
<1> HIDE DEF pruned
<1>6. Room(pruned) \in [Callers -> Ages]
  BY <1>3, <1>4 DEF Room, Thinned
<1>7. [k \in Callers |-> <<>>] \in [Callers -> Ages]
  BY <1>3
<1> QED BY <1>4, <1>5, <1>6, <1>7

\* A form's sweep and its overflow take nothing from who is refused, unless those who are
\* overflow the map by themselves, and leave nobody refused who was not.
LEMMA SweptIsFair ==
  ASSUME LimiterInv, limiter = "form", NEW key \in Callers, NEW k \in Callers
  PROVE  /\ RefusedFor(Swept(key)[k]) = 0 \/ Swept(key)[k] = hits[k]
         /\ ~Overrun => RefusedFor(Swept(key)[k]) = RefusedFor(hits[k])
         /\ Overrun => RefusedFor(Swept(key)[k]) = 0
<1> DEFINE pruned == IF asks + 1 >= PruneEvery THEN Pruned(key) ELSE hits
           before == {c \in Callers : AtLimit(hits, c)}
           blocked == {c \in Callers : AtLimit(pruned, c)}
<1>1. hits \in [Callers -> Ages] /\ \A c \in Callers : hits[c] \in Ages
  BY DEF LimiterInv
<1>2. \A h, c : AtLimit(h, c) <=> Refused(h[c])
  BY DEF AtLimit, Refused
<1>3. \A c \in Callers : pruned[c] = hits[c] \/ (pruned[c] = <<>> /\ Live(hits[c]) = <<>>)
  BY <1>1 DEF Pruned
<1>4. Swept(key) = IF Cardinality(Tracked(pruned)) > MaxKeys THEN Room(pruned) ELSE pruned
  BY DEF Swept
<1>5. Room(pruned) = [c \in Callers |-> IF c \in blocked /\ Cardinality(blocked) <= MaxKeys THEN pruned[c] ELSE <<>>]
  BY DEF Room, Thinned
<1>6. Overrun <=> Cardinality(Tracked(hits)) > MaxKeys /\ Cardinality(before) > MaxKeys
  BY DEF Overrun
<1> HIDE DEF pruned
<1>7. \A c \in Callers : Live(hits[c]) = <<>> => ~Refused(hits[c])
  BY LimiterBounds DEF Refused
<1>8. \A c \in Callers : Refused(pruned[c]) <=> Refused(hits[c])
  BY <1>3, <1>7, NoAges
<1>9. blocked = before
  BY <1>2, <1>8
<1>10. Tracked(pruned) \subseteq Tracked(hits) /\ blocked \subseteq Tracked(pruned) /\ Tracked(hits) \subseteq Callers
  <2>1. \A c \in Callers : pruned[c] # <<>> => hits[c] # <<>>
    BY <1>3
  <2>2. \A c \in Callers : Refused(pruned[c]) => pruned[c] # <<>>
    BY NoAges
  <2> QED BY <1>2, <2>1, <2>2 DEF Tracked
<1> HIDE DEF blocked, before
<1>11. /\ Cardinality(Tracked(pruned)) \in Nat /\ Cardinality(Tracked(hits)) \in Nat /\ Cardinality(blocked) \in Nat
       /\ Cardinality(Tracked(pruned)) <= Cardinality(Tracked(hits))
       /\ Cardinality(blocked) <= Cardinality(Tracked(pruned)) /\ MaxKeys \in Nat
  <2>1. IsFiniteSet(Tracked(hits)) /\ Cardinality(Tracked(hits)) \in Nat
    BY <1>10, LimiterBounds, FS_Subset, FS_CardinalityType
  <2>2. /\ IsFiniteSet(Tracked(pruned)) /\ Cardinality(Tracked(pruned)) \in Nat
        /\ Cardinality(Tracked(pruned)) <= Cardinality(Tracked(hits))
    BY <1>10, <2>1, FS_Subset, FS_CardinalityType
  <2>3. Cardinality(blocked) \in Nat /\ Cardinality(blocked) <= Cardinality(Tracked(pruned))
    BY <1>10, <2>2, FS_Subset, FS_CardinalityType
  <2> QED BY <2>1, <2>2, <2>3, LimiterBounds
<1>12. ~Refused(hits[k]) => RefusedFor(hits[k]) = 0
  BY DEF RefusedFor
<1>13. ~Refused(pruned[k]) => RefusedFor(pruned[k]) = 0
  BY DEF RefusedFor
<1>14. RefusedFor(<<>>) = 0
  BY NoAges
<1>15. RefusedFor(pruned[k]) = RefusedFor(hits[k])
  BY <1>3, <1>7, <1>8, <1>12, <1>13
<1>16. k \in blocked <=> Refused(pruned[k])
  BY <1>2 DEF blocked
<1>17. CASE ~(Cardinality(Tracked(pruned)) > MaxKeys)
  <2>1. Swept(key) = pruned /\ ~Overrun
    BY <1>4, <1>6, <1>9, <1>11, <1>17
  <2>2. RefusedFor(pruned[k]) = 0 \/ pruned[k] = hits[k]
    BY <1>3, <1>14
  <2> QED BY <1>15, <2>1, <2>2
<1>18. CASE Cardinality(Tracked(pruned)) > MaxKeys
  <2>1. Swept(key)[k] = IF k \in blocked /\ Cardinality(blocked) <= MaxKeys THEN pruned[k] ELSE <<>>
    BY <1>4, <1>5, <1>18
  <2>2. Overrun <=> Cardinality(blocked) > MaxKeys
    BY <1>6, <1>9, <1>11, <1>18
  <2>3. CASE Overrun
    <3>1. Swept(key)[k] = <<>>
      BY <1>11, <2>1, <2>2, <2>3
    <3> QED BY <1>14, <2>3, <3>1
  <2>4. CASE ~Overrun /\ k \in blocked
    <3>1. Swept(key)[k] = pruned[k]
      BY <1>11, <2>1, <2>2, <2>4
    <3>2. RefusedFor(pruned[k]) = 0 \/ pruned[k] = hits[k]
      BY <1>3, <1>14
    <3> QED BY <1>15, <2>4, <3>1, <3>2
  <2>5. CASE ~Overrun /\ k \notin blocked
    <3>1. Swept(key)[k] = <<>> /\ RefusedFor(hits[k]) = 0
      BY <1>12, <1>8, <1>16, <2>1, <2>5
    <3> QED BY <1>14, <2>5, <3>1
  <2> QED BY <2>3, <2>4, <2>5
<1> QED BY <1>17, <1>18

LEMMA LimiterStarts == LimiterInit => LimiterInv
<1> SUFFICES ASSUME LimiterInit PROVE LimiterInv
  OBVIOUS
<1>1. /\ limiter \in {"form", "mail"} /\ asks \in 0..PruneEvery /\ barred \in [Callers -> 0..LimitWindow]
      /\ hits = [k \in Callers |-> <<>>] /\ \A k \in Callers : barred[k] = 0
  BY LimiterBounds DEF LimiterInit
<1>2. hits \in [Callers -> Ages] /\ \A k \in Callers : RefusedFor(hits[k]) = barred[k]
  BY <1>1, NoAges
<1> QED BY <1>1, <1>2 DEF LimiterInv

\* The invariant goes on: a tick brings a form a tick nearer, a call takes away no other.
LEMMA LimiterMoves == LimiterInv /\ [LimiterNext]_limiterVars => LimiterInv'
<1> SUFFICES ASSUME LimiterInv, [LimiterNext]_limiterVars PROVE LimiterInv'
  OBVIOUS
<1>i. /\ limiter \in {"form", "mail"} /\ asks \in 0..PruneEvery /\ hits \in [Callers -> Ages]
      /\ barred \in [Callers -> 0..LimitWindow] /\ \A k \in Callers : hits[k] \in Ages
      /\ \A k \in Callers : barred[k] \in 0..LimitWindow
      /\ limiter = "form" => \A k \in Callers : RefusedFor(hits[k]) = barred[k]
  BY DEF LimiterInv
<1>1. CASE UNCHANGED limiterVars
  <2>1. UNCHANGED <<limiter, hits, asks, barred>>
    BY <1>1 DEF limiterVars
  <2> QED BY <1>i, <2>1, Zenon DEF LimiterInv
<1>2. CASE LimiterTick
  <2>1. /\ hits' = [k \in Callers |-> Aged(hits[k])] /\ limiter' = limiter /\ asks' = asks
        /\ barred' = [k \in Callers |-> IF barred[k] = 0 THEN 0 ELSE barred[k] - 1]
    BY <1>2 DEF LimiterTick
  <2>2. \A k \in Callers : /\ Aged(hits[k]) \in Ages
                           /\ RefusedFor(Aged(hits[k])) = IF RefusedFor(hits[k]) = 0 THEN 0 ELSE RefusedFor(hits[k]) - 1
    BY <1>i, ATickLater
  <2>3. barred' \in [Callers -> 0..LimitWindow]
    BY <1>i, <2>1, LimiterBounds
  <2>4. hits' \in [Callers -> Ages] /\ \A k \in Callers : hits'[k] = Aged(hits[k])
    BY <2>1, <2>2
  <2>5. limiter = "form" => \A k \in Callers : RefusedFor(hits'[k]) = barred'[k]
    BY <1>i, <2>1, <2>2, <2>4
  <2> QED BY <1>i, <2>1, <2>3, <2>4, <2>5, Zenon DEF LimiterInv
<1>3. ASSUME NEW key \in Callers, allow(key) PROVE LimiterInv'
  <2> DEFINE swept == Swept(key)
             kept == Live(swept[key])
             lets == Len(kept) < Limit
             mine == IF lets THEN Append(kept, 0) ELSE kept
             after == [swept EXCEPT ![key] = mine]
  <2>1. swept \in [Callers -> Ages] /\ swept[key] \in Ages
    BY <1>i, SweptAges
  <2>2. /\ hits' = after /\ limiter' = limiter
        /\ barred' = [k \in Callers |->
                        IF k = key THEN IF lets THEN retryAfter(after, key) ELSE barred[key]
                        ELSE IF Overrun THEN 0 ELSE barred[k]]
    BY <1>3 DEF allow
  <2>3. asks' \in 0..PruneEvery
    <3>1. asks' = 0 \/ (~(asks + 1 >= PruneEvery) /\ asks' = asks + 1)
      BY <1>3 DEF allow
    <3> QED BY <1>i, <3>1, LimiterBounds
  <2> HIDE DEF swept
  <2>4. kept \in Ages /\ AllLive(kept) /\ Len(kept) \in Nat
        /\ (Refused(swept[key]) => kept = swept[key])
    BY <2>1, LiveIs, AgesAre
  <2>5. lets <=> ~Refused(swept[key])
    BY <2>4, LimiterBounds DEF Refused
  <2> HIDE DEF kept, lets
  <2>6. mine \in Ages /\ AllLive(mine)
    <3>1. lets => Append(kept, 0) \in Ages /\ AllLive(Append(kept, 0))
      BY <2>4, OneMoreAge DEF lets
    <3> QED BY <2>4, <3>1
  <2> HIDE DEF mine
  <2>7. after \in [Callers -> Ages] /\ after[key] = mine /\ \A k \in Callers : k # key => after[k] = swept[k]
    BY <2>1, <2>6
  <2>8. retryAfter(after, key) = RefusedFor(mine) /\ RefusedFor(mine) \in 0..LimitWindow
    <3>1. retryAfter(after, key) = RefusedFor(after[key])
      BY DEF retryAfter, RefusedFor, AtLimit, Refused
    <3> QED BY <2>6, <2>7, <3>1, RetryIs
  <2> HIDE DEF after
  <2>9. barred' \in [Callers -> 0..LimitWindow]
    BY <1>i, <2>2, <2>8, LimiterBounds
  <2>10. ASSUME limiter = "form", NEW k \in Callers PROVE RefusedFor(hits'[k]) = barred'[k]
    <3>1. /\ RefusedFor(swept[k]) = 0 \/ swept[k] = hits[k]
          /\ ~Overrun => RefusedFor(swept[k]) = RefusedFor(hits[k])
          /\ Overrun => RefusedFor(swept[k]) = 0
      BY <2>10, SweptIsFair DEF swept
    <3>2. CASE k # key
      <4>1. hits'[k] = swept[k] /\ barred'[k] = IF Overrun THEN 0 ELSE barred[k]
        BY <2>2, <2>7, <3>2
      <4> QED BY <1>i, <2>10, <3>1, <4>1
    <3>3. CASE k = key /\ lets
      BY <2>2, <2>7, <2>8, <3>3
    <3>4. CASE k = key /\ ~lets
      <4>1. Refused(swept[key]) /\ RefusedFor(swept[key]) # 0 /\ kept = swept[key]
        BY <2>1, <2>4, <2>5, <3>4, RetryIs
      <4>2. swept[key] = hits[key] /\ hits'[k] = kept /\ barred'[k] = barred[key]
        BY <2>2, <2>7, <3>1, <3>4, <4>1 DEF mine
      <4> QED BY <1>i, <2>10, <3>4, <4>1, <4>2
    <3> QED BY <3>2, <3>3, <3>4
  <2>11. hits' \in [Callers -> Ages]
    BY <2>2, <2>7
  <2> QED BY <1>i, <2>2, <2>3, <2>9, <2>10, <2>11, Zenon DEF LimiterInv
<1> QED BY <1>1, <1>2, <1>3 DEF LimiterNext

\* A form is back when the page said it would be.
LEMMA FormsComeBack == LimiterInv => StaysBarred /\ LimiterTypeOK
<1> SUFFICES ASSUME LimiterInv PROVE StaysBarred /\ LimiterTypeOK
  OBVIOUS
<1>1. \A k \in Callers : retryAfter(hits, k) = RefusedFor(hits[k])
  BY DEF retryAfter, RefusedFor, AtLimit, Refused
<1>2. StaysBarred
  BY <1>1, Zenon DEF LimiterInv, StaysBarred
<1>3. LimiterTypeOK
  BY DEF LimiterInv, LimiterTypeOK
<1> QED BY <1>2, <1>3

---------------------------------------------------------------------------
(* All of them, together.                                                   *)

\* The types of the parts whose invariants do not say them in so many words.
LEMMA MailIsTyped == MailInv => MailTypeOK
<1> SUFFICES ASSUME MailInv PROVE MailTypeOK
  OBVIOUS
<1>1. mail \in Seq(Mails) /\ Len(mail) \in Nat /\ DOMAIN mail = 1..Len(mail)
  BY DEF MailInv
<1>2. ASSUME NEW i \in DOMAIN mail PROVE mail[i] \in [letter : letters, thread : 1..i, named : BOOLEAN]
  <2>1. mail[i] \in Mails
    BY <1>1
  <2>2. mail[i].letter \in letters /\ mail[i].thread \in 1..i /\ mail[i].named \in BOOLEAN
    BY Zenon DEF MailInv, MailRow
  <2>3. mail[i] = [letter |-> mail[i].letter, thread |-> mail[i].thread, named |-> mail[i].named]
    BY <2>1 DEF Mails
  <2> QED BY <2>2, <2>3, Zenon
<1>3. DOMAIN refs = Letters /\ DOMAIN alerts = Letters
  BY Zenon DEF MailInv
<1>4. sending \in [letter : byUs, thread : DOMAIN mail] \cup {NoAnswer}
  BY Zenon DEF MailInv, AnswerInv
<1>5. /\ letters \subseteq Letters /\ byUs \subseteq letters /\ arrived \subseteq letters /\ Len(mail) <= MaxMail
      /\ \A l \in Letters : Range(refs[l]) \subseteq letters \ {l}
  BY Zenon DEF MailInv
<1> QED BY <1>2, <1>3, <1>4, <1>5, Zenon DEF MailTypeOK

\* ... and of the schedule.
LEMMA ScheduleIsTyped == ScheduleInv => ScheduleTypeOK
<1> SUFFICES ASSUME ScheduleInv PROVE ScheduleTypeOK
  OBVIOUS
<1>1. \A t \in Pages : edit[t].do \in {"nothing", "set", "grow", "shrink", "offer", "undo"}
  <2> SUFFICES ASSUME NEW t \in Pages PROVE edit[t].do \in {"nothing", "set", "grow", "shrink", "offer", "undo"}
    OBVIOUS
  <2>1. edit[t] \in {NoPage} \cup SetEdits \cup CycleEdits \cup UndoOffers
    BY Zenon DEF ScheduleInv, EditInv
  <2> QED BY <2>1, EditIs
<1>2. cycle \in Cycle
  BY ScheduleBounds DEF ScheduleInv, Ladder, Cycle
<1> QED BY <1>1, <1>2, Zenon DEF ScheduleInv, ScheduleTypeOK, Rosters

AllInv ==
  /\ DriftInv /\ AlertInv /\ ClaimsInv /\ QuietInv /\ SpreadTypeOK /\ WriteInv
  /\ GovernorInv /\ MailInv /\ NudgesInv /\ ScheduleInv /\ LimiterInv

\* What is proved of the other parts holds wherever the whole can get to.
LEMMA AllInvariant == MCSpec => []AllInv
<1>1. MCInit => AllInv
  BY PartsStart, DriftStarts, AlertStarts, ClaimsStart, QuietStarts, SpreadStarts, WriteStarts,
     GovernorStarts, MailStarts, NudgesStart, ScheduleStarts, LimiterStarts, Zenon DEF AllInv
<1>2. AllInv /\ [MCNext]_allVars => AllInv'
  BY PartsMove, DriftMoves, AlertMoves, ClaimsMove, QuietMoves, SpreadMoves, WriteMoves,
     GovernorMoves, MailMoves, NudgesMove, ScheduleMoves, LimiterMoves, Zenon DEF AllInv
<1> QED BY <1>1, <1>2, PTL DEF MCSpec, allVars

\* However many permits share a council: an edit reported done is on the portal, a vehicle is
\* written once (provider/orikan), the requests stay under the ceiling (parking/governor.go)
\* and no grid is read over and over (scheduler/drift.go).
THEOREM PortalIsSpared == MCSpec => []PortalSpared
<1>1. AllInv => DoneIsOnFile /\ LandsOnce
  BY WritesOnce DEF AllInv
<1>2. AllInv => UnderCeiling /\ ReadsApart
  BY NeverOverCeiling, Zenon DEF AllInv, DriftInv
<1>3. AllInv => PortalSpared
  BY <1>1, <1>2, Zenon DEF PortalSpared
<1> QED BY <1>3, AllInvariant, PTL

\* What is said once is said once, for any number of people, letters and alerts: a reminder
\* (housekeeping.go), a letter to the operator (store/mail.go), an alert (scheduler/notify.go).
THEOREM SaidOnlyOnce == MCSpec => []OnceOnly
<1>1. AllInv => OnceEver /\ Spaced
  BY EachNoteOnce DEF AllInv
<1>2. AllInv => MailIsFiledOnce
  BY Zenon DEF AllInv, MailInv
<1>3. AllInv => AlertsSpaced /\ QuietMeansHeard
  BY AlertsAreSpaced DEF AllInv
<1>4. AllInv => OnceOnly
  BY <1>1, <1>2, <1>3, Zenon DEF OnceOnly
<1> QED BY <1>4, AllInvariant, PTL

\* For a week of any length, any number of pages and bookings: no row outlives its week
\* (store/schedule.go), and NextChange misses no change (model/model.go).
THEOREM ScheduleIsSound == MCSpec => []ScheduleSound
<1>1. AllInv => RowsInCycle
  BY Zenon DEF AllInv, ScheduleInv
<1>2. AllInv => ChangeIsForeseen
  BY NothingIsMissed DEF AllInv
<1>3. AllInv => ScheduleSound
  BY <1>1, <1>2, Zenon DEF ScheduleSound
<1> QED BY <1>3, AllInvariant, PTL

\* Adding weeks to a roster, whatever other pages do in between, and undoing a removal leave
\* every day to come the rego it had (server/schedule.go, store/schedule.go).
THEOREM PlanIsKept == MCSpec => PlanKept
<1>1. AllInv => [\A t \in Pages : EndGrow(t) /\ edit[t].read = cycle
                   => SamePlan(cycle, rule, cycle', rule')]_scheduleVars
  BY GrowthKeeps, Zenon DEF AllInv
<1>2. AllInv => [\A t \in Pages : EndUndo(t) /\ edit[t].fresh /\ edit[t].after = <<cycle, rule>>
                   => SamePlan(edit[t].before[1], edit[t].before[2], cycle', rule')]_scheduleVars
  BY UndoRestores, Zenon DEF AllInv
<1>3. MCSpec => GrowKeepsPlan
  BY <1>1, AllInvariant, PTL DEF GrowKeepsPlan
<1>4. MCSpec => UndoIsExact
  BY <1>2, AllInvariant, PTL DEF UndoIsExact
<1> QED BY <1>3, <1>4, PTL DEF PlanKept

\* What waits, waits for as long as it is said to, whatever the window, the council, the
\* limit and the number of permits: a notice held for the night (notify/compose.go), a form
\* taken away (server/contact.go), a claim on a permit (scheduler/scheduler.go).
THEOREM WaitsAreKept == MCSpec => []PutOffBriefly
<1>1. AllInv => HeldForTheNight /\ HeldBriefly
  BY HeldUntilMorning, PauseIsShort DEF AllInv
<1>2. AllInv => StaysBarred /\ NoRing
  BY FormsComeBack, NobodyInARing DEF AllInv
<1>3. AllInv => PutOffBriefly
  BY <1>1, <1>2, Zenon DEF PutOffBriefly
<1> QED BY <1>3, AllInvariant, PTL

\* Every part keeps the shape its code gives its state.
THEOREM ComponentsTyped == MCSpec => []TypesOK
<1>1. PeopleInv => /\ GuestTypeOK /\ HouseholdTypeOK /\ ChannelTypeOK /\ NoticeTypeOK /\ FanoutTypeOK
                   /\ WebTypeOK /\ MemoTypeOK
  BY DEF PeopleInv, GuestInv, HouseholdInv, ChannelInv, NoticeInv, FanoutInv, WebInv, MemoInv
<1>2. AllInv => /\ NudgesTypeOK /\ QuietTypeOK /\ SpreadTypeOK /\ CouncilTypeOK /\ DriftTypeOK /\ AlertTypeOK
                /\ ClaimsTypeOK
  BY DEF AllInv, NudgesInv, QuietInv, WriteInv, DriftInv, AlertInv, ClaimsInv
<1>3. AllInv => ScheduleTypeOK /\ MailTypeOK /\ GovernorTypeOK /\ LimiterTypeOK
  BY ScheduleIsTyped, MailIsTyped, NeverOverCeiling, FormsComeBack DEF AllInv
<1>4. PeopleInv /\ AllInv => TypesOK
  BY <1>1, <1>2, <1>3, Zenon DEF TypesOK
<1> QED BY <1>4, PeopleInvariant, AllInvariant, PTL
==============================================================================
