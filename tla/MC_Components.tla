---------------------------- MODULE MC_Components ----------------------------
(***************************************************************************)
(* What surrounds the permits, side by side.  For the household: the links *)
(* it gives out (GuestAccess), who is in it (Households), what it is told  *)
(* and how (Channels, ApplyNotice, Fanout, Nudges, QuietHours), its        *)
(* schedule (Schedule, RolloverSpread), the claims on its permits          *)
(* (ApplyClaims).  Towards a council: which one (TenantMemo), the ceiling  *)
(* (Governor), one edit (CouncilWrite), when grids are read (DriftPacing). *)
(* For everybody: the sign-in to the app (WebSessions), the limiters       *)
(* (Limiters); and for the operator the mailbox (Mailbox) and the alerts   *)
(* (OperatorAlerts).  They share no variable, so a behaviour is one of one *)
(* of them and the state spaces add up.  A bounded number of events        *)
(* happens in each; the program's own steps are not bounded.               *)
(***************************************************************************)
EXTENDS GuestAccess, Households, Channels, ApplyNotice, Fanout,
        Nudges, QuietHours, Schedule, RolloverSpread, Mailbox,
        CouncilWrite, Governor, DriftPacing, OperatorAlerts,
        Limiters, ApplyClaims, WebSessions, TenantMemo, TLC

CONSTANTS
  MaxEvents,      \* bound: events
  NudgeEvents,    \* ... while notes are sent
  FanoutEvents,   \* ... while a notice goes out
  NoticeEvents,   \* ... between its attempts
  CeilingEvents,  \* ... under the ceiling
  WebEvents       \* ... about a person's sign-ins

ASSUME MaxEventsAssumption ==
  {MaxEvents, NudgeEvents, FanoutEvents, NoticeEvents, CeilingEvents, WebEvents} \subseteq Nat

VARIABLES
  part,      \* which of them this behaviour is about
  events     \* events so far

Parts == {"guests", "household", "channels", "notice", "fanout", "nudges",
          "night", "roster", "bookings", "spread", "mail", "write", "ceiling",
          "drift", "alerts", "limits", "claims", "signin", "memo"}

TypesOK ==
  /\ part = "guests" => GuestTypeOK
  /\ part = "household" => HouseholdTypeOK
  /\ part = "channels" => ChannelTypeOK
  /\ part = "notice" => NoticeTypeOK
  /\ part = "fanout" => FanoutTypeOK
  /\ part = "nudges" => NudgesTypeOK
  /\ part = "night" => QuietTypeOK
  /\ part \in {"roster", "bookings"} => ScheduleTypeOK
  /\ part = "spread" => SpreadTypeOK
  /\ part = "mail" => MailTypeOK
  /\ part = "write" => CouncilTypeOK
  /\ part = "ceiling" => GovernorTypeOK
  /\ part = "drift" => DriftTypeOK
  /\ part = "alerts" => AlertTypeOK
  /\ part = "limits" => LimiterTypeOK
  /\ part = "claims" => ClaimsTypeOK
  /\ part = "signin" => WebTypeOK
  /\ part = "memo" => MemoTypeOK

MailOnly == [mail |-> TRUE, push |-> FALSE, failuresOnly |-> FALSE, asleep |-> FALSE]
JustMail == [mail |-> TRUE, push |-> FALSE, failuresOnly |-> FALSE]

\* Of the wishes that a notice does not tell apart, one.
ToldApart(s, w) == (s # "routine" => ~w.failuresOnly) /\ (s = "action" => ~w.asleep)

\* A part that is not looked at begins in one of its initial states.
Aside(p, start) == IF part = p THEN TRUE ELSE start

MCInit ==
  /\ part \in Parts /\ events = 0
  /\ Aside("notice", sort = "routine" /\ wish \in [Household -> {MailOnly}])
  /\ Aside("fanout", notice = "drift" /\ says \in [Sharers -> {JustMail}])
  /\ Aside("nudges", invite \in [Invited -> {"none"}] /\ pass \in [Passes -> {"fresh"}])
  /\ Aside("night", from = 0 /\ until = 0 /\ hour = 0)
  /\ Aside("spread", due = "asked" /\ length = 0 /\ lot = 0 /\ counted = 0 /\ elapsed = 0)
  /\ Aside("write", onFile = NoVehicle)
  /\ Aside("limits", limiter = "form")
  /\ Aside("signin", admin = FALSE)
  /\ GuestInit /\ HouseholdInit /\ ChannelInit /\ NoticeInit /\ FanoutInit
  /\ NudgesInit /\ QuietInit /\ ScheduleInit /\ SpreadInit /\ MailInit
  /\ CouncilInit /\ GovernorInit /\ DriftInit /\ AlertInit /\ LimiterInit
  /\ ClaimsInit /\ WebInit /\ MemoInit
  /\ \A m \in Household : ToldApart(sort, wish[m])

Upto(n) == events < n /\ events' = events + 1
Free == UNCHANGED events

\* The parts that a behaviour is not about stay as they are.
Rest(p, still) == IF part = p THEN TRUE ELSE still
RestOfSchedule == IF part \in {"roster", "bookings"} THEN TRUE ELSE UNCHANGED scheduleVars

MCNext ==
  /\ UNCHANGED part
  /\ Rest("guests", UNCHANGED guestVars) /\ Rest("household", UNCHANGED householdVars)
  /\ Rest("channels", UNCHANGED channelVars) /\ Rest("notice", UNCHANGED noticeVars)
  /\ Rest("fanout", UNCHANGED fanoutVars) /\ Rest("nudges", UNCHANGED nudgeVars)
  /\ Rest("night", UNCHANGED quietVars) /\ RestOfSchedule
  /\ Rest("spread", UNCHANGED spreadVars) /\ Rest("mail", UNCHANGED mailVars)
  /\ Rest("write", UNCHANGED councilVars)
  /\ Rest("ceiling", UNCHANGED governorVars) /\ Rest("drift", UNCHANGED driftVars)
  /\ Rest("alerts", UNCHANGED alertVars) /\ Rest("limits", UNCHANGED limiterVars)
  /\ Rest("claims", UNCHANGED claimVars) /\ Rest("signin", UNCHANGED webVars)
  /\ Rest("memo", UNCHANGED memoVars)
  /\ \/ part = "guests" /\ ((GuestEvent /\ Upto(MaxEvents)) \/ (GuestWork /\ Free))
     \/ part = "household" /\ ((PeopleAct /\ Upto(MaxEvents)) \/ (FormsMove /\ Free))
     \/ part = "channels" /\ ChannelNext /\ Free
     \/ /\ part = "notice" /\ ((NoticeEvent /\ Upto(NoticeEvents)) \/ (NoticeWork /\ Free))
        /\ \A m \in Household : ToldApart(sort, wish'[m])
     \/ part = "fanout" /\ ((FanoutEvent /\ Upto(FanoutEvents)) \/ (FanoutWork /\ Free))
     \/ part = "nudges" /\ ((NudgeEvent /\ Upto(NudgeEvents)) \/ (NudgeWork /\ Free))
     \/ part = "night" /\ QuietNext /\ Free
     \/ part = "roster" /\ RosterEvent /\ Upto(MaxEvents)
     \/ part = "bookings" /\ BookingEvent /\ Upto(MaxEvents)
     \/ part \in {"roster", "bookings"} /\ ScheduleWork /\ Free
     \/ part = "spread" /\ SpreadNext /\ Free
     \/ part = "mail" /\ ((MailEvent /\ Upto(MaxEvents)) \/ (MailWork /\ Free))
     \/ part = "write" /\ ((CouncilEvent /\ Upto(MaxEvents)) \/ (CouncilWork /\ Free))
     \/ part = "ceiling" /\ ((GovernorEvent /\ Upto(CeilingEvents)) \/ (GovernorWork /\ Free))
     \/ part = "drift" /\ DriftNext /\ Free
     \/ part = "alerts" /\ AlertNext /\ Free
     \/ part = "limits" /\ LimiterNext /\ Free
     \/ part = "claims" /\ ClaimsNext /\ Free
     \/ part = "signin" /\ ((WebEvent /\ Upto(WebEvents)) \/ (WebWork /\ Free))
     \/ part = "memo" /\ MemoNext /\ Free

MCSpec ==
  MCInit /\ [][MCNext]_<<guestVars, householdVars, channelVars, noticeVars, fanoutVars,
                         nudgeVars, quietVars, scheduleVars, spreadVars, mailVars,
                         councilVars, governorVars, driftVars, alertVars,
                         limiterVars, claimVars, webVars, memoVars, part, events>>

\* No definition of a part tells the values of these sets from one another.
Symmetry == Permutations(Members)

---------------------------------------------------------------------------
\* Who is in a household, and what is theirs, is what they were shown: see PrefsAreTheirs
\* and JoinsAsShown.
MembershipAsShown == PrefsAreTheirs /\ JoinsAsShown

\* Who works on a household's permits is somebody who may, at the council the household is
\* at: see SharingHidesNothing, RevokedStaysOut, EndsInTime, ActiveStaysIn and MemoFollows.
AccessAsMeant ==
  /\ part = "household" => SharingHidesNothing
  /\ part = "signin" => RevokedStaysOut /\ EndsInTime /\ ActiveStaysIn
  /\ part = "memo" => MemoFollows

\* A notice reaches those it has to, once, by a way that works: see OneCopyEach,
\* RecordMeansTold, ToldAsNamed and NeverUnheard.
NoticeHonest ==
  /\ part = "notice" => OneCopyEach /\ RecordMeansTold
  /\ part = "fanout" => ToldAsNamed
  /\ part = "channels" => NeverUnheard

\* What is said once is said once: see OnceEver, Spaced, MailIsFiledOnce, AlertsSpaced
\* and QuietMeansHeard.
OnceOnly ==
  /\ part = "nudges" => OnceEver /\ Spaced
  /\ part = "mail" => MailIsFiledOnce
  /\ part = "alerts" => AlertsSpaced /\ QuietMeansHeard

\* What waits, waits for as long as it is said to: see HeldForTheNight, HeldBriefly,
\* StaysBarred and NoRing.
PutOffBriefly ==
  /\ part = "night" => HeldForTheNight
  /\ part = "spread" => HeldBriefly
  /\ part = "limits" => StaysBarred
  /\ part = "claims" => NoRing

\* The schedule as the permit follows it: see RowsInCycle and ChangeIsForeseen.
ScheduleSound == part \in {"roster", "bookings"} => RowsInCycle /\ ChangeIsForeseen

\* A portal is written to once and for good, and asked no more often than it is to be:
\* see DoneIsOnFile, LandsOnce, UnderCeiling and ReadsApart.
PortalSpared ==
  /\ part = "write" => DoneIsOnFile /\ LandsOnce
  /\ part = "ceiling" => UnderCeiling
  /\ part = "drift" => ReadsApart

\* An edit of the roster changes what it says and nothing else: see GrowKeepsPlan and
\* UndoIsExact.
PlanKept == GrowKeepsPlan /\ UndoIsExact
==============================================================================
