------------------------------- MODULE Schedule -------------------------------
(***************************************************************************)
(* A permit's schedule: a roster that repeats every one, two or four weeks, *)
(* and bookings that take precedence over it (model/model.go, and the edits *)
(* of server/schedule.go with their transactions in store/schedule.go).     *)
(* The handlers read the permit first and write in a transaction of their   *)
(* own, so that another edit can come in between; an edit under way, and    *)
(* the Undo a page holds, are each tab's.                                   *)
(***************************************************************************)
EXTENDS Integers, FiniteSets, FiniteSetsExt

CONSTANTS
  WeekDays,      \* days of a week
  Slots,         \* times of a day at which something can change
  MaxCycleWeeks,
  Horizon,       \* how far ahead NextChange looks, in slots
  Regos,        \* saved regos
  Pages,         \* pages of the household, each with one edit under way
  MaxClock,      \* bound: the last slot
  MaxMade        \* bound: bookings ever made

ASSUME ScheduleAssumption ==
  /\ WeekDays \in Nat \ {0} /\ Slots \in Nat \ {0}
  /\ MaxCycleWeeks \in Nat \ {0} /\ MaxCycleWeeks % 2 = 0   \* 4 (model.go:178)
  /\ Horizon \in Nat /\ MaxClock \in Nat /\ MaxMade \in Nat

NoWrite == "nothing"   \* SourceNone: no write, the plate in place lingers
Clear == "clear"       \* Empty: the permit is left with no rego

Cells == (0..(MaxCycleWeeks - 1)) \X (0..(WeekDays - 1))
Targets == Regos \cup {Clear}
Cycle == [weeks : 1..MaxCycleWeeks, anchor : Int]
Plain == [weeks |-> 1, anchor |-> 0]
NoPage == [do |-> "nothing"]

VARIABLES
  clock,     \* now, in slots
  cycle,     \* cycle_weeks and cycle_anchor (the number of the week that is week 0)
  rule,      \* weekly_rule: cell -> target, or NoWrite for no row
  booked,    \* override
  made,      \* bookings made so far
  edit       \* what a tab has under way, or an Undo it shows

scheduleVars == <<clock, cycle, rule, booked, made, edit>>

Entry == [n : 1..MaxMade, rego : Targets, from : Nat, until : Nat]

ScheduleTypeOK ==
  /\ clock \in 0..MaxClock /\ cycle \in Cycle /\ rule \in [Cells -> Targets \cup {NoWrite}]
  /\ booked \subseteq Entry /\ made \in 0..MaxMade
  /\ \A t \in Pages : edit[t].do \in {"nothing", "set", "grow", "shrink", "offer", "undo"}

ScheduleInit ==
  /\ clock = 0 /\ cycle = Plain /\ rule = [c \in Cells |-> NoWrite]
  /\ booked = {} /\ made = 0 /\ edit = [t \in Pages |-> NoPage]

------------------------------------------------------------------------------
(* The calendar.                                                            *)

DayOf(t) == t \div Slots
WeekOf(t) == DayOf(t) \div WeekDays

WeekAt(c, t) == IF c.weeks = 1 THEN 0 ELSE (WeekOf(t) - c.anchor) % c.weeks

\* Fault: the count starts again in the week of the edit.
AnchoredNow(c, to, t) == IF to = 1 THEN Plain ELSE [weeks |-> to, anchor |-> WeekOf(t)]

\* The week we are in keeps its place, or its place modulo the new length.
ReanchoredCycle(c, to, t) ==
  IF to = 1 THEN Plain ELSE [weeks |-> to, anchor |-> WeekOf(t) - (WeekAt(c, t) % to)]

NextCycleWeeks(w) == IF w < 2 THEN 2 ELSE MaxCycleWeeks
PrevCycleWeeks(w) == IF w > 2 THEN 2 ELSE 1

OnRoster(c, r, t) == r[<<WeekAt(c, t), DayOf(t) % WeekDays>>]

\* The booking made last wins; ids grow as bookings are made.
Resolve(t) ==
  LET live == {b \in booked : b.from <= t /\ t < b.until}
  IN IF live = {} THEN OnRoster(cycle, rule, t)
     ELSE (CHOOSE b \in live : \A o \in live : o.n <= b.n).rego

\* Fault: the roster's midnights and the beginnings of bookings only.
Beginnings(t) ==
  {u \in (t + 1)..(t + Horizon) : u % Slots = 0 \/ \E b \in booked : u = b.from}

Candidates(t) == Beginnings(t) \cup {u \in (t + 1)..(t + Horizon) : \E b \in booked : u = b.until}

\* What is on the permit just before u, for all that the walk through the candidates
\* has seen.
LastSeen(t, u) ==
  LET seen == {v \in {t} \cup Candidates(t) : v < u /\ Resolve(v) # NoWrite}
  IN IF seen = {} THEN NoWrite ELSE Resolve(Max(seen))

\* The first time the council has to be written to, or 0.
NextChange(t) ==
  LET writes == {u \in Candidates(t) : Resolve(u) # NoWrite /\ Resolve(u) # LastSeen(t, u)}
  IN IF writes = {} THEN 0 ELSE Min(writes)

------------------------------------------------------------------------------
(* The roster's edits.                                                      *)

NotEditing(t) == edit[t].do \in {"nothing", "offer"}
Shows(t, p) == edit' = [edit EXCEPT ![t] = p]
Finish(t) == Shows(t, NoPage)

\* setRule: the week is compared with the cycle it has read ...
StartSet(t, cell, to) ==
  /\ NotEditing(t) /\ cell[1] < cycle.weeks
  /\ Shows(t, [do |-> "set", cell |-> cell, to |-> to])
  /\ UNCHANGED <<clock, cycle, rule, booked, made>>

\* Fault: ... and not again.
InCycleThen(cell) == TRUE

\* ... and again by the statement that writes the row.
InCycle(cell) == cell[1] < cycle.weeks

\* SetRule, SetEmptyRule, or ClearRule, which asks nothing.
EndSet(t) ==
  /\ edit[t].do = "set" /\ Finish(t)
  /\ rule' = IF edit[t].to = NoWrite \/ InCycle(edit[t].cell)
             THEN [rule EXCEPT ![edit[t].cell] = edit[t].to] ELSE rule
  /\ UNCHANGED <<clock, cycle, booked, made>>

StartGrow(t) ==
  /\ NotEditing(t) /\ cycle.weeks < MaxCycleWeeks
  /\ Shows(t, [do |-> "grow", read |-> cycle,
               next |-> ReanchoredCycle(cycle, NextCycleWeeks(cycle.weeks), clock)])
  /\ UNCHANGED <<clock, cycle, rule, booked, made>>

\* Fault: every new week is a copy of the last.
FromLastWeek(r, w, k) == w - 1

\* Every new week repeats the one a cycle earlier.
SeedWeek(r, w, k) == k % w

\* GrowCycle, refused when another edit has come first.
EndGrow(t) ==
  LET next == edit[t].next
  IN /\ edit[t].do = "grow" /\ Finish(t)
     /\ IF next.weeks <= cycle.weeks THEN UNCHANGED <<cycle, rule>>
        ELSE /\ cycle' = next
             /\ rule' = [c \in Cells |->
                  IF c[1] \in cycle.weeks..(next.weeks - 1)
                  THEN rule[<<SeedWeek(rule, cycle.weeks, c[1]), c[2]>>] ELSE rule[c]]
     /\ UNCHANGED <<clock, booked, made>>

StartShrink(t) ==
  /\ NotEditing(t) /\ cycle.weeks > 1
  /\ Shows(t, [do |-> "shrink", read |-> cycle,
               next |-> ReanchoredCycle(cycle, PrevCycleWeeks(cycle.weeks), clock)])
  /\ UNCHANGED <<clock, cycle, rule, booked, made>>

\* Fault: the Undo carries the anchor of the shorter cycle.
NewAnchor(read, next) == next.anchor

UndoAnchor(read, next) == read.anchor

\* ShrinkCycle, and the Undo the page then shows: the length and the anchor it had
\* read and the rows it has removed.  (before and after are history.)
EndShrink(t) ==
  LET next == edit[t].next
      read == edit[t].read
      kept == [c \in Cells |-> IF c[1] >= next.weeks THEN NoWrite ELSE rule[c]]
  IN /\ edit[t].do = "shrink"
     /\ IF next.weeks >= cycle.weeks THEN Finish(t) /\ UNCHANGED <<cycle, rule>>
        ELSE /\ cycle' = next /\ rule' = kept
             /\ Shows(t, [do |-> "offer",
                  to |-> [weeks |-> read.weeks, anchor |-> UndoAnchor(read, next)],
                  rows |-> {<<c, rule[c]>> : c \in {d \in Cells : d[1] >= next.weeks /\ rule[d] # NoWrite}},
                  fresh |-> read = cycle, before |-> <<cycle, rule>>, after |-> <<next, kept>>])
     /\ UNCHANGED <<clock, booked, made>>

\* restoreCycleWeek: what the page sends is checked against the cycle as it is now.
Takes(u, weeks) == /\ u.to.weeks > weeks
                   /\ \A x \in u.rows : x[1][1] \in weeks..(u.to.weeks - 1)

StartUndo(t) ==
  /\ edit[t].do = "offer" /\ Takes(edit[t], cycle.weeks)
  /\ edit' = [edit EXCEPT ![t].do = "undo"]
  /\ UNCHANGED <<clock, cycle, rule, booked, made>>

\* RestoreCycle checks it once more.
EndUndo(t) ==
  LET u == edit[t]
      rows(c) == {x \in u.rows : x[1] = c}
  IN /\ u.do = "undo" /\ Finish(t)
     /\ IF ~Takes(u, cycle.weeks) THEN UNCHANGED <<cycle, rule>>
        ELSE /\ cycle' = u.to
             /\ rule' = [c \in Cells |-> IF rows(c) = {} THEN rule[c]
                                         ELSE (CHOOSE x \in rows(c) : TRUE)[2]]
     /\ UNCHANGED <<clock, booked, made>>

\* CopySchedule from another permit of the account: its whole roster, its cycle, and
\* its bookings that have not ended.  Here its roster alternates between two targets.
CopyOver(weeks, even, odd, from, until) ==
  /\ made < MaxMade /\ until > clock
  /\ cycle' = IF weeks = 1 THEN Plain ELSE [weeks |-> weeks, anchor |-> WeekOf(clock)]
  /\ rule' = [c \in Cells |-> IF c[1] >= weeks THEN NoWrite ELSE IF c[1] % 2 = 0 THEN even ELSE odd]
  /\ booked' = {b \in booked : b.until <= clock}
               \cup {[n |-> made + 1, rego |-> even, from |-> from, until |-> until]}
  /\ made' = made + 1
  /\ UNCHANGED <<clock, edit>>

------------------------------------------------------------------------------
(* Bookings and time.                                                       *)

\* The count and the insert, in one transaction.
createOverrideCapped(rego, from, until) ==
  /\ made < MaxMade
  /\ booked' = booked \cup {[n |-> made + 1, rego |-> rego, from |-> from, until |-> until]}
  /\ made' = made + 1

\* addOverride: with an end, after its beginning; one that begins now or later.
AddBooking(rego, from, until) ==
  /\ from >= clock /\ until > from /\ createOverrideCapped(rego, from, until)
  /\ UNCHANGED <<clock, cycle, rule, edit>>

DeleteBooking(b) ==
  /\ booked' = booked \ {b}
  /\ UNCHANGED <<clock, cycle, rule, made, edit>>

TimePasses ==
  /\ clock < MaxClock /\ clock' = clock + 1
  /\ UNCHANGED <<cycle, rule, booked, made, edit>>

------------------------------------------------------------------------------
RosterEvent ==
  \/ \E t \in Pages : \/ StartGrow(t) \/ StartShrink(t)
                      \/ \E c \in Cells, to \in Targets \cup {NoWrite} : StartSet(t, c, to)
  \/ \E w \in 1..2, e, o \in Targets : CopyOver(w, e, o, clock, clock + 1)

BookingEvent ==
  \/ \E r \in Targets, f, u \in clock..(clock + Horizon) : AddBooking(r, f, u)
  \/ \E e, o \in Targets, u \in (clock + 1)..(clock + Horizon) : CopyOver(2, e, o, clock, u)
  \/ \E b \in booked : DeleteBooking(b)

ScheduleWork ==
  \/ TimePasses
  \/ \E t \in Pages : EndSet(t) \/ EndGrow(t) \/ EndShrink(t) \/ StartUndo(t) \/ EndUndo(t)

------------------------------------------------------------------------------
Ahead == clock..(clock + 2 * MaxCycleWeeks * WeekDays * Slots)

SamePlan(c, r, d, s) == \A t \in Ahead : OnRoster(c, r, t) = OnRoster(d, s, t)

\* No row outlives the weeks of its cycle, whatever edits of other tabs come between
\* an edit's reading and its statement (SetRule, GrowCycle, ShrinkCycle): such a row
\* would come back with the next added week.
RowsInCycle == \A c \in Cells : c[1] >= cycle.weeks => rule[c] = NoWrite

\* Adding weeks changes no day's rego, this week or later, even when midnight on
\* Sunday falls between the reading and the transaction (ReanchoredCycle, GrowCycle).
GrowKeepsPlan ==
  [][\A t \in Pages : EndGrow(t) /\ edit[t].read = cycle
       => SamePlan(cycle, rule, cycle', rule')]_scheduleVars

\* An Undo of the last removal puts back the plan of every day to come, also when it
\* is pressed weeks later (removeCycleWeek, restoreCycleWeek).
UndoIsExact ==
  [][\A t \in Pages : EndUndo(t) /\ edit[t].fresh /\ edit[t].after = <<cycle, rule>>
       => SamePlan(edit[t].before[1], edit[t].before[2], cycle', rule')]_scheduleVars

\* What is on the permit at u if it is kept to the schedule from t on, slot by slot.
PlateBy(t, u) ==
  LET seen == {v \in t..u : Resolve(v) # NoWrite}
  IN IF seen = {} THEN NoWrite ELSE Resolve(Max(seen))

\* NextChange says when the council must next be written to: it looks only at midnights
\* and at the ends of bookings, and misses no change that a walk through every moment
\* finds, in gaps, overlaps and handovers.
ChangeIsForeseen ==
  LET changes == {u \in (clock + 1)..(clock + Horizon) : PlateBy(clock, u) # PlateBy(clock, u - 1)}
  IN NextChange(clock) = IF changes = {} THEN 0 ELSE Min(changes)
==============================================================================
