------------------------------ MODULE QuietHours ------------------------------
(***************************************************************************)
(* When a notice may be held for the night (notify/service.go quietDefer,   *)
(* and the hours saveNotify lets a person choose).  A window runs from one  *)
(* hour to another, over midnight if need be; equal hours switch it off.    *)
(***************************************************************************)
EXTENDS Integers

CONSTANTS
  Day,        \* hours of a day
  MaxQuiet    \* MaxQuietHours

ASSUME QuietAssumption == Day \in Nat \ {0} /\ MaxQuiet \in 1..(Day - 1)

Hours == 0..(Day - 1)

VARIABLES
  from, until,   \* the window on record
  hour,          \* the time
  held,          \* a notice that waits: the hour it is for; -1 when none does
  waited         \* how long it has

quietVars == <<from, until, hour, held, waited>>

QuietTypeOK ==
  /\ from \in Hours /\ until \in Hours /\ hour \in Hours
  /\ held \in Hours \cup {-1} /\ waited \in 0..Day

QuietInit ==
  /\ from \in Hours /\ until \in Hours /\ hour \in Hours
  /\ held = -1 /\ waited = 0

Span(f, u) == (u - f + Day) % Day

\* Fault: the window is taken as it is on record.
AsStored(f, u) == IF f = u THEN f ELSE u

\* Fault: the capped end is not taken past midnight.
PastMidnight(f, u) == IF Span(f, u) > MaxQuiet THEN f + MaxQuiet ELSE u

\* Rows from before the cap are capped when they are used.
Ends(f, u) == IF Span(f, u) > MaxQuiet THEN (f + MaxQuiet) % Day ELSE u

InQuiet(f, u, h) ==
  LET e == Ends(f, u)
  IN f # u /\ IF f < e THEN h >= f /\ h < e ELSE h >= f \/ h < e

\* A notice that nobody has to act on; NotBefore is the next time the window ends.
Queue ==
  /\ held = -1 /\ InQuiet(from, until, hour)
  /\ held' = Ends(from, until) /\ waited' = 0
  /\ UNCHANGED <<from, until, hour>>

HourPasses ==
  /\ hour # held /\ hour' = (hour + 1) % Day
  /\ waited' = IF held = -1 THEN 0 ELSE waited + 1
  /\ UNCHANGED <<from, until, held>>

Goes ==
  /\ hour = held /\ held' = -1 /\ waited' = 0
  /\ UNCHANGED <<from, until, hour>>

\* saveNotify moves the end, not to switch the window off and not to exceed the cap.
Chosen(f, u) ==
  LET v == IF f = u THEN (f + 1) % Day ELSE u
  IN IF Span(f, v) > MaxQuiet THEN (f + MaxQuiet) % Day ELSE v

SaveHours(f, u) ==
  /\ from' = f /\ until' = Chosen(f, u) /\ held = -1
  /\ UNCHANGED <<hour, held, waited>>

SwitchQuietOff ==
  /\ from' = 0 /\ until' = 0 /\ held = -1
  /\ UNCHANGED <<hour, held, waited>>

QuietNext == Queue \/ HourPasses \/ Goes \/ SwitchQuietOff \/ \E f, u \in Hours : SaveHours(f, u)

------------------------------------------------------------------------------
\* A notice waits for as long as the window it fell into lasts: it goes in the first
\* hour outside it, and never more than the cap later, whatever hours are on record
\* and wherever midnight falls (quietDefer).
HeldForTheNight ==
  held # -1 => waited <= MaxQuiet /\ (hour = held <=> ~InQuiet(from, until, hour))
==============================================================================
