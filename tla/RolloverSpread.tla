---------------------------- MODULE RolloverSpread ----------------------------
(***************************************************************************)
(* The pause between the moment a change is due and the moment the pass     *)
(* makes it (scheduler/reconcile.go: spreadElapsed and what it is computed  *)
(* from).  The changes that fall due at one midnight are spread over a      *)
(* window sized to the fleet; every permit has a slot in it that comes from *)
(* a hash of its id.  The pass asks again at every tick.                    *)
(***************************************************************************)
EXTENDS Integers, FiniteSets, FiniteSetsExt

CONSTANTS
  SpreadWindow,   \* the configured cap on the window; 0 switches the spread off
  OpDrain,        \* how long one change occupies the governor
  OverrideCap,    \* spreadOverrideCap
  Lots,           \* bound: the hash, in Lots steps of [0, 1)
  MaxFleet,       \* bound: permits
  MaxLength,      \* bound: length of a booking
  MaxWait         \* bound: how long is looked at

ASSUME SpreadAssumption ==
  /\ {SpreadWindow, OpDrain, OverrideCap, MaxFleet, MaxLength, MaxWait} \subseteq Nat
  /\ Lots \in Nat \ {0}

SpacingFactor == 2   \* spreadSpacingFactor

VARIABLES
  due,       \* the change: asked (not res.Scheduled), roster, or booking
  length,    \* of the booking; 0 without an end
  lot,       \* the permit's hash
  counted,   \* permits counted by the last pass; 0 before the first
  elapsed,   \* time since the change was due; negative when the clock was set back
  applied    \* the pass has gone on to make it

spreadVars == <<due, length, lot, counted, elapsed, applied>>

SpreadTypeOK ==
  /\ due \in {"asked", "roster", "booking"} /\ length \in 0..MaxLength
  /\ lot \in 0..(Lots - 1) /\ counted \in 0..MaxFleet
  /\ elapsed \in -1..MaxWait /\ applied \in BOOLEAN

SpreadInit ==
  /\ due \in {"asked", "roster", "booking"} /\ length \in 0..MaxLength
  /\ due # "booking" => length = 0
  /\ lot \in 0..(Lots - 1) /\ counted \in 0..MaxFleet
  /\ elapsed \in {-1, 0} /\ applied = FALSE

Spread == IF OpDrain = 0 THEN 0 ELSE Min({SpreadWindow, counted * OpDrain * SpacingFactor})
Slot == (lot * Spread) \div Lots

\* Fault: a booking waits as long as a roster day.
FullSlot == Slot

\* A booking waits for a tenth of its time at most, and never past the cap.
ShortSlot ==
  LET tenth == IF length > 0 /\ Slot > length \div 10 THEN length \div 10 ELSE Slot
  IN Min({tenth, OverrideCap})

BookingSlot == ShortSlot
Offset == IF due = "booking" THEN BookingSlot ELSE Slot

SpreadElapsed ==
  \/ Spread = 0 \/ due = "asked" \/ elapsed < 0 \/ elapsed >= Spread
  \/ length > 0 /\ length <= Offset
  \/ elapsed >= Offset

PassApplies ==
  /\ ~applied /\ SpreadElapsed /\ applied' = TRUE
  /\ UNCHANGED <<due, length, lot, counted, elapsed>>

PassHolds ==
  /\ ~applied /\ ~SpreadElapsed /\ elapsed < MaxWait
  /\ elapsed' = elapsed + 1
  /\ UNCHANGED <<due, length, lot, counted, applied>>

\* The next pass counts the permits anew; the window changes under a change that waits.
PassCounts(n) ==
  /\ ~applied /\ n > 0 /\ counted' = n
  /\ UNCHANGED <<due, length, lot, elapsed, applied>>

SpreadNext == PassApplies \/ PassHolds \/ \E n \in 1..MaxFleet : PassCounts(n)

------------------------------------------------------------------------------
\* What somebody waits for is never held; a day of the roster not past the configured
\* window, however the fleet grows meanwhile; and a booking not past the cap, nor a
\* tenth of its time, nor its end (spreadElapsed).
HeldBriefly ==
  ~applied /\ ~SpreadElapsed =>
    /\ due # "asked" /\ elapsed < SpreadWindow
    /\ due = "booking" => elapsed < OverrideCap /\ (length > 0 => 10 * elapsed < length)
==============================================================================
