------------------------------ MODULE Governor ------------------------------
(***************************************************************************)
(* The ceiling on the requests to one portal (parking/governor.go and       *)
(* transport.go): token buckets for all requests and for sign-ins, and a    *)
(* cap on those under way at once, here and across the councils.  A bucket  *)
(* is filled when it is asked, up to the time its asker read off the clock  *)
(* before it got the lock, so that a late asker may set it back.            *)
(***************************************************************************)
EXTENDS Integers, FiniteSets

CONSTANTS
  Askers,          \* requests under way
  Cost,            \* parts of a token; a bucket's rate is in parts per tick
  TotalRate, TotalBurst, LoginRate, LoginBurst,  \* the ceilings; bursts in tokens
  Concurrency,     \* requests at once
  SharedCap,       \* ... over all councils
  MaxTime          \* bound on the clock

ASSUME GovernorAssumption ==
  /\ {Cost, TotalRate, TotalBurst, LoginRate, LoginBurst, Concurrency, SharedCap} \subseteq Nat \ {0}
  /\ MaxTime \in Nat

Buckets == {"total", "login"}
Rate == [total |-> TotalRate, login |-> LoginRate]
Full == [total |-> TotalBurst * Cost, login |-> LoginBurst * Cost]

VARIABLES
  time,       \* in ticks
  parts,      \* bucket -> what it holds
  last,       \* bucket -> when it was filled
  asker,      \* request -> what it waits for, since when it may ask again, the time it read
  elsewhere,  \* requests of the other councils in the shared slots
  since,      \* history: the start of a stretch of time, chosen freely
  paid,       \* history: tokens taken from each bucket in that stretch, by the takers' clocks
  doubled     \* history: ticks by which late askers set a bucket back

governorVars == <<time, parts, last, asker, elsewhere, since, paid, doubled>>

Unread == -1
Away == [pc |-> "away", wake |-> 0, read |-> Unread]

GovernorTypeOK ==
  /\ time \in 0..MaxTime /\ since \in 0..MaxTime
  /\ \A b \in Buckets : parts[b] \in 0..Full[b] /\ last[b] \in 0..MaxTime
  /\ \A a \in Askers : asker[a].pc \in {"away", "login", "total", "slot", "shared", "sent"}
  /\ elsewhere \in 0..SharedCap

GovernorInit ==
  /\ time = 0 /\ parts = Full /\ last = [b \in Buckets |-> 0]
  /\ asker = [a \in Askers |-> Away] /\ elsewhere = 0
  /\ since = 0 /\ paid = [b \in Buckets |-> 0] /\ doubled = [b \in Buckets |-> 0]

Holding == {a \in Askers : asker[a].pc \in {"shared", "sent"}}
Sent == {a \in Askers : asker[a].pc = "sent"}
Lesser(x, y) == IF x < y THEN x ELSE y

\* A sign-in pays into both buckets, everything else into the total.
AsksToSend(a, surface) ==
  /\ asker[a].pc = "away"
  /\ asker' = [asker EXCEPT ![a] = [Away EXCEPT !.pc = IF surface = "login" THEN "login" ELSE "total"]]
  /\ UNCHANGED <<time, parts, last, elsewhere, since, paid, doubled>>

\* time.Now(), before the lock.
ReadsClock(a) ==
  /\ asker[a].pc \in Buckets /\ asker[a].read = Unread /\ asker[a].wake <= time
  /\ asker' = [asker EXCEPT ![a].read = time]
  /\ UNCHANGED <<time, parts, last, elsewhere, since, paid, doubled>>

\* What the bucket holds at a time, which is not before it was last filled.
Filled(b, now) ==
  IF now > last[b] THEN Lesser(Full[b], parts[b] + (now - last[b]) * Rate[b]) ELSE parts[b]

\* Fault: what has accrued is not capped.
Overfilled(b, now) == IF now > last[b] THEN parts[b] + (now - last[b]) * Rate[b] ELSE parts[b]

Holds(b, now) == Filled(b, now)

\* tryTake, and what wait makes of it: on with the token, or again when one has accrued.
TriesToTake(a) ==
  LET b == asker[a].pc
      has == Holds(b, asker[a].read)
      wait == (Cost - has + Rate[b] - 1) \div Rate[b]
  IN /\ b \in Buckets /\ asker[a].read # Unread
     /\ last' = [last EXCEPT ![b] = asker[a].read]
     /\ doubled' = [doubled EXCEPT ![b] = @ + IF asker[a].read < last[b] THEN last[b] - asker[a].read ELSE 0]
     /\ IF has >= Cost
        THEN /\ parts' = [parts EXCEPT ![b] = has - Cost] /\ paid' = [paid EXCEPT ![b] = @ + IF asker[a].read >= since THEN 1 ELSE 0]
             /\ asker' = [asker EXCEPT ![a].pc = IF b = "login" THEN "total" ELSE "slot",
                                         ![a].read = Unread, ![a].wake = 0]
        ELSE /\ parts' = [parts EXCEPT ![b] = has] /\ UNCHANGED paid
             /\ asker' = [asker EXCEPT ![a].read = Unread, ![a].wake = time + wait]
     /\ UNCHANGED <<time, elsewhere, since>>

\* The slot of this portal, and then one of those shared by all.
GetsSlot(a) ==
  /\ asker[a].pc = "slot" /\ Cardinality(Holding) < Concurrency
  /\ asker' = [asker EXCEPT ![a].pc = "shared"]
  /\ UNCHANGED <<time, parts, last, elsewhere, since, paid, doubled>>

GetsShared(a) ==
  /\ asker[a].pc = "shared" /\ Cardinality(Sent) + elsewhere < SharedCap
  /\ asker' = [asker EXCEPT ![a].pc = "sent"]
  /\ UNCHANGED <<time, parts, last, elsewhere, since, paid, doubled>>

\* The answer, or a deadline that passes at any of the waits; the slots are given back.
GoesAway(a) ==
  /\ asker[a].pc # "away" /\ asker' = [asker EXCEPT ![a] = Away]
  /\ UNCHANGED <<time, parts, last, elsewhere, since, paid, doubled>>

OthersMove(n) ==
  /\ n # elsewhere /\ n + Cardinality(Sent) <= SharedCap /\ elsewhere' = n
  /\ UNCHANGED <<time, parts, last, asker, since, paid, doubled>>

ClockTicks ==
  /\ time < MaxTime /\ time' = time + 1
  /\ UNCHANGED <<parts, last, asker, elsewhere, since, paid, doubled>>

\* The stretch that is looked at begins here.
LooksFromNow ==
  /\ since = 0 /\ time > 0 /\ since' = time
  /\ paid' = [b \in Buckets |-> 0] /\ doubled' = [b \in Buckets |-> 0]
  /\ UNCHANGED <<time, parts, last, asker, elsewhere>>

GovernorEvent ==
  \/ \E a \in Askers, surface \in {"api", "login"} : AsksToSend(a, surface)
  \/ \E n \in 0..SharedCap : OthersMove(n)

GovernorWork ==
  \/ \E a \in Askers : ReadsClock(a) \/ TriesToTake(a) \/ GetsSlot(a) \/ GetsShared(a) \/ GoesAway(a)
  \/ ClockTicks \/ LooksFromNow

GovernorNext == GovernorEvent \/ GovernorWork

------------------------------------------------------------------------------
\* In no stretch of time do more requests pass than the burst and what accrues, sign-ins
\* under their own ceiling and under everybody's, whoever reads the clock when; and no
\* more are under way than there are slots (acquire, tryTake, RoundTrip).  An asker who
\* comes late to the lock has a piece of time counted twice.
UnderCeiling ==
  /\ \A b \in Buckets : paid[b] * Cost <= Full[b] + Rate[b] * (time - since + doubled[b])
  /\ Cardinality(Holding) <= Concurrency /\ Cardinality(Sent) + elsewhere <= SharedCap
==============================================================================
