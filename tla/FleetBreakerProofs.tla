-------------------------- MODULE FleetBreakerProofs --------------------------
(***************************************************************************)
(* Theorems about FleetBreaker, for any number of owners and any settings: *)
(*                                                                         *)
(*   TypeCorrect   its variables keep their types;                         *)
(*   RowCurrent    the stored row is the circuit's, however the saves of   *)
(*                 concurrent calls were ordered;                          *)
(*   FreshProbe    only a call let through after the last opening closes;  *)
(*   NoBurst       two probes are an interval apart.                       *)
(***************************************************************************)
EXTENDS FleetBreaker, TLAPS

LEMMA MinMax ==
  \A m, n \in Nat : /\ Larger(m, n) \in Nat /\ Smaller(m, n) \in Nat
                    /\ m <= Larger(m, n) /\ n <= Larger(m, n)
                    /\ Smaller(m, n) <= n
                    /\ \A k \in Nat : k <= m /\ k <= n => k <= Smaller(m, n)
BY DEF Larger, Smaller

\* Every pause lasts at least a probe interval, and at most the cap.
LEMMA PauseBounds ==
  \A r \in RetryAfters : /\ Pause(r) \in 0..MaxCooldown
                         /\ ProbeInterval <= Pause(r)
BY BreakerAssumption DEF Pause, Larger, Smaller

LEMMA LessBounds == \A n \in Nat : Less(n) \in Nat /\ Less(n) <= n
BY DEF Less

------------------------------------------------------------------------------
(* The types.                                                               *)

\* What a call starts with, and the row.
LEMMA Nothing ==
  NoPermit \in [probe : BOOLEAN, gen : Nat] /\ NoPause \in Pauses
BY BreakerAssumption DEF NoPermit, NoPause, Pauses

LEMMA TypeInit == Init => TypeOK
<1> SUFFICES ASSUME Init PROVE TypeOK
  OBVIOUS
<1>1. unsaved \in BOOLEAN /\ blind \in BOOLEAN
  BY Zenon DEF Init
<1> QED
  BY <1>1, Nothing, BreakerAssumption DEF Init, TypeOK

LEMMA TypeStep == TypeOK /\ [Next]_vars => TypeOK'
<1> SUFFICES ASSUME TypeOK, [Next]_vars PROVE TypeOK'
  OBVIOUS
<1>a. /\ {Threshold, Window, Cooldown, MaxCooldown, ProbeInterval} \subseteq Nat
      /\ ProbeInterval <= MaxCooldown /\ RetryAfters \subseteq Nat
  BY BreakerAssumption
<1>b. \A c \in Calls : OwnerOf(c) \in Owners
  BY DEF Calls, OwnerOf
<1> USE DEF TypeOK, breaker, calls, history
<1>1. ASSUME NEW c \in Calls, Neutral(c) PROVE TypeOK'
  BY <1>1 DEF Neutral, Goto
<1>2. ASSUME NEW c \in Calls, SaveFails(c) PROVE TypeOK'
  BY <1>2 DEF SaveFails, Goto
<1>3. ASSUME NEW c \in Calls, NEW r \in RetryAfters, PushedBack(c, r) PROVE TypeOK'
  <2>1. Larger(asked, Smaller(r, MaxCooldown)) \in 0..MaxCooldown
    BY <1>a DEF Larger, Smaller
  <2>2. tally' \in [Owners -> 0..(Window + 1)] /\ resting' \subseteq Owners
    BY <1>3, <1>a, <1>b DEF PushedBack
  <2>3. /\ circuit' \in {"closed", "open"} /\ left' \in 0..MaxCooldown
        /\ gen' \in Nat /\ opened' \subseteq Calls /\ asked' \in 0..MaxCooldown
    BY <1>3, <2>1, PauseBounds DEF PushedBack
  <2> QED
    BY <1>3, <2>2, <2>3 DEF PushedBack, Goto
<1>4. ASSUME Restart PROVE TypeOK'
  <2>1. unsaved' \in BOOLEAN /\ blind' \in BOOLEAN
    BY <1>4, Zenon DEF Restart
  <2> QED
    BY <1>4, <2>1, <1>a, Nothing DEF Restart, Afresh, Pauses
<1>5. ASSUME RestartBlind PROVE TypeOK'
  <2>1. unsaved' \in BOOLEAN /\ blind' \in BOOLEAN
    BY <1>5, Zenon DEF RestartBlind
  <2> QED
    BY <1>5, <2>1, <1>a, Nothing DEF RestartBlind, Afresh
<1>6. ASSUME NEW c \in Calls, AllowClosed(c) PROVE TypeOK'
  BY <1>6 DEF AllowClosed, Goto
<1>7. ASSUME NEW c \in Calls, AllowProbe(c) PROVE TypeOK'
  BY <1>7, <1>a DEF AllowProbe, Goto
<1>8. ASSUME NEW c \in Calls, SucceedQuietly(c) PROVE TypeOK'
  BY <1>8, <1>a, <1>b DEF SucceedQuietly, Forgive, Goto
<1>9. ASSUME NEW c \in Calls, Resume(c) PROVE TypeOK'
  BY <1>9, <1>a, <1>b DEF Resume, Forgive, Goto
<1>10. ASSUME NEW c \in Calls, Snapshot(c) PROVE TypeOK'
  BY <1>10 DEF Snapshot, Goto, Pauses
<1>11. ASSUME NEW c \in Calls, Save(c) PROVE TypeOK'
  BY <1>11 DEF Save, Goto
<1>12. ASSUME NEW o \in Owners, RestEnds(o) PROVE TypeOK'
  BY <1>12 DEF RestEnds
<1>13. ASSUME Tick PROVE TypeOK'
  <2>1. \A q \in Pauses : [q EXCEPT !.left = Less(@)] \in Pauses
    BY <1>a, LessBounds DEF Pauses
  <2>2. saved' \in Pauses /\ snap' \in [Calls -> Pauses]
    BY <1>13, <2>1 DEF Tick
  <2>3. tally' \in [Owners -> 0..(Window + 1)]
    BY <1>13, <1>a, LessBounds DEF Tick
  <2>4. left' \in 0..MaxCooldown /\ lease' \in 0..ProbeInterval /\ asked' \in 0..MaxCooldown
    BY <1>13, <1>a, LessBounds DEF Tick
  <2> QED
    BY <1>13, <2>2, <2>3, <2>4 DEF Tick
<1>14. CASE UNCHANGED vars
  BY <1>14 DEF vars
<1> QED
  BY <1>1, <1>2, <1>3, <1>4, <1>5, <1>6, <1>7, <1>8, <1>9, <1>10, <1>11,
     <1>12, <1>13, <1>14 DEF Next, Event, Work, Allow, Answer

\* Every deadline stays under its cap, and the rest keeps its type, whatever the
\* edge asks for.
THEOREM TypeCorrect == Spec => []TypeOK
BY TypeInit, TypeStep, PTL DEF Spec
------------------------------------------------------------------------------
(* The row.                                                                 *)

\* A snapshot is of an earlier generation, or of the circuit as it is.
OfCircuit(q) == q.gen <= gen /\ (q.gen = gen => q.circuit = circuit)

\* Whoever changed the circuit stores it, or has stored it, or could not.
OnItsWay ==
  \/ \E c \in Calls : pc[c] = "persist"
  \/ \E c \in Calls : pc[c] = "saving" /\ snap[c].gen = gen
  \/ unsaved
  \/ saved.gen = gen

RowInv ==
  ~blind => /\ OfCircuit(saved)
            /\ \A c \in Calls : pc[c] = "saving" => OfCircuit(snap[c])
            /\ OnItsWay

LEMMA RowInit == TypeOK /\ Init => RowInv
BY DEF Init, RowInv, OfCircuit, OnItsWay, NoPause, TypeOK

LEMMA RowStep == TypeOK /\ TypeOK' /\ RowInv /\ [Next]_vars => RowInv'
<1> SUFFICES ASSUME TypeOK, TypeOK', RowInv, [Next]_vars, ~blind' PROVE RowInv'
  BY DEF RowInv
<1>a. gen \in Nat /\ gen' \in Nat
  BY DEF TypeOK
<1>b. /\ saved \in Pauses /\ snap \in [Calls -> Pauses]
      /\ pc \in [Calls -> {"idle", "sent", "persist", "saving"}]
  BY DEF TypeOK
<1>c. \A q \in Pauses : q.gen \in Nat
  BY DEF Pauses
<1> USE DEF breaker, calls, history
\* The circuit as it was, and a call that was not about to store anything.
<1>d. ASSUME NEW c \in Calls, pc[c] \in {"idle", "sent"}, NEW s \in {"idle", "sent"},
             Goto(c, s), UNCHANGED <<circuit, gen, snap, saved, unsaved, blind>>
      PROVE  RowInv'
  BY <1>b, <1>d DEF RowInv, OfCircuit, OnItsWay, Goto
\* A new generation, on its way.
<1>e. ASSUME NEW c \in Calls, pc[c] = "sent", Goto(c, "persist"), gen' = gen + 1,
             UNCHANGED <<snap, saved, unsaved, blind>>
      PROVE  RowInv'
  <2>1. \A q \in Pauses : OfCircuit(q) => q.gen < gen'
    BY <1>a, <1>c, <1>e DEF OfCircuit
  <2>2. \A q \in Pauses : OfCircuit(q) => OfCircuit(q)'
    BY <2>1, <1>a, <1>c DEF OfCircuit
  <2>3. OnItsWay'
    BY <1>b, <1>e DEF OnItsWay, Goto
  <2> QED
    BY <1>b, <1>e, <2>2, <2>3 DEF RowInv, Goto, OfCircuit
<1>1. ASSUME NEW c \in Calls, Neutral(c) \/ SucceedQuietly(c) PROVE RowInv'
  BY <1>1, <1>d DEF Neutral, SucceedQuietly
<1>2. ASSUME NEW c \in Calls, SaveFails(c) PROVE RowInv'
  BY <1>2, <1>b DEF SaveFails, Goto, RowInv, OfCircuit, OnItsWay
<1>3. ASSUME NEW c \in Calls, NEW r \in RetryAfters, PushedBack(c, r) PROVE RowInv'
  <2>1. CASE gen' = gen + 1
    BY <1>3, <2>1, <1>e DEF PushedBack
  <2>2. CASE UNCHANGED <<circuit, gen>>
    BY <1>3, <2>2, <1>b DEF PushedBack, Goto, RowInv, OfCircuit, OnItsWay
  <2> QED
    BY <1>3, <2>1, <2>2 DEF PushedBack
<1>4. ASSUME Restart PROVE RowInv'
  BY <1>4, <1>a, <1>b, <1>c DEF Restart, Afresh, RowInv, OfCircuit, OnItsWay
<1>5. ASSUME RestartBlind PROVE RowInv'
  BY <1>5 DEF RestartBlind
<1>6. ASSUME NEW c \in Calls, Allow(c) PROVE RowInv'
  BY <1>6, <1>d DEF Allow, AllowClosed, AllowProbe, MayStart
<1>7. ASSUME NEW c \in Calls, Resume(c) PROVE RowInv'
  BY <1>7, <1>e DEF Resume
<1>8. ASSUME NEW c \in Calls, Snapshot(c) PROVE RowInv'
  <2>1. snap'[c].gen = gen /\ snap'[c].circuit = circuit /\ pc'[c] = "saving"
    BY <1>8, <1>b DEF Snapshot, Goto
  <2>2. \A d \in Calls \ {c} : snap'[d] = snap[d] /\ pc'[d] = pc[d]
    BY <1>8, <1>b DEF Snapshot, Goto
  <2>3. UNCHANGED <<circuit, gen, saved, unsaved, blind>>
    BY <1>8 DEF Snapshot
  <2> QED
    BY <2>1, <2>2, <2>3, <1>a DEF RowInv, OfCircuit, OnItsWay
<1>9. ASSUME NEW c \in Calls, Save(c) PROVE RowInv'
  <2>1. /\ UNCHANGED <<circuit, gen, snap, blind>>
        /\ pc[c] = "saving" /\ pc'[c] = "idle"
        /\ \A d \in Calls \ {c} : pc'[d] = pc[d]
    BY <1>9, <1>b DEF Save, Goto
  <2>2. OfCircuit(snap[c]) /\ OfCircuit(saved) /\ OnItsWay
    BY <2>1 DEF RowInv
  <2>3. OfCircuit(saved)'
    BY <1>9, <2>1, <2>2 DEF Save, OfCircuit
  <2>4. snap[c].gen = gen => saved'.gen = gen
    BY <1>9, <2>2, <1>a, <1>b, <1>c DEF Save, OfCircuit
  <2>5. snap[c].gen # gen /\ saved.gen = gen => saved'.gen = gen
    BY <1>9, <2>2, <1>a, <1>b, <1>c DEF Save, OfCircuit
  <2>6. snap[c].gen # gen /\ unsaved => unsaved'
    BY <1>9, Zenon DEF Save
  <2>7. OnItsWay'
    BY <2>1, <2>2, <2>4, <2>5, <2>6 DEF OnItsWay
  <2> QED
    BY <2>1, <2>3, <2>7 DEF RowInv, OfCircuit
<1>10. ASSUME NEW o \in Owners, RestEnds(o) PROVE RowInv'
  BY <1>10 DEF RestEnds, RowInv, OfCircuit, OnItsWay
<1>11. ASSUME Tick PROVE RowInv'
  <2>1. /\ saved'.gen = saved.gen /\ saved'.circuit = saved.circuit
        /\ \A c \in Calls : snap'[c].gen = snap[c].gen /\ snap'[c].circuit = snap[c].circuit
    BY <1>11, <1>b DEF Tick, Pauses
  <2> QED
    BY <1>11, <2>1 DEF Tick, RowInv, OfCircuit, OnItsWay
<1>12. CASE UNCHANGED vars
  BY <1>12 DEF vars, RowInv, OfCircuit, OnItsWay
<1> QED
  BY <1>1, <1>2, <1>3, <1>4, <1>5, <1>6, <1>7, <1>8, <1>9, <1>10, <1>11,
     <1>12 DEF Next, Event, Work, Answer

\* When nobody is about to store anything, the row is of the circuit as it is.
THEOREM RowCurrent == Spec => []RowIsCurrent
<1>1. Init => TypeOK /\ RowInv
  BY TypeInit, RowInit
<1>2. TypeOK /\ RowInv /\ [Next]_vars => (TypeOK /\ RowInv)'
  BY TypeStep, RowStep
<1>3. TypeOK /\ RowInv => RowIsCurrent
  BY DEF RowInv, OfCircuit, OnItsWay, RowIsCurrent, Stored
<1> QED
  BY <1>1, <1>2, <1>3, PTL DEF Spec

------------------------------------------------------------------------------
(* The probe.                                                               *)

\* A permit is of a generation there has been; and the permit of the present one
\* was given since it began, if the circuit is open.
FreshInv ==
  \A c \in Calls : pc[c] = "sent" =>
    /\ permit[c].gen <= gen
    /\ circuit = "open" /\ permit[c].gen = gen => c \notin opened

LEMMA FreshInit == Init => FreshInv
BY DEF Init, FreshInv

LEMMA FreshStep == TypeOK /\ TypeOK' /\ FreshInv /\ [Next]_vars => FreshInv'
<1> SUFFICES ASSUME TypeOK, TypeOK', FreshInv, [Next]_vars PROVE FreshInv'
  OBVIOUS
<1>a. gen \in Nat /\ gen' \in Nat
  BY DEF TypeOK
<1>b. /\ permit \in [Calls -> [probe : BOOLEAN, gen : Nat]]
      /\ pc \in [Calls -> {"idle", "sent", "persist", "saving"}]
      /\ opened \subseteq Calls
  BY DEF TypeOK
<1>c. \A c \in Calls : permit[c].gen \in Nat
  BY <1>b
<1> USE DEF breaker, calls, history
\* The circuit as it was, and no call more in flight.
<1>d. ASSUME UNCHANGED <<circuit, gen, permit, opened>>,
             \A c \in Calls : pc'[c] = "sent" => pc[c] = "sent"
      PROVE  FreshInv'
  BY <1>d DEF FreshInv
\* A call is let through.
<1>e. ASSUME NEW c \in Calls, NEW b \in BOOLEAN, Goto(c, "sent"),
             permit' = [permit EXCEPT ![c] = [probe |-> b, gen |-> gen]],
             opened' = opened \ {c}, UNCHANGED <<circuit, gen>>
      PROVE  FreshInv'
  <2>1. permit'[c].gen = gen /\ c \notin opened'
    BY <1>b, <1>e
  <2>2. \A d \in Calls \ {c} : permit'[d] = permit[d] /\ pc'[d] = pc[d]
    BY <1>b, <1>e DEF Goto
  <2> QED
    BY <2>1, <2>2, <1>a, <1>e DEF FreshInv
\* A new generation: every permit is of an earlier one.
<1>f. ASSUME gen' = gen + 1, UNCHANGED permit,
             \A c \in Calls : pc'[c] = "sent" => pc[c] = "sent"
      PROVE  FreshInv'
  BY <1>a, <1>c, <1>f DEF FreshInv
<1>1. ASSUME NEW c \in Calls,
             Neutral(c) \/ SaveFails(c) \/ SucceedQuietly(c) \/ Snapshot(c) \/ Save(c)
      PROVE  FreshInv'
  BY <1>1, <1>b, <1>d
     DEF Neutral, SaveFails, SucceedQuietly, Snapshot, Save, Goto
<1>2. ASSUME NEW c \in Calls, NEW r \in RetryAfters, PushedBack(c, r) PROVE FreshInv'
  <2>1. UNCHANGED permit /\ \A d \in Calls : pc'[d] = "sent" => pc[d] = "sent"
    BY <1>2, <1>b DEF PushedBack, Goto
  <2>2. CASE gen' = gen + 1
    BY <2>1, <2>2, <1>f
  <2>3. CASE UNCHANGED <<circuit, gen, opened>>
    BY <2>1, <2>3, <1>d
  <2> QED
    BY <1>2, <2>2, <2>3 DEF PushedBack
<1>3. ASSUME NEW c \in Calls, Allow(c) PROVE FreshInv'
  BY <1>3, <1>e DEF Allow, AllowClosed, AllowProbe
<1>4. ASSUME NEW c \in Calls, Resume(c) PROVE FreshInv'
  BY <1>4, <1>b, <1>f DEF Resume, Goto
<1>5. ASSUME Restart \/ RestartBlind PROVE FreshInv'
  BY <1>5 DEF Restart, RestartBlind, Afresh, FreshInv
<1>6. ASSUME Tick \/ (\E o \in Owners : RestEnds(o)) \/ UNCHANGED vars PROVE FreshInv'
  BY <1>6, <1>d DEF Tick, RestEnds, vars
<1> QED
  BY <1>1, <1>2, <1>3, <1>4, <1>5, <1>6 DEF Next, Event, Work, Answer

\* A call that does not close the circuit leaves it open, or it is a restart.
LEMMA OnlyResumeCloses ==
  ASSUME TypeOK, Next, circuit = "open", circuit' = "closed"
  PROVE  Restart \/ RestartBlind \/ \E c \in Calls : Resume(c)
BY DEF Next, Event, Work, Allow, Answer, AllowClosed, AllowProbe, SucceedQuietly,
       Neutral, Snapshot, Save, SaveFails, PushedBack, RestEnds, Tick,
       breaker, calls, history

LEMMA FreshCloses ==
  ASSUME TypeOK, FreshInv, Next, circuit = "open", circuit' = "closed"
  PROVE  \/ \E c \in Calls : pc[c] = "sent" /\ pc'[c] = "persist" /\ c \notin opened
         \/ RestartBlind \/ Restart
<1>1. ASSUME NEW c \in Calls, Resume(c)
      PROVE  pc[c] = "sent" /\ pc'[c] = "persist" /\ c \notin opened
  BY <1>1 DEF Resume, Closes, Goto, FreshInv, TypeOK
<1> QED
  BY <1>1, OnlyResumeCloses

\* Only the success of a call let through since the circuit last opened closes it,
\* whatever is still in flight from before.
THEOREM FreshProbe == Spec => OnlyFreshProbeCloses
<1>1. Init => TypeOK /\ FreshInv
  BY TypeInit, FreshInit
<1>2. TypeOK /\ FreshInv /\ [Next]_vars => (TypeOK /\ FreshInv)'
  BY TypeStep, FreshStep
<1>3. TypeOK /\ FreshInv /\ [Next]_vars =>
        [circuit = "open" /\ circuit' = "closed" =>
          \/ \E c \in Calls : pc[c] = "sent" /\ pc'[c] = "persist" /\ c \notin opened
          \/ RestartBlind \/ Restart]_vars
  BY FreshCloses
<1> QED
  BY <1>1, <1>2, <1>3, PTL DEF Spec, OnlyFreshProbeCloses

------------------------------------------------------------------------------
(* The interval between probes.                                             *)

\* While the circuit is open its time is not up before a probe may go again.
ProbeInv == circuit = "open" => lease <= left

LEMMA ProbeInit == Init => ProbeInv
BY DEF Init, ProbeInv

LEMMA ProbeStep == TypeOK /\ ProbeInv /\ [Next]_vars => ProbeInv'
<1> SUFFICES ASSUME TypeOK, ProbeInv, [Next]_vars PROVE ProbeInv'
  OBVIOUS
<1>a. lease \in 0..ProbeInterval /\ left \in 0..MaxCooldown
      /\ ProbeInterval \in Nat /\ MaxCooldown \in Nat /\ saved.left \in Nat
  BY BreakerAssumption DEF TypeOK, Pauses
<1> USE DEF breaker, calls, history
<1>1. ASSUME UNCHANGED <<circuit, left, lease>> PROVE ProbeInv'
  BY <1>1 DEF ProbeInv
<1>2. ASSUME NEW c \in Calls, NEW r \in RetryAfters, PushedBack(c, r) PROVE ProbeInv'
  BY <1>2, <1>a, PauseBounds DEF PushedBack, ProbeInv
<1>3. ASSUME NEW c \in Calls, AllowProbe(c) PROVE ProbeInv'
  BY <1>3, <1>a DEF AllowProbe, ProbeInv
<1>4. ASSUME NEW c \in Calls, Resume(c) PROVE ProbeInv'
  BY <1>4 DEF Resume, ProbeInv
<1>5. ASSUME Tick PROVE ProbeInv'
  BY <1>5, <1>a DEF Tick, Less, ProbeInv
<1>6. ASSUME Restart \/ RestartBlind PROVE ProbeInv'
  BY <1>6, <1>a DEF Restart, RestartBlind, Afresh, ProbeInv
<1>7. ASSUME NEW c \in Calls,
             \/ Neutral(c) \/ SaveFails(c) \/ AllowClosed(c) \/ SucceedQuietly(c)
             \/ Snapshot(c) \/ Save(c)
      PROVE  ProbeInv'
  BY <1>7, <1>1
     DEF Neutral, SaveFails, AllowClosed, SucceedQuietly, Snapshot, Save
<1>8. ASSUME (\E o \in Owners : RestEnds(o)) \/ UNCHANGED vars PROVE ProbeInv'
  BY <1>8, <1>1 DEF RestEnds, vars
<1> QED
  BY <1>2, <1>3, <1>4, <1>5, <1>6, <1>7, <1>8 DEF Next, Event, Work, Allow, Answer

LEMMA ProbesApart ==
  ASSUME TypeOK, ProbeInv, Next, NEW c \in Calls,
         circuit = "open", pc[c] = "idle", pc'[c] = "sent"
  PROVE  lease = 0
<1> USE DEF breaker, calls, history
<1>a. /\ lease \in Nat
      /\ pc \in [Calls -> {"idle", "sent", "persist", "saving"}]
  BY BreakerAssumption DEF TypeOK
<1>1. ASSUME NEW d \in Calls, AllowProbe(d) PROVE lease = 0
  BY <1>1, <1>a DEF AllowProbe, ProbeInv
<1>2. ASSUME NEW d \in Calls,
             \/ Neutral(d) \/ SaveFails(d) \/ SucceedQuietly(d) \/ Resume(d)
             \/ Snapshot(d) \/ Save(d) \/ AllowClosed(d)
      PROVE  FALSE
  BY <1>2, <1>a DEF Neutral, SaveFails, SucceedQuietly, Resume, Snapshot, Save,
                    AllowClosed, Goto
<1>3. ASSUME NEW d \in Calls, NEW r \in RetryAfters, PushedBack(d, r) PROVE FALSE
  BY <1>3, <1>a DEF PushedBack, Goto
<1>4. ASSUME Restart \/ RestartBlind \/ Tick \/ \E o \in Owners : RestEnds(o)
      PROVE  FALSE
  BY <1>4 DEF Restart, RestartBlind, Afresh, Tick, RestEnds
<1> QED
  BY <1>1, <1>2, <1>3, <1>4 DEF Next, Event, Work, Allow, Answer

\* However the circuit closes and opens in between, two probes of one process are
\* an interval apart.
THEOREM NoBurst == Spec => NoStampede
<1>1. Init => TypeOK /\ ProbeInv
  BY TypeInit, ProbeInit
<1>2. TypeOK /\ ProbeInv /\ [Next]_vars => (TypeOK /\ ProbeInv)'
  BY TypeStep, ProbeStep
<1>3. TypeOK /\ ProbeInv /\ [Next]_vars =>
        [\A c \in Calls : circuit = "open" /\ pc[c] = "idle" /\ pc'[c] = "sent" =>
           lease = 0]_vars
  BY ProbesApart
<1> QED
  BY <1>1, <1>2, <1>3, PTL DEF Spec, NoStampede
=============================================================================
