-------------------------- MODULE PermitApplyProofs --------------------------
(***************************************************************************)
(* Theorems about PermitApply, for every set of plates and guest links:    *)
(*                                                                         *)
(*   TypeCorrect    its variables keep their types;                        *)
(*   RecordTrue     the claim is exclusive, and belief and portal agree    *)
(*                  unless something named has parted them (HonestRecord,  *)
(*                  TrustedRecord);                                        *)
(*   Refinement     it implements PlateRecord;                             *)
(*   RevokedLinks, ShutWindow, SettleCurrent, PointlessWrite               *)
(*                  the safety and action properties the runs check.       *)
(*                                                                         *)
(* RecordInv is inductive relative to TypeOK.  RecordHonest alone is not:  *)
(* that recording a write re-joins belief and portal needs WrittenHolds,   *)
(* and that one needs ClaimHeld, for a second writer would change the      *)
(* portal under the first.                                                 *)
(***************************************************************************)
EXTENDS PermitApply, TLAPS

\* Every step keeps the variables that are not Boolean in their sets.
LEMMA DataStep == TypeOK /\ [Next]_vars => DataOK'
<1> USE ConstantsAssumption
<1> USE DEF Handlers, Regos, Targets, record, backoff, schedule, handlers,
   loop, drift
<1> SUFFICES ASSUME TypeOK, [Next]_vars PROVE DataOK'
  OBVIOUS
<1> USE DEF TypeOK, DataOK, HandlerSteps, LoopSteps, DriftSteps, Outcomes,
   FailureKinds
<1>1. ASSUME NEW g \in Guests, RevokeLink(g) PROVE DataOK'
  BY <1>1 DEF RevokeLink, SweepLink, WinnersWithout
<1>2. ASSUME NEW g \in Guests, NarrowLink(g) PROVE DataOK'
  BY <1>2 DEF NarrowLink, SweepLink, WinnersWithout
<1>3. ASSUME NEW g \in Guests, DeleteBooking(g) PROVE DataOK'
  BY <1>3 DEF DeleteBooking, SweepLink, WinnersWithout, ClearRetry
<1>4. ASSUME NEW g \in Guests, GuestClear(g) PROVE DataOK'
  BY <1>4 DEF GuestClear, SweepLink, WinnersWithout, Await
<1>5. ASSUME NEW g \in Guests, NEW p \in Plates, GuestActivate(g, p)
      PROVE  DataOK'
  BY <1>5 DEF GuestActivate, Await
<1>6. ASSUME NEW g \in Guests, NEW p \in Plates, GuestRevert(g, p) PROVE DataOK'
  BY <1>6 DEF GuestRevert, WinnersWithout, Entry, Await
<1>7. ASSUME NEW t \in Targets, EditSchedule(t) PROVE DataOK'
  BY <1>7 DEF EditSchedule, Hidden, ClearRetry
<1>8. ASSUME Relink PROVE DataOK'
  BY <1>8 DEF Relink, ClearRetry
<1>9. ASSUME ScheduleMoves PROVE DataOK'
  BY <1>9 DEF ScheduleMoves, Hidden, SweepLink, WinnersWithout
<1>10. ASSUME OwnerClear PROVE DataOK'
  BY <1>10 DEF OwnerClear, Await
<1>11. ASSUME LapseOrRenew PROVE DataOK'
  BY <1>11 DEF LapseOrRenew
<1>12. ASSUME NEW p \in Regos, PortalEdit(p) PROVE DataOK'
  BY <1>12 DEF PortalEdit
<1>13. ASSUME NEW p \in Regos, DashboardAdopts(p) PROVE DataOK'
  BY <1>13 DEF DashboardAdopts, DoubtAfter
<1>14. ASSUME NEW h \in Handlers, HWriteFails(h) PROVE DataOK'
  <2>1. doubt' \in {doubt, doubt \union {"portal"}}
    BY <1>14 DEF HWriteFails
  <2>2. doubt' \subseteq {"portal", "record"}
    BY <2>1
  <2>3. portal' \in Regos
    BY <1>14 DEF HWriteFails
  <2> QED
    BY <1>14, <2>2, <2>3 DEF HWriteFails, Done, Goto
<1>15. ASSUME NEW h \in Handlers, HCommitFails(h) PROVE DataOK'
  BY <1>15 DEF HCommitFails, Done, Goto
<1>16. ASSUME NEW kind \in FailureKinds, PassWriteFails(kind) PROVE DataOK'
  <2>1. doubt' \in {doubt, doubt \union {"portal"}}
    BY <1>16 DEF PassWriteFails
  <2>2. doubt' \subseteq {"portal", "record"}
    BY <2>1
  <2> QED
    BY <1>16, <2>2 DEF PassWriteFails
<1>17. ASSUME PassCommitFails PROVE DataOK'
  BY <1>17 DEF PassCommitFails
<1>18. ASSUME DriftReadFails PROVE DataOK'
  BY <1>18 DEF DriftReadFails, EndDrift
<1>19. ASSUME DriftMisreads PROVE DataOK'
  BY <1>19 DEF DriftMisreads
<1>20. ASSUME DriftConfirmFails PROVE DataOK'
  BY <1>20 DEF DriftConfirmFails, EndDrift
<1>21. ASSUME Restart PROVE DataOK'
  BY <1>21 DEF Restart, ClearRetry, EndPass, NoSnap, EndDrift
<1>22. ASSUME NEW h \in Handlers, HAcquire(h) PROVE DataOK'
  BY <1>22 DEF HAcquire, Goto
<1>23. ASSUME NEW h \in Handlers, HTimeout(h) PROVE DataOK'
  BY <1>23 DEF HTimeout, Done, Goto
<1>24. ASSUME NEW h \in Handlers, HCheck(h) PROVE DataOK'
  BY <1>24 DEF HCheck, Done, Goto
<1>25. ASSUME NEW h \in Handlers, HWrite(h) PROVE DataOK'
  BY <1>25 DEF HWrite, Goto
<1>26. ASSUME NEW h \in Handlers, HCommit(h) PROVE DataOK'
  BY <1>26 DEF HCommit, Done, Goto
<1>27. ASSUME PassStart PROVE DataOK'
  BY <1>27 DEF PassStart
<1>28. ASSUME PassAgrees PROVE DataOK'
  BY <1>28 DEF PassAgrees, Settle, ClearRetry, EndPass, NoSnap
<1>29. ASSUME PassResolve PROVE DataOK'
  BY <1>29 DEF PassResolve, ClearRetry, EndPass, NoSnap, Resolved, Entry
<1>30. ASSUME PassSkips PROVE DataOK'
  BY <1>30 DEF PassSkips, EndPass, NoSnap
<1>31. ASSUME PassDrops PROVE DataOK'
  BY <1>31 DEF PassDrops, Settle, ClearRetry, EndPass, NoSnap
<1>32. ASSUME PassClaim PROVE DataOK'
  BY <1>32 DEF PassClaim
<1>33. ASSUME PassWrite PROVE DataOK'
  BY <1>33 DEF PassWrite
<1>34. ASSUME PassCommit PROVE DataOK'
  BY <1>34 DEF PassCommit
<1>35. ASSUME PassBook PROVE DataOK'
  BY <1>35 DEF PassBook, Bump, ClearRetry, EndPass, NoSnap
<1>36. ASSUME DriftBegin PROVE DataOK'
  BY <1>36 DEF DriftBegin
<1>37. ASSUME DriftRead PROVE DataOK'
  BY <1>37 DEF DriftRead
<1>38. ASSUME DriftJudge PROVE DataOK'
  BY <1>38 DEF DriftJudge, EndDrift
<1>39. ASSUME DriftConfirm PROVE DataOK'
  BY <1>39 DEF DriftConfirm, EndDrift
<1>40. ASSUME DriftSwap PROVE DataOK'
  <2>1. doubt' \in {doubt, {}, doubt \union {"record"}, doubt \ {"record"}}
    BY <1>40 DEF DriftSwap, DoubtAfter
  <2>2. doubt' \subseteq {"portal", "record"}
    BY <2>1
  <2> QED
    BY <1>40, <2>2 DEF DriftSwap, EndDrift
<1>41. ASSUME DriftHold PROVE DataOK'
  BY <1>41 DEF DriftHold, EndDrift
<1>42. ASSUME WindowElapses PROVE DataOK'
  BY <1>42 DEF WindowElapses
<1>43. CASE UNCHANGED vars
  BY <1>43 DEF vars
<1> QED
  BY <1>1, <1>2, <1>3, <1>4, <1>5, <1>6, <1>7, <1>8, <1>9, <1>10, <1>11,
     <1>12, <1>13, <1>14, <1>15, <1>16, <1>17, <1>18, <1>19, <1>20, <1>21,
     <1>22, <1>23, <1>24, <1>25, <1>26, <1>27, <1>28, <1>29, <1>30, <1>31,
     <1>32, <1>33, <1>34, <1>35, <1>36, <1>37, <1>38, <1>39, <1>40, <1>41,
     <1>42, <1>43
       DEF Next, Event, LinkEvent, HouseholdEvent, Failure, Work, HandlerStep,
           PassStep, DriftStep

\* ... and the Boolean one.
LEMMA ManagedStep == managed \in BOOLEAN /\ [Next]_vars => managed' \in BOOLEAN
<1> SUFFICES ASSUME managed \in BOOLEAN, [Next]_vars PROVE managed' \in BOOLEAN
  OBVIOUS
<1> USE DEF record
<1>1. CASE \E g \in Guests : LinkEvent(g)
  BY <1>1 DEF LinkEvent, RevokeLink, NarrowLink, DeleteBooking, GuestClear,
     GuestActivate, GuestRevert, ClearRetry
<1>2. CASE HouseholdEvent
  BY <1>2 DEF HouseholdEvent, EditSchedule, Relink, ScheduleMoves, OwnerClear,
     LapseOrRenew, PortalEdit, DashboardAdopts, ClearRetry
<1>3. CASE Failure
  BY <1>3 DEF Failure, HWriteFails, HCommitFails, PassWriteFails,
     PassCommitFails, DriftReadFails, DriftMisreads, DriftConfirmFails,
     Restart, EndPass, EndDrift
<1>4. CASE \E h \in Handlers : HandlerStep(h)
  BY <1>4 DEF HandlerStep, HAcquire, HTimeout, HCheck, HWrite, HCommit
<1>5. CASE PassStep
  BY <1>5 DEF PassStep, PassStart, PassAgrees, PassResolve, PassSkips,
     PassDrops, PassClaim, PassWrite, PassCommit, PassBook, EndPass
<1>6. CASE DriftStep
  BY <1>6 DEF DriftStep, DriftBegin, DriftRead, DriftJudge, DriftConfirm,
     DriftSwap, DriftHold, EndDrift
<1>7. CASE WindowElapses
  BY <1>7 DEF WindowElapses
<1>8. CASE UNCHANGED vars
  BY <1>8 DEF vars
<1> QED
  BY <1>1, <1>2, <1>3, <1>4, <1>5, <1>6, <1>7, <1>8 DEF Next, Event, Work

\* The initial states are typed.
LEMMA InitType == Init => TypeOK
<1>1. Init => DataOK
  BY ConstantsAssumption DEF Init, DataOK, Regos, Targets, HandlerSteps,
     LoopSteps, DriftSteps, Outcomes
<1>2. Init => managed \in BOOLEAN
  BY Zenon DEF Init
<1> QED
  BY <1>1, <1>2 DEF TypeOK

\* Every variable keeps its type, in every state of the program.
THEOREM TypeCorrect == Spec => []TypeOK
<1>1. Init => TypeOK
  BY InitType
<1>2. TypeOK /\ [Next]_vars => TypeOK'
  BY DataStep, ManagedStep DEF TypeOK
<1> QED
  BY <1>1, <1>2, PTL DEF Spec

\* The record invariant is kept by every step: of handlers, loop, drift check,
\* dashboard, council and process.
LEMMA RecordStep == TypeOK /\ RecordInv /\ [Next]_vars => RecordInv'
<1> SUFFICES ASSUME TypeOK, RecordInv, [Next]_vars PROVE RecordInv'
  OBVIOUS
<1> USE ConstantsAssumption
<1> USE DEF Handlers, HandlerSteps, TypeOK, DataOK, record, backoff, handlers,
   loop, drift, RecordInv, ClaimHeld, WrittenHolds, RecordHonest,
   MidWrite
<1>1. ASSUME NEW g \in Guests, RevokeLink(g) PROVE RecordInv'
  BY <1>1 DEF RevokeLink
<1>2. ASSUME NEW g \in Guests, NarrowLink(g) PROVE RecordInv'
  BY <1>2 DEF NarrowLink
<1>3. ASSUME NEW g \in Guests, DeleteBooking(g) PROVE RecordInv'
  BY <1>3 DEF DeleteBooking
<1>4. ASSUME NEW g \in Guests, GuestClear(g) PROVE RecordInv'
  BY <1>4 DEF GuestClear, Await
<1>5. ASSUME NEW g \in Guests, NEW p \in Plates, GuestActivate(g, p)
      PROVE  RecordInv'
  BY <1>5 DEF GuestActivate, Await
<1>6. ASSUME NEW g \in Guests, NEW p \in Plates, GuestRevert(g, p)
      PROVE  RecordInv'
  BY <1>6 DEF GuestRevert, Await
<1>7. ASSUME NEW t \in Targets, EditSchedule(t) PROVE RecordInv'
  BY <1>7 DEF EditSchedule
<1>8. ASSUME Relink PROVE RecordInv'
  BY <1>8 DEF Relink
<1>9. ASSUME ScheduleMoves PROVE RecordInv'
  BY <1>9 DEF ScheduleMoves
<1>10. ASSUME OwnerClear PROVE RecordInv'
  BY <1>10 DEF OwnerClear, Await
<1>11. ASSUME LapseOrRenew PROVE RecordInv'
  BY <1>11 DEF LapseOrRenew
<1>12. ASSUME NEW p \in Regos, PortalEdit(p) PROVE RecordInv'
  BY <1>12 DEF PortalEdit
<1>13. ASSUME NEW p \in Regos, DashboardAdopts(p) PROVE RecordInv'
  BY <1>13 DEF DashboardAdopts, DoubtAfter
<1>14. ASSUME NEW h \in Handlers, HWriteFails(h) PROVE RecordInv'
  BY <1>14 DEF HWriteFails, Done, Goto
<1>15. ASSUME NEW h \in Handlers, HCommitFails(h) PROVE RecordInv'
  BY <1>15 DEF HCommitFails, Done, Goto
<1>16. ASSUME NEW kind \in FailureKinds, PassWriteFails(kind) PROVE RecordInv'
  BY <1>16 DEF PassWriteFails
<1>17. ASSUME PassCommitFails PROVE RecordInv'
  BY <1>17 DEF PassCommitFails
<1>18. ASSUME DriftReadFails PROVE RecordInv'
  BY <1>18 DEF DriftReadFails
<1>19. ASSUME DriftMisreads PROVE RecordInv'
  BY <1>19 DEF DriftMisreads
<1>20. ASSUME DriftConfirmFails PROVE RecordInv'
  BY <1>20 DEF DriftConfirmFails
<1>21. ASSUME Restart PROVE RecordInv'
  BY <1>21 DEF Restart, EndPass
<1>22. ASSUME NEW h \in Handlers, HAcquire(h) PROVE RecordInv'
  BY <1>22 DEF HAcquire, Goto
<1>23. ASSUME NEW h \in Handlers, HTimeout(h) PROVE RecordInv'
  BY <1>23 DEF HTimeout, Done, Goto
<1>24. ASSUME NEW h \in Handlers, HCheck(h) PROVE RecordInv'
  BY <1>24 DEF HCheck, Done, Goto
<1>25. ASSUME NEW h \in Handlers, HWrite(h) PROVE RecordInv'
  BY <1>25 DEF HWrite, Goto
<1>26. ASSUME NEW h \in Handlers, HCommit(h) PROVE RecordInv'
  BY <1>26 DEF HCommit, Done, Goto
<1>27. ASSUME PassStart PROVE RecordInv'
  BY <1>27 DEF PassStart
<1>28. ASSUME PassAgrees PROVE RecordInv'
  BY <1>28 DEF PassAgrees, EndPass
<1>29. ASSUME PassResolve PROVE RecordInv'
  BY <1>29 DEF PassResolve, EndPass
<1>30. ASSUME PassSkips PROVE RecordInv'
  BY <1>30 DEF PassSkips, EndPass
<1>31. ASSUME PassDrops PROVE RecordInv'
  BY <1>31 DEF PassDrops, EndPass
<1>32. ASSUME PassClaim PROVE RecordInv'
  BY <1>32 DEF PassClaim
<1>33. ASSUME PassWrite PROVE RecordInv'
  BY <1>33 DEF PassWrite
<1>34. ASSUME PassCommit PROVE RecordInv'
  BY <1>34 DEF PassCommit
<1>35. ASSUME PassBook PROVE RecordInv'
  BY <1>35 DEF PassBook, EndPass
<1>36. ASSUME DriftBegin PROVE RecordInv'
  BY <1>36 DEF DriftBegin
<1>37. ASSUME DriftRead PROVE RecordInv'
  BY <1>37 DEF DriftRead
<1>38. ASSUME DriftJudge PROVE RecordInv'
  BY <1>38 DEF DriftJudge
<1>39. ASSUME DriftConfirm PROVE RecordInv'
  BY <1>39 DEF DriftConfirm
<1>40. ASSUME DriftSwap PROVE RecordInv'
  BY <1>40 DEF DriftSwap, DoubtAfter
<1>41. ASSUME DriftHold PROVE RecordInv'
  BY <1>41 DEF DriftHold
<1>42. ASSUME WindowElapses PROVE RecordInv'
  BY <1>42 DEF WindowElapses
<1>43. CASE UNCHANGED vars
  BY <1>43 DEF vars
<1> QED
  BY <1>1, <1>2, <1>3, <1>4, <1>5, <1>6, <1>7, <1>8, <1>9, <1>10, <1>11,
     <1>12, <1>13, <1>14, <1>15, <1>16, <1>17, <1>18, <1>19, <1>20, <1>21,
     <1>22, <1>23, <1>24, <1>25, <1>26, <1>27, <1>28, <1>29, <1>30, <1>31,
     <1>32, <1>33, <1>34, <1>35, <1>36, <1>37, <1>38, <1>39, <1>40, <1>41,
     <1>42, <1>43
     DEF Next, Event, LinkEvent, HouseholdEvent, Failure, Work, HandlerStep,
         PassStep, DriftStep

\* What RecordBelief is, by who is writing.
RecordFacts ==
  /\ lpc = "written" => MidWrite /\ RecordBelief = want
  /\ \A h \in Handlers : hpc[h] = "written" => MidWrite /\ RecordBelief = req[h]
  /\ ~MidWrite => RecordBelief = belief

\* The claim makes the writer unique, so its plate is the one CHOOSE finds.
LEMMA WriterIsKnown == TypeOK /\ ClaimHeld => RecordFacts
<1> SUFFICES ASSUME TypeOK, ClaimHeld PROVE RecordFacts
  OBVIOUS
<1> USE ConstantsAssumption DEF RecordFacts, RecordBelief, MidWrite
<1>1. lpc = "written" => RecordBelief = want
  BY DEF Writing
<1>2. ASSUME NEW h \in Handlers, hpc[h] = "written" PROVE RecordBelief = req[h]
  <2>1. claim = h
    BY <1>2 DEF ClaimHeld
  <2>2. lpc # "written"
    BY <2>1 DEF ClaimHeld, Handlers
  <2>3. \A o \in Handlers : hpc[o] = "written" => o = h
    BY <2>1 DEF ClaimHeld
  <2>4. (CHOOSE o \in Handlers : hpc[o] = "written") = h
    BY <1>2, <2>3
  <2> QED
    BY <1>2, <2>2, <2>4 DEF Writing
<1> QED
  BY <1>1, <1>2

\* A step that moves neither portal, belief nor doubt, and starts or ends no
\* write, is invisible to the readers of the record.
LEMMA QuietStep ==
  ASSUME RecordFacts, RecordFacts',
         UNCHANGED <<portal, belief, doubt>>,
         lpc = "written" <=> lpc' = "written",
         lpc = "written" => want' = want,
         \A h \in Handlers : hpc[h] = "written" <=> hpc'[h] = "written",
         \A h \in Handlers : hpc[h] = "written" => req'[h] = req[h]
  PROVE  UNCHANGED AsRecord!recordVars
<1>1. MidWrite <=> MidWrite'
  BY DEF MidWrite
<1>2. RecordBelief' = RecordBelief
  BY <1>1 DEF RecordFacts, MidWrite
<1>3. RecordTrusted' = RecordTrusted
  BY <1>1 DEF RecordTrusted
<1> QED
  BY <1>2, <1>3 DEF AsRecord!recordVars

\* Every step is one event of the record, or invisible.
LEMMA RecordRefinement ==
  TypeOK /\ RecordInv /\ TypeOK' /\ RecordInv' /\ [Next]_vars
    => [AsRecord!RecordNext]_(AsRecord!recordVars)
<1> SUFFICES ASSUME TypeOK, RecordInv, TypeOK', RecordInv', [Next]_vars
             PROVE  [AsRecord!RecordNext]_(AsRecord!recordVars)
  OBVIOUS
<1> USE ConstantsAssumption
<1>0. RecordFacts /\ RecordFacts'
  BY WriterIsKnown, PTL DEF RecordInv
<1> USE DEF Handlers, TypeOK, DataOK, HandlerSteps, record, backoff, handlers,
   loop, drift
<1> USE <1>0
<1>1. ASSUME NEW g \in Guests, RevokeLink(g) PROVE UNCHANGED AsRecord!recordVars
  BY <1>1, QuietStep DEF RevokeLink, RecordInv, ClaimHeld
<1>2. ASSUME NEW g \in Guests, NarrowLink(g) PROVE UNCHANGED AsRecord!recordVars
  BY <1>2, QuietStep DEF NarrowLink, RecordInv, ClaimHeld
<1>3. ASSUME NEW g \in Guests, DeleteBooking(g)
      PROVE  UNCHANGED AsRecord!recordVars
  BY <1>3, QuietStep DEF DeleteBooking, RecordInv, ClaimHeld
<1>4. ASSUME NEW g \in Guests, GuestClear(g) PROVE UNCHANGED AsRecord!recordVars
  BY <1>4, QuietStep DEF GuestClear, Await, RecordInv, ClaimHeld
<1>5. ASSUME NEW g \in Guests, NEW p \in Plates, GuestActivate(g, p)
      PROVE  UNCHANGED AsRecord!recordVars
  BY <1>5, QuietStep DEF GuestActivate, Await, RecordInv, ClaimHeld
<1>6. ASSUME NEW g \in Guests, NEW p \in Plates, GuestRevert(g, p)
      PROVE  UNCHANGED AsRecord!recordVars
  BY <1>6, QuietStep DEF GuestRevert, Await, RecordInv, ClaimHeld
<1>7. ASSUME NEW t \in Targets, EditSchedule(t)
      PROVE  UNCHANGED AsRecord!recordVars
  BY <1>7, QuietStep DEF EditSchedule, RecordInv, ClaimHeld
<1>8. ASSUME Relink PROVE UNCHANGED AsRecord!recordVars
  BY <1>8, QuietStep DEF Relink, RecordInv, ClaimHeld
<1>9. ASSUME ScheduleMoves PROVE UNCHANGED AsRecord!recordVars
  BY <1>9, QuietStep DEF ScheduleMoves, RecordInv, ClaimHeld
<1>10. ASSUME OwnerClear PROVE UNCHANGED AsRecord!recordVars
  BY <1>10, QuietStep DEF OwnerClear, Await, RecordInv, ClaimHeld
<1>11. ASSUME LapseOrRenew PROVE UNCHANGED AsRecord!recordVars
  BY <1>11, QuietStep DEF LapseOrRenew, RecordInv, ClaimHeld
<1>12. ASSUME NEW p \in Regos, PortalEdit(p)
       PROVE  [AsRecord!RecordNext]_(AsRecord!recordVars)
  BY <1>12 DEF PortalEdit, RecordInv, ClaimHeld, RecordFacts, RecordTrusted,
     MidWrite, Regos, AsRecord!recordVars, AsRecord!RecordNext,
     AsRecord!Change, AsRecord!Elsewhere, AsRecord!Lose, AsRecord!Adopt,
     AsRecord!Regos
<1>13. ASSUME NEW p \in Regos, DashboardAdopts(p)
       PROVE  [AsRecord!RecordNext]_(AsRecord!recordVars)
  BY <1>13 DEF DashboardAdopts, DoubtAfter, RecordInv, ClaimHeld, RecordFacts,
     RecordTrusted, MidWrite, Regos, AsRecord!recordVars, AsRecord!RecordNext,
     AsRecord!Change, AsRecord!Elsewhere, AsRecord!Lose, AsRecord!Adopt,
     AsRecord!Regos
<1>14. ASSUME NEW h \in Handlers, HWriteFails(h)
       PROVE  [AsRecord!RecordNext]_(AsRecord!recordVars)
  BY <1>14 DEF HWriteFails, Done, Goto, RecordInv, ClaimHeld, RecordFacts,
     RecordTrusted, MidWrite, Regos, AsRecord!recordVars, AsRecord!RecordNext,
     AsRecord!Change, AsRecord!Elsewhere, AsRecord!Lose, AsRecord!Adopt,
     AsRecord!Regos
<1>15. ASSUME NEW h \in Handlers, HCommitFails(h)
       PROVE  [AsRecord!RecordNext]_(AsRecord!recordVars)
  BY <1>15 DEF HCommitFails, Done, Goto, RecordInv, ClaimHeld, RecordFacts,
     RecordTrusted, MidWrite, Regos, AsRecord!recordVars, AsRecord!RecordNext,
     AsRecord!Change, AsRecord!Elsewhere, AsRecord!Lose, AsRecord!Adopt,
     AsRecord!Regos
<1>16. ASSUME NEW kind \in FailureKinds, PassWriteFails(kind)
       PROVE  [AsRecord!RecordNext]_(AsRecord!recordVars)
  BY <1>16 DEF PassWriteFails, RecordInv, ClaimHeld, RecordFacts,
     RecordTrusted, MidWrite, Regos, AsRecord!recordVars, AsRecord!RecordNext,
     AsRecord!Change, AsRecord!Elsewhere, AsRecord!Lose, AsRecord!Adopt,
     AsRecord!Regos
<1>17. ASSUME PassCommitFails PROVE [AsRecord!RecordNext]_(AsRecord!recordVars)
  BY <1>17 DEF PassCommitFails, RecordInv, ClaimHeld, RecordFacts,
     RecordTrusted, MidWrite, Regos, AsRecord!recordVars, AsRecord!RecordNext,
     AsRecord!Change, AsRecord!Elsewhere, AsRecord!Lose, AsRecord!Adopt,
     AsRecord!Regos
<1>18. ASSUME DriftReadFails PROVE UNCHANGED AsRecord!recordVars
  BY <1>18, QuietStep DEF DriftReadFails, RecordInv, ClaimHeld
<1>19. ASSUME DriftMisreads PROVE UNCHANGED AsRecord!recordVars
  BY <1>19, QuietStep DEF DriftMisreads, RecordInv, ClaimHeld
<1>20. ASSUME DriftConfirmFails PROVE UNCHANGED AsRecord!recordVars
  BY <1>20, QuietStep DEF DriftConfirmFails, RecordInv, ClaimHeld
<1>21. ASSUME Restart PROVE [AsRecord!RecordNext]_(AsRecord!recordVars)
  BY <1>21 DEF Restart, EndPass, RecordInv, ClaimHeld, RecordFacts,
     RecordTrusted, MidWrite, Regos, AsRecord!recordVars, AsRecord!RecordNext,
     AsRecord!Change, AsRecord!Elsewhere, AsRecord!Lose, AsRecord!Adopt,
     AsRecord!Regos
<1>22. ASSUME NEW h \in Handlers, HAcquire(h)
       PROVE  UNCHANGED AsRecord!recordVars
  BY <1>22, QuietStep DEF HAcquire, Goto, RecordInv, ClaimHeld
<1>23. ASSUME NEW h \in Handlers, HTimeout(h)
       PROVE  UNCHANGED AsRecord!recordVars
  BY <1>23, QuietStep DEF HTimeout, Done, Goto, RecordInv, ClaimHeld
<1>24. ASSUME NEW h \in Handlers, HCheck(h) PROVE UNCHANGED AsRecord!recordVars
  BY <1>24, QuietStep DEF HCheck, Done, Goto, RecordInv, ClaimHeld
<1>25. ASSUME NEW h \in Handlers, HWrite(h)
       PROVE  [AsRecord!RecordNext]_(AsRecord!recordVars)
  BY <1>25 DEF HWrite, Goto, RecordInv, ClaimHeld, RecordFacts, RecordTrusted,
     MidWrite, Regos, AsRecord!recordVars, AsRecord!RecordNext,
     AsRecord!Change, AsRecord!Elsewhere, AsRecord!Lose, AsRecord!Adopt,
     AsRecord!Regos
<1>26. ASSUME NEW h \in Handlers, HCommit(h)
       PROVE  [AsRecord!RecordNext]_(AsRecord!recordVars)
  BY <1>26 DEF HCommit, Done, Goto, RecordInv, ClaimHeld, RecordFacts,
     RecordTrusted, MidWrite, Regos, AsRecord!recordVars, AsRecord!RecordNext,
     AsRecord!Change, AsRecord!Elsewhere, AsRecord!Lose, AsRecord!Adopt,
     AsRecord!Regos
<1>27. ASSUME PassStart PROVE UNCHANGED AsRecord!recordVars
  BY <1>27, QuietStep DEF PassStart, RecordInv, ClaimHeld
<1>28. ASSUME PassAgrees PROVE UNCHANGED AsRecord!recordVars
  BY <1>28, QuietStep DEF PassAgrees, EndPass, RecordInv, ClaimHeld
<1>29. ASSUME PassResolve PROVE UNCHANGED AsRecord!recordVars
  BY <1>29, QuietStep DEF PassResolve, EndPass, RecordInv, ClaimHeld
<1>30. ASSUME PassSkips PROVE UNCHANGED AsRecord!recordVars
  BY <1>30, QuietStep DEF PassSkips, EndPass, RecordInv, ClaimHeld
<1>31. ASSUME PassDrops PROVE UNCHANGED AsRecord!recordVars
  BY <1>31, QuietStep DEF PassDrops, EndPass, RecordInv, ClaimHeld
<1>32. ASSUME PassClaim PROVE UNCHANGED AsRecord!recordVars
  BY <1>32, QuietStep DEF PassClaim, RecordInv, ClaimHeld
<1>33. ASSUME PassWrite PROVE [AsRecord!RecordNext]_(AsRecord!recordVars)
  BY <1>33 DEF PassWrite, RecordInv, ClaimHeld, RecordFacts, RecordTrusted,
     MidWrite, Regos, AsRecord!recordVars, AsRecord!RecordNext,
     AsRecord!Change, AsRecord!Elsewhere, AsRecord!Lose, AsRecord!Adopt,
     AsRecord!Regos
<1>34. ASSUME PassCommit PROVE [AsRecord!RecordNext]_(AsRecord!recordVars)
  BY <1>34 DEF PassCommit, RecordInv, ClaimHeld, RecordFacts, RecordTrusted,
     MidWrite, Regos, AsRecord!recordVars, AsRecord!RecordNext,
     AsRecord!Change, AsRecord!Elsewhere, AsRecord!Lose, AsRecord!Adopt,
     AsRecord!Regos
<1>35. ASSUME PassBook PROVE UNCHANGED AsRecord!recordVars
  BY <1>35, QuietStep DEF PassBook, EndPass, RecordInv, ClaimHeld
<1>36. ASSUME DriftBegin PROVE UNCHANGED AsRecord!recordVars
  BY <1>36, QuietStep DEF DriftBegin, RecordInv, ClaimHeld
<1>37. ASSUME DriftRead PROVE UNCHANGED AsRecord!recordVars
  BY <1>37, QuietStep DEF DriftRead, RecordInv, ClaimHeld
<1>38. ASSUME DriftJudge PROVE UNCHANGED AsRecord!recordVars
  BY <1>38, QuietStep DEF DriftJudge, RecordInv, ClaimHeld
<1>39. ASSUME DriftConfirm PROVE UNCHANGED AsRecord!recordVars
  BY <1>39, QuietStep DEF DriftConfirm, RecordInv, ClaimHeld
<1>40. ASSUME DriftSwap PROVE [AsRecord!RecordNext]_(AsRecord!recordVars)
  BY <1>40 DEF DriftSwap, DoubtAfter, RecordInv, ClaimHeld, RecordFacts,
     RecordTrusted, MidWrite, Regos, AsRecord!recordVars, AsRecord!RecordNext,
     AsRecord!Change, AsRecord!Elsewhere, AsRecord!Lose, AsRecord!Adopt,
     AsRecord!Regos
<1>41. ASSUME DriftHold PROVE UNCHANGED AsRecord!recordVars
  BY <1>41, QuietStep DEF DriftHold, RecordInv, ClaimHeld
<1>42. ASSUME WindowElapses PROVE UNCHANGED AsRecord!recordVars
  BY <1>42, QuietStep DEF WindowElapses, RecordInv, ClaimHeld
<1>43. CASE UNCHANGED vars
  BY <1>43, QuietStep DEF vars
<1> QED
  BY <1>1, <1>2, <1>3, <1>4, <1>5, <1>6, <1>7, <1>8, <1>9, <1>10, <1>11,
     <1>12, <1>13, <1>14, <1>15, <1>16, <1>17, <1>18, <1>19, <1>20, <1>21,
     <1>22, <1>23, <1>24, <1>25, <1>26, <1>27, <1>28, <1>29, <1>30, <1>31,
     <1>32, <1>33, <1>34, <1>35, <1>36, <1>37, <1>38, <1>39, <1>40, <1>41,
     <1>42, <1>43
     DEF Next, Event, LinkEvent, HouseholdEvent, Failure, Work, HandlerStep,
         PassStep, DriftStep

\* Exclusive claim, honest record: after any interleaving of handlers, loop,
\* drift check, dashboard and restarts (scheduler.go: AcquireApply, tryApply;
\* reconcile.go: commit under the claim; drift.go: the compare-and-swap).
THEOREM RecordTrue == Spec => [](TypeOK /\ RecordInv)
<1>1. Init => TypeOK /\ RecordInv
  BY InitType, ConstantsAssumption
     DEF Init, RecordInv, ClaimHeld, WrittenHolds, RecordHonest, Handlers
<1>2. TypeOK /\ RecordInv /\ [Next]_vars => TypeOK' /\ RecordInv'
  BY DataStep, ManagedStep, RecordStep DEF TypeOK
<1> QED
  BY <1>1, <1>2, PTL DEF Spec

\* The belief is the portal's plate whenever nothing has parted the two
\* (reconcile.go and settle decide on active_registration without asking).
THEOREM HonestRecord == Spec => []RecordHonest
BY RecordTrue, PTL DEF RecordInv

\* What readers of the permit see is PlateRecord: each confirmed change is one
\* event for portal and belief together (the claim spans write and record).
THEOREM Refinement == Spec => ImplementsRecord
<1>1. Init => AsRecord!RecordInit
  BY DEF Init, AsRecord!RecordInit, AsRecord!Regos, Regos, RecordBelief,
         RecordTrusted, MidWrite
<1>2. TypeOK /\ RecordInv /\ TypeOK' /\ RecordInv' /\ [Next]_vars
        => [AsRecord!RecordNext]_(AsRecord!recordVars)
  BY RecordRefinement
<1> QED
  BY <1>1, <1>2, RecordTrue, PTL DEF Spec, ImplementsRecord, AsRecord!RecordSpec

\* ... and so what PlateRecord promises holds of the program, while a write is
\* being recorded too.
THEOREM TrustedRecord == Spec => []AsRecord!TrustedIsTrue
<1>1. TypeOK /\ RecordInv => AsRecord!TrustedIsTrue
  <2> SUFFICES ASSUME TypeOK, RecordInv, RecordTrusted PROVE RecordBelief =
     portal
    BY DEF AsRecord!TrustedIsTrue
  <2>1. RecordFacts
    BY WriterIsKnown DEF RecordInv
  <2>2. CASE MidWrite
    BY <2>1, <2>2 DEF RecordFacts, MidWrite, RecordTrusted, RecordInv,
       WrittenHolds
  <2>3. CASE ~MidWrite
    BY <2>1, <2>3 DEF RecordFacts, RecordTrusted, RecordInv, RecordHonest
  <2> QED
    BY <2>2, <2>3
<1> QED
  BY <1>1, RecordTrue, PTL

\* A link's request gets to the council only between HCheck, where the link is
\* live, and the end of the request; a revocation that took the claim cannot
\* happen in between, because the claim is the request's own.
LEMMA RevokedStep ==
  TypeOK /\ RecordInv /\ RevokedLinkWritesNothing /\ [Next]_vars
    => RevokedLinkWritesNothing'
<1> SUFFICES ASSUME TypeOK, RecordInv, RevokedLinkWritesNothing, [Next]_vars,
                    NEW x \in Guests,
                    hpc'[x] \in {"authorised", "written"}
             PROVE  link'[x] # "revoked"
  BY DEF RevokedLinkWritesNothing
<1> USE ConstantsAssumption
<1> USE DEF Handlers, TypeOK, DataOK, HandlerSteps, RevokedLinkWritesNothing,
            record, backoff, schedule, handlers, loop, drift
<1>1. CASE \E g \in Guests : LinkEvent(g)
  BY <1>1 DEF LinkEvent, RevokeLink, NarrowLink, DeleteBooking, GuestClear,
     GuestActivate, GuestRevert, RecordInv, ClaimHeld, Await
<1>2. CASE HouseholdEvent
  BY <1>2 DEF HouseholdEvent, EditSchedule, Relink, ScheduleMoves, OwnerClear,
     LapseOrRenew, PortalEdit, DashboardAdopts, Await
<1>3. CASE Failure
  BY <1>3 DEF Failure, HWriteFails, HCommitFails, PassWriteFails,
     PassCommitFails, DriftReadFails, DriftMisreads, DriftConfirmFails,
     Restart, Done, Goto
<1>4. CASE \E h \in Handlers : HandlerStep(h)
  BY <1>4 DEF HandlerStep, HAcquire, HTimeout, HCheck, HWrite, HCommit, Goto,
     Done, Authorised
<1>5. CASE PassStep
  BY <1>5 DEF PassStep, PassStart, PassAgrees, PassResolve, PassSkips,
     PassDrops, PassClaim, PassWrite, PassCommit, PassBook
<1>6. CASE DriftStep
  BY <1>6 DEF DriftStep, DriftBegin, DriftRead, DriftJudge, DriftConfirm,
     DriftSwap, DriftHold
<1>7. CASE WindowElapses
  BY <1>7 DEF WindowElapses
<1>8. CASE UNCHANGED vars
  BY <1>8 DEF vars
<1> QED
  BY <1>1, <1>2, <1>3, <1>4, <1>5, <1>6, <1>7, <1>8 DEF Next, Event, Work

\* Nothing is written on a link's authority once its revocation took the claim,
\* whatever the interleaving of visitors, household and loops
\* (guest_doorqr.go: claimPermitApplies, authoriseGuestApply).
THEOREM RevokedLinks == Spec => []RevokedLinkWritesNothing
<1>1. Init => RevokedLinkWritesNothing
  BY DEF Init, RevokedLinkWritesNothing, Handlers
<1>2. TypeOK /\ RecordInv /\ RevokedLinkWritesNothing /\ [Next]_vars
        => RevokedLinkWritesNothing'
  BY RevokedStep
<1> QED
  BY <1>1, <1>2, RecordTrue, PTL DEF Spec

\* A pass goes to the council only with the permit's retry window open
\* (reconcile.go: retryDeferred, unparkIfTargetChanged).
THEOREM ShutWindow == Spec => []NoWriteInShutWindow
<1>1. Init => NoWriteInShutWindow
  BY DEF Init, NoWriteInShutWindow
<1>2. NoWriteInShutWindow /\ [Next]_vars => NoWriteInShutWindow'
  <2> SUFFICES ASSUME NoWriteInShutWindow, [Next]_vars PROVE
     NoWriteInShutWindow'
    OBVIOUS
  <2> USE DEF NoWriteInShutWindow, record, backoff, schedule, handlers, loop,
              drift
  <2>1. CASE \E g \in Guests : LinkEvent(g)
    BY <2>1 DEF LinkEvent, RevokeLink, NarrowLink, DeleteBooking, GuestClear,
       GuestActivate, GuestRevert, ClearRetry
  <2>2. CASE HouseholdEvent
    BY <2>2 DEF HouseholdEvent, EditSchedule, Relink, ScheduleMoves,
       OwnerClear, LapseOrRenew, PortalEdit, DashboardAdopts,
       ClearRetry
  <2>3. CASE Failure
    BY <2>3 DEF Failure, HWriteFails, HCommitFails, PassWriteFails,
       PassCommitFails, DriftReadFails, DriftMisreads, DriftConfirmFails,
       Restart, ClearRetry, EndPass
  <2>4. CASE \E h \in Handlers : HandlerStep(h)
    BY <2>4 DEF HandlerStep, HAcquire, HTimeout, HCheck, HWrite, HCommit
  <2>5. CASE PassStep
    BY <2>5 DEF PassStep, PassStart, PassAgrees, PassResolve, PassSkips,
       PassDrops, PassClaim, PassWrite, PassCommit, PassBook, ClearRetry,
       EndPass
  <2>6. CASE DriftStep
    BY <2>6 DEF DriftStep, DriftBegin, DriftRead, DriftJudge, DriftConfirm,
       DriftSwap, DriftHold
  <2>7. CASE WindowElapses
    BY <2>7 DEF WindowElapses
  <2>8. CASE UNCHANGED vars
    BY <2>8 DEF vars
  <2> QED
    BY <2>1, <2>2, <2>3, <2>4, <2>5, <2>6, <2>7, <2>8 DEF Next, Event, Work
<1> QED
  BY <1>1, <1>2, PTL DEF Spec

\* A failure episode is closed only on a plate that is on record now
\* (reconcile.go: settle re-reads the row before it acts on the snapshot).
THEOREM SettleCurrent == Spec => SettleIsCurrent
<1>1. TypeOK /\ [Next]_vars =>
        (streak' < streak =>
           outcome = "ok" \/ belief = want \/ Resolved \in {Nothing, belief})
  <2> SUFFICES ASSUME TypeOK, [Next]_vars, streak' < streak
               PROVE  outcome = "ok" \/ belief = want \/ Resolved \in
                  {Nothing, belief}
    OBVIOUS
  <2>0. streak \in Nat /\ ~(streak < streak) /\ ~(streak + 1 < streak)
    BY ConstantsAssumption DEF TypeOK, DataOK
  <2> USE <2>0 DEF record, backoff, schedule, handlers, loop, drift
  <2>1. CASE \E g \in Guests : LinkEvent(g)
    BY <2>1 DEF LinkEvent, RevokeLink, NarrowLink, DeleteBooking, GuestClear,
       GuestActivate, GuestRevert, ClearRetry
  <2>2. CASE HouseholdEvent
    BY <2>2 DEF HouseholdEvent, EditSchedule, Relink, ScheduleMoves,
       OwnerClear, LapseOrRenew, PortalEdit, DashboardAdopts, ClearRetry
  <2>3. CASE Failure
    BY <2>3 DEF Failure, HWriteFails, HCommitFails, PassWriteFails,
       PassCommitFails, DriftReadFails, DriftMisreads, DriftConfirmFails,
       Restart, ClearRetry
  <2>4. CASE \E h \in Handlers : HandlerStep(h)
    BY <2>4 DEF HandlerStep, HAcquire, HTimeout, HCheck, HWrite, HCommit
  <2>5. CASE PassStep
    BY <2>5 DEF PassStep, PassStart, PassAgrees, PassResolve, PassSkips,
       PassDrops, PassClaim, PassWrite, PassCommit, PassBook, Settle,
       ClearRetry, Bump
  <2>6. CASE DriftStep
    BY <2>6 DEF DriftStep, DriftBegin, DriftRead, DriftJudge, DriftConfirm,
       DriftSwap, DriftHold
  <2>7. CASE WindowElapses
    BY <2>7 DEF WindowElapses
  <2>8. CASE UNCHANGED vars
    BY <2>8 DEF vars
  <2> QED
    BY <2>1, <2>2, <2>3, <2>4, <2>5, <2>6, <2>7, <2>8 DEF Next, Event, Work
<1> QED
  BY <1>1, RecordTrue, PTL DEF Spec, SettleIsCurrent

\* A pass never sets out to write the plate the council already holds, while
\* nothing has parted the record from the portal (reconcile.go: the re-read
\* under the claim).
THEOREM PointlessWrite == Spec => NoPointlessWrite
<1>1. TypeOK /\ RecordInv /\ [Next]_vars =>
        (lpc = "resolved" /\ lpc' = "applying" /\ doubt = {} => portal # want)
  <2> SUFFICES ASSUME TypeOK, RecordInv, [Next]_vars, lpc = "resolved",
                      lpc' = "applying", doubt = {}
               PROVE  portal # want
    OBVIOUS
  <2> USE ConstantsAssumption
  <2> USE DEF record, backoff, schedule, handlers, loop, drift
  <2>1. CASE \E g \in Guests : LinkEvent(g)
    BY <2>1 DEF LinkEvent, RevokeLink, NarrowLink, DeleteBooking, GuestClear,
       GuestActivate, GuestRevert
  <2>2. CASE HouseholdEvent
    BY <2>2 DEF HouseholdEvent, EditSchedule, Relink, ScheduleMoves,
       OwnerClear, LapseOrRenew, PortalEdit, DashboardAdopts
  <2>3. CASE Failure
    BY <2>3 DEF Failure, HWriteFails, HCommitFails, PassWriteFails,
       PassCommitFails, DriftReadFails, DriftMisreads, DriftConfirmFails,
       Restart, EndPass
  <2>4. CASE \E h \in Handlers : HandlerStep(h)
    BY <2>4 DEF HandlerStep, HAcquire, HTimeout, HCheck, HWrite, HCommit
  <2>5. CASE PassStep
    BY <2>5 DEF PassStep, PassStart, PassAgrees, PassResolve, PassSkips,
       PassDrops, PassClaim, PassWrite, PassCommit, PassBook, EndPass,
       RecordInv, RecordHonest, ClaimHeld, MidWrite, TypeOK, DataOK, Handlers
  <2>6. CASE DriftStep
    BY <2>6 DEF DriftStep, DriftBegin, DriftRead, DriftJudge, DriftConfirm,
       DriftSwap, DriftHold
  <2>7. CASE WindowElapses
    BY <2>7 DEF WindowElapses
  <2>8. CASE UNCHANGED vars
    BY <2>8 DEF vars
  <2> QED
    BY <2>1, <2>2, <2>3, <2>4, <2>5, <2>6, <2>7, <2>8 DEF Next, Event, Work
<1> QED
  BY <1>1, RecordTrue, PTL DEF Spec, NoPointlessWrite
==============================================================================
