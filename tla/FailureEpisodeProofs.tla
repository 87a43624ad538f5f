------------------------ MODULE FailureEpisodeProofs ------------------------
(***************************************************************************)
(* Theorems about FailureEpisode, for every set of plates and days and     *)
(* every choice of the thresholds:                                         *)
(*                                                                         *)
(*   TypeCorrect    its variables keep their types;                        *)
(*   Honest         the episode claims only what was delivered;            *)
(*   OnRecord       what was delivered is on record, unless a mark failed; *)
(*   NotRepeated    no notice on record is delivered again.                *)
(*                                                                         *)
(* Honest is not inductive by itself: the episode is marked from two other *)
(* records of a delivery, the key and the goroutine that has delivered, so *)
(* these must be honest too (HonestInv).                                   *)
(***************************************************************************)
EXTENDS FailureEpisode, TLAPS

------------------------------------------------------------------------------
(* The keys.                                                                *)

\* A key names a plate.
LEMMA KeyReg == \A k \in Keys : k.reg \in Plates
BY DEF Keys, Notices, FailKeys, FailKey, CloseOut, Success

\* A key of a failure is what its plate and its tier make it.
LEMMA FailKeyParts ==
  \A k \in FailKeys : /\ k.kind \in {"soft", "urgent"}
                      /\ k = FailKey(k.reg, k.kind = "urgent")
BY DEF FailKeys, FailKey

\* A notice is a failure's, and of its tier, or a close-out.
LEMMA NoticeKinds ==
  \A k \in Keys : /\ k.kind \in {"soft", "urgent"} <=> k \in FailKeys
                  /\ k.kind # "success" => k \in Notices
<1> SUFFICES ASSUME NEW k \in Keys
             PROVE  /\ k.kind \in {"soft", "urgent"} <=> k \in FailKeys
                    /\ k.kind # "success" => k \in Notices
  OBVIOUS
<1>1. CASE k \in FailKeys
  BY <1>1, FailKeyParts DEF Notices
<1>2. CASE \E p \in Plates, d \in Days : k = CloseOut(p, d)
  <2>1. k.kind = "unapplied"
    BY <1>2 DEF CloseOut
  <2>2. k \in Notices
    BY <1>2 DEF Notices
  <2> QED
    BY <2>1, <2>2, FailKeyParts
<1>3. CASE \E p \in Plates, q \in Plates : k = Success(p, q)
  <2>1. k.kind = "success"
    BY <1>3 DEF Success
  <2> QED
    BY <2>1, FailKeyParts
<1> QED
  BY <1>1, <1>2, <1>3 DEF Keys, Notices

LEMMA FailKeysAreKeys == FailKeys \subseteq Notices /\ Notices \subseteq Keys
BY DEF Notices, Keys

LEMMA FailKeyIn == \A p \in Plates, u \in BOOLEAN : FailKey(p, u) \in FailKeys
BY DEF FailKeys

\* The longest threshold is one of them.
LEMMA MaxStreakNat == MaxStreak \in Nat
<1> DEFINE MaxOf(a, b) == IF a <= b THEN b ELSE a
           n == MaxOf(MaxOf(FailThreshold, BusyThreshold),
                      MaxOf(BlockThreshold, SessionThreshold))
<1>1. n \in Thresholds /\ \A m \in Thresholds : m <= n
  BY EpisodeAssumption DEF Thresholds
<1>2. MaxStreak \in Thresholds
  BY <1>1 DEF MaxStreak
<1> QED
  BY <1>2, EpisodeAssumption

------------------------------------------------------------------------------
(* The types.                                                               *)

\* What a pass knows at each of its steps.
PassKnows ==
  /\ pc = "idle" => cause = "none"
  /\ cause # "none" => asked \in FailKeys
  /\ pc = "judge" => asked \in FailKeys
  /\ pc \in {"ask", "claim"} => asked \in Keys

TypeInv == TypeOK /\ PassKnows

LEMMA TypeInit == Init => TypeInv
<1> SUFFICES ASSUME Init PROVE TypeInv
  OBVIOUS
<1>1. slipped \in BOOLEAN
  BY Zenon DEF Init
<1>2. ever \subseteq Notices /\ heard \subseteq {"soft", "urgent"}
  BY FailKeysAreKeys, FailKeyParts DEF Init
<1>3. key \in Keys \union {NoKey}
  BY FailKeysAreKeys DEF Init
<1>4. epi \in [told : Plates \union {NoPlate}, urgent : BOOLEAN]
  BY DEF Init, NoEpisode
<1>5. streak \in 0..MaxStreak
  BY MaxStreakNat DEF Init
<1> QED
  BY <1>1, <1>2, <1>3, <1>4, <1>5 DEF Init, TypeInv, TypeOK, PassKnows, Steps

\* The end of a pass, alone or after its notice was dealt with.
LEMMA PassEnds ==
  ASSUME TypeInv, EndPass \/ Asked,
         Asked => asked \in Keys
  PROVE  /\ parked' \in Plates \union {NoPlate}
         /\ pc' \in {"idle", "close"}
         /\ cause' \in {"none", "plain", "refused", "outage"}
         /\ asked' \in Keys \union {NoKey}
         /\ epi' \in [told : Plates \union {NoPlate}, urgent : BOOLEAN]
         /\ PassKnows'
<1>1. cause = "refused" => asked.reg \in Plates
  BY KeyReg, FailKeysAreKeys DEF TypeInv, PassKnows
<1>2. CASE EndPass
  BY <1>1, <1>2 DEF EndPass, TypeInv, TypeOK, PassKnows, NoEpisode
<1>3. CASE asked.kind = "unapplied" /\ pc' = "close"
           /\ UNCHANGED <<cause, asked, epi, parked>>
  BY <1>3 DEF TypeInv, TypeOK, PassKnows, Asked
<1> QED
  BY <1>2, <1>3 DEF Asked

LEMMA ForgetTyped ==
  Forget => /\ told' \in Plates \union {NoPlate} /\ urgent' \in BOOLEAN
            /\ heard' \subseteq {"soft", "urgent"} /\ slipped' \in BOOLEAN
<1>1. Forget => urgent' \in BOOLEAN /\ slipped' \in BOOLEAN
  BY Zenon DEF Forget
<1> QED
  BY <1>1 DEF Forget

LEMMA TypeStep == TypeInv /\ [Next]_vars => TypeInv'
<1> SUFFICES ASSUME TypeInv, [Next]_vars PROVE TypeInv'
  OBVIOUS
<1> USE DEF TypeInv, TypeOK, PassKnows, permit, episode, pass, notices, told_of
<1>1. ASSUME NEW p \in Plates, ScheduleMoves(p) PROVE TypeInv'
  BY <1>1 DEF ScheduleMoves
<1>2. ASSUME NEW p \in Plates, GuestApplies(p) PROVE TypeInv'
  BY <1>2 DEF GuestApplies
<1>3. ASSUME NEW p \in Plates, DriftAdopts(p) PROVE TypeInv'
  BY <1>3 DEF DriftAdopts
<1>4. ASSUME Unreadable PROVE TypeInv'
  BY <1>4, PassEnds, FailKeysAreKeys DEF Unreadable
<1>5. ASSUME Restart PROVE TypeInv'
  BY <1>5 DEF Restart, NoEpisode, Steps
<1>6. ASSUME NEW k \in Keys, RecheckFails(k) PROVE TypeInv'
  BY <1>6 DEF RecheckFails, Goto, Steps
<1>7. ASSUME NEW k \in Keys, DeliverPart(k) PROVE TypeInv'
  BY <1>7 DEF DeliverPart, Goto, Steps
<1>8. ASSUME NEW k \in Keys, RecordFails(k) PROVE TypeInv'
  BY <1>8 DEF RecordFails, Goto, Steps
<1>9. ASSUME NEW k \in Keys, MarkFails(k) PROVE TypeInv'
  BY <1>9 DEF MarkFails, Goto, Steps
<1>10. ASSUME NEW c \in Causes, ApplyFails(c) PROVE TypeInv'
  <2>1. streak' \in 0..MaxStreak
    BY <1>10, MaxStreakNat DEF ApplyFails
  <2>2. FailKey(want, Urgent(c)) \in FailKeys
    <3>1. FailKey(want, Urgent(c)) \in {FailKey(want, TRUE), FailKey(want, FALSE)}
      BY DEF FailKey
    <3> QED
      BY <3>1, FailKeyIn
  <2>3. Matters(c) \in {"plain", "refused", "outage"}
    BY DEF Matters
  <2> QED
    BY <1>10, <2>1, <2>2, <2>3, FailKeysAreKeys DEF ApplyFails
<1>11. ASSUME ApplySucceeds PROVE TypeInv'
  <2>1. Success(want, on) \in Keys
    BY DEF Keys
  <2> QED
    BY <1>11, <2>1, MaxStreakNat, ForgetTyped DEF ApplySucceeds
<1>12. ASSUME Settle PROVE TypeInv'
  <2>1. CASE NeverLanded /\ \E d \in Days : asked' = CloseOut(failed, d)
    <3>1. \A d \in Days : CloseOut(failed, d) \in Keys
      BY <2>1 DEF NeverLanded, Keys, Notices
    <3> QED
      BY <1>12, <2>1, <3>1 DEF Settle
  <2>2. CASE ~NeverLanded
    BY <1>12, <2>2 DEF Settle
  <2> QED
    BY <1>12, <2>1, <2>2 DEF Settle
<1>13. ASSUME Judge PROVE TypeInv'
  <2>1. asked.reg \in Plates
    BY <1>13, KeyReg, FailKeysAreKeys DEF Judge
  <2>2. told' \in Plates \union {NoPlate} /\ urgent' \in BOOLEAN
    BY <1>13, <2>1 DEF Judge, MarkTold
  <2>3. CASE EndPass
    BY <1>13, <2>2, <2>3, PassEnds, FailKeysAreKeys DEF Judge
  <2>4. CASE pc' = "ask" /\ epi' = NoEpisode /\ UNCHANGED <<cause, asked, parked>>
    BY <1>13, <2>2, <2>4, FailKeysAreKeys DEF Judge, NoEpisode
  <2> QED
    BY <1>13, <2>3, <2>4 DEF Judge
<1>14. ASSUME Ask PROVE TypeInv'
  <2>1. CASE Asked
    BY <1>14, <2>1, PassEnds DEF Ask
  <2>2. CASE pc' = "claim" /\ UNCHANGED <<cause, asked, epi, parked>>
    BY <1>14, <2>2 DEF Ask
  <2> QED
    BY <1>14, <2>1, <2>2 DEF Ask
<1>15. ASSUME Claim PROVE TypeInv'
  <2>1. job' \in [Keys -> Steps]
    BY <1>15 DEF Claim, Steps
  <2> QED
    BY <1>15, <2>1, PassEnds DEF Claim
<1>16. ASSUME Close PROVE TypeInv'
  BY <1>16, MaxStreakNat, ForgetTyped DEF Close, NoEpisode
<1>17. ASSUME NEW k \in Keys, Recheck(k) PROVE TypeInv'
  BY <1>17 DEF Recheck, Goto, Steps
<1>18. ASSUME NEW k \in Keys, Deliver(k) PROVE TypeInv'
  <2>1. job' \in [Keys -> Steps]
    BY <1>18 DEF Deliver, Goto, Steps
  <2>2. ever' \subseteq Notices /\ heard' \subseteq {"soft", "urgent"}
    BY <1>18 DEF Deliver
  <2>3. held' \subseteq Keys
    BY <1>18 DEF Deliver
  <2> QED
    BY <1>18, <2>1, <2>2, <2>3 DEF Deliver
<1>19. ASSUME NEW k \in Keys, Record(k) PROVE TypeInv'
  BY <1>19 DEF Record, Goto, Steps
<1>20. ASSUME NEW k \in Keys, Mark(k) PROVE TypeInv'
  BY <1>20, KeyReg DEF Mark, MarkTold, Goto, Steps
<1>21. ASSUME NEW k \in Keys, HoldElapses(k) PROVE TypeInv'
  BY <1>21 DEF HoldElapses
<1>22. CASE UNCHANGED vars
  BY <1>22 DEF vars
<1> QED
  BY <1>1, <1>2, <1>3, <1>4, <1>5, <1>6, <1>7, <1>8, <1>9, <1>10, <1>11,
     <1>12, <1>13, <1>14, <1>15, <1>16, <1>17, <1>18, <1>19, <1>20, <1>21,
     <1>22
     DEF Next, Event, Work, PassStep, Delivery

LEMMA TypeInvariant == Spec => []TypeInv
<1>1. Init => TypeInv
  BY TypeInit
<1>2. TypeInv /\ [Next]_vars => TypeInv'
  BY TypeStep
<1> QED
  BY <1>1, <1>2, PTL DEF Spec

\* Every variable of the loop, the episode and the deliveries keeps its type.
THEOREM TypeCorrect == Spec => []TypeOK
<1>1. TypeInv => TypeOK
  BY DEF TypeInv
<1> QED
  BY <1>1, TypeInvariant, PTL
------------------------------------------------------------------------------
(* What the episode claims.                                                 *)

\* The two records that an episode is marked from are honest: the key, and the
\* goroutine that has delivered.  Only a failure's has anything to mark.
RecordsHonest ==
  /\ key \in Notices => key \in ever
  /\ \A k \in Notices : job[k] \in {"sent", "marking"} => k \in ever
  /\ \A k \in Keys : job[k] = "marking" => k \in FailKeys

HonestInv == TypeInv /\ RecordsHonest /\ EpisodeHonest

LEMMA HonestInit == Init => RecordsHonest /\ EpisodeHonest
<1> SUFFICES ASSUME Init PROVE RecordsHonest /\ EpisodeHonest
  OBVIOUS
<1>1. key \in Notices => key \in ever
  BY NoKeyAssumption, FailKeysAreKeys DEF Init
<1>2. \A k \in Keys : job[k] = "none"
  BY DEF Init
<1>3. EpisodeHonest
  BY DEF Init, EpisodeHonest
<1> QED
  BY <1>1, <1>2, <1>3, FailKeysAreKeys DEF RecordsHonest

\* Marking what was delivered keeps the episode honest.
LEMMA MarkHonest ==
  ASSUME NEW k \in Notices, k \in ever, NEW u, u <=> k = FailKey(k.reg, TRUE),
         EpisodeHonest, MarkTold(k.reg, u), ever' = ever
  PROVE  EpisodeHonest'
<1>1. About(k.reg) \intersect ever # {}
  BY DEF About
<1>2. urgent' => FailKey(k.reg, TRUE) \in ever
  <2>1. urgent' => (told = k.reg /\ urgent) \/ u
    BY Zenon DEF MarkTold
  <2>2. k.reg # NoPlate
    BY KeyReg, FailKeysAreKeys, EpisodeAssumption
  <2> QED
    BY <2>1, <2>2 DEF EpisodeHonest
<1> QED
  BY <1>1, <1>2 DEF EpisodeHonest, MarkTold, About
\* Dropping the record of an episode is no claim.
LEMMA ForgetHonest == Forget => EpisodeHonest'
BY DEF Forget, EpisodeHonest

LEMMA HonestStep == HonestInv /\ [Next]_vars => RecordsHonest' /\ EpisodeHonest'
<1> SUFFICES ASSUME HonestInv, [Next]_vars
             PROVE  RecordsHonest' /\ EpisodeHonest'
  OBVIOUS
<1>a. TypeInv /\ TypeOK /\ PassKnows /\ RecordsHonest /\ EpisodeHonest
  BY DEF HonestInv, TypeInv
\* What leaves the key, the deliveries and the episode alone leaves them honest.
<1>b. ASSUME UNCHANGED <<key, ever, job>> PROVE RecordsHonest'
  BY <1>a, <1>b DEF RecordsHonest
<1>c. ASSUME UNCHANGED <<told, urgent, ever>> PROVE EpisodeHonest'
  BY <1>a, <1>c DEF EpisodeHonest
<1> USE DEF permit, episode, pass, notices, told_of
<1>1. ASSUME NEW p \in Plates, ScheduleMoves(p)
      PROVE  RecordsHonest' /\ EpisodeHonest'
  BY <1>1, <1>b, <1>c DEF ScheduleMoves
<1>2. ASSUME NEW p \in Plates, GuestApplies(p)
      PROVE  RecordsHonest' /\ EpisodeHonest'
  BY <1>2, <1>b, <1>c DEF GuestApplies
<1>3. ASSUME NEW p \in Plates, DriftAdopts(p)
      PROVE  RecordsHonest' /\ EpisodeHonest'
  <2>1. NoKey \notin Notices
    BY NoKeyAssumption, FailKeysAreKeys
  <2> QED
    BY <1>3, <1>a, <1>c, <2>1 DEF DriftAdopts, RecordsHonest
<1>4. ASSUME Unreadable PROVE RecordsHonest' /\ EpisodeHonest'
  BY <1>4, <1>b, <1>c DEF Unreadable
<1>5. ASSUME Restart PROVE RecordsHonest' /\ EpisodeHonest'
  BY <1>5, <1>a, <1>c, FailKeysAreKeys DEF Restart, RecordsHonest
<1>6. ASSUME NEW k \in Keys, RecheckFails(k) PROVE RecordsHonest' /\ EpisodeHonest'
  BY <1>6, <1>a, <1>c DEF RecheckFails, Goto, RecordsHonest, TypeOK
<1>7. ASSUME NEW k \in Keys, DeliverPart(k) PROVE RecordsHonest' /\ EpisodeHonest'
  BY <1>7, <1>a, <1>c DEF DeliverPart, Goto, RecordsHonest, TypeOK
<1>8. ASSUME NEW k \in Keys, RecordFails(k) PROVE RecordsHonest' /\ EpisodeHonest'
  BY <1>8, <1>a, <1>c DEF RecordFails, Goto, RecordsHonest, TypeOK
<1>9. ASSUME NEW k \in Keys, MarkFails(k) PROVE RecordsHonest' /\ EpisodeHonest'
  BY <1>9, <1>a, <1>c DEF MarkFails, Goto, RecordsHonest, TypeOK
<1>10. ASSUME NEW c \in Causes, ApplyFails(c) PROVE RecordsHonest' /\ EpisodeHonest'
  BY <1>10, <1>b, <1>c DEF ApplyFails
<1>11. ASSUME ApplySucceeds PROVE RecordsHonest' /\ EpisodeHonest'
  BY <1>11, <1>b, ForgetHonest DEF ApplySucceeds
<1>12. ASSUME Settle PROVE RecordsHonest' /\ EpisodeHonest'
  BY <1>12, <1>b, <1>c DEF Settle
<1>13. ASSUME Judge PROVE RecordsHonest' /\ EpisodeHonest'
  <2>1. RecordsHonest'
    BY <1>13, <1>b DEF Judge
  <2>2. CASE Adopts
    <3>1. key \in Notices /\ key \in ever
      BY <2>2, <1>a, NoticeKinds DEF Adopts, TypeOK, RecordsHonest
    <3>2. (key.kind = "urgent") <=> key = FailKey(key.reg, TRUE)
      <4>1. key.kind = "urgent" => key \in FailKeys
        BY <3>1, NoticeKinds, FailKeysAreKeys
      <4>2. key = FailKey(key.reg, TRUE) => key.kind = "urgent"
        BY DEF FailKey
      <4>3. key.kind = "urgent" => key = FailKey(key.reg, TRUE)
        BY <4>1, FailKeyParts DEF FailKey
      <4> QED
        BY <4>2, <4>3
    <3>3. MarkTold(key.reg, key.kind = "urgent") /\ ever' = ever
      BY <1>13, <2>2 DEF Judge, Adopts
    <3> QED
      BY <2>1, <3>1, <3>2, <3>3, <1>a, MarkHonest
  <2>3. CASE ~Adopts
    BY <1>13, <2>1, <2>3, <1>c DEF Judge
  <2> QED
    BY <2>2, <2>3
<1>14. ASSUME Ask PROVE RecordsHonest' /\ EpisodeHonest'
  BY <1>14, <1>b, <1>c DEF Ask
<1>15. ASSUME Claim PROVE RecordsHonest' /\ EpisodeHonest'
  BY <1>15, <1>a, <1>c, FailKeysAreKeys DEF Claim, RecordsHonest, TypeOK
<1>16. ASSUME Close PROVE RecordsHonest' /\ EpisodeHonest'
  BY <1>16, <1>b, ForgetHonest DEF Close
<1>17. ASSUME NEW k \in Keys, Recheck(k) PROVE RecordsHonest' /\ EpisodeHonest'
  BY <1>17, <1>a, <1>c DEF Recheck, Goto, RecordsHonest, TypeOK
<1>18. ASSUME NEW k \in Keys, Deliver(k) PROVE RecordsHonest' /\ EpisodeHonest'
  <2>1. EpisodeHonest'
    BY <1>18, <1>a DEF Deliver, EpisodeHonest, About
  <2>2. RecordsHonest'
    BY <1>18, <1>a, FailKeysAreKeys DEF Deliver, Goto, RecordsHonest, TypeOK
  <2> QED
    BY <2>1, <2>2
<1>19. ASSUME NEW k \in Keys, Record(k) PROVE RecordsHonest' /\ EpisodeHonest'
  BY <1>19, <1>a, <1>c, FailKeysAreKeys DEF Record, Goto, RecordsHonest, TypeOK
<1>20. ASSUME NEW k \in Keys, Mark(k) PROVE RecordsHonest' /\ EpisodeHonest'
  <2>1. k \in FailKeys /\ k \in ever
    BY <1>20, <1>a, FailKeysAreKeys DEF Mark, RecordsHonest
  <2>2. (k.kind = "urgent") <=> k = FailKey(k.reg, TRUE)
    BY <2>1, FailKeyParts DEF FailKey
  <2>3. EpisodeHonest'
    BY <1>20, <1>a, <2>1, <2>2, FailKeysAreKeys, MarkHonest DEF Mark
  <2>4. RecordsHonest'
    BY <1>20, <1>a, FailKeysAreKeys DEF Mark, Goto, RecordsHonest, TypeOK
  <2> QED
    BY <2>3, <2>4
<1>21. ASSUME NEW k \in Keys, HoldElapses(k) PROVE RecordsHonest' /\ EpisodeHonest'
  BY <1>21, <1>b, <1>c DEF HoldElapses
<1>22. CASE UNCHANGED vars
  BY <1>22, <1>b, <1>c DEF vars
<1> QED
  BY <1>1, <1>2, <1>3, <1>4, <1>5, <1>6, <1>7, <1>8, <1>9, <1>10, <1>11,
     <1>12, <1>13, <1>14, <1>15, <1>16, <1>17, <1>18, <1>19, <1>20, <1>21,
     <1>22
     DEF Next, Event, Work, PassStep, Delivery

\* The durable episode never claims what was not delivered in full.
THEOREM Honest == Spec => []EpisodeHonest
<1>1. Init => HonestInv
  BY TypeInit, HonestInit DEF HonestInv
<1>2. HonestInv /\ [Next]_vars => HonestInv'
  BY TypeStep, HonestStep DEF HonestInv
<1>3. HonestInv => EpisodeHonest
  BY DEF HonestInv
<1> QED
  BY <1>1, <1>2, <1>3, PTL DEF Spec
------------------------------------------------------------------------------
(* What was delivered is on record.                                         *)

\* No failure notice is between its delivery and its mark.
Settled == \A k \in FailKeys : job[k] \notin {"sent", "marking"}

LEMMA OnRecordStep == TypeInv /\ HeardIsOnRecord /\ [Next]_vars => HeardIsOnRecord'
<1> SUFFICES ASSUME TypeInv, HeardIsOnRecord, [Next]_vars,
                    heard' # {}, ~slipped', Settled'
             PROVE  told' # NoPlate
  BY DEF HeardIsOnRecord, Settled
<1>a. TypeOK /\ PassKnows
  BY DEF TypeInv
<1>b. heard # {} /\ ~slipped /\ Settled => told # NoPlate
  BY DEF HeardIsOnRecord, Settled
\* A step that starts no delivery of a failure and ends none changes nothing.
<1>c. ASSUME UNCHANGED <<told, heard, slipped>>, Settled PROVE told' # NoPlate
  BY <1>b, <1>c
<1>d. FailKeys \subseteq Keys /\ \A k \in Keys : k.reg # NoPlate
  BY FailKeysAreKeys, KeyReg, EpisodeAssumption
<1> USE DEF permit, episode, pass, notices, told_of
<1>1. ASSUME NEW p \in Plates, ScheduleMoves(p) PROVE told' # NoPlate
  BY <1>1, <1>c DEF ScheduleMoves, Settled
<1>2. ASSUME NEW p \in Plates, GuestApplies(p) PROVE told' # NoPlate
  BY <1>2, <1>c DEF GuestApplies, Settled
<1>3. ASSUME NEW p \in Plates, DriftAdopts(p) PROVE told' # NoPlate
  BY <1>3, <1>c DEF DriftAdopts, Settled
<1>4. ASSUME Unreadable PROVE told' # NoPlate
  BY <1>4, <1>c DEF Unreadable, Settled
<1>5. ASSUME Restart PROVE told' # NoPlate
  BY <1>5, <1>b DEF Restart, Settled
<1>6. ASSUME NEW k \in Keys, RecheckFails(k) PROVE told' # NoPlate
  BY <1>6, <1>a, <1>c DEF RecheckFails, Goto, Settled, TypeOK
<1>7. ASSUME NEW k \in Keys, DeliverPart(k) PROVE told' # NoPlate
  BY <1>7, <1>a, <1>c DEF DeliverPart, Goto, Settled, TypeOK
<1>8. ASSUME NEW k \in Keys, RecordFails(k) PROVE told' # NoPlate
  BY <1>8, <1>a, <1>c, <1>d DEF RecordFails, Goto, Settled, TypeOK
<1>9. ASSUME NEW k \in Keys, MarkFails(k) PROVE told' # NoPlate
  BY <1>9 DEF MarkFails
<1>10. ASSUME NEW c \in Causes, ApplyFails(c) PROVE told' # NoPlate
  BY <1>10, <1>c DEF ApplyFails, Settled
<1>11. ASSUME ApplySucceeds PROVE told' # NoPlate
  BY <1>11 DEF ApplySucceeds, Forget
<1>12. ASSUME Settle PROVE told' # NoPlate
  BY <1>12, <1>c DEF Settle, Settled
<1>13. ASSUME Judge PROVE told' # NoPlate
  <2>1. CASE Adopts
    BY <1>13, <2>1, <1>a, <1>d DEF Judge, MarkTold, PassKnows
  <2>2. CASE ~Adopts
    BY <1>13, <2>2, <1>c DEF Judge, Settled
  <2> QED
    BY <2>1, <2>2
<1>14. ASSUME Ask PROVE told' # NoPlate
  BY <1>14, <1>c DEF Ask, Settled
<1>15. ASSUME Claim PROVE told' # NoPlate
  BY <1>15, <1>a, <1>c, <1>d DEF Claim, Settled, TypeOK
<1>16. ASSUME Close PROVE told' # NoPlate
  BY <1>16 DEF Close, Forget
<1>17. ASSUME NEW k \in Keys, Recheck(k) PROVE told' # NoPlate
  BY <1>17, <1>a, <1>c DEF Recheck, Goto, Settled, TypeOK
<1>18. ASSUME NEW k \in Keys, Deliver(k) PROVE told' # NoPlate
  <2>1. k \notin FailKeys
    BY <1>18, <1>a, <1>d DEF Deliver, Goto, Settled, TypeOK
  <2>2. UNCHANGED <<told, heard, slipped>>
    BY <1>18, <2>1, NoticeKinds DEF Deliver
  <2>3. Settled
    BY <1>18, <1>a, <1>d DEF Deliver, Goto, Settled, TypeOK
  <2> QED
    BY <2>2, <2>3, <1>c
<1>19. ASSUME NEW k \in Keys, Record(k) PROVE told' # NoPlate
  BY <1>19, <1>a, <1>c, <1>d DEF Record, Goto, Settled, TypeOK
<1>20. ASSUME NEW k \in Keys, Mark(k) PROVE told' # NoPlate
  BY <1>20, <1>d DEF Mark, MarkTold
<1>21. ASSUME NEW k \in Keys, HoldElapses(k) PROVE told' # NoPlate
  BY <1>21, <1>c DEF HoldElapses, Settled
<1>22. CASE UNCHANGED vars
  BY <1>22, <1>c DEF vars, Settled
<1> QED
  BY <1>1, <1>2, <1>3, <1>4, <1>5, <1>6, <1>7, <1>8, <1>9, <1>10, <1>11,
     <1>12, <1>13, <1>14, <1>15, <1>16, <1>17, <1>18, <1>19, <1>20, <1>21,
     <1>22
     DEF Next, Event, Work, PassStep, Delivery

\* A household that heard of a failure has an episode to close, unless the mark
\* itself failed or the process stopped before it.
THEOREM OnRecord == Spec => []HeardIsOnRecord
<1>1. Init => TypeInv /\ HeardIsOnRecord
  <2>1. Init => HeardIsOnRecord
    <3> SUFFICES ASSUME Init, ~slipped PROVE heard = {}
      BY DEF HeardIsOnRecord
    <3>1. key = NoKey
      BY Zenon DEF Init
    <3> QED
      BY <3>1 DEF Init
  <2> QED
    BY <2>1, TypeInit
<1>2. TypeInv /\ HeardIsOnRecord /\ [Next]_vars => (TypeInv /\ HeardIsOnRecord)'
  BY TypeStep, OnRecordStep
<1> QED
  BY <1>1, <1>2, PTL DEF Spec

------------------------------------------------------------------------------
(* A notice on record is not repeated.                                      *)

\* What is being sent was not on record when it was looked up, and only its own
\* delivery can put it there.
SendingNew == \A k \in Keys : job[k] = "sending" => key # k

LEMMA SendingStep == TypeInv /\ SendingNew /\ [Next]_vars => SendingNew'
<1> SUFFICES ASSUME TypeInv, SendingNew, [Next]_vars PROVE SendingNew'
  OBVIOUS
<1>a. job \in [Keys -> Steps]
  BY DEF TypeInv, TypeOK
<1>b. ASSUME UNCHANGED <<key, job>> PROVE SendingNew'
  BY <1>b DEF SendingNew
<1> USE DEF permit, episode, pass, notices, told_of
<1>1. CASE \E p \in Plates : ScheduleMoves(p) \/ GuestApplies(p)
  BY <1>1, <1>b DEF ScheduleMoves, GuestApplies
<1>2. CASE \E p \in Plates : DriftAdopts(p)
  BY <1>2, NoKeyAssumption DEF DriftAdopts, SendingNew
<1>3. CASE Unreadable \/ Restart
  BY <1>3, <1>b DEF Unreadable, Restart, SendingNew
<1>4. ASSUME NEW k \in Keys,
             RecheckFails(k) \/ DeliverPart(k) \/ RecordFails(k) \/ MarkFails(k)
      PROVE  SendingNew'
  BY <1>4, <1>a DEF RecheckFails, DeliverPart, RecordFails, MarkFails, Goto, SendingNew
<1>5. CASE (\E c \in Causes : ApplyFails(c)) \/ ApplySucceeds \/ Settle
  BY <1>5, <1>b DEF ApplyFails, ApplySucceeds, Settle
<1>6. CASE Judge \/ Ask \/ Close
  BY <1>6, <1>b DEF Judge, Ask, Close
<1>7. CASE Claim
  BY <1>7, <1>a DEF Claim, SendingNew
<1>8. ASSUME NEW k \in Keys, Delivery(k) PROVE SendingNew'
  BY <1>8, <1>a DEF Delivery, Recheck, Deliver, Record, Mark, HoldElapses, Goto,
     SendingNew
<1>9. CASE UNCHANGED vars
  BY <1>9, <1>b DEF vars
<1> QED
  BY <1>1, <1>2, <1>3, <1>4, <1>5, <1>6, <1>7, <1>8, <1>9
     DEF Next, Event, Work, PassStep

\* Whatever passes ask for it, a notice on record is not delivered again.
THEOREM NotRepeated == Spec => NoRepeat
<1>1. Init => TypeInv /\ SendingNew
  BY TypeInit DEF Init, SendingNew
<1>2. TypeInv /\ SendingNew /\ [Next]_vars => (TypeInv /\ SendingNew)'
  BY TypeStep, SendingStep
<1>3. SendingNew => [\A k \in Keys : job[k] = "sending" /\ job'[k] = "sent" => key # k]_vars
  BY DEF SendingNew
<1> QED
  BY <1>1, <1>2, <1>3, PTL DEF Spec, NoRepeat
=============================================================================
