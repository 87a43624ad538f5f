----------------------------- MODULE SessionsProofs -----------------------------
(***************************************************************************)
(* Theorems about the queue of notices (Outbox), the sign-in circuit       *)
(* (AuthCircuit) and the plate cache (PlateReadings), and about the five    *)
(* components of MC_Sessions together.                                      *)
(***************************************************************************)
EXTENDS MC_Sessions, SessionRecoveryProofs, FleetBreakerProofs

------------------------------------------------------------------------------
(* The queue of notices.  The worker knows rows by their ids, from the      *)
(* reading of a batch to the record of an outcome, while rows come and go:  *)
(* the proof is about what stays true of a row for as long as its id is in  *)
(* the worker's hands.                                                      *)

InBatch(i) == \E n \in batch : n.id = i
AtMessage == stage \in {"look", "smtp", "record"}
InWork(i) == AtMessage /\ message.id = i
Owes(i) == i \in DOMAIN parked
InHands(i) == InBatch(i) \/ InWork(i) \/ Owes(i)

\* The worker's own variables are those of its stage.
StageKnows ==
  /\ AtMessage => message \in Item
  /\ stage = "record" => update \in Update
  /\ stage \notin {"idle", "flush"} => DOMAIN parked = {}
  /\ stage \in {"idle", "flush"} => batch = {}
  /\ \A m, n \in batch : m.id = n.id => m = n
  /\ AtMessage => \A n \in batch : n.id # message.id

\* An id that is known anywhere has been given out, and is not given out again.
IdsGiven == \A i \in Ids : Live(i) \/ InHands(i) => i <= lastId

\* Nobody else closes a row that the worker has in hand.
StillOpen == \A i \in Ids : InHands(i) => rows[i].st \in {"pending", "none"}

\* An attempt is left for whatever waits.
TriesLeft ==
  /\ \A i \in Ids : Pending(i) => rows[i].tries < MaxAttempts
  /\ \A n \in batch : n.tries < MaxAttempts
  /\ AtMessage => message.tries < MaxAttempts
  /\ stage = "record" /\ update.st = "retry" => update.tries < MaxAttempts
  /\ \A i \in DOMAIN parked : parked[i].st = "retry" => parked[i].tries < MaxAttempts

\* What this process has sent is on record, or the worker is about to say so.
Booked(i) ==
  \/ stage = "record" /\ message.id = i /\ update.st = "sent"
  \/ Owes(i) /\ parked[i].st = "sent"

SentIsKnown ==
  /\ \A i \in Ids : handed[i] = "now" => ~Pending(i) \/ Booked(i)
  /\ \A i \in Ids : InBatch(i) \/ (stage \in {"look", "smtp"} /\ message.id = i)
       => handed[i] # "now"

\* An outcome that says sent is about a row that was.
OutcomeIsTrue == \A i \in Ids : Booked(i) => handed[i] # "never" \/ i \in silent

OutboxInv ==
  /\ OutboxTypeOK /\ StageKnows /\ IdsGiven /\ StillOpen /\ TriesLeft
  /\ SentIsKnown /\ OutcomeIsTrue /\ OutboxHonest

\* An address is on the list for one reason.
LEMMA StrongerTyped ==
  ASSUME SuppTypeOK, NEW a \in Addresses, NEW r \in Reasons
  PROVE  Suppressed(a, r) \in [Addresses -> Reasons \cup {"free"}]
  BY DEF Suppressed, Stronger, SuppTypeOK

\* A later report leaves a complaint in place, and makes one of one.
LEMMA StrongerStands ==
  ASSUME SuppTypeOK, NEW a \in Addresses, NEW r \in Reasons
  PROVE  /\ \A b \in Addresses : listed[b] = "complaint" => Suppressed(a, r)[b] = "complaint"
         /\ r = "complaint" => Suppressed(a, r)[a] = "complaint"
  BY DEF Suppressed, Stronger, SuppTypeOK, Reasons, Rank

LEMMA ListStep ==
  ASSUME SuppTypeOK, ComplaintStands, NEW a \in Addresses,
         \/ ListChanges(a)
         \/ listed' = Suppressed(a, "bounce") /\ UNCHANGED complained
         \/ UNCHANGED suppVars
  PROVE  SuppTypeOK' /\ ComplaintStands'
<1> DEFINE Goal == SuppTypeOK' /\ ComplaintStands'
<1>r. {"unsubscribed", "bounce", "complaint"} \subseteq Reasons
  BY DEF Reasons
<1>1. ASSUME NEW r \in Reasons, listed' = Suppressed(a, r),
             complained' = IF r = "complaint" THEN complained \cup {a} ELSE complained
      PROVE  Goal
  BY <1>1, StrongerTyped, StrongerStands DEF SuppTypeOK, ComplaintStands
<1>2. CASE Unsubscribe(a) \/ ReportBounce(a) \/ ReportComplaint(a)
           \/ (listed' = Suppressed(a, "bounce") /\ UNCHANGED complained)
  BY <1>1, <1>2, <1>r DEF Unsubscribe, ReportBounce, ReportComplaint
<1>3. CASE Resubscribe(a) \/ PruneSuppression(a)
  BY <1>3 DEF Resubscribe, PruneSuppression, SuppTypeOK, ComplaintStands
<1>4. CASE ForgetAddress(a)
  BY <1>4 DEF ForgetAddress, SuppTypeOK, ComplaintStands
<1>5. CASE UNCHANGED suppVars
  BY <1>5 DEF suppVars, SuppTypeOK, ComplaintStands
<1> QED BY <1>2, <1>3, <1>4, <1>5 DEF ListChanges

\* What an outcome makes of a row.
LEMMA AfterTyped ==
  ASSUME OutboxTypeOK, NEW i \in Ids, NEW u \in Update
  PROVE  /\ After(i, u) \in Row \cup {Absent}
         /\ rows[i].st = "none" => After(i, u).st = "none"
         /\ After(i, u).st \in {rows[i].st, "sent", "dead"}
         /\ After(i, u).st = "sent" => rows[i].st = "sent" \/ u.st = "sent"
         /\ u.st = "sent" => After(i, u).st \in {"sent", "none"}
         /\ After(i, u).st = "pending" => u.st = "retry" /\ After(i, u).tries = u.tries
         /\ After(i, u).st # "none" =>
              After(i, u).to = rows[i].to /\ After(i, u).about = rows[i].about
<1>1. rows[i] \in Row \cup {Absent}
  BY DEF OutboxTypeOK
<1>2. CASE rows[i].st = "none"
  BY <1>1, <1>2 DEF After, Live
<1>3. CASE rows[i].st # "none"
  <2>1. rows[i] \in Row
    BY <1>1, <1>3 DEF Absent
  <2>2. CASE u.st = "sent"
    BY <1>3, <2>1, <2>2 DEF After, Live, Row
  <2>3. CASE u.st = "dead"
    BY <1>3, <2>1, <2>3 DEF After, Live, Row, Update
  <2>4. CASE u.st = "retry"
    BY <1>3, <2>1, <2>4 DEF After, Live, Row, Update
  <2> QED BY <2>2, <2>3, <2>4 DEF Update
<1> QED BY <1>2, <1>3

LEMMA OutboxStarts == OutboxInit => OutboxInv
<1> SUFFICES ASSUME OutboxInit PROVE OutboxInv
  OBVIOUS
<1>1. \A i \in Ids : ~InHands(i) /\ ~Live(i) /\ handed[i] = "never"
  BY DEF OutboxInit, InHands, InBatch, InWork, AtMessage, Owes, Live, Absent
<1>2. OutboxTypeOK
  BY OutboxAssumption DEF OutboxInit, OutboxTypeOK, SuppInit, SuppTypeOK, Range, Absent
<1>3. StageKnows
  BY DEF OutboxInit, StageKnows, AtMessage
<1>4. IdsGiven /\ StillOpen
  BY <1>1 DEF IdsGiven, StillOpen
<1>5. TriesLeft /\ SentIsKnown /\ OutcomeIsTrue
  BY DEF OutboxInit, TriesLeft, SentIsKnown, OutcomeIsTrue, AtMessage, Pending, Absent, Booked, Owes
<1>6. OutboxHonest
  BY <1>1 DEF OutboxInit, OutboxHonest, SentOnce, SentIsTrue, NoTwins, ComplaintStands, SuppInit,
              Absent
<1> QED BY <1>2, <1>3, <1>4, <1>5, <1>6 DEF OutboxInv

\* The types, action by action.
LEMMA OutboxTypeStep == OutboxInv /\ [OutboxNext]_outboxVars => OutboxTypeOK'
<1> SUFFICES ASSUME OutboxInv, [OutboxNext]_outboxVars PROVE OutboxTypeOK'
  OBVIOUS
<1> DEFINE T == OutboxTypeOK'
<1> USE DEF OutboxTypeOK, suppVars
<1>i. OutboxTypeOK /\ StageKnows /\ TriesLeft /\ SuppTypeOK /\ ComplaintStands
  BY DEF OutboxInv, OutboxHonest
<1>1. ASSUME NEW a \in Addresses, ListChanges(a), UNCHANGED <<rows, lastId, writable, worker, ledger>>
      PROVE  T
  BY <1>1, <1>i, ListStep DEF worker, ledger
<1>2. ASSUME NEW a \in Addresses, NEW b \in Abouts, NEW c \in BOOLEAN, NEW h \in BOOLEAN,
             EnqueueOutbox(a, b, c, h)
      PROVE  T
  BY <1>2, <1>i, OutboxAssumption DEF EnqueueOutbox, worker, NextId, Ids, Row, SuppTypeOK
<1>3. ASSUME NEW a \in Addresses, DropPending(a) PROVE T
  BY <1>3, <1>i DEF DropPending, worker, ledger, SuppTypeOK
<1>4. CASE DeleteAccountRows \/ DiskFills \/ DiskClears \/ Purge
  BY <1>4, <1>i DEF DeleteAccountRows, DiskFills, DiskClears, Purge, worker, ledger, SuppTypeOK
<1>5. CASE OutboxRestart \/ ReadFails \/ StartDrain \/ FlushRefused \/ Drained
  BY <1>5, <1>i DEF OutboxRestart, ReadFails, StartDrain, FlushRefused, Drained, Rest, ledger, SuppTypeOK, Range
<1>6. ASSUME NEW b \in BOOLEAN, LookOpen(b) PROVE T
  BY <1>6, <1>i DEF LookOpen, ledger, SuppTypeOK
<1>7. CASE ReadDue
  <2>1. \A i \in FirstDue : i \in Ids /\ rows[i] \in Row
    BY <1>i DEF FirstDue, DueIds, Pending, Absent
  <2>2. batch' \subseteq Item
    <3>1. \A i \in FirstDue : [id |-> i, to |-> rows[i].to, critical |-> rows[i].critical,
                               tries |-> rows[i].tries] \in Item
      BY <2>1 DEF Row, Item
    <3> QED BY <1>7, <3>1 DEF ReadDue, FlushSkipped
  <2> QED BY <1>7, <1>i, <2>2 DEF ReadDue, FlushSkipped, ledger, SuppTypeOK
<1>8. CASE Pick
  BY <1>8, <1>i DEF Pick, ledger, SuppTypeOK
<1>9. CASE LookMuted
  BY <1>9, <1>i, OutboxAssumption DEF LookMuted, StageKnows, AtMessage, Item, Update, SuppTypeOK
<1>10. CASE Accepted
  BY <1>10, <1>i, OutboxAssumption DEF Accepted, StageKnows, AtMessage, Item, Update, SuppTypeOK
<1>11. CASE Record
  BY <1>11, <1>i, AfterTyped DEF Record, StageKnows, AtMessage, Item, ledger, SuppTypeOK
<1>12. CASE Park
  BY <1>12, <1>i DEF Park, Rest, StageKnows, AtMessage, Item, ledger, SuppTypeOK, Range
<1>13. ASSUME NEW i \in Ids, FlushOne(i) PROVE T
  <2>1. parked[i] \in Update
    BY <1>13, <1>i DEF FlushOne, Range
  <2>2. DOMAIN parked' \subseteq Ids /\ Range(parked') \subseteq Update
    BY <1>13, <1>i DEF FlushOne, Range, Restrict
  <2> QED BY <1>13, <1>i, <2>1, <2>2, AfterTyped DEF FlushOne, ledger, SuppTypeOK
<1>14. CASE TempFails
  BY <1>14, <1>i, OutboxAssumption DEF TempFails, Failed, TriesLeft, StageKnows, AtMessage, Item, Update, ledger, SuppTypeOK
<1>15. ASSUME NEW b \in BOOLEAN, Refused(b) PROVE T
  BY <1>15, <1>i, ListStep, OutboxAssumption DEF Refused, TriesLeft, StageKnows, AtMessage, Item, Update, ledger
<1>16. ASSUME NEW i \in Ids, BecomesDue(i) \/ SentAges(i) PROVE T
  <2>1. rows[i] \in Row
    BY <1>16, <1>i DEF BecomesDue, SentAges, Pending, Absent
  <2>2. [rows[i] EXCEPT !.due = TRUE] \in Row /\ [rows[i] EXCEPT !.recent = FALSE] \in Row
    BY <2>1 DEF Row
  <2>3. rows' \in [Ids -> Row \cup {Absent}]
    BY <1>16, <1>i, <2>2 DEF BecomesDue, SentAges
  <2> QED BY <1>16, <1>i, <2>3 DEF BecomesDue, SentAges, worker, ledger, SuppTypeOK
<1>17. CASE UNCHANGED outboxVars
  BY <1>17, <1>i DEF outboxVars, SuppTypeOK, Range
<1> QED
  BY <1>1, <1>2, <1>3, <1>4, <1>5, <1>6, <1>7, <1>8, <1>9, <1>10, <1>11, <1>12, <1>13,
     <1>14, <1>15, <1>16, <1>17
  DEF OutboxNext, OutboxEvent, OutboxWork, Drains, Sends

\* A batch is made of rows that wait, each as it is.
LEMMA BatchRead ==
  ASSUME OutboxTypeOK, FlushSkipped
  PROVE  \A n \in batch' : /\ n \in Item /\ n.id \in Ids /\ Pending(n.id)
                           /\ n.tries = rows[n.id].tries
                           /\ \A m \in batch' : m.id = n.id => m = n
<1>1. \A i \in FirstDue : i \in Ids /\ Pending(i) /\ rows[i] \in Row
  BY DEF FirstDue, DueIds, Pending, OutboxTypeOK, Absent
<1>2. \A n \in batch' : \E i \in FirstDue :
        n = [id |-> i, to |-> rows[i].to, critical |-> rows[i].critical, tries |-> rows[i].tries]
  BY DEF FlushSkipped
<1> QED BY <1>1, <1>2 DEF Row, Item

\* The steps that leave the worker alone, and what they do to the rows.
LEMMA OthersSteps ==
  ASSUME OutboxInv, OutboxEvent \/ OutboxWork \/ UNCHANGED outboxVars
  PROVE  \/ UNCHANGED worker
         \/ OutboxRestart \/ ReadFails \/ StartDrain \/ FlushRefused \/ Drained
         \/ \E b \in BOOLEAN : LookOpen(b) \/ Refused(b)
         \/ ReadDue \/ Pick \/ LookMuted \/ Accepted \/ TempFails \/ Record \/ Park
         \/ \E i \in Ids : FlushOne(i)
  BY DEF OutboxEvent, OutboxWork, Drains, Sends, EnqueueOutbox, DropPending, DeleteAccountRows,
         DiskFills, DiskClears, Purge, BecomesDue, SentAges, outboxVars, worker

\* The worker's variables stay those of its stage.
LEMMA StageStep == OutboxInv /\ [OutboxNext]_outboxVars => StageKnows'
<1> SUFFICES ASSUME OutboxInv, [OutboxNext]_outboxVars PROVE StageKnows'
  OBVIOUS
<1> DEFINE T == StageKnows'
<1> USE DEF StageKnows, AtMessage
<1>i. OutboxTypeOK /\ StageKnows /\ TriesLeft
  BY DEF OutboxInv
<1>1. CASE UNCHANGED worker
  BY <1>1, <1>i DEF worker
<1>2. CASE OutboxRestart \/ ReadFails \/ StartDrain \/ FlushRefused \/ Drained
  BY <1>2, <1>i DEF OutboxRestart, ReadFails, StartDrain, FlushRefused, Drained, Rest
<1>3. ASSUME NEW b \in BOOLEAN, LookOpen(b) PROVE T
  BY <1>3, <1>i DEF LookOpen
<1>4. CASE ReadDue
  <2>1. stage' = "pick" /\ parked' = parked /\ parked = <<>>
    BY <1>4 DEF ReadDue, FlushSkipped
  <2> QED BY <1>4, <1>i, <2>1, BatchRead DEF ReadDue
<1>5. CASE Pick
  BY <1>5, <1>i DEF Pick, OutboxTypeOK, Item
<1>6. CASE LookMuted \/ Accepted
  <2>1. [st |-> "sent", tries |-> 0] \in Update
    BY OutboxAssumption DEF Update
  <2> QED BY <1>6, <1>i, <2>1 DEF LookMuted, Accepted
<1>7. ASSUME NEW b \in BOOLEAN, TempFails \/ Refused(b) PROVE T
  <2>1. message \in Item /\ message.tries \in Nat /\ message.tries < MaxAttempts
    BY <1>7, <1>i DEF TempFails, Refused, Item, TriesLeft
  <2>2. Failed \in Update /\ [st |-> "dead", tries |-> message.tries + 1] \in Update
    BY <2>1, OutboxAssumption DEF Failed, Update
  <2> QED BY <1>7, <1>i, <2>2 DEF TempFails, Refused
<1>8. CASE Record
  BY <1>8, <1>i DEF Record
<1>9. CASE Park
  BY <1>9, <1>i DEF Park, Rest
<1>10. ASSUME NEW i \in Ids, FlushOne(i) PROVE T
  BY <1>10, <1>i DEF FlushOne, Restrict
<1> QED
  BY <1>1, <1>2, <1>3, <1>4, <1>5, <1>6, <1>7, <1>8, <1>9, <1>10, OthersSteps DEF OutboxNext

\* What the worker comes to have in hand, it had, or it waits.
LEMMA HandsStep ==
  ASSUME OutboxInv, [OutboxNext]_outboxVars, NEW i \in Ids, InHands(i)'
  PROVE  InHands(i) \/ (ReadDue /\ Pending(i))
<1> USE DEF InHands, InBatch, InWork, Owes, AtMessage
<1>i. OutboxTypeOK /\ StageKnows
  BY DEF OutboxInv
<1>1. CASE UNCHANGED worker
  BY <1>1 DEF worker
<1>2. CASE OutboxRestart \/ ReadFails \/ StartDrain \/ FlushRefused \/ Drained
  BY <1>2, <1>i DEF OutboxRestart, ReadFails, StartDrain, FlushRefused, Drained, Rest
<1>3. CASE \E b \in BOOLEAN : LookOpen(b) \/ Refused(b)
  BY <1>3 DEF LookOpen, Refused
<1>4. CASE ReadDue
  BY <1>4, <1>i, BatchRead DEF ReadDue, FlushSkipped
<1>5. CASE Pick
  BY <1>5 DEF Pick
<1>6. CASE LookMuted \/ Accepted \/ TempFails
  BY <1>6 DEF LookMuted, Accepted, TempFails
<1>7. CASE Record \/ Park
  BY <1>7 DEF Record, Park, Rest
<1>8. CASE \E j \in Ids : FlushOne(j)
  BY <1>8 DEF FlushOne, Restrict
<1> QED
  BY <1>1, <1>2, <1>3, <1>4, <1>5, <1>6, <1>7, <1>8, OthersSteps DEF OutboxNext

\* What the steps make of one row.
Written(i) ==
  /\ i = lastId + 1 /\ lastId' = i /\ \A j \in Ids : j # i => rows'[j] = rows[j]
  /\ rows'[i].st = "pending" /\ rows'[i].tries = 0 /\ UNCHANGED worker
  /\ handed'[i] = "never" /\ ~Duplicate(rows'[i].to, rows'[i].about)
Ages(i) == /\ rows[i].st = "sent" /\ rows[i].recent
           /\ rows'[i] = [rows[i] EXCEPT !.recent = FALSE] /\ UNCHANGED <<worker, ledger>>
Ripens(i) == Pending(i) /\ rows'[i] = [rows[i] EXCEPT !.due = TRUE] /\ UNCHANGED <<worker, ledger>>
Settles(i) == \/ Record /\ i = message.id /\ rows'[i] = After(i, update)
              \/ FlushOne(i) /\ rows'[i] = After(i, parked[i])
Goes(i) ==
  rows'[i] \in {rows[i], Absent} \/ Written(i) \/ Ages(i) \/ Ripens(i) \/ Settles(i)

\* One row of the queue, changed.
LEMMA QueueRowStep ==
  ASSUME OutboxInv, [OutboxNext]_outboxVars, NEW i \in Ids
  PROVE  Goes(i)
<1>i. rows \in [Ids -> Row \cup {Absent}] /\ lastId \in 0..MaxRows
      /\ handed \in [Ids -> {"never", "now", "before", "twice"}]
  BY DEF OutboxInv, OutboxTypeOK
<1>1. CASE UNCHANGED rows
  BY <1>1 DEF Goes
<1>2. ASSUME NEW a \in Addresses, NEW b \in Abouts, NEW c \in BOOLEAN, NEW h \in BOOLEAN,
             EnqueueOutbox(a, b, c, h)
      PROVE  Goes(i)
  <2>1. NextId = lastId + 1 /\ NextId \in Ids
    BY <1>2, <1>i, OutboxAssumption DEF EnqueueOutbox, NextId, Ids
  <2>2. lastId' = NextId
    BY <1>2, <2>1, <1>i DEF EnqueueOutbox
  <2>3. CASE i = NextId
    BY <1>2, <1>i, <2>1, <2>2, <2>3 DEF Goes, EnqueueOutbox, Written
  <2>4. CASE i # NextId
    BY <1>2, <1>i, <2>4 DEF Goes, EnqueueOutbox
  <2> QED BY <2>3, <2>4
<1>3. ASSUME NEW a \in Addresses, DropPending(a) PROVE Goes(i)
  BY <1>3 DEF Goes, DropPending
<1>4. CASE DeleteAccountRows \/ Purge
  BY <1>4 DEF Goes, DeleteAccountRows, Purge
<1>5. CASE Record
  BY <1>5, <1>i DEF Goes, Record, Settles
<1>6. ASSUME NEW j \in Ids, FlushOne(j) PROVE Goes(i)
  BY <1>6, <1>i DEF Goes, FlushOne, Settles
<1>7. ASSUME NEW j \in Ids, BecomesDue(j) PROVE Goes(i)
  BY <1>7, <1>i DEF Goes, BecomesDue, Ripens
<1>8. ASSUME NEW j \in Ids, SentAges(j) PROVE Goes(i)
  BY <1>8, <1>i DEF Goes, SentAges, Ages
<1>9. \/ UNCHANGED rows \/ DeleteAccountRows \/ Purge \/ Record
      \/ \E a \in Addresses, b \in Abouts, c \in BOOLEAN, h \in BOOLEAN : EnqueueOutbox(a, b, c, h)
      \/ \E a \in Addresses : DropPending(a)
      \/ \E j \in Ids : FlushOne(j) \/ BecomesDue(j) \/ SentAges(j)
  BY DEF OutboxNext, OutboxEvent, OutboxWork, Drains, Sends, outboxVars, DiskFills, DiskClears,
         OutboxRestart, ReadFails, LookOpen, StartDrain, FlushRefused, ReadDue, FlushSkipped, Pick,
         Drained, LookMuted, Accepted, Park, TempFails, Refused
<1> QED
  BY <1>1, <1>2, <1>3, <1>4, <1>5, <1>6, <1>7, <1>8, <1>9

\* An id that is known has been given out.
LEMMA IdsStep == OutboxInv /\ [OutboxNext]_outboxVars => IdsGiven'
<1> SUFFICES ASSUME OutboxInv, [OutboxNext]_outboxVars PROVE IdsGiven'
  OBVIOUS
<1>i. OutboxTypeOK /\ IdsGiven /\ StageKnows
  BY DEF OutboxInv
<1>1. lastId \in Nat /\ lastId' \in Nat /\ lastId <= lastId' /\ Ids \subseteq Nat
  <2>1. lastId \in Nat /\ Ids \subseteq Nat /\ MaxRows \in Nat
    BY <1>i, OutboxAssumption DEF OutboxTypeOK, Ids
  <2>2. CASE UNCHANGED lastId
    BY <2>1, <2>2
  <2>3. ASSUME NEW a \in Addresses, NEW b \in Abouts, NEW c \in BOOLEAN, NEW h \in BOOLEAN,
               EnqueueOutbox(a, b, c, h)
        PROVE  lastId' = lastId + 1
    BY <2>1, <2>3 DEF EnqueueOutbox, NextId
  <2>4. UNCHANGED lastId \/ \E a \in Addresses, b \in Abouts, c, h \in BOOLEAN : EnqueueOutbox(a, b, c, h)
    BY DEF OutboxNext, OutboxEvent, OutboxWork, Drains, Sends, outboxVars, DropPending,
       DeleteAccountRows, Purge, BecomesDue, SentAges, Record, FlushOne, DiskFills, DiskClears,
       OutboxRestart, ReadFails, LookOpen, StartDrain, FlushRefused, ReadDue, FlushSkipped, Pick,
       Drained, LookMuted, Accepted, Park, TempFails, Refused
  <2> QED BY <2>1, <2>2, <2>3, <2>4
<1>2. ASSUME NEW i \in Ids, Live(i)' \/ InHands(i)' PROVE Live(i) \/ InHands(i) \/ i <= lastId'
  <2>1. CASE InHands(i)'
    BY <2>1, HandsStep DEF Live, Pending
  <2>2. CASE Live(i)'
    <3>1. rows'[i] # Absent
      BY <2>2 DEF Live, Absent
    <3>2. CASE Settles(i)
      BY <1>i, <3>2 DEF Settles, Record, FlushOne, InHands, InWork, Owes, AtMessage
    <3>3. CASE Ages(i) \/ Ripens(i) \/ rows'[i] = rows[i]
      BY <2>2, <3>3 DEF Ages, Ripens, Live, Pending
    <3>4. CASE Written(i)
      BY <1>1, <3>4 DEF Written
    <3> QED BY <3>1, <3>2, <3>3, <3>4, QueueRowStep DEF Goes
  <2> QED BY <1>2, <2>1, <2>2
<1> QED BY <1>i, <1>1, <1>2 DEF IdsGiven

\* The ids in hand are those of rows that wait, or are gone.
LEMMA OpenStep == OutboxInv /\ [OutboxNext]_outboxVars => StillOpen'
<1> SUFFICES ASSUME OutboxInv, [OutboxNext]_outboxVars, NEW i \in Ids, InHands(i)'
             PROVE  rows'[i].st \in {"pending", "none"}
  BY DEF StillOpen
<1>i. OutboxTypeOK /\ StillOpen /\ StageKnows
  BY DEF OutboxInv
<1>1. InHands(i) \/ (ReadDue /\ Pending(i))
  BY HandsStep
<1>2. rows[i].st \in {"pending", "none"}
  BY <1>1, <1>i DEF StillOpen, Pending
<1>3. CASE rows'[i] \in {rows[i], Absent} \/ Written(i)
  BY <1>2, <1>3 DEF Written, Absent
<1>4. CASE Ripens(i)
  <2>1. rows[i] \in Row
    BY <1>4, <1>i DEF Ripens, Pending, OutboxTypeOK, Absent
  <2> QED BY <1>2, <1>4, <2>1 DEF Ripens, Row
<1>5. ~Ages(i)
  BY <1>2 DEF Ages
<1>6. ~Settles(i)
  <2>1. CASE Record /\ i = message.id
    BY <1>i, <2>1 DEF Record, StageKnows, AtMessage, InHands, InBatch, InWork, Owes
  <2>2. CASE FlushOne(i)
    <3>1. stage = "flush" /\ UNCHANGED <<stage, batch, message>> /\ batch = {} /\ ~Owes(i)'
      BY <1>i, <2>2 DEF FlushOne, StageKnows, Owes, Restrict
    <3> QED BY <3>1 DEF InHands, InBatch, InWork, AtMessage
  <2> QED BY <2>1, <2>2 DEF Settles
<1> QED BY <1>3, <1>4, <1>5, <1>6, QueueRowStep DEF Goes

\* An attempt is left for what waits, or is owed another.
LEMMA TriesStep == OutboxInv /\ [OutboxNext]_outboxVars => TriesLeft'
<1> SUFFICES ASSUME OutboxInv, [OutboxNext]_outboxVars PROVE TriesLeft'
  OBVIOUS
<1>i. OutboxTypeOK /\ TriesLeft /\ StageKnows
  BY DEF OutboxInv
<1>t. \A i \in Ids : rows[i] = Absent \/ rows[i] \in Row
  BY <1>i DEF OutboxTypeOK
<1>1. ASSUME NEW i \in Ids, Pending(i)' PROVE rows'[i].tries < MaxAttempts
  <2>1. CASE rows'[i] \in {rows[i], Absent} \/ Ages(i)
    <3>1. rows'[i] = rows[i]
      BY <1>1, <1>t, <2>1 DEF Pending, Absent, Ages, Row
    <3> QED BY <1>1, <1>i, <3>1 DEF Pending, TriesLeft
  <2>2. CASE Written(i)
    BY <2>2, OutboxAssumption DEF Written
  <2>3. CASE Ripens(i)
    <3>1. rows[i] \in Row
      BY <1>t, <2>3 DEF Ripens, Pending, Absent
    <3>2. rows'[i].tries = rows[i].tries
      BY <2>3, <3>1 DEF Ripens, Row
    <3> QED BY <1>i, <2>3, <3>2 DEF Ripens, TriesLeft
  <2>4. CASE Record /\ i = message.id /\ rows'[i] = After(i, update)
    <3>1. update \in Update
      BY <1>i, <2>4 DEF Record, StageKnows
    <3>2. update.st = "retry" /\ rows'[i].tries = update.tries
      BY <1>1, <1>i, <2>4, <3>1, AfterTyped DEF Pending
    <3> QED BY <1>i, <2>4, <3>2 DEF Record, TriesLeft
  <2>5. CASE FlushOne(i) /\ rows'[i] = After(i, parked[i])
    <3>1. i \in DOMAIN parked /\ parked[i] \in Update
      BY <1>i, <2>5 DEF FlushOne, OutboxTypeOK, Range
    <3>2. parked[i].st = "retry" /\ rows'[i].tries = parked[i].tries
      BY <1>1, <1>i, <2>5, <3>1, AfterTyped DEF Pending
    <3> QED BY <1>i, <3>1, <3>2 DEF TriesLeft
  <2> QED BY <2>1, <2>2, <2>3, <2>4, <2>5, QueueRowStep DEF Goes, Settles
<1>2. /\ \A n \in batch' : n.tries < MaxAttempts
      /\ AtMessage' => message'.tries < MaxAttempts
  <2>1. CASE UNCHANGED worker
    BY <1>i, <2>1 DEF worker, TriesLeft, AtMessage
  <2>2. CASE OutboxRestart \/ ReadFails \/ StartDrain \/ FlushRefused \/ Drained
    BY <1>i, <2>2 DEF OutboxRestart, ReadFails, StartDrain, FlushRefused, Drained, Rest, TriesLeft, AtMessage
  <2>3. CASE \E b \in BOOLEAN : LookOpen(b) \/ Refused(b)
    BY <1>i, <2>3 DEF LookOpen, Refused, TriesLeft, AtMessage
  <2>4. CASE ReadDue
    <3>1. \A n \in batch' : n.tries < MaxAttempts
      BY <1>i, <2>4, BatchRead DEF ReadDue, TriesLeft
    <3> QED BY <2>4, <3>1 DEF ReadDue, FlushSkipped, AtMessage
  <2>5. CASE Pick \/ LookMuted \/ Accepted \/ TempFails
    BY <1>i, <2>5 DEF Pick, LookMuted, Accepted, TempFails, TriesLeft, AtMessage
  <2>6. CASE Record \/ Park \/ \E i \in Ids : FlushOne(i)
    BY <1>i, <2>6 DEF Record, Park, FlushOne, Rest, TriesLeft, AtMessage
  <2> QED BY <2>1, <2>2, <2>3, <2>4, <2>5, <2>6, OthersSteps DEF OutboxNext
<1>3. /\ stage' = "record" /\ update'.st = "retry" => update'.tries < MaxAttempts
      /\ \A i \in DOMAIN parked' : parked'[i].st = "retry" => parked'[i].tries < MaxAttempts
  <2>1. CASE UNCHANGED worker
    BY <1>i, <2>1 DEF worker, TriesLeft
  <2>2. CASE OutboxRestart
    BY <2>2 DEF OutboxRestart, Rest
  <2>3. CASE ReadFails \/ StartDrain \/ FlushRefused \/ Drained \/ Pick
    BY <1>i, <2>3 DEF ReadFails, StartDrain, FlushRefused, Drained, Pick, Rest, TriesLeft
  <2>4. CASE \E b \in BOOLEAN : LookOpen(b) \/ Refused(b)
    BY <1>i, <2>4 DEF LookOpen, Refused, TriesLeft
  <2>5. CASE ReadDue
    BY <1>i, <2>5 DEF ReadDue, FlushSkipped, TriesLeft
  <2>6. CASE LookMuted \/ Accepted
    BY <1>i, <2>6 DEF LookMuted, Accepted, TriesLeft
  <2>7. CASE TempFails
    <3>1. Failed.st = "retry" => Failed.tries < MaxAttempts
      <4>1. message.tries \in Nat
        BY <1>i, <2>7 DEF TempFails, StageKnows, AtMessage, Item
      <4> QED BY <4>1, OutboxAssumption DEF Failed
    <3> QED BY <1>i, <2>7, <3>1 DEF TempFails, TriesLeft
  <2>8. CASE Record
    BY <1>i, <2>8 DEF Record, TriesLeft
  <2>9. CASE Park
    BY <1>i, <2>9 DEF Park, Rest, TriesLeft
  <2>10. CASE \E i \in Ids : FlushOne(i)
    BY <1>i, <2>10 DEF FlushOne, Restrict, TriesLeft
  <2> QED BY <2>1, <2>2, <2>3, <2>4, <2>5, <2>6, <2>7, <2>8, <2>9, <2>10, OthersSteps DEF OutboxNext
<1> QED BY <1>1, <1>2, <1>3 DEF TriesLeft

\* What has been sent or passed over stays so, until its id would be given out.
LEMMA LedgerStep ==
  ASSUME OutboxInv, [OutboxNext]_outboxVars, NEW i \in Ids
  PROVE  \/ Written(i)
         \/ OutboxRestart /\ handed'[i] = (IF handed[i] = "now" THEN "before" ELSE handed[i])
            /\ silent' = silent
         \/ Accepted /\ message.id = i /\ handed'[i] # "never" /\ silent' = silent
            /\ (handed'[i] = "twice" => handed[i] \in {"now", "twice"})
         \/ handed'[i] = handed[i] /\ (i \in silent => i \in silent')
<1> DEFINE Kept == handed'[i] = handed[i] /\ (i \in silent => i \in silent')
<1>i. OutboxTypeOK /\ StageKnows
  BY DEF OutboxInv
<1>1. CASE UNCHANGED ledger \/ LookMuted
  BY <1>1 DEF ledger, LookMuted
<1>2. ASSUME NEW a \in Addresses, NEW b \in Abouts, NEW c \in BOOLEAN, NEW h \in BOOLEAN,
             EnqueueOutbox(a, b, c, h)
      PROVE  Written(i) \/ Kept
  <2>1. NextId = lastId + 1 /\ NextId \in Ids /\ lastId \in Nat
    BY <1>2, <1>i, OutboxAssumption DEF EnqueueOutbox, NextId, Ids, OutboxTypeOK
  <2>2. lastId' = NextId
    BY <1>2, <2>1 DEF EnqueueOutbox
  <2>3. CASE i = NextId
    BY <1>2, <1>i, <2>1, <2>2, <2>3 DEF EnqueueOutbox, Written, OutboxTypeOK
  <2>4. CASE i # NextId
    BY <1>2, <1>i, <2>4 DEF EnqueueOutbox, OutboxTypeOK
  <2> QED BY <2>3, <2>4
<1>3. CASE OutboxRestart
  BY <1>3 DEF OutboxRestart
<1>4. CASE Accepted
  BY <1>4, <1>i DEF Accepted, OutboxTypeOK
<1>5. \/ UNCHANGED ledger \/ LookMuted \/ OutboxRestart \/ Accepted
      \/ \E a \in Addresses, b \in Abouts, c, h \in BOOLEAN : EnqueueOutbox(a, b, c, h)
  BY DEF OutboxNext, OutboxEvent, OutboxWork, Drains, Sends, outboxVars, ledger, DropPending,
     DeleteAccountRows, Purge, BecomesDue, SentAges, Record, FlushOne, DiskFills, DiskClears,
     ReadFails, LookOpen, StartDrain, FlushRefused, ReadDue, FlushSkipped, Pick,
     Drained, Park, TempFails, Refused
<1> QED BY <1>1, <1>2, <1>3, <1>4, <1>5

\* An outcome that says sent comes of a mail taken or passed over, and is kept until
\* it is on record or the process stops.
LEMMA BookedStep ==
  ASSUME OutboxInv, [OutboxNext]_outboxVars, NEW i \in Ids
  PROVE  /\ Booked(i)' => Booked(i) \/ ((LookMuted \/ Accepted) /\ message.id = i)
         /\ Booked(i) => \/ Booked(i)' \/ OutboxRestart
                         \/ Record /\ message.id = i /\ update.st = "sent"
                         \/ FlushOne(i) /\ parked[i].st = "sent"
<1> USE DEF Booked, Owes
<1>i. OutboxTypeOK /\ StageKnows
  BY DEF OutboxInv
<1>1. CASE UNCHANGED worker
  BY <1>1 DEF worker
<1>2. CASE OutboxRestart
  BY <1>2 DEF OutboxRestart, Rest
<1>3. CASE ReadFails \/ StartDrain \/ FlushRefused \/ Drained \/ Pick
  BY <1>3 DEF ReadFails, StartDrain, FlushRefused, Drained, Pick, Rest
<1>4. CASE \E b \in BOOLEAN : LookOpen(b) \/ Refused(b)
  BY <1>4, <1>i DEF LookOpen, Refused
<1>5. CASE ReadDue
  BY <1>5 DEF ReadDue, FlushSkipped
<1>6. CASE LookMuted \/ Accepted
  BY <1>6 DEF LookMuted, Accepted
<1>7. CASE TempFails
  BY <1>7 DEF TempFails, Failed
<1>8. CASE Record
  BY <1>8 DEF Record
<1>9. CASE Park
  BY <1>9, <1>i DEF Park, Rest, StageKnows
<1>10. CASE \E j \in Ids : FlushOne(j)
  BY <1>10, <1>i DEF FlushOne, Restrict
<1> QED
  BY <1>1, <1>2, <1>3, <1>4, <1>5, <1>6, <1>7, <1>8, <1>9, <1>10, OthersSteps DEF OutboxNext

\* A row that waits has not been sent by this process, but for what is in the books.
LEMMA KnownStep == OutboxInv /\ [OutboxNext]_outboxVars => SentIsKnown'
<1> SUFFICES ASSUME OutboxInv, [OutboxNext]_outboxVars PROVE SentIsKnown'
  OBVIOUS
<1>i. OutboxTypeOK /\ StageKnows /\ SentIsKnown
  BY DEF OutboxInv
<1>1. ASSUME NEW i \in Ids, handed'[i] = "now" PROVE ~Pending(i)' \/ Booked(i)'
  <2>1. ~Written(i)
    BY <1>1 DEF Written
  <2>2. CASE Accepted /\ message.id = i
    BY <2>2 DEF Accepted, Booked
  <2>3. CASE ~OutboxRestart /\ handed[i] = "now" /\ ~Pending(i)
    <3>1. CASE Settles(i)
      <4>1. update \in Update \/ (FlushOne(i) /\ parked[i] \in Update)
        BY <1>i, <3>1 DEF Settles, Record, FlushOne, StageKnows, OutboxTypeOK, Range
      <4>2. rows'[i].st \in {rows[i].st, "sent", "dead"}
        BY <1>i, <3>1, AfterTyped DEF Settles, Record, FlushOne, StageKnows, OutboxTypeOK, Range
      <4> QED BY <2>3, <4>2 DEF Pending
    <3>2. CASE rows'[i] \in {rows[i], Absent} \/ Ages(i) \/ Ripens(i)
      <4>1. rows[i] = Absent \/ rows[i] \in Row
        BY <1>i DEF OutboxTypeOK
      <4> QED BY <2>3, <3>2, <4>1 DEF Pending, Absent, Ages, Ripens, Row
    <3> QED BY <2>1, <3>1, <3>2, QueueRowStep DEF Goes
  <2>4. CASE ~OutboxRestart /\ Booked(i)
    <3>1. CASE Record /\ message.id = i /\ update.st = "sent"
      <4>1. rows'[i] = After(i, update) /\ update \in Update
        BY <1>i, <3>1 DEF Record, OutboxTypeOK, StageKnows
      <4> QED BY <1>i, <3>1, <4>1, AfterTyped DEF Pending
    <3>2. CASE FlushOne(i) /\ parked[i].st = "sent"
      <4>1. rows'[i] = After(i, parked[i]) /\ parked[i] \in Update
        BY <1>i, <3>2 DEF FlushOne, OutboxTypeOK, Range
      <4> QED BY <1>i, <3>2, <4>1, AfterTyped DEF Pending
    <3> QED BY <2>4, <3>1, <3>2, BookedStep
  <2>5. ~OutboxRestart \/ handed'[i] # "now"
    BY DEF OutboxRestart
  <2> QED BY <1>1, <1>i, <2>1, <2>2, <2>3, <2>4, <2>5, LedgerStep DEF SentIsKnown
<1>2. ASSUME NEW i \in Ids, InBatch(i)' \/ (stage' \in {"look", "smtp"} /\ message'.id = i)
      PROVE  handed'[i] # "now"
  <2>1. \/ InBatch(i) \/ (stage \in {"look", "smtp"} /\ message.id = i)
        \/ (ReadDue /\ Pending(i) /\ DOMAIN parked = {})
    <3>1. CASE UNCHANGED worker
      BY <1>2, <3>1 DEF worker, InBatch
    <3>2. CASE OutboxRestart \/ ReadFails \/ StartDrain \/ FlushRefused \/ Drained
      BY <1>2, <1>i, <3>2 DEF OutboxRestart, ReadFails, StartDrain, FlushRefused, Drained, Rest,
         InBatch, StageKnows
    <3>3. CASE \E b \in BOOLEAN : LookOpen(b) \/ Refused(b)
      BY <1>2, <3>3 DEF LookOpen, Refused, InBatch
    <3>4. CASE ReadDue
      <4>1. InBatch(i)' /\ DOMAIN parked = {}
        BY <1>2, <3>4 DEF ReadDue, FlushSkipped
      <4> QED BY <1>i, <3>4, <4>1, BatchRead DEF ReadDue, InBatch
    <3>5. CASE Pick
      BY <1>2, <3>5 DEF Pick, InBatch
    <3>6. CASE LookMuted \/ Accepted \/ TempFails \/ Record \/ Park
      BY <1>2, <3>6 DEF LookMuted, Accepted, TempFails, Record, Park, Rest, InBatch
    <3>7. CASE \E j \in Ids : FlushOne(j)
      BY <1>2, <3>7 DEF FlushOne, InBatch
    <3> QED BY <3>1, <3>2, <3>3, <3>4, <3>5, <3>6, <3>7, OthersSteps DEF OutboxNext
  <2>2. handed[i] # "now"
    <3>1. CASE ReadDue /\ Pending(i) /\ DOMAIN parked = {}
      BY <1>i, <3>1 DEF SentIsKnown, Booked, Owes, ReadDue, FlushSkipped
    <3> QED BY <1>i, <2>1, <3>1 DEF SentIsKnown
  <2>3. CASE Accepted /\ message.id = i
    BY <1>2, <1>i, <2>3 DEF Accepted, InBatch, StageKnows, AtMessage
  <2> QED BY <2>2, <2>3, LedgerStep DEF Written
<1> QED BY <1>1, <1>2 DEF SentIsKnown

\* Outcomes and rows that say sent say the truth, and nothing is sent twice.
LEMMA TruthStep ==
  OutboxInv /\ [OutboxNext]_outboxVars => OutcomeIsTrue' /\ SentOnce' /\ SentIsTrue'
<1> SUFFICES ASSUME OutboxInv, [OutboxNext]_outboxVars
             PROVE  OutcomeIsTrue' /\ SentOnce' /\ SentIsTrue'
  OBVIOUS
<1>i. /\ OutboxTypeOK /\ StageKnows /\ IdsGiven /\ SentIsKnown /\ OutcomeIsTrue
      /\ SentOnce /\ SentIsTrue
  BY DEF OutboxInv, OutboxHonest
<1>1. ASSUME NEW i \in Ids, Booked(i) \/ rows[i].st = "sent"
      PROVE  (handed'[i] # "never" \/ i \in silent') /\ ~Written(i)
  <2>1. handed[i] # "never" \/ i \in silent
    BY <1>1, <1>i DEF OutcomeIsTrue, SentIsTrue
  <2>2. ~Written(i)
    <3>1. Live(i) \/ InHands(i)
      BY <1>1 DEF Booked, Live, InHands, InWork, AtMessage
    <3>2. i <= lastId /\ lastId \in Nat
      BY <1>i, <3>1, OutboxAssumption DEF IdsGiven, OutboxTypeOK
    <3> QED BY <3>2 DEF Written
  <2> QED BY <2>1, <2>2, LedgerStep
<1>2. OutcomeIsTrue'
  <2>1. SUFFICES ASSUME NEW i \in Ids, Booked(i)' PROVE handed'[i] # "never" \/ i \in silent'
    BY DEF OutcomeIsTrue
  <2>2. CASE LookMuted /\ message.id = i
    BY <2>2 DEF LookMuted
  <2>3. CASE Accepted /\ message.id = i
    BY <1>i, <2>3 DEF Accepted, OutboxTypeOK
  <2> QED BY <1>1, <2>1, <2>2, <2>3, BookedStep
<1>3. SentOnce'
  <2>1. SUFFICES ASSUME NEW i \in Ids, handed'[i] = "twice" PROVE FALSE
    BY DEF SentOnce
  <2>2. handed[i] # "twice"
    BY <1>i DEF SentOnce
  <2>3. Accepted /\ message.id = i /\ handed[i] = "now"
    BY <2>1, <2>2, LedgerStep DEF Written
  <2> QED BY <1>i, <2>3 DEF SentIsKnown, Accepted
<1>4. SentIsTrue'
  <2>1. SUFFICES ASSUME NEW i \in Ids, rows'[i].st = "sent" PROVE handed'[i] # "never" \/ i \in silent'
    BY DEF SentIsTrue
  <2>2. rows[i].st = "sent" \/ Booked(i)
    <3>1. rows[i] = Absent \/ rows[i] \in Row
      BY <1>i DEF OutboxTypeOK
    <3>2. CASE rows'[i] \in {rows[i], Absent} \/ Ages(i) \/ Ripens(i) \/ Written(i)
      BY <2>1, <3>1, <3>2 DEF Absent, Ages, Ripens, Written, Row, Pending
    <3>3. CASE Record /\ i = message.id /\ rows'[i] = After(i, update)
      <4>1. update \in Update /\ stage = "record"
        BY <1>i, <3>3 DEF Record, StageKnows
      <4> QED BY <1>i, <2>1, <3>3, <4>1, AfterTyped DEF Booked
    <3>4. CASE FlushOne(i) /\ rows'[i] = After(i, parked[i])
      <4>1. i \in DOMAIN parked /\ parked[i] \in Update
        BY <1>i, <3>4 DEF FlushOne, OutboxTypeOK, Range
      <4> QED BY <1>i, <2>1, <3>4, <4>1, AfterTyped DEF Booked, Owes
    <3> QED BY <3>2, <3>3, <3>4, QueueRowStep DEF Goes, Settles
  <2> QED BY <1>1, <2>2
<1> QED BY <1>2, <1>3, <1>4

\* A copy that keeps another out of the queue: it waits, or has just gone out.
Counts(i) == Pending(i) \/ (rows[i].st = "sent" /\ rows[i].recent)

\* Rows come to count only by being written, and what counts keeps its key.
LEMMA CountsStep ==
  ASSUME OutboxInv, [OutboxNext]_outboxVars, NEW i \in Ids, ~Written(i), Counts(i)'
  PROVE  /\ Counts(i) /\ rows'[i].to = rows[i].to /\ rows'[i].about = rows[i].about
         /\ Pending(i)' => Pending(i)
<1>i. OutboxTypeOK /\ StageKnows /\ StillOpen
  BY DEF OutboxInv
<1>1. rows[i] = Absent \/ rows[i] \in Row
  BY <1>i DEF OutboxTypeOK
<1>2. CASE rows'[i] \in {rows[i], Absent}
  BY <1>2 DEF Counts, Pending, Absent
<1>3. CASE Ages(i) \/ Ripens(i)
  BY <1>1, <1>3 DEF Counts, Pending, Ages, Ripens, Absent, Row
<1>4. ASSUME NEW u \in Update, rows'[i] = After(i, u), InHands(i)
      PROVE  Pending(i) /\ rows'[i].to = rows[i].to /\ rows'[i].about = rows[i].about
  <2>1. rows'[i].st # "none"
    BY DEF Counts, Pending
  <2> QED BY <1>4, <1>i, <2>1, AfterTyped DEF StillOpen, Pending
<1>5. CASE Settles(i)
  <2>1. CASE Record /\ i = message.id /\ rows'[i] = After(i, update)
    BY <1>4, <1>i, <2>1 DEF Counts, Record, StageKnows, InHands, InWork, AtMessage
  <2>2. CASE FlushOne(i) /\ rows'[i] = After(i, parked[i])
    <3>1. parked[i] \in Update /\ InHands(i)
      BY <1>i, <2>2 DEF FlushOne, OutboxTypeOK, Range, InHands, Owes
    <3> QED BY <1>4, <2>2, <3>1 DEF Counts
  <2> QED BY <1>5, <2>1, <2>2 DEF Settles
<1> QED BY <1>2, <1>3, <1>5, QueueRowStep DEF Goes

\* A second copy is not written while the first one counts.
LEMMA TwinStep == OutboxInv /\ [OutboxNext]_outboxVars => NoTwins'
<1> SUFFICES ASSUME OutboxInv, [OutboxNext]_outboxVars,
                    NEW i \in Ids, NEW j \in Ids, i # j, Pending(i)', Counts(j)',
                    rows'[i].to = rows'[j].to, rows'[i].about = rows'[j].about
             PROVE  FALSE
  BY DEF NoTwins, Counts
<1>1. NoTwins
  BY DEF OutboxInv, OutboxHonest
<1>2. ASSUME NEW k \in Ids, NEW l \in Ids, k # l, Written(k), Counts(l)',
             rows'[l].to = rows'[k].to, rows'[l].about = rows'[k].about
      PROVE  FALSE
  <2>1. rows'[l] = rows[l] /\ Counts(l)
    BY <1>2 DEF Written, Counts, Pending
  <2> QED BY <1>2, <2>1 DEF Written, Duplicate, HasTwin, Counts, Live, Pending
<1>3. ~Written(i) /\ ~Written(j)
  BY <1>2 DEF Counts
<1> QED BY <1>1, <1>3, CountsStep DEF NoTwins, Counts, Live, Pending

\* What a step does to the list.
LEMMA ComplaintStep == OutboxInv /\ [OutboxNext]_outboxVars => ComplaintStands'
<1> SUFFICES ASSUME OutboxInv, [OutboxNext]_outboxVars PROVE ComplaintStands'
  OBVIOUS
<1>i. OutboxTypeOK /\ SuppTypeOK /\ StageKnows /\ ComplaintStands
  BY DEF OutboxInv, OutboxHonest, OutboxTypeOK
<1>1. CASE UNCHANGED suppVars
  BY <1>1, <1>i DEF suppVars, ComplaintStands
<1>2. ASSUME NEW a \in Addresses, ListChanges(a) PROVE ComplaintStands'
  BY <1>2, <1>i, ListStep
<1>3. ASSUME NEW b \in BOOLEAN, Refused(b) PROVE ComplaintStands'
  <2>1. message.to \in Addresses
    BY <1>3, <1>i DEF Refused, StageKnows, AtMessage, Item
  <2> QED BY <1>3, <1>i, <2>1, ListStep DEF Refused, suppVars
<1> QED
  BY <1>1, <1>2, <1>3 DEF OutboxNext, OutboxEvent, OutboxWork, Drains, Sends, outboxVars, suppVars,
     EnqueueOutbox, DropPending, DeleteAccountRows, Purge, BecomesDue, SentAges, Record, FlushOne,
     DiskFills, DiskClears, OutboxRestart, ReadFails, LookOpen, StartDrain, FlushRefused, ReadDue,
     FlushSkipped, Pick, Drained, LookMuted, Accepted, Park, TempFails

\* The invariant of the queue goes on.
LEMMA OutboxSteps == OutboxInv /\ [OutboxNext]_outboxVars => OutboxInv'
  BY OutboxTypeStep, StageStep, IdsStep, OpenStep, TriesStep, KnownStep, TruthStep, TwinStep,
     ComplaintStep DEF OutboxInv, OutboxHonest

\* One process sends a notice once, whatever the store refuses to write down; a row on
\* record as sent was taken or passed over; a notice has no second copy that counts; and
\* a complaint stays on the list (drainOutbox, EnqueueOutbox, Suppress): for any number
\* of rows, addresses, attempts and any batch.
THEOREM QueueIsHonest == OutboxSpec => []OutboxHonest
<1>1. OutboxInv => OutboxHonest
  BY DEF OutboxInv
<1> QED BY <1>1, OutboxStarts, OutboxSteps, PTL DEF OutboxSpec

------------------------------------------------------------------------------
(* The sign-in circuit.  A probe is alone: whatever was let through before  *)
(* the circuit opened is over by the time the first probe may go, since the *)
(* client gives up on a request sooner than the first interval.             *)

Alone ==
  /\ \A r \in Requests : Is(r, "probe") => open /\ probing
  /\ \A r, s \in Requests : Is(r, "probe") /\ Is(s, "probe") => r = s
  /\ \A r, s \in Requests : Is(r, "probe") => ~Is(s, "plain")

OverByThen == \A r \in Requests : open /\ Is(r, "plain") => ProbeBase <= request[r].age + wait

Counting == ~open => fails < Trip

AuthInv == AuthTypeOK /\ Alone /\ OverByThen /\ Counting /\ BacksOff

\* What the constants allow.
LEMMA AuthBounds ==
  /\ Trip \in Nat /\ ProbeBase \in Nat /\ ProbeMax \in Nat /\ Flight \in Nat
  /\ 0 < Trip /\ Flight < ProbeBase /\ ProbeBase <= ProbeMax
BY AuthCircuitAssumption

\* What a request may be, as the type invariant has it.
UnderWay == [as : {"none", "plain", "probe"}, age : 0..Flight]

LEMMA AuthStarts == AuthInit => AuthInv
<1> SUFFICES ASSUME AuthInit PROVE AuthInv
  OBVIOUS
<1>1. NoRequest \in UnderWay /\ NoRequest.as = "none"
  BY AuthBounds DEF NoRequest, UnderWay
<1>4. 0 \in 0..Trip /\ 0 \in 0..ProbeMax
  BY AuthBounds
<1>5. request \in [Requests -> UnderWay] /\ \A r \in Requests : request[r].as = "none"
  BY <1>1 DEF AuthInit
<1>2. AuthTypeOK /\ \A r \in Requests : request[r].as = "none"
  BY <1>4, <1>5, Zenon DEF AuthInit, AuthTypeOK, UnderWay
<1>3. Alone /\ OverByThen
  BY <1>2 DEF Alone, OverByThen, Is
<1> QED BY <1>2, <1>3, AuthBounds DEF AuthInit, AuthInv, Counting, BacksOff

\* A doubled wait is longer, up to its cap.
LEMMA DoubledBounds ==
  ASSUME AuthTypeOK
  PROVE  Doubled \in 0..ProbeMax /\ (ProbeBase <= backoff => ProbeBase <= Doubled)
BY AuthBounds DEF AuthTypeOK, Doubled

\* A request, its kind and its age once it has been let through or has ended.
LEMMA RequestMoves ==
  ASSUME AuthTypeOK, NEW r \in Requests
  PROVE  /\ Ends(r) => /\ request' \in [Requests -> UnderWay]
                       /\ request'[r].as = "none"
                       /\ \A s \in Requests : s # r => request'[s] = request[s]
         /\ \A k \in {"plain", "probe"} : Becomes(r, k) =>
                       /\ request' \in [Requests -> UnderWay]
                       /\ request'[r].as = k /\ request'[r].age = 0
                       /\ \A s \in Requests : s # r => request'[s] = request[s]
<1>1. NoRequest \in UnderWay
  BY AuthBounds DEF NoRequest, UnderWay
<1>2. [as |-> "plain", age |-> 0] \in UnderWay /\ [as |-> "probe", age |-> 0] \in UnderWay
  BY AuthBounds DEF UnderWay
<1>3. ASSUME Ends(r)
      PROVE  /\ request' \in [Requests -> UnderWay]
             /\ request'[r].as = "none"
             /\ \A s \in Requests : s # r => request'[s] = request[s]
  BY <1>1, <1>3 DEF AuthTypeOK, UnderWay, Ends, NoRequest
<1>4. ASSUME NEW k \in {"plain", "probe"}, Becomes(r, k)
      PROVE  /\ request' \in [Requests -> UnderWay]
             /\ request'[r].as = k /\ request'[r].age = 0
             /\ \A s \in Requests : s # r => request'[s] = request[s]
  BY <1>2, <1>4 DEF AuthTypeOK, UnderWay, Becomes
<1> QED BY <1>3, <1>4

\* The invariant of the circuit goes on.
LEMMA AuthSteps == AuthInv /\ [AuthNext]_authVars => AuthInv'
<1> SUFFICES ASSUME AuthInv, [AuthNext]_authVars PROVE AuthInv'
  OBVIOUS
<1> USE AuthBounds
<1>i. AuthTypeOK /\ Alone /\ OverByThen /\ Counting /\ BacksOff
  BY DEF AuthInv
<1>n. \A r \in Requests : request[r].as \in {"none", "plain", "probe"} /\ request[r].age \in 0..Flight
  BY <1>i DEF AuthTypeOK
<1>1. ASSUME NEW r \in Requests, Admit(r) PROVE AuthInv'
  BY <1>1, <1>i, <1>n, RequestMoves DEF Admit, AuthInv, AuthTypeOK, UnderWay, Alone, OverByThen, Counting, BacksOff, Is
<1>2. ASSUME NEW r \in Requests, AdmitProbe(r) PROVE AuthInv'
  <2>1. \A s \in Requests : ~Is(s, "plain") /\ ~Is(s, "probe")
    BY <1>2, <1>i, <1>n DEF AdmitProbe, Alone, OverByThen, Is
  <2> QED BY <1>2, <1>i, <1>n, <2>1, RequestMoves
          DEF AdmitProbe, AuthInv, AuthTypeOK, UnderWay, Alone, OverByThen, Counting, BacksOff, Is
<1>3. ASSUME NEW r \in Requests, Fails(r) PROVE AuthInv'
  <2>1. CASE Is(r, "probe")
    <3>1. \A s \in Requests : ~Is(s, "plain") /\ (Is(s, "probe") => s = r)
      BY <1>i, <2>1 DEF Alone
    <3>2. ProbeBase <= Doubled /\ Doubled \in 0..ProbeMax
      BY <1>i, <2>1, DoubledBounds DEF Alone, BacksOff
    <3> QED BY <1>3, <1>i, <1>n, <2>1, <3>1, <3>2, RequestMoves
            DEF Fails, AuthInv, AuthTypeOK, UnderWay, Alone, OverByThen, Counting, BacksOff, Is
  <2>2. CASE Is(r, "plain") /\ open
    BY <1>3, <1>i, <1>n, <2>2, RequestMoves
    DEF Fails, AuthInv, AuthTypeOK, UnderWay, Alone, OverByThen, Counting, BacksOff, Is
  <2>3. CASE Is(r, "plain") /\ ~open
    <3>1. fails' = fails + 1 /\ fails \in Nat /\ fails < Trip /\ probing' = probing /\ open = FALSE
      BY <1>3, <1>i, <2>3 DEF Fails, AuthTypeOK, Counting, Is
    <3>5. \/ fails' < Trip /\ open' = FALSE /\ backoff' = backoff /\ wait' = wait
          \/ fails' >= Trip /\ open' = TRUE /\ backoff' = ProbeBase /\ wait' = ProbeBase
      BY <1>3, <2>3, <3>1 DEF Fails, Is
    <3>2. \A s \in Requests : ~Is(s, "probe")
      BY <1>i, <2>3 DEF Alone
    <3>3. Ends(r)
      BY <1>3 DEF Fails
    <3>4. AuthTypeOK'
      <4>1. fails' \in 0..Trip /\ wait' \in 0..ProbeMax /\ backoff' \in 0..ProbeMax
        BY <1>i, <3>1, <3>5 DEF AuthTypeOK
      <4>2. open' \in BOOLEAN /\ probing' \in BOOLEAN
        BY <1>i, <3>1, <3>5, Zenon DEF AuthTypeOK
      <4>3. request' \in [Requests -> UnderWay]
        BY <1>i, <3>3, RequestMoves
      <4> QED BY <4>1, <4>2, <4>3, Zenon DEF AuthTypeOK, UnderWay
    <3> QED BY <1>i, <1>n, <3>1, <3>2, <3>3, <3>4, <3>5, RequestMoves
            DEF AuthTypeOK, AuthInv, Alone, OverByThen, Counting, BacksOff, Is
  <2> QED BY <1>3, <2>1, <2>2, <2>3 DEF Fails
<1>4. ASSUME NEW r \in Requests, Serves(r) PROVE AuthInv'
  <2>3. Ends(r) /\ open' = FALSE /\ fails' = 0 /\ backoff' = 0 /\ wait' = 0
        /\ probing' = (probing /\ ~Is(r, "probe"))
    BY <1>4 DEF Serves
  <2>4. probing' \in BOOLEAN
    BY <2>3
  <2>1. AuthTypeOK'
    <3>1. fails' \in 0..Trip /\ wait' \in 0..ProbeMax /\ backoff' \in 0..ProbeMax
      BY <2>3
    <3>2. request' \in [Requests -> UnderWay]
      BY <1>i, <2>3, RequestMoves
    <3> QED BY <2>3, <2>4, <3>1, <3>2, Zenon DEF AuthTypeOK, UnderWay
  <2>2. Is(r, "plain") => \A s \in Requests : ~Is(s, "probe")
    BY <1>i DEF Alone
  <2> QED BY <1>4, <1>i, <1>n, <2>1, <2>2, RequestMoves DEF Serves, AuthInv, AuthTypeOK, UnderWay, Alone, OverByThen, Counting, BacksOff, Is
<1>5. ASSUME NEW r \in Requests, Inconclusive(r) PROVE AuthInv'
  BY <1>5, <1>i, <1>n, RequestMoves DEF Inconclusive, AuthInv, AuthTypeOK, UnderWay, Alone, OverByThen, Counting, BacksOff, Is
<1>6. CASE AuthTick
  <2>1. \A s \in Requests : /\ request'[s].as = request[s].as
                            /\ request'[s].age = IF Is(s, "none") THEN request[s].age
                                                 ELSE request[s].age + 1
    BY <1>6, <1>i DEF AuthTick, Aged, AuthTypeOK, UnderWay, Is
  <2>2. request' \in [Requests -> UnderWay]
    BY <1>6, <1>i, <1>n DEF AuthTick, Aged, AuthTypeOK, UnderWay, Is
  <2>3. OverByThen'
    BY <1>6, <1>i, <1>n, <2>1 DEF AuthTick, OverByThen, AuthTypeOK, Is
  <2> QED BY <1>6, <1>i, <1>n, <2>1, <2>2, <2>3 DEF AuthTick, AuthInv, AuthTypeOK, UnderWay, Alone, Counting, BacksOff, Is
<1>7. CASE UNCHANGED authVars
  BY <1>7, <1>i DEF authVars, AuthInv, AuthTypeOK, UnderWay, Alone, OverByThen, Counting, BacksOff, Is
<1> QED BY <1>1, <1>2, <1>3, <1>4, <1>5, <1>6, <1>7 DEF AuthNext, AuthEvent, AuthWork, Asks

\* An open sign-in circuit waits the first interval at least between its probes, for
\* any number of requests, any threshold and any intervals longer than the client's
\* timeout (onUpstreamFailure, onSuccess, allow).
THEOREM ProbesStayApart == AuthSpec => []BacksOff
<1>1. AuthInv => BacksOff
  BY DEF AuthInv
<1> QED BY <1>1, AuthStarts, AuthSteps, PTL DEF AuthSpec

------------------------------------------------------------------------------
(* The plate cache, and the five together.  A behaviour is of one of them;  *)
(* the others stay as they began.                                           *)

LEMMA PlateStarts == PlateInit => PlateTypeOK
BY DEF PlateInit, PlateTypeOK, NotBusy, Busy

\* The invariant of the plates goes on.
LEMMA PlateSteps == PlateTypeOK /\ [PlateNext]_plateVars => PlateTypeOK'
<1> SUFFICES ASSUME PlateTypeOK, [PlateNext]_plateVars PROVE PlateTypeOK'
  OBVIOUS
<1> USE DEF PlateTypeOK
<1>1. /\ NotBusy \in Busy /\ [NotBusy EXCEPT !.pc = "asked"] \in Busy
      /\ \A p \in Busy : Voided(p) \in Busy
      /\ \A p \in Busy, c \in Cars : [p EXCEPT !.pc = "done", !.car = c] \in Busy
  BY DEF NotBusy, Busy, Voided
<1>2. \A p \in Busy : Stores(p) => cached' \in [car : Cars \union {NoCar}, fresh : BOOLEAN]
  BY DEF Stores, Busy
<1>3. CASE PageShows \/ ReaderReads \/ ReaderFails \/ ReaderStores
  BY <1>1, <1>2, <1>3 DEF PageShows, ReaderReads, ReaderFails, ReaderStores
<1>4. CASE WriterStarts \/ WriterStores
  BY <1>1, <1>2, <1>4 DEF WriterStarts, WriterStores
<1>5. CASE ForgetPermit \/ GrowsOld
  <2>1. [car |-> NoCar, fresh |-> FALSE] \in [car : Cars \union {NoCar}, fresh : BOOLEAN]
    OBVIOUS
  <2>2. [cached EXCEPT !.fresh = FALSE] \in [car : Cars \union {NoCar}, fresh : BOOLEAN]
    OBVIOUS
  <2> QED BY <1>1, <1>5, <2>1, <2>2 DEF ForgetPermit, GrowsOld
<1>7. ASSUME NEW c \in Cars, WriterWrites(c) \/ WriterFails(c) \/ PortalChanges(c)
      PROVE  PlateTypeOK'
  <2>1. actual' \in Cars /\ cached' = cached
    BY <1>7 DEF WriterWrites, WriterFails, PortalChanges
  <2>2. [writer EXCEPT !.pc = "done", !.car = c] \in Busy
    BY <1>1
  <2>3. writer' \in Busy /\ reader' = reader
    BY <1>1, <1>7, <2>2 DEF WriterWrites, WriterFails, PortalChanges
  <2> QED BY <2>1, <2>3
<1>6. CASE UNCHANGED plateVars
  BY <1>6 DEF plateVars
<1> QED BY <1>3, <1>4, <1>5, <1>6, <1>7 DEF PlateNext, PlateEvent, PlateWork

MCInv == SessionInv /\ AuthInv /\ PlateTypeOK /\ OutboxInv /\ TypeOK

LEMMA MCStarts == MCInit => MCInv
BY SessionInvInit, AuthStarts, PlateStarts, OutboxStarts, TypeInit DEF MCInit, MCInv

\* ... of all of them.
LEMMA MCSteps ==
  MCInv /\ [MCNext]_<<sessionVars, authVars, plateVars, outboxVars, vars, part, events>> => MCInv'
<1> SUFFICES ASSUME MCInv, [MCNext]_<<sessionVars, authVars, plateVars, outboxVars, vars, part, events>>
             PROVE  MCInv'
  OBVIOUS
<1>1. /\ [SessionNext]_sessionVars /\ [AuthNext]_authVars /\ [PlateNext]_plateVars
      /\ [OutboxNext]_outboxVars /\ [Next]_vars
  <2>1. CASE MCNext
    BY <2>1 DEF MCNext, SessionNext, AuthNext, PlateNext, OutboxNext, Next
  <2>2. CASE UNCHANGED <<sessionVars, authVars, plateVars, outboxVars, vars, part, events>>
    BY <2>2
  <2> QED BY <2>1, <2>2
<1>2. SessionInv'
  BY <1>1, SessionTypeStep, KnowsStep DEF MCInv, SessionInv
<1> QED BY <1>1, <1>2, AuthSteps, PlateSteps, OutboxSteps, TypeStep DEF MCInv

\* It holds in every reachable state.
LEMMA MCInvariant == MCSpec => []MCInv
BY MCStarts, MCSteps, PTL DEF MCSpec

\* Every component of the run keeps its types.
THEOREM SessionsTyped == MCSpec => []TypesOK
<1>1. MCInv => TypesOK
  BY DEF MCInv, TypesOK, SessionInv, AuthInv, OutboxInv
<1> QED BY <1>1, MCInvariant, PTL

\* What the run checks of the household's word, the sign-in circuit and the queue, for
\* every value of its constants.
THEOREM SessionsSafe == MCSpec => [](HouseholdsWord /\ BacksOff /\ OutboxHonest)
<1>1. MCInv => HouseholdsWord /\ BacksOff /\ OutboxHonest
  BY DEF MCInv, SessionInv, AuthInv, OutboxInv
<1> QED BY <1>1, MCInvariant, PTL
==============================================================================
