------------------------ MODULE SessionRecoveryProofs ------------------------
(***************************************************************************)
(* Theorems about SessionRecovery: the household's word holds, and the row  *)
(* goes through the changes of SessionRegister only.  What makes both true  *)
(* is that whoever works on the session holds a generation, and knows       *)
(* something of the row for as long as the row has that generation.         *)
(***************************************************************************)
EXTENDS SessionRecovery, TLAPS

\* A new generation is one that nobody holds (newSessionGeneration).
LEMMA FreshGeneration ==
  SessionTypeOK => NextGen \in Generations /\ NextGen \notin InUse
<1> SUFFICES ASSUME SessionTypeOK
             PROVE  \E g \in Generations : g \notin InUse
  BY DEF NextGen
<1> DEFINE r == IF row = NoRow THEN 0 ELSE row.gen
           i == IF item = NoItem THEN 0 ELSE item.gen
<1>1. /\ call.gen \in 0..6 /\ work.gen \in 0..6 /\ work.at \in 0..6
      /\ r \in 0..6 /\ i \in 0..6
  BY DEF SessionTypeOK, Rows, Items, CallRecords, WorkRecords, Generations
<1>2. InUse \subseteq {call.gen, work.gen, work.at, r, i}
  BY DEF InUse
<1>3. \E g \in 1..6 : g \notin {call.gen, work.gen, work.at, r, i}
  <2> HIDE DEF r, i
  <2> QED BY <1>1
<1> QED BY <1>2, <1>3 DEF Generations

------------------------------------------------------------------------------
(* The types.                                                               *)

\* The changes that are made to a record of each kind.
LEMMA RowChanges ==
  ASSUME NEW r \in Rows
  PROVE  /\ Seen(r) \in Rows
         /\ [r EXCEPT !.token = FALSE] \in Rows
         /\ [r EXCEPT !.idle = IF @ = "active" THEN "due" ELSE "over"] \in Rows
         /\ [r EXCEPT !.alive = FALSE] \in Rows
         /\ [r EXCEPT !.told = TRUE, !.token = TRUE] \in Rows
         /\ [r EXCEPT !.told = FALSE, !.token = FALSE] \in Rows
<1>1. Seen(r) \in Rows
  BY DEF Rows, Seen, IdleTimes
<1>2. [r EXCEPT !.token = FALSE] \in Rows
  BY DEF Rows
<1>3. [r EXCEPT !.idle = IF @ = "active" THEN "due" ELSE "over"] \in Rows
  BY DEF Rows, IdleTimes
<1>4. [r EXCEPT !.alive = FALSE] \in Rows
  BY DEF Rows
<1>5. /\ [r EXCEPT !.told = TRUE, !.token = TRUE] \in Rows
      /\ [r EXCEPT !.told = FALSE, !.token = FALSE] \in Rows
  BY DEF Rows
<1> QED BY <1>1, <1>2, <1>3, <1>4, <1>5

\* ... and those that give it a new generation.
LEMMA RowRenewals ==
  ASSUME NEW r \in Rows, NEW g \in Generations
  PROVE  /\ [r EXCEPT !.pw = FALSE, !.gen = g] \in Rows
         /\ [r EXCEPT !.gen = g, !.latest = TRUE, !.alive = TRUE, !.pw = TRUE] \in Rows
         /\ \A b \in BOOLEAN : /\ [r EXCEPT !.gen = g, !.alive = TRUE, !.latest = b] \in Rows
                              /\ Linked(g, b) \in Rows
<1>1. [r EXCEPT !.pw = FALSE, !.gen = g] \in Rows
  BY DEF Rows
<1>2. [r EXCEPT !.gen = g, !.latest = TRUE, !.alive = TRUE, !.pw = TRUE] \in Rows
  BY DEF Rows
<1>3. \A b \in BOOLEAN : [r EXCEPT !.gen = g, !.alive = TRUE, !.latest = b] \in Rows
  BY DEF Rows
<1>4. \A b \in BOOLEAN : Linked(g, b) \in Rows
  BY DEF Rows, Linked, IdleTimes
<1> QED BY <1>1, <1>2, <1>3, <1>4

LEMMA RowFields ==
  ASSUME NEW r \in Rows
  PROVE  /\ r.gen \in Generations /\ r.gen \in 0..6 /\ r.idle \in IdleTimes
         /\ r.latest \in BOOLEAN /\ r.alive \in BOOLEAN /\ r.pw \in BOOLEAN
         /\ r.told \in BOOLEAN
<1>1. /\ r.gen \in Generations /\ r.gen \in 0..6 /\ r.idle \in IdleTimes
  BY DEF Rows, Generations
<1>2. r.latest \in BOOLEAN /\ r.alive \in BOOLEAN /\ r.pw \in BOOLEAN /\ r.told \in BOOLEAN
  BY DEF Rows
<1> QED BY <1>1, <1>2

LEMMA CallChanges ==
  ASSUME NEW c \in CallRecords, NEW b \in BOOLEAN
  PROVE  /\ [c EXCEPT !.latest = FALSE] \in CallRecords
         /\ [c EXCEPT !.alive = @ /\ b] \in CallRecords
         /\ \A pc \in {"no", "out", "save", "expired"} : [c EXCEPT !.pc = pc] \in CallRecords
         /\ NoCall \in CallRecords
         /\ c.latest \in BOOLEAN /\ c.gen \in 0..6
<1>1. [c EXCEPT !.latest = FALSE] \in CallRecords
  BY DEF CallRecords
<1>2. [c EXCEPT !.alive = @ /\ b] \in CallRecords
  BY DEF CallRecords
<1>3. \A pc \in {"no", "out", "save", "expired"} : [c EXCEPT !.pc = pc] \in CallRecords
  BY DEF CallRecords
<1>4. NoCall \in CallRecords
  BY DEF CallRecords, NoCall
<1>5. c.latest \in BOOLEAN /\ c.gen \in 0..6
  BY DEF CallRecords
<1> QED BY <1>1, <1>2, <1>3, <1>4, <1>5

LEMMA LinkMoves ==
  ASSUME NEW l \in LinkRecords, NEW b \in BOOLEAN
  PROVE  /\ NoLink \in LinkRecords /\ [pc |-> "login", pw |-> b] \in LinkRecords
         /\ [l EXCEPT !.pc = "saved"] \in LinkRecords /\ l.pw \in BOOLEAN
<1>1. NoLink \in LinkRecords
  BY DEF LinkRecords, NoLink
<1>2. [pc |-> "login", pw |-> b] \in LinkRecords
  BY DEF LinkRecords
<1>3. [l EXCEPT !.pc = "saved"] \in LinkRecords /\ l.pw \in BOOLEAN
  BY DEF LinkRecords
<1> QED BY <1>1, <1>2, <1>3

LEMMA ConsentMoves ==
  ASSUME NEW c \in Consents, NEW b \in BOOLEAN
  PROVE  [c EXCEPT !.pw = FALSE] \in Consents /\ [linked |-> TRUE, pw |-> b] \in Consents
BY DEF Consents

LEMMA ItemMoves ==
  ASSUME NEW i \in Items
  PROVE  /\ [i EXCEPT !.due = TRUE] \in Items /\ [i EXCEPT !.due = FALSE] \in Items
         /\ [i EXCEPT !.held = TRUE] \in Items
         /\ [i EXCEPT !.due = FALSE, !.held = FALSE] \in Items
         /\ i.gen \in 0..6
         /\ \A g \in 0..6 : [gen |-> g, due |-> TRUE, held |-> FALSE] \in Items
<1>1. /\ [i EXCEPT !.due = TRUE] \in Items /\ [i EXCEPT !.due = FALSE] \in Items
      /\ [i EXCEPT !.held = TRUE] \in Items
  BY DEF Items
<1>2. [i EXCEPT !.due = FALSE, !.held = FALSE] \in Items
  BY DEF Items
<1>3. \A g \in 0..6 : [gen |-> g, due |-> TRUE, held |-> FALSE] \in Items
  BY DEF Items
<1>4. i.gen \in 0..6
  BY DEF Items
<1> QED BY <1>1, <1>2, <1>3, <1>4

LEMMA WorkMoves ==
  ASSUME NEW w \in WorkRecords
  PROVE  /\ NoWork \in WorkRecords /\ w.gen \in 0..6 /\ w.at \in 0..6
         /\ \A pc \in {"idle", "held", "waiting", "login", "save", "retire"} :
              [w EXCEPT !.pc = pc] \in WorkRecords
         /\ \A g \in 0..6 : /\ [w EXCEPT !.pc = "waiting", !.at = g] \in WorkRecords
                            /\ [pc |-> "held", gen |-> g, at |-> 0] \in WorkRecords
<1>1. NoWork \in WorkRecords
  BY DEF WorkRecords, NoWork
<1>2. w.gen \in 0..6 /\ w.at \in 0..6
  BY DEF WorkRecords
<1>3. \A pc \in {"idle", "held", "waiting", "login", "save", "retire"} :
        [w EXCEPT !.pc = pc] \in WorkRecords
  BY DEF WorkRecords
<1>4. \A g \in 0..6 : [w EXCEPT !.pc = "waiting", !.at = g] \in WorkRecords
  BY DEF WorkRecords
<1>5. \A g \in 0..6 : [pc |-> "held", gen |-> g, at |-> 0] \in WorkRecords
  BY DEF WorkRecords
<1> QED BY <1>1, <1>2, <1>3, <1>4, <1>5

LEMMA WarmMoves ==
  ASSUME NEW w \in WarmRecords
  PROVE  /\ NoPass \in WarmRecords
         /\ \A pc \in {"idle", "listed", "marked", "renew"} : [w EXCEPT !.pc = pc] \in WarmRecords
BY DEF WarmRecords, NoPass, IdleTimes

LEMMA SessionTypeInit == SessionInit => SessionTypeOK
<1> SUFFICES ASSUME SessionInit PROVE SessionTypeOK
  OBVIOUS
<1>1. link \in LinkRecords
  BY DEF SessionInit, NoLink, LinkRecords
<1>2. call \in CallRecords
  BY DEF SessionInit, NoCall, CallRecords
<1>3. work \in WorkRecords
  BY DEF SessionInit, NoWork, WorkRecords
<1>4. warm \in WarmRecords
  BY DEF SessionInit, NoPass, WarmRecords, IdleTimes
<1>5. \A b \in BOOLEAN : Linked(1, b) \in Rows
  BY DEF Linked, Rows, IdleTimes, Generations
<1>6. \A b, c \in BOOLEAN : [linked |-> b, pw |-> c] \in Consents
  BY DEF Consents
<1> QED
  BY <1>1, <1>2, <1>3, <1>4, <1>5, <1>6 DEF SessionInit, SessionTypeOK

LEMMA SessionTypeStep == SessionTypeOK /\ [SessionNext]_sessionVars => SessionTypeOK'
<1> SUFFICES ASSUME SessionTypeOK, [SessionNext]_sessionVars PROVE SessionTypeOK'
  OBVIOUS
<1>f. NextGen \in Generations
  BY FreshGeneration
<1> USE <1>f DEF SessionTypeOK
<1>0. ASSUME NEW pw \in BOOLEAN, StartLink(pw) PROVE SessionTypeOK'
  BY <1>0, LinkMoves DEF StartLink
<1>1. CASE LinkRefused
  BY <1>1, LinkMoves DEF LinkRefused, NoLink
<1>2. CASE LinkSaved
  <2>1. link.pw \in BOOLEAN /\ link' \in LinkRecords
    BY <1>2, LinkMoves DEF LinkSaved
  <2>2. call' \in CallRecords
    BY <1>2, CallChanges DEF LinkSaved
  <2>3. row' \in Rows
    <3>1. \A b \in BOOLEAN : Linked(NextGen, b) \in Rows
      BY DEF Linked, Rows, IdleTimes
    <3> QED BY <1>2, <2>1, <3>1 DEF LinkSaved
  <2>4. consent' \in Consents
    BY <1>2, <2>1 DEF LinkSaved, Consents
  <2> QED BY <1>2, <2>1, <2>2, <2>3, <2>4 DEF LinkSaved
<1>3. CASE LinkDone
  BY <1>3, LinkMoves DEF LinkDone, NoLink
<1>4. CASE Unlink
  BY <1>4 DEF Unlink, Consents
<1>5. CASE ForgetSavedPassword
  BY <1>5, RowRenewals, ConsentMoves DEF ForgetSavedPassword
<1>6. CASE ComesBy
  BY <1>6, RowChanges DEF ComesBy, actors
<1>7. CASE ConfirmFinds
  BY <1>7 DEF ConfirmFinds
<1>8. CASE ConfirmExtends
  BY <1>8, RowChanges DEF ConfirmExtends
<1>9. CASE TokenAges
  BY <1>9, RowChanges DEF TokenAges, actors
<1>10. CASE Idles
  BY <1>10, RowChanges DEF Idles, actors
<1>11. CASE Expires
  BY <1>11, RowChanges, CallChanges DEF Expires
<1>12. CASE PageCalls
  BY <1>12, RowFields DEF PageCalls, Begin, CallRecords
<1>13. CASE CallServed
  BY <1>13, CallChanges DEF CallServed, CallTo
<1>14. CASE CallFails
  BY <1>14, CallChanges DEF CallFails, CallTo
<1>15. CASE CallExpired
  BY <1>15, CallChanges DEF CallExpired, CallTo
<1>16. CASE CallSaves
  <2>1. call' \in CallRecords /\ call.latest \in BOOLEAN
    BY <1>16, CallChanges DEF CallSaves, CallTo
  <2>2. row \in Rows => Renewed \in Rows
    BY <2>1, RowRenewals DEF Renewed
  <2>3. row' \in Rows \union {NoRow}
    BY <1>16, <2>2 DEF CallSaves, Still
  <2> QED BY <1>16, <2>1, <2>3 DEF CallSaves
<1>17. CASE CallReports
  <2>1. call' \in CallRecords
    BY <1>17, CallChanges DEF CallReports, CallTo
  <2>2. call.gen \in 0..6
    BY DEF CallRecords
  <2>3. [gen |-> call.gen, due |-> TRUE, held |-> FALSE] \in Items
    BY <2>2 DEF Items
  <2>4. item' \in Items \union {NoItem}
    BY <1>17, <2>3 DEF CallReports, Enqueue
  <2> QED BY <1>17, <2>1, <2>4 DEF CallReports
<1>18. CASE WorkerTakes
  BY <1>18, WorkMoves, ItemMoves DEF WorkerTakes, Due
<1>19. CASE WorkerBlind
  BY <1>19, ItemMoves DEF WorkerBlind, Due
<1>20. CASE WorkerReads
  <2>1. item' \in Items \union {NoItem}
    BY <1>20, ItemMoves DEF WorkerReads, Defer
  <2>2. work' \in WorkRecords
    BY <1>20, RowFields, WorkMoves DEF WorkerReads, Defer
  <2> QED BY <1>20, <2>1, <2>2 DEF WorkerReads
<1>21. CASE WorkerSignsIn
  BY <1>21, WorkMoves DEF WorkerSignsIn, WorkTo
<1>22. CASE WorkerAccepted
  BY <1>22, WorkMoves DEF WorkerAccepted, WorkTo
<1>23. CASE WorkerRejected
  BY <1>23, WorkMoves DEF WorkerRejected, WorkTo
<1>24. CASE WorkerDefers
  BY <1>24, WorkMoves, ItemMoves DEF WorkerDefers, Defer
<1>25. CASE WorkerSaves
  <2>1. call' \in CallRecords /\ work' \in WorkRecords /\ item' \in Items \union {NoItem}
    BY <1>25, CallChanges, WorkMoves DEF WorkerSaves, Finish
  <2>2. row \in Rows => Recovered \in Rows
    BY RowRenewals DEF Recovered
  <2>3. row' \in Rows \union {NoRow}
    BY <1>25, <2>2 DEF WorkerSaves, Still
  <2> QED BY <1>25, <2>1, <2>3 DEF WorkerSaves
<1>26. CASE WorkerRetires
  BY <1>26, WorkMoves DEF WorkerRetires, Finish
<1>27. CASE BackoffEnds
  BY <1>27, ItemMoves DEF BackoffEnds
<1>28. CASE WarmLists
  BY <1>28, RowFields DEF WarmLists, WarmRecords
<1>29. CASE WarmRetires
  BY <1>29, WarmMoves DEF WarmRetires
<1>30. CASE WarmMarks
  BY <1>30, RowChanges, WarmMoves DEF WarmMarks
<1>31. CASE WarmSent
  BY <1>31, WarmMoves DEF WarmSent
<1>32. CASE WarmUnsent
  BY <1>32, RowChanges, WarmMoves DEF WarmUnsent
<1>33. CASE NothingToSend
  BY <1>33, WarmMoves DEF NothingToSend
<1>34. CASE WarmRenews
  <2>1. \A w \in BOOLEAN : row \in Rows =>
          [pc |-> "out", gen |-> row.gen, alive |-> row.alive, latest |-> row.latest,
           warm |-> w] \in CallRecords
    BY RowFields DEF CallRecords
  <2>2. call' \in CallRecords
    BY <1>34, <2>1 DEF WarmRenews, Begin
  <2>3. warm' \in WarmRecords
    BY <1>34, WarmMoves DEF WarmRenews
  <2> QED BY <1>34, <2>2, <2>3 DEF WarmRenews
<1>35. CASE WarmSkips
  BY <1>35, WarmMoves DEF WarmSkips
<1>36. CASE SessionRestart
  BY <1>36, LinkMoves, CallChanges, WorkMoves, WarmMoves DEF SessionRestart
<1>37. CASE UNCHANGED sessionVars
  BY <1>37 DEF sessionVars
<1> QED
  BY <1>0, <1>1, <1>2, <1>3, <1>4, <1>5, <1>6, <1>7, <1>8, <1>9, <1>10, <1>11, <1>12,
     <1>13, <1>14, <1>15, <1>16, <1>17, <1>18, <1>19, <1>20, <1>21, <1>22, <1>23, <1>24,
     <1>25, <1>26, <1>27, <1>28, <1>29, <1>30, <1>31, <1>32, <1>33, <1>34, <1>35, <1>36,
     <1>37
  DEF SessionNext, SessionEvent, SessionWork, Linking, Calling, Working, Warming, Confirming

------------------------------------------------------------------------------
(* What those who hold a generation know of the row, while it has that one.  *)

CallKnows ==
  call.pc # "no" /\ Still(call.gen) =>
    /\ call.latest = row.latest
    /\ ~call.alive \/ call.pc = "expired" => ~row.alive

ItemKnows == item # NoItem /\ Still(item.gen) => ~row.alive

WorkKnows ==
  /\ work.pc # "idle" /\ Still(work.gen) => ~row.alive
  /\ work.pc \in {"waiting", "login", "save"} /\ Still(work.at) => row.pw

SessionInv == SessionTypeOK /\ HouseholdsWord /\ CallKnows /\ ItemKnows /\ WorkKnows

LEMMA NobodyHolds ==
  ASSUME SessionTypeOK
  PROVE  /\ NextGen \in Generations
         /\ NextGen # call.gen /\ NextGen # work.gen /\ NextGen # work.at
         /\ row # NoRow => NextGen # row.gen
         /\ item # NoItem => NextGen # item.gen
BY FreshGeneration DEF InUse

LEMMA KnowsStep ==
  ASSUME SessionInv, [SessionNext]_sessionVars
  PROVE  HouseholdsWord' /\ CallKnows' /\ ItemKnows' /\ WorkKnows'
<1> DEFINE Goal == HouseholdsWord' /\ CallKnows' /\ ItemKnows' /\ WorkKnows'
<1> SUFFICES Goal
  OBVIOUS
<1>n. /\ NextGen # call.gen /\ NextGen # work.gen /\ NextGen # work.at
      /\ row # NoRow => NextGen # row.gen
      /\ item # NoItem => NextGen # item.gen
  BY NobodyHolds DEF SessionInv
<1>t. /\ row \in Rows \union {NoRow} /\ consent \in Consents /\ link \in LinkRecords
      /\ call \in CallRecords /\ item \in Items \union {NoItem} /\ work \in WorkRecords
  BY DEF SessionInv, SessionTypeOK
<1>k. HouseholdsWord /\ CallKnows /\ ItemKnows /\ WorkKnows
  BY DEF SessionInv
<1>a. NoRow \notin Rows /\ NoItem \notin Items
  BY SessionAssumption
<1> USE <1>n, <1>t, <1>k, <1>a DEF HouseholdsWord, CallKnows, ItemKnows, WorkKnows, Still,
        Rows, Consents, LinkRecords, CallRecords, Items, WorkRecords
<1>0. ASSUME NEW pw \in BOOLEAN, StartLink(pw) PROVE Goal
  BY <1>0 DEF StartLink
<1>1. CASE LinkRefused
  BY <1>1 DEF LinkRefused
<1>2. CASE LinkSaved
  BY <1>2 DEF LinkSaved, Linked
<1>3. CASE LinkDone
  BY <1>3 DEF LinkDone
<1>4. CASE Unlink
  BY <1>4 DEF Unlink
<1>5. CASE ForgetSavedPassword
  BY <1>5 DEF ForgetSavedPassword
<1>6. CASE ComesBy
  BY <1>6 DEF ComesBy, actors, Seen
<1>7. CASE ConfirmFinds
  BY <1>7 DEF ConfirmFinds
<1>8. CASE ConfirmExtends
  BY <1>8 DEF ConfirmExtends, Seen
<1>9. CASE TokenAges
  BY <1>9 DEF TokenAges, actors
<1>10. CASE Idles
  BY <1>10 DEF Idles, actors
<1>11. CASE Expires
  BY <1>11 DEF Expires
<1>12. CASE PageCalls
  BY <1>12 DEF PageCalls, Begin
<1>13. CASE CallServed
  <2>1. call' = NoCall \/ call' = [call EXCEPT !.pc = "save"]
    BY <1>13 DEF CallServed, CallTo
  <2>2. call.pc = "out" /\ UNCHANGED <<row, consent, item, work>>
    BY <1>13 DEF CallServed
  <2> QED BY <2>1, <2>2 DEF NoCall
<1>14. CASE CallFails
  BY <1>14 DEF CallFails, CallTo, NoCall
<1>15. CASE CallExpired
  BY <1>15 DEF CallExpired, CallTo, NoCall
<1>16. CASE CallSaves
  BY <1>16 DEF CallSaves, CallTo, Renewed, NoCall
<1>17. CASE CallReports
  BY <1>17 DEF CallReports, CallTo, Enqueue, NoCall
<1>18. CASE WorkerTakes
  BY <1>18 DEF WorkerTakes, Due
<1>19. CASE WorkerBlind
  BY <1>19 DEF WorkerBlind, Due
<1>20. CASE WorkerReads
  BY <1>20 DEF WorkerReads, Defer, NoWork
<1>21. CASE WorkerSignsIn
  BY <1>21 DEF WorkerSignsIn, WorkTo
<1>22. CASE WorkerAccepted
  BY <1>22 DEF WorkerAccepted, WorkTo
<1>23. CASE WorkerRejected
  BY <1>23 DEF WorkerRejected, WorkTo
<1>24. CASE WorkerDefers
  BY <1>24 DEF WorkerDefers, Defer, NoWork
<1>25. CASE WorkerSaves
  BY <1>25 DEF WorkerSaves, Finish, Recovered, NoWork
<1>26. CASE WorkerRetires
  BY <1>26 DEF WorkerRetires, Finish, NoWork
<1>27. CASE BackoffEnds
  BY <1>27 DEF BackoffEnds
<1>28. CASE WarmLists
  BY <1>28 DEF WarmLists
<1>29. CASE WarmRetires
  BY <1>29 DEF WarmRetires
<1>30. CASE WarmMarks
  BY <1>30 DEF WarmMarks
<1>31. CASE WarmSent
  BY <1>31 DEF WarmSent
<1>32. CASE WarmUnsent
  BY <1>32 DEF WarmUnsent
<1>33. CASE NothingToSend
  BY <1>33 DEF NothingToSend
<1>34. CASE WarmRenews
  BY <1>34 DEF WarmRenews, Begin
<1>35. CASE WarmSkips
  BY <1>35 DEF WarmSkips
<1>36. CASE SessionRestart
  BY <1>36 DEF SessionRestart, NoCall, NoWork
<1>37. CASE UNCHANGED sessionVars
  BY <1>37 DEF sessionVars
<1> HIDE DEF Goal
<1> QED
  BY <1>0, <1>1, <1>2, <1>3, <1>4, <1>5, <1>6, <1>7, <1>8, <1>9, <1>10, <1>11, <1>12,
     <1>13, <1>14, <1>15, <1>16, <1>17, <1>18, <1>19, <1>20, <1>21, <1>22, <1>23, <1>24,
     <1>25, <1>26, <1>27, <1>28, <1>29, <1>30, <1>31, <1>32, <1>33, <1>34, <1>35, <1>36,
     <1>37
  DEF SessionNext, SessionEvent, SessionWork, Linking, Calling, Working, Warming, Confirming

------------------------------------------------------------------------------
(* The theorems.                                                            *)

LEMMA SessionInvInit == SessionInit => SessionInv
<1> SUFFICES ASSUME SessionInit PROVE SessionInv
  OBVIOUS
<1>1. SessionTypeOK
  BY SessionTypeInit
<1>2. HouseholdsWord
  BY DEF SessionInit, HouseholdsWord, Linked
<1>3. CallKnows /\ ItemKnows /\ WorkKnows
  BY DEF SessionInit, CallKnows, ItemKnows, WorkKnows, NoCall, NoWork
<1> QED BY <1>1, <1>2, <1>3 DEF SessionInv

\* Whoever works on the session knows what its generation tells, in every reachable state.
THEOREM SessionInvariant == SessionSpec => []SessionInv
<1>1. SessionInv /\ [SessionNext]_sessionVars => SessionInv'
  BY SessionTypeStep, KnowsStep DEF SessionInv
<1> QED
  BY SessionInvInit, <1>1, PTL DEF SessionSpec

\* There is a session, and a saved password, only while the household wants them.
THEOREM HouseholdObeyed == SessionSpec => []HouseholdsWord
<1>1. SessionInv => HouseholdsWord
  BY DEF SessionInv
<1> QED BY SessionInvariant, <1>1, PTL

\* The register it implements: its first state, and one change for every step.
LEMMA RegisterStarts == SessionInit => Register!RegisterInit
<1> SUFFICES ASSUME SessionInit PROVE Register!RegisterInit
  OBVIOUS
<1>1. PICK b \in BOOLEAN :
        \/ row = NoRow /\ consent = [linked |-> FALSE, pw |-> FALSE]
        \/ row = Linked(1, b) /\ consent = [linked |-> TRUE, pw |-> b]
  BY DEF SessionInit
<1>2. Linked(1, b) \in Rows
  BY DEF Linked, Rows, IdleTimes, Generations
<1>3. Linked(1, b) # NoRow /\ Seeing(Linked(1, b)) = Register!NewSession(b)
  BY <1>2, SessionAssumption DEF Seeing, Linked, Register!NewSession
<1> QED BY <1>1, <1>3 DEF Register!RegisterInit, Session

\* What of a row the household knows is never the absence of one.
LEMMA SeeingRows ==
  ASSUME NEW r \in Rows
  PROVE  r # NoRow /\ Seeing(r) # NoRow
BY SessionAssumption

LEMMA RegisterMoves ==
  ASSUME SessionInv, SessionInv', [SessionNext]_sessionVars
  PROVE  [Register!RegisterNext]_<<Session, consent>>
<1> DEFINE Goal == [Register!RegisterNext]_<<Session, consent>>
<1> SUFFICES Goal
  OBVIOUS
<1>t. /\ row \in Rows \union {NoRow} /\ row' \in Rows \union {NoRow}
      /\ link \in LinkRecords
  BY DEF SessionInv, SessionTypeOK
<1>s. /\ row # NoRow => Session = Seeing(row) /\ Session # NoRow
      /\ row = NoRow => Session = NoRow
      /\ row' # NoRow => Session' = Seeing(row') /\ Session' # NoRow
      /\ row' = NoRow => Session' = NoRow
  BY <1>t, SeeingRows DEF Session
<1> HIDE DEF Goal
<1>1. CASE LinkSaved
  <2>1. link.pw \in BOOLEAN
    BY <1>t DEF LinkRecords
  <2>2. row' = Linked(NextGen, link.pw) /\ consent' = [linked |-> TRUE, pw |-> link.pw]
    BY <1>1 DEF LinkSaved
  <2>3. row' # NoRow
    <3>1. NextGen \in Generations
      BY FreshGeneration DEF SessionInv
    <3>2. Linked(NextGen, link.pw) \in Rows
      BY <2>1, <3>1 DEF Linked, Rows, IdleTimes
    <3> QED BY <2>2, <3>2, SeeingRows
  <2>4. Session' = Register!NewSession(link.pw)
    BY <1>s, <2>2, <2>3 DEF Seeing, Linked, Register!NewSession
  <2> QED
    BY <2>1, <2>2, <2>4 DEF Goal, Register!RegisterNext, Register!SignIn
<1>2. CASE Unlink
  BY <1>2, <1>s DEF Unlink, Goal, Register!RegisterNext, Register!SignOut
<1>b. ASSUME Register!Use \/ Register!Idle \/ Register!Die \/ Register!Renew
               \/ Register!Recover \/ Register!GiveUp,
             row # NoRow
      PROVE  Goal
  BY <1>b, <1>s DEF Goal, Register!RegisterNext
<1>u. ASSUME UNCHANGED <<row, consent>> PROVE Goal
  BY <1>u DEF Goal, Session
<1>3. CASE ForgetSavedPassword
  <2>1. /\ row # NoRow /\ row' = [row EXCEPT !.pw = FALSE, !.gen = NextGen]
        /\ consent' = [consent EXCEPT !.pw = FALSE]
    BY <1>3 DEF ForgetSavedPassword
  <2>2. row' # NoRow
    <3>1. NextGen \in Generations
      BY FreshGeneration DEF SessionInv
    <3> QED BY <2>1, <3>1, <1>t, RowRenewals, SeeingRows
  <2>3. Session' = [Session EXCEPT !.pw = FALSE]
    BY <1>s, <1>t, <2>1, <2>2 DEF Seeing, Rows
  <2> QED
    BY <2>1, <2>3, <1>s DEF Goal, Register!RegisterNext, Register!ForgetPassword
<1>4. ASSUME row # NoRow, row' = Seen(row), UNCHANGED consent PROVE Goal
  <2>1. row' # NoRow
    BY <1>4, <1>t, RowChanges, SeeingRows
  <2>2. Session' = [Session EXCEPT !.idle = "active"]
    BY <1>s, <1>t, <1>4, <2>1 DEF Seeing, Seen, Rows
  <2>3. Register!Use
    BY <1>4, <1>s, <2>2 DEF Register!Use, Register!Becomes
  <2> QED BY <1>b, <2>3, <1>4
<1>5. CASE ComesBy
  BY <1>4, <1>5 DEF ComesBy
<1>6. CASE ConfirmExtends
  BY <1>4, <1>6, <1>u DEF ConfirmExtends
<1>7. CASE Idles
  <2>1. /\ row # NoRow /\ UNCHANGED consent
        /\ row' = [row EXCEPT !.idle = IF @ = "active" THEN "due" ELSE "over"]
    BY <1>7 DEF Idles
  <2>2. row' # NoRow
    BY <2>1, <1>t, RowChanges, SeeingRows
  <2>3. PICK i \in {"due", "over"} : row' = [row EXCEPT !.idle = i]
    BY <2>1
  <2>4. Session' = [Session EXCEPT !.idle = i]
    BY <1>s, <1>t, <2>1, <2>2, <2>3 DEF Seeing, Rows
  <2>5. Register!Idle
    BY <1>s, <2>1, <2>4 DEF Register!Idle, Register!Becomes
  <2> QED BY <1>b, <2>1, <2>5
<1>8. CASE Expires
  <2>1. row # NoRow /\ UNCHANGED consent /\ row' = [row EXCEPT !.alive = FALSE]
    BY <1>8 DEF Expires
  <2>2. row' # NoRow
    BY <2>1, <1>t, RowChanges, SeeingRows
  <2>3. Session' = [Session EXCEPT !.alive = FALSE]
    BY <1>s, <1>t, <2>1, <2>2 DEF Seeing, Rows
  <2>4. Register!Die
    BY <1>s, <2>1, <2>3 DEF Register!Die, Register!Becomes
  <2> QED BY <1>b, <2>1, <2>4
\* The generation says that the cookie descends from the sign-in on record.
<1>9. CASE CallSaves
  <2>1. CASE ~Still(call.gen)
    BY <1>9, <2>1, <1>u DEF CallSaves
  <2>2. CASE Still(call.gen)
    <3>1. row # NoRow /\ call.latest = row.latest
      BY <1>9, <2>2 DEF CallSaves, SessionInv, CallKnows, Still
    <3>2. UNCHANGED consent /\ row' = Renewed
      BY <1>9, <2>2 DEF CallSaves
    <3>3. row' # NoRow
      <4>1. NextGen \in Generations
        BY FreshGeneration DEF SessionInv
      <4>2. call.latest \in BOOLEAN
        BY DEF SessionInv, SessionTypeOK, CallRecords
      <4>3. Renewed \in Rows
        BY <3>1, <4>1, <4>2, <1>t DEF Renewed, Rows
      <4> QED BY <3>2, <4>3, SeeingRows
    <3>4. Session' = [Session EXCEPT !.alive = TRUE]
      BY <1>s, <1>t, <3>1, <3>2, <3>3 DEF Renewed, Seeing, Rows
    <3>5. Register!Renew
      BY <1>s, <3>1, <3>2, <3>4 DEF Register!Renew, Register!Becomes
    <3> QED BY <1>b, <3>1, <3>5
  <2> QED BY <2>1, <2>2
\* The generation says that the password is saved still.
<1>10. CASE WorkerSaves
  <2>1. CASE ~Still(work.at)
    BY <1>10, <2>1, <1>u DEF WorkerSaves
  <2>2. CASE Still(work.at)
    <3>1. row # NoRow /\ row.pw
      BY <1>10, <2>2 DEF WorkerSaves, SessionInv, WorkKnows, Still
    <3>2. UNCHANGED consent /\ row' = Recovered
      BY <1>10, <2>2 DEF WorkerSaves
    <3>3. row' # NoRow
      <4>1. NextGen \in Generations
        BY FreshGeneration DEF SessionInv
      <4> QED BY <3>1, <3>2, <4>1, <1>t, RowRenewals, SeeingRows DEF Recovered
    <3>4. Session' = [latest |-> TRUE, alive |-> TRUE, pw |-> TRUE, idle |-> Session.idle]
      <4>1. Session = Seeing(row) /\ Session' = Seeing(row')
        BY <1>s, <3>1, <3>3
      <4>2. row \in Rows /\ row.pw = TRUE
        BY <1>t, <3>1 DEF Rows
      <4>3. Seeing(Recovered) = [latest |-> TRUE, alive |-> TRUE, pw |-> TRUE, idle |-> row.idle]
        BY <4>2 DEF Recovered, Seeing, Rows
      <4>4. Seeing(row).idle = row.idle
        BY DEF Seeing
      <4> QED BY <3>2, <4>1, <4>3, <4>4
    <3>5. Session.pw
      BY <1>s, <3>1 DEF Seeing
    <3>6. Register!Recover
      BY <1>s, <3>1, <3>2, <3>4, <3>5 DEF Register!Recover, Register!Becomes
    <3> QED BY <1>b, <3>1, <3>6
  <2> QED BY <2>1, <2>2
\* The generation says that the session has expired.
<1>11. CASE WorkerRetires
  <2>1. CASE ~Still(work.gen)
    BY <1>11, <2>1, <1>u DEF WorkerRetires
  <2>2. CASE Still(work.gen)
    <3>1. row # NoRow /\ ~row.alive /\ row' = NoRow /\ UNCHANGED consent
      BY <1>11, <2>2 DEF WorkerRetires, SessionInv, WorkKnows, Still
    <3>2. Register!GiveUp
      BY <1>s, <3>1 DEF Register!GiveUp, Register!Becomes, Seeing
    <3> QED BY <1>b, <3>1, <3>2
  <2> QED BY <2>1, <2>2
<1>12. CASE WarmRetires
  <2>1. CASE ~(row # NoRow /\ row.idle = "over")
    BY <1>12, <2>1, <1>u DEF WarmRetires
  <2>2. CASE row # NoRow /\ row.idle = "over"
    <3>1. row' = NoRow /\ UNCHANGED consent
      BY <1>12, <2>2 DEF WarmRetires
    <3>2. Register!GiveUp
      BY <1>s, <2>2, <3>1 DEF Register!GiveUp, Register!Becomes, Seeing
    <3> QED BY <1>b, <2>2, <3>2
  <2> QED BY <2>1, <2>2
\* What the reminder leaves in the row is not the household's.
<1>13. CASE TokenAges \/ WarmMarks \/ WarmUnsent
  <2>1. CASE UNCHANGED row
    BY <1>13, <2>1, <1>u DEF TokenAges, WarmMarks, WarmUnsent
  <2>2. CASE row # NoRow /\ \/ row' = [row EXCEPT !.token = FALSE]
                            \/ row' = [row EXCEPT !.told = TRUE, !.token = TRUE]
                            \/ row' = [row EXCEPT !.told = FALSE, !.token = FALSE]
    <3>1. row' # NoRow /\ UNCHANGED consent
      BY <1>13, <2>2, <1>t, RowChanges, SeeingRows DEF TokenAges, WarmMarks, WarmUnsent
    <3>2. Seeing(row') = Seeing(row)
      BY <2>2, <1>t DEF Seeing, Rows
    <3> QED BY <1>s, <2>2, <3>1, <3>2 DEF Goal
  <2> QED
    BY <1>13, <2>1, <2>2 DEF TokenAges, WarmMarks, WarmUnsent
<1>14. CASE (\E pw \in BOOLEAN : StartLink(pw)) \/ LinkRefused \/ LinkDone \/ ConfirmFinds
              \/ PageCalls \/ CallServed \/ CallFails \/ CallExpired \/ CallReports
  BY <1>14, <1>u DEF StartLink, LinkRefused, LinkDone, ConfirmFinds, PageCalls, CallServed,
                     CallFails, CallExpired, CallReports
<1>15. CASE WorkerTakes \/ WorkerBlind \/ WorkerReads \/ WorkerSignsIn \/ WorkerAccepted
              \/ WorkerRejected \/ WorkerDefers \/ BackoffEnds
  BY <1>15, <1>u DEF WorkerTakes, WorkerBlind, WorkerReads, WorkerSignsIn, WorkerAccepted,
                     WorkerRejected, WorkerDefers, BackoffEnds, WorkTo
<1>16. CASE WarmLists \/ WarmSent \/ NothingToSend \/ WarmRenews \/ WarmSkips \/ SessionRestart
              \/ UNCHANGED sessionVars
  BY <1>16, <1>u DEF WarmLists, WarmSent, NothingToSend, WarmRenews, WarmSkips, SessionRestart,
                     sessionVars
<1> QED
  BY <1>1, <1>2, <1>3, <1>5, <1>6, <1>7, <1>8, <1>9, <1>10, <1>11, <1>12, <1>13, <1>14,
     <1>15, <1>16
  DEF SessionNext, SessionEvent, SessionWork, Linking, Calling, Working, Warming, Confirming

\* The session goes through the changes of the abstract register only, whatever interleaves.
THEOREM Implements == SessionSpec => ImplementsRegister
<1>1. SessionInv /\ SessionInv' /\ [SessionNext]_sessionVars
        => [Register!RegisterNext]_<<Session, consent>>
  BY RegisterMoves
<1> QED
  BY RegisterStarts, SessionInvariant, <1>1, PTL
  DEF SessionSpec, ImplementsRegister, Register!RegisterSpec
==============================================================================
