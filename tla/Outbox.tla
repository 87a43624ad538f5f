-------------------------------- MODULE Outbox --------------------------------
(***************************************************************************)
(* The durable queue of notices (notify/outbox.go, store/notify.go): rows   *)
(* written by whoever has something to say, one addressee each, and one     *)
(* worker that sends what is due and keeps the books.  A mail that is out   *)
(* cannot be taken back, so a row whose outcome the store refuses to write  *)
(* is remembered ("parked") and nothing more is sent before it is written.  *)
(* A push is a mail to an address that never gets onto the list.            *)
(***************************************************************************)
EXTENDS Suppression, FiniteSets, Functions

CONSTANTS
  Abouts,        \* what a notice is about: with its addressee, the dedup key
  MaxRows,       \* bound: rows ever written
  MaxAttempts,   \* outboxMaxAttempts
  Batch          \* outboxBatch

ASSUME OutboxAssumption ==
  MaxRows \in Nat /\ MaxAttempts \in Nat \ {0} /\ Batch \in Nat \ {0}

Ids == 1..MaxRows
Absent == [st |-> "none"]
Row == [st : {"pending", "sent", "dead"}, to : Addresses, about : Abouts,
        critical : BOOLEAN, due : BOOLEAN, tries : 0..MaxAttempts, recent : BOOLEAN]

\* What the worker owes the store for a row (outboxUpdate).
Update == [st : {"sent", "dead", "retry"}, tries : 0..MaxAttempts]

VARIABLES
  rows,        \* the table
  lastId,     \* the last id given out (AUTOINCREMENT)
  writable,   \* the store accepts writes
  stage,         \* the worker: idle, flush, pick, look, smtp, record
  batch,      \* the rows it has read, as they were then
  message,       \* the one it is at
  update,     \* what became of it
  parked,     \* unrecorded: id -> Update
  handed,     \* history: was the row accepted by the mail server, and when
  silent      \* history: rows passed over because their address is listed

outboxVars == <<suppVars, rows, lastId, writable, stage, batch, message, update, parked, handed, silent>>
worker == <<stage, batch, message, update, parked>>
ledger == <<handed, silent>>

NoMessage == [id |-> 0]
NoUpdate == [st |-> "none"]
Item == [id : Ids, to : Addresses, critical : BOOLEAN, tries : 0..MaxAttempts]

OutboxTypeOK ==
  /\ SuppTypeOK
  /\ rows \in [Ids -> Row \cup {Absent}] /\ lastId \in 0..MaxRows
  /\ writable \in BOOLEAN
  /\ stage \in {"idle", "flush", "pick", "look", "smtp", "record"}
  /\ batch \subseteq Item /\ message \in Item \cup {NoMessage} /\ update \in Update \cup {NoUpdate}
  /\ DOMAIN parked \subseteq Ids /\ Range(parked) \subseteq Update
  /\ handed \in [Ids -> {"never", "now", "before", "twice"}] /\ silent \subseteq Ids

OutboxInit ==
  /\ SuppInit
  /\ rows = [i \in Ids |-> Absent] /\ lastId = 0 /\ writable = TRUE
  /\ stage = "idle" /\ batch = {} /\ message = NoMessage /\ update = NoUpdate /\ parked = <<>>
  /\ handed = [i \in Ids |-> "never"] /\ silent = {}

Live(i) == rows[i].st # "none"
Pending(i) == rows[i].st = "pending"

------------------------------------------------------------------------------
(* Whoever has something to say.                                            *)

\* Fault: an id is free again when its row is gone (no AUTOINCREMENT).
LowestId == IF \A i \in Ids : Live(i) THEN 0
            ELSE CHOOSE i \in Ids : ~Live(i) /\ \A j \in 1..(i - 1) : Live(j)

NextId == IF lastId = MaxRows THEN 0 ELSE lastId + 1

\* A copy that waits, or went out in the last quarter of an hour; a dead one is none.
HasTwin(a, b) ==
  \E i \in Ids : Live(i) /\ rows[i].to = a /\ rows[i].about = b
                 /\ (Pending(i) \/ (rows[i].st = "sent" /\ rows[i].recent))

\* Fault: only a copy that waits counts.
HasWaitingTwin(a, b) == \E i \in Ids : Pending(i) /\ rows[i].to = a /\ rows[i].about = b

Duplicate(a, b) == HasTwin(a, b)

\* EnqueueOutbox, one statement.  A notice held for the night is not due yet.
EnqueueOutbox(a, b, critical, held) ==
  /\ writable /\ ~Duplicate(a, b) /\ NextId # 0
  /\ rows' = [rows EXCEPT ![NextId] = [st |-> "pending", to |-> a, about |-> b,
       critical |-> critical, due |-> ~held, tries |-> 0, recent |-> FALSE]]
  /\ lastId' = IF NextId > lastId THEN NextId ELSE lastId
  /\ handed' = [handed EXCEPT ![NextId] = "never"]
  /\ silent' = silent \ {NextId}
  /\ UNCHANGED <<suppVars, writable, worker>>

\* An account is deleted, and every row about it.
DeleteAccountRows ==
  /\ writable
  /\ rows' = [i \in Ids |-> Absent]
  /\ UNCHANGED <<suppVars, lastId, writable, worker, ledger>>

\* A member leaves: what has not gone out to them yet.
DropPending(a) ==
  /\ writable
  /\ \E i \in Ids : Pending(i) /\ rows[i].to = a
  /\ rows' = [i \in Ids |-> IF Pending(i) /\ rows[i].to = a THEN Absent ELSE rows[i]]
  /\ UNCHANGED <<suppVars, lastId, writable, worker, ledger>>

------------------------------------------------------------------------------
(* The worker.                                                              *)

Rest == /\ stage' = "idle" /\ batch' = {} /\ message' = NoMessage /\ update' = NoUpdate

StartDrain ==
  /\ stage = "idle" /\ stage' = "flush"
  /\ UNCHANGED <<suppVars, rows, lastId, writable, batch, message, update, parked, ledger>>

\* What an update makes of a row; of one that is gone, nothing.
After(i, u) ==
  IF ~Live(i) THEN rows[i]
  ELSE CASE u.st = "sent" -> [rows[i] EXCEPT !.st = "sent", !.recent = TRUE]
         [] u.st = "dead" -> [rows[i] EXCEPT !.st = "dead", !.tries = u.tries]
         [] u.st = "retry" -> [rows[i] EXCEPT !.tries = u.tries, !.due = FALSE]

\* What is owed comes first ...
FlushOne(i) ==
  /\ stage = "flush" /\ i \in DOMAIN parked /\ writable
  /\ rows' = [rows EXCEPT ![i] = After(i, parked[i])]
  /\ parked' = Restrict(parked, DOMAIN parked \ {i})
  /\ UNCHANGED <<suppVars, lastId, writable, stage, batch, message, update, ledger>>

\* ... and while it is refused nothing is sent.
FlushRefused ==
  /\ stage = "flush" /\ parked # <<>> /\ ~writable
  /\ Rest /\ UNCHANGED <<suppVars, rows, lastId, writable, parked, ledger>>

DueIds == {i \in Ids : Pending(i) /\ rows[i].due}
FirstDue == {i \in DueIds : Cardinality({j \in DueIds : j <= i}) <= Batch}

\* Fault: a row that is parked does not stop the drain.
FlushSkipped ==
  /\ stage = "flush"
  /\ batch' = {[id |-> i, to |-> rows[i].to, critical |-> rows[i].critical,
                tries |-> rows[i].tries] : i \in FirstDue}
  /\ stage' = "pick"
  /\ UNCHANGED <<suppVars, rows, lastId, writable, message, update, parked, ledger>>

ReadDue == parked = <<>> /\ FlushSkipped

ReadFails ==
  /\ stage = "flush" /\ parked = <<>>
  /\ Rest /\ UNCHANGED <<suppVars, rows, lastId, writable, parked, ledger>>

Pick ==
  /\ stage = "pick" /\ batch # {}
  /\ \E n \in batch :
       /\ \A m \in batch : n.id <= m.id
       /\ message' = n /\ batch' = batch \ {n}
  /\ stage' = "look"
  /\ UNCHANGED <<suppVars, rows, lastId, writable, update, parked, ledger>>

Drained ==
  /\ stage = "pick" /\ batch = {}
  /\ Rest /\ UNCHANGED <<suppVars, rows, lastId, writable, parked, ledger>>

\* IsSuppressed: a listed address is passed over, and its row is done with.
LookMuted ==
  /\ stage = "look" /\ Muted(message.to, message.critical)
  /\ update' = [st |-> "sent", tries |-> 0] /\ stage' = "record"
  /\ silent' = silent \cup {message.id}
  /\ UNCHANGED <<suppVars, rows, lastId, writable, batch, message, parked, handed>>

\* A list that cannot be read stops no notice.
LookOpen(readable) ==
  /\ stage = "look" /\ (readable => ~Muted(message.to, message.critical))
  /\ stage' = "smtp"
  /\ UNCHANGED <<suppVars, rows, lastId, writable, batch, message, update, parked, ledger>>

Accepted ==
  /\ stage = "smtp"
  /\ update' = [st |-> "sent", tries |-> 0] /\ stage' = "record"
  /\ handed' = [handed EXCEPT ![message.id] = IF @ \in {"now", "twice"} THEN "twice" ELSE "now"]
  /\ UNCHANGED <<suppVars, rows, lastId, writable, batch, message, parked, silent>>

\* Fault: a failure is not counted.
FailedUncounted == [st |-> "retry", tries |-> message.tries]

Failed == IF message.tries + 1 >= MaxAttempts THEN [st |-> "dead", tries |-> message.tries + 1]
          ELSE [st |-> "retry", tries |-> message.tries + 1]

TempFails ==
  /\ stage = "smtp"
  /\ update' = Failed /\ stage' = "record"
  /\ UNCHANGED <<suppVars, rows, lastId, writable, batch, message, parked, ledger>>

\* A refusal for good; one of the address puts it on the list, if that can be written.
Refused(badAddress) ==
  /\ stage = "smtp"
  /\ update' = [st |-> "dead", tries |-> message.tries + 1] /\ stage' = "record"
  /\ listed' = IF badAddress /\ writable THEN Suppressed(message.to, "bounce") ELSE listed
  /\ UNCHANGED <<complained, rows, lastId, writable, batch, message, parked, ledger>>

Record ==
  /\ stage = "record" /\ writable
  /\ rows' = [rows EXCEPT ![message.id] = After(message.id, update)]
  /\ stage' = "pick" /\ message' = NoMessage /\ update' = NoUpdate
  /\ UNCHANGED <<suppVars, lastId, writable, batch, parked, ledger>>

\* park: the rest of the batch is left for another pass.
Park ==
  /\ stage = "record" /\ ~writable
  /\ parked' = [i \in DOMAIN parked \cup {message.id} |-> IF i = message.id THEN update ELSE parked[i]]
  /\ Rest /\ UNCHANGED <<suppVars, rows, lastId, writable, ledger>>

------------------------------------------------------------------------------
(* Time, the disk, and the process.                                         *)

\* A backoff or a quiet night ends.
BecomesDue(i) ==
  /\ Pending(i) /\ ~rows[i].due
  /\ rows' = [rows EXCEPT ![i].due = TRUE]
  /\ UNCHANGED <<suppVars, lastId, writable, worker, ledger>>

\* outboxDedupWindow has passed.
SentAges(i) ==
  /\ rows[i].st = "sent" /\ rows[i].recent
  /\ rows' = [rows EXCEPT ![i].recent = FALSE]
  /\ UNCHANGED <<suppVars, lastId, writable, worker, ledger>>

\* PurgeSentOutbox, a day on, by the worker between two drains.
Purge ==
  /\ stage = "idle" /\ writable
  /\ LET old == {i \in Ids : rows[i].st = "dead" \/ (rows[i].st = "sent" /\ ~rows[i].recent)}
     IN /\ old # {}
        /\ rows' = [i \in Ids |-> IF i \in old THEN Absent ELSE rows[i]]
  /\ UNCHANGED <<suppVars, lastId, writable, worker, ledger>>

DiskFills == writable /\ writable' = FALSE
             /\ UNCHANGED <<suppVars, rows, lastId, worker, ledger>>

DiskClears == ~writable /\ writable' = TRUE
              /\ UNCHANGED <<suppVars, rows, lastId, worker, ledger>>

OutboxRestart ==
  /\ Rest /\ parked' = <<>>
  /\ handed' = [i \in Ids |-> IF handed[i] = "now" THEN "before" ELSE handed[i]]
  /\ UNCHANGED <<suppVars, rows, lastId, writable, silent>>

------------------------------------------------------------------------------
Sends == \/ TempFails \/ \E bad \in BOOLEAN : Refused(bad)

Drains ==
  \/ StartDrain \/ FlushRefused \/ ReadDue \/ Pick \/ Drained
  \/ LookMuted \/ LookOpen(TRUE) \/ Accepted \/ Record \/ Park
  \/ \E i \in Ids : FlushOne(i)

OutboxEvent ==
  \/ \E a \in Addresses : ListChanges(a) /\ UNCHANGED <<rows, lastId, writable, worker, ledger>>
  \/ \E a \in Addresses, b \in Abouts, critical, held \in BOOLEAN : EnqueueOutbox(a, b, critical, held)
  \/ \E a \in Addresses : DropPending(a)
  \/ DeleteAccountRows \/ DiskFills \/ OutboxRestart \/ ReadFails \/ LookOpen(FALSE)

OutboxWork ==
  \/ Drains \/ Sends \/ DiskClears \/ Purge
  \/ \E i \in Ids : BecomesDue(i) \/ SentAges(i)

OutboxNext == OutboxEvent \/ OutboxWork

OutboxSpec == OutboxInit /\ [][OutboxNext]_outboxVars

------------------------------------------------------------------------------
(* Properties.                                                              *)

\* One process does not send a notice twice, whatever the store refuses to write
\* down in between (record, park, flushUnrecorded).
SentOnce == \A i \in Ids : handed[i] # "twice"

\* A row on record as sent was taken by the mail server, or passed over because its
\* address asked for that: no row is closed with the outcome of another, also when
\* rows are deleted while the worker still owes them one (MarkOutboxSent).
SentIsTrue == \A i \in Ids : rows[i].st = "sent" => handed[i] # "never" \/ i \in silent

\* What a dedup key is for: no second copy of a notice that waits or has just gone
\* out (EnqueueOutbox).
NoTwins ==
  \A i, j \in Ids : i # j /\ Live(i) /\ Live(j) /\ rows[i].to = rows[j].to /\ rows[i].about = rows[j].about
    => ~(Pending(i) /\ (Pending(j) \/ (rows[j].st = "sent" /\ rows[j].recent)))

\* Every notice is delivered, given up after its attempts, or withdrawn: none stays in
\* the queue for ever (drainOutbox).
RowsSettle == \A i \in Ids : Pending(i) ~> ~Pending(i)
==============================================================================
