----------------------------- MODULE PlateReadings -----------------------------
(***************************************************************************)
(* The plate of one permit as the pages show it: the last reading that the *)
(* process has made (parking.regCache), refreshed in the background by one *)
(* reader at a time and written through by the changes that p.stonn makes. *)
(* Reader and writer meet at the council one after the other (the owner's  *)
(* lock) and store what they have in any order.                            *)
(***************************************************************************)
CONSTANTS Cars, NoCar

VARIABLES
  actual,      \* the plate at the council
  cached,      \* the reading: NoCar when there is none, and whether it is recent
  reader,      \* refreshCurrentVehicle: step, what it read, forgotten since
  writer       \* SetVehicle: step, what it put on, forgotten since

plateVars == <<actual, cached, reader, writer>>

NotBusy == [pc |-> "idle", car |-> NoCar, void |-> FALSE]
Busy == [pc : {"idle", "asked", "done"}, car : Cars \union {NoCar}, void : BOOLEAN]

PlateTypeOK ==
  /\ actual \in Cars
  /\ cached \in [car : Cars \union {NoCar}, fresh : BOOLEAN]
  /\ reader \in Busy /\ writer \in Busy

PlateInit ==
  /\ actual \in Cars
  /\ cached = [car |-> NoCar, fresh |-> FALSE]
  /\ reader = NotBusy /\ writer = NotBusy

\* CurrentVehicleCached: a page is shown what there is; what is old is read again.
PageShows ==
  /\ ~cached.fresh /\ reader.pc = "idle"
  /\ reader' = [NotBusy EXCEPT !.pc = "asked"]
  /\ UNCHANGED <<actual, cached, writer>>

ReaderReads ==
  /\ reader.pc = "asked"
  /\ reader' = [reader EXCEPT !.pc = "done", !.car = actual]
  /\ UNCHANGED <<actual, cached, writer>>

\* Fault: a reader that fails is never heard of again.
ReaderHangs ==
  /\ reader.pc = "asked"
  /\ reader' = [reader EXCEPT !.pc = "done", !.car = NoCar]
  /\ UNCHANGED <<actual, cached, writer>>

ReaderFails ==
  /\ reader.pc = "asked"
  /\ reader' = NotBusy
  /\ UNCHANGED <<actual, cached, writer>>

\* storeRegIfCurrent.
Stores(p) == cached' = IF p.void THEN cached ELSE [car |-> p.car, fresh |-> TRUE]

ReaderStores ==
  /\ reader.pc = "done" /\ reader.car # NoCar
  /\ Stores(reader) /\ reader' = NotBusy
  /\ UNCHANGED <<actual, writer>>

WriterStarts ==
  /\ writer.pc = "idle"
  /\ writer' = [NotBusy EXCEPT !.pc = "asked"]
  /\ UNCHANGED <<actual, cached, reader>>

WriterWrites(c) ==
  /\ writer.pc = "asked"
  /\ actual' = c
  /\ writer' = [writer EXCEPT !.pc = "done", !.car = c]
  /\ UNCHANGED <<cached, reader>>

\* The write fails, whether it landed or not: nothing is stored.
WriterFails(c) ==
  /\ writer.pc = "asked"
  /\ actual' \in {actual, c}
  /\ writer' = NotBusy
  /\ UNCHANGED <<cached, reader>>

WriterStores ==
  /\ writer.pc = "done"
  /\ Stores(writer) /\ writer' = NotBusy
  /\ UNCHANGED <<actual, reader>>

\* ForgetPermit: what is under way is void.
Voided(p) == [p EXCEPT !.void = (p.pc # "idle")]

ForgetPermit ==
  /\ cached' = [car |-> NoCar, fresh |-> FALSE]
  /\ reader' = Voided(reader) /\ writer' = Voided(writer)
  /\ UNCHANGED actual

PortalChanges(c) == actual' = c /\ UNCHANGED <<cached, reader, writer>>

GrowsOld ==
  /\ cached.fresh
  /\ cached' = [cached EXCEPT !.fresh = FALSE]
  /\ UNCHANGED <<actual, reader, writer>>

PlateEvent ==
  \/ ReaderFails \/ WriterStarts \/ ForgetPermit
  \/ \E c \in Cars : WriterFails(c) \/ PortalChanges(c)

PlateWork ==
  \/ PageShows \/ ReaderReads \/ ReaderStores \/ WriterStores \/ GrowsOld
  \/ \E c \in Cars : WriterWrites(c)

PlateNext == PlateEvent \/ PlateWork

PlateSpec == PlateInit /\ [][PlateNext]_plateVars

------------------------------------------------------------------------------
(* Property.                                                                *)

\* A reading may be of before a write that was stored first; but once nobody changes
\* the plate any more, what the pages show becomes what is on the permit, and stays
\* so (refreshCurrentVehicle, storeRegIfCurrent).
ReadingsSettle == <>[](cached.car = actual)
==============================================================================
