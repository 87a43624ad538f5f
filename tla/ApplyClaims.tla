---------------------------- MODULE ApplyClaims ----------------------------
(***************************************************************************)
(* The claims on permits, several at a time (scheduler.go AcquireApply and  *)
(* tryApply, guest_doorqr.go claimPermitApplies): a revocation claims every *)
(* permit its link reaches, one after the other in ascending order, waits a *)
(* while for each and goes on without those it cannot get; a request claims *)
(* one; a pass claims one if it is free.  PermitApply has what is done      *)
(* under the claim of one permit.                                           *)
(***************************************************************************)
EXTENDS Naturals, FiniteSets

CONSTANTS
  Claimants,    \* requests, revocations and passes
  PermitIds     \* numbers

NoClaimant == "nobody"

ASSUME ClaimsAssumption == PermitIds \subseteq Nat /\ NoClaimant \notin Claimants

VARIABLES
  applying,   \* permit -> whose claim is on it
  toClaim,    \* claimant -> permits yet to be claimed
  inLine,     \* claimant -> the permit it waits for, or none
  behind,     \* claimant -> whose channel it waits on
  working     \* claimants that have what they could get

claimVars == <<applying, toClaim, inLine, behind, working>>

ClaimsTypeOK ==
  /\ applying \in [PermitIds -> Claimants \cup {NoClaimant}]
  /\ toClaim \in [Claimants -> SUBSET PermitIds]
  /\ inLine \in [Claimants -> SUBSET PermitIds]
  /\ behind \in [Claimants -> Claimants \cup {NoClaimant}]
  /\ working \subseteq Claimants

ClaimsInit ==
  /\ applying = [p \in PermitIds |-> NoClaimant]
  /\ toClaim = [w \in Claimants |-> {}] /\ inLine = [w \in Claimants |-> {}]
  /\ behind = [w \in Claimants |-> NoClaimant] /\ working = {}

ClaimsOf(w) == {p \in PermitIds : applying[p] = w}
Unoccupied(w) == toClaim[w] = {} /\ w \notin working

\* A revocation with the permits of its link, a request with its own.
Wants(w, permits) ==
  /\ Unoccupied(w) /\ permits # {} /\ toClaim' = [toClaim EXCEPT ![w] = permits]
  /\ UNCHANGED <<applying, inLine, behind, working>>

\* Done with a permit, claimed or given up; after the last one the work begins.
Proceeds(w, p) ==
  /\ toClaim' = [toClaim EXCEPT ![w] = @ \ {p}]
  /\ working' = IF toClaim[w] = {p} THEN working \cup {w} ELSE working

\* sort.Slice.
Ascending(w, p) == p \in toClaim[w] /\ \A q \in toClaim[w] : p <= q

\* Fault: in the order the permits were listed.
AsListed(w, p) == p \in toClaim[w]

IsNext(w, p) == Ascending(w, p)

\* tryApply.
tryApply(w, p) ==
  /\ IsNext(w, p) /\ inLine[w] = {} /\ applying[p] = NoClaimant
  /\ applying' = [applying EXCEPT ![p] = w] /\ Proceeds(w, p) /\ UNCHANGED <<inLine, behind>>

\* It is taken: wait on the channel of whoever holds it.
Queues(w, p) ==
  /\ IsNext(w, p) /\ inLine[w] = {} /\ applying[p] # NoClaimant
  /\ inLine' = [inLine EXCEPT ![w] = {p}] /\ behind' = [behind EXCEPT ![w] = applying[p]]
  /\ UNCHANGED <<applying, toClaim, working>>

\* The time is up: a revocation goes on without the claim, a request has none.
GivesUp(w, p) ==
  /\ inLine[w] = {p} /\ Proceeds(w, p)
  /\ inLine' = [inLine EXCEPT ![w] = {}] /\ behind' = [behind EXCEPT ![w] = NoClaimant]
  /\ UNCHANGED applying

\* A pass skips a permit that is taken.
PassSkips(w, p) ==
  /\ toClaim[w] = {p} /\ inLine[w] = {} /\ ClaimsOf(w) = {} /\ applying[p] # NoClaimant
  /\ toClaim' = [toClaim EXCEPT ![w] = {}] /\ UNCHANGED <<applying, inLine, behind, working>>

\* All it holds, when it is through; the channels are closed, and those behind try again.
Releases(w) ==
  /\ w \in working /\ working' = working \ {w}
  /\ applying' = [p \in PermitIds |-> IF applying[p] = w THEN NoClaimant ELSE applying[p]]
  /\ inLine' = [v \in Claimants |-> IF behind[v] = w THEN {} ELSE inLine[v]]
  /\ behind' = [v \in Claimants |-> IF behind[v] = w THEN NoClaimant ELSE behind[v]]
  /\ UNCHANGED toClaim

ClaimsNext ==
  \E w \in Claimants :
    \/ Releases(w) \/ \E permits \in SUBSET PermitIds : Wants(w, permits)
    \/ \E p \in PermitIds : tryApply(w, p) \/ Queues(w, p) \/ GivesUp(w, p) \/ PassSkips(w, p)

------------------------------------------------------------------------------
\* Nobody waits for somebody who waits for them, through however many others: what is
\* waited for is being worked under, or about to be, and the time limits are for slow work
\* alone (claimPermitApplies: "ids are claimed in a stable order so two multi-permit
\* revocations cannot deadlock").  And whoever waits, waits for one who holds what is
\* wanted: a release wakes them (AcquireApply).
NoRing ==
  /\ \A S \in SUBSET Claimants :
       S # {} => \E w \in S : inLine[w] = {} \/ behind[w] \notin S
  /\ \A w \in Claimants : \A p \in inLine[w] : applying[p] = behind[w]
==============================================================================
