------------------------------ MODULE TenantMemo ------------------------------
(***************************************************************************)
(* The council a household is at (store/tenant.go, TenantIDFor): the one it *)
(* chose, else the first it is linked to, else the default.  The answer is  *)
(* remembered; every write that may change it forgets it afterwards, and    *)
(* counts up a number by which a reader that asked the table before the     *)
(* write sees that it must not remember what it got.                        *)
(***************************************************************************)
EXTENDS Naturals, FiniteSetsExt

CONSTANTS
  Tenants,         \* numbers, in the order of their names
  DefaultTenant,
  Resolvers,       \* requests and loops that ask
  Choosers         \* requests and loops that write

ASSUME TenantAssumption == Tenants \subseteq Nat \ {0} /\ DefaultTenant \in Tenants

NoTenant == 0

VARIABLES
  choice,      \* account_flags.council_id, or NoTenant
  linkedTo,    \* the household's rows in council_session
  memo,        \* tenantCache, or NoTenant
  resolver,    \* reader -> step, what it read, whether tenantEpoch has moved meanwhile
  chooser,     \* writer -> step
  overtaken    \* history: the memo was stored by one whom a whole write overtook after
               \* it had looked at the number

memoVars == <<choice, linkedTo, memo, resolver, chooser, overtaken>>

Resolving == [pc : {"away", "asks", "answered", "checked"}, id : Tenants \cup {NoTenant},
              moved : BOOLEAN]
NotResolving == [pc |-> "away", id |-> NoTenant, moved |-> FALSE]

MemoTypeOK ==
  /\ {choice, memo} \subseteq Tenants \cup {NoTenant} /\ linkedTo \subseteq Tenants
  /\ resolver \in [Resolvers -> Resolving]
  /\ chooser \in [Choosers -> {"away", "written", "counted"}] /\ overtaken \in BOOLEAN

MemoInit ==
  /\ choice = NoTenant /\ linkedTo = {} /\ memo = NoTenant /\ overtaken = FALSE
  /\ resolver = [r \in Resolvers |-> NotResolving] /\ chooser = [w \in Choosers |-> "away"]

CurrentTenant ==
  IF choice # NoTenant THEN choice
  ELSE IF linkedTo # {} THEN Min(linkedTo) ELSE DefaultTenant

Step(r, pc) == resolver[r].pc = pc
Returned(r) == resolver' = [resolver EXCEPT ![r] = NotResolving]
tenantRows == <<choice, linkedTo, chooser>>

\* With an answer on hand there is nothing to ask.
Resolves(r) ==
  /\ Step(r, "away") /\ memo = NoTenant
  /\ resolver' = [resolver EXCEPT ![r].pc = "asks"]
  /\ UNCHANGED <<tenantRows, memo, overtaken>>

AsksTable(r) ==
  /\ Step(r, "asks")
  /\ resolver' = [resolver EXCEPT ![r].pc = "answered", ![r].id = CurrentTenant]
  /\ UNCHANGED <<tenantRows, memo, overtaken>>

TableFails(r) == Step(r, "asks") /\ Returned(r) /\ UNCHANGED <<tenantRows, memo, overtaken>>

\* Fault: the number is not looked at again.
LooksAway(r) ==
  /\ Step(r, "answered")
  /\ resolver' = [resolver EXCEPT ![r].pc = "checked", ![r].moved = FALSE]
  /\ UNCHANGED <<tenantRows, memo, overtaken>>

ComparesEpoch(r) ==
  /\ Step(r, "answered")
  /\ resolver' = [resolver EXCEPT
       ![r] = IF @.moved THEN NotResolving ELSE [@ EXCEPT !.pc = "checked"]]
  /\ UNCHANGED <<tenantRows, memo, overtaken>>

Remembers(r) ==
  /\ Step(r, "checked")
  /\ memo' = resolver[r].id /\ overtaken' = resolver[r].moved
  /\ Returned(r) /\ UNCHANGED tenantRows

\* A choice at sign-up or from the menu, a link, an unlinked council or all of them, the
\* account deleted; or a statement that failed.
WritesTenant(w, c, ls) ==
  /\ chooser[w] = "away"
  /\ \/ c \in Tenants /\ ls = linkedTo
     \/ c = choice /\ ls \in {linkedTo \cup {t} : t \in Tenants}
     \/ c = choice /\ ls \in {linkedTo \ {t} : t \in Tenants}
     \/ c \in {choice, NoTenant} /\ ls = {}
  /\ choice' = c /\ linkedTo' = ls
  /\ chooser' = [chooser EXCEPT ![w] = "written"]
  /\ UNCHANGED <<memo, resolver, overtaken>>

\* forgetTenant: the number first, the memo after it.
CountsUp(w) ==
  /\ chooser[w] = "written"
  /\ chooser' = [chooser EXCEPT ![w] = "counted"]
  /\ resolver' = [r \in Resolvers |-> IF Step(r, "away") THEN resolver[r]
                                      ELSE [resolver[r] EXCEPT !.moved = TRUE]]
  /\ UNCHANGED <<choice, linkedTo, memo, overtaken>>

Forgets(w) ==
  /\ chooser[w] = "counted"
  /\ chooser' = [chooser EXCEPT ![w] = "away"]
  /\ memo' = NoTenant /\ overtaken' = FALSE
  /\ UNCHANGED <<choice, linkedTo, resolver>>

MemoNext ==
  \/ \E r \in Resolvers :
       Resolves(r) \/ AsksTable(r) \/ TableFails(r) \/ ComparesEpoch(r) \/ Remembers(r)
  \/ \E w \in Choosers :
       \/ \E c \in Tenants \cup {NoTenant}, ls \in SUBSET Tenants : WritesTenant(w, c, ls)
       \/ CountsUp(w) \/ Forgets(w)

\* The component by itself.
MemoSpec == MemoInit /\ [][MemoNext]_memoVars

---------------------------------------------------------------------------
\* Once the writes are over, the council remembered is the household's own, whatever
\* read the table before them (TenantIDFor: "The stale answer would then be pinned until
\* the next write").  One case is left out: the number is looked at and the answer is
\* stored in two steps, and a whole write may come between these.
MemoFollows ==
  memo # NoTenant /\ ~overtaken /\ (\A w \in Choosers : chooser[w] = "away")
    => memo = CurrentTenant
==============================================================================
