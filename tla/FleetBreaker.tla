----------------------------- MODULE FleetBreaker -----------------------------
(***************************************************************************)
(* The circuit that pauses all traffic to one council when its edge pushes *)
(* back several households at once (parking/breaker.go), the calls that    *)
(* pass through it (withSession, Link), and the row that carries the pause *)
(* across a restart (persistBreaker, SaveBreakerState).                    *)
(*                                                                         *)
(* Time is a clock of ticks.  A deadline is kept as the ticks left to it,  *)
(* so that no variable grows with the age of the process; the generation   *)
(* of the circuit alone does.                                              *)
(***************************************************************************)
EXTENDS Naturals, FiniteSets

CONSTANTS
  Owners,
  Threshold,       \* distinct owners pushed back before the circuit opens
  Window,          \* ... within this many ticks
  Cooldown,        \* ticks the circuit stays open
  MaxCooldown,     \* maxBreakerCooldown: the longest Retry-After honoured
  ProbeInterval,   \* ticks between two probes
  RetryAfters      \* what a push-back asks for; 0 when it asks for nothing

ASSUME BreakerAssumption ==
  /\ {Threshold, Window, Cooldown, MaxCooldown, ProbeInterval} \subseteq Nat
  /\ ProbeInterval > 0
  /\ ProbeInterval <= Cooldown /\ Cooldown <= MaxCooldown
  /\ RetryAfters \subseteq Nat

\* An owner's calls on its session take turns (ownerLock); it may be signing in
\* meanwhile, one owner at a time (loginFlow).
Calls == Owners \X {"session", "login"}
OwnerOf(c) == c[1]

VARIABLES
  circuit, left,     \* openUntil: closed; or open, and how long yet
  gen,               \* generation
  tally,             \* recent: how long each owner's push-back counts yet
  resting,           \* owners in a cooldown of their own (penalize)
  pc, permit, snap,  \* calls: step, permit, snapshot to be stored
  saved,             \* the row in breaker_state
  opened,            \* history: calls during which the circuit has opened
  lease,             \* history: time left until another probe may go
  asked,             \* history: what is left of the longest Retry-After since
                     \* the circuit last closed
  unsaved, blind     \* history: a save failed; the row was not read at the start

breaker == <<circuit, left, gen, tally>>
calls   == <<pc, permit, snap>>
history == <<opened, lease, asked, unsaved, blind>>
vars == <<breaker, resting, calls, saved, history>>

Pauses == [circuit : {"closed", "open"}, left : 0..MaxCooldown, gen : Nat]

TypeOK ==
  /\ circuit \in {"closed", "open"} /\ left \in 0..MaxCooldown /\ gen \in Nat
  /\ tally \in [Owners -> 0..(Window + 1)]
  /\ resting \subseteq Owners
  /\ pc \in [Calls -> {"idle", "sent", "persist", "saving"}]
  /\ permit \in [Calls -> [probe : BOOLEAN, gen : Nat]]
  /\ snap \in [Calls -> Pauses]
  /\ saved \in Pauses
  /\ opened \subseteq Calls
  /\ lease \in 0..ProbeInterval /\ asked \in 0..MaxCooldown
  /\ unsaved \in BOOLEAN /\ blind \in BOOLEAN

NoPermit == [probe |-> FALSE, gen |-> 0]
NoPause  == [circuit |-> "closed", left |-> 0, gen |-> 0]

Init ==
  /\ circuit = "closed" /\ left = 0 /\ gen = 0
  /\ tally = [o \in Owners |-> 0]
  /\ resting = {}
  /\ pc = [c \in Calls |-> "idle"]
  /\ permit = [c \in Calls |-> NoPermit] /\ snap = [c \in Calls |-> NoPause]
  /\ saved = NoPause
  /\ opened = {} /\ lease = 0 /\ asked = 0 /\ unsaved = FALSE /\ blind = FALSE

Goto(c, step) == pc' = [pc EXCEPT ![c] = step]
Larger(m, n)  == IF m < n THEN n ELSE m
Smaller(m, n) == IF m < n THEN m ELSE n

\* blockedLocked.
Blocked == circuit = "open" /\ left > 0

------------------------------------------------------------------------------
(* A call.                                                                  *)

\* A call may start: neither its owner's cooldown nor its locks hold it back.
MayStart(c) ==
  /\ pc[c] = "idle" /\ OwnerOf(c) \notin resting
  /\ c[2] = "login" => \A d \in Calls : d[2] = "login" => pc[d] = "idle"

\* allow: everything passes a closed circuit, ...
AllowClosed(c) ==
  /\ MayStart(c) /\ circuit = "closed"
  /\ permit' = [permit EXCEPT ![c] = [probe |-> FALSE, gen |-> gen]]
  /\ Goto(c, "sent")
  /\ opened' = opened \ {c}
  /\ UNCHANGED <<breaker, resting, snap, saved, lease, asked, unsaved, blind>>

\* Fault: the probe does not hold the others back.
AllowProbeFreely(c) ==
  /\ MayStart(c) /\ circuit = "open" /\ left = 0
  /\ permit' = [permit EXCEPT ![c] = [probe |-> TRUE, gen |-> gen]]
  /\ Goto(c, "sent")
  /\ opened' = opened \ {c}
  /\ lease' = ProbeInterval
  /\ UNCHANGED <<breaker, resting, snap, saved, asked, unsaved, blind>>

\* ... one call an open one whose time is up, as its probe; the next has to wait.
AllowProbe(c) ==
  /\ MayStart(c) /\ circuit = "open" /\ left = 0
  /\ left' = ProbeInterval
  /\ permit' = [permit EXCEPT ![c] = [probe |-> TRUE, gen |-> gen]]
  /\ Goto(c, "sent")
  /\ opened' = opened \ {c}
  /\ lease' = ProbeInterval
  /\ UNCHANGED <<circuit, gen, tally, resting, snap, saved, asked, unsaved, blind>>

\* onSuccess of a call that does not close the circuit: it only leaves the tally.
Forgive(o) ==
  /\ resting' = resting \ {o}
  /\ tally' = [tally EXCEPT ![o] = 0]

\* Fault: any probe will do, or only one that answers within its interval.
ClosesAnyEpisode(c) == circuit = "open" /\ permit[c].probe
ClosesInTime(c) ==
  circuit = "open" /\ permit[c].probe /\ permit[c].gen = gen /\ lease > 0

Closes(c) == circuit = "open" /\ permit[c].probe /\ permit[c].gen = gen

SucceedQuietly(c) ==
  /\ pc[c] = "sent" /\ ~Closes(c)
  /\ Forgive(OwnerOf(c))
  /\ Goto(c, "idle")
  /\ UNCHANGED <<circuit, left, gen, permit, snap, saved, history>>

\* Fault: closing is no new generation.
ResumeSameGeneration(c) ==
  /\ pc[c] = "sent" /\ Closes(c)
  /\ Forgive(OwnerOf(c))
  /\ circuit' = "closed" /\ left' = 0 /\ UNCHANGED gen
  /\ Goto(c, "persist")
  /\ asked' = 0
  /\ UNCHANGED <<permit, snap, saved, opened, lease, unsaved, blind>>

\* The probe's success closes it, and is on its way to be stored.
Resume(c) ==
  /\ pc[c] = "sent" /\ Closes(c)
  /\ Forgive(OwnerOf(c))
  /\ circuit' = "closed" /\ left' = 0 /\ gen' = gen + 1
  /\ Goto(c, "persist")
  /\ asked' = 0
  /\ UNCHANGED <<permit, snap, saved, opened, lease, unsaved, blind>>

\* The owners whose push-backs count once o has been pushed back, too.
Struck(o) == {o} \union {p \in Owners : tally[p] > 0}

\* Fault: whatever the edge asks for.
PauseUncapped(retryAfter) == Larger(Cooldown, retryAfter)

Pause(retryAfter) == Smaller(Larger(Cooldown, retryAfter), MaxCooldown)

\* penalize, onPushback: the owner rests; the circuit opens for enough owners,
\* or again if it was pausing traffic.
PushedBack(c, retryAfter) ==
  /\ pc[c] = "sent"
  /\ resting' = resting \union {OwnerOf(c)}
  /\ tally' = [tally EXCEPT ![OwnerOf(c)] = Window + 1]
  /\ IF Cardinality(Struck(OwnerOf(c))) >= Threshold \/ Blocked
     THEN /\ circuit' = "open" /\ left' = Pause(retryAfter) /\ gen' = gen + 1
          /\ opened' = Calls
          /\ asked' = Larger(asked, Smaller(retryAfter, MaxCooldown))
     ELSE UNCHANGED <<circuit, left, gen, opened, asked>>
  /\ Goto(c, "persist")
  /\ UNCHANGED <<permit, snap, saved, lease, unsaved, blind>>

\* An outcome that says nothing of the edge: an expired session, a bad page.
Neutral(c) ==
  /\ pc[c] = "sent"
  /\ Goto(c, "idle")
  /\ UNCHANGED <<breaker, resting, permit, snap, saved, history>>

\* persistBreaker reads the circuit again, under a lock of its own, ...
Snapshot(c) ==
  /\ pc[c] = "persist"
  /\ snap' = [snap EXCEPT ![c] = [circuit |-> circuit, left |-> left, gen |-> gen]]
  /\ Goto(c, "saving")
  /\ UNCHANGED <<breaker, resting, permit, saved, history>>

\* ... and the row takes it unless it holds a later one.
Save(c) ==
  /\ pc[c] = "saving"
  /\ saved' = IF snap[c].gen >= saved.gen THEN snap[c] ELSE saved
  /\ unsaved' = (unsaved /\ snap[c].gen # gen)
  /\ Goto(c, "idle")
  /\ UNCHANGED <<breaker, resting, permit, snap, opened, lease, asked, blind>>

SaveFails(c) ==
  /\ pc[c] = "saving"
  /\ unsaved' = TRUE
  /\ Goto(c, "idle")
  /\ UNCHANGED <<breaker, resting, permit, snap, saved, opened, lease, asked, blind>>

------------------------------------------------------------------------------
(* Time, and the process.                                                   *)

Less(n) == IF n = 0 THEN 0 ELSE n - 1

Tick ==
  /\ left' = Less(left)
  /\ tally' = [o \in Owners |-> Less(tally[o])]
  /\ snap' = [c \in Calls |-> [snap[c] EXCEPT !.left = Less(@)]]
  /\ saved' = [saved EXCEPT !.left = Less(@)]
  /\ lease' = Less(lease) /\ asked' = Less(asked)
  /\ UNCHANGED <<circuit, gen, resting, pc, permit, opened, unsaved, blind>>

\* An owner's own cooldown ends.
RestEnds(o) ==
  /\ o \in resting
  /\ resting' = resting \ {o}
  /\ UNCHANGED <<breaker, calls, saved, history>>

\* What a new process starts from, whatever it reads of the row.
Afresh ==
  /\ tally' = [o \in Owners |-> 0]
  /\ resting' = {}
  /\ pc' = [c \in Calls |-> "idle"]
  /\ permit' = [c \in Calls |-> NoPermit] /\ snap' = [c \in Calls |-> NoPause]
  /\ opened' = {} /\ lease' = 0 /\ asked' = 0
  /\ UNCHANGED saved

\* restore: the pause of the row, its deadline passed or not.
Restart ==
  /\ Afresh
  /\ circuit' = saved.circuit /\ left' = saved.left /\ gen' = saved.gen
  /\ unsaved' = FALSE /\ blind' = FALSE

\* LoadBreakerState fails: the circuit is closed, of the first generation.
RestartBlind ==
  /\ Afresh
  /\ circuit' = "closed" /\ left' = 0 /\ gen' = 0
  /\ unsaved' = FALSE /\ blind' = TRUE

------------------------------------------------------------------------------
Event ==
  \/ \E c \in Calls :
       Neutral(c) \/ SaveFails(c) \/ \E r \in RetryAfters : PushedBack(c, r)
  \/ Restart \/ RestartBlind

Allow(c) == AllowClosed(c) \/ AllowProbe(c)

Answer(c) == SucceedQuietly(c) \/ Resume(c) \/ Snapshot(c) \/ Save(c)

Work ==
  \/ \E c \in Calls : Allow(c) \/ Answer(c)
  \/ \E o \in Owners : RestEnds(o)
  \/ Tick

Next == Event \/ Work

Spec == Init /\ [][Next]_vars

------------------------------------------------------------------------------
(* Properties.                                                              *)

\* The circuit is closed only by the success of a call that was let through
\* after it last opened: an answer to anything older says nothing of the block
\* having cleared (onSuccess).
OnlyFreshProbeCloses ==
  [][circuit = "open" /\ circuit' = "closed" =>
       \/ \E c \in Calls : pc[c] = "sent" /\ pc'[c] = "persist" /\ c \notin opened
       \/ RestartBlind \/ Restart]_vars

\* While a block may be in force no two calls test it within a probe interval,
\* closing and opening again included (allow).
NoStampede ==
  [][\A c \in Calls : circuit = "open" /\ pc[c] = "idle" /\ pc'[c] = "sent" =>
       lease = 0]_vars

\* Nobody is about to store anything.
Stored == (\A c \in Calls : pc[c] \notin {"persist", "saving"}) /\ ~unsaved /\ ~blind

\* Whatever the order in which the calls stored what they saw, the row is then of
\* the circuit as it is now: no pause is lost to a restart, and none brought back
\* (SaveBreakerState).
RowIsCurrent == Stored => saved.gen = gen /\ saved.circuit = circuit

\* "A Retry-After larger than the default cooldown must be honoured, so the breaker
\* never probes sooner than the edge told us to" (breaker_test.go:163), up to the
\* cap.
RetryAfterHonoured ==
  [][\A c \in Calls : circuit = "open" /\ pc[c] = "idle" /\ pc'[c] = "sent" =>
       asked = 0]_vars
==============================================================================
