-------------------------------- MODULE Nudges --------------------------------
(***************************************************************************)
(* The notes a household gets once and never again: after signing up        *)
(* without going on, a fortnight after the first change, at the first       *)
(* change made elsewhere, about an invitation nobody answered and about     *)
(* passes nobody used (scheduler/housekeeping.go, drift.go).  Each is sent  *)
(* first and marked afterwards.  The last two are about somebody not        *)
(* acting, and share a gap.                                                 *)
(***************************************************************************)
EXTENDS Naturals, FiniteSets

CONSTANTS
  Invited,   \* addresses the household invites
  Passes,    \* emailed passes
  NoInvite,
  NudgeGap   \* inactionNudgeGap, in the steps time passes in

OnceNotes == {"welcome", "fortnight", "portal"}
Nudged == OnceNotes \cup Invited \cup Passes

ASSUME NudgeAssumption ==
  /\ NudgeGap \in Nat /\ NoInvite \notin Invited
  /\ Invited \cap Passes = {} /\ OnceNotes \cap (Invited \cup Passes) = {}

VARIABLES
  flags,     \* account_flags: the notes marked sent
  invite,    \* account_member: none, fresh, waiting (long enough), reminded, accepted
  pass,      \* guest_grant: fresh, waiting, noted, used
  progress,  \* how far the household is: agreed, linked, changed (a first change)
  noteAge,   \* last_nudge_at: its age, NudgeGap and beyond as one
  stage,     \* where the sweep is
  todo,      \* what it read at the head of the stage
  about,     \* the invitation it is at
  tellOwner, \* what InactionNudgeAllowed said
  gone,      \* the note is out, or its address refuses mail: to be marked
  copies,    \* history: copies of each note
  quietFor,  \* history: time since the household last heard of somebody not acting
  close,     \* history: heard of it twice within the gap
  sure      \* history: no note was lost track of between sending and marking

nudgeVars == <<flags, invite, pass, progress, noteAge, stage, todo, about, tellOwner,
               gone, copies, quietFor, close, sure>>
household == <<invite, pass, progress>>
hearsay == <<copies, quietFor, close>>
sweep == <<stage, todo, about, tellOwner, gone>>

Stages == {"idle", "welcome", "fortnight", "portal", "readInvites", "invites", "member",
           "owner", "noteOwner", "mark", "readPasses", "passes", "notePass", "markPasses"}

NudgesTypeOK ==
  /\ flags \subseteq OnceNotes /\ stage \in Stages
  /\ invite \in [Invited -> {"none", "fresh", "waiting", "reminded", "accepted"}]
  /\ pass \in [Passes -> {"fresh", "waiting", "noted", "used"}]
  /\ progress \in {"agreed", "linked", "changed"}
  /\ noteAge \in 0..NudgeGap /\ quietFor \in 0..NudgeGap
  /\ todo \subseteq Invited \cup Passes /\ about \in Invited \cup {NoInvite}
  /\ {tellOwner, gone, close, sure} \subseteq BOOLEAN
  /\ copies \in [Nudged -> 0..2]

NudgesInit ==
  /\ flags = {} /\ progress = "agreed" /\ noteAge = NudgeGap /\ quietFor = NudgeGap
  /\ invite \in [Invited -> {"none", "waiting"}] /\ pass \in [Passes -> {"fresh", "used"}]
  /\ stage = "idle" /\ todo = {} /\ about = NoInvite /\ tellOwner = FALSE /\ gone = FALSE
  /\ copies = [n \in Nudged |-> 0] /\ close = FALSE /\ sure = TRUE

Go(s) == stage' = s
Delivered(ns) == copies' = [n \in Nudged |-> IF n \in ns /\ copies[n] < 2 THEN copies[n] + 1 ELSE copies[n]]

\* A mail goes out, is refused for good (ErrSuppressed), fails, or goes out and fails.
Outcomes == {"sent", "suppressed", "failed", "unclear"}
Arrives(o) == o \in {"sent", "unclear"}
Settled(o) == o \in {"sent", "suppressed"}
Track(o) == sure' = (sure /\ o # "unclear")

Tells(o, ns) ==
  /\ Track(o)
  /\ IF Arrives(o) THEN Delivered(ns) ELSE UNCHANGED copies
TellsOfInaction(o, ns) ==
  /\ Tells(o, ns)
  /\ quietFor' = IF Arrives(o) THEN 0 ELSE quietFor
  /\ close' = (close \/ (Arrives(o) /\ quietFor < NudgeGap))

\* A row is marked, or the write fails.
Marks(ok) == sure' = (sure /\ (ok \/ ~gone))

---------------------------------------------------------------------------
\* The three notes that need nothing but a flag.
After(n) == IF n = "welcome" THEN "fortnight" ELSE IF n = "fortnight" THEN "readInvites" ELSE "idle"
Fits(n) ==
  /\ n \notin flags
  /\ n = "welcome" => progress = "agreed"
  /\ n = "fortnight" => progress = "changed"
  /\ n = "portal" => progress # "changed"

Starts ==
  /\ stage = "idle" /\ stage' \in {"welcome", "portal"}
  /\ UNCHANGED <<flags, household, noteAge, todo, about, tellOwner, gone, hearsay, sure>>

NotDue(n) ==
  /\ stage = n /\ ~gone /\ ~Fits(n) /\ Go(After(n))
  /\ UNCHANGED <<flags, household, noteAge, todo, about, tellOwner, gone, hearsay, sure>>

SendOnce(n, o) ==
  /\ stage = n /\ ~gone /\ Fits(n) /\ Tells(o, {n})
  /\ gone' = Settled(o) /\ Go(IF gone' THEN n ELSE After(n))
  /\ UNCHANGED <<flags, household, noteAge, todo, about, tellOwner, quietFor, close>>

MarkOnce(n, ok) ==
  /\ stage = n /\ gone /\ Marks(ok) /\ gone' = FALSE
  /\ flags' = IF ok THEN flags \cup {n} ELSE flags
  /\ Go(After(n))
  /\ UNCHANGED <<household, noteAge, todo, about, tellOwner, hearsay>>

\* InactionNudgeAllowed.
Allowed == noteAge = NudgeGap

\* Fault: the gap is taken from when somebody was last told in this sweep.
AlwaysAllowed == about = NoInvite

MayTell == Allowed

---------------------------------------------------------------------------
\* sweepInviteReminders
ReadInvites ==
  /\ stage = "readInvites" /\ Go("invites")
  /\ todo' = {m \in Invited : invite[m] = "waiting"}
  /\ UNCHANGED <<flags, household, noteAge, about, tellOwner, gone, hearsay, sure>>

Consider(m, ok) ==
  /\ stage = "invites" /\ m \in todo /\ todo' = todo \ {m}
  /\ IF ok THEN about' = m /\ tellOwner' = MayTell /\ Go("member")
           ELSE UNCHANGED <<about, tellOwner, stage>>
  /\ UNCHANGED <<flags, household, noteAge, gone, hearsay, sure>>

RemindMember(o) ==
  /\ stage = "member" /\ Tells(o, {about}) /\ gone' = Settled(o) /\ Go("owner")
  /\ UNCHANGED <<flags, household, noteAge, todo, about, tellOwner, quietFor, close>>

OwnerHeld ==
  /\ stage = "owner" /\ ~tellOwner /\ Go("mark")
  /\ UNCHANGED <<flags, household, noteAge, todo, about, tellOwner, gone, hearsay, sure>>

TellOwner(o) ==
  /\ stage = "owner" /\ tellOwner /\ TellsOfInaction(o, {})
  /\ gone' = (gone \/ Settled(o)) /\ Go(IF Settled(o) THEN "noteOwner" ELSE "mark")
  /\ UNCHANGED <<flags, household, noteAge, todo, about, tellOwner>>

\* MarkInactionNudged
NoteInaction(ok) ==
  /\ stage \in {"noteOwner", "notePass"} /\ Marks(ok)
  /\ noteAge' = IF ok THEN 0 ELSE noteAge
  /\ gone' = (gone /\ stage = "noteOwner")
  /\ Go(IF stage = "noteOwner" THEN "mark" ELSE "idle")
  /\ UNCHANGED <<flags, household, todo, about, tellOwner, hearsay>>

\* MarkInviteReminded: whatever invitation to that address waits by now.
MarkReminded(ok) ==
  /\ stage = "mark" /\ Marks(ok) /\ gone' = FALSE /\ about' = NoInvite /\ Go("invites")
  /\ invite' = IF gone /\ ok /\ invite[about] \in {"fresh", "waiting"}
               THEN [invite EXCEPT ![about] = "reminded"] ELSE invite
  /\ UNCHANGED <<flags, pass, progress, noteAge, todo, tellOwner, hearsay>>

InvitesDone ==
  /\ stage = "invites" /\ todo = {} /\ Go("readPasses")
  /\ UNCHANGED <<flags, household, noteAge, todo, about, tellOwner, gone, hearsay, sure>>

---------------------------------------------------------------------------
\* sweepUnusedPassNudges: one note for all of the household's passes.
ReadPasses ==
  /\ stage = "readPasses" /\ todo' = {p \in Passes : pass[p] = "waiting"}
  /\ Go(IF todo' = {} THEN "idle" ELSE "passes")
  /\ UNCHANGED <<flags, household, noteAge, about, tellOwner, gone, hearsay, sure>>

PassesHeld(ok) ==
  /\ stage = "passes" /\ (ok => ~MayTell) /\ todo' = {} /\ Go("idle")
  /\ UNCHANGED <<flags, household, noteAge, about, tellOwner, gone, hearsay, sure>>

TellOfPasses(o) ==
  /\ stage = "passes" /\ MayTell /\ TellsOfInaction(o, todo) /\ gone' = Settled(o)
  /\ todo' = IF Settled(o) THEN todo ELSE {}
  /\ Go(IF Settled(o) THEN "markPasses" ELSE "idle")
  /\ UNCHANGED <<flags, household, noteAge, about, tellOwner>>

\* Every pass is marked, or a write among them fails and the gap is not noted either.
MarkPasses(done) ==
  /\ stage = "markPasses" /\ done \subseteq todo /\ Marks(done = todo) /\ todo' = {}
  /\ pass' = [p \in Passes |-> IF p \in done /\ pass[p] # "used" THEN "noted" ELSE pass[p]]
  /\ gone' = (done = todo) /\ Go(IF gone' THEN "notePass" ELSE "idle")
  /\ UNCHANGED <<flags, invite, progress, noteAge, about, tellOwner, hearsay>>

---------------------------------------------------------------------------
\* The process stops somewhere in the sweep and starts anew.
NudgesRestart ==
  /\ stage # "idle" /\ Go("idle") /\ todo' = {} /\ about' = NoInvite /\ gone' = FALSE
  /\ sure' = (sure /\ ~gone)
  /\ UNCHANGED <<flags, household, noteAge, tellOwner, hearsay>>

\* Days pass: what is fresh has waited, and the gap runs out.
DaysPass ==
  /\ invite' = [m \in Invited |-> IF invite[m] = "fresh" THEN "waiting" ELSE invite[m]]
  /\ pass' = [p \in Passes |-> IF pass[p] = "fresh" THEN "waiting" ELSE pass[p]]
  /\ noteAge' = IF noteAge < NudgeGap THEN noteAge + 1 ELSE noteAge
  /\ quietFor' = IF quietFor < NudgeGap THEN quietFor + 1 ELSE quietFor
  /\ UNCHANGED <<flags, progress, sweep, copies, close, sure>>

\* The household invites and withdraws, the invited accept, passes are used, and the
\* household goes on setting up.
HouseholdMoves ==
  /\ \/ \E m \in Invited :
          /\ \/ invite[m] = "none" /\ invite' = [invite EXCEPT ![m] = "fresh"]
             \/ invite[m] # "none" /\ invite' = [invite EXCEPT ![m] = "none"]
             \/ invite[m] \in {"fresh", "waiting", "reminded"}
                  /\ invite' = [invite EXCEPT ![m] = "accepted"]
          /\ copies' = IF invite'[m] = "fresh" THEN [copies EXCEPT ![m] = 0] ELSE copies
          /\ UNCHANGED <<pass, progress>>
     \/ \E p \in Passes :
          /\ pass' = [pass EXCEPT ![p] = "used"] /\ UNCHANGED <<invite, progress, copies>>
     \/ /\ progress # "changed"
        /\ progress' = IF progress = "agreed" THEN "linked" ELSE "changed"
        /\ UNCHANGED <<invite, pass, copies>>
  /\ UNCHANGED <<flags, noteAge, sweep, quietFor, close, sure>>

\* A step of the sweep in which every mail and write succeeds (or the address refuses
\* mail), or in which they may fail as given.
SweepSteps(outcomes, oks, some) ==
  \/ \E n \in OnceNotes :
       \/ \E o \in outcomes : SendOnce(n, o)
       \/ \E ok \in oks : MarkOnce(n, ok)
  \/ \E o \in outcomes : RemindMember(o) \/ TellOwner(o) \/ TellOfPasses(o)
  \/ \E ok \in oks :
       \/ NoteInaction(ok) \/ MarkReminded(ok) \/ PassesHeld(ok)
       \/ \E m \in Invited : Consider(m, ok)
  \/ \E done \in some : MarkPasses(done)

NudgeEvent ==
  \/ HouseholdMoves \/ DaysPass \/ NudgesRestart
  \/ SweepSteps({"failed", "unclear"}, {FALSE}, (SUBSET todo) \ {todo})

NudgeWork ==
  \/ Starts \/ ReadInvites \/ OwnerHeld \/ InvitesDone \/ ReadPasses
  \/ \E n \in OnceNotes : NotDue(n)
  \/ SweepSteps({"sent", "suppressed"}, {TRUE}, {todo})

------------------------------------------------------------------------------
\* As long as every mail and every mark had a clear outcome, a household and those it
\* invites get each note once, and it hears of people not acting no more often than the
\* gap allows, whichever of the two sweeps tells it (sweepInviteReminders,
\* sweepUnusedPassNudges, the three notes).
OnceEver == sure => \A n \in Nudged : copies[n] <= 1
Spaced == sure => ~close
==============================================================================
