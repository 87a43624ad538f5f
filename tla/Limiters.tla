------------------------------ MODULE Limiters ------------------------------
(***************************************************************************)
(* The limiters of forms and of mail (server/contact.go rateLimiter,        *)
(* notify/throttle.go sendLimiter): how often a key was let through within  *)
(* a window, in a map that is pruned now and then and, when it overflows,   *)
(* thinned: the server's keeps the keys that are refused, that of mail      *)
(* starts afresh.  The onboarding page takes its form away for as long as   *)
(* retryAfter says.                                                         *)
(***************************************************************************)
EXTENDS Naturals, Sequences, FiniteSets, SequencesExt

CONSTANTS
  Callers,      \* keys
  Limit,
  LimitWindow,  \* in ticks
  MaxKeys,      \* maxLimiterKeys
  PruneEvery

ASSUME LimiterAssumption ==
  /\ {Limit, LimitWindow, PruneEvery} \subseteq Nat \ {0} /\ MaxKeys \in Nat
  /\ IsFiniteSet(Callers)

VARIABLES
  limiter,   \* which of the two
  hits,      \* key -> ages of what it was let through for; none when not in the map
  asks,      \* since the last pruning
  barred     \* history: key -> ticks until its form is due back, 0 when it is there

limiterVars == <<limiter, hits, asks, barred>>

OldestFirst(ages) == \A i, j \in DOMAIN ages : i < j => ages[i] >= ages[j]
Ages == {ages \in Seq(0..LimitWindow) : Len(ages) <= Limit /\ OldestFirst(ages)}

LimiterTypeOK ==
  /\ limiter \in {"form", "mail"} /\ asks \in 0..PruneEvery
  /\ \A k \in Callers : hits[k] \in Ages
  /\ barred \in [Callers -> 0..LimitWindow]

LimiterInit ==
  /\ limiter \in {"form", "mail"}
  /\ hits = [k \in Callers |-> <<>>] /\ asks = 0 /\ barred = [k \in Callers |-> 0]

\* keepAfter: what has left the window was noted first.
Live(ages) ==
  LET fresh == {i \in DOMAIN ages : ages[i] < LimitWindow}
  IN IF fresh = {} THEN <<>> ELSE SubSeq(ages, Min(fresh), Len(ages))

Tracked(h) == {k \in Callers : h[k] # <<>>}
AtLimit(h, k) == Len(Live(h[k])) >= Limit

\* The amortised sweep: keys with nothing live go; the form's leaves the caller's alone
\* and the others' stale entries in place.
Pruned(key) ==
  [k \in Callers |-> IF limiter = "form"
                     THEN IF k # key /\ Live(hits[k]) = <<>> THEN <<>> ELSE hits[k]
                     ELSE Live(hits[k])]

\* An overflow keeps what is refused, unless that overflows by itself.
Thinned(h) ==
  LET blocked == {k \in Callers : AtLimit(h, k)}
  IN [k \in Callers |-> IF k \in blocked /\ Cardinality(blocked) <= MaxKeys THEN h[k] ELSE <<>>]

\* Fault: an overflow clears the map.
ClearedOut(h) == [k \in Callers |-> <<>>]

Room(h) == Thinned(h)

Swept(key) ==
  LET sweep == asks + 1 >= PruneEvery
      full == Cardinality(Tracked(hits)) > MaxKeys
      pruned == IF sweep THEN Pruned(key) ELSE hits
  IN IF limiter = "form"
     THEN IF Cardinality(Tracked(pruned)) > MaxKeys THEN Room(pruned) ELSE pruned
     ELSE IF full THEN [k \in Callers |-> <<>>] ELSE pruned

\* What an overflow may forget of what is refused: everything, when that alone overflows,
\* or when it is mail.
Overrun ==
  /\ Cardinality(Tracked(hits)) > MaxKeys
  /\ limiter = "form" => Cardinality({k \in Callers : AtLimit(hits, k)}) > MaxKeys

retryAfter(h, k) == IF AtLimit(h, k) THEN LimitWindow - Head(Live(h[k])) ELSE 0

\* The call is counted whether it is let through or not, the hit only when it is.
allow(key) ==
  LET kept == Live(Swept(key)[key])
      lets == Len(kept) < Limit
      after == [Swept(key) EXCEPT ![key] = IF lets THEN Append(kept, 0) ELSE kept]
  IN /\ hits' = after
     /\ asks' = IF asks + 1 >= PruneEvery \/ (limiter = "mail" /\ Cardinality(Tracked(hits)) > MaxKeys)
                 THEN 0 ELSE asks + 1
     /\ barred' = [k \in Callers |->
                     IF k = key THEN IF lets THEN retryAfter(after, key) ELSE barred[key]
                     ELSE IF Overrun THEN 0 ELSE barred[k]]
     /\ UNCHANGED limiter

Aged(ages) == [i \in DOMAIN ages |-> IF ages[i] < LimitWindow THEN ages[i] + 1 ELSE LimitWindow]

LimiterTick ==
  /\ hits' = [k \in Callers |-> Aged(hits[k])]
  /\ barred' = [k \in Callers |-> IF barred[k] = 0 THEN 0 ELSE barred[k] - 1]
  /\ UNCHANGED <<limiter, asks>>

LimiterNext == LimiterTick \/ \E k \in Callers : allow(k)

------------------------------------------------------------------------------
\* A key that has used up its limit is refused until its oldest hit leaves the window, for
\* exactly as long as the page was told, whatever other keys are tried meanwhile, unless
\* those that are refused overflow the map by themselves (allow, retryAfter).
StaysBarred ==
  \A k \in Callers : limiter = "form" => retryAfter(hits, k) = barred[k]
==============================================================================
