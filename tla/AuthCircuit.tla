------------------------------ MODULE AuthCircuit ------------------------------
(***************************************************************************)
(* The circuit of one council's sign-in service: every call that needs a   *)
(* fresh token asks it first (provider/orikan/oidc.go), and while the      *)
(* service is down a single probe at a time is let through, ever more      *)
(* rarely (provider/orikan/authcircuit.go).  Time is counted in ticks.     *)
(***************************************************************************)
EXTENDS Naturals

CONSTANTS
  Requests,    \* authorize requests that may be under way together
  Trip,        \* authTripThreshold
  ProbeBase,   \* authProbeBase, authProbeMax
  ProbeMax,
  Flight       \* ticks a request may take: the HTTP client's timeout

ASSUME AuthCircuitAssumption ==
  /\ {Trip, ProbeBase, ProbeMax, Flight} \subseteq Nat
  /\ 0 < Trip /\ Flight < ProbeBase /\ ProbeBase <= ProbeMax

VARIABLES
  fails,       \* failures since the last success, while closed
  open, wait,  \* openUntil: whether it is set, and the ticks until it
  backoff, probing,
  request      \* each request: not under way, admitted, or the probe
               \* and for how long

authVars == <<fails, open, wait, backoff, probing, request>>

AuthTypeOK ==
  /\ fails \in 0..Trip /\ open \in BOOLEAN
  /\ wait \in 0..ProbeMax /\ backoff \in 0..ProbeMax /\ probing \in BOOLEAN
  /\ request \in [Requests -> [as : {"none", "plain", "probe"}, age : 0..Flight]]

NoRequest == [as |-> "none", age |-> 0]

AuthInit ==
  /\ fails = 0 /\ open = FALSE /\ wait = 0 /\ backoff = 0 /\ probing = FALSE
  /\ request = [r \in Requests |-> NoRequest]

Is(r, as) == request[r].as = as
Becomes(r, as) == request' = [request EXCEPT ![r] = [as |-> as, age |-> 0]]
Ends(r) == request' = [request EXCEPT ![r] = NoRequest]

\* allow.
Admit(r) ==
  /\ Is(r, "none") /\ ~open
  /\ Becomes(r, "plain")
  /\ UNCHANGED <<fails, open, wait, backoff, probing>>

AdmitProbe(r) ==
  /\ Is(r, "none") /\ open /\ ~probing /\ wait = 0
  /\ probing' = TRUE
  /\ Becomes(r, "probe")
  /\ UNCHANGED <<fails, open, wait, backoff>>

\* Fault: no cap.
DoubledForGood == 2 * backoff

Doubled == IF 2 * backoff > ProbeMax THEN ProbeMax ELSE 2 * backoff

\* onUpstreamFailure: a server error, or none reached.
Fails(r) ==
  /\ ~Is(r, "none") /\ Ends(r)
  /\ \/ /\ Is(r, "probe")
        /\ probing' = FALSE /\ open' = TRUE
        /\ backoff' = Doubled /\ wait' = Doubled
        /\ UNCHANGED fails
     \/ Is(r, "plain") /\ open /\ UNCHANGED <<fails, open, wait, backoff, probing>>
     \/ /\ Is(r, "plain") /\ ~open
        /\ fails' = fails + 1
        /\ IF fails' >= Trip THEN open' = TRUE /\ backoff' = ProbeBase /\ wait' = ProbeBase
           ELSE UNCHANGED <<open, backoff, wait>>
        /\ UNCHANGED probing

\* onSuccess: a code, or a genuine expiry.
Serves(r) ==
  /\ ~Is(r, "none") /\ Ends(r)
  /\ probing' = (probing /\ ~Is(r, "probe"))
  /\ fails' = 0 /\ open' = FALSE /\ backoff' = 0 /\ wait' = 0

\* Fault: a probe that says nothing is never done.
InconclusiveHolds(r) ==
  /\ ~Is(r, "none") /\ Ends(r)
  /\ wait' = IF Is(r, "probe") /\ open THEN backoff ELSE wait
  /\ UNCHANGED <<fails, open, backoff, probing>>

\* onInconclusive: push-back of the edge, an odd page, our own cancellation.
Inconclusive(r) ==
  /\ ~Is(r, "none") /\ Ends(r)
  /\ probing' = (probing /\ ~Is(r, "probe"))
  /\ wait' = IF Is(r, "probe") /\ open THEN backoff ELSE wait
  /\ UNCHANGED <<fails, open, backoff>>

Aged(r) == IF Is(r, "none") THEN request[r] ELSE [request[r] EXCEPT !.age = @ + 1]

\* Fault: a request has no timeout.
AuthTickFreely ==
  /\ wait' = IF wait = 0 THEN 0 ELSE wait - 1
  /\ UNCHANGED <<fails, open, backoff, probing, request>>

\* A tick passes; no request outlives the client's timeout.
AuthTick ==
  /\ \A r \in Requests : ~Is(r, "none") => request[r].age < Flight
  /\ wait' = IF wait = 0 THEN 0 ELSE wait - 1
  /\ request' = [r \in Requests |-> Aged(r)]
  /\ UNCHANGED <<fails, open, backoff, probing>>

AuthEvent == \E r \in Requests : Fails(r) \/ Inconclusive(r)
Asks == \E r \in Requests : Admit(r) \/ AdmitProbe(r)
AuthWork == Asks \/ AuthTick \/ \E r \in Requests : Serves(r)

AuthNext == AuthEvent \/ AuthWork

AuthSpec == AuthInit /\ [][AuthNext]_authVars

------------------------------------------------------------------------------
(* Properties.                                                              *)

\* An open circuit waits at least the first interval between its probes, however long
\* the outage: no outcome of a request from before it opened is left to close it
\* under a probe, which would then double a backoff of nothing and hammer the
\* service (onSuccess, onUpstreamFailure, and the client's timeout).
BacksOff == open => backoff >= ProbeBase
==============================================================================
