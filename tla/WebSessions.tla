------------------------------ MODULE WebSessions ------------------------------
(***************************************************************************)
(* How one person is signed in to the app (session/session.go,              *)
(* webauth/webauth.go, store/sessions.go, store/oauth.go).  Nothing is kept *)
(* about a session but the signed cookie in the browser, which a visit      *)
(* renews when it is half spent; what makes it revocable is the person's    *)
(* epoch, stored, held in memory, and stamped into each cookie.             *)
(***************************************************************************)
EXTENDS Integers

CONSTANTS
  Browsers,
  Ttl, MaxAge,   \* of a cookie; of a session, however often it is renewed
  MaxEpoch,      \* bound: revocations
  NoCookie

ASSUME WebAssumption == {Ttl, MaxAge, MaxEpoch} \subseteq Nat \ {0} /\ MaxAge >= Ttl

\* exp is what is left of it and iat how long ago the session began; of the history, born
\* is the epoch when the person signed in, since how long ago that was, gap the time since
\* the last visit, steady whether none was longer than half a cookie's life, raced
\* whether a renewal overlapped a revocation.
Cookie == [exp : 0..Ttl, iat : 0..MaxAge, ep : 0..MaxEpoch, admin : BOOLEAN,
           born : 0..MaxEpoch, since : 0..MaxAge, gap : 0..Ttl, steady : BOOLEAN, raced : BOOLEAN]

VARIABLES
  epoch,     \* session_epoch
  known,     \* Manager.epochs
  revoking,  \* revokeSessions under way: epochs stored, not yet known
  admin,     \* what the provider says of the person's groups
  login,     \* browser -> none, away at the provider, or back from it
  cookie,    \* browser -> Cookie or NoCookie
  renewing,  \* browser -> the cookie of a request that is to be renewed, or NoCookie
  done,      \* history: epochs whose revocation is over
  inOrder    \* history: revocations have been known in the order they were stored

webVars == <<epoch, known, revoking, admin, login, cookie, renewing, done, inOrder>>
people0 == <<epoch, known, revoking, admin, done, inOrder>>

WebTypeOK ==
  /\ epoch \in 0..MaxEpoch /\ known \in 0..epoch /\ revoking \subseteq 1..epoch
  /\ admin \in BOOLEAN /\ login \in [Browsers -> {"none", "away", "back"}]
  /\ cookie \in [Browsers -> Cookie \cup {NoCookie}]
  /\ renewing \in [Browsers -> Cookie \cup {NoCookie}]
  /\ done \subseteq 1..epoch /\ inOrder \in BOOLEAN

WebInit ==
  /\ epoch = 0 /\ known = 0 /\ revoking = {} /\ admin \in BOOLEAN
  /\ login = [b \in Browsers |-> "none"]
  /\ cookie = [b \in Browsers |-> NoCookie] /\ renewing = [b \in Browsers |-> NoCookie]
  /\ done = {} /\ inOrder = TRUE

---------------------------------------------------------------------------
\* The ceiling of a session, shorter for one with an administrator's rights.
Ceiling(c) == IF c.admin THEN Ttl ELSE MaxAge

\* Decode.
Accepts(c) == c # NoCookie /\ c.exp > 0 /\ c.ep >= known /\ c.iat < Ceiling(c)

HalfSpent(c) == 2 * c.exp < Ttl

\* Issue: a session that begins now, by the groups that the provider has just told.
Issue(b) ==
  cookie' = [cookie EXCEPT ![b] =
    [exp |-> Ttl, iat |-> 0, ep |-> known, admin |-> admin,
     born |-> epoch, since |-> 0, gap |-> 0, steady |-> TRUE, raced |-> FALSE]]

\* The state is stored, and tied to the browser; it is taken once, and not too late.
Login(b) ==
  /\ login[b] = "none" /\ login' = [login EXCEPT ![b] = "away"]
  /\ UNCHANGED <<people0, cookie, renewing>>

TakeOAuthState(b) ==
  /\ login[b] = "away" /\ login' = [login EXCEPT ![b] = "back"]
  /\ UNCHANGED <<people0, cookie, renewing>>

Callback(b) ==
  /\ login[b] = "back" /\ login' = [login EXCEPT ![b] = "none"] /\ Issue(b)
  /\ UNCHANGED <<people0, renewing>>

\* The state is too old, or the exchange comes to nothing.
LoginFails(b) ==
  /\ login[b] # "none" /\ login' = [login EXCEPT ![b] = "none"]
  /\ UNCHANGED <<people0, cookie, renewing>>

Logout(b) ==
  /\ cookie[b] # NoCookie /\ cookie' = [cookie EXCEPT ![b] = NoCookie]
  /\ UNCHANGED <<people0, login, renewing>>

\* A request with a cookie that is good and not half spent.
Visits(b) ==
  /\ Accepts(cookie[b]) /\ ~HalfSpent(cookie[b])
  /\ cookie' = [cookie EXCEPT ![b].gap = 0]
  /\ UNCHANGED <<people0, login, renewing>>

\* A request that is to renew it: checked here ...
Decode(b) ==
  /\ renewing[b] = NoCookie /\ Accepts(cookie[b]) /\ HalfSpent(cookie[b])
  /\ renewing' = [renewing EXCEPT ![b] = cookie[b]]
  /\ UNCHANGED <<people0, login, cookie>>

\* Fault: a renewed cookie begins a session.
FromNow(c) == 0

SessionBegan(c) == c.iat

\* ... and issued anew here, under the epoch of this moment.
Renews(b) ==
  LET c == renewing[b]
  IN /\ c # NoCookie /\ renewing' = [renewing EXCEPT ![b] = NoCookie]
     /\ cookie' = [cookie EXCEPT ![b] =
          [c EXCEPT !.exp = Ttl, !.iat = SessionBegan(c), !.ep = known, !.gap = 0,
                    !.raced = @ \/ ~Accepts(c)]]
     /\ UNCHANGED <<people0, login>>

\* The answer is lost: the old cookie is as good as before.
RenewalLost(b) ==
  /\ renewing[b] # NoCookie /\ renewing' = [renewing EXCEPT ![b] = NoCookie]
  /\ cookie' = IF cookie[b] = NoCookie THEN cookie ELSE [cookie EXCEPT ![b].steady = FALSE]
  /\ UNCHANGED <<people0, login>>

---------------------------------------------------------------------------
\* revokeSessions, after an account is deleted, left or taken away: stored ...
BumpSessionEpoch ==
  /\ epoch < MaxEpoch /\ epoch' = epoch + 1 /\ revoking' = revoking \cup {epoch + 1}
  /\ UNCHANGED <<known, admin, login, cookie, renewing, done, inOrder>>

\* ... and in force, whatever is in force by then.
RevokeTo(n) ==
  /\ n \in revoking /\ revoking' = revoking \ {n} /\ known' = n
  /\ done' = done \cup {n} /\ inOrder' = (inOrder /\ known < n)
  /\ UNCHANGED <<epoch, admin, login, cookie, renewing>>

RoleChanges ==
  /\ admin' = ~admin
  /\ UNCHANGED <<epoch, known, revoking, login, cookie, renewing, done, inOrder>>

\* Fault: what was revoked is forgotten.
Forgotten == 0

\* AllSessionEpochs; without it the process does not start.
SetEpochs == epoch

WebRestart ==
  /\ known' = SetEpochs /\ revoking' = {} /\ done' = 1..epoch /\ inOrder' = TRUE
  /\ renewing' = [b \in Browsers |-> NoCookie]
  /\ login' = [b \in Browsers |-> IF login[b] = "back" THEN "none" ELSE login[b]]
  /\ UNCHANGED <<epoch, admin, cookie>>

Older(c) ==
  [c EXCEPT !.exp = IF @ = 0 THEN 0 ELSE @ - 1, !.iat = IF @ = MaxAge THEN @ ELSE @ + 1,
            !.since = IF @ = MaxAge THEN @ ELSE @ + 1, !.gap = IF @ = Ttl THEN @ ELSE @ + 1,
            !.steady = @ /\ 2 * (c.gap + 1) < Ttl]

\* A request takes no time to speak of.
WebTick ==
  /\ \A b \in Browsers : renewing[b] = NoCookie
  /\ cookie' = [b \in Browsers |-> IF cookie[b] = NoCookie THEN NoCookie ELSE Older(cookie[b])]
  /\ UNCHANGED <<people0, login, renewing>>

WebEvent ==
  \/ BumpSessionEpoch \/ RoleChanges \/ WebRestart
  \/ \E b \in Browsers : Login(b) \/ Logout(b)

WebWork ==
  \/ WebTick \/ \E n \in revoking : RevokeTo(n)
  \/ \E b \in Browsers :
       \/ TakeOAuthState(b) \/ Callback(b) \/ LoginFails(b)
       \/ Visits(b) \/ Decode(b) \/ Renews(b) \/ RenewalLost(b)

WebNext == WebEvent \/ WebWork

\* The component by itself.
WebSpec == WebInit /\ [][WebNext]_webVars

---------------------------------------------------------------------------
\* A cookie of before a revocation is refused from then on, also after a restart, and
\* renewals do not carry it over (Decode, RevokeTo, SetEpochs).  Two cases are left out:
\* a renewal that was checked before the revocation and issued after it, and revocations
\* of one person that overlap and are known in another order than they were stored.
RevokedStaysOut ==
  inOrder => \A b \in Browsers : Accepts(cookie[b]) /\ ~cookie[b].raced =>
               \A n \in done : cookie[b].born >= n

\* No session is good for longer than its ceiling after the person signed in, however
\* often it is renewed, and an administrator's for no longer than one cookie's life, also
\* when their rights have gone meanwhile (Decode).
EndsInTime == \A b \in Browsers : Accepts(cookie[b]) => cookie[b].since < Ceiling(cookie[b])

\* Who visits more often than every half life of a cookie is not signed out before that
\* (Decode): "otherwise someone mid-task is signed out at an arbitrary moment".
ActiveStaysIn ==
  \A b \in Browsers : LET c == cookie[b]
                      IN c # NoCookie /\ c.steady /\ c.since < Ceiling(c) /\ c.ep >= known => Accepts(c)
==============================================================================
