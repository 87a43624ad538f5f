---------------------------- MODULE SessionRegister ----------------------------
(***************************************************************************)
(* What p.stonn promises about the council session of a household: it is   *)
(* the household's to make and to end, and the saved password is the       *)
(* household's to give and to take back.  The background work may keep the *)
(* session of a sign-in alive, sign in again where a password is saved,    *)
(* and give up what is dead or has not been used for too long; nothing     *)
(* else.                                                                   *)
(***************************************************************************)
CONSTANT NoSession

VARIABLES
  session,   \* NoSession, or whether it descends from the latest sign-in, whether it
             \* works, whether the password is saved, how long it went unused
  consent    \* what the household last wanted: a link, and a saved password

NewSession(save) == [latest |-> TRUE, alive |-> TRUE, pw |-> save, idle |-> "active"]

\* The household's own.
SignIn(save) ==
  /\ session' = NewSession(save)
  /\ consent' = [linked |-> TRUE, pw |-> save]

SignOut ==
  /\ session # NoSession
  /\ session' = NoSession /\ consent' = [linked |-> FALSE, pw |-> FALSE]

ForgetPassword ==
  /\ session # NoSession
  /\ session' = [session EXCEPT !.pw = FALSE]
  /\ consent' = [consent EXCEPT !.pw = FALSE]

Becomes(s) == session # NoSession /\ session' = s /\ UNCHANGED consent

Use  == Becomes([session EXCEPT !.idle = "active"])
Idle == \E i \in {"due", "over"} : Becomes([session EXCEPT !.idle = i])
Die  == Becomes([session EXCEPT !.alive = FALSE])

\* A call brings back the session it used, renewed: never that of an older sign-in.
Renew == Becomes([session EXCEPT !.alive = TRUE])

\* The saved password makes a new session, which has been used no more recently.
Recover ==
  /\ session.pw
  /\ Becomes([latest |-> TRUE, alive |-> TRUE, pw |-> TRUE, idle |-> session.idle])

GiveUp == (~session.alive \/ session.idle = "over") /\ Becomes(NoSession)

RegisterInit ==
  \/ session = NoSession /\ consent = [linked |-> FALSE, pw |-> FALSE]
  \/ \E save \in BOOLEAN :
       session = NewSession(save) /\ consent = [linked |-> TRUE, pw |-> save]

RegisterNext ==
  \/ \E save \in BOOLEAN : SignIn(save)
  \/ SignOut \/ ForgetPassword
  \/ session # NoSession /\ (Use \/ Idle \/ Die \/ Renew \/ Recover \/ GiveUp)

RegisterSpec == RegisterInit /\ [][RegisterNext]_<<session, consent>>
==============================================================================
