------------------------------- MODULE Channels -------------------------------
(***************************************************************************)
(* How one person is reached (notify_pref; server/settings.go, the confirm  *)
(* button of ntfy_confirm.go).  Every form reads the whole row, changes its *)
(* part and writes the whole row back; a tap on the phone stamps the row    *)
(* from yet another request.  Mail may only be off once a push to the topic *)
(* has been seen on a device.  (A mailer and a push server are configured.) *)
(***************************************************************************)
EXTENDS Naturals

CONSTANTS
  Forms,       \* requests of this person under way at the same time
  MaxTopics    \* bound: topics ever made

ASSUME ChannelAssumption == MaxTopics \in Nat

Topics == 1..MaxTopics
Row == [email : BOOLEAN, push : BOOLEAN, topic : 0..MaxTopics, stamp : BOOLEAN]
NoPref == [topic |-> 0]
Defaults == [email |-> TRUE, push |-> FALSE, topic |-> 0, stamp |-> FALSE]

VARIABLES
  pref,        \* the row, or NoPref
  lastTopic,   \* the last topic made (RandomTopic)
  work,        \* form -> what it is about to write, or the test it has minted
  tests,       \* messages on phones: where they were published, what the button confirms
  reached,     \* history: topics whose message was tapped on a device
  astray       \* history: a button was tapped on a message to another topic than its own

channelVars == <<pref, lastTopic, work, tests, reached, astray>>

NoWork == [todo |-> "none"]
Write == [todo : {"write"}, row : Row]
Publish == [todo : {"publish"}, token : Topics]

ChannelTypeOK ==
  /\ pref \in Row \cup {NoPref} /\ lastTopic \in 0..MaxTopics
  /\ work \in [Forms -> Write \cup Publish \cup {NoWork}]
  /\ tests \subseteq Topics \X Topics /\ reached \subseteq Topics /\ astray \in BOOLEAN

ChannelInit ==
  /\ pref = NoPref /\ lastTopic = 0 /\ work = [f \in Forms |-> NoWork]
  /\ tests = {} /\ reached = {} /\ astray = FALSE

\* GetNotifyPref: without a row, mail is on and push is off.
Pref == IF pref = NoPref THEN Defaults ELSE pref

Will(f, what) == work[f] = NoWork /\ work' = [work EXCEPT ![f] = what]

\* Fault: a tap on an unconfirmed topic is not waited for.
TypedIsEnough(p) == p.push

Confirmed(p) == p.stamp

\* saveNotify: one of the two stays on, and mail unless the topic read is confirmed.
SaveNotify(f, email, push) ==
  /\ email \/ push
  /\ email \/ Confirmed(Pref)
  /\ Will(f, [todo |-> "write", row |-> [Pref EXCEPT !.email = email, !.push = push]])
  /\ UNCHANGED <<pref, lastTopic, tests, reached, astray>>

NewTopic == lastTopic < MaxTopics /\ lastTopic' = lastTopic + 1

\* regenTopic: push is on, and mail is again.
RegenTopic(f) ==
  /\ NewTopic
  /\ Will(f, [todo |-> "write", row |-> [email |-> TRUE, push |-> TRUE, topic |-> lastTopic + 1, stamp |-> FALSE]])
  /\ UNCHANGED <<pref, tests, reached, astray>>

\* settingsPage: a topic for whoever has none.
SettingsPage(f) ==
  /\ Pref.topic = 0 /\ NewTopic
  /\ Will(f, [todo |-> "write", row |-> [Pref EXCEPT !.topic = lastTopic + 1]])
  /\ UNCHANGED <<pref, tests, reached, astray>>

\* Fault: a stamp outlives its topic.
KeepStamp(row) == IF pref # NoPref THEN pref.stamp ELSE row.stamp

\* The row's own stamp while the topic is unchanged.
StampFor(row) == IF pref # NoPref /\ pref.topic = row.topic THEN pref.stamp ELSE row.stamp

SetNotifyPref(f) ==
  /\ work[f].todo = "write"
  /\ pref' = [work[f].row EXCEPT !.stamp = StampFor(work[f].row)]
  /\ work' = [work EXCEPT ![f] = NoWork]
  /\ UNCHANGED <<lastTopic, tests, reached, astray>>

\* The store failed.
WriteFails(f) ==
  /\ work[f].todo = "write" /\ work' = [work EXCEPT ![f] = NoWork]
  /\ UNCHANGED <<pref, lastTopic, tests, reached, astray>>

\* ntfyConfirmURL: a button for the topic as read here ...
MintConfirm(f) ==
  /\ Pref.push /\ Pref.topic # 0 /\ ~Pref.stamp
  /\ Will(f, [todo |-> "publish", token |-> Pref.topic])
  /\ UNCHANGED <<pref, lastTopic, tests, reached, astray>>

\* ... on a message to the topic as read by SendTest and SendTestPush.
PublishTest(f) ==
  /\ work[f].todo = "publish"
  /\ tests' = IF Pref.push /\ Pref.topic # 0 THEN tests \cup {<<Pref.topic, work[f].token>>} ELSE tests
  /\ work' = [work EXCEPT ![f] = NoWork]
  /\ UNCHANGED <<pref, lastTopic, reached, astray>>

\* Fault: whatever topic the button was for.
AnyTopic(t) == t \in Topics /\ pref # NoPref

ItsTopic(t) == pref # NoPref /\ pref.topic = t

\* The button is tapped on a phone; ntfyConfirm, ConfirmNtfy.
Tap(t, u) ==
  /\ <<t, u>> \in tests /\ reached' = reached \cup {t} /\ astray' = (astray \/ t # u)
  /\ pref' = IF ItsTopic(u) THEN [pref EXCEPT !.stamp = TRUE] ELSE pref
  /\ UNCHANGED <<lastTopic, work, tests>>

\* A day on, the button is refused.
TokenExpires(t, u) ==
  /\ <<t, u>> \in tests /\ tests' = tests \ {<<t, u>>}
  /\ UNCHANGED <<pref, lastTopic, work, reached, astray>>

\* The person leaves a household, or their account goes.
PrefRowGone ==
  /\ pref # NoPref /\ pref' = NoPref
  /\ UNCHANGED <<lastTopic, work, tests, reached, astray>>

------------------------------------------------------------------------------
PersonActs ==
  \/ \E f \in Forms, email, push \in BOOLEAN : SaveNotify(f, email, push)
  \/ \E f \in Forms : RegenTopic(f) \/ SettingsPage(f) \/ MintConfirm(f)
  \/ \E t, u \in Topics : Tap(t, u)
  \/ PrefRowGone

ChannelWork ==
  \/ \E f \in Forms : SetNotifyPref(f) \/ WriteFails(f) \/ PublishTest(f)
  \/ \E t, u \in Topics : TokenExpires(t, u)

ChannelNext == PersonActs \/ ChannelWork

\* The component by itself.
ChannelSpec == ChannelInit /\ [][ChannelNext]_channelVars

------------------------------------------------------------------------------
\* Nobody is left with a push channel alone which no device has ever shown to work,
\* however saves, new topics, tests and taps overtake one another (saveNotify,
\* regenTopic, SetNotifyPref, ConfirmNtfy).  Left out, because the code does lose it: the
\* topic changes between the minting of a button and the sending of its message, so that
\* the tap stamps a topic on which nothing was sent.
NeverUnheard == ~astray => Pref.email \/ (Pref.push /\ Pref.topic \in reached)
==============================================================================
