------------------------------- MODULE Mailbox -------------------------------
(***************************************************************************)
(* The operator's mailbox (server/mailbox.go, store/mail.go).  The mail     *)
(* service hands over every message it receives, again and again until it   *)
(* hears that it arrived, in any order; an answer goes out first and is     *)
(* recorded afterwards.  A message joins the thread of the nearest message  *)
(* it refers to that is on record.                                          *)
(***************************************************************************)
EXTENDS Naturals, Sequences, SequencesExt, FiniteSetsExt

CONSTANTS
  Letters,     \* what correspondents send and, as answers, the operator
  NoLetter,
  MaxMail      \* bound: rows ever written

ASSUME MailAssumption == MaxMail \in Nat /\ NoLetter \notin Letters

VARIABLES
  letters,    \* letters that were written
  refs,       \* letter -> what its headers refer to, the letter it answers last
  byUs,       \* letters of the operator's
  mail,       \* mail_message: [letter, thread, named], named: with its Message-ID
  sending,    \* an answer that is out and not recorded, with the thread it is for
  arrived,   \* letters the mail service knows have arrived
  alerts      \* history: how often the operator was alerted of a letter

mailVars == <<letters, refs, byUs, mail, sending, arrived, alerts>>

NoAnswer == [letter |-> NoLetter, thread |-> 0]

MailTypeOK ==
  /\ letters \subseteq Letters /\ byUs \subseteq letters /\ arrived \subseteq letters
  /\ DOMAIN refs = Letters /\ \A l \in Letters : Range(refs[l]) \subseteq letters \ {l}
  /\ Len(mail) <= MaxMail
  /\ \A i \in DOMAIN mail : mail[i] \in [letter : letters, thread : 1..i, named : BOOLEAN]
  /\ sending \in [letter : byUs, thread : DOMAIN mail] \cup {NoAnswer}
  /\ DOMAIN alerts = Letters

MailInit ==
  /\ letters = {} /\ byUs = {} /\ arrived = {} /\ mail = <<>> /\ sending = NoAnswer
  /\ refs = [l \in Letters |-> <<>>] /\ alerts = [l \in Letters |-> 0]

\* The unique index over the service's own id of a message.
OnFile(l) == \E i \in DOMAIN mail : mail[i].letter = l

\* Fault: the redelivery is recognised by the Message-ID its sender gave it.
OnFileByName(l) == \E i \in DOMAIN mail : mail[i].letter = l /\ mail[i].named

Repeated(l) == OnFile(l)

\* AddMail: In-Reply-To first, then the references from the last to the first.
Rows(l) == {i \in DOMAIN mail : mail[i].letter = l /\ mail[i].named}
ThreadFor(names) ==
  LET found == {k \in DOMAIN names : Rows(names[k]) # {}}
  IN IF found = {} THEN Len(mail) + 1 ELSE mail[Min(Rows(names[Max(found)]))].thread
AddMail(l, thread, named) ==
  Len(mail) < MaxMail /\ mail' = Append(mail, [letter |-> l, thread |-> thread, named |-> named])

\* handleInboundMail and the answer to the service, which may be lost.  A letter that
\* no parser reads, or without its content, has no headers to go by; a flagged one is
\* stored without an alert.
Receive(l, readable, flagged, heard) ==
  /\ l \in letters \ (byUs \cup arrived)
  /\ arrived' = IF heard THEN arrived \cup {l} ELSE arrived
  /\ IF Repeated(l)
     THEN UNCHANGED <<mail, alerts>>
     ELSE /\ AddMail(l, ThreadFor(IF readable THEN refs[l] ELSE <<>>), readable)
          /\ alerts' = IF flagged THEN alerts ELSE [alerts EXCEPT ![l] = @ + 1]
  /\ UNCHANGED <<letters, refs, byUs, sending>>

\* Somebody writes, out of the blue or in answer to a letter.
Writes(l, to) ==
  /\ l \notin letters /\ to \in letters \cup {NoLetter}
  /\ letters' = letters \cup {l}
  /\ refs' = IF to = NoLetter THEN refs ELSE [refs EXCEPT ![l] = Append(refs[to], to)]
  /\ UNCHANGED <<byUs, mail, sending, arrived, alerts>>

\* adminMailSend: a reply to a row that came in, in that row's thread.
SendAnswer(l, i) ==
  /\ sending = NoAnswer /\ l \notin letters /\ mail[i].letter \notin byUs
  /\ letters' = letters \cup {l} /\ byUs' = byUs \cup {l}
  /\ refs' = IF mail[i].named
             THEN [refs EXCEPT ![l] = Append(refs[mail[i].letter], mail[i].letter)]
             ELSE refs
  /\ sending' = [letter |-> l, thread |-> mail[i].thread]
  /\ UNCHANGED <<mail, arrived, alerts>>

RecordAnswer ==
  /\ sending # NoAnswer /\ AddMail(sending.letter, sending.thread, TRUE)
  /\ sending' = NoAnswer
  /\ UNCHANGED <<letters, refs, byUs, arrived, alerts>>

\* The record fails, or the process stops: the answer is out all the same.
AnswerUnrecorded ==
  /\ sending # NoAnswer /\ sending' = NoAnswer
  /\ UNCHANGED <<letters, refs, byUs, mail, arrived, alerts>>

MailEvent ==
  \/ \E l \in Letters, to \in Letters \cup {NoLetter} : Writes(l, to)
  \/ \E l \in Letters, i \in DOMAIN mail : SendAnswer(l, i)
  \/ AnswerUnrecorded

MailWork ==
  \/ \E l \in Letters : \E readable, flagged, heard \in BOOLEAN : Receive(l, readable, flagged, heard)
  \/ RecordAnswer

------------------------------------------------------------------------------
\* A letter is stored once and the operator alerted of it at most once, however often
\* it is delivered; and a letter is in the thread of one it refers to that was on
\* record before it, even where the operator's answer between them was never recorded
\* (handleInboundMail, adminMailSend, AddMail).
MailIsFiledOnce ==
  /\ \A i, j \in DOMAIN mail : mail[i].letter = mail[j].letter => i = j
  /\ \A l \in Letters : alerts[l] <= 1
  /\ \A i \in DOMAIN mail :
       LET earlier == {j \in 1..(i - 1) : mail[j].named /\ mail[j].letter \in Range(refs[mail[i].letter])}
       IN mail[i].named /\ earlier # {} => \E j \in earlier : mail[j].thread = mail[i].thread
==============================================================================
