----------------------------- MODULE Newsletter -----------------------------
(***************************************************************************)
(* The company newsletter: sign-up with approval, issues that are          *)
(* published once and mailed to the approved subscribers one by one, and   *)
(* the updates on the public page (routes.js, email.js, db/004-006).       *)
(*                                                                         *)
(* Publishing commits first and mails afterwards, in the same request; the *)
(* list of addresses is read once, and a row is written after each mail.   *)
(***************************************************************************)
EXTENDS Integers, FiniteSets, Sequences

CONSTANTS
  Emails,     \* addresses of the public sign-up form
  Issues,     \* ids of newsletter issues
  Blocks,     \* ids of updates on the public page
  MaxText,    \* bound: versions of the text of an issue
  MaxClock,   \* bound: publications
  MaxStops,   \* bound: times the API stops
  Nobody

ASSUME NewsletterAssumption ==
  Nobody \notin Emails /\ MaxText \in Nat /\ MaxClock \in Nat /\ MaxStops \in Nat

VARIABLES
  subscriber, \* newsletter_subscribers.status; "none" where there is no row
  issue,      \* newsletter_issues: status, text and published_at
  block,      \* frg_content_blocks: status and published_at
  delivery,   \* newsletter_deliveries: status per issue and address
  posting,    \* requests that deliver an issue: addresses left, mail handed over
  configured, \* the SMTP settings are complete
  clock,      \* publications so far: now()
  inbox,      \* history: texts each address was mailed, per issue
  asked,      \* history: addresses approved since their last request or withdrawal
  approvedAt, \* history: those of asked when the addresses of an issue were read
  stops       \* times the API stopped

newsletterVars == <<subscriber, issue, block, delivery, posting, configured,
                    clock, inbox, asked, approvedAt, stops>>

NoIssue == [status |-> "none", text |-> 0, at |-> 0]
Deleted == [NoIssue EXCEPT !.status = "deleted"]
NoBlock == [status |-> "none", at |-> 0]
NoPosting == [on |-> FALSE, text |-> 0, todo |-> {}, to |-> Nobody, result |-> "none"]
NoRow == "none"

NewsletterTypeOK ==
  /\ subscriber \in [Emails -> {"none", "pending", "active", "rejected", "unsubscribed"}]
  /\ issue \in [Issues -> [status: {"none", "draft", "published", "deleted"}, text: 0..MaxText,
                           at: 0..clock]]
  /\ \A i \in Issues : issue[i].status = "published" <=> issue[i].at # 0
  /\ block \in [Blocks -> [status: {"none", "draft", "published", "hidden"}, at: 0..clock]]
  /\ \A b \in Blocks : block[b].status = "published" <=> block[b].at # 0
  /\ delivery \in [Issues -> [Emails -> {NoRow, "sent", "skipped", "failed"}]]
  /\ posting \in [Issues -> [on: BOOLEAN, text: 0..MaxText, todo: SUBSET Emails,
                             to: Emails \cup {Nobody},
                             result: {"none", "sent", "skipped", "failed"}]]
  /\ inbox \in [Emails -> [Issues -> Seq(0..MaxText)]]
  /\ asked \subseteq Emails /\ approvedAt \in [Issues -> SUBSET Emails]
  /\ clock \in 0..MaxClock /\ stops \in 0..MaxStops /\ configured \in BOOLEAN

NewsletterInit ==
  /\ subscriber = [e \in Emails |-> "none"] /\ issue = [i \in Issues |-> NoIssue]
  /\ block = [b \in Blocks |-> NoBlock] /\ asked = {} /\ approvedAt = [i \in Issues |-> {}]
  /\ delivery = [i \in Issues |-> [e \in Emails |-> NoRow]]
  /\ posting = [i \in Issues |-> NoPosting] /\ configured \in BOOLEAN
  /\ clock = 0 /\ inbox = [e \in Emails |-> [i \in Issues |-> <<>>]] /\ stops = 0

-----------------------------------------------------------------------------
(***************************************************************************)
(* Faulty variants.  No specification uses them.                           *)
(***************************************************************************)
BackAtOnce(e) == IF subscriber[e] \in {"active", "unsubscribed"} THEN "active" ELSE "pending"
AnyIssue(i) == issue[i].status \in {"draft", "published"}
LastOnly(i) == [posting[i] EXCEPT !.todo = {}, !.to = Nobody]

-----------------------------------------------------------------------------
(***************************************************************************)
(* Signing up.                                                             *)
(***************************************************************************)
\* Who is active stays so; everyone else waits for an approval again.
Requested(e) == IF subscriber[e] = "active" THEN "active" ELSE "pending"
Subscribe(e) ==
  /\ subscriber' = [subscriber EXCEPT ![e] = Requested(e)]
  /\ asked' = IF subscriber[e] = "active" THEN asked ELSE asked \ {e}
  /\ UNCHANGED <<issue, block, delivery, posting, configured, clock, inbox,
                 approvedAt, stops>>

\* By the link in a mail, or by an administrator.
Unsubscribe(e) ==
  /\ subscriber[e] # "none"
  /\ subscriber' = [subscriber EXCEPT ![e] = "unsubscribed"] /\ asked' = asked \ {e}
  /\ UNCHANGED <<issue, block, delivery, posting, configured, clock, inbox,
                 approvedAt, stops>>

\* Any state may be reviewed.
Review(e, decision) ==
  /\ subscriber[e] # "none"
  /\ subscriber' = [subscriber EXCEPT ![e] =
       IF decision = "approved" THEN "active" ELSE "rejected"]
  /\ asked' = IF decision = "approved" THEN asked \cup {e} ELSE asked \ {e}
  /\ UNCHANGED <<issue, block, delivery, posting, configured, clock, inbox,
                 approvedAt, stops>>

-----------------------------------------------------------------------------
(***************************************************************************)
(* Issues.                                                                 *)
(***************************************************************************)
Exists(i) == issue[i].status \in {"draft", "published"}
CreateIssue(i, text) ==
  /\ issue[i].status = "none"
  /\ issue' = [issue EXCEPT ![i] = [status |-> "draft", text |-> text, at |-> 0]]
  /\ UNCHANGED <<subscriber, block, delivery, posting, configured, clock, inbox,
                 asked, approvedAt, stops>>

Editable(i) == issue[i].status = "draft"
EditIssue(i, text) ==
  /\ Editable(i) /\ issue' = [issue EXCEPT ![i].text = text]
  /\ UNCHANGED <<subscriber, block, delivery, posting, configured, clock, inbox,
                 asked, approvedAt, stops>>

\* The rows of its deliveries go with it.
DeleteIssue(i) ==
  /\ Exists(i) /\ issue' = [issue EXCEPT ![i] = Deleted]
  /\ delivery' = [delivery EXCEPT ![i] = [e \in Emails |-> NoRow]]
  /\ UNCHANGED <<subscriber, block, posting, configured, clock, inbox, asked,
                 approvedAt, stops>>

\* deliverNewsletterIssue: the active addresses that have no row yet.
Audience(i) == {e \in Emails : subscriber[e] = "active" /\ delivery[i][e] = NoRow}
Publishable(i) == issue[i].status = "draft"
Publish(i) ==
  /\ Exists(i) /\ Publishable(i) /\ clock < MaxClock
  /\ clock' = clock + 1
  /\ issue' = [issue EXCEPT ![i] =
       [status |-> "published", text |-> issue[i].text, at |-> clock']]
  /\ posting' = [posting EXCEPT ![i] =
       [on |-> TRUE, text |-> issue[i].text, todo |-> Audience(i), to |-> Nobody,
        result |-> "none"]]
  /\ approvedAt' = [approvedAt EXCEPT ![i] = asked]
  /\ UNCHANGED <<subscriber, block, delivery, configured, inbox, asked, stops>>

\* sendNewsletterIssueEmail: without SMTP settings nothing is sent; a failure
\* may be reported although the mail has gone out.
Outcomes == IF configured THEN {"sent", "failed"} ELSE {"skipped"}
Mail(i) ==
  /\ posting[i].on /\ posting[i].to = Nobody
  /\ \E e \in posting[i].todo, result \in Outcomes :
       /\ posting' = [posting EXCEPT ![i].to = e, ![i].result = result]
       /\ \/ /\ result # "skipped"
             /\ inbox' = [inbox EXCEPT ![e][i] = Append(@, posting[i].text)]
          \/ result # "sent" /\ UNCHANGED inbox
  /\ UNCHANGED <<subscriber, issue, block, delivery, configured, clock, asked,
                 approvedAt, stops>>

\* The row refers to the issue: if that has been deleted, the request fails.
Continued(i) ==
  [on |-> posting[i].on, text |-> posting[i].text,
   todo |-> posting[i].todo \ {posting[i].to}, to |-> Nobody, result |-> "none"]
Record(i) ==
  /\ posting[i].on /\ posting[i].to # Nobody
  /\ IF ~Exists(i)
     THEN /\ posting' = [posting EXCEPT ![i] = NoPosting] /\ UNCHANGED delivery
     ELSE /\ posting' = [posting EXCEPT ![i] = Continued(i)]
          /\ delivery' = IF delivery[i][posting[i].to] # NoRow THEN delivery
                         ELSE [delivery EXCEPT ![i][posting[i].to] = posting[i].result]
  /\ UNCHANGED <<subscriber, issue, block, configured, clock, inbox, asked,
                 approvedAt, stops>>

Delivered(i) ==
  /\ posting[i].on /\ posting[i].todo = {} /\ posting[i].to = Nobody
  /\ posting' = [posting EXCEPT ![i] = NoPosting]
  /\ UNCHANGED <<subscriber, issue, block, delivery, configured, clock, inbox,
                 asked, approvedAt, stops>>

\* The API stops: requests that were mailing are gone.
Stop ==
  /\ stops < MaxStops /\ stops' = stops + 1
  /\ posting' = [i \in Issues |-> NoPosting]
  /\ UNCHANGED <<subscriber, issue, block, delivery, configured, clock, inbox,
                 asked, approvedAt>>

-----------------------------------------------------------------------------
(***************************************************************************)
(* Updates on the public page.                                             *)
(***************************************************************************)
DatedBy(b, status) ==
  CASE status # "published" -> 0
    [] status = "published" /\ block[b].at = 0 -> clock'
    [] OTHER -> block[b].at
SaveBlock(b, status) ==
  /\ clock < MaxClock /\ clock' = clock + 1
  /\ block' = [block EXCEPT ![b] = [status |-> status, at |-> DatedBy(b, status)]]
  /\ UNCHANGED <<subscriber, issue, delivery, posting, configured, inbox, asked,
                 approvedAt, stops>>
DeleteBlock(b) ==
  /\ block[b].status # "none" /\ block' = [block EXCEPT ![b] = NoBlock]
  /\ UNCHANGED <<subscriber, issue, delivery, posting, configured, clock, inbox,
                 asked, approvedAt, stops>>

\* GET /api/newsletter/public.
PublicIssues == {i \in Issues : issue[i].status = "published"}

IssueStep(i) ==
  \/ \E text \in 1..MaxText : CreateIssue(i, text) \/ EditIssue(i, text)
  \/ DeleteIssue(i) \/ Publish(i)
Post(i) == Mail(i) \/ Record(i) \/ Delivered(i)
BlockStep(b) ==
  DeleteBlock(b) \/ \E status \in {"draft", "published", "hidden"} : SaveBlock(b, status)
SubscriberStep(e) ==
  Subscribe(e) \/ Unsubscribe(e) \/ \E d \in {"approved", "rejected"} : Review(e, d)
NewsletterNext ==
  \/ \E e \in Emails : SubscriberStep(e)
  \/ \E i \in Issues : IssueStep(i) \/ Post(i)
  \/ \E b \in Blocks : BlockStep(b)
  \/ Stop

\* A request that is mailing goes on.
NewsletterProgress == \A i \in Issues : WF_newsletterVars(Post(i))
NewsletterSpec == NewsletterInit /\ [][NewsletterNext]_newsletterVars /\ NewsletterProgress

-----------------------------------------------------------------------------
(***************************************************************************)
(* Properties.                                                             *)
(***************************************************************************)

\* An issue is mailed once: no address gets a second copy, whoever publishes
\* again and whenever the API stopped (docs/forkable-tasks.md:991).
OneCopyEach == \A e \in Emails, i \in Issues : Len(inbox[e][i]) <= 1

\* What is on record is what was mailed: the text of an issue never drifts
\* from the copies, nor its delivery rows from the mails, except while a mail
\* is being recorded, after a stop, and for an issue that was deleted.
RecordIsWhatWasMailed ==
  \A i \in Issues : Exists(i) =>
    \A e \in Emails :
      /\ \A n \in 1..Len(inbox[e][i]) : inbox[e][i][n] = issue[i].text
      /\ delivery[i][e] = "sent" => inbox[e][i] # <<>>
      /\ inbox[e][i] # <<>> /\ stops = 0 /\ posting[i].to # e
           => delivery[i][e] \in {"sent", "failed"}

\* Whoever was mailed an issue had an approval that came after the last request
\* and the last withdrawal, at the moment the issue was published and its
\* addresses were read, and what is mailed has been published: no way through
\* sign-up, withdrawal and review makes an address active by itself.  It speaks
\* of that moment: who withdraws while the issue is being mailed may still get
\* this one (WithdrawnAreLeftOut), and no later one.
MailedAreApproved ==
  \A e \in Emails, i \in Issues : inbox[e][i] # <<>> =>
    e \in approvedAt[i] /\ issue[i].status \in {"published", "deleted"}

\* An issue is mailed once, as it stands on record, to those who were approved
\* when it was published.
IssuesAreHonest ==
  NewsletterTypeOK /\ OneCopyEach /\ RecordIsWhatWasMailed /\ MailedAreApproved

\* "You have been unsubscribed from the newsletter." (App.jsx:1377): no mail to
\* an address that has withdrawn.  The list of addresses is not read again.
WithdrawnAreLeftOut ==
  [][\A e \in Emails : inbox'[e] # inbox[e] => e \in asked]_newsletterVars

\* Everyone an issue is addressed to gets a row in the end, unless the issue
\* is deleted or the API stops meanwhile.
EveryoneIsServed ==
  \A i \in Issues, e \in Emails :
    e \in posting[i].todo ~> delivery[i][e] # NoRow \/ ~Exists(i) \/ stops > 0

\* docs/newsletter-delivery.md: published issues create rows for approved
\* subscribers.  They do when no request is cut off; also a stop would have to
\* leave the rest to somebody.
ApprovedGetRows ==
  \A i \in Issues, e \in Emails :
    e \in posting[i].todo ~> delivery[i][e] # NoRow \/ ~Exists(i)
=============================================================================
