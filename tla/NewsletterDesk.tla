--------------------------- MODULE NewsletterDesk ---------------------------
(***************************************************************************)
(* The newsletter page of one administrator (NewsletterPanel in            *)
(* AdminConsole.jsx) against the API of Newsletter.                        *)
(*                                                                         *)
(* The page shows lists it has loaded, changes one thing at a time, puts   *)
(* the answer into its lists, and loads them again after some changes and  *)
(* whenever its access token is renewed.  Only the latest load counts.     *)
(* Where no answer arrives, or an error, it shows the error and loads      *)
(* nothing, whatever has become of the change.                             *)
(***************************************************************************)
EXTENDS Newsletter

CONSTANTS
  MaxLoads,   \* bound: loads caused by renewals of the token
  MaxFailures \* bound: answers that do not arrive, or say 5xx, and stops of the API

ASSUME DeskAssumption ==
  /\ Issues \cap Emails = {} /\ Nobody \notin Issues
  /\ MaxLoads \in Nat /\ MaxFailures \in Nat

VARIABLES
  shown,   \* issues and subscribers as the page lists them; FALSE before a load
  editor,  \* the issue dialog: the issue ("" for a new one) and the form
  action,  \* the change under way: what, to what, where the request is
  load,    \* the latest load: sent, read by the API, for an action or not
  own,     \* history: what this page was the last to change, but for changes
           \* whose answer it did not get
  renewals,
  failures \* answers lost so far

deskVars == <<shown, editor, action, load, own, renewals, failures>>
allVars == <<newsletterVars, deskVars>>

NoAction == [kind |-> "none", on |-> Nobody, at |-> "none", text |-> 0]
NoLoad == [at |-> "none", issues |-> [i \in Issues |-> NoIssue],
           subscribers |-> [e \in Emails |-> "none"]]
ClosedEditor == [open |-> FALSE, on |-> Nobody, text |-> 0]

IssueLists == [Issues -> [status: {"none", "draft", "published", "deleted"},
                         text: 0..MaxText, at: 0..MaxClock]]
SubscriberLists ==
  [Emails -> {"none", "pending", "active", "rejected", "unsubscribed"}]
Pages == [ready: BOOLEAN, issues: IssueLists, subscribers: SubscriberLists]
Loads == [at: {"none", "sent", "read"}, issues: IssueLists, subscribers: SubscriberLists]
Editors == [open: BOOLEAN, on: Issues \cup {Nobody}, text: 0..MaxText]
OnIssues == {"save", "publish", "delete"}
OnEmails == {"approved", "rejected", "remove"}
Actions == [kind: {"none", "refresh"} \cup OnIssues \cup OnEmails,
            on: Issues \cup Emails \cup {Nobody}, text: 0..MaxText,
            at: {"none", "sent", "posting", "answered", "failed", "reload", "stale"}]
DeskTypeOK ==
  /\ NewsletterTypeOK
  /\ shown \in Pages /\ load \in Loads /\ editor \in Editors /\ action \in Actions
  /\ action.at \in {"sent", "posting", "answered", "failed"} =>
       \/ action.kind \in OnIssues /\ action.on \in Issues
       \/ action.kind \in OnEmails /\ action.on \in Emails
       \/ action.kind = "save" /\ action.on = Nobody /\ action.at = "sent"
  /\ action.at = "sent" /\ action.kind = "save" => action.text \in 1..MaxText
  /\ action.at \in {"posting", "failed"} => action.kind = "publish"
  /\ action.at = "reload" => load.at # "none"
  /\ own \subseteq Issues \cup Emails /\ renewals \in 0..MaxLoads
  /\ failures \in 0..MaxFailures

DeskInit ==
  /\ NewsletterInit
  /\ shown = [ready |-> FALSE, issues |-> issue, subscribers |-> subscriber]
  /\ editor = ClosedEditor /\ action = NoAction /\ own = {} /\ renewals = 0 /\ failures = 0
  /\ load = [NoLoad EXCEPT !.at = "sent"]

-----------------------------------------------------------------------------
(***************************************************************************)
(* Faulty variants.  No specification uses them.                           *)
(***************************************************************************)
KeepsLoad == load
StaysBusy(a) == IF a.at = "reload" THEN NoAction ELSE a

-----------------------------------------------------------------------------
(***************************************************************************)
(* Loading.  A new load makes the answer of an older one count no more.    *)
(***************************************************************************)
NewLoad == [NoLoad EXCEPT !.at = "sent"]
Finished(a) == IF a.at \in {"reload", "stale"} THEN NoAction ELSE a
LoadRead ==
  /\ load.at = "sent"
  /\ load' = [at |-> "read", issues |-> issue, subscribers |-> subscriber]
  /\ UNCHANGED <<newsletterVars, shown, editor, action, own, renewals, failures>>

\* The lists are replaced; with no dialog open the first issue is selected if
\* the selected one is gone.
LoadShown ==
  /\ load.at = "read"
  /\ shown' = [ready |-> TRUE, issues |-> load.issues, subscribers |-> load.subscribers]
  /\ load' = NoLoad
  /\ action' = IF action.at = "reload" THEN Finished(action) ELSE action
  /\ UNCHANGED <<newsletterVars, editor, own, renewals, failures>>
LoadFailed ==
  /\ load.at \in {"sent", "read"} /\ shown.ready
  /\ load' = NoLoad
  /\ action' = IF action.at = "reload" THEN Finished(action) ELSE action
  /\ UNCHANGED <<newsletterVars, shown, editor, own, renewals, failures>>

\* useEffect on the token: a renewal loads the lists again, at any time.
RenewToken ==
  /\ renewals < MaxLoads /\ renewals' = renewals + 1
  /\ load' = NewLoad
  /\ action' = IF action.at = "reload" THEN [action EXCEPT !.at = "stale"] ELSE action
  /\ UNCHANGED <<newsletterVars, shown, editor, own, failures>>
\* The answer to a load that counts no more still ends its action.
LoadStale ==
  /\ action.at = "stale" /\ action' = Finished(action)
  /\ UNCHANGED <<newsletterVars, shown, editor, load, own, renewals, failures>>

-----------------------------------------------------------------------------
(***************************************************************************)
(* The dialog, and pressing its buttons: beginNewsletterAction.            *)
(***************************************************************************)
Pressable == action.at = "none" /\ shown.ready
Select(i) ==
  /\ Pressable /\ ~editor.open /\ shown.issues[i].status \in {"draft", "published"}
  /\ editor' = [open |-> TRUE, on |-> i, text |-> shown.issues[i].text]
  /\ UNCHANGED <<newsletterVars, shown, action, load, own, renewals, failures>>
NewDraft ==
  /\ Pressable /\ ~editor.open /\ (\E i \in Issues : issue[i].status = "none")
  /\ editor' = [open |-> TRUE, on |-> Nobody, text |-> 0]
  /\ UNCHANGED <<newsletterVars, shown, action, load, own, renewals, failures>>
CloseEditor ==
  /\ Pressable /\ editor.open /\ editor' = ClosedEditor
  /\ UNCHANGED <<newsletterVars, shown, action, load, own, renewals, failures>>

ReadOnly == editor.on # Nobody /\ shown.issues[editor.on].status = "published"
Press(kind, on, text) ==
  /\ Pressable /\ action' = [kind |-> kind, on |-> on, at |-> "sent", text |-> text]
  /\ UNCHANGED <<newsletterVars, shown, editor, load, own, renewals, failures>>
PressSave(text) ==
  /\ editor.open /\ ~ReadOnly /\ Press("save", editor.on, text)
  /\ editor.on = Nobody => \E i \in Issues : issue[i].status = "none"
PressPublish == editor.open /\ editor.on # Nobody /\ ~ReadOnly /\ Press("publish", editor.on, 0)
PressDelete == editor.open /\ editor.on # Nobody /\ Press("delete", editor.on, 0)
PressReview(e, kind) ==
  /\ ~editor.open /\ shown.subscribers[e] # "none" /\ Press(kind, e, 0)
Refresh ==
  /\ Pressable /\ ~editor.open
  /\ action' = [kind |-> "refresh", on |-> Nobody, at |-> "reload", text |-> 0]
  /\ load' = NewLoad
  /\ UNCHANGED <<newsletterVars, shown, editor, own, renewals, failures>>

-----------------------------------------------------------------------------
(***************************************************************************)
(* The API handles the request; publishing answers when all is mailed.     *)
(***************************************************************************)
Target(i) == action.on = i \/ (action.on = Nobody /\ issue[i].status = "none")
Served ==
  \/ /\ action.kind = "save"
     /\ \E i \in Issues : /\ Target(i)
                          /\ CreateIssue(i, action.text) \/ EditIssue(i, action.text)
                          /\ own' = own \cup {i}
                          /\ action' = [action EXCEPT !.at = "answered", !.on = i]
  \/ /\ action.kind = "delete" /\ DeleteIssue(action.on)
     /\ own' = own \cup {action.on} /\ action' = [action EXCEPT !.at = "answered"]
  \/ /\ action.kind = "publish" /\ Publish(action.on)
     /\ own' = own \cup {action.on} /\ action' = [action EXCEPT !.at = "posting"]
  \/ /\ action.kind = "publish" /\ issue[action.on].status = "published"
     /\ action' = [action EXCEPT !.at = "answered"] /\ UNCHANGED <<newsletterVars, own>>
  \/ /\ \/ action.kind \in {"approved", "rejected"} /\ Review(action.on, action.kind)
        \/ action.kind = "remove" /\ Unsubscribe(action.on)
     /\ own' = own \cup {action.on} /\ action' = [action EXCEPT !.at = "answered"]
Serve ==
  /\ action.at = "sent" /\ Served
  /\ UNCHANGED <<shown, editor, load, renewals, failures>>

\* The catch of every action shows the error and loads nothing.  own keeps
\* what the page has been told of.
Told == IF action.at = "sent" THEN own ELSE own \ {action.on}
\* Nothing to save, publish or delete any more; or the mailing was cut off.
Refused ==
  /\ \/ action.at = "failed"
     \/ action.at = "sent" /\ action.kind = "save" /\ action.on # Nobody /\ ~Editable(action.on)
     \/ action.at = "sent" /\ action.kind \in {"publish", "delete"} /\ ~Exists(action.on)
  /\ action' = NoAction /\ own' = Told
  /\ UNCHANGED <<newsletterVars, shown, editor, load, renewals, failures>>
\* No answer, or a 5xx: before the change, or after it.
AnswerLost ==
  /\ action.at \in {"sent", "posting", "answered"}
  /\ failures + stops < MaxFailures /\ failures' = failures + 1
  /\ action' = NoAction /\ own' = Told
  /\ UNCHANGED <<newsletterVars, shown, editor, load, renewals>>

\* The answer goes into the lists; all but a saved issue load them again.
Answer ==
  IF action.on \in Issues
  THEN [shown EXCEPT !.issues[action.on] = issue[action.on]]
  ELSE [shown EXCEPT !.subscribers[action.on] = subscriber[action.on]]
Superseding == NewLoad
Settle ==
  /\ action.at = "answered"
  /\ shown' = Answer
  /\ editor' = CASE action.kind = "delete" -> ClosedEditor
                 [] action.kind \in {"save", "publish"} ->
                      [open |-> TRUE, on |-> action.on, text |-> issue[action.on].text]
                 [] OTHER -> editor
  /\ IF action.kind = "save"
     THEN action' = NoAction /\ UNCHANGED load
     ELSE action' = [action EXCEPT !.at = "reload"] /\ load' = Superseding
  /\ UNCHANGED <<newsletterVars, own, renewals, failures>>

\* The request that publishes ends with the mailing: well when everybody has
\* been served, with an error when a row cannot be written or the API stops.
Ends(i, how) ==
  action' = IF action.at = "posting" /\ action.on = i THEN [action EXCEPT !.at = how] ELSE action
Mailing(i) ==
  /\ \/ Delivered(i) /\ Ends(i, "answered")
     \/ Mail(i) /\ UNCHANGED action
     \/ Record(i) /\ IF Exists(i) THEN UNCHANGED action ELSE Ends(i, "failed")
  /\ UNCHANGED <<shown, editor, load, own, renewals, failures>>
Stopped ==
  /\ failures + stops < MaxFailures
  /\ Stop /\ Ends(action.on, "failed")
  /\ UNCHANGED <<shown, editor, load, own, renewals, failures>>

\* What goes on without the page: sign-ups, withdrawals by link, another
\* administrator, and a request that lands after the page has given it up.
Elsewhere ==
  /\ \/ \E i \in Issues : issue[i].status # "none" /\ IssueStep(i) /\ own' = own \ {i}
     \/ \E e \in Emails : SubscriberStep(e) /\ own' = own \ {e}
  /\ UNCHANGED <<shown, editor, action, load, renewals, failures>>

DeskNext ==
  \/ LoadRead \/ LoadShown \/ LoadFailed \/ RenewToken \/ LoadStale
  \/ NewDraft \/ CloseEditor \/ \E i \in Issues : Select(i)
  \/ \E text \in 1..MaxText : PressSave(text)
  \/ PressPublish \/ PressDelete \/ Refresh
  \/ \E e \in Emails, kind \in {"approved", "rejected", "remove"} : PressReview(e, kind)
  \/ Serve \/ Refused \/ AnswerLost \/ Settle
  \/ (\E i \in Issues : Mailing(i)) \/ Stopped \/ Elsewhere

\* The API and the browser answer, or report that they do not; mailing goes on.
DeskProgress ==
  /\ WF_allVars(LoadRead \/ LoadShown \/ LoadFailed \/ LoadStale)
  /\ WF_allVars(Serve \/ Refused \/ Settle)
  /\ \A i \in Issues : WF_allVars(Mailing(i))
DeskSpec == DeskInit /\ [][DeskNext]_allVars /\ DeskProgress

-----------------------------------------------------------------------------
(***************************************************************************)
(* Properties.                                                             *)
(***************************************************************************)

\* Once the page is at rest, what it was the last to publish, delete or
\* review, and was told of, is shown as it is: no answer to an earlier load may
\* bring back what was before (docs/forkable-tasks.md:970, "fence stale
\* loads").  A change whose answer is lost or an error is not covered: there
\* the page shows the error and may rest on what was before (ChangesAreShown).
OwnWorkIsShown ==
  /\ DeskTypeOK
  /\ action.at = "none" =>
       /\ \A e \in own \cap Emails : shown.subscribers[e] = subscriber[e]
       /\ \A i \in own \cap Issues :
            issue[i].status # "draft" => shown.issues[i].status = issue[i].status

\* Every action of the page ends, also when its load fails or is overtaken, its
\* answer is lost, or the mailing it waits for is cut off.
ActionsEnd == []<>(action.at = "none")

\* The same for an issue that was saved.
SavedIsShown ==
  action.at = "none" => \A i \in own \cap Issues : shown.issues[i] = issue[i]

\* What took effect is shown in the end, also when its answer is lost: the
\* action ends with an error, and nothing loads the list again.
ChangesAreShown ==
  \A e \in Emails : action.at = "answered" /\ action.on = e
                    ~> shown.subscribers[e] = subscriber[e]
=============================================================================
