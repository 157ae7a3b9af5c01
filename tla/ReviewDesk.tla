----------------------------- MODULE ReviewDesk -----------------------------
(***************************************************************************)
(* The review queue of an administrator (ReviewPanel, AdminConsole.jsx)    *)
(* against GET /api/inventory/review-queue and the routes that decide.     *)
(*                                                                         *)
(* Every proof has buttons of its own, busy while its action runs.  An     *)
(* action that succeeds loads the queue; a renewed token does so too, and  *)
(* only the latest load counts.  Meanwhile proofs are submitted, withdrawn *)
(* and decided by others.                                                  *)
(***************************************************************************)
EXTENDS FiniteSets, Naturals

CONSTANTS
  Proofs,
  None,                 \* no proof: no form is open; a load of the page itself
  MaxPresses, MaxEvents \* bounds: what is done here; what happens otherwise

VARIABLES
  proof,  \* the submissions, in the database
  shown,  \* how the queue shows each of them
  keep,   \* saveItemBySubmission: save the item for later inventories
  form,   \* proofRequestOpenRef: the proof whose rejection is being explained
  act,    \* reviewActionRef: the action of each proof, how far it is
  load,   \* the loads of the queue; fresh: the latest (reviewQueueRequestRef)
  seen,   \* history: proofs the queue has shown
  wanted, \* history: what was last chosen for keep before the verdict
  spent   \* how much of the bounds is used

reviewDeskVars == <<proof, shown, keep, form, act, load, seen, wanted, spent>>

Owners == Proofs \cup {None}
Views == {"none", "plain", "hinted"}  \* hinted: a match has to be settled first
NoAct == [kind |-> "none", at |-> "none", save |-> FALSE]
Nothing == [s \in Proofs |-> "none"]
NoLoad == [at |-> "none", fresh |-> FALSE, data |-> Nothing]
FreshLoad == [at |-> "sent", fresh |-> TRUE, data |-> Nothing]

ASSUME ReviewDeskAssumption == None \notin Proofs  \* NULL is not an id

ReviewDeskTypeOK ==
  /\ \A s \in Proofs :
       /\ proof[s].state \in {"absent", "waiting", "approved", "rejected", "gone"}
       /\ shown[s] \in Views /\ keep[s] \in {"unset", "yes", "no"}
       /\ keep[s] = "unset" <=> shown[s] = "none"
       /\ act[s].at \in {"none", "sent", "served", "refused", "loading"}
       /\ act[s].at = "loading" <=> load[s].at # "none"
  /\ Cardinality({o \in Owners : load[o].fresh}) \in {0, 1}
  /\ form \in Owners

ReviewDeskInit ==
  /\ proof \in [Proofs -> [state : {"absent", "waiting"}, hint : BOOLEAN, saved : {FALSE}]]
  /\ shown = Nothing /\ keep = [s \in Proofs |-> "unset"]
  /\ form = None /\ act = [s \in Proofs |-> NoAct]
  /\ load = [o \in Owners |-> IF o = None THEN FreshLoad ELSE NoLoad]
  /\ seen = {} /\ wanted = [s \in Proofs |-> "unset"]
  /\ spent = [presses |-> 0, events |-> 0]

Use(what, bound) == spent[what] < bound /\ spent' = [spent EXCEPT ![what] = @ + 1]
NotBusy(s) == act[s].at = "none"

-----------------------------------------------------------------------------
(***************************************************************************)
(* Buttons.                                                                *)
(***************************************************************************)
Begin(s, kind) ==
  act' = [act EXCEPT ![s] = [kind |-> kind, at |-> "sent", save |-> kind = "approve" /\ keep[s] = "yes"]]

Unlocked(s) == shown[s] # "none" /\ NotBusy(s) /\ form # s
PressApprove(s) ==
  /\ Unlocked(s) /\ shown[s] = "plain" /\ Use("presses", MaxPresses) /\ Begin(s, "approve")
  /\ UNCHANGED <<proof, shown, keep, form, load, seen, wanted>>
PressMatch(s) ==
  /\ Unlocked(s) /\ shown[s] = "hinted" /\ Use("presses", MaxPresses) /\ Begin(s, "match")
  /\ UNCHANGED <<proof, shown, keep, form, load, seen, wanted>>
\* The leader decides whether the item is saved for later inventories.
Toggle(s) ==
  LET new == IF keep[s] = "yes" THEN "no" ELSE "yes" IN
  /\ Unlocked(s) /\ shown[s] = "plain" /\ Use("presses", MaxPresses)
  /\ keep' = [keep EXCEPT ![s] = new]
  /\ wanted' = IF proof[s].state = "waiting" THEN [wanted EXCEPT ![s] = new] ELSE wanted
  /\ UNCHANGED <<proof, shown, form, act, load, seen>>

RejectOffered(s) ==
  /\ shown[s] # "none" /\ NotBusy(s) /\ form = None
  /\ \A r \in Proofs : act[r].kind # "reject"
OpenForm(s) ==
  /\ RejectOffered(s) /\ Use("presses", MaxPresses) /\ form' = s
  /\ UNCHANGED <<proof, shown, keep, act, load, seen, wanted>>
\* The form is part of its proof's row.
FormDrawn == form # None /\ shown[form] # "none"
SendReason ==
  /\ FormDrawn /\ form' = None
  /\ IF NotBusy(form) THEN Begin(form, "reject") ELSE UNCHANGED act
  /\ UNCHANGED <<proof, shown, keep, load, seen, wanted, spent>>
CancelForm ==
  /\ FormDrawn /\ NotBusy(form) /\ form' = None
  /\ UNCHANGED <<proof, shown, keep, act, load, seen, wanted, spent>>

-----------------------------------------------------------------------------
(***************************************************************************)
(* The API, and what others do.                                            *)
(***************************************************************************)
Decided(s) ==
  CASE act[s].kind = "approve" /\ proof[s].state = "waiting" /\ ~proof[s].hint ->
         [state |-> "approved", hint |-> FALSE, saved |-> act[s].save]
    [] act[s].kind = "reject" /\ proof[s].state = "waiting" -> [proof[s] EXCEPT !.state = "rejected"]
    [] act[s].kind = "match" /\ proof[s].hint -> [proof[s] EXCEPT !.hint = FALSE]
    [] OTHER -> proof[s]
Serve(s) ==
  /\ act[s].at = "sent" /\ proof' = [proof EXCEPT ![s] = Decided(s)]
  /\ act' = [act EXCEPT ![s].at = IF Decided(s) # proof[s] THEN "served" ELSE "refused"]
  /\ UNCHANGED <<shown, keep, form, load, seen, wanted, spent>>
Lose(s) ==
  /\ act[s].at \in {"sent", "served"} /\ Use("events", MaxEvents)
  /\ act' = [act EXCEPT ![s].at = "refused"]
  /\ UNCHANGED <<proof, shown, keep, form, load, seen, wanted>>
Elsewhere(s) ==
  /\ \/ /\ proof[s].state = "absent" /\ proof' = [proof EXCEPT ![s].state = "waiting"]
     \/ /\ proof[s].state = "waiting" /\ proof' = [proof EXCEPT ![s].state = "gone"]
     \/ /\ proof[s].hint /\ proof' = [proof EXCEPT ![s].hint = FALSE]
  /\ Use("events", MaxEvents)
  /\ UNCHANGED <<shown, keep, form, act, load, seen, wanted>>

-----------------------------------------------------------------------------
(***************************************************************************)
(* Loads of the queue.                                                     *)
(***************************************************************************)
Started(o) ==
  [p \in Owners |-> IF p = o THEN FreshLoad ELSE [load[p] EXCEPT !.fresh = FALSE]]
Accepted(s) ==
  /\ act[s].at = "served" /\ act' = [act EXCEPT ![s].at = "loading"] /\ load' = Started(s)
  /\ UNCHANGED <<proof, shown, keep, form, seen, wanted, spent>>
VerdictRefused(s) ==
  /\ act[s].at = "refused" /\ act' = [act EXCEPT ![s] = NoAct]
  /\ UNCHANGED <<proof, shown, keep, form, load, seen, wanted, spent>>
RenewToken ==
  /\ Use("events", MaxEvents) /\ load' = Started(None)
  /\ UNCHANGED <<proof, shown, keep, form, act, seen, wanted>>

Queue ==
  [s \in Proofs |-> IF proof[s].state # "waiting" THEN "none"
                    ELSE IF proof[s].hint THEN "hinted" ELSE "plain"]
Read(o) ==
  /\ load[o].at = "sent"
  /\ load' = [load EXCEPT ![o] = [at |-> "read", fresh |-> load[o].fresh, data |-> Queue]]
  /\ UNCHANGED <<proof, shown, keep, form, act, seen, wanted, spent>>

\* Faulty: every answer is shown.
AnyLoad(o) == load[o].at = "read"
Current(o) == load[o].at = "read" /\ load[o].fresh
Default(view) == IF view = "plain" THEN "yes" ELSE "no"
\* Faulty: a load makes the choice anew.
DefaultKeep(s, view) == IF view = "none" THEN "unset" ELSE Default(view)
NewKeep(s, view) ==
  IF view = "none" THEN "unset" ELSE IF keep[s] = "unset" THEN Default(view) ELSE keep[s]

LoadEnds(o) ==
  /\ load' = [load EXCEPT ![o] = NoLoad]
  /\ IF o = None THEN UNCHANGED act ELSE act' = [act EXCEPT ![o] = NoAct]
Show(o) ==
  LET data == load[o].data IN
  /\ Current(o) /\ LoadEnds(o) /\ shown' = data
  /\ keep' = [s \in Proofs |-> NewKeep(s, data[s])]
  /\ seen' = seen \cup {s \in Proofs : data[s] # "none"}
  /\ UNCHANGED <<proof, form, wanted, spent>>
Superseded(o) ==
  /\ load[o].at = "read" /\ ~Current(o) /\ LoadEnds(o)
  /\ UNCHANGED <<proof, shown, keep, form, seen, wanted, spent>>
FailLoad(o) ==
  /\ load[o].at \in {"sent", "read"} /\ Use("events", MaxEvents) /\ LoadEnds(o)
  /\ UNCHANGED <<proof, shown, keep, form, seen, wanted>>

ReviewUser == 
  \/ \E s \in Proofs : PressApprove(s) \/ PressMatch(s) \/ Toggle(s) \/ OpenForm(s)
  \/ SendReason \/ CancelForm
ReviewStep(s) == Serve(s) \/ Accepted(s) \/ VerdictRefused(s)
QueueStep(o) == Read(o) \/ Show(o) \/ Superseded(o)
ReviewDeskNext ==
  \/ ReviewUser \/ RenewToken
  \/ \E s \in Proofs : ReviewStep(s) \/ Lose(s) \/ Elsewhere(s)
  \/ \E o \in Owners : QueueStep(o) \/ FailLoad(o)
ReviewDeskSpec == ReviewDeskInit /\ [][ReviewDeskNext]_reviewDeskVars

-----------------------------------------------------------------------------
(***************************************************************************)
(* Properties.                                                             *)
(***************************************************************************)

\* docs/forkable-tasks.md:651, "stale queue responses cannot restore resolved
\* work": a proof that has left the queue does not come back.
ResolvedStaysGone ==
  [][\A s \in seen : shown[s] = "none" => shown'[s] = "none"]_reviewDeskVars

\* An item is saved with an approval exactly as the leader has last chosen,
\* however often the queue was loaded in between (loadQueue keeps the choice).
SavedAsChosen ==
  \A s \in Proofs : proof[s].state = "approved" /\ wanted[s] # "unset"
                      => (proof[s].saved <=> wanted[s] = "yes")

\* A reason that is typed is sent: no other action of the proof starts while its
\* form is open, so that sendProofRequest does not meet one and drop it.
ReasonIsSent == form # None => NotBusy(form)

\* What was chosen and typed is what is sent.
InputIsKept == ReviewDeskTypeOK /\ SavedAsChosen /\ ReasonIsSent

\* docs/ui-task-list.md:22, "Review controls [...] keep unrelated rows usable":
\* a row can be rejected unless the leader sees a form or a rejection that blocks it.
UnrelatedStaysUsable ==
  \A s \in Proofs : /\ shown[s] # "none" /\ NotBusy(s) /\ ~FormDrawn
                    /\ \A r \in Proofs : act[r].kind # "reject"
    => RejectOffered(s)
=============================================================================
