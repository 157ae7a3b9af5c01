---------------------------- MODULE SessionDesk ----------------------------
(***************************************************************************)
(* The dashboard of one administrator: the selector of the overview        *)
(* (LeaderOverviewPanel, TenantPanel) and the work queue below it          *)
(* (SessionPanel, AdminConsole.jsx), against the session routes.           *)
(*                                                                         *)
(* The selector holds the chosen inventory, the queue the one it works on, *)
(* the list it has loaded and the detail it shows.  A load of the list may *)
(* change what is selected, and ends with a load of the detail.  Only the  *)
(* latest load of each kind counts.  An action on an item keeps, while its *)
(* request runs, the selection of the moment it was pressed.               *)
(***************************************************************************)
EXTENDS Naturals, FiniteSets

CONSTANTS
  Sessions,       \* inventories of the tenant
  NoSession,      \* no inventory
  Slots,          \* 1..n: how many buttons of the page can be busy side by side
  MaxDeskPresses, \* bound: what the administrator does
  MaxDeskEvents,  \* bound: failed loads, lost answers, renewed tokens,
                  \* notifications, and what others do
  Beginnings      \* the inventories there may be when the page is opened

VARIABLES
  inventory, \* as the API has them: status, and the number of changes
  preferred, \* the inventory chosen in the selector
  selected,  \* the inventory of the work queue
  due,       \* the effect of SessionPanel that the last render has scheduled
  listed,    \* status of each inventory in the list the queue has loaded
  detail,    \* the detail the queue holds: of which inventory, how recent
  listLoad,  \* the latest load of the list
  detailLoad,\* the latest load of a detail; nested: as the end of listLoad
  retried,   \* missingPreferredRetryRef
  slot,      \* actions under way: what, on what, selected when pressed
  failed,    \* the latest load has failed: the page says so
  own,       \* history: the latest change made here, if its answer came
  left,      \* history: closed or deleted here, and not chosen again
  crossed,   \* history: a reload went past the chosen inventory (Crosses)
  deskSpent  \* how much of the bounds is used

deskView == <<preferred, selected, due, listed, detail, retried, failed>>
deskLoads == <<listLoad, detailLoad>>
deskHistory == <<own, left, crossed>>
sessionDeskVars == <<inventory, deskView, deskLoads, slot, deskHistory, deskSpent>>

Choices == Sessions \cup {NoSession}
NoInventory == [status |-> "none", rev |-> 0]
Deleted == [status |-> "deleted", rev |-> 0]
NoDetail == [of |-> NoSession, rev |-> 0]
Unlisted == [s \in Sessions |-> "none"]
NoListLoad == [at |-> "none", want |-> NoSession, pref |-> NoSession, read |-> Unlisted]
NoDetailLoad == [at |-> "none", of |-> NoSession, nested |-> FALSE, rev |-> 0]
NoAction == [kind |-> "none", on |-> NoSession, sel |-> NoSession, at |-> "none"]

ASSUME SessionDeskAssumption ==
  /\ NoSession \notin Sessions
  /\ Beginnings \subseteq [Sessions -> [status : {"none", "active", "closed"}, rev : Nat]]

SessionDeskTypeOK ==
  /\ \A s \in Sessions : inventory[s].status \in {"none", "active", "closed", "deleted"}
  /\ preferred \in Choices /\ selected \in Choices /\ retried \in Choices
  /\ listLoad.at \in {"none", "sent", "read", "detail"}
  /\ detailLoad.at \in {"none", "sent", "read"}
  /\ listLoad.at = "detail" => detailLoad.nested
  /\ due \in {"none", "preferred", "context"}
  /\ \A b \in Slots : slot[b].at \in {"none", "sent", "served", "refused", "failed", "list",
                                     "detail"}

Exists(s) == inventory[s].status \in {"active", "closed"}

SessionDeskInit ==
  /\ inventory \in Beginnings
  /\ preferred = NoSession /\ selected = NoSession /\ due = "context"
  /\ listed = Unlisted /\ detail = NoDetail
  /\ listLoad = NoListLoad /\ detailLoad = NoDetailLoad /\ retried = NoSession
  /\ slot = [b \in Slots |-> NoAction] /\ failed = FALSE
  /\ own = [s \in Sessions |-> 0] /\ left = {} /\ crossed = FALSE
  /\ deskSpent = [presses |-> 0, events |-> 0]

-----------------------------------------------------------------------------
(***************************************************************************)
(* Faulty variants.  No specification uses them.                           *)
(***************************************************************************)
RetryAlways(latest, requested, changed, read) ==
  latest # NoSession /\ ~(requested # NoSession /\ read[requested] # "none")
LoadUnlessRunning(want) ==
  IF listLoad.at # "none" THEN listLoad
  ELSE [at |-> "sent", want |-> want, pref |-> preferred, read |-> Unlisted]

-----------------------------------------------------------------------------
(***************************************************************************)
(* Starting loads.  A load that a later one of its kind overtakes comes to *)
(* nothing: the actions that wait for it go on at once.                    *)
(***************************************************************************)
OverIn(kinds, slots) ==
  [b \in Slots |-> IF slots[b].at \in kinds THEN NoAction ELSE slots[b]]
ListFor(want) == [at |-> "sent", want |-> want, pref |-> preferred, read |-> Unlisted]
DetailOf(s, nested) == [at |-> "sent", of |-> s, nested |-> nested, rev |-> 0]
\* A detail of its own ends a list load that had come to its detail.
ListWithoutDetail == IF listLoad.at = "detail" THEN NoListLoad ELSE listLoad
ListEnds == IF listLoad.at = "detail" THEN {"list", "detail"} ELSE {"detail"}

\* A load that may select another inventory than the chosen one: it asks for
\* another, or for none while the chosen one is not asked for a second time.
Crosses(want) == want # preferred /\ (want # NoSession \/ retried = preferred)

Spend(what, limit) == deskSpent[what] < limit /\ deskSpent' = [deskSpent EXCEPT ![what] = @ + 1]

\* clearSelectedSessionState: what an outstanding detail brings counts no more.
Cleared == /\ selected' = NoSession /\ detail' = NoDetail /\ retried' = NoSession

-----------------------------------------------------------------------------
(***************************************************************************)
(* loadSessions after its request: what to select, whether to ask again,   *)
(* whether to tell the selector.                                           *)
(***************************************************************************)
ListRead ==
  /\ listLoad.at = "sent"
  /\ listLoad' = [at |-> "read", want |-> listLoad.want, pref |-> listLoad.pref,
                   read |-> [s \in Sessions |-> IF Exists(s) THEN inventory[s].status ELSE "none"]]
  /\ UNCHANGED <<inventory, deskView, detailLoad, slot, deskHistory, deskSpent>>

Changed == preferred # listLoad.pref
Requested == IF Changed THEN preferred ELSE listLoad.want
Found == Requested # NoSession /\ listLoad.read[Requested] # "none"
AskAgain(latest, requested, changed, read) ==
  /\ latest # NoSession /\ ~(requested # NoSession /\ read[requested] # "none")
  /\ changed \/ retried # latest
RetryMissing ==
  /\ listLoad.at = "read"
  /\ AskAgain(preferred, Requested, Changed, listLoad.read)
  /\ retried' = preferred /\ listLoad' = ListFor(preferred)
  /\ slot' = OverIn({"list"}, slot) /\ failed' = FALSE
  /\ UNCHANGED <<inventory, preferred, selected, due, listed, detail, detailLoad,
                 deskHistory, deskSpent>>

Selectable(read) ==
  LET open == {s \in Sessions : read[s] = "active"}
  IN IF Found /\ read[Requested] # "closed" THEN {Requested}
     ELSE IF open # {} THEN open ELSE {NoSession}
Shared(sel, read) ==
  sel # preferred /\ (preferred = NoSession \/ read[preferred] \in {"none", "closed"})
ListShown ==
  /\ listLoad.at = "read"
  /\ ~AskAgain(preferred, Requested, Changed, listLoad.read)
  /\ listed' = listLoad.read
  /\ \E sel \in Selectable(listLoad.read) :
       /\ preferred' = IF Shared(sel, listLoad.read) THEN sel ELSE preferred
       /\ due' = IF preferred' # preferred /\ due = "none" THEN "preferred" ELSE due
       /\ IF sel # NoSession
          THEN /\ selected' = sel /\ UNCHANGED detail
               /\ retried' = IF preferred = NoSession \/ Found THEN NoSession ELSE retried
               /\ listLoad' = [listLoad EXCEPT !.at = "detail"]
               /\ detailLoad' = DetailOf(sel, TRUE)
               /\ slot' = OverIn({"detail"}, slot)
          ELSE /\ Cleared /\ listLoad' = NoListLoad /\ detailLoad' = NoDetailLoad
               /\ slot' = OverIn({"list", "detail"}, slot)
  /\ UNCHANGED <<inventory, failed, deskHistory, deskSpent>>
ListFailed ==
  /\ Spend("events", MaxDeskEvents)
  /\ listLoad.at \in {"sent", "read"} /\ listLoad' = NoListLoad
  /\ failed' = TRUE /\ slot' = OverIn({"list"}, slot)
  /\ UNCHANGED <<inventory, preferred, selected, due, listed, detail, retried, detailLoad,
                 deskHistory>>

-----------------------------------------------------------------------------
(***************************************************************************)
(* loadSessionDetail after its request.                                    *)
(***************************************************************************)
DetailRead ==
  /\ detailLoad.at = "sent" /\ Exists(detailLoad.of)
  /\ detailLoad' = [at |-> "read", of |-> detailLoad.of, nested |-> detailLoad.nested,
                     rev |-> inventory[detailLoad.of].rev]
  /\ UNCHANGED <<inventory, deskView, listLoad, slot, deskHistory, deskSpent>>

\* A nested detail counts only while its list load is the latest.
Counts == detailLoad.nested => listLoad.at = "detail"
DetailDone == /\ detailLoad' = NoDetailLoad /\ listLoad' = ListWithoutDetail
              /\ slot' = OverIn(ListEnds, slot)
DetailShown ==
  /\ detailLoad.at = "read" /\ DetailDone
  /\ detail' = IF Counts THEN [of |-> detailLoad.of, rev |-> detailLoad.rev] ELSE detail
  /\ UNCHANGED <<inventory, preferred, selected, due, listed, retried, failed,
                 deskHistory, deskSpent>>
DetailFailed ==
  /\ Spend("events", MaxDeskEvents)
  /\ detailLoad.at \in {"sent", "read"} /\ DetailDone
  /\ failed' = (failed \/ Counts)
  /\ UNCHANGED <<inventory, preferred, selected, due, listed, detail, retried,
                 deskHistory>>
\* 404 for a detail of its own: the page gives the inventory up and picks
\* another one.
DetailMissing ==
  /\ detailLoad.at = "sent" /\ ~Exists(detailLoad.of)
  /\ IF detailLoad.nested
     THEN /\ DetailDone /\ failed' = (failed \/ Counts) /\ UNCHANGED <<selected, detail, retried>>
     ELSE /\ Cleared /\ detailLoad' = NoDetailLoad /\ listLoad' = ListFor(NoSession)
          /\ failed' = FALSE /\ slot' = OverIn({"list", "detail"}, slot)
  /\ UNCHANGED <<inventory, preferred, due, listed, deskHistory, deskSpent>>

-----------------------------------------------------------------------------
(***************************************************************************)
(* The selector, and what the effect of SessionPanel makes of a change of  *)
(* it, of the token or of refreshVersion.                                  *)
(***************************************************************************)
Choose(s) ==
  /\ Spend("presses", MaxDeskPresses)
  /\ s # preferred /\ Exists(s)
  /\ preferred' = s /\ due' = IF due = "none" THEN "preferred" ELSE due
  /\ left' = left \ {s}
  /\ UNCHANGED <<inventory, selected, listed, detail, retried, failed, deskLoads, slot, own, crossed>>
RenewContext ==
  /\ Spend("events", MaxDeskEvents) /\ due' = "context"
  /\ UNCHANGED <<inventory, preferred, selected, listed, detail, retried, failed, deskLoads,
                 slot, deskHistory>>
\* A change of the selector to what the queue has already selected loads nothing.
Unaffected == due = "preferred" /\ preferred # NoSession /\ preferred = selected
Effect ==
  /\ due # "none" /\ due' = "none"
  /\ IF Unaffected
     THEN UNCHANGED <<selected, detail, deskLoads, slot, failed, crossed>>
     ELSE /\ listLoad' = ListFor(IF preferred # NoSession THEN preferred ELSE selected)
          /\ failed' = FALSE /\ slot' = OverIn({"list"}, slot)
          /\ selected' = IF preferred # NoSession THEN preferred ELSE selected
          /\ detail' = IF selected' # selected THEN NoDetail ELSE detail
          /\ crossed' = FALSE /\ UNCHANGED detailLoad
  /\ UNCHANGED <<inventory, preferred, listed, retried, own, left, deskSpent>>
RefreshQueue ==
  /\ Spend("presses", MaxDeskPresses)
  /\ listLoad' = ListFor(selected) /\ failed' = FALSE /\ slot' = OverIn({"list"}, slot)
  /\ crossed' = (crossed \/ Crosses(selected))
  /\ UNCHANGED <<inventory, preferred, selected, due, listed, detail, retried, detailLoad,
                 own, left>>

-----------------------------------------------------------------------------
(***************************************************************************)
(* Actions.  Only what the queue shows can be pressed, and nothing twice   *)
(* at a time.                                                              *)
(***************************************************************************)
Wanted == IF preferred # NoSession THEN preferred ELSE selected
DetailIsCurrent == Wanted # NoSession /\ selected = Wanted /\ detail.of = Wanted
Press(b, kind, on) ==
  /\ Spend("presses", MaxDeskPresses) /\ slot[b].at = "none"
  /\ \A c \in Slots : c < b => slot[c].at # "none"
  /\ slot' = [slot EXCEPT ![b] = [kind |-> kind, on |-> on, sel |-> selected, at |-> "sent"]]
  /\ UNCHANGED <<inventory, deskView, deskLoads, deskHistory>>
\* "check" also stands for an import and a withdrawal, "assign" for a claim and
\* for the answer to a suggested match.
PressItem(b, kind) ==
  /\ DetailIsCurrent /\ listed[detail.of] # "closed" /\ Press(b, kind, detail.of)
PressClose(b) ==
  /\ DetailIsCurrent /\ \A c \in Slots : slot[c].kind = "close" => slot[c].on # detail.of
  /\ listed[detail.of] = "active" /\ Press(b, "close", detail.of)
PressDelete(b) ==
  /\ DetailIsCurrent /\ detail.rev = 0 /\ \A c \in Slots : slot[c].kind # "delete"
  /\ Press(b, "delete", detail.of)
PressStart(b, s) ==
  /\ inventory[s].status = "none" /\ \A c \in Slots : slot[c].kind # "start"
  /\ Press(b, "start", s)

Allowed(kind, s) ==
  CASE kind \in {"check", "assign"} -> inventory[s].status = "active"
    [] kind = "close" -> Exists(s)
    [] kind = "delete" -> Exists(s) /\ inventory[s].rev = 0
    [] OTHER -> inventory[s].status = "none"
Result(kind, s) ==
  CASE kind = "close" -> [inventory[s] EXCEPT !.status = "closed"]
    [] kind = "delete" -> Deleted
    [] kind = "start" -> [status |-> "active", rev |-> 0]
    [] OTHER -> [inventory[s] EXCEPT !.rev = @ + 1]
ServeAction(b) ==
  LET kind == slot[b].kind  s == slot[b].on IN
  /\ slot[b].at = "sent"
  /\ IF Allowed(kind, s)
     THEN /\ inventory' = [inventory EXCEPT ![s] = Result(kind, s)]
          /\ own' = [own EXCEPT ![s] = Result(kind, s).rev]
          /\ left' = IF kind \in {"close", "delete"} THEN left \cup {s} ELSE left \ {s}
          /\ slot' = [slot EXCEPT ![b].at = "served"]
     ELSE /\ slot' = [slot EXCEPT ![b].at = IF Exists(s) THEN "refused" ELSE "failed"]
          /\ UNCHANGED <<inventory, own, left>>
  /\ UNCHANGED <<deskView, deskLoads, crossed, deskSpent>>

\* No answer, or a 5xx, before the change or after it: the page shows an error
\* and has not been told of the change.
AnswerLost(b) ==
  /\ Spend("events", MaxDeskEvents)
  /\ slot[b].at \in {"sent", "served"} /\ slot' = [slot EXCEPT ![b].at = "failed"]
  /\ IF slot[b].at = "served"
     THEN /\ own' = [own EXCEPT ![slot[b].on] = 0]
          /\ left' = IF slot[b].kind \in {"close", "delete"} THEN left \ {slot[b].on} ELSE left
     ELSE UNCHANGED <<own, left>>
  /\ UNCHANGED <<inventory, deskView, deskLoads, crossed>>

\* The answer: the list is loaded again for what was selected when the button
\* was pressed, or for no inventory in particular.
ReloadList(want) == ListFor(want)
Reload(b, want) ==
  /\ listLoad' = ReloadList(want) /\ failed' = FALSE
  /\ slot' = [OverIn({"list"}, slot) EXCEPT ![b].at = "list"]
  /\ crossed' = (crossed \/ Crosses(want))
  /\ UNCHANGED <<inventory, preferred, due, listed, retried, detailLoad, own, left, deskSpent>>
\* A withdrawal loads the list whatever has come of it.
SettleCheck(b) ==
  /\ slot[b].at \in {"served", "refused", "failed"} /\ slot[b].kind = "check" /\ Reload(b, slot[b].sel)
  /\ UNCHANGED <<selected, detail>>
SettleClose(b) ==
  /\ slot[b].at = "served" /\ slot[b].kind = "close" /\ Reload(b, NoSession)
  /\ UNCHANGED <<selected, detail>>
SettleDelete(b) ==
  /\ slot[b].at = "served" /\ slot[b].kind = "delete" /\ Reload(b, NoSession)
  /\ IF slot[b].sel = slot[b].on THEN selected' = NoSession /\ detail' = NoDetail
     ELSE UNCHANGED <<selected, detail>>
\* An assignment loads the detail alone, also when it was refused (409).
SettleAssign(b) ==
  /\ slot[b].at \in {"served", "refused"} /\ slot[b].kind = "assign"
  /\ detailLoad' = DetailOf(slot[b].sel, FALSE) /\ listLoad' = ListWithoutDetail
  /\ slot' = [OverIn(ListEnds, slot) EXCEPT ![b].at = "detail"]
  /\ crossed' = (crossed \/ slot[b].sel # preferred \/ slot[b].sel # selected)
  /\ UNCHANGED <<inventory, deskView, own, left, deskSpent>>
\* A new inventory becomes the chosen one.
SettleStart(b) ==
  /\ slot[b].at = "served" /\ slot[b].kind = "start"
  /\ preferred' = slot[b].on /\ due' = IF due = "none" THEN "preferred" ELSE due
  /\ slot' = [slot EXCEPT ![b] = NoAction]
  /\ UNCHANGED <<inventory, selected, listed, detail, retried, failed, deskLoads, deskHistory,
                 deskSpent>>
SettleRefused(b) ==
  /\ slot[b].at = "failed" \/ (slot[b].at = "refused" /\ slot[b].kind # "assign")
  /\ slot' = [slot EXCEPT ![b] = NoAction]
  /\ UNCHANGED <<inventory, deskView, deskLoads, deskHistory, deskSpent>>

-----------------------------------------------------------------------------
OthersManage(s) ==
  /\ Spend("events", MaxDeskEvents)
  /\ \E kind \in {"check", "close", "delete", "start"} :
       /\ Allowed(kind, s) /\ inventory' = [inventory EXCEPT ![s] = Result(kind, s)]
       /\ own' = [own EXCEPT ![s] = IF kind = "check" THEN @ ELSE 0]
  /\ UNCHANGED <<deskView, deskLoads, slot, left, crossed>>

LoadStep == ListRead \/ RetryMissing \/ ListShown \/ ListFailed
            \/ DetailRead \/ DetailShown \/ DetailFailed \/ DetailMissing
ActionStep == \E b \in Slots : ServeAction(b) \/ SettleCheck(b) \/ SettleClose(b) \/ SettleDelete(b)
                               \/ SettleAssign(b) \/ SettleStart(b)
                               \/ SettleRefused(b)
UserStep ==
  \/ \E s \in Sessions : Choose(s) \/ OthersManage(s)
  \/ RenewContext \/ RefreshQueue
  \/ \E b \in Slots :
       \/ AnswerLost(b)
       \/ \E kind \in {"check", "assign"} : PressItem(b, kind)
       \/ PressClose(b) \/ PressDelete(b)
       \/ \E s \in Sessions : PressStart(b, s)
SessionDeskNext == LoadStep \/ ActionStep \/ UserStep \/ Effect
SessionDeskSpec ==
  /\ SessionDeskInit /\ [][SessionDeskNext]_sessionDeskVars
  /\ WF_sessionDeskVars(LoadStep) /\ WF_sessionDeskVars(ActionStep) /\ WF_sessionDeskVars(Effect)

-----------------------------------------------------------------------------
(***************************************************************************)
(* Properties.                                                             *)
(***************************************************************************)
AtRest == /\ listLoad.at = "none" /\ detailLoad.at = "none" /\ due = "none"
          /\ \A b \in Slots : slot[b].at = "none"

\* At rest the queue shows its own work: no load that was read before a change
\* made here may be the last that counts.  A change whose answer was lost is not
\* covered: its error loads nothing.
QueueShowsOwnWork ==
  AtRest /\ ~failed /\ DetailIsCurrent => detail.rev >= own[detail.of]

\* An inventory closed or deleted here, with an answer, is left: selector and
\* queue both move to another one, or to none (qa/session-lifecycle.spec.js:218
\* and :243).
ClosedIsLeft ==
  AtRest /\ ~failed => \A s \in left : preferred # s /\ selected # s

\* The queue comes to show the chosen inventory, if since the last change of the
\* selector nothing was reloaded past it: for the inventory an action was
\* pressed on, or for none in particular while the list that had missed the
\* chosen one was asked for it a second time.
ChosenIsShown ==
  AtRest /\ ~failed /\ ~crossed /\ preferred # NoSession => DetailIsCurrent

\* At rest the selector and the queue agree, on what is there.
DashboardAgrees ==
  SessionDeskTypeOK /\ QueueShowsOwnWork /\ ClosedIsLeft /\ ChosenIsShown

\* The same without that exception: qa/dashboard-actions.spec.js:620, "active
\* inventory selector immediately swaps the visible work queue".
SelectorSwapsQueue ==
  AtRest /\ ~failed /\ preferred # NoSession => DetailIsCurrent

\* The page comes to rest: the loads that look for a missing inventory, and
\* the selector and the queue that tell each other what to select, end.
DeskSettles == <>[]AtRest
=============================================================================
