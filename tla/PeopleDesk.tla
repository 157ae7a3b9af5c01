----------------------------- MODULE PeopleDesk -----------------------------
(***************************************************************************)
(* The team page of a platoon (TenantPanel in AdminConsole.jsx): actions   *)
(* on members, the reload after each of them, and the timer that polls the *)
(* list while an account is being set up.                                  *)
(*                                                                         *)
(* The loads are not numbered: whichever answer comes last is shown.  One  *)
(* variable, memberActionId, names the member whose buttons are disabled.  *)
(***************************************************************************)
EXTENDS Naturals, FiniteSets

CONSTANTS
  Members,
  Nobody,       \* memberActionId is empty
  Rosters,      \* the rows there may be when the page is opened
  CommandSlots, \* 1..n: the actions that may be under way together
  FailureCap,   \* provisioningPollFailures is not counted further (5)
  MaxCommands, MaxLosses, MaxRenewals \* bounds: what happens in a behaviour

VARIABLES
  row,         \* the membership and its provisioning job, in the database
  roster,      \* the same, as the page shows it
  working,     \* memberActionId
  saving,      \* isSaving: a teammate is being added
  failures,    \* provisioningPollFailures
  timer,       \* the poll's timer is set
  rosterLoad,  \* the loads of the list: the action that waits for it, what was read
  action,      \* the actions under way
  peopleSpent  \* how much of the bounds is used

peopleVars == <<row, roster, working, saving, failures, timer, rosterLoad, action, peopleSpent>>

Loaders == CommandSlots \cup {0}  \* 0: a load that no action waits for
Commands == {"add", "disable", "enable", "retry", "cancel"}
NoRow == [state |-> "none", job |-> "none"]
Rows == [state : {"none", "active", "disabled"}, job : {"none", "work", "failed", "done"}]
Unread == [m \in Members |-> NoRow]
NoRosterLoad == [at |-> "none", silent |-> TRUE, data |-> Unread]
Request(silent) == [at |-> "sent", silent |-> silent, data |-> Unread]
NoCommand == [at |-> "none", member |-> Nobody, command |-> "add", result |-> NoRow]

\* The slots are numbered from 1; nobody is not a member.
ASSUME PeopleAssumption ==
  /\ Nobody \notin Members /\ CommandSlots \subseteq Nat \ {0}
  /\ Rosters \subseteq [Members -> Rows]
  /\ {FailureCap, MaxCommands, MaxLosses, MaxRenewals} \subseteq Nat

PeopleTypeOK ==
  /\ row \in [Members -> Rows] /\ roster \in [Members -> Rows]
  /\ working \in Members \cup {Nobody} /\ failures \in 0..FailureCap
  /\ \A s \in CommandSlots : /\ action[s].at \in {"none", "sent", "ok", "refused", "loading"}
                             /\ action[s].at = "loading" <=> rosterLoad[s].at # "none"
  /\ timer => working = Nobody /\ \E m \in Members : roster[m].job = "work"

PeopleInit ==
  /\ row \in Rosters
  /\ roster = row /\ working = Nobody /\ saving = FALSE /\ failures = 0
  /\ timer = \E m \in Members : row[m].job = "work"
  /\ rosterLoad = [o \in Loaders |-> NoRosterLoad] /\ action = [s \in CommandSlots |-> NoCommand]
  /\ peopleSpent = [presses |-> 0, losses |-> 0, renewals |-> 0]

UseUp(what, bound) == peopleSpent[what] < bound /\ peopleSpent' = [peopleSpent EXCEPT ![what] = @ + 1]

-----------------------------------------------------------------------------
(***************************************************************************)
(* The effect that sets the timer: it runs again when the list, the member *)
(* worked on or the count of failures has changed, and once only.          *)
(***************************************************************************)
Pending(view) == \E m \in Members : view[m].job = "work"
Rearmed(view, member) == Pending(view) /\ member = Nobody
Failures == IF failures < FailureCap THEN failures + 1 ELSE failures

-----------------------------------------------------------------------------
(***************************************************************************)
(* The API and the worker.                                                 *)
(***************************************************************************)
\* What a command makes of a row; the row itself when it is refused.
Outcome(r, command) ==
  CASE command = "add" /\ r.state = "none"        -> [state |-> "active", job |-> "work"]
    [] command = "disable" /\ r.state = "active"  -> [state |-> "disabled", job |-> "work"]
    [] command = "enable" /\ r.state = "disabled" -> [state |-> "active", job |-> "work"]
    [] command = "retry" /\ r.job = "failed"      -> [r EXCEPT !.job = "work"]
    [] command = "cancel" /\ r.job = "failed"     -> NoRow
    [] OTHER -> r
ServeCommand(s) ==
  LET m == action[s].member  new == Outcome(row[m], action[s].command) IN
  /\ action[s].at = "sent" /\ row' = [row EXCEPT ![m] = new]
  /\ action' = [action EXCEPT ![s] = [at |-> IF new = row[m] THEN "refused" ELSE "ok",
                     member |-> m, command |-> action[s].command, result |-> new]]
  /\ UNCHANGED <<roster, working, saving, failures, timer, rosterLoad, peopleSpent>>
SetUp(m) ==
  /\ row[m].job = "work"
  /\ \E end \in {"done", "failed"} : row' = [row EXCEPT ![m].job = end]
  /\ UNCHANGED <<roster, working, saving, failures, timer, rosterLoad, action, peopleSpent>>

-----------------------------------------------------------------------------
(***************************************************************************)
(* Actions.                                                                *)
(***************************************************************************)
Offered(m, command) ==
  /\ Outcome(roster[m], command) # roster[m]
  /\ IF command = "add" THEN ~saving ELSE working # m
PressCommand(s, m, command) ==
  /\ action[s].at = "none" /\ (\A r \in CommandSlots : r < s => action[r].at # "none")
  /\ Offered(m, command) /\ UseUp("presses", MaxCommands)
  /\ action' = [action EXCEPT ![s] =
                  [at |-> "sent", member |-> m, command |-> command, result |-> NoRow]]
  /\ IF command = "add" THEN saving' = TRUE /\ UNCHANGED <<working, timer>>
     ELSE working' = m /\ timer' = FALSE /\ UNCHANGED saving
  /\ UNCHANGED <<row, roster, failures, rosterLoad>>

\* The answer is put into the list, and the list loaded again.
Silent(command) == command \in {"add", "retry", "cancel"}
Merged(s) ==
  LET m == action[s].member IN
  CASE action[s].command = "cancel" -> [roster EXCEPT ![m] = NoRow]
    [] action[s].command = "add" \/ roster[m] # NoRow -> [roster EXCEPT ![m] = action[s].result]
    [] OTHER -> roster
CommandAccepted(s) ==
  /\ action[s].at = "ok" /\ action' = [action EXCEPT ![s].at = "loading"]
  /\ roster' = Merged(s) /\ timer' = Rearmed(Merged(s), working)
  /\ rosterLoad' = [rosterLoad EXCEPT ![s] = Request(Silent(action[s].command))]
  /\ UNCHANGED <<row, working, saving, failures, peopleSpent>>

\* finally: memberActionId is emptied, whichever member it names by now.
WorkingAfter(s) == IF action[s].command = "add" THEN working ELSE Nobody
Ends(s) ==
  /\ action' = [action EXCEPT ![s] = NoCommand]
  /\ working' = WorkingAfter(s) /\ saving' = (saving /\ action[s].command # "add")
CommandRefused(s) ==
  /\ action[s].at = "refused" /\ Ends(s)
  /\ timer' = IF WorkingAfter(s) # working THEN Rearmed(roster, WorkingAfter(s)) ELSE timer
  /\ UNCHANGED <<row, roster, failures, rosterLoad, peopleSpent>>
\* A request fails, or its answer is lost.
LoseCommand(s) ==
  /\ action[s].at \in {"sent", "ok"} /\ UseUp("losses", MaxLosses)
  /\ action' = [action EXCEPT ![s].at = "refused"]
  /\ UNCHANGED <<row, roster, working, saving, failures, timer, rosterLoad>>

-----------------------------------------------------------------------------
(***************************************************************************)
(* Loads.                                                                  *)
(***************************************************************************)
Poll ==
  /\ timer /\ rosterLoad[0].at = "none" /\ timer' = FALSE
  /\ rosterLoad' = [rosterLoad EXCEPT ![0] = Request(TRUE)]
  /\ UNCHANGED <<row, roster, working, saving, failures, action, peopleSpent>>
\* The token is renewed: the list is loaded, and the timer set again.
RenewRoster ==
  /\ rosterLoad[0].at = "none" /\ UseUp("renewals", MaxRenewals)
  /\ rosterLoad' = [rosterLoad EXCEPT ![0] = Request(TRUE)]
  /\ timer' = Rearmed(roster, working)
  /\ UNCHANGED <<row, roster, working, saving, failures, action>>
ReadRoster(o) ==
  /\ rosterLoad[o].at = "sent"
  /\ rosterLoad' = [rosterLoad EXCEPT ![o] =
                      [at |-> "read", silent |-> rosterLoad[o].silent, data |-> row]]
  /\ UNCHANGED <<row, roster, working, saving, failures, timer, action, peopleSpent>>

AfterLoad(o) == IF o = 0 THEN working ELSE WorkingAfter(o)
RosterEnds(o) ==
  /\ rosterLoad' = [rosterLoad EXCEPT ![o] = NoRosterLoad]
  /\ IF o = 0 THEN UNCHANGED <<action, working, saving>> ELSE Ends(o)
ShowRoster(o) ==
  /\ rosterLoad[o].at = "read" /\ RosterEnds(o) /\ roster' = rosterLoad[o].data /\ failures' = 0
  /\ timer' = Rearmed(rosterLoad[o].data, AfterLoad(o))
  /\ UNCHANGED <<row, peopleSpent>>
\* Faulty: a silent failure is not counted, so that nothing has changed.
FailUncounted(o) ==
  /\ rosterLoad[o].at \in {"sent", "read"} /\ UseUp("losses", MaxLosses) /\ RosterEnds(o)
  /\ timer' = IF AfterLoad(o) # working THEN Rearmed(roster, AfterLoad(o)) ELSE timer
  /\ UNCHANGED <<row, roster, failures>>
FailRoster(o) ==
  LET count == IF rosterLoad[o].silent THEN Failures ELSE failures IN
  /\ rosterLoad[o].at \in {"sent", "read"} /\ UseUp("losses", MaxLosses) /\ RosterEnds(o)
  /\ failures' = count
  /\ timer' = IF count # failures \/ AfterLoad(o) # working
              THEN Rearmed(roster, AfterLoad(o)) ELSE timer
  /\ UNCHANGED <<row, roster>>

RosterStep(o) == ReadRoster(o) \/ ShowRoster(o)
CommandStep(s) == ServeCommand(s) \/ CommandAccepted(s) \/ CommandRefused(s)
PeopleNext ==
  \/ \E s \in CommandSlots : \/ CommandStep(s) \/ LoseCommand(s)
                             \/ \E m \in Members, c \in Commands : PressCommand(s, m, c)
  \/ \E o \in Loaders : RosterStep(o) \/ FailRoster(o)
  \/ \E m \in Members : SetUp(m)
  \/ Poll \/ RenewRoster
PeopleSpec == PeopleInit /\ [][PeopleNext]_peopleVars

-----------------------------------------------------------------------------
(***************************************************************************)
(* Properties.                                                             *)
(***************************************************************************)

\* qa/team-provisioning-poll.spec.js:95, "a transient provisioning poll failure
\* keeps setup available and retries with backoff": while an account is shown as
\* being set up and nobody's buttons are disabled, a poll is under way or due.
PollGoesOn ==
  Pending(roster) /\ working = Nobody /\ rosterLoad[0].at = "none" => timer

\* docs/ui-task-list.md:266, "Server mutations reject duplicate taps [...]
\* people": the same action is never under way twice for a member.
NoDuplicateTaps ==
  \A s, r \in CommandSlots : s # r /\ action[s].at # "none" /\ action[r].at # "none"
      => <<action[s].member, action[s].command>> # <<action[r].member, action[r].command>>
=============================================================================
