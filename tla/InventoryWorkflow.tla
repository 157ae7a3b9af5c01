------------------------- MODULE InventoryWorkflow -------------------------
(***************************************************************************)
(* The inventory ledger of one platoon: sessions, the packet rows of a     *)
(* session, and the proof submitted and reviewed for a row.                *)
(*                                                                         *)
(* Every mutating handler of backend/src/routes.js opens one transaction   *)
(* and locks the row and its session FOR UPDATE before it reads the state  *)
(* it decides on, so a handler is one action.  The exception is the        *)
(* deletion of a session, which counts the rows without a lock and deletes *)
(* in a later statement: CountRows, then DeleteSession.                    *)
(*                                                                         *)
(* Who may act is decided before the transaction: Leaders (tenant_admin),  *)
(* Contributors, and Crew, the guests of one session.  This module lets    *)
(* any crew member act on any row; CrewWorkflow restricts crew to a live   *)
(* pass.  A UUID is a member of Sessions, Items or Submissions: the sets   *)
(* bound how many of each exist at a time.                                 *)
(***************************************************************************)

CONSTANTS
  Sessions,      \* ids of inventory sessions
  Items,         \* ids of session rows
  Submissions,   \* ids of proof submissions
  Leaders,       \* users with role tenant_admin
  Contributors,  \* users with role contributor
  Crew,          \* the guest users, one for each crew pass
  None           \* SQL NULL

Users == Leaders \cup Contributors \cup Crew
Members == Leaders \cup Contributors

ASSUME RolesAreDisjoint ==
  /\ Leaders \cap Contributors = {}
  /\ Members \cap Crew = {}

VARIABLES
  sessStatus,   \* status of a session; "none" before, "deleted" after
  completed,    \* whether inventory_sessions.completed_at is set
  counted,      \* sessions a DELETE handler has counted as empty
  itemSession,  \* session of a row, None when there is no such row
  itemStatus,   \* status of a row
  assignee,     \* assigned_to of a row
  verified,     \* whether direct_verified_by of a row is set
  match,        \* the saved item of a row: none, only suggested, confirmed
  subItem,      \* row a submission is for
  subBy,        \* submitted_by
  subState,     \* review_state
  subRoute,     \* review_return_route
  openReq       \* whether the submission has an unresolved evidence request

sessVars == <<sessStatus, completed, counted>>
subVars  == <<subItem, subBy, subState, subRoute, openReq>>
ledgerVars ==
  <<sessStatus, completed, counted, itemSession, itemStatus, assignee,
    verified, match, subItem, subBy, subState, subRoute, openReq>>

SessionStatus == {"none", "draft", "active", "closed", "deleted"}

\* A direct check writes found, not_found or mismatch: no handler tells them
\* apart, so "checked" stands for the three.
RowStatus == {"absent", "unchecked", "needs_review", "approved", "checked"}
Resolved == {"approved", "checked"}
MatchState == {"none", "suggested", "confirmed"}

ReviewState ==
  {"absent", "pending", "request_more_info", "approved", "rejected",
   "superseded", "withdrawn"}
Actionable == {"pending", "request_more_info"}
ReturnRoute == {"submitter", "unassigned"}

ASSUME NoneIsNoId == None \notin Users \cup Sessions \cup Items \cup ReturnRoute

\* Type correctness of the ledger: every column holds a value of its kind.
LedgerTypeOK ==
  /\ sessStatus \in [Sessions -> SessionStatus]
  /\ completed \in [Sessions -> BOOLEAN]
  /\ counted \subseteq Sessions
  /\ itemSession \in [Items -> Sessions \cup {None}]
  /\ itemStatus \in [Items -> RowStatus]
  /\ assignee \in [Items -> Users \cup {None}]
  /\ verified \in [Items -> BOOLEAN]
  /\ match \in [Items -> MatchState]
  /\ subItem \in [Submissions -> Items \cup {None}]
  /\ subBy \in [Submissions -> Users \cup {None}]
  /\ subState \in [Submissions -> ReviewState]
  /\ subRoute \in [Submissions -> ReturnRoute \cup {None}]
  /\ openReq \in [Submissions -> BOOLEAN]

LedgerInit ==
  /\ sessStatus = [s \in Sessions |-> "none"]
  /\ completed = [s \in Sessions |-> FALSE]
  /\ counted = {}
  /\ itemSession = [i \in Items |-> None]
  /\ itemStatus = [i \in Items |-> "absent"]
  /\ assignee = [i \in Items |-> None]
  /\ verified = [i \in Items |-> FALSE]
  /\ match = [i \in Items |-> "none"]
  /\ subItem = [x \in Submissions |-> None]
  /\ subBy = [x \in Submissions |-> None]
  /\ subState = [x \in Submissions |-> "absent"]
  /\ subRoute = [x \in Submissions |-> None]
  /\ openReq = [x \in Submissions |-> FALSE]

-----------------------------------------------------------------------------
(***************************************************************************)
(* Reading the ledger.                                                     *)
(***************************************************************************)

Exists(s) == sessStatus[s] \in {"draft", "active", "closed"}
RowsOf(s) == {i \in Items : itemSession[i] = s}
ProofOf(i) == {x \in Submissions : subItem[x] = i}
ActionableOn(i) == {x \in ProofOf(i) : subState[x] \in Actionable}

-----------------------------------------------------------------------------
(***************************************************************************)
(* Faulty variants of the operators that follow: a check left out, a state *)
(* forgotten, a column not written.  No specification uses them; each shows *)
(* that a property notices the bug when it takes the operator's place.     *)
(***************************************************************************)

ClosedIsWritable(i) == itemStatus[i] # "absent"
CheckDropsOnlyPending(i) == {x \in ProofOf(i) : subState[x] = "pending"}
KeepsOwnRequest(x, y) == subItem[y] = subItem[x] /\ subState'[y] = "superseded"
OnlyPendingBlocks(s) ==
  \A i \in RowsOf(s) : \A x \in ProofOf(i) : subState[x] # "pending"
OnlyReleasedRows(P) ==
  [i \in {j \in Items : <<itemSession[j], assignee[j]>> \in P} |-> None]

-----------------------------------------------------------------------------
(***************************************************************************)
(* What the handlers look for and what they compute.                       *)
(***************************************************************************)

\* What a handler finds when it locks row i: the row is there and its
\* session is not closed.
Writable(i) ==
  /\ itemStatus[i] # "absent"
  /\ sessStatus[itemSession[i]] # "closed"

\* What a review finds when it locks submission x: still undecided, on a
\* row that may be written.
Reviewable(x) ==
  /\ subState[x] \in Actionable
  /\ Writable(subItem[x])

\* What new proof for row i, or a decision on the row, supersedes.
Superseded(i) == ActionableOn(i)

\* What a direct check of row i supersedes: undecided and returned proof.
DroppedByCheck(i) ==
  {x \in ProofOf(i) : subState[x] \in Actionable \cup {"rejected"}}

\* The return routes when those of the submissions D are set to NULL.
ClearedRoutes(D) == [x \in Submissions |-> IF x \in D THEN None ELSE subRoute[x]]

\* A decision on x resolves the evidence requests of submission y: x itself,
\* and all that is superseded on the row by then.
ResolvesRequest(x, y) ==
  subItem[y] = subItem[x] /\ (y = x \/ subState'[y] = "superseded")

\* The saved item suggested for row i was confirmed or dismissed.
SuggestionResolved(i) == match[i] # "suggested"

\* No submission of session s awaits a decision.
NothingInReview(s) == \A i \in RowsOf(s) : ActionableOn(i) = {}

\* The submissions the foreign keys delete with session s.
CascadedProof(s) == {x \in Submissions : subItem[x] \in RowsOf(s)}

\* The trigger on inserts of rows and writes of their status: completed_at
\* is set exactly when the session has rows and all of them are resolved.
RecordCompletion(s) ==
  completed' = [completed EXCEPT ![s] =
    /\ \E i \in Items : itemSession'[i] = s
    /\ \A i \in Items : itemSession'[i] = s => itemStatus'[i] \in Resolved]

\* releaseCrewClaims for each pair <<session, crew user>> in P: the user's
\* unchecked rows of that session that never had a submission lose their
\* assignee.
ReleasedClaims(P) ==
  [i \in Items |->
     IF /\ <<itemSession[i], assignee[i]>> \in P
        /\ itemStatus[i] = "unchecked"
        /\ ProofOf(i) = {}
     THEN None ELSE assignee[i]]

-----------------------------------------------------------------------------
(***************************************************************************)
(* Sessions.                                                               *)
(***************************************************************************)

CreateSession(s, st) ==
  /\ sessStatus[s] = "none"
  /\ sessStatus' = [sessStatus EXCEPT ![s] = st]
  /\ UNCHANGED <<completed, counted, itemSession, itemStatus, assignee,
                 verified, match, subVars>>

\* PATCH to draft or active, from any status: a closed session reopens.
SetSessionStatus(s, st) ==
  /\ Exists(s)
  /\ sessStatus' = [sessStatus EXCEPT ![s] = st]
  /\ UNCHANGED <<completed, counted, itemSession, itemStatus, assignee,
                 verified, match, subVars>>

\* PATCH to closed: refused while a submission awaits a decision.  U is the
\* crew whose passes the close retires.
CloseSession(s, U) ==
  /\ sessStatus[s] \in {"draft", "active"}
  /\ NothingInReview(s)
  /\ sessStatus' = [sessStatus EXCEPT ![s] = "closed"]
  /\ assignee' = ReleasedClaims({s} \X U)
  /\ UNCHANGED <<completed, counted, itemSession, itemStatus, verified,
                 match, subVars>>

\* DELETE, first statement: the rows are counted and nothing is locked.
CountRows(s) ==
  /\ Exists(s)
  /\ RowsOf(s) = {}
  /\ counted' = counted \cup {s}
  /\ UNCHANGED <<sessStatus, completed, itemSession, itemStatus, assignee,
                 verified, match, subVars>>

\* DELETE, second statement: the session goes, and with it, by the foreign
\* keys, every row and submission it has by now.
DeleteSession(s) ==
  LET goneProof == CascadedProof(s)
  IN /\ s \in counted
     /\ counted' = counted \ {s}
     /\ sessStatus' = [sessStatus EXCEPT ![s] = "deleted"]
     /\ completed' = [completed EXCEPT ![s] = FALSE]
     /\ itemSession' = [i \in Items |-> IF i \in RowsOf(s) THEN None ELSE itemSession[i]]
     /\ itemStatus' = [i \in Items |-> IF i \in RowsOf(s) THEN "absent" ELSE itemStatus[i]]
     /\ assignee' = [i \in Items |-> IF i \in RowsOf(s) THEN None ELSE assignee[i]]
     /\ verified' = [i \in Items |-> i \notin RowsOf(s) /\ verified[i]]
     /\ match' = [i \in Items |-> IF i \in RowsOf(s) THEN "none" ELSE match[i]]
     /\ subItem' = [x \in Submissions |-> IF x \in goneProof THEN None ELSE subItem[x]]
     /\ subBy' = [x \in Submissions |-> IF x \in goneProof THEN None ELSE subBy[x]]
     /\ subState' = [x \in Submissions |-> IF x \in goneProof THEN "absent" ELSE subState[x]]
     /\ subRoute' = ClearedRoutes(goneProof)
     /\ openReq' = [x \in Submissions |-> x \notin goneProof /\ openReq[x]]

\* POST items and POST items/bulk: rows R are inserted into any session that
\* exists, closed ones included, with the saved item m[i] the matcher or the
\* leader chose for row i.
AddRows(s, R, m) ==
  /\ Exists(s)
  /\ R # {}
  /\ \A i \in R : itemStatus[i] = "absent"
  /\ itemSession' = [i \in Items |-> IF i \in R THEN s ELSE itemSession[i]]
  /\ itemStatus' = [i \in Items |-> IF i \in R THEN "unchecked" ELSE itemStatus[i]]
  /\ match' = [i \in Items |-> IF i \in R THEN m[i] ELSE match[i]]
  /\ UNCHANGED <<sessStatus, counted, assignee, verified, subVars>>
  /\ RecordCompletion(s)

-----------------------------------------------------------------------------
(***************************************************************************)
(* Rows: claims, assignments, the suggested saved item, direct checks.     *)
(***************************************************************************)

\* Self-assignment, for every role: the row is free or already theirs.
Claim(u, i) ==
  /\ Writable(i)
  /\ assignee[i] \in {None, u}
  /\ assignee' = [assignee EXCEPT ![i] = u]
  /\ UNCHANGED <<sessVars, itemSession, itemStatus, verified, match, subVars>>

\* Release by someone who is not a leader: not a row another user holds.
Release(u, i) ==
  /\ u \notin Leaders
  /\ Writable(i)
  /\ assignee[i] \in {None, u}
  /\ assignee' = [assignee EXCEPT ![i] = None]
  /\ UNCHANGED <<sessVars, itemSession, itemStatus, verified, match, subVars>>

\* A leader assigns the row to a permanent member, or clears it.
Assign(i, u) ==
  /\ u \in Members \cup {None}
  /\ Writable(i)
  /\ assignee' = [assignee EXCEPT ![i] = u]
  /\ UNCHANGED <<sessVars, itemSession, itemStatus, verified, match, subVars>>

\* A leader confirms or dismisses the suggested saved item of a row.
ResolveMatch(i, m) ==
  /\ Writable(i)
  /\ match[i] = "suggested"
  /\ match' = [match EXCEPT ![i] = m]
  /\ UNCHANGED <<sessVars, itemSession, itemStatus, assignee, verified, subVars>>

\* The claims of crew users are released when their pass ends.
ReleaseClaims(P) ==
  /\ assignee' = ReleasedClaims(P)
  /\ UNCHANGED <<sessVars, itemSession, itemStatus, verified, match, subVars>>

\* A leader records what they saw: undecided and returned proof of the row
\* is superseded, its evidence requests are resolved, the row is unassigned.
DirectCheck(i) ==
  LET dropped == DroppedByCheck(i)
  IN /\ Writable(i)
     /\ subState' = [x \in Submissions |-> IF x \in dropped THEN "superseded" ELSE subState[x]]
     /\ subRoute' = ClearedRoutes(dropped)
     /\ openReq' = [x \in Submissions |-> x \notin dropped /\ openReq[x]]
     /\ itemStatus' = [itemStatus EXCEPT ![i] = "checked"]
     /\ verified' = [verified EXCEPT ![i] = TRUE]
     /\ assignee' = [assignee EXCEPT ![i] = None]
     /\ UNCHANGED <<sessStatus, counted, itemSession, match, subItem, subBy>>
     /\ RecordCompletion(itemSession[i])

-----------------------------------------------------------------------------
(***************************************************************************)
(* Proof: submission, withdrawal and review.                               *)
(***************************************************************************)

\* A claim holder, or a leader on any row, submits proof x.  What awaited a
\* decision on the row is superseded and its evidence requests resolved.
Submit(u, i, x) ==
  /\ Writable(i)
  /\ u \in Leaders \/ assignee[i] = u
  /\ subState[x] = "absent"
  /\ subItem' = [subItem EXCEPT ![x] = i]
  /\ subBy' = [subBy EXCEPT ![x] = u]
  /\ subState' = [y \in Submissions |->
                    IF y = x THEN "pending"
                    ELSE IF y \in Superseded(i) THEN "superseded" ELSE subState[y]]
  /\ openReq' = [y \in Submissions |-> y \notin Superseded(i) /\ openReq[y]]
  /\ itemStatus' = [itemStatus EXCEPT ![i] = "needs_review"]
  /\ verified' = [verified EXCEPT ![i] = FALSE]
  /\ UNCHANGED <<sessStatus, counted, itemSession, assignee, match, subRoute>>
  /\ RecordCompletion(itemSession[i])

\* The submitter takes undecided proof back; the claim on the row stays.
Withdraw(u, x) ==
  LET i == subItem[x]
  IN /\ Reviewable(x)
     /\ subBy[x] = u
     /\ subState' = [subState EXCEPT ![x] = "withdrawn"]
     /\ subRoute' = [subRoute EXCEPT ![x] = None]
     /\ openReq' = [openReq EXCEPT ![x] = FALSE]
     /\ itemStatus' = [itemStatus EXCEPT ![i] = "unchecked"]
     /\ verified' = [verified EXCEPT ![i] = FALSE]
     /\ UNCHANGED <<sessStatus, counted, itemSession, assignee, match, subItem, subBy>>
     /\ RecordCompletion(itemSession[i])

\* Decision d on x: every other undecided submission of the row is
\* superseded, and the evidence requests of x and of all superseded
\* submissions of the row are resolved.
Decide(x, d) ==
  /\ subState' = [y \in Submissions |->
                    IF y = x THEN d
                    ELSE IF y \in Superseded(subItem[x]) THEN "superseded" ELSE subState[y]]
  /\ openReq' = [y \in Submissions |-> openReq[y] /\ ~ResolvesRequest(x, y)]

\* Approval is refused while a suggested saved item is unresolved; saving
\* the item for later sessions confirms the row's saved item.
Approve(x, save) ==
  LET i == subItem[x]
  IN /\ Reviewable(x)
     /\ SuggestionResolved(i)
     /\ Decide(x, "approved")
     /\ subRoute' = [subRoute EXCEPT ![x] = None]
     /\ itemStatus' = [itemStatus EXCEPT ![i] = "approved"]
     /\ match' = IF save THEN [match EXCEPT ![i] = "confirmed"] ELSE match
     /\ UNCHANGED <<sessStatus, counted, itemSession, assignee, verified, subItem, subBy>>
     /\ RecordCompletion(itemSession[i])

\* Rejected proof goes back to its submitter or to the shared queue.
Reject(x, route) ==
  LET i == subItem[x]
  IN /\ Reviewable(x)
     /\ Decide(x, "rejected")
     /\ subRoute' = [subRoute EXCEPT ![x] = route]
     /\ itemStatus' = [itemStatus EXCEPT ![i] = "unchecked"]
     /\ verified' = [verified EXCEPT ![i] = FALSE]
     /\ assignee' = [assignee EXCEPT ![i] = IF route = "submitter" THEN subBy[x] ELSE None]
     /\ UNCHANGED <<sessStatus, counted, itemSession, match, subItem, subBy>>
     /\ RecordCompletion(itemSession[i])

\* The review decision request_more_info: the row goes back to the
\* submitter and stays in review; evidence requests are not touched.
RequestMoreInfo(x) ==
  LET i == subItem[x]
  IN /\ Reviewable(x)
     /\ subState' = [subState EXCEPT ![x] = "request_more_info"]
     /\ subRoute' = [subRoute EXCEPT ![x] = None]
     /\ itemStatus' = [itemStatus EXCEPT ![i] = "needs_review"]
     /\ assignee' = [assignee EXCEPT ![i] = subBy[x]]
     /\ UNCHANGED <<sessStatus, counted, itemSession, verified, match, subItem,
                    subBy, openReq>>
     /\ RecordCompletion(itemSession[i])

\* POST evidence-requests: the same, with an evidence request left open.
RequestEvidence(x) ==
  LET i == subItem[x]
  IN /\ Reviewable(x)
     /\ subState' = [subState EXCEPT ![x] = "request_more_info"]
     /\ openReq' = [openReq EXCEPT ![x] = TRUE]
     /\ itemStatus' = [itemStatus EXCEPT ![i] = "needs_review"]
     /\ assignee' = [assignee EXCEPT ![i] = subBy[x]]
     /\ UNCHANGED <<sessStatus, counted, itemSession, verified, match, subItem,
                    subBy, subRoute>>
     /\ RecordCompletion(itemSession[i])

-----------------------------------------------------------------------------
(***************************************************************************)
(* The handlers by the role they ask for, and the ledger's specification.  *)
(***************************************************************************)

\* Sessions and their rows: leaders only.
ManageSession(s) ==
  \/ \E st \in {"draft", "active"} : CreateSession(s, st) \/ SetSessionStatus(s, st)
  \/ CountRows(s)
  \/ DeleteSession(s)
  \/ \E R \in SUBSET Items : \E m \in [R -> MatchState] : AddRows(s, R, m)

\* What only a leader does to a row.
LeadRow(i) ==
  \/ \E u \in Members \cup {None} : Assign(i, u)
  \/ \E m \in {"none", "confirmed"} : ResolveMatch(i, m)
  \/ DirectCheck(i)

\* What only a leader does to a submission.
Review(x) ==
  \/ \E save \in BOOLEAN : Approve(x, save)
  \/ \E route \in ReturnRoute : Reject(x, route)
  \/ RequestMoreInfo(x)
  \/ RequestEvidence(x)

\* What leaders, contributors and crew do alike.
Work(u) ==
  \/ \E i \in Items : Claim(u, i) \/ Release(u, i)
  \/ \E i \in Items, x \in Submissions : Submit(u, i, x)
  \/ \E x \in Submissions : Withdraw(u, x)

LedgerNext ==
  \/ \E s \in Sessions : ManageSession(s)
  \/ \E s \in Sessions, U \in SUBSET Crew : CloseSession(s, U)
  \/ \E P \in SUBSET (Sessions \X Crew) : ReleaseClaims(P)
  \/ \E i \in Items : LeadRow(i)
  \/ \E x \in Submissions : Review(x)
  \/ \E u \in Users : Work(u)

LedgerSpec == LedgerInit /\ [][LedgerNext]_ledgerVars

-----------------------------------------------------------------------------
(***************************************************************************)
(* The ledger implements RowLifecycle.  The phase of a row is read off its *)
(* submissions, not off its status column, wherever they decide it.        *)
(***************************************************************************)

RowPhase(i) ==
  CASE itemStatus[i] = "absent" -> "absent"
    [] itemStatus[i] # "absent" /\ ActionableOn(i) # {} -> "in_review"
    [] ActionableOn(i) = {} /\ itemStatus[i] \in Resolved -> "resolved"
    [] OTHER -> "open"

Lifecycle == INSTANCE RowLifecycle WITH
  phase  <- [i \in Items |-> RowPhase(i)],
  home   <- itemSession,
  sealed <- {s \in Sessions : sessStatus[s] = "closed"}

\* A resolved row returns to work only through new proof, a session closes
\* only when nothing of it is under review, and the rows of a closed session
\* keep their phase: the handlers implement the lifecycle.
ImplementsLifecycle == Lifecycle!LifecycleSpec

-----------------------------------------------------------------------------
(***************************************************************************)
(* Correctness of the ledger.                                              *)
(***************************************************************************)

\* A row is shown in the review queue (needs_review) exactly while one of its
\* submissions awaits a decision: no proof is lost to the reviewers, and no
\* row waits for a decision nobody can take (routes.js: submissions, withdraw,
\* review, direct-check).
ReviewQueueExact ==
  \A i \in Items : itemStatus[i] = "needs_review" <=> ActionableOn(i) # {}

\* At most one submission of a row awaits a decision, so the unique index of
\* db/015 never turns a submit or a review into an error.
OneActionable ==
  \A i \in Items : \A x, y \in ActionableOn(i) : x = y

\* A closed session holds no undecided proof and no open evidence request,
\* whatever submits, reviews, reopenings and closes led there.
ClosedIsSettled ==
  \A i \in Items : itemSession[i] # None /\ sessStatus[itemSession[i]] = "closed"
    => ActionableOn(i) = {} /\ \A x \in ProofOf(i) : ~openReq[x]

\* An evidence request is open only on a submission that is waiting for more
\* information: every path out of that state resolves it.
RequestsAreLive ==
  \A x \in Submissions : openReq[x] => subState[x] = "request_more_info"

\* An approved row has an approved submission and no unresolved suggestion,
\* so what it is counted as is what somebody approved.
ApprovedIsBacked ==
  \A i \in Items : itemStatus[i] = "approved"
    => /\ match[i] # "suggested"
       /\ \E x \in ProofOf(i) : subState[x] = "approved"

\* direct_verified_by names a leader exactly on the rows whose status is the
\* result of a direct check, and such a row has no proof out for rework.
DirectCheckSettles ==
  \A i \in Items :
    /\ verified[i] <=> itemStatus[i] = "checked"
    /\ verified[i] => \A x \in ProofOf(i) :
                        subState[x] \in {"approved", "superseded", "withdrawn"}

\* The CHECK constraint of db/025 on review_return_route never fails a
\* handler: exactly the rejected submissions have a return route.
RejectionHasRoute ==
  \A x \in Submissions : subState[x] = "rejected" <=> subRoute[x] # None

\* completed_at is set exactly on sessions with rows, all of them resolved:
\* the trigger of db/025 fires on every write that could change the answer.
CompletionExact ==
  \A s \in Sessions : completed[s] <=>
    RowsOf(s) # {} /\ \A i \in RowsOf(s) : itemStatus[i] \in Resolved

\* Only what exists refers, and what exists is whole: the rows of a session
\* and the proof of a row go when it goes.
NoOrphans ==
  /\ \A i \in Items :
       /\ itemStatus[i] = "absent" <=> itemSession[i] = None
       /\ itemSession[i] # None => Exists(itemSession[i])
  /\ \A x \in Submissions :
       /\ subState[x] = "absent" <=> subItem[x] = None
       /\ subItem[x] # None => itemStatus[subItem[x]] # "absent" /\ subBy[x] # None

\* What a row is counted as and what its proof says fit together: one undecided
\* submission at most, evidence asked for only where it is awaited, approval
\* only of what was approved, completion exactly when all is resolved.
RowsMatchProof ==
  /\ LedgerTypeOK
  /\ NoOrphans /\ OneActionable /\ RequestsAreLive /\ ApprovedIsBacked
  /\ DirectCheckSettles /\ RejectionHasRoute /\ CompletionExact

\* The conjunction is inductive: each part holds after a step because of the
\* others before it.
LedgerInv ==
  /\ LedgerTypeOK
  /\ NoOrphans
  /\ ReviewQueueExact
  /\ OneActionable
  /\ ClosedIsSettled
  /\ RequestsAreLive
  /\ ApprovedIsBacked
  /\ DirectCheckSettles
  /\ RejectionHasRoute
  /\ CompletionExact

\* Verdicts are final: approved, superseded and withdrawn proof is never
\* decided again, and rejected proof changes only when a direct check
\* supersedes it (proof may disappear with its session).
VerdictsAreFinal ==
  [][\A x \in Submissions :
       subState[x] \in {"approved", "rejected", "superseded", "withdrawn"}
         => \/ subState'[x] \in {subState[x], "absent"}
            \/ subState[x] = "rejected" /\ itemStatus'[subItem[x]] = "checked"
    ]_ledgerVars

\* The rows and the proof of a session that is and stays closed do not
\* change: the docs call closed sessions read-only.
ClosedRowsFrozen ==
  [][\A i \in Items : itemSession[i] # None =>
       LET s == itemSession[i]
       IN sessStatus[s] = "closed" /\ sessStatus'[s] = "closed"
            => /\ itemStatus'[i] = itemStatus[i]
               /\ match'[i] = match[i]
               /\ verified'[i] = verified[i]
               /\ \A x \in Submissions :
                    subItem[x] = i \/ subItem'[x] = i => subState'[x] = subState[x]
    ]_ledgerVars

\* Nothing that was settled moves again: neither a verdict nor a closed session.
NothingReopens == VerdictsAreFinal /\ ClosedRowsFrozen

\* docs/forkable-tasks.md:584 says the mutation routes enforce that closed
\* sessions are read-only: no row is added to a session that is closed.
ClosedGainsNoRows ==
  [][\A s \in Sessions : sessStatus[s] = "closed" /\ sessStatus'[s] = "closed"
       => RowsOf(s)' \subseteq RowsOf(s)]_ledgerVars

\* routes.js:7308 promises that only empty sessions can be deleted.
OnlyEmptyDeleted ==
  [][\A s \in Sessions : Exists(s) /\ sessStatus'[s] = "deleted"
       => RowsOf(s) = {}]_ledgerVars
=============================================================================
