---------------------------- MODULE LedgerProofs ----------------------------
(***************************************************************************)
(* Proofs about the ledger, for any finite or infinite sets of sessions,   *)
(* rows, submissions and users, and about the ledger with crew passes, for *)
(* any finite number of passes: the composition implements the ledger      *)
(* alone, so it inherits LedgerInv, and the passes keep their own          *)
(* invariant.                                                              *)
(***************************************************************************)
EXTENDS CrewWorkflow, FiniteSetTheorems, TLAPS

\* The initial ledger is empty and well typed.
LEMMA InitType == LedgerInit => LedgerTypeOK
  BY DEF LedgerInit, LedgerTypeOK, SessionStatus, RowStatus, MatchState,
         ReviewState, ReturnRoute

\* Every handler writes values of the right kind.
LEMMA StepType == LedgerTypeOK /\ [LedgerNext]_ledgerVars => LedgerTypeOK'
<1> SUFFICES ASSUME LedgerTypeOK, [LedgerNext]_ledgerVars PROVE LedgerTypeOK'
  OBVIOUS
<1> USE DEF LedgerTypeOK, SessionStatus, RowStatus, MatchState, ReviewState,
            ReturnRoute, sessVars, subVars
<1>1. ASSUME NEW s \in Sessions, NEW st \in {"draft", "active"}, CreateSession(s, st)
      PROVE LedgerTypeOK'
  BY <1>1 DEF CreateSession
<1>2. ASSUME NEW s \in Sessions, NEW st \in {"draft", "active"}, SetSessionStatus(s, st)
      PROVE LedgerTypeOK'
  BY <1>2 DEF SetSessionStatus
<1>3. ASSUME NEW s \in Sessions, CountRows(s)
      PROVE LedgerTypeOK'
  BY <1>3 DEF CountRows
<1>4. ASSUME NEW s \in Sessions, DeleteSession(s)
      PROVE LedgerTypeOK'
  BY <1>4 DEF DeleteSession, CascadedProof, ClearedRoutes
<1>5. ASSUME NEW s \in Sessions, NEW R \in SUBSET Items, NEW m \in [R -> MatchState],
             AddRows(s, R, m)
      PROVE LedgerTypeOK'
  BY <1>5 DEF AddRows, RecordCompletion
<1>6. ASSUME NEW s \in Sessions, NEW U \in SUBSET Crew, CloseSession(s, U)
      PROVE LedgerTypeOK'
  BY <1>6 DEF CloseSession, NothingInReview, ReleasedClaims
<1>7. ASSUME NEW P \in SUBSET (Sessions \X Crew), ReleaseClaims(P)
      PROVE LedgerTypeOK'
  BY <1>7 DEF ReleaseClaims, ReleasedClaims
<1>8. ASSUME NEW i \in Items, NEW u \in Members \cup {None}, Assign(i, u)
      PROVE LedgerTypeOK'
  BY <1>8 DEF Assign, Members, Users
<1>9. ASSUME NEW i \in Items, NEW m \in {"none", "confirmed"}, ResolveMatch(i, m)
      PROVE LedgerTypeOK'
  BY <1>9 DEF ResolveMatch
<1>10. ASSUME NEW i \in Items, DirectCheck(i)
       PROVE LedgerTypeOK'
  BY <1>10 DEF DirectCheck, DroppedByCheck, ClearedRoutes, RecordCompletion
<1>11. ASSUME NEW x \in Submissions, NEW save \in BOOLEAN, Approve(x, save)
       PROVE LedgerTypeOK'
  BY <1>11 DEF Approve, SuggestionResolved, Decide, Superseded, ResolvesRequest,
      RecordCompletion
<1>12. ASSUME NEW x \in Submissions, NEW route \in ReturnRoute, Reject(x, route)
       PROVE LedgerTypeOK'
  BY <1>12 DEF Reject, Decide, Superseded, ResolvesRequest, RecordCompletion
<1>13. ASSUME NEW x \in Submissions, RequestMoreInfo(x)
       PROVE LedgerTypeOK'
  BY <1>13 DEF RequestMoreInfo, RecordCompletion
<1>14. ASSUME NEW x \in Submissions, RequestEvidence(x)
       PROVE LedgerTypeOK'
  BY <1>14 DEF RequestEvidence, RecordCompletion
<1>15. ASSUME NEW u \in Users, NEW i \in Items, Claim(u, i)
       PROVE LedgerTypeOK'
  BY <1>15 DEF Claim
<1>16. ASSUME NEW u \in Users, NEW i \in Items, Release(u, i)
       PROVE LedgerTypeOK'
  BY <1>16 DEF Release
<1>17. ASSUME NEW u \in Users, NEW i \in Items, NEW x \in Submissions, Submit(u, i, x)
       PROVE LedgerTypeOK'
  BY <1>17 DEF Submit, Superseded, RecordCompletion
<1>18. ASSUME NEW u \in Users, NEW x \in Submissions, Withdraw(u, x)
       PROVE LedgerTypeOK'
  BY <1>18 DEF Withdraw, RecordCompletion
<1>19. CASE UNCHANGED ledgerVars
  BY <1>19 DEF ledgerVars
<1> QED
  BY <1>1, <1>2, <1>3, <1>4, <1>5, <1>6, <1>7, <1>8, <1>9, <1>10, <1>11, <1>12,
     <1>13, <1>14, <1>15, <1>16, <1>17, <1>18, <1>19
     DEF LedgerNext, ManageSession, LeadRow, Review, Work

\* Every reachable ledger is well typed.
THEOREM LedgerTypeCorrect == LedgerSpec => []LedgerTypeOK
  BY InitType, StepType, PTL DEF LedgerSpec

-----------------------------------------------------------------------------
(***************************************************************************)
(* The steps, by what they can disturb.  An Idle step changes at most who  *)
(* holds a row and which sessions have been counted; a Quiet step changes  *)
(* no row status and no submission.                                        *)
(***************************************************************************)

Idle == UNCHANGED <<sessStatus, match, completed, itemSession, itemStatus,
                    verified, subVars>>
Quiet == UNCHANGED <<completed, itemSession, itemStatus, verified, subVars>>

\* Claims, assignments, releases and the counting of rows are idle.
LEMMA StepCases ==
  ASSUME [LedgerNext]_ledgerVars
  PROVE  \/ Idle
         \/ \E s \in Sessions, st \in {"draft", "active"} :
              CreateSession(s, st) \/ SetSessionStatus(s, st)
         \/ \E s \in Sessions, U \in SUBSET Crew : CloseSession(s, U)
         \/ \E i \in Items, m \in {"none", "confirmed"} : ResolveMatch(i, m)
         \/ \E s \in Sessions : DeleteSession(s)
         \/ \E s \in Sessions, R \in SUBSET Items :
              \E m \in [R -> MatchState] : AddRows(s, R, m)
         \/ \E i \in Items : DirectCheck(i)
         \/ \E x \in Submissions, save \in BOOLEAN : Approve(x, save)
         \/ \E x \in Submissions, route \in ReturnRoute : Reject(x, route)
         \/ \E x \in Submissions : RequestMoreInfo(x) \/ RequestEvidence(x)
         \/ \E u \in Users, i \in Items, x \in Submissions : Submit(u, i, x)
         \/ \E u \in Users, x \in Submissions : Withdraw(u, x)
<1>1. CASE UNCHANGED ledgerVars
  BY <1>1 DEF ledgerVars, Idle, subVars
<1>2. ASSUME NEW s \in Sessions, CountRows(s)
      PROVE  Idle
  BY <1>2 DEF CountRows, Idle
<1>3. ASSUME NEW P \in SUBSET (Sessions \X Crew), ReleaseClaims(P)
      PROVE  Idle
  BY <1>3 DEF ReleaseClaims, Idle, sessVars
<1>4. ASSUME NEW i \in Items, NEW u \in Members \cup {None}, Assign(i, u)
      PROVE  Idle
  BY <1>4 DEF Assign, Idle, sessVars
<1>5. ASSUME NEW i \in Items, NEW u \in Users, Claim(u, i) \/ Release(u, i)
      PROVE  Idle
  BY <1>5 DEF Claim, Release, Idle, sessVars
<1> QED
  BY <1>1, <1>2, <1>3, <1>4, <1>5 DEF LedgerNext, ManageSession, LeadRow, Review, Work

\* The status of a session and the saved item of a row are quiet too.
LEMMA QuietCases ==
  ASSUME [LedgerNext]_ledgerVars
  PROVE  \/ Quiet
         \/ \E s \in Sessions : DeleteSession(s)
         \/ \E s \in Sessions, R \in SUBSET Items :
              \E m \in [R -> MatchState] : AddRows(s, R, m)
         \/ \E i \in Items : DirectCheck(i)
         \/ \E x \in Submissions, save \in BOOLEAN : Approve(x, save)
         \/ \E x \in Submissions, route \in ReturnRoute : Reject(x, route)
         \/ \E x \in Submissions : RequestMoreInfo(x) \/ RequestEvidence(x)
         \/ \E u \in Users, i \in Items, x \in Submissions : Submit(u, i, x)
         \/ \E u \in Users, x \in Submissions : Withdraw(u, x)
<1>1. Idle => Quiet
  BY DEF Idle, Quiet
<1>2. ASSUME NEW s \in Sessions, NEW st \in {"draft", "active"},
             CreateSession(s, st) \/ SetSessionStatus(s, st)
      PROVE  Quiet
  BY <1>2 DEF CreateSession, SetSessionStatus, Quiet
<1>3. ASSUME NEW s \in Sessions, NEW U \in SUBSET Crew, CloseSession(s, U)
      PROVE  Quiet
  BY <1>3 DEF CloseSession, NothingInReview, Quiet
<1>4. ASSUME NEW i \in Items, NEW m \in {"none", "confirmed"}, ResolveMatch(i, m)
      PROVE  Quiet
  BY <1>4 DEF ResolveMatch, Quiet, sessVars
<1> QED
  BY <1>1, <1>2, <1>3, <1>4, StepCases

-----------------------------------------------------------------------------
(***************************************************************************)
(* One lemma for each part of LedgerInv: a step preserves it.              *)
(***************************************************************************)

\* Rows and proof are inserted whole, and deleted with what they refer to.
LEMMA StepNoOrphans ==
  ASSUME LedgerTypeOK, NoOrphans, [LedgerNext]_ledgerVars
  PROVE  NoOrphans'
<1>0. LedgerTypeOK'
  BY StepType
<1>1. CASE Idle
  BY <1>1 DEF Idle, subVars, NoOrphans, Exists, ProofOf, ActionableOn, Actionable
<1>2. ASSUME NEW s \in Sessions, NEW st \in {"draft", "active"},
             CreateSession(s, st) \/ SetSessionStatus(s, st)
      PROVE  NoOrphans'
  BY <1>0, <1>2 DEF CreateSession, SetSessionStatus, Exists, subVars, SessionStatus,
      LedgerTypeOK, NoOrphans, ProofOf, ActionableOn, Actionable
<1>3. ASSUME NEW s \in Sessions, NEW U \in SUBSET Crew, CloseSession(s, U)
      PROVE  NoOrphans'
  BY <1>0, <1>3 DEF CloseSession, NothingInReview, Exists, subVars, LedgerTypeOK,
      NoOrphans, ProofOf, ActionableOn, Actionable
<1>4. ASSUME NEW i \in Items, NEW m \in {"none", "confirmed"}, ResolveMatch(i, m)
      PROVE  NoOrphans'
  BY <1>0, <1>4 DEF ResolveMatch, subVars, sessVars, LedgerTypeOK, NoOrphans,
      Exists, ProofOf, ActionableOn, Actionable
<1>5. ASSUME NEW s \in Sessions, DeleteSession(s)
      PROVE  NoOrphans'
  <2>1. \A i \in Items : i \in RowsOf(s) =>
          itemStatus'[i] = "absent" /\ itemSession'[i] = None
    BY <1>5 DEF DeleteSession, CascadedProof, ClearedRoutes
  <2>2. \A i \in Items : i \notin RowsOf(s) =>
          itemStatus'[i] = itemStatus[i] /\ itemSession'[i] = itemSession[i]
    BY <1>5 DEF DeleteSession, CascadedProof, ClearedRoutes
  <2>3. \A t \in Sessions \ {s} : sessStatus'[t] = sessStatus[t]
    BY <1>5 DEF DeleteSession, CascadedProof, ClearedRoutes, LedgerTypeOK
  <2>4. \A i \in Items : i \notin RowsOf(s) /\ itemSession[i] # None =>
          itemSession[i] \in Sessions \ {s}
    BY DEF RowsOf, LedgerTypeOK
  <2>5. \A x \in Submissions : subItem[x] \in RowsOf(s) =>
          subState'[x] = "absent" /\ subItem'[x] = None
    BY <1>5 DEF DeleteSession, CascadedProof, ClearedRoutes
  <2>6. \A x \in Submissions : subItem[x] \notin RowsOf(s) =>
          subState'[x] = subState[x] /\ subItem'[x] = subItem[x] /\ subBy'[x] = subBy[x]
    BY <1>5 DEF DeleteSession, CascadedProof, ClearedRoutes
  <2>7. \A i \in Items : /\ itemStatus'[i] = "absent" <=> itemSession'[i] = None
                         /\ itemSession'[i] # None =>
                              sessStatus'[itemSession'[i]] \in {"draft", "active", "closed"}
    BY <2>1, <2>2, <2>3, <2>4 DEF NoOrphans, Exists
  <2>8. \A x \in Submissions : subItem[x] # None => subItem[x] \in Items
    BY DEF LedgerTypeOK
  <2>9. \A x \in Submissions :
          /\ subState'[x] = "absent" <=> subItem'[x] = None
          /\ subItem'[x] # None => itemStatus'[subItem'[x]] # "absent" /\ subBy'[x] # None
    BY <2>2, <2>5, <2>6, <2>8 DEF NoOrphans
  <2> QED
    BY <2>7, <2>9 DEF NoOrphans, Exists
<1>6. ASSUME NEW s \in Sessions, NEW R \in SUBSET Items, NEW m \in [R -> MatchState],
             AddRows(s, R, m)
      PROVE  NoOrphans'
  <2>1. s # None /\ Exists(s) /\ itemSession' = [i \in Items |-> IF i \in R THEN s ELSE itemSession[i]]
    BY <1>0, <1>6, NoneIsNoId DEF AddRows
  <2>2. \A i \in Items : /\ itemStatus'[i] = "absent" <=> itemSession'[i] = None
                         /\ itemSession'[i] # None =>
                              sessStatus'[itemSession'[i]] \in {"draft", "active", "closed"}
    BY <1>0, <1>6, <2>1 DEF AddRows, LedgerTypeOK, NoOrphans, Exists
  <2>3. \A x \in Submissions : subItem[x] # None => itemStatus'[subItem[x]] # "absent"
    BY <1>0, <1>6 DEF AddRows, LedgerTypeOK, NoOrphans
  <2> QED
    BY <1>0, <1>6, <2>2, <2>3 DEF AddRows, subVars, NoOrphans, Exists
<1>7. ASSUME NEW i \in Items, DirectCheck(i)
      PROVE  NoOrphans'
  <2>1. \A j \in Items : itemStatus'[j] = "absent" <=> itemStatus[j] = "absent"
    BY <1>0, <1>7 DEF DirectCheck, DroppedByCheck, ClearedRoutes, LedgerTypeOK, Writable
  <2>2. \A x \in Submissions : subState'[x] = "absent" <=> subState[x] = "absent"
    BY <1>0, <1>7 DEF DirectCheck, DroppedByCheck, ClearedRoutes, LedgerTypeOK,
      Actionable, ProofOf
  <2> QED
    BY <1>0, <1>7, <2>1, <2>2, NoneIsNoId DEF DirectCheck, DroppedByCheck,
      ClearedRoutes, NoOrphans, Exists, LedgerTypeOK
<1>8. ASSUME NEW x \in Submissions, NEW save \in BOOLEAN, Approve(x, save)
      PROVE  NoOrphans'
  BY <1>0, <1>8 DEF Approve, SuggestionResolved, Decide, Superseded, ResolvesRequest,
      Reviewable, Writable, LedgerTypeOK, NoOrphans, Exists, ProofOf, ActionableOn,
      Actionable
<1>9. ASSUME NEW x \in Submissions, NEW route \in ReturnRoute, Reject(x, route)
      PROVE  NoOrphans'
  BY <1>0, <1>9 DEF Reject, Decide, Superseded, ResolvesRequest, Reviewable, Writable,
      LedgerTypeOK, NoOrphans, Exists, ProofOf, ActionableOn, Actionable
<1>10. ASSUME NEW x \in Submissions, RequestMoreInfo(x)
      PROVE  NoOrphans'
  BY <1>0, <1>10 DEF RequestMoreInfo, Reviewable, Writable, LedgerTypeOK,
      NoOrphans, Exists, ProofOf, ActionableOn, Actionable
<1>11. ASSUME NEW x \in Submissions, RequestEvidence(x)
      PROVE  NoOrphans'
  BY <1>0, <1>11 DEF RequestEvidence, Reviewable, Writable, LedgerTypeOK,
      NoOrphans, Exists, ProofOf, ActionableOn, Actionable
<1>12. ASSUME NEW u \in Users, NEW i \in Items, NEW x \in Submissions, Submit(u, i, x)
      PROVE  NoOrphans'
  <2>1. \A j \in Items : itemStatus'[j] = "absent" <=> itemStatus[j] = "absent"
    BY <1>0, <1>12 DEF Submit, Superseded, LedgerTypeOK, Writable
  <2>2. \A y \in Submissions \ {x} : subState'[y] = "absent" <=> subState[y] = "absent"
    BY <1>0, <1>12 DEF Submit, Superseded, LedgerTypeOK, ActionableOn, Actionable,
      ProofOf
  <2>3. /\ subState'[x] = "pending" /\ subItem'[x] = i /\ subBy'[x] = u
        /\ i # None /\ u # None /\ itemStatus'[i] # "absent"
    BY <1>0, <1>12, NoneIsNoId DEF Submit, Superseded, LedgerTypeOK
  <2>4. \A y \in Submissions \ {x} : subItem'[y] = subItem[y] /\ subBy'[y] = subBy[y]
    BY <1>0, <1>12 DEF Submit, Superseded, LedgerTypeOK
  <2> QED
    BY <1>0, <1>12, <2>1, <2>2, <2>3, <2>4, NoneIsNoId DEF Submit, Superseded,
      NoOrphans, Exists, LedgerTypeOK
<1>13. ASSUME NEW u \in Users, NEW x \in Submissions, Withdraw(u, x)
      PROVE  NoOrphans'
  BY <1>0, <1>13 DEF Withdraw, Reviewable, Writable, LedgerTypeOK, NoOrphans,
      Exists, ProofOf, ActionableOn, Actionable
<1> QED
  BY <1>1, <1>2, <1>3, <1>4, <1>5, <1>6, <1>7, <1>8, <1>9, <1>10, <1>11, <1>12, <1>13, StepCases

\* New proof supersedes what awaited a decision.
LEMMA StepOneActionable ==
  ASSUME LedgerTypeOK, NoOrphans, OneActionable, [LedgerNext]_ledgerVars
  PROVE  OneActionable'
<1>0. LedgerTypeOK'
  BY StepType
<1>1. CASE Quiet
  BY <1>1 DEF Quiet, subVars, OneActionable, NoOrphans, RowsOf, ProofOf, ActionableOn, Actionable
<1>2. ASSUME NEW s \in Sessions, DeleteSession(s)
      PROVE  OneActionable'
  BY <1>0, <1>2 DEF DeleteSession, CascadedProof, ClearedRoutes, LedgerTypeOK,
      OneActionable, NoOrphans, RowsOf, ProofOf, ActionableOn, Actionable
<1>3. ASSUME NEW s \in Sessions, NEW R \in SUBSET Items, NEW m \in [R -> MatchState],
             AddRows(s, R, m)
      PROVE  OneActionable'
  BY <1>0, <1>3 DEF AddRows, subVars, LedgerTypeOK, OneActionable, NoOrphans,
      RowsOf, ProofOf, ActionableOn, Actionable
<1>4. ASSUME NEW i \in Items, DirectCheck(i)
      PROVE  OneActionable'
  BY <1>0, <1>4 DEF DirectCheck, DroppedByCheck, ClearedRoutes, LedgerTypeOK,
      OneActionable, NoOrphans, RowsOf, ProofOf, ActionableOn, Actionable
<1>5. ASSUME NEW x \in Submissions, NEW save \in BOOLEAN, Approve(x, save)
      PROVE  OneActionable'
  BY <1>0, <1>5 DEF Approve, SuggestionResolved, Decide, Superseded, ResolvesRequest,
      Reviewable, Writable, LedgerTypeOK, OneActionable, NoOrphans, RowsOf, ProofOf,
      ActionableOn, Actionable
<1>6. ASSUME NEW x \in Submissions, NEW route \in ReturnRoute, Reject(x, route)
      PROVE  OneActionable'
  BY <1>0, <1>6 DEF Reject, Decide, Superseded, ResolvesRequest, Reviewable, Writable,
      LedgerTypeOK, OneActionable, NoOrphans, RowsOf, ProofOf, ActionableOn, Actionable
<1>7. ASSUME NEW x \in Submissions, RequestMoreInfo(x)
      PROVE  OneActionable'
  BY <1>0, <1>7 DEF RequestMoreInfo, Reviewable, Writable, LedgerTypeOK,
      OneActionable, NoOrphans, RowsOf, ProofOf, ActionableOn, Actionable
<1>8. ASSUME NEW x \in Submissions, RequestEvidence(x)
      PROVE  OneActionable'
  BY <1>0, <1>8 DEF RequestEvidence, Reviewable, Writable, LedgerTypeOK,
      OneActionable, NoOrphans, RowsOf, ProofOf, ActionableOn, Actionable
<1>9. ASSUME NEW u \in Users, NEW i \in Items, NEW x \in Submissions, Submit(u, i, x)
      PROVE  OneActionable'
  BY <1>0, <1>9 DEF Submit, Superseded, Writable, LedgerTypeOK, OneActionable,
      NoOrphans, RowsOf, ProofOf, ActionableOn, Actionable
<1>10. ASSUME NEW u \in Users, NEW x \in Submissions, Withdraw(u, x)
      PROVE  OneActionable'
  BY <1>0, <1>10 DEF Withdraw, Reviewable, Writable, LedgerTypeOK,
      OneActionable, NoOrphans, RowsOf, ProofOf, ActionableOn, Actionable
<1> QED
  BY <1>1, <1>2, <1>3, <1>4, <1>5, <1>6, <1>7, <1>8, <1>9, <1>10, QuietCases

\* A decision or a withdrawal leaves nothing undecided, since there was one.
LEMMA StepReviewQueue ==
  ASSUME LedgerTypeOK, NoOrphans, OneActionable, ReviewQueueExact, [LedgerNext]_ledgerVars
  PROVE  ReviewQueueExact'
<1>0. LedgerTypeOK'
  BY StepType
<1>1. CASE Quiet
  BY <1>1 DEF Quiet, subVars, ReviewQueueExact, OneActionable, NoOrphans, RowsOf, ProofOf, ActionableOn, Actionable
<1>2. ASSUME NEW s \in Sessions, DeleteSession(s)
      PROVE  ReviewQueueExact'
  <2> SUFFICES ASSUME NEW i \in Items
               PROVE  itemStatus'[i] = "needs_review" <=> ActionableOn(i)' # {}
    BY DEF ReviewQueueExact
  <2>1. CASE i \in RowsOf(s)
    BY <1>0, <1>2, <2>1, NoneIsNoId DEF DeleteSession, CascadedProof, ClearedRoutes,
      LedgerTypeOK, ProofOf, ActionableOn, Actionable
  <2>2. CASE i \notin RowsOf(s)
    <3>1. \A x \in Submissions : subItem[x] = i =>
            subItem'[x] = subItem[x] /\ subState'[x] = subState[x]
      BY <1>0, <1>2, <2>2 DEF DeleteSession, CascadedProof, ClearedRoutes, LedgerTypeOK
    <3>2. \A x \in Submissions : subItem'[x] = i => subItem[x] = i
      BY <1>0, <1>2, NoneIsNoId DEF DeleteSession, CascadedProof, ClearedRoutes,
      LedgerTypeOK
    <3>3. ActionableOn(i)' = ActionableOn(i)
      BY <3>1, <3>2 DEF ActionableOn, ProofOf
    <3> QED
      BY <1>0, <1>2, <2>2, <3>3 DEF DeleteSession, CascadedProof, ClearedRoutes,
      LedgerTypeOK, ReviewQueueExact
  <2> QED
    BY <2>1, <2>2
<1>3. ASSUME NEW s \in Sessions, NEW R \in SUBSET Items, NEW m \in [R -> MatchState],
             AddRows(s, R, m)
      PROVE  ReviewQueueExact'
  BY <1>0, <1>3 DEF AddRows, subVars, LedgerTypeOK, ReviewQueueExact,
      OneActionable, NoOrphans, RowsOf, ProofOf, ActionableOn, Actionable
<1>4. ASSUME NEW i \in Items, DirectCheck(i)
      PROVE  ReviewQueueExact'
  BY <1>0, <1>4 DEF DirectCheck, DroppedByCheck, ClearedRoutes, LedgerTypeOK,
      ReviewQueueExact, OneActionable, NoOrphans, RowsOf, ProofOf, ActionableOn,
      Actionable
<1>5. ASSUME NEW x \in Submissions, NEW save \in BOOLEAN, Approve(x, save)
      PROVE  ReviewQueueExact'
  BY <1>0, <1>5 DEF Approve, SuggestionResolved, Decide, Superseded, ResolvesRequest,
      Reviewable, Writable, LedgerTypeOK, ReviewQueueExact, OneActionable, NoOrphans,
      RowsOf, ProofOf, ActionableOn, Actionable
<1>6. ASSUME NEW x \in Submissions, NEW route \in ReturnRoute, Reject(x, route)
      PROVE  ReviewQueueExact'
  BY <1>0, <1>6 DEF Reject, Decide, Superseded, ResolvesRequest, Reviewable, Writable,
      LedgerTypeOK, ReviewQueueExact, OneActionable, NoOrphans, RowsOf, ProofOf,
      ActionableOn, Actionable
<1>7. ASSUME NEW x \in Submissions, RequestMoreInfo(x)
      PROVE  ReviewQueueExact'
  BY <1>0, <1>7 DEF RequestMoreInfo, Reviewable, Writable, LedgerTypeOK,
      ReviewQueueExact, OneActionable, NoOrphans, RowsOf, ProofOf, ActionableOn, Actionable
<1>8. ASSUME NEW x \in Submissions, RequestEvidence(x)
      PROVE  ReviewQueueExact'
  BY <1>0, <1>8 DEF RequestEvidence, Reviewable, Writable, LedgerTypeOK,
      ReviewQueueExact, OneActionable, NoOrphans, RowsOf, ProofOf, ActionableOn, Actionable
<1>9. ASSUME NEW u \in Users, NEW i \in Items, NEW x \in Submissions, Submit(u, i, x)
      PROVE  ReviewQueueExact'
  <2> SUFFICES ASSUME NEW j \in Items
               PROVE  itemStatus'[j] = "needs_review" <=> ActionableOn(j)' # {}
    BY DEF ReviewQueueExact
  <2>1. CASE j = i
    <3>1. x \in ActionableOn(i)'
      BY <1>0, <1>9 DEF Submit, Superseded, LedgerTypeOK, ActionableOn, ProofOf,
      Actionable
    <3> QED
      BY <1>0, <1>9, <2>1, <3>1 DEF Submit, Superseded, LedgerTypeOK
  <2>2. CASE j # i
    <3>1. x \notin ActionableOn(j) /\ x \notin ActionableOn(j)'
      BY <1>0, <1>9, <2>2 DEF Submit, Superseded, LedgerTypeOK, ActionableOn, ProofOf,
      Actionable
    <3>2. \A y \in Submissions \ {x} : y \in ActionableOn(j) <=> y \in ActionableOn(j)'
      BY <1>0, <1>9, <2>2 DEF Submit, Superseded, LedgerTypeOK, ActionableOn, ProofOf,
      Actionable
    <3>3. ActionableOn(j)' = ActionableOn(j)
      BY <3>1, <3>2 DEF ActionableOn, ProofOf
    <3> QED
      BY <1>0, <1>9, <2>2, <3>3 DEF Submit, Superseded, LedgerTypeOK, ReviewQueueExact
  <2> QED
    BY <2>1, <2>2
<1>10. ASSUME NEW u \in Users, NEW x \in Submissions, Withdraw(u, x)
      PROVE  ReviewQueueExact'
  BY <1>0, <1>10 DEF Withdraw, Reviewable, Writable, LedgerTypeOK,
      ReviewQueueExact, OneActionable, NoOrphans, RowsOf, ProofOf, ActionableOn, Actionable
<1> QED
  BY <1>1, <1>2, <1>3, <1>4, <1>5, <1>6, <1>7, <1>8, <1>9, <1>10, QuietCases

\* Every way out of request_more_info resolves the evidence requests.
LEMMA StepRequests ==
  ASSUME LedgerTypeOK, NoOrphans, OneActionable, RequestsAreLive, [LedgerNext]_ledgerVars
  PROVE  RequestsAreLive'
<1>0. LedgerTypeOK'
  BY StepType
<1>1. CASE Quiet
  BY <1>1 DEF Quiet, subVars, RequestsAreLive, OneActionable, NoOrphans, RowsOf, ProofOf, ActionableOn, Actionable
<1>2. ASSUME NEW s \in Sessions, DeleteSession(s)
      PROVE  RequestsAreLive'
  BY <1>0, <1>2 DEF DeleteSession, CascadedProof, ClearedRoutes, LedgerTypeOK,
      RequestsAreLive, OneActionable, NoOrphans, RowsOf, ProofOf, ActionableOn,
      Actionable
<1>3. ASSUME NEW s \in Sessions, NEW R \in SUBSET Items, NEW m \in [R -> MatchState],
             AddRows(s, R, m)
      PROVE  RequestsAreLive'
  BY <1>0, <1>3 DEF AddRows, subVars, LedgerTypeOK, RequestsAreLive,
      OneActionable, NoOrphans, RowsOf, ProofOf, ActionableOn, Actionable
<1>4. ASSUME NEW i \in Items, DirectCheck(i)
      PROVE  RequestsAreLive'
  BY <1>0, <1>4 DEF DirectCheck, DroppedByCheck, ClearedRoutes, LedgerTypeOK,
      RequestsAreLive, OneActionable, NoOrphans, RowsOf, ProofOf, ActionableOn,
      Actionable
<1>5. ASSUME NEW x \in Submissions, NEW save \in BOOLEAN, Approve(x, save)
      PROVE  RequestsAreLive'
  BY <1>0, <1>5 DEF Approve, SuggestionResolved, Decide, Superseded, ResolvesRequest,
      Reviewable, Writable, LedgerTypeOK, RequestsAreLive, OneActionable, NoOrphans,
      RowsOf, ProofOf, ActionableOn, Actionable
<1>6. ASSUME NEW x \in Submissions, NEW route \in ReturnRoute, Reject(x, route)
      PROVE  RequestsAreLive'
  BY <1>0, <1>6 DEF Reject, Decide, Superseded, ResolvesRequest, Reviewable, Writable,
      LedgerTypeOK, RequestsAreLive, OneActionable, NoOrphans, RowsOf, ProofOf,
      ActionableOn, Actionable
<1>7. ASSUME NEW x \in Submissions, RequestMoreInfo(x)
      PROVE  RequestsAreLive'
  BY <1>0, <1>7 DEF RequestMoreInfo, Reviewable, Writable, LedgerTypeOK,
      RequestsAreLive, OneActionable, NoOrphans, RowsOf, ProofOf, ActionableOn, Actionable
<1>8. ASSUME NEW x \in Submissions, RequestEvidence(x)
      PROVE  RequestsAreLive'
  BY <1>0, <1>8 DEF RequestEvidence, Reviewable, Writable, LedgerTypeOK,
      RequestsAreLive, OneActionable, NoOrphans, RowsOf, ProofOf, ActionableOn, Actionable
<1>9. ASSUME NEW u \in Users, NEW i \in Items, NEW x \in Submissions, Submit(u, i, x)
      PROVE  RequestsAreLive'
  BY <1>0, <1>9 DEF Submit, Superseded, Writable, LedgerTypeOK, RequestsAreLive,
      OneActionable, NoOrphans, RowsOf, ProofOf, ActionableOn, Actionable
<1>10. ASSUME NEW u \in Users, NEW x \in Submissions, Withdraw(u, x)
      PROVE  RequestsAreLive'
  BY <1>0, <1>10 DEF Withdraw, Reviewable, Writable, LedgerTypeOK,
      RequestsAreLive, OneActionable, NoOrphans, RowsOf, ProofOf, ActionableOn, Actionable
<1> QED
  BY <1>1, <1>2, <1>3, <1>4, <1>5, <1>6, <1>7, <1>8, <1>9, <1>10, QuietCases

\* Only a rejection writes a route, and what leaves rejected drops it.
LEMMA StepRejection ==
  ASSUME LedgerTypeOK, NoOrphans, RejectionHasRoute, [LedgerNext]_ledgerVars
  PROVE  RejectionHasRoute'
<1>0. LedgerTypeOK'
  BY StepType
<1>1. CASE Quiet
  BY <1>1 DEF Quiet, subVars, RejectionHasRoute, NoOrphans, RowsOf, ProofOf, ActionableOn, Actionable
<1>2. ASSUME NEW s \in Sessions, DeleteSession(s)
      PROVE  RejectionHasRoute'
  BY <1>0, <1>2 DEF DeleteSession, CascadedProof, ClearedRoutes, LedgerTypeOK,
      RejectionHasRoute, NoOrphans, RowsOf, ProofOf, ActionableOn, Actionable
<1>3. ASSUME NEW s \in Sessions, NEW R \in SUBSET Items, NEW m \in [R -> MatchState],
             AddRows(s, R, m)
      PROVE  RejectionHasRoute'
  BY <1>0, <1>3 DEF AddRows, subVars, LedgerTypeOK, RejectionHasRoute,
      NoOrphans, RowsOf, ProofOf, ActionableOn, Actionable
<1>4. ASSUME NEW i \in Items, DirectCheck(i)
      PROVE  RejectionHasRoute'
  BY <1>0, <1>4 DEF DirectCheck, DroppedByCheck, ClearedRoutes, LedgerTypeOK,
      RejectionHasRoute, NoOrphans, RowsOf, ProofOf, ActionableOn, Actionable
<1>5. ASSUME NEW x \in Submissions, NEW save \in BOOLEAN, Approve(x, save)
      PROVE  RejectionHasRoute'
  BY <1>0, <1>5 DEF Approve, SuggestionResolved, Decide, Superseded, ResolvesRequest,
      Reviewable, Writable, LedgerTypeOK, RejectionHasRoute, NoOrphans, RowsOf, ProofOf,
      ActionableOn, Actionable
<1>6. ASSUME NEW x \in Submissions, NEW route \in ReturnRoute, Reject(x, route)
      PROVE  RejectionHasRoute'
  <2>1. subState'[x] = "rejected" /\ subRoute'[x] = route /\ route # None
    BY <1>0, <1>6, NoneIsNoId DEF Reject, Decide, Superseded, ResolvesRequest,
      LedgerTypeOK
  <2>2. \A y \in Submissions \ {x} :
          /\ subRoute'[y] = subRoute[y]
          /\ subState'[y] = "rejected" <=> subState[y] = "rejected"
    BY <1>0, <1>6 DEF Reject, Decide, Superseded, ResolvesRequest, LedgerTypeOK,
      ActionableOn, Actionable
  <2> QED
    BY <2>1, <2>2 DEF RejectionHasRoute
<1>7. ASSUME NEW x \in Submissions, RequestMoreInfo(x)
      PROVE  RejectionHasRoute'
  BY <1>0, <1>7 DEF RequestMoreInfo, Reviewable, Writable, LedgerTypeOK,
      RejectionHasRoute, NoOrphans, RowsOf, ProofOf, ActionableOn, Actionable
<1>8. ASSUME NEW x \in Submissions, RequestEvidence(x)
      PROVE  RejectionHasRoute'
  BY <1>0, <1>8 DEF RequestEvidence, Reviewable, Writable, LedgerTypeOK,
      RejectionHasRoute, NoOrphans, RowsOf, ProofOf, ActionableOn, Actionable
<1>9. ASSUME NEW u \in Users, NEW i \in Items, NEW x \in Submissions, Submit(u, i, x)
      PROVE  RejectionHasRoute'
  BY <1>0, <1>9 DEF Submit, Superseded, Writable, LedgerTypeOK, RejectionHasRoute,
      NoOrphans, RowsOf, ProofOf, ActionableOn, Actionable
<1>10. ASSUME NEW u \in Users, NEW x \in Submissions, Withdraw(u, x)
      PROVE  RejectionHasRoute'
  BY <1>0, <1>10 DEF Withdraw, Reviewable, Writable, LedgerTypeOK,
      RejectionHasRoute, NoOrphans, RowsOf, ProofOf, ActionableOn, Actionable
<1> QED
  BY <1>1, <1>2, <1>3, <1>4, <1>5, <1>6, <1>7, <1>8, <1>9, <1>10, QuietCases

\* A checked row has nothing a review could decide.
LEMMA StepDirectCheck ==
  ASSUME LedgerTypeOK, NoOrphans, OneActionable, ReviewQueueExact, DirectCheckSettles, [LedgerNext]_ledgerVars
  PROVE  DirectCheckSettles'
<1>0. LedgerTypeOK'
  BY StepType
<1>1. CASE Quiet
  BY <1>1 DEF Quiet, subVars, DirectCheckSettles, ReviewQueueExact, OneActionable, NoOrphans, RowsOf, ProofOf, ActionableOn, Actionable
<1>2. ASSUME NEW s \in Sessions, DeleteSession(s)
      PROVE  DirectCheckSettles'
  <2>1. \A i \in Items : /\ verified'[i] <=> verified[i] /\ i \notin RowsOf(s)
                         /\ itemStatus'[i] = "checked" <=> itemStatus[i] = "checked" /\ i \notin RowsOf(s)
    BY <1>0, <1>2 DEF DeleteSession, CascadedProof, ClearedRoutes, LedgerTypeOK
  <2>2. \A x \in Submissions : subItem'[x] # None =>
          subItem'[x] = subItem[x] /\ subState'[x] = subState[x]
    BY <1>0, <1>2 DEF DeleteSession, CascadedProof, ClearedRoutes, LedgerTypeOK
  <2> QED
    BY <2>1, <2>2, NoneIsNoId DEF DirectCheckSettles, ProofOf
<1>3. ASSUME NEW s \in Sessions, NEW R \in SUBSET Items, NEW m \in [R -> MatchState],
             AddRows(s, R, m)
      PROVE  DirectCheckSettles'
  BY <1>0, <1>3 DEF AddRows, subVars, LedgerTypeOK, DirectCheckSettles,
      ReviewQueueExact, OneActionable, NoOrphans, RowsOf, ProofOf, ActionableOn, Actionable
<1>4. ASSUME NEW i \in Items, DirectCheck(i)
      PROVE  DirectCheckSettles'
  <2>1. \A j \in Items : /\ verified'[j] <=> verified[j] \/ j = i
                         /\ itemStatus'[j] = "checked" <=> itemStatus[j] = "checked" \/ j = i
    BY <1>0, <1>4 DEF DirectCheck, DroppedByCheck, ClearedRoutes, LedgerTypeOK
  <2>2. \A x \in Submissions : subItem[x] # i => subState'[x] = subState[x]
    BY <1>0, <1>4 DEF DirectCheck, DroppedByCheck, ClearedRoutes, LedgerTypeOK, ProofOf
  <2>3. \A x \in ProofOf(i) : subState'[x] \in {"approved", "superseded", "withdrawn"}
    <3>1. \A x \in ProofOf(i) : subState[x] # "absent"
      BY NoneIsNoId DEF NoOrphans, ProofOf
    <3> QED
      BY <1>0, <1>4, <3>1 DEF DirectCheck, DroppedByCheck, ClearedRoutes, LedgerTypeOK,
      ProofOf, Actionable, ReviewState
  <2> QED
    BY <1>0, <1>4, <2>1, <2>2, <2>3 DEF DirectCheck, DroppedByCheck, ClearedRoutes,
      DirectCheckSettles, ProofOf
<1>5. ASSUME NEW x \in Submissions, NEW save \in BOOLEAN, Approve(x, save)
      PROVE  DirectCheckSettles'
  BY <1>0, <1>5 DEF Approve, SuggestionResolved, Decide, Superseded, ResolvesRequest,
      Reviewable, Writable, LedgerTypeOK, DirectCheckSettles, ReviewQueueExact,
      OneActionable, NoOrphans, RowsOf, ProofOf, ActionableOn, Actionable
<1>6. ASSUME NEW x \in Submissions, NEW route \in ReturnRoute, Reject(x, route)
      PROVE  DirectCheckSettles'
  BY <1>0, <1>6 DEF Reject, Decide, Superseded, ResolvesRequest, Reviewable, Writable,
      LedgerTypeOK, DirectCheckSettles, ReviewQueueExact, OneActionable, NoOrphans,
      RowsOf, ProofOf, ActionableOn, Actionable
<1>7. ASSUME NEW x \in Submissions, RequestMoreInfo(x)
      PROVE  DirectCheckSettles'
  BY <1>0, <1>7 DEF RequestMoreInfo, Reviewable, Writable, LedgerTypeOK,
      DirectCheckSettles, ReviewQueueExact, OneActionable, NoOrphans, RowsOf, ProofOf, ActionableOn, Actionable
<1>8. ASSUME NEW x \in Submissions, RequestEvidence(x)
      PROVE  DirectCheckSettles'
  BY <1>0, <1>8 DEF RequestEvidence, Reviewable, Writable, LedgerTypeOK,
      DirectCheckSettles, ReviewQueueExact, OneActionable, NoOrphans, RowsOf, ProofOf, ActionableOn, Actionable
<1>9. ASSUME NEW u \in Users, NEW i \in Items, NEW x \in Submissions, Submit(u, i, x)
      PROVE  DirectCheckSettles'
  BY <1>0, <1>9 DEF Submit, Superseded, Writable, LedgerTypeOK, DirectCheckSettles,
      ReviewQueueExact, OneActionable, NoOrphans, RowsOf, ProofOf, ActionableOn,
      Actionable
<1>10. ASSUME NEW u \in Users, NEW x \in Submissions, Withdraw(u, x)
      PROVE  DirectCheckSettles'
  BY <1>0, <1>10 DEF Withdraw, Reviewable, Writable, LedgerTypeOK,
      DirectCheckSettles, ReviewQueueExact, OneActionable, NoOrphans, RowsOf, ProofOf, ActionableOn, Actionable
<1> QED
  BY <1>1, <1>2, <1>3, <1>4, <1>5, <1>6, <1>7, <1>8, <1>9, <1>10, QuietCases

\* A session closes only when settled, and nothing is submitted while it is.
LEMMA StepClosed ==
  ASSUME LedgerTypeOK, NoOrphans, OneActionable, RequestsAreLive, ClosedIsSettled, [LedgerNext]_ledgerVars
  PROVE  ClosedIsSettled'
<1>0. LedgerTypeOK'
  BY StepType
<1>1. CASE Idle
  BY <1>1 DEF Idle, subVars, ClosedIsSettled, RequestsAreLive, OneActionable, NoOrphans, RowsOf, ProofOf, ActionableOn, Actionable
<1>2. ASSUME NEW s \in Sessions, NEW st \in {"draft", "active"},
             CreateSession(s, st) \/ SetSessionStatus(s, st)
      PROVE  ClosedIsSettled'
  BY <1>0, <1>2 DEF CreateSession, SetSessionStatus, Exists, subVars,
      SessionStatus, LedgerTypeOK, ClosedIsSettled, RequestsAreLive, OneActionable, NoOrphans, RowsOf, ProofOf, ActionableOn, Actionable
<1>3. ASSUME NEW s \in Sessions, NEW U \in SUBSET Crew, CloseSession(s, U)
      PROVE  ClosedIsSettled'
  BY <1>0, <1>3 DEF CloseSession, NothingInReview, Exists, subVars, LedgerTypeOK,
      ClosedIsSettled, RequestsAreLive, OneActionable, NoOrphans, RowsOf, ProofOf,
      ActionableOn, Actionable
<1>4. ASSUME NEW i \in Items, NEW m \in {"none", "confirmed"}, ResolveMatch(i, m)
      PROVE  ClosedIsSettled'
  BY <1>0, <1>4 DEF ResolveMatch, subVars, sessVars, LedgerTypeOK,
      ClosedIsSettled, RequestsAreLive, OneActionable, NoOrphans, RowsOf, ProofOf, ActionableOn, Actionable
<1>5. ASSUME NEW s \in Sessions, DeleteSession(s)
      PROVE  ClosedIsSettled'
  <2>1. \A i \in Items : itemSession'[i] # None =>
          /\ itemSession'[i] = itemSession[i] /\ itemSession[i] # s
          /\ sessStatus'[itemSession[i]] = sessStatus[itemSession[i]]
    BY <1>0, <1>5 DEF DeleteSession, CascadedProof, ClearedRoutes, LedgerTypeOK, RowsOf
  <2>2. \A x \in Submissions : subItem'[x] # None =>
          /\ subItem'[x] = subItem[x] /\ subState'[x] = subState[x]
          /\ openReq'[x] => openReq[x]
    BY <1>0, <1>5 DEF DeleteSession, CascadedProof, ClearedRoutes, LedgerTypeOK
  <2> QED
    BY <2>1, <2>2, NoneIsNoId DEF ClosedIsSettled, ProofOf, ActionableOn
<1>6. ASSUME NEW s \in Sessions, NEW R \in SUBSET Items, NEW m \in [R -> MatchState],
             AddRows(s, R, m)
      PROVE  ClosedIsSettled'
  BY <1>0, <1>6 DEF AddRows, subVars, LedgerTypeOK, ClosedIsSettled,
      RequestsAreLive, OneActionable, NoOrphans, RowsOf, ProofOf, ActionableOn, Actionable
<1>7. ASSUME NEW i \in Items, DirectCheck(i)
      PROVE  ClosedIsSettled'
  BY <1>0, <1>7 DEF DirectCheck, DroppedByCheck, ClearedRoutes, LedgerTypeOK,
      ClosedIsSettled, RequestsAreLive, OneActionable, NoOrphans, RowsOf, ProofOf,
      ActionableOn, Actionable
<1>8. ASSUME NEW x \in Submissions, NEW save \in BOOLEAN, Approve(x, save)
      PROVE  ClosedIsSettled'
  BY <1>0, <1>8 DEF Approve, SuggestionResolved, Decide, Superseded, ResolvesRequest,
      Reviewable, Writable, LedgerTypeOK, ClosedIsSettled, RequestsAreLive,
      OneActionable, NoOrphans, RowsOf, ProofOf, ActionableOn, Actionable
<1>9. ASSUME NEW x \in Submissions, NEW route \in ReturnRoute, Reject(x, route)
      PROVE  ClosedIsSettled'
  BY <1>0, <1>9 DEF Reject, Decide, Superseded, ResolvesRequest, Reviewable, Writable,
      LedgerTypeOK, ClosedIsSettled, RequestsAreLive, OneActionable, NoOrphans, RowsOf,
      ProofOf, ActionableOn, Actionable
<1>10. ASSUME NEW x \in Submissions, RequestMoreInfo(x)
      PROVE  ClosedIsSettled'
  BY <1>0, <1>10 DEF RequestMoreInfo, Reviewable, Writable, LedgerTypeOK,
      ClosedIsSettled, RequestsAreLive, OneActionable, NoOrphans, RowsOf, ProofOf, ActionableOn, Actionable
<1>11. ASSUME NEW x \in Submissions, RequestEvidence(x)
      PROVE  ClosedIsSettled'
  BY <1>0, <1>11 DEF RequestEvidence, Reviewable, Writable, LedgerTypeOK,
      ClosedIsSettled, RequestsAreLive, OneActionable, NoOrphans, RowsOf, ProofOf, ActionableOn, Actionable
<1>12. ASSUME NEW u \in Users, NEW i \in Items, NEW x \in Submissions, Submit(u, i, x)
      PROVE  ClosedIsSettled'
  BY <1>0, <1>12 DEF Submit, Superseded, Writable, LedgerTypeOK, ClosedIsSettled,
      RequestsAreLive, OneActionable, NoOrphans, RowsOf, ProofOf, ActionableOn,
      Actionable
<1>13. ASSUME NEW u \in Users, NEW x \in Submissions, Withdraw(u, x)
      PROVE  ClosedIsSettled'
  BY <1>0, <1>13 DEF Withdraw, Reviewable, Writable, LedgerTypeOK,
      ClosedIsSettled, RequestsAreLive, OneActionable, NoOrphans, RowsOf, ProofOf, ActionableOn, Actionable
<1> QED
  BY <1>1, <1>2, <1>3, <1>4, <1>5, <1>6, <1>7, <1>8, <1>9, <1>10, <1>11, <1>12, <1>13, StepCases

\* Approved proof stays approved, and a resolved suggestion stays resolved.
LEMMA StepApproved ==
  ASSUME LedgerTypeOK, NoOrphans, ReviewQueueExact, ApprovedIsBacked, [LedgerNext]_ledgerVars
  PROVE  ApprovedIsBacked'
<1>0. LedgerTypeOK'
  BY StepType
<1>1. CASE Idle
  BY <1>1 DEF Idle, subVars, ApprovedIsBacked, ReviewQueueExact, NoOrphans, RowsOf, ProofOf, ActionableOn, Actionable
<1>2. ASSUME NEW s \in Sessions, NEW st \in {"draft", "active"},
             CreateSession(s, st) \/ SetSessionStatus(s, st)
      PROVE  ApprovedIsBacked'
  BY <1>0, <1>2 DEF CreateSession, SetSessionStatus, Exists, subVars,
      SessionStatus, LedgerTypeOK, ApprovedIsBacked, ReviewQueueExact, NoOrphans, RowsOf, ProofOf, ActionableOn, Actionable
<1>3. ASSUME NEW s \in Sessions, NEW U \in SUBSET Crew, CloseSession(s, U)
      PROVE  ApprovedIsBacked'
  BY <1>0, <1>3 DEF CloseSession, NothingInReview, Exists, subVars, LedgerTypeOK,
      ApprovedIsBacked, ReviewQueueExact, NoOrphans, RowsOf, ProofOf, ActionableOn,
      Actionable
<1>4. ASSUME NEW i \in Items, NEW m \in {"none", "confirmed"}, ResolveMatch(i, m)
      PROVE  ApprovedIsBacked'
  BY <1>0, <1>4 DEF ResolveMatch, subVars, sessVars, LedgerTypeOK,
      ApprovedIsBacked, ReviewQueueExact, NoOrphans, RowsOf, ProofOf, ActionableOn, Actionable
<1>5. ASSUME NEW s \in Sessions, DeleteSession(s)
      PROVE  ApprovedIsBacked'
  BY <1>0, <1>5 DEF DeleteSession, CascadedProof, ClearedRoutes, LedgerTypeOK,
      ApprovedIsBacked, ReviewQueueExact, NoOrphans, RowsOf, ProofOf, ActionableOn,
      Actionable
<1>6. ASSUME NEW s \in Sessions, NEW R \in SUBSET Items, NEW m \in [R -> MatchState],
             AddRows(s, R, m)
      PROVE  ApprovedIsBacked'
  BY <1>0, <1>6 DEF AddRows, subVars, LedgerTypeOK, ApprovedIsBacked,
      ReviewQueueExact, NoOrphans, RowsOf, ProofOf, ActionableOn, Actionable
<1>7. ASSUME NEW i \in Items, DirectCheck(i)
      PROVE  ApprovedIsBacked'
  BY <1>0, <1>7 DEF DirectCheck, DroppedByCheck, ClearedRoutes, LedgerTypeOK,
      ApprovedIsBacked, ReviewQueueExact, NoOrphans, RowsOf, ProofOf, ActionableOn,
      Actionable
<1>8. ASSUME NEW x \in Submissions, NEW save \in BOOLEAN, Approve(x, save)
      PROVE  ApprovedIsBacked'
  BY <1>0, <1>8 DEF Approve, SuggestionResolved, Decide, Superseded, ResolvesRequest,
      Reviewable, Writable, LedgerTypeOK, ApprovedIsBacked, ReviewQueueExact, NoOrphans,
      RowsOf, ProofOf, ActionableOn, Actionable
<1>9. ASSUME NEW x \in Submissions, NEW route \in ReturnRoute, Reject(x, route)
      PROVE  ApprovedIsBacked'
  BY <1>0, <1>9 DEF Reject, Decide, Superseded, ResolvesRequest, Reviewable, Writable,
      LedgerTypeOK, ApprovedIsBacked, ReviewQueueExact, NoOrphans, RowsOf, ProofOf,
      ActionableOn, Actionable
<1>10. ASSUME NEW x \in Submissions, RequestMoreInfo(x)
      PROVE  ApprovedIsBacked'
  BY <1>0, <1>10 DEF RequestMoreInfo, Reviewable, Writable, LedgerTypeOK,
      ApprovedIsBacked, ReviewQueueExact, NoOrphans, RowsOf, ProofOf, ActionableOn, Actionable
<1>11. ASSUME NEW x \in Submissions, RequestEvidence(x)
      PROVE  ApprovedIsBacked'
  BY <1>0, <1>11 DEF RequestEvidence, Reviewable, Writable, LedgerTypeOK,
      ApprovedIsBacked, ReviewQueueExact, NoOrphans, RowsOf, ProofOf, ActionableOn, Actionable
<1>12. ASSUME NEW u \in Users, NEW i \in Items, NEW x \in Submissions, Submit(u, i, x)
      PROVE  ApprovedIsBacked'
  BY <1>0, <1>12 DEF Submit, Superseded, Writable, LedgerTypeOK, ApprovedIsBacked,
      ReviewQueueExact, NoOrphans, RowsOf, ProofOf, ActionableOn, Actionable
<1>13. ASSUME NEW u \in Users, NEW x \in Submissions, Withdraw(u, x)
      PROVE  ApprovedIsBacked'
  BY <1>0, <1>13 DEF Withdraw, Reviewable, Writable, LedgerTypeOK,
      ApprovedIsBacked, ReviewQueueExact, NoOrphans, RowsOf, ProofOf, ActionableOn, Actionable
<1> QED
  BY <1>1, <1>2, <1>3, <1>4, <1>5, <1>6, <1>7, <1>8, <1>9, <1>10, <1>11, <1>12, <1>13, StepCases

\* The trigger runs whenever the rows of a session or their status change.
LEMMA StepCompletion ==
  ASSUME LedgerTypeOK, NoOrphans, CompletionExact, [LedgerNext]_ledgerVars
  PROVE  CompletionExact'
<1>0. LedgerTypeOK'
  BY StepType
<1>1. CASE Quiet
  BY <1>1 DEF Quiet, subVars, CompletionExact, RecordCompletion, NoOrphans, RowsOf, ProofOf, ActionableOn, Actionable
<1>2. ASSUME NEW s \in Sessions, DeleteSession(s)
      PROVE  CompletionExact'
  <2> SUFFICES ASSUME NEW t \in Sessions
               PROVE  completed'[t] <=>
                        /\ RowsOf(t)' # {}
                        /\ \A i \in RowsOf(t)' : itemStatus'[i] \in Resolved
    BY DEF CompletionExact
  <2>1. CASE t = s
    <3>1. RowsOf(s)' = {}
      BY <1>2, NoneIsNoId DEF DeleteSession, CascadedProof, ClearedRoutes, RowsOf
    <3> QED
      BY <1>2, <2>1, <3>1 DEF DeleteSession, CascadedProof, ClearedRoutes, LedgerTypeOK
  <2>2. CASE t # s
    <3>1. RowsOf(t)' = RowsOf(t)
      BY <1>2, <2>2, NoneIsNoId DEF DeleteSession, CascadedProof, ClearedRoutes, RowsOf
    <3>2. \A i \in RowsOf(t) : itemStatus'[i] = itemStatus[i]
      BY <1>2, <2>2 DEF DeleteSession, CascadedProof, ClearedRoutes, RowsOf
    <3>3. completed'[t] = completed[t]
      BY <1>2, <2>2 DEF DeleteSession, CascadedProof, ClearedRoutes, LedgerTypeOK
    <3> QED
      BY <3>1, <3>2, <3>3 DEF CompletionExact
  <2> QED
    BY <2>1, <2>2
<1>3. ASSUME NEW s \in Sessions, NEW R \in SUBSET Items, NEW m \in [R -> MatchState],
             AddRows(s, R, m)
      PROVE  CompletionExact'
  <2> SUFFICES ASSUME NEW t \in Sessions
               PROVE  completed'[t] <=>
                        /\ RowsOf(t)' # {}
                        /\ \A i \in RowsOf(t)' : itemStatus'[i] \in Resolved
    BY DEF CompletionExact
  <2>1. CASE t = s
    BY <1>0, <1>3, <2>1 DEF AddRows, RecordCompletion, LedgerTypeOK, RowsOf
  <2>2. CASE t # s
    <3>1. RowsOf(t)' = RowsOf(t)
      BY <1>0, <1>3, <2>2, NoneIsNoId DEF AddRows, LedgerTypeOK, RowsOf, NoOrphans
    <3>2. \A i \in RowsOf(t) : itemStatus'[i] = itemStatus[i]
      BY <1>0, <1>3, NoneIsNoId DEF AddRows, LedgerTypeOK, RowsOf, NoOrphans
    <3>3. completed'[t] = completed[t]
      BY <1>3, <2>2 DEF AddRows, RecordCompletion, LedgerTypeOK
    <3> QED
      BY <3>1, <3>2, <3>3 DEF CompletionExact
  <2> QED
    BY <2>1, <2>2
<1>4. ASSUME NEW i \in Items, DirectCheck(i)
      PROVE  CompletionExact'
  BY <1>0, <1>4 DEF DirectCheck, DroppedByCheck, ClearedRoutes, LedgerTypeOK,
      CompletionExact, RecordCompletion, NoOrphans, RowsOf, ProofOf, ActionableOn,
      Actionable
<1>5. ASSUME NEW x \in Submissions, NEW save \in BOOLEAN, Approve(x, save)
      PROVE  CompletionExact'
  BY <1>0, <1>5 DEF Approve, SuggestionResolved, Decide, Superseded, ResolvesRequest,
      Reviewable, Writable, LedgerTypeOK, CompletionExact, RecordCompletion, NoOrphans,
      RowsOf, ProofOf, ActionableOn, Actionable
<1>6. ASSUME NEW x \in Submissions, NEW route \in ReturnRoute, Reject(x, route)
      PROVE  CompletionExact'
  BY <1>0, <1>6 DEF Reject, Decide, Superseded, ResolvesRequest, Reviewable, Writable,
      LedgerTypeOK, CompletionExact, RecordCompletion, NoOrphans, RowsOf, ProofOf,
      ActionableOn, Actionable
<1>7. ASSUME NEW x \in Submissions, RequestMoreInfo(x)
      PROVE  CompletionExact'
  BY <1>0, <1>7 DEF RequestMoreInfo, Reviewable, Writable, LedgerTypeOK,
      CompletionExact, RecordCompletion, NoOrphans, RowsOf, ProofOf, ActionableOn, Actionable
<1>8. ASSUME NEW x \in Submissions, RequestEvidence(x)
      PROVE  CompletionExact'
  BY <1>0, <1>8 DEF RequestEvidence, Reviewable, Writable, LedgerTypeOK,
      CompletionExact, RecordCompletion, NoOrphans, RowsOf, ProofOf, ActionableOn, Actionable
<1>9. ASSUME NEW u \in Users, NEW i \in Items, NEW x \in Submissions, Submit(u, i, x)
      PROVE  CompletionExact'
  BY <1>0, <1>9 DEF Submit, Superseded, Writable, LedgerTypeOK, CompletionExact,
      RecordCompletion, NoOrphans, RowsOf, ProofOf, ActionableOn, Actionable
<1>10. ASSUME NEW u \in Users, NEW x \in Submissions, Withdraw(u, x)
      PROVE  CompletionExact'
  BY <1>0, <1>10 DEF Withdraw, Reviewable, Writable, LedgerTypeOK,
      CompletionExact, RecordCompletion, NoOrphans, RowsOf, ProofOf, ActionableOn, Actionable
<1> QED
  BY <1>1, <1>2, <1>3, <1>4, <1>5, <1>6, <1>7, <1>8, <1>9, <1>10, QuietCases

-----------------------------------------------------------------------------
\* The empty ledger satisfies the invariant.
LEMMA InitInv == LedgerInit => LedgerInv
<1> SUFFICES ASSUME LedgerInit PROVE LedgerInv
  OBVIOUS
<1>1. LedgerTypeOK
  BY InitType
<1>2. NoOrphans
  BY DEF LedgerInit, NoOrphans
<1>3. \A i \in Items : ActionableOn(i) = {}
  BY DEF LedgerInit, ActionableOn, Actionable, ProofOf
<1>4. ReviewQueueExact /\ OneActionable
  BY <1>3 DEF LedgerInit, ReviewQueueExact, OneActionable
<1>5. ClosedIsSettled /\ RequestsAreLive /\ ApprovedIsBacked
  BY DEF LedgerInit, ClosedIsSettled, RequestsAreLive, ApprovedIsBacked
<1>6. DirectCheckSettles /\ RejectionHasRoute
  BY DEF LedgerInit, DirectCheckSettles, RejectionHasRoute
<1>7. CompletionExact
  <2>1. \A s \in Sessions : RowsOf(s) = {}
    BY NoneIsNoId DEF LedgerInit, RowsOf
  <2> QED
    BY <2>1 DEF LedgerInit, CompletionExact
<1> QED
  BY <1>1, <1>2, <1>4, <1>5, <1>6, <1>7 DEF LedgerInv

\* The invariant holds in every reachable state.
THEOREM LedgerInvariant == LedgerSpec => []LedgerInv
<1>1. LedgerInv /\ [LedgerNext]_ledgerVars => LedgerInv'
  BY StepType, StepNoOrphans, StepOneActionable, StepReviewQueue, StepRequests,
     StepRejection, StepDirectCheck, StepClosed, StepApproved, StepCompletion
     DEF LedgerInv
<1> QED
  BY <1>1, InitInv, PTL DEF LedgerSpec

\* The review queue shows exactly the rows with undecided proof.
THEOREM ReviewQueueCorrect == LedgerSpec => []ReviewQueueExact
<1>1. LedgerInv => ReviewQueueExact
  BY DEF LedgerInv
<1> QED
  BY <1>1, LedgerInvariant, PTL

\* No reachable closed session holds undecided proof or open requests.
THEOREM ClosedSettled == LedgerSpec => []ClosedIsSettled
<1>1. LedgerInv => ClosedIsSettled
  BY DEF LedgerInv
<1> QED
  BY <1>1, LedgerInvariant, PTL

\* What a row is counted as fits its proof: one undecided submission at most,
\* requests only where evidence is awaited, approval only of approved proof.
THEOREM RowsMatchProofCorrect == LedgerSpec => []RowsMatchProof
<1>1. LedgerInv => RowsMatchProof
  BY DEF LedgerInv, RowsMatchProof
<1> QED
  BY <1>1, LedgerInvariant, PTL

-----------------------------------------------------------------------------
(***************************************************************************)
(* What no step does.                                                      *)
(***************************************************************************)

\* Only undecided proof is decided; a direct check also takes rejected proof.
LEMMA StepVerdicts ==
  ASSUME LedgerInv, [LedgerNext]_ledgerVars, NEW x \in Submissions,
         subState[x] \in {"approved", "rejected", "superseded", "withdrawn"}
  PROVE  \/ subState'[x] \in {subState[x], "absent"}
         \/ subState[x] = "rejected" /\ itemStatus'[subItem[x]] = "checked"
<1> USE DEF LedgerInv, LedgerTypeOK
<1>1. CASE Quiet
  BY <1>1 DEF Quiet, subVars
<1>2. ASSUME NEW s \in Sessions, DeleteSession(s)
      PROVE  subState'[x] \in {subState[x], "absent"}
  BY <1>2 DEF DeleteSession
<1>3. ASSUME NEW s \in Sessions, NEW R \in SUBSET Items, NEW m \in [R -> MatchState],
             AddRows(s, R, m)
      PROVE  subState'[x] = subState[x]
  BY <1>3 DEF AddRows, subVars
<1>4. ASSUME NEW i \in Items, DirectCheck(i)
      PROVE  \/ subState'[x] = subState[x]
             \/ subState[x] = "rejected" /\ itemStatus'[subItem[x]] = "checked"
  BY <1>4 DEF DirectCheck, DroppedByCheck, ProofOf, Actionable
<1>5. ASSUME NEW y \in Submissions, NEW save \in BOOLEAN, Approve(y, save)
      PROVE  subState'[x] = subState[x]
  BY <1>5 DEF Approve, Decide, Superseded, ActionableOn, Reviewable, Actionable
<1>6. ASSUME NEW y \in Submissions, NEW route \in ReturnRoute, Reject(y, route)
      PROVE  subState'[x] = subState[x]
  BY <1>6 DEF Reject, Decide, Superseded, ActionableOn, Reviewable, Actionable
<1>7. ASSUME NEW y \in Submissions, RequestMoreInfo(y) \/ RequestEvidence(y)
      PROVE  subState'[x] = subState[x]
  BY <1>7 DEF RequestMoreInfo, RequestEvidence, Reviewable, Actionable
<1>8. ASSUME NEW u \in Users, NEW i \in Items, NEW y \in Submissions, Submit(u, i, y)
      PROVE  subState'[x] = subState[x]
  BY <1>8 DEF Submit, Superseded, ActionableOn, Actionable
<1>9. ASSUME NEW u \in Users, NEW y \in Submissions, Withdraw(u, y)
      PROVE  subState'[x] = subState[x]
  BY <1>9 DEF Withdraw, Reviewable, Actionable
<1> QED
  BY <1>1, <1>2, <1>3, <1>4, <1>5, <1>6, <1>7, <1>8, <1>9, QuietCases

\* A step that leaves session s closed writes no row of it: the handlers find
\* the row's session closed, and new rows come from none.
LEMMA StepFrozen ==
  ASSUME LedgerInv, [LedgerNext]_ledgerVars, NEW i \in Items, itemSession[i] # None,
         sessStatus[itemSession[i]] = "closed", sessStatus'[itemSession[i]] = "closed"
  PROVE  /\ itemStatus'[i] = itemStatus[i]
         /\ match'[i] = match[i]
         /\ verified'[i] = verified[i]
         /\ \A x \in Submissions :
              subItem[x] = i \/ subItem'[x] = i => subState'[x] = subState[x]
<1> USE DEF LedgerInv, LedgerTypeOK, NoOrphans
<1>1. CASE Idle
  BY <1>1 DEF Idle, subVars
<1>2. ASSUME NEW s \in Sessions, NEW st \in {"draft", "active"},
             CreateSession(s, st) \/ SetSessionStatus(s, st)
      PROVE  UNCHANGED <<itemStatus, match, verified, subVars>>
  BY <1>2 DEF CreateSession, SetSessionStatus
<1>3. ASSUME NEW s \in Sessions, NEW U \in SUBSET Crew, CloseSession(s, U)
      PROVE  UNCHANGED <<itemStatus, match, verified, subVars>>
  BY <1>3 DEF CloseSession
<1>4. ASSUME NEW j \in Items, NEW m \in {"none", "confirmed"}, ResolveMatch(j, m)
      PROVE  j # i /\ match'[i] = match[i] /\ UNCHANGED <<itemStatus, verified, subVars>>
  BY <1>4 DEF ResolveMatch, Writable
<1>5. ASSUME NEW s \in Sessions, DeleteSession(s)
      PROVE  /\ itemStatus'[i] = itemStatus[i]
             /\ match'[i] = match[i]
             /\ verified'[i] = verified[i]
             /\ \A x \in Submissions :
                  subItem[x] = i \/ subItem'[x] = i => subState'[x] = subState[x]
  <2>1. i \notin RowsOf(s)
    BY <1>5 DEF DeleteSession, RowsOf
  <2>2. i # None
    BY NoneIsNoId
  <2> QED
    BY <1>5, <2>1, <2>2 DEF DeleteSession, CascadedProof
<1>6. ASSUME NEW s \in Sessions, NEW R \in SUBSET Items, NEW m \in [R -> MatchState],
             AddRows(s, R, m)
      PROVE  /\ itemStatus'[i] = itemStatus[i] /\ match'[i] = match[i]
             /\ UNCHANGED <<verified, subVars>>
  <2>1. i \notin R
    BY <1>6 DEF AddRows
  <2> QED
    BY <1>6, <2>1 DEF AddRows
<1>7. ASSUME NEW j \in Items, DirectCheck(j)
      PROVE  /\ itemStatus'[i] = itemStatus[i] /\ verified'[i] = verified[i]
             /\ UNCHANGED <<match, subItem>>
             /\ \A x \in Submissions : subItem[x] = i => subState'[x] = subState[x]
  <2>1. j # i
    BY <1>7 DEF DirectCheck, Writable
  <2> QED
    BY <1>7, <2>1 DEF DirectCheck, DroppedByCheck, ProofOf
<1>8. ASSUME NEW x \in Submissions, Reviewable(x)
      PROVE  subItem[x] # i /\ subItem[x] \in Items
  BY <1>8 DEF Reviewable, Writable, Actionable
<1>9. ASSUME NEW x \in Submissions, NEW save \in BOOLEAN, Approve(x, save)
      PROVE  /\ itemStatus'[i] = itemStatus[i] /\ match'[i] = match[i]
             /\ UNCHANGED <<verified, subItem>>
             /\ \A y \in Submissions : subItem[y] = i => subState'[y] = subState[y]
  BY <1>8, <1>9 DEF Approve, Decide, Superseded, ActionableOn, ProofOf
<1>10. ASSUME NEW x \in Submissions, NEW route \in ReturnRoute, Reject(x, route)
       PROVE  /\ itemStatus'[i] = itemStatus[i] /\ verified'[i] = verified[i]
              /\ UNCHANGED <<match, subItem>>
              /\ \A y \in Submissions : subItem[y] = i => subState'[y] = subState[y]
  BY <1>8, <1>10 DEF Reject, Decide, Superseded, ActionableOn, ProofOf
<1>11. ASSUME NEW x \in Submissions, RequestMoreInfo(x) \/ RequestEvidence(x)
       PROVE  /\ itemStatus'[i] = itemStatus[i] /\ UNCHANGED <<match, verified, subItem>>
              /\ \A y \in Submissions : subItem[y] = i => subState'[y] = subState[y]
  BY <1>8, <1>11 DEF RequestMoreInfo, RequestEvidence
<1>12. ASSUME NEW u \in Users, NEW j \in Items, NEW x \in Submissions, Submit(u, j, x)
       PROVE  /\ itemStatus'[i] = itemStatus[i] /\ verified'[i] = verified[i]
              /\ match' = match
              /\ \A y \in Submissions :
                   subItem[y] = i \/ subItem'[y] = i => subState'[y] = subState[y]
  <2>1. j # i /\ i # None
    BY <1>12, NoneIsNoId DEF Submit, Writable
  <2>2. subItem[x] # i
    BY <1>12, <2>1 DEF Submit
  <2> QED
    BY <1>12, <2>1, <2>2 DEF Submit, Superseded, ActionableOn, ProofOf
<1>13. ASSUME NEW u \in Users, NEW x \in Submissions, Withdraw(u, x)
       PROVE  /\ itemStatus'[i] = itemStatus[i] /\ verified'[i] = verified[i]
              /\ UNCHANGED <<match, subItem>>
              /\ \A y \in Submissions : subItem[y] = i => subState'[y] = subState[y]
  BY <1>8, <1>13 DEF Withdraw
<1> QED
  BY <1>1, <1>2, <1>3, <1>4, <1>5, <1>6, <1>7, <1>9, <1>10, <1>11, <1>12, <1>13,
     StepCases DEF subVars

\* A verdict is never taken again, and a closed session is read-only for its
\* rows and their proof (NothingReopens).
THEOREM NothingReopensCorrect == LedgerSpec => NothingReopens
<1>1. ASSUME LedgerInv, [LedgerNext]_ledgerVars
      PROVE  \A x \in Submissions :
               subState[x] \in {"approved", "rejected", "superseded", "withdrawn"}
                 => \/ subState'[x] \in {subState[x], "absent"}
                    \/ subState[x] = "rejected" /\ itemStatus'[subItem[x]] = "checked"
  BY <1>1, StepVerdicts
<1>2. ASSUME LedgerInv, [LedgerNext]_ledgerVars
      PROVE  \A i \in Items : itemSession[i] # None =>
               LET s == itemSession[i]
               IN sessStatus[s] = "closed" /\ sessStatus'[s] = "closed"
                    => /\ itemStatus'[i] = itemStatus[i]
                       /\ match'[i] = match[i]
                       /\ verified'[i] = verified[i]
                       /\ \A x \in Submissions :
                            subItem[x] = i \/ subItem'[x] = i => subState'[x] = subState[x]
  BY <1>2, StepFrozen
<1> QED
  BY <1>1, <1>2, LedgerInvariant, PTL DEF LedgerSpec, NothingReopens, VerdictsAreFinal,
     ClosedRowsFrozen

-----------------------------------------------------------------------------
(***************************************************************************)
(* The ledger implements RowLifecycle.  The invariant of the mapping is    *)
(* LedgerInv: by it the phase of a row, read off its proof, is also the    *)
(* one its status column says.                                             *)
(***************************************************************************)

StatusPhase(st) ==
  IF st = "absent" THEN "absent"
  ELSE IF st = "needs_review" THEN "in_review"
  ELSE IF st \in Resolved THEN "resolved" ELSE "open"

Phases == [i \in Items |-> StatusPhase(itemStatus[i])]
SealedSessions == {s \in Sessions : sessStatus[s] = "closed"}

\* Proof awaits a decision exactly on the rows of the review queue.
LEMMA PhaseIsStatus == LedgerInv => [i \in Items |-> RowPhase(i)] = Phases
<1> SUFFICES ASSUME LedgerInv, NEW i \in Items
             PROVE  RowPhase(i) = StatusPhase(itemStatus[i])
  BY DEF Phases
<1>1. itemStatus[i] \in RowStatus /\ (itemStatus[i] = "needs_review" <=> ActionableOn(i) # {})
  BY DEF LedgerInv, LedgerTypeOK, ReviewQueueExact
<1> QED
  BY <1>1 DEF RowPhase, StatusPhase, RowStatus, Resolved

\* A row that may be written is one the lifecycle may move.
LEMMA WritableIsMovable ==
  ASSUME LedgerInv, NEW i \in Items, Writable(i)
  PROVE  Phases[i] # "absent" /\ itemSession[i] \notin SealedSessions
BY DEF Writable, Phases, StatusPhase, SealedSessions, LedgerInv, LedgerTypeOK, RowStatus

\* What awaits a decision lies on a row in review.
LEMMA ReviewableIsInReview ==
  ASSUME LedgerInv, NEW x \in Submissions, Reviewable(x)
  PROVE  /\ subItem[x] \in Items
         /\ itemStatus[subItem[x]] = "needs_review"
         /\ Phases[subItem[x]] = "in_review"
         /\ itemSession[subItem[x]] \notin SealedSessions
<1>1. subItem[x] \in Items /\ x \in ActionableOn(subItem[x])
  BY DEF Reviewable, ActionableOn, ProofOf, LedgerInv, LedgerTypeOK, NoOrphans, Actionable
<1>2. itemStatus[subItem[x]] = "needs_review"
  BY <1>1 DEF LedgerInv, ReviewQueueExact
<1> QED
  BY <1>1, <1>2, WritableIsMovable DEF Phases, StatusPhase, Reviewable

\* One step of the lifecycle for each handler, over the status column.
LifecycleStep ==
  \/ UNCHANGED <<Phases, itemSession, SealedSessions>>
  \/ \E s \in Sessions :
       \/ /\ \A i \in Items : itemSession[i] = s => Phases[i] # "in_review"
          /\ SealedSessions' = SealedSessions \cup {s}
          /\ UNCHANGED <<Phases, itemSession>>
       \/ /\ SealedSessions' = SealedSessions \ {s}
          /\ UNCHANGED <<Phases, itemSession>>
       \/ /\ Phases' = [i \in Items |-> IF itemSession[i] = s THEN "absent" ELSE Phases[i]]
          /\ itemSession' = [i \in Items |-> IF itemSession[i] = s THEN None ELSE itemSession[i]]
          /\ SealedSessions' = SealedSessions \ {s}
       \/ \E R \in SUBSET Items :
            /\ \A i \in R : Phases[i] = "absent"
            /\ Phases' = [i \in Items |-> IF i \in R THEN "open" ELSE Phases[i]]
            /\ itemSession' = [i \in Items |-> IF i \in R THEN s ELSE itemSession[i]]
            /\ UNCHANGED SealedSessions
  \/ \E i \in Items :
       /\ Phases[i] # "absent" /\ itemSession[i] \notin SealedSessions
       /\ UNCHANGED <<itemSession, SealedSessions>>
       /\ \/ Phases' = [Phases EXCEPT ![i] = "in_review"]
          \/ Phases[i] = "in_review" /\ Phases' = [Phases EXCEPT ![i] = "open"]
          \/ Phases' = [Phases EXCEPT ![i] = "resolved"]

\* Each handler moves its row as the lifecycle allows, or not at all.
LEMMA StepLifecycle ==
  ASSUME LedgerInv, [LedgerNext]_ledgerVars
  PROVE  LifecycleStep
<1> USE DEF LedgerInv, LedgerTypeOK
<1>1. CASE Idle
  BY <1>1 DEF Idle, LifecycleStep, Phases, SealedSessions
<1>2. ASSUME NEW s \in Sessions, NEW st \in {"draft", "active"}, CreateSession(s, st)
      PROVE  LifecycleStep
  BY <1>2 DEF CreateSession, LifecycleStep, Phases, SealedSessions
<1>3. ASSUME NEW s \in Sessions, NEW st \in {"draft", "active"}, SetSessionStatus(s, st)
      PROVE  LifecycleStep
  <2>1. SealedSessions' = SealedSessions \ {s}
    BY <1>3 DEF SetSessionStatus, SealedSessions
  <2> QED
    BY <1>3, <2>1 DEF SetSessionStatus, LifecycleStep, Phases
<1>4. ASSUME NEW s \in Sessions, NEW U \in SUBSET Crew, CloseSession(s, U)
      PROVE  LifecycleStep
  <2>1. SealedSessions' = SealedSessions \cup {s}
    BY <1>4 DEF CloseSession, SealedSessions
  <2>2. \A i \in Items : itemSession[i] = s => Phases[i] # "in_review"
    BY <1>4 DEF CloseSession, NothingInReview, RowsOf, ReviewQueueExact, Phases, StatusPhase,
       RowStatus, Resolved
  <2>3. UNCHANGED <<Phases, itemSession>>
    BY <1>4 DEF CloseSession, Phases
  <2> QED
    BY <2>1, <2>2, <2>3 DEF LifecycleStep
<1>5. ASSUME NEW i \in Items, NEW m \in {"none", "confirmed"}, ResolveMatch(i, m)
      PROVE  LifecycleStep
  BY <1>5 DEF ResolveMatch, sessVars, LifecycleStep, Phases, SealedSessions
<1>6. ASSUME NEW s \in Sessions, DeleteSession(s)
      PROVE  LifecycleStep
  <2>1. SealedSessions' = SealedSessions \ {s}
    BY <1>6 DEF DeleteSession, SealedSessions
  <2>2. Phases' = [i \in Items |-> IF itemSession[i] = s THEN "absent" ELSE Phases[i]]
    BY <1>6 DEF DeleteSession, Phases, StatusPhase, RowsOf
  <2>3. itemSession' = [i \in Items |-> IF itemSession[i] = s THEN None ELSE itemSession[i]]
    BY <1>6 DEF DeleteSession, RowsOf
  <2> QED
    BY <2>1, <2>2, <2>3 DEF LifecycleStep
<1>7. ASSUME NEW s \in Sessions, NEW R \in SUBSET Items, NEW m \in [R -> MatchState],
             AddRows(s, R, m)
      PROVE  LifecycleStep
  <2>1. \A i \in R : Phases[i] = "absent"
    BY <1>7 DEF AddRows, Phases, StatusPhase
  <2>2. Phases' = [i \in Items |-> IF i \in R THEN "open" ELSE Phases[i]]
    BY <1>7 DEF AddRows, Phases, StatusPhase, Resolved
  <2>3. itemSession' = [i \in Items |-> IF i \in R THEN s ELSE itemSession[i]]
    BY <1>7 DEF AddRows
  <2>4. UNCHANGED SealedSessions
    BY <1>7 DEF AddRows, SealedSessions
  <2> QED
    BY <2>1, <2>2, <2>3, <2>4 DEF LifecycleStep
<1>8. ASSUME NEW i \in Items, NEW st \in {"unchecked", "needs_review", "approved", "checked"},
             itemStatus' = [itemStatus EXCEPT ![i] = st],
             UNCHANGED <<sessStatus, itemSession>>
      PROVE  /\ Phases' = [Phases EXCEPT ![i] = StatusPhase(st)]
             /\ UNCHANGED <<itemSession, SealedSessions>>
  BY <1>8 DEF Phases, SealedSessions
<1>9. StatusPhase("unchecked") = "open" /\ StatusPhase("needs_review") = "in_review"
        /\ StatusPhase("approved") = "resolved" /\ StatusPhase("checked") = "resolved"
  BY DEF StatusPhase, Resolved
<1>10. ASSUME NEW i \in Items, DirectCheck(i)
       PROVE  LifecycleStep
  <2>1. Writable(i) /\ itemStatus' = [itemStatus EXCEPT ![i] = "checked"]
          /\ UNCHANGED <<sessStatus, itemSession>>
    BY <1>10 DEF DirectCheck
  <2> QED
    BY <1>8, <1>9, <2>1, WritableIsMovable DEF LifecycleStep
<1>11. ASSUME NEW x \in Submissions, NEW save \in BOOLEAN, Approve(x, save)
       PROVE  LifecycleStep
  <2>1. Reviewable(x) /\ itemStatus' = [itemStatus EXCEPT ![subItem[x]] = "approved"]
          /\ UNCHANGED <<sessStatus, itemSession>>
    BY <1>11 DEF Approve
  <2> QED
    BY <1>8, <1>9, <2>1, ReviewableIsInReview DEF LifecycleStep
<1>12. ASSUME NEW x \in Submissions, NEW route \in ReturnRoute, Reject(x, route)
       PROVE  LifecycleStep
  <2>1. Reviewable(x) /\ itemStatus' = [itemStatus EXCEPT ![subItem[x]] = "unchecked"]
          /\ UNCHANGED <<sessStatus, itemSession>>
    BY <1>12 DEF Reject
  <2> QED
    BY <1>8, <1>9, <2>1, ReviewableIsInReview DEF LifecycleStep
<1>13. ASSUME NEW x \in Submissions, RequestMoreInfo(x) \/ RequestEvidence(x)
       PROVE  LifecycleStep
  <2>1. Reviewable(x) /\ itemStatus' = [itemStatus EXCEPT ![subItem[x]] = "needs_review"]
          /\ UNCHANGED <<sessStatus, itemSession>>
    BY <1>13 DEF RequestMoreInfo, RequestEvidence
  <2> QED
    BY <1>8, <1>9, <2>1, ReviewableIsInReview DEF LifecycleStep
<1>14. ASSUME NEW u \in Users, NEW i \in Items, NEW x \in Submissions, Submit(u, i, x)
       PROVE  LifecycleStep
  <2>1. Writable(i) /\ itemStatus' = [itemStatus EXCEPT ![i] = "needs_review"]
          /\ UNCHANGED <<sessStatus, itemSession>>
    BY <1>14 DEF Submit
  <2> QED
    BY <1>8, <1>9, <2>1, WritableIsMovable DEF LifecycleStep
<1>15. ASSUME NEW u \in Users, NEW x \in Submissions, Withdraw(u, x)
       PROVE  LifecycleStep
  <2>1. Reviewable(x) /\ itemStatus' = [itemStatus EXCEPT ![subItem[x]] = "unchecked"]
          /\ UNCHANGED <<sessStatus, itemSession>>
    BY <1>15 DEF Withdraw
  <2> QED
    BY <1>8, <1>9, <2>1, ReviewableIsInReview DEF LifecycleStep
<1> QED
  BY <1>1, <1>2, <1>3, <1>4, <1>5, <1>6, <1>7, <1>10, <1>11, <1>12, <1>13, <1>14, <1>15,
     StepCases

\* The handlers implement the life of a row the product promises: resolved rows
\* return only through new proof, sessions close only when nothing is in review.
THEOREM LedgerImplementsLifecycle == LedgerSpec => ImplementsLifecycle
<1>1. LedgerInit => Lifecycle!LifecycleInit
  <2> SUFFICES ASSUME LedgerInit PROVE Lifecycle!LifecycleInit
    OBVIOUS
  <2>1. [i \in Items |-> RowPhase(i)] = Phases
    BY InitInv, PhaseIsStatus
  <2>2. Phases = [i \in Items |-> "absent"]
    BY DEF LedgerInit, Phases, StatusPhase
  <2> QED
    BY <2>1, <2>2 DEF LedgerInit, Lifecycle!LifecycleInit
<1>2. ASSUME LedgerInv, LedgerInv', [LedgerNext]_ledgerVars
      PROVE  [Lifecycle!LifecycleNext]_Lifecycle!lifecycleVars
  <2>1. [i \in Items |-> RowPhase(i)] = Phases
    BY <1>2, PhaseIsStatus
  <2>2. ([i \in Items |-> RowPhase(i)] = Phases)'
    BY <1>2, PhaseIsStatus, PTL
  <2>3. LifecycleStep
    BY <1>2, StepLifecycle
  <2> HIDE DEF Phases
  <2>4. CASE UNCHANGED <<Phases, itemSession, SealedSessions>>
    BY <2>1, <2>2, <2>4 DEF SealedSessions, Lifecycle!lifecycleVars
  <2>5. ASSUME NEW s \in Sessions,
               \A i \in Items : itemSession[i] = s => Phases[i] # "in_review",
               SealedSessions' = SealedSessions \cup {s}, UNCHANGED <<Phases, itemSession>>
        PROVE  Lifecycle!Seal(s)
    BY <2>1, <2>2, <2>5 DEF SealedSessions, Lifecycle!Seal
  <2>6. ASSUME NEW s \in Sessions,
               SealedSessions' = SealedSessions \ {s}, UNCHANGED <<Phases, itemSession>>
        PROVE  Lifecycle!Unseal(s)
    BY <2>1, <2>2, <2>6 DEF SealedSessions, Lifecycle!Unseal
  <2>7. ASSUME NEW s \in Sessions,
               Phases' = [i \in Items |-> IF itemSession[i] = s THEN "absent" ELSE Phases[i]],
               itemSession' = [i \in Items |-> IF itemSession[i] = s THEN None ELSE itemSession[i]],
               SealedSessions' = SealedSessions \ {s}
        PROVE  Lifecycle!Discard(s)
    BY <2>1, <2>2, <2>7 DEF SealedSessions, Lifecycle!Discard
  <2>8. ASSUME NEW s \in Sessions, NEW R \in SUBSET Items,
               \A i \in R : Phases[i] = "absent",
               Phases' = [i \in Items |-> IF i \in R THEN "open" ELSE Phases[i]],
               itemSession' = [i \in Items |-> IF i \in R THEN s ELSE itemSession[i]],
               UNCHANGED SealedSessions
        PROVE  Lifecycle!Register(s, R)
    BY <2>1, <2>2, <2>8 DEF SealedSessions, Lifecycle!Register
  <2>9. ASSUME NEW i \in Items, Phases[i] # "absent", itemSession[i] \notin SealedSessions,
               UNCHANGED <<itemSession, SealedSessions>>,
               \/ Phases' = [Phases EXCEPT ![i] = "in_review"]
               \/ Phases[i] = "in_review" /\ Phases' = [Phases EXCEPT ![i] = "open"]
               \/ Phases' = [Phases EXCEPT ![i] = "resolved"]
        PROVE  Lifecycle!Propose(i) \/ Lifecycle!SendBack(i) \/ Lifecycle!Settle(i)
    BY <2>1, <2>2, <2>9 DEF SealedSessions, Lifecycle!Propose, Lifecycle!SendBack,
       Lifecycle!Settle, Lifecycle!Movable
  <2> QED
    BY <2>3, <2>4, <2>5, <2>6, <2>7, <2>8, <2>9 DEF LifecycleStep, Lifecycle!LifecycleNext
<1> QED
  BY <1>1, <1>2, LedgerInvariant, PTL DEF LedgerSpec, ImplementsLifecycle,
     Lifecycle!LifecycleSpec

-----------------------------------------------------------------------------
(***************************************************************************)
(* Crew passes.                                                            *)
(***************************************************************************)

\* A pass that is open or was entered belongs to a session.
PassesHaveSession ==
  \A p \in Crew : grant[p] \in OpenGrant \/ auth[p] # "none" => grantSession[p] \in Sessions

\* The inductive invariant of the passes.
CrewInv ==
  /\ CrewTypeOK
  /\ PassesHaveSession
  /\ CredentialMatchesGrant
  /\ ClosedHasNoPasses

-----------------------------------------------------------------------------
(***************************************************************************)
(* Every step of the composition is a step of the ledger, or none.         *)
(***************************************************************************)

\* The claims of ended passes are claims of crew users in sessions.
LEMMA ClaimsOfType ==
  ASSUME PassesHaveSession, NEW G \in SUBSET Crew
  PROVE  ClaimsOf(G) \in SUBSET (Sessions \X Crew)
BY DEF PassesHaveSession, ClaimsOf, Joined

\* Releasing claims is a step of the ledger.
LEMMA ReleaseIsLedgerStep ==
  ASSUME NEW P \in SUBSET (Sessions \X Crew), ReleaseClaims(P)
  PROVE  LedgerNext
BY DEF LedgerNext

\* What members do is a step of the ledger.
LEMMA MemberIsLedgerStep == MemberStep => LedgerNext
<1> SUFFICES ASSUME MemberStep PROVE LedgerNext
  OBVIOUS
<1>1. ASSUME NEW s \in Sessions, NEW st \in {"draft", "active"},
             CreateSession(s, st) \/ SetSessionStatus(s, st)
      PROVE  LedgerNext
  BY <1>1 DEF LedgerNext, ManageSession
<1>2. ASSUME NEW s \in Sessions, CountRows(s)
      PROVE  LedgerNext
  BY <1>2 DEF LedgerNext, ManageSession
<1>3. ASSUME NEW s \in Sessions, NEW R \in SUBSET Items, NEW m \in [R -> MatchState],
             AddRows(s, R, m)
      PROVE  LedgerNext
  BY <1>3 DEF LedgerNext, ManageSession
<1>4. ASSUME NEW i \in Items, LeadRow(i)
      PROVE  LedgerNext
  BY <1>4 DEF LedgerNext
<1>5. ASSUME NEW x \in Submissions, Review(x)
      PROVE  LedgerNext
  BY <1>5 DEF LedgerNext
<1>6. ASSUME NEW u \in Members, Work(u)
      PROVE  LedgerNext
  BY <1>6 DEF LedgerNext, Users, Members
<1> QED
  BY <1>1, <1>2, <1>3, <1>4, <1>5, <1>6 DEF MemberStep

\* What a pass does is a step of the ledger, or leaves the ledger alone.
LEMMA PassIsLedgerStep ==
  ASSUME PassesHaveSession, NEW p \in Crew, PassStep(p)
  PROVE  [LedgerNext]_ledgerVars
<1>1. Lapsed \in SUBSET Crew /\ {p} \in SUBSET Crew
  BY DEF Lapsed
<1>2. ASSUME NEW s \in Sessions, CreateGrant(p, s)
      PROVE  LedgerNext
  BY <1>1, <1>2, ClaimsOfType, ReleaseIsLedgerStep DEF CreateGrant
<1>3. CASE Consume(p) \/ ExhaustAttempts(p)
  BY <1>1, <1>3, ClaimsOfType, ReleaseIsLedgerStep DEF Consume, ExhaustAttempts
<1>4. CASE Revoke(p) \/ Logout(p) \/ RetireDetectedExpired(p)
  BY <1>1, <1>4, ClaimsOfType, ReleaseIsLedgerStep DEF Revoke, Logout, RetireDetectedExpired
<1>5. CASE Authenticate(p) \/ Lapse(p) \/ CrewRefused(p)
  BY <1>5 DEF Authenticate, Lapse, CrewRefused
<1>6. CASE CrewWork(p)
  <2>1. Work(p)
    BY <1>6 DEF CrewWork, Work
  <2> QED
    BY <2>1 DEF LedgerNext, Users
<1> QED
  BY <1>2, <1>3, <1>4, <1>5, <1>6 DEF PassStep

\* Every step of the composition is a step of the ledger, or none.
LEMMA CrewIsLedgerStep ==
  ASSUME PassesHaveSession, [CrewNext]_crewVars
  PROVE  [LedgerNext]_ledgerVars
<1>1. CASE MemberStep
  BY <1>1, MemberIsLedgerStep
<1>2. ASSUME NEW s \in Sessions, Close(s)
      PROVE  LedgerNext
  <2>1. JoinedCrew(s) \in SUBSET Crew /\ CloseSession(s, JoinedCrew(s))
    BY <1>2 DEF Close, JoinedCrew, PassesOf
  <2> QED
    BY <2>1 DEF LedgerNext
<1>3. ASSUME NEW s \in Sessions, Delete(s)
      PROVE  LedgerNext
  BY <1>3 DEF Delete, LedgerNext, ManageSession
<1>4. CASE ListCrew
  BY <1>4, ClaimsOfType, ReleaseIsLedgerStep DEF ListCrew, Lapsed
<1>5. ASSUME NEW p \in Crew, PassStep(p)
      PROVE  [LedgerNext]_ledgerVars
  BY <1>5, PassIsLedgerStep
<1>6. CASE UNCHANGED crewVars
  BY <1>6 DEF crewVars
<1> QED
  BY <1>1, <1>2, <1>3, <1>4, <1>5, <1>6 DEF CrewNext

-----------------------------------------------------------------------------
(***************************************************************************)
(* The invariant of the passes.  A step touches passes in one of the ways  *)
(* named by the three lemmas on EndGrants and RevokeAuth, or not at all.   *)
(***************************************************************************)

\* What ending passes and revoking credentials do to a single pass.
LEMMA EndGrantsOf ==
  ASSUME NEW G, NEW st, NEW p \in Crew
  PROVE  EndGrants(G, st)[p] = IF p \in G /\ grant[p] \in OpenGrant THEN st ELSE grant[p]
BY DEF EndGrants

LEMMA RevokeAuthOf ==
  ASSUME NEW G, NEW p \in Crew
  PROVE  RevokeAuth(G)[p] = IF p \in G /\ auth[p] = "live" THEN "revoked" ELSE auth[p]
BY DEF RevokeAuth

\* The empty system has no passes.
LEMMA CrewInitInv == CrewInit => CrewInv
<1> SUFFICES ASSUME CrewInit PROVE CrewInv
  OBVIOUS
<1>1. LedgerTypeOK
  BY InitType DEF CrewInit
<1>2. CrewTypeOK
  BY <1>1 DEF CrewInit, CrewTypeOK, GrantStatus
<1> QED
  BY <1>2 DEF CrewInit, CrewInv, PassesHaveSession, CredentialMatchesGrant,
     ClosedHasNoPasses, OpenGrant

\* Every step writes values of the right kind.
LEMMA StepCrewType ==
  ASSUME CrewTypeOK, PassesHaveSession, [CrewNext]_crewVars
  PROVE  CrewTypeOK'
<1>0. LedgerTypeOK'
  BY CrewIsLedgerStep, StepType DEF CrewTypeOK
<1> USE <1>0 DEF CrewTypeOK, GrantStatus
<1>1. CASE MemberStep
  BY <1>1 DEF MemberStep, passVars
<1>2. ASSUME NEW s \in Sessions, Close(s)
      PROVE  CrewTypeOK'
  BY <1>2 DEF Close, EndGrants, RevokeAuth
<1>3. ASSUME NEW s \in Sessions, Delete(s)
      PROVE  CrewTypeOK'
  BY <1>3 DEF Delete
<1>4. CASE ListCrew
  BY <1>4 DEF ListCrew, EndGrants, RevokeAuth
<1>5. ASSUME NEW p \in Crew, NEW s \in Sessions, CreateGrant(p, s)
      PROVE  CrewTypeOK'
  BY <1>5 DEF CreateGrant, EndGrants, RevokeAuth
<1>6. ASSUME NEW p \in Crew, Consume(p) \/ ExhaustAttempts(p)
      PROVE  CrewTypeOK'
  BY <1>6 DEF Consume, ExhaustAttempts, EndGrants, RevokeAuth
<1>7. ASSUME NEW p \in Crew, Revoke(p) \/ Logout(p) \/ RetireDetectedExpired(p)
      PROVE  CrewTypeOK'
  BY <1>7 DEF Revoke, Logout, RetireDetectedExpired, EndGrants, RevokeAuth
<1>8. ASSUME NEW p \in Crew, Authenticate(p) \/ Lapse(p)
      PROVE  CrewTypeOK'
  BY <1>8 DEF Authenticate, Lapse
<1>9. ASSUME NEW p \in Crew, CrewWork(p) \/ CrewRefused(p)
      PROVE  CrewTypeOK'
  BY <1>9 DEF CrewWork, CrewRefused
<1>10. CASE UNCHANGED crewVars
  BY <1>10 DEF crewVars, passVars
<1> QED
  BY <1>1, <1>2, <1>3, <1>4, <1>5, <1>6, <1>7, <1>8, <1>9, <1>10 DEF CrewNext, PassStep

\* Every step keeps the pass, its credential and its session in agreement.
LEMMA StepPasses ==
  ASSUME CrewInv, [CrewNext]_crewVars
  PROVE  PassesHaveSession' /\ CredentialMatchesGrant'
<1>0. CrewTypeOK'
  BY StepCrewType DEF CrewInv
<1> USE <1>0 DEF CrewInv, CrewTypeOK, GrantStatus, OpenGrant, PassesHaveSession, CredentialMatchesGrant
<1>1. CASE MemberStep
  BY <1>1 DEF MemberStep, passVars
<1>2. ASSUME NEW s \in Sessions, Close(s)
      PROVE  PassesHaveSession' /\ CredentialMatchesGrant'
  BY <1>2 DEF Close, EndGrants, RevokeAuth
<1>3. ASSUME NEW s \in Sessions, Delete(s)
      PROVE  PassesHaveSession' /\ CredentialMatchesGrant'
  BY <1>3 DEF Delete
<1>4. CASE ListCrew
  BY <1>4 DEF ListCrew, EndGrants, RevokeAuth
<1>5. ASSUME NEW p \in Crew, NEW s \in Sessions, CreateGrant(p, s)
      PROVE  PassesHaveSession' /\ CredentialMatchesGrant'
  BY <1>5 DEF CreateGrant, EndGrants, RevokeAuth
<1>6. ASSUME NEW p \in Crew, Consume(p)
      PROVE  PassesHaveSession' /\ CredentialMatchesGrant'
  BY <1>6 DEF Consume, Enterable, Lapsed, EndGrants, RevokeAuth
<1>7. ASSUME NEW p \in Crew, ExhaustAttempts(p)
      PROVE  PassesHaveSession' /\ CredentialMatchesGrant'
  BY <1>7 DEF ExhaustAttempts, Enterable, Lapsed, EndGrants, RevokeAuth
<1>8. ASSUME NEW p \in Crew, Revoke(p) \/ Logout(p) \/ RetireDetectedExpired(p)
      PROVE  PassesHaveSession' /\ CredentialMatchesGrant'
  BY <1>8 DEF Revoke, Logout, RetireDetectedExpired, Joined, RetiredGrant, EndGrants, RevokeAuth
<1>9. ASSUME NEW p \in Crew, Authenticate(p) \/ Lapse(p) \/ CrewWork(p) \/ CrewRefused(p)
      PROVE  PassesHaveSession' /\ CredentialMatchesGrant'
  BY <1>9 DEF Authenticate, Lapse, CrewWork, CrewRefused
<1>10. CASE UNCHANGED crewVars
  BY <1>10 DEF crewVars, passVars
<1> QED
  BY <1>1, <1>2, <1>3, <1>4, <1>5, <1>6, <1>7, <1>8, <1>9, <1>10 DEF CrewNext, PassStep

\* No member closes a session by anything but a close.
LEMMA MemberClosesNothing ==
  ASSUME LedgerTypeOK, MemberStep, NEW s \in Sessions, sessStatus'[s] = "closed"
  PROVE  sessStatus[s] = "closed"
<1>1. ASSUME NEW t \in Sessions, NEW st \in {"draft", "active"},
             CreateSession(t, st) \/ SetSessionStatus(t, st)
      PROVE  sessStatus[s] = "closed"
  BY <1>1 DEF CreateSession, SetSessionStatus, LedgerTypeOK
<1>2. ASSUME NEW t \in Sessions, CountRows(t)
      PROVE  sessStatus' = sessStatus
  BY <1>2 DEF CountRows
<1>3. ASSUME NEW t \in Sessions, NEW R \in SUBSET Items, NEW m \in [R -> MatchState],
             AddRows(t, R, m)
      PROVE  sessStatus' = sessStatus
  BY <1>3 DEF AddRows
<1>4. ASSUME NEW i \in Items, LeadRow(i)
      PROVE  sessStatus' = sessStatus
  BY <1>4 DEF LeadRow, Assign, ResolveMatch, DirectCheck, sessVars
<1>5. ASSUME NEW x \in Submissions, Review(x)
      PROVE  sessStatus' = sessStatus
  BY <1>5 DEF Review, Approve, Reject, RequestMoreInfo, RequestEvidence
<1>6. ASSUME NEW u \in Members, Work(u)
      PROVE  sessStatus' = sessStatus
  BY <1>6 DEF Work, Claim, Release, Submit, Withdraw, sessVars
<1> QED
  BY <1>1, <1>2, <1>3, <1>4, <1>5, <1>6 DEF MemberStep

\* A pass opens only in an active session, and a close ends them all.
LEMMA StepClosedHasNoPasses ==
  ASSUME CrewInv, [CrewNext]_crewVars
  PROVE  ClosedHasNoPasses'
<1>0. CrewTypeOK' /\ LedgerTypeOK
  BY StepCrewType DEF CrewInv, CrewTypeOK
<1> USE <1>0 DEF CrewInv, CrewTypeOK, OpenGrant, PassesHaveSession, ClosedHasNoPasses
<1>1. CASE MemberStep
  BY <1>1, MemberClosesNothing DEF MemberStep, passVars
<1>2. ASSUME NEW s \in Sessions, Close(s)
      PROVE  ClosedHasNoPasses'
  <2>1. \A t \in Sessions \ {s} : sessStatus'[t] = sessStatus[t]
    BY <1>2 DEF Close, CloseSession, LedgerTypeOK
  <2>2. \A p \in Crew : grant'[p] \in OpenGrant =>
          grant[p] \in OpenGrant /\ grantSession'[p] = grantSession[p] /\ grantSession[p] # s
    BY <1>2 DEF Close, EndGrants, PassesOf
  <2> QED
    BY <2>1, <2>2
<1>3. ASSUME NEW s \in Sessions, Delete(s)
      PROVE  ClosedHasNoPasses'
  <2>1. \A t \in Sessions \ {s} : sessStatus'[t] = sessStatus[t]
    BY <1>3 DEF Delete, DeleteSession, LedgerTypeOK
  <2>2. \A p \in Crew : grant'[p] \in OpenGrant =>
          grant[p] \in OpenGrant /\ grantSession'[p] = grantSession[p] /\ grantSession[p] # s
    BY <1>3 DEF Delete, PassesOf
  <2> QED
    BY <2>1, <2>2
<1>4. CASE ListCrew
  BY <1>4 DEF ListCrew, ReleaseClaims, sessVars, EndGrants
<1>5. ASSUME NEW p \in Crew, NEW s \in Sessions, CreateGrant(p, s)
      PROVE  ClosedHasNoPasses'
  BY <1>5 DEF CreateGrant, ReleaseClaims, sessVars, EndGrants
<1>6. ASSUME NEW p \in Crew, Consume(p) \/ ExhaustAttempts(p)
      PROVE  ClosedHasNoPasses'
  BY <1>6 DEF Consume, ExhaustAttempts, Enterable, ReleaseClaims, sessVars, EndGrants
<1>7. ASSUME NEW p \in Crew, Revoke(p) \/ Logout(p) \/ RetireDetectedExpired(p)
      PROVE  ClosedHasNoPasses'
  BY <1>7 DEF Revoke, Logout, RetireDetectedExpired, ReleaseClaims, sessVars, EndGrants
<1>8. ASSUME NEW p \in Crew, Authenticate(p) \/ Lapse(p) \/ CrewRefused(p)
      PROVE  ClosedHasNoPasses'
  BY <1>8 DEF Authenticate, Lapse, CrewRefused, ledgerVars
<1>9. ASSUME NEW p \in Crew, CrewWork(p)
      PROVE  ClosedHasNoPasses'
  <2>1. UNCHANGED <<sessStatus, grant, grantSession>>
    BY <1>9 DEF CrewWork, Claim, Release, Submit, Withdraw, sessVars
  <2> QED
    BY <2>1
<1>10. CASE UNCHANGED crewVars
  BY <1>10 DEF crewVars, ledgerVars, passVars
<1> QED
  BY <1>1, <1>2, <1>3, <1>4, <1>5, <1>6, <1>7, <1>8, <1>9, <1>10 DEF CrewNext, PassStep

-----------------------------------------------------------------------------
\* The invariant of the passes holds in every reachable state.
THEOREM CrewInvariant == CrewSpec => []CrewInv
<1>1. CrewInv /\ [CrewNext]_crewVars => CrewInv'
  BY StepCrewType, StepPasses, StepClosedHasNoPasses DEF CrewInv
<1> QED
  BY <1>1, CrewInitInv, PTL DEF CrewSpec

\* The ledger with passes implements the ledger: whatever a guest does
\* through a pass, a member of the ledger could have done.
THEOREM CrewImplementsLedger == CrewSpec => LedgerSpec
<1>1. CrewInit => LedgerInit
  BY DEF CrewInit
<1>2. CrewInv /\ [CrewNext]_crewVars => [LedgerNext]_ledgerVars
  BY CrewIsLedgerStep DEF CrewInv
<1> QED
  BY <1>1, <1>2, CrewInvariant, PTL DEF CrewSpec, LedgerSpec

\* So the invariants of the ledger hold with passes too.
THEOREM CrewKeepsLedgerInv == CrewSpec => []LedgerInv
BY CrewImplementsLedger, LedgerInvariant, PTL

\* A cookie is good exactly while its pass is consumed.
THEOREM CredentialsAgree == CrewSpec => []CredentialMatchesGrant
<1>1. CrewInv => CredentialMatchesGrant
  BY DEF CrewInv
<1> QED
  BY <1>1, CrewInvariant, PTL

\* A closed session has no pass left to enter or to use.
THEOREM ClosedWithoutPasses == CrewSpec => []ClosedHasNoPasses
<1>1. CrewInv => ClosedHasNoPasses
  BY DEF CrewInv
<1> QED
  BY <1>1, CrewInvariant, PTL

-----------------------------------------------------------------------------
(***************************************************************************)
(* The limit of open passes.                                               *)
(***************************************************************************)

OpenPassesOf(s) == {p \in PassesOf(s) : grant[p] \in OpenGrant}

\* Only the creation of a pass gives a session one more open pass.
LEMMA OnlyCreateOpens ==
  ASSUME CrewInv, [CrewNext]_crewVars, NEW t \in Sessions
  PROVE  \/ OpenPassesOf(t)' \subseteq OpenPassesOf(t)
         \/ \E p \in Crew : CreateGrant(p, t)
<1> USE DEF CrewInv, CrewTypeOK, OpenGrant, OpenPassesOf, PassesOf
<1>1. CASE MemberStep
  BY <1>1 DEF MemberStep, passVars
<1>2. ASSUME NEW s \in Sessions, Close(s)
      PROVE  OpenPassesOf(t)' \subseteq OpenPassesOf(t)
  BY <1>2 DEF Close, EndGrants
<1>3. ASSUME NEW s \in Sessions, Delete(s)
      PROVE  OpenPassesOf(t)' \subseteq OpenPassesOf(t)
  BY <1>3, NoneIsNoId DEF Delete
<1>4. CASE ListCrew
  BY <1>4 DEF ListCrew, EndGrants
<1>5. ASSUME NEW p \in Crew, NEW s \in Sessions, CreateGrant(p, s), s # t
      PROVE  OpenPassesOf(t)' \subseteq OpenPassesOf(t)
  BY <1>5 DEF CreateGrant, EndGrants
<1>6. ASSUME NEW p \in Crew, Consume(p) \/ ExhaustAttempts(p)
      PROVE  OpenPassesOf(t)' \subseteq OpenPassesOf(t)
  BY <1>6 DEF Consume, ExhaustAttempts, Enterable, EndGrants
<1>7. ASSUME NEW p \in Crew, Revoke(p) \/ Logout(p) \/ RetireDetectedExpired(p)
      PROVE  OpenPassesOf(t)' \subseteq OpenPassesOf(t)
  BY <1>7 DEF Revoke, Logout, RetireDetectedExpired, EndGrants
<1>8. ASSUME NEW p \in Crew, Authenticate(p) \/ Lapse(p) \/ CrewWork(p) \/ CrewRefused(p)
      PROVE  OpenPassesOf(t)' \subseteq OpenPassesOf(t)
  BY <1>8 DEF Authenticate, Lapse, CrewWork, CrewRefused
<1>9. CASE UNCHANGED crewVars
  BY <1>9 DEF crewVars, passVars
<1> QED
  BY <1>1, <1>2, <1>3, <1>4, <1>5, <1>6, <1>7, <1>8, <1>9 DEF CrewNext, PassStep

\* A pass is created while there is room, counted after the expiry.
LEMMA StepGrantLimit ==
  ASSUME CrewInv, GrantLimit, [CrewNext]_crewVars
  PROVE  GrantLimit'
<1> SUFFICES ASSUME NEW t \in Sessions
             PROVE  Cardinality(OpenPassesOf(t)') <= MaxGrants
  BY DEF GrantLimit, OpenPassesOf, PassesOf
<1>1. IsFiniteSet(OpenPassesOf(t))
  BY CrewIsBounded, FS_Subset DEF OpenPassesOf, PassesOf
<1>2. Cardinality(OpenPassesOf(t)) <= MaxGrants
  BY DEF GrantLimit, OpenPassesOf
<1>3. CASE OpenPassesOf(t)' \subseteq OpenPassesOf(t)
  <2>1. /\ IsFiniteSet(OpenPassesOf(t)')
        /\ Cardinality(OpenPassesOf(t)') <= Cardinality(OpenPassesOf(t))
    BY <1>1, <1>3, FS_Subset
  <2> QED
    BY <1>1, <1>2, <2>1, CrewIsBounded, FS_CardinalityType
<1>4. ASSUME NEW p \in Crew, CreateGrant(p, t)
      PROVE  Cardinality(OpenPassesOf(t)') <= MaxGrants
  <2> DEFINE Live == {q \in PassesOf(t) : grant[q] \in OpenGrant /\ ~lapsed[q]}
  <2>1. Cardinality(Live) < MaxGrants
    BY <1>4 DEF CreateGrant, HasRoom
  <2>2. OpenPassesOf(t)' \subseteq Live \cup {p}
    BY <1>4 DEF CreateGrant, EndGrants, Lapsed, OpenPassesOf, PassesOf, OpenGrant,
       CrewInv, CrewTypeOK
  <2>3. IsFiniteSet(Live)
    BY CrewIsBounded, FS_Subset DEF PassesOf
  <2> HIDE DEF Live
  <2>4. /\ IsFiniteSet(Live \cup {p})
        /\ Cardinality(Live \cup {p}) <= Cardinality(Live) + 1
    <3>1. Cardinality(Live) \in Nat
      BY <2>3, FS_CardinalityType
    <3>2. /\ IsFiniteSet(Live \cup {p})
          /\ Cardinality(Live \cup {p}) = IF p \in Live THEN Cardinality(Live)
                                           ELSE Cardinality(Live) + 1
      BY <2>3, FS_AddElement
    <3> QED
      BY <3>1, <3>2
  <2>5. /\ IsFiniteSet(OpenPassesOf(t)')
        /\ Cardinality(OpenPassesOf(t)') <= Cardinality(Live \cup {p})
    BY <2>2, <2>4, FS_Subset
  <2> QED
    BY <2>1, <2>3, <2>4, <2>5, CrewIsBounded, FS_CardinalityType
<1> QED
  BY <1>3, <1>4, OnlyCreateOpens

\* No session ever has more than MaxGrants open passes.
THEOREM PassesAreLimited == CrewSpec => []GrantLimit
<1>1. CrewInit => GrantLimit
  <2> SUFFICES ASSUME CrewInit, NEW s \in Sessions
               PROVE  Cardinality(OpenPassesOf(s)) <= MaxGrants
    BY DEF GrantLimit, OpenPassesOf
  <2>1. OpenPassesOf(s) = {}
    BY DEF CrewInit, OpenPassesOf, PassesOf, OpenGrant
  <2> QED
    BY <2>1, FS_EmptySet, CrewIsBounded
<1> QED
  BY <1>1, CrewInvariant, StepGrantLimit, PTL DEF CrewSpec

-----------------------------------------------------------------------------
(***************************************************************************)
(* What passes leave behind.  Neither part of PassesLeaveNothing is        *)
(* inductive: that the end of a pass releases its claims needs that they   *)
(* are rows of its session, and that only who entered a code has any.      *)
(***************************************************************************)

\* Who never entered a code, or whose pass went with its session, has no
\* credential.
FreshIsUnjoined ==
  \A p \in Crew : grant[p] \in {"none", "pending", "deleted"} => auth[p] = "none"

UnjoinedHoldNothing ==
  \A p \in Crew : auth[p] = "none" =>
    (\A i \in Items : assignee[i] # p) /\ (\A x \in Submissions : subBy[x] # p)

AbsentHoldsNothing ==
  /\ \A i \in Items : itemStatus[i] = "absent" => assignee[i] = None
  /\ \A x \in Submissions : subItem[x] = None => subBy[x] = None

HoldInv ==
  /\ FreshIsUnjoined
  /\ UnjoinedHoldNothing
  /\ AbsentHoldsNothing
  /\ CrewStaysInSession
  /\ RetiredHoldNothing

\* What a step that deletes nothing does to row i: it stays where it is, and a
\* guest gets it only with the proof that is returned to them, or by being in G.
RowKept(G, i) ==
  /\ itemStatus[i] # "absent" =>
       itemStatus'[i] # "absent" /\ itemSession'[i] = itemSession[i]
  /\ itemStatus[i] = "absent" => assignee'[i] = assignee[i]
  /\ itemStatus'[i] = "unchecked" =>
       \/ itemStatus[i] \in {"unchecked", "absent"}
       \/ \E x \in Submissions : subItem[x] = i
  /\ assignee'[i] \in Crew =>
       \/ assignee'[i] = assignee[i]
       \/ \E x \in Submissions : subItem[x] = i /\ subBy[x] = assignee'[i]
       \/ assignee'[i] \in G /\ itemSession[i] = grantSession[assignee'[i]]

\* What it does to submission x: it stays whose and where it is, and is new only
\* by a guest in G, for a row of their session.
ProofKept(G, x) ==
  /\ subItem[x] # None => subItem'[x] = subItem[x] /\ subBy'[x] = subBy[x]
  /\ subItem'[x] = None => subBy'[x] = subBy[x]
  /\ subItem[x] = None /\ subBy'[x] \in Crew =>
       /\ subBy'[x] \in G /\ subItem'[x] \in Items
       /\ itemStatus[subItem'[x]] # "absent"
       /\ itemSession[subItem'[x]] = grantSession[subBy'[x]]

RowsKept(G) ==
  (\A i \in Items : RowKept(G, i)) /\ (\A x \in Submissions : ProofKept(G, x))

\* What is under review is proof for a row.
LEMMA ReviewableHasRow ==
  ASSUME LedgerTypeOK, NoOrphans, NEW x \in Submissions, Reviewable(x)
  PROVE  subItem[x] \in Items /\ itemStatus[subItem[x]] # "absent"
BY DEF Reviewable, Writable, Actionable, LedgerTypeOK, NoOrphans

\* Members keep the rows of guests, but for proof they return.
LEMMA MemberKeepsRow ==
  ASSUME LedgerTypeOK, NoOrphans, AbsentHoldsNothing, MemberStep, NEW j \in Items
  PROVE  RowKept({}, j)
<1> USE DEF RowKept
<1>0. (\A u \in Members : u \notin Crew) /\ None \notin Crew
  BY RolesAreDisjoint, NoneIsNoId DEF Members, Users
<1>1. ASSUME UNCHANGED <<itemSession, itemStatus, assignee>>
      PROVE  RowKept({}, j)
  BY <1>1
<1>2. ASSUME NEW s \in Sessions, NEW st \in {"draft", "active"},
             CreateSession(s, st) \/ SetSessionStatus(s, st) \/ CountRows(s)
      PROVE  RowKept({}, j)
  BY <1>1, <1>2 DEF CreateSession, SetSessionStatus, CountRows
<1>3. ASSUME NEW s \in Sessions, NEW R \in SUBSET Items, NEW m \in [R -> MatchState],
             AddRows(s, R, m)
      PROVE  RowKept({}, j)
  BY <1>3 DEF AddRows
<1>4. ASSUME NEW i \in Items, NEW u \in Members \cup {None}, Assign(i, u)
      PROVE  RowKept({}, j)
  BY <1>0, <1>4 DEF Assign, Writable, LedgerTypeOK
<1>5. ASSUME NEW i \in Items, NEW m \in {"none", "confirmed"}, ResolveMatch(i, m)
      PROVE  RowKept({}, j)
  BY <1>1, <1>5 DEF ResolveMatch
<1>6. ASSUME NEW i \in Items, DirectCheck(i)
      PROVE  RowKept({}, j)
  BY <1>0, <1>6 DEF DirectCheck, Writable, LedgerTypeOK
<1>7. ASSUME NEW x \in Submissions, NEW save \in BOOLEAN, Approve(x, save)
      PROVE  RowKept({}, j)
  BY <1>7, ReviewableHasRow DEF Approve, LedgerTypeOK
<1>8. ASSUME NEW x \in Submissions, NEW route \in ReturnRoute, Reject(x, route)
      PROVE  RowKept({}, j)
  BY <1>0, <1>8, ReviewableHasRow DEF Reject, LedgerTypeOK
<1>9. ASSUME NEW x \in Submissions, RequestMoreInfo(x) \/ RequestEvidence(x)
      PROVE  RowKept({}, j)
  BY <1>9, ReviewableHasRow DEF RequestMoreInfo, RequestEvidence, LedgerTypeOK
<1>10. ASSUME NEW u \in Members, NEW i \in Items, Claim(u, i) \/ Release(u, i)
       PROVE  RowKept({}, j)
  BY <1>0, <1>10 DEF Claim, Release, Writable, LedgerTypeOK
<1>11. ASSUME NEW u \in Members, NEW i \in Items, NEW x \in Submissions, Submit(u, i, x)
       PROVE  RowKept({}, j)
  BY <1>11 DEF Submit, Writable, LedgerTypeOK
<1>12. ASSUME NEW u \in Members, NEW x \in Submissions, Withdraw(u, x)
       PROVE  RowKept({}, j)
  BY <1>12, ReviewableHasRow DEF Withdraw, LedgerTypeOK
<1> QED
  BY <1>2, <1>3, <1>4, <1>5, <1>6, <1>7, <1>8, <1>9, <1>10, <1>11, <1>12
     DEF MemberStep, LeadRow, Review, Work

\* Only a submission writes whose proof it is.
LEMMA MemberKeepsProof ==
  ASSUME LedgerTypeOK, NoOrphans, AbsentHoldsNothing, MemberStep, NEW y \in Submissions
  PROVE  ProofKept({}, y)
<1> USE DEF ProofKept
<1>0. (\A u \in Members : u \notin Crew) /\ None \notin Items /\ None \notin Crew
  BY RolesAreDisjoint, NoneIsNoId DEF Members, Users
<1>1. ASSUME UNCHANGED <<subItem, subBy>>
      PROVE  ProofKept({}, y)
  BY <1>0, <1>1 DEF AbsentHoldsNothing
<1>2. ASSUME NEW s \in Sessions, NEW st \in {"draft", "active"},
             CreateSession(s, st) \/ SetSessionStatus(s, st) \/ CountRows(s)
      PROVE  ProofKept({}, y)
  BY <1>1, <1>2 DEF CreateSession, SetSessionStatus, CountRows, subVars
<1>3. ASSUME NEW s \in Sessions, NEW R \in SUBSET Items, NEW m \in [R -> MatchState],
             AddRows(s, R, m)
      PROVE  ProofKept({}, y)
  BY <1>1, <1>3 DEF AddRows, subVars
<1>4. ASSUME NEW i \in Items, LeadRow(i)
      PROVE  ProofKept({}, y)
  BY <1>1, <1>4 DEF LeadRow, Assign, ResolveMatch, DirectCheck, subVars
<1>5. ASSUME NEW x \in Submissions, Review(x)
      PROVE  ProofKept({}, y)
  BY <1>1, <1>5 DEF Review, Approve, Reject, RequestMoreInfo, RequestEvidence
<1>6. ASSUME NEW u \in Members, NEW i \in Items, Claim(u, i) \/ Release(u, i)
      PROVE  ProofKept({}, y)
  BY <1>1, <1>6 DEF Claim, Release, subVars
<1>7. ASSUME NEW u \in Members, NEW i \in Items, NEW x \in Submissions, Submit(u, i, x)
      PROVE  ProofKept({}, y)
  BY <1>0, <1>7 DEF Submit, LedgerTypeOK, NoOrphans, AbsentHoldsNothing
<1>8. ASSUME NEW u \in Members, NEW x \in Submissions, Withdraw(u, x)
      PROVE  ProofKept({}, y)
  BY <1>1, <1>8 DEF Withdraw
<1> QED
  BY <1>2, <1>3, <1>4, <1>5, <1>6, <1>7, <1>8 DEF MemberStep, Work

\* A guest gets rows and writes proof in the session of the pass only.
LEMMA CrewWorkKeepsRows ==
  ASSUME LedgerTypeOK, NoOrphans, AbsentHoldsNothing, NEW p \in Crew, CrewWork(p)
  PROVE  RowsKept({p})
<1>0. None \notin Items /\ None \notin Crew
  BY NoneIsNoId DEF Users
<1>1. ASSUME NEW i \in Items, OwnRow(p, i), Claim(p, i) \/ Release(p, i)
      PROVE  RowsKept({p})
  <2>1. ASSUME NEW j \in Items PROVE RowKept({p}, j)
    BY <1>0, <1>1 DEF Claim, Release, Writable, OwnRow, RowKept, LedgerTypeOK
  <2>2. ASSUME NEW y \in Submissions PROVE ProofKept({p}, y)
    BY <1>0, <1>1 DEF Claim, Release, subVars, ProofKept, AbsentHoldsNothing
  <2> QED
    BY <2>1, <2>2 DEF RowsKept
<1>2. ASSUME NEW i \in Items, NEW x \in Submissions, OwnRow(p, i), Submit(p, i, x)
      PROVE  RowsKept({p})
  <2>1. ASSUME NEW j \in Items PROVE RowKept({p}, j)
    BY <1>2 DEF Submit, Writable, RowKept, LedgerTypeOK
  <2>2. ASSUME NEW y \in Submissions PROVE ProofKept({p}, y)
    BY <1>0, <1>2 DEF Submit, Writable, OwnRow, ProofKept, LedgerTypeOK, NoOrphans,
       AbsentHoldsNothing
  <2> QED
    BY <2>1, <2>2 DEF RowsKept
<1>3. ASSUME NEW x \in Submissions, Withdraw(p, x)
      PROVE  RowsKept({p})
  <2>1. ASSUME NEW j \in Items PROVE RowKept({p}, j)
    BY <1>3, ReviewableHasRow DEF Withdraw, RowKept, LedgerTypeOK
  <2>2. ASSUME NEW y \in Submissions PROVE ProofKept({p}, y)
    BY <1>0, <1>3 DEF Withdraw, ProofKept, AbsentHoldsNothing
  <2> QED
    BY <2>1, <2>2 DEF RowsKept
<1> QED
  BY <1>1, <1>2, <1>3 DEF CrewWork

\* Steps that keep the passes as they are, and give rows only to passes in force.
LEMMA KeptRowsHold ==
  ASSUME CrewInv, NoOrphans, HoldInv, NEW G \in SUBSET Crew, RowsKept(G),
         UNCHANGED <<grant, grantSession, auth>>,
         \A p \in G : grant[p] = "consumed" /\ auth[p] # "none"
  PROVE  HoldInv'
<1> USE DEF HoldInv, NoOrphans
<1>1. FreshIsUnjoined'
  BY DEF FreshIsUnjoined
<1>2. AbsentHoldsNothing'
  BY DEF AbsentHoldsNothing, RowsKept, RowKept, ProofKept
<1>3. \A x \in Submissions : subItem[x] # None => subItem[x] \in Items
  BY DEF CrewInv, CrewTypeOK, LedgerTypeOK
<1>4. ASSUME NEW p \in Crew, NEW i \in Items, assignee'[i] = p
      PROVE  /\ itemStatus[i] # "absent" /\ itemSession[i] = grantSession[p]
             /\ assignee[i] = p \/ p \in G \/ \E x \in Submissions : subItem[x] = i /\ subBy[x] = p
  <2>1. RowKept(G, i) /\ None \notin Crew
    BY NoneIsNoId DEF RowsKept, Users
  <2>2. itemStatus[i] # "absent"
    BY <1>4, <2>1 DEF RowKept, AbsentHoldsNothing
  <2>3. \/ assignee[i] = p
        \/ \E x \in Submissions : subItem[x] = i /\ subBy[x] = p
        \/ p \in G /\ itemSession[i] = grantSession[p]
    BY <1>4, <2>1 DEF RowKept
  <2>4. ASSUME NEW x \in Submissions, subItem[x] = i, subBy[x] = p
        PROVE  itemSession[i] = grantSession[p]
    BY <2>4 DEF CrewStaysInSession
  <2> QED
    BY <2>2, <2>3, <2>4 DEF CrewStaysInSession
<1>5. ASSUME NEW p \in Crew, NEW x \in Submissions, subBy'[x] = p
      PROVE  \/ subBy[x] = p /\ subItem[x] # None /\ subItem'[x] = subItem[x]
             \/ /\ p \in G /\ subItem'[x] \in Items /\ itemStatus[subItem'[x]] # "absent"
                /\ itemSession[subItem'[x]] = grantSession[p]
  <2>1. ProofKept(G, x) /\ None \notin Crew
    BY NoneIsNoId DEF RowsKept, Users
  <2> QED
    BY <1>5, <2>1 DEF ProofKept, AbsentHoldsNothing
<1>6. UnjoinedHoldNothing'
  BY <1>4, <1>5 DEF UnjoinedHoldNothing
<1>7. CrewStaysInSession'
  <2>1. \A p \in Crew, i \in Items : assignee'[i] = p => itemSession'[i] = grantSession'[p]
    BY <1>4 DEF RowsKept, RowKept
  <2>2. ASSUME NEW p \in Crew, NEW x \in Submissions, subBy'[x] = p
        PROVE  itemSession'[subItem'[x]] = grantSession'[p]
    <3>1. CASE subBy[x] = p /\ subItem[x] # None /\ subItem'[x] = subItem[x]
      BY <1>3, <3>1 DEF RowsKept, RowKept, NoOrphans, CrewStaysInSession
    <3>2. CASE /\ subItem'[x] \in Items /\ itemStatus[subItem'[x]] # "absent"
               /\ itemSession[subItem'[x]] = grantSession[p]
      BY <3>2 DEF RowsKept, RowKept
    <3> QED
      BY <1>5, <2>2, <3>1, <3>2
  <2> QED
    BY <2>1, <2>2 DEF CrewStaysInSession
<1>8. RetiredHoldNothing'
  <2> SUFFICES ASSUME NEW p \in Crew, NEW i \in Items, grant[p] \in RetiredGrant,
                      assignee'[i] = p, itemStatus'[i] = "unchecked", ProofOf(i)' = {}
               PROVE  FALSE
    BY DEF RetiredHoldNothing, Untouched
  <2>1. \A x \in Submissions : subItem[x] # i
    BY NoneIsNoId DEF RowsKept, ProofKept, ProofOf
  <2>2. itemStatus[i] = "unchecked"
    BY <1>4, <2>1 DEF RowsKept, RowKept
  <2>3. assignee[i] = p
    BY <1>4, <2>1 DEF RetiredGrant
  <2> QED
    BY <2>1, <2>2, <2>3 DEF RetiredHoldNothing, Untouched, ProofOf
<1> QED
  BY <1>1, <1>2, <1>6, <1>7, <1>8

\* Steps that write no proof and release the claims of the passes G: whose pass
\* ends is in G or held nothing, and whose session changes held nothing.
LEMMA EndedPassesHold ==
  ASSUME HoldInv, NEW G \in SUBSET Crew, assignee' = ReleasedClaims(ClaimsOf(G)),
         UNCHANGED <<itemSession, itemStatus, subItem, subBy>>,
         \A p \in Crew :
           /\ grant'[p] \in RetiredGrant =>
                p \in G \/ grant[p] \in RetiredGrant \/ auth[p] = "none"
           /\ grant'[p] \in {"none", "pending", "deleted"} => auth'[p] = "none"
           /\ auth'[p] = "none" => auth[p] = "none"
           /\ grantSession'[p] = grantSession[p] \/ auth[p] = "none"
  PROVE  HoldInv'
<1> USE DEF HoldInv
<1>1. \A i \in Items : assignee'[i] \in {assignee[i], None}
  BY DEF ReleasedClaims
<1>2. None \notin Crew
  BY NoneIsNoId DEF Users
<1>3. FreshIsUnjoined'
  BY DEF FreshIsUnjoined
<1>4. UnjoinedHoldNothing'
  BY <1>1, <1>2 DEF UnjoinedHoldNothing
<1>5. AbsentHoldsNothing'
  BY <1>1 DEF AbsentHoldsNothing
<1>6. CrewStaysInSession'
  BY <1>1, <1>2 DEF CrewStaysInSession, UnjoinedHoldNothing
<1>7. RetiredHoldNothing'
  <2> SUFFICES ASSUME NEW p \in Crew, NEW i \in Items, grant'[p] \in RetiredGrant,
                      assignee'[i] = p, itemStatus[i] = "unchecked", ProofOf(i) = {}
               PROVE  FALSE
    BY DEF RetiredHoldNothing, Untouched, ProofOf
  <2>1. assignee[i] = p /\ auth[p] # "none"
    BY <1>1, <1>2 DEF UnjoinedHoldNothing
  <2>2. p \in G
    BY <2>1 DEF RetiredHoldNothing, Untouched
  <2>3. <<itemSession[i], assignee[i]>> \in ClaimsOf(G)
    BY <2>1, <2>2 DEF ClaimsOf, Joined, CrewStaysInSession
  <2>4. assignee'[i] = None
    BY <2>3 DEF ReleasedClaims
  <2> QED
    BY <1>2, <2>4
<1> QED
  BY <1>3, <1>4, <1>5, <1>6, <1>7

\* The rows of a deleted session go, and nobody holds them.
LEMMA DeleteHolds ==
  ASSUME CrewInv, NoOrphans, HoldInv, NEW s \in Sessions, Delete(s)
  PROVE  HoldInv'
<1> USE DEF HoldInv
<1>0. None \notin Crew /\ None \notin Items /\ None # s
  BY NoneIsNoId DEF Users
<1>1. \A i \in Items : itemSession[i] # s =>
        /\ itemSession'[i] = itemSession[i] /\ itemStatus'[i] = itemStatus[i]
        /\ assignee'[i] = assignee[i]
  BY DEF Delete, DeleteSession, RowsOf
<1>2. \A i \in Items : itemSession[i] = s => itemStatus'[i] = "absent" /\ assignee'[i] = None
  BY DEF Delete, DeleteSession, RowsOf
<1>3. \A x \in Submissions :
        \/ subItem'[x] = None /\ subBy'[x] = None
        \/ subItem[x] \notin RowsOf(s) /\ subItem'[x] = subItem[x] /\ subBy'[x] = subBy[x]
  BY DEF Delete, DeleteSession, CascadedProof
<1>4. \A x \in Submissions : subItem[x] # None => subItem[x] \in Items
  BY DEF CrewInv, CrewTypeOK, LedgerTypeOK
<1>5. \A p \in Crew :
        \/ grantSession[p] = s /\ grant'[p] = "deleted" /\ auth'[p] = "none"
        \/ /\ grantSession[p] # s /\ grantSession'[p] = grantSession[p]
           /\ grant'[p] = grant[p] /\ auth'[p] = auth[p]
  BY DEF Delete, PassesOf
<1>6. \A p \in Crew, i \in Items : assignee'[i] = p =>
        /\ assignee[i] = p /\ itemSession[i] # s /\ itemSession'[i] = itemSession[i]
        /\ grantSession[p] # s
  BY <1>0, <1>1, <1>2 DEF CrewStaysInSession
<1>7. \A p \in Crew, x \in Submissions : subBy'[x] = p =>
        /\ subBy[x] = p /\ subItem'[x] = subItem[x] /\ subItem[x] \in Items
        /\ itemSession[subItem[x]] # s
  BY <1>0, <1>3, <1>4 DEF AbsentHoldsNothing, RowsOf
<1>8. \A p \in Crew, x \in Submissions : subBy'[x] = p =>
        grantSession[p] # s /\ itemSession[subItem[x]] = grantSession[p]
  BY <1>7 DEF CrewStaysInSession
<1>9. FreshIsUnjoined'
  BY <1>5 DEF FreshIsUnjoined
<1>10. UnjoinedHoldNothing'
  BY <1>5, <1>6, <1>7, <1>8 DEF UnjoinedHoldNothing
<1>11. AbsentHoldsNothing'
  BY <1>1, <1>2, <1>3 DEF AbsentHoldsNothing
<1>12. CrewStaysInSession'
  <2>1. \A p \in Crew, i \in Items : assignee'[i] = p => itemSession'[i] = grantSession'[p]
    BY <1>5, <1>6 DEF CrewStaysInSession
  <2>2. \A p \in Crew, x \in Submissions : subBy'[x] = p =>
          itemSession'[subItem'[x]] = grantSession'[p]
    BY <1>1, <1>5, <1>7, <1>8
  <2> QED
    BY <2>1, <2>2 DEF CrewStaysInSession
<1>13. RetiredHoldNothing'
  <2> SUFFICES ASSUME NEW p \in Crew, NEW i \in Items, grant'[p] \in RetiredGrant,
                      assignee'[i] = p, itemStatus'[i] = "unchecked", ProofOf(i)' = {}
               PROVE  FALSE
    BY DEF RetiredHoldNothing, Untouched
  <2>1. assignee[i] = p /\ itemSession[i] # s /\ itemStatus[i] = "unchecked"
    BY <1>1, <1>6
  <2>2. \A x \in Submissions : subItem[x] = i => subItem'[x] = i
    BY <2>1 DEF Delete, DeleteSession, CascadedProof, RowsOf
  <2>3. ProofOf(i) = {}
    BY <2>2 DEF ProofOf
  <2>4. grant[p] \in RetiredGrant
    BY <1>5 DEF RetiredGrant
  <2> QED
    BY <2>1, <2>3, <2>4 DEF RetiredHoldNothing, Untouched
<1> QED
  BY <1>9, <1>10, <1>11, <1>12, <1>13

\* No step of the composition disturbs what is held.
LEMMA StepHold ==
  ASSUME CrewInv, NoOrphans, HoldInv, [CrewNext]_crewVars
  PROVE  HoldInv'
<1>0. LedgerTypeOK /\ AbsentHoldsNothing
  BY DEF CrewInv, CrewTypeOK, HoldInv
<1>1. CASE MemberStep
  <2>1. RowsKept({})
    BY <1>0, <1>1, MemberKeepsRow, MemberKeepsProof DEF RowsKept
  <2>2. UNCHANGED <<grant, grantSession, auth>>
    BY <1>1 DEF MemberStep, passVars
  <2> QED
    BY <2>1, <2>2, KeptRowsHold
<1>2. ASSUME NEW s \in Sessions, Close(s)
      PROVE  HoldInv'
  <2>1. ClaimsOf(PassesOf(s)) = {s} \X JoinedCrew(s)
    BY DEF ClaimsOf, JoinedCrew, PassesOf
  <2>2. /\ assignee' = ReleasedClaims(ClaimsOf(PassesOf(s)))
        /\ UNCHANGED <<itemSession, itemStatus, subItem, subBy, grantSession>>
    BY <1>2, <2>1 DEF Close, CloseSession, subVars
  <2>3. \A p \in Crew :
          /\ grant'[p] \in RetiredGrant => p \in PassesOf(s) \/ grant[p] \in RetiredGrant
          /\ grant'[p] \in {"none", "pending", "deleted"} => auth'[p] = "none"
          /\ auth'[p] = "none" => auth[p] = "none"
    BY <1>2 DEF Close, EndGrants, RevokeAuth, HoldInv, FreshIsUnjoined, RetiredGrant, OpenGrant
  <2>4. PassesOf(s) \in SUBSET Crew
    BY DEF PassesOf
  <2> QED
    BY <2>2, <2>3, <2>4, EndedPassesHold
<1>3. ASSUME NEW s \in Sessions, Delete(s)
      PROVE  HoldInv'
  BY <1>3, DeleteHolds
<1>4. ASSUME NEW P, ReleaseClaims(P)
      PROVE  assignee' = ReleasedClaims(P) /\ UNCHANGED <<itemSession, itemStatus, subItem, subBy>>
  BY <1>4 DEF ReleaseClaims, subVars
<1>5. Lapsed \in SUBSET Crew /\ \A p \in Lapsed : grant[p] \in OpenGrant /\ lapsed[p]
  BY DEF Lapsed
<1> USE DEF HoldInv, FreshIsUnjoined, RetiredGrant, OpenGrant
<1>6. CASE ListCrew
  <2>1. \A p \in Crew :
          /\ grant'[p] \in RetiredGrant => p \in Lapsed \/ grant[p] \in RetiredGrant
          /\ grant'[p] \in {"none", "pending", "deleted"} => auth'[p] = "none"
          /\ auth'[p] = "none" => auth[p] = "none"
    BY <1>6 DEF ListCrew, EndGrants, RevokeAuth
  <2> QED
    BY <1>4, <1>5, <1>6, <2>1, EndedPassesHold DEF ListCrew
<1>7. ASSUME NEW q \in Crew, NEW s \in Sessions, CreateGrant(q, s)
      PROVE  HoldInv'
  <2>1. \A p \in Crew :
          /\ grant'[p] \in RetiredGrant => p \in Lapsed \/ grant[p] \in RetiredGrant
          /\ grant'[p] \in {"none", "pending", "deleted"} => auth'[p] = "none"
          /\ auth'[p] = "none" => auth[p] = "none"
          /\ grantSession'[p] = grantSession[p] \/ auth[p] = "none"
    BY <1>7 DEF CreateGrant, EndGrants, RevokeAuth, CrewInv, CrewTypeOK
  <2> QED
    BY <1>4, <1>5, <1>7, <2>1, EndedPassesHold DEF CreateGrant
<1>8. ASSUME NEW q \in Crew, Consume(q) \/ ExhaustAttempts(q)
      PROVE  HoldInv'
  <2>1. \A p \in Crew :
          /\ grant'[p] \in RetiredGrant =>
               p \in Lapsed \/ grant[p] \in RetiredGrant \/ auth[p] = "none"
          /\ grant'[p] \in {"none", "pending", "deleted"} => auth'[p] = "none"
          /\ auth'[p] = "none" => auth[p] = "none"
    BY <1>8 DEF Consume, ExhaustAttempts, Enterable, EndGrants, RevokeAuth, CrewInv, CrewTypeOK
  <2> QED
    BY <1>4, <1>5, <1>8, <2>1, EndedPassesHold DEF Consume, ExhaustAttempts
<1>9. ASSUME NEW q \in Crew, Revoke(q) \/ Logout(q) \/ RetireDetectedExpired(q)
      PROVE  HoldInv'
  <2>1. \A p \in Crew :
          /\ grant'[p] \in RetiredGrant => p \in {q} \/ grant[p] \in RetiredGrant
          /\ grant'[p] \in {"none", "pending", "deleted"} => auth'[p] = "none"
          /\ auth'[p] = "none" => auth[p] = "none"
    BY <1>9 DEF Revoke, Logout, RetireDetectedExpired, EndGrants, RevokeAuth, CrewInv, CrewTypeOK
  <2> QED
    BY <1>4, <1>9, <2>1, EndedPassesHold DEF Revoke, Logout, RetireDetectedExpired
<1>10. ASSUME NEW q \in Crew, Authenticate(q) \/ Lapse(q) \/ CrewRefused(q)
       PROVE  HoldInv'
  <2>1. UNCHANGED <<ledgerVars, grant, grantSession, auth>>
    BY <1>10 DEF Authenticate, Lapse, CrewRefused
  <2> QED
    BY <2>1 DEF ledgerVars, subVars, UnjoinedHoldNothing, AbsentHoldsNothing,
       CrewStaysInSession, RetiredHoldNothing, Untouched, ProofOf
<1>11. ASSUME NEW q \in Crew, CrewWork(q)
       PROVE  HoldInv'
  <2>1. RowsKept({q}) /\ UNCHANGED <<grant, grantSession, auth>>
    BY <1>0, <1>11, CrewWorkKeepsRows DEF CrewWork
  <2>2. grant[q] = "consumed" /\ auth[q] # "none"
    BY <1>11 DEF CrewWork, LockActiveCrewAccess, PassLive
  <2> QED
    BY <2>1, <2>2, KeptRowsHold
<1>12. CASE UNCHANGED crewVars
  BY <1>12 DEF crewVars, passVars, ledgerVars, subVars, UnjoinedHoldNothing, AbsentHoldsNothing,
     CrewStaysInSession, RetiredHoldNothing, Untouched, ProofOf
<1> QED
  BY <1>1, <1>2, <1>3, <1>6, <1>7, <1>8, <1>9, <1>10, <1>11, <1>12 DEF CrewNext, PassStep

LEMMA InitHold == CrewInit => HoldInv
<1>1. None \notin Crew
  BY NoneIsNoId DEF Users
<1> QED
  BY <1>1 DEF CrewInit, LedgerInit, HoldInv, FreshIsUnjoined, UnjoinedHoldNothing,
     AbsentHoldsNothing, CrewStaysInSession, RetiredHoldNothing, RetiredGrant, Untouched

\* What is held is held by whom the pass allows, in every reachable state.
THEOREM HoldInvariant == CrewSpec => []HoldInv
<1>1. LedgerInv => NoOrphans
  BY DEF LedgerInv
<1> QED
  BY <1>1, InitHold, StepHold, CrewInvariant, CrewKeepsLedgerInv, PTL DEF CrewSpec

\* A pass that is over holds no untouched row, and no guest leaves a trace outside
\* the session of the pass, for any number of passes.
THEOREM PassesLeaveNothingBehind == CrewSpec => []PassesLeaveNothing
<1>1. CrewInv /\ HoldInv => PassesLeaveNothing
  BY DEF CrewInv, HoldInv, PassesLeaveNothing
<1> QED
  BY <1>1, CrewInvariant, HoldInvariant, PTL

-----------------------------------------------------------------------------
(***************************************************************************)
(* What comes late.                                                        *)
(***************************************************************************)

\* Whose pass is not in force writes no proof, takes none back, and gets a row
\* only with proof of theirs that is returned.
LEMMA StepDeadPasses ==
  ASSUME CrewInv, NoOrphans, [CrewNext]_crewVars, NEW p \in Crew, ~PassLive(p)
  PROVE  /\ \A x \in Submissions :
              /\ subBy'[x] = p => subBy[x] = p
              /\ subBy[x] = p /\ subState'[x] = "withdrawn" => subState[x] = "withdrawn"
         /\ \A i \in Items : assignee'[i] = p =>
              \/ assignee[i] = p
              \/ \E x \in ActionableOn(i) : subBy[x] = p
<1> DEFINE Acts == \/ \E x \in Submissions :
                       \/ subBy'[x] = p /\ subBy[x] # p
                       \/ subBy[x] = p /\ subState'[x] = "withdrawn" /\ subState[x] # "withdrawn"
                  \/ \E i \in Items : /\ assignee'[i] = p /\ assignee[i] # p
                                       /\ \A x \in ActionableOn(i) : subBy[x] # p
<1> SUFFICES ~Acts
  OBVIOUS
<1> USE DEF CrewInv, CrewTypeOK, LedgerTypeOK
<1>0. p \notin Members /\ p # None
  BY RolesAreDisjoint, NoneIsNoId DEF Members, Users
<1>1. ASSUME UNCHANGED <<subBy, subState>>, \A i \in Items : assignee'[i] \in {assignee[i], None}
      PROVE  ~Acts
  BY <1>0, <1>1
<1>2. ASSUME NEW P, ReleaseClaims(P)
      PROVE  ~Acts
  BY <1>1, <1>2 DEF ReleaseClaims, ReleasedClaims, subVars
<1>3. ASSUME NEW s \in Sessions, NEW U, CloseSession(s, U)
      PROVE  ~Acts
  BY <1>1, <1>3 DEF CloseSession, ReleasedClaims, subVars
<1>4. ASSUME NEW s \in Sessions, DeleteSession(s)
      PROVE  ~Acts
  BY <1>0, <1>4 DEF DeleteSession
<1>5. ASSUME UNCHANGED ledgerVars
      PROVE  ~Acts
  BY <1>1, <1>5 DEF ledgerVars, subVars
<1>6. ASSUME NEW s \in Sessions, NEW st \in {"draft", "active"},
             CreateSession(s, st) \/ SetSessionStatus(s, st) \/ CountRows(s)
      PROVE  ~Acts
  BY <1>1, <1>6 DEF CreateSession, SetSessionStatus, CountRows, subVars
<1>7. ASSUME NEW s \in Sessions, NEW R \in SUBSET Items, NEW m \in [R -> MatchState],
             AddRows(s, R, m)
      PROVE  ~Acts
  BY <1>1, <1>7 DEF AddRows, subVars
<1>8. ASSUME NEW i \in Items, NEW u \in Members \cup {None}, Assign(i, u)
      PROVE  ~Acts
  BY <1>0, <1>8 DEF Assign, subVars
<1>9. ASSUME NEW i \in Items, NEW m \in {"none", "confirmed"}, ResolveMatch(i, m)
      PROVE  ~Acts
  BY <1>1, <1>9 DEF ResolveMatch, subVars
<1>10. ASSUME NEW i \in Items, DirectCheck(i)
       PROVE  ~Acts
  BY <1>0, <1>10 DEF DirectCheck
<1>11. ASSUME NEW x \in Submissions, Reviewable(x)
       PROVE  x \in ActionableOn(subItem[x]) /\ subItem[x] \in Items
  BY <1>11 DEF Reviewable, ActionableOn, ProofOf, NoOrphans, Actionable
<1>12. ASSUME NEW x \in Submissions, NEW save \in BOOLEAN, Approve(x, save)
       PROVE  ~Acts
  BY <1>12 DEF Approve, Decide
<1>13. ASSUME NEW x \in Submissions, NEW route \in ReturnRoute, Reject(x, route)
       PROVE  ~Acts
  BY <1>0, <1>11, <1>13 DEF Reject, Decide
<1>14. ASSUME NEW x \in Submissions, RequestMoreInfo(x) \/ RequestEvidence(x)
       PROVE  ~Acts
  BY <1>11, <1>14 DEF RequestMoreInfo, RequestEvidence
<1>15. ASSUME NEW u \in Users, u # p, NEW i \in Items, Claim(u, i) \/ Release(u, i)
       PROVE  ~Acts
  BY <1>0, <1>15 DEF Claim, Release, subVars
<1>16. ASSUME NEW u \in Users, u # p, NEW i \in Items, NEW x \in Submissions, Submit(u, i, x)
       PROVE  ~Acts
  BY <1>16 DEF Submit
<1>17. ASSUME NEW u \in Users, u # p, NEW x \in Submissions, Withdraw(u, x)
       PROVE  ~Acts
  BY <1>17 DEF Withdraw
<1> HIDE DEF Acts
<1>18. CASE MemberStep
  <2>1. \A u \in Members : u \in Users /\ u # p
    BY <1>0 DEF Users, Members
  <2> QED
    BY <1>6, <1>7, <1>8, <1>9, <1>10, <1>12, <1>13, <1>14, <1>15, <1>16, <1>17, <1>18, <2>1
       DEF MemberStep, LeadRow, Review, Work
<1>19. ASSUME NEW q \in Crew, CrewWork(q)
       PROVE  ~Acts
  <2>1. q # p /\ q \in Users
    BY <1>19 DEF CrewWork, LockActiveCrewAccess, Users
  <2> QED
    BY <1>15, <1>16, <1>17, <1>19, <2>1 DEF CrewWork
<1>20. ASSUME NEW q \in Crew, PassStep(q)
       PROVE  ~Acts
  BY <1>2, <1>5, <1>19, <1>20 DEF PassStep, CreateGrant, Consume, ExhaustAttempts, Revoke,
     Logout, RetireDetectedExpired, Authenticate, Lapse, CrewRefused
<1> QED
  BY <1>2, <1>3, <1>4, <1>5, <1>18, <1>20 DEF CrewNext, Close, Delete, ListCrew, crewVars

\* A late release finds nothing in a closed session: its passes are over, and who
\* holds an untouched row there has none that is.
LEMMA StepClosedClaims ==
  ASSUME CrewInv, NoOrphans, HoldInv, [CrewNext]_crewVars, NEW i \in Items,
         itemSession[i] # None, sessStatus[itemSession[i]] = "closed",
         sessStatus'[itemSession[i]] = "closed"
  PROVE  assignee'[i] = assignee[i]
<1> USE DEF CrewInv, CrewTypeOK, LedgerTypeOK
<1>0. ~Writable(i) /\ itemSession[i] \in Sessions /\ itemStatus[i] # "absent"
  BY DEF Writable, NoOrphans
<1>1. ASSUME NEW G \in SUBSET Crew, ReleaseClaims(ClaimsOf(G))
      PROVE  assignee'[i] = assignee[i]
  <2> SUFFICES ASSUME <<itemSession[i], assignee[i]>> \in ClaimsOf(G),
                      itemStatus[i] = "unchecked", ProofOf(i) = {}
               PROVE  FALSE
    BY <1>1 DEF ReleaseClaims, ReleasedClaims
  <2>1. PICK q \in Crew : assignee[i] = q /\ grantSession[q] = itemSession[i] /\ auth[q] # "none"
    BY DEF ClaimsOf, Joined
  <2>2. grant[q] \notin OpenGrant
    BY <2>1 DEF ClosedHasNoPasses
  <2>3. grant[q] \notin RetiredGrant
    BY <2>1 DEF HoldInv, RetiredHoldNothing, Untouched
  <2>4. grant[q] \notin {"none", "pending", "deleted"}
    BY <2>1 DEF HoldInv, FreshIsUnjoined
  <2> QED
    BY <2>2, <2>3, <2>4 DEF GrantStatus, OpenGrant, RetiredGrant
<1>2. ASSUME NEW s \in Sessions, Close(s)
      PROVE  assignee'[i] = assignee[i]
  BY <1>2 DEF Close, CloseSession, ReleasedClaims
<1>3. ASSUME NEW s \in Sessions, Delete(s)
      PROVE  assignee'[i] = assignee[i]
  BY <1>3 DEF Delete, DeleteSession, RowsOf
<1>4. ASSUME UNCHANGED assignee
      PROVE  assignee'[i] = assignee[i]
  BY <1>4
<1>5. ASSUME NEW s \in Sessions, NEW st \in {"draft", "active"},
             CreateSession(s, st) \/ SetSessionStatus(s, st) \/ CountRows(s)
      PROVE  UNCHANGED assignee
  BY <1>5 DEF CreateSession, SetSessionStatus, CountRows
<1>6. ASSUME NEW s \in Sessions, NEW R \in SUBSET Items, NEW m \in [R -> MatchState],
             AddRows(s, R, m)
      PROVE  UNCHANGED assignee
  BY <1>6 DEF AddRows
<1>7. ASSUME NEW j \in Items, LeadRow(j)
      PROVE  assignee'[i] = assignee[i]
  BY <1>0, <1>7 DEF LeadRow, Assign, ResolveMatch, DirectCheck
<1>8. ASSUME NEW x \in Submissions, Reviewable(x)
      PROVE  subItem[x] # i /\ subItem[x] \in Items
  BY <1>0, <1>8 DEF Reviewable, NoOrphans, Actionable
<1>9. ASSUME NEW x \in Submissions, Review(x)
      PROVE  assignee'[i] = assignee[i]
  BY <1>8, <1>9 DEF Review, Approve, Reject, RequestMoreInfo, RequestEvidence
<1>10. ASSUME NEW u, Work(u)
       PROVE  assignee'[i] = assignee[i]
  BY <1>0, <1>10 DEF Work, Claim, Release, Submit, Withdraw
<1>11. CASE MemberStep
  BY <1>5, <1>6, <1>7, <1>9, <1>10, <1>11 DEF MemberStep
<1>12. ASSUME NEW q \in Crew, PassStep(q)
       PROVE  assignee'[i] = assignee[i]
  <2>1. Lapsed \in SUBSET Crew /\ {q} \in SUBSET Crew
    BY DEF Lapsed
  <2>2. CASE CrewWork(q)
    <3>1. Work(q)
      BY <2>2 DEF CrewWork, Work
    <3> QED
      BY <1>10, <3>1
  <2>3. CASE Authenticate(q) \/ Lapse(q) \/ CrewRefused(q)
    BY <2>3 DEF Authenticate, Lapse, CrewRefused, ledgerVars
  <2> QED
    BY <1>1, <1>12, <2>1, <2>2, <2>3 DEF PassStep, CreateGrant, Consume, ExhaustAttempts,
       Revoke, Logout, RetireDetectedExpired
<1>13. CASE ListCrew
  BY <1>1, <1>13 DEF ListCrew, Lapsed
<1>14. CASE UNCHANGED crewVars
  BY <1>14 DEF crewVars, ledgerVars
<1> QED
  BY <1>2, <1>3, <1>11, <1>12, <1>13, <1>14 DEF CrewNext

\* A request that was authenticated while its pass was good, and the end of a pass
\* whose session is closed, change nothing.
THEOREM LateChangesNothing == CrewSpec => LatePassesChangeNothing
<1>1. LedgerInv => NoOrphans
  BY DEF LedgerInv
<1>2. ASSUME CrewInv, NoOrphans, [CrewNext]_crewVars
      PROVE  \A p \in Crew : ~PassLive(p) =>
               /\ \A x \in Submissions :
                    /\ subBy'[x] = p => subBy[x] = p
                    /\ subBy[x] = p /\ subState'[x] = "withdrawn" => subState[x] = "withdrawn"
               /\ \A i \in Items : assignee'[i] = p =>
                    \/ assignee[i] = p
                    \/ \E x \in ActionableOn(i) : subBy[x] = p
  BY <1>2, StepDeadPasses
<1>3. ASSUME CrewInv, NoOrphans, HoldInv, [CrewNext]_crewVars
      PROVE  \A i \in Items : itemSession[i] # None =>
               LET s == itemSession[i]
               IN sessStatus[s] = "closed" /\ sessStatus'[s] = "closed"
                    => assignee'[i] = assignee[i]
  BY <1>3, StepClosedClaims
<1> QED
  BY <1>1, <1>2, <1>3, CrewInvariant, CrewKeepsLedgerInv, HoldInvariant, PTL
     DEF CrewSpec, LatePassesChangeNothing, DeadPassesActNoMore, ClosedClaimsFrozen
=============================================================================
