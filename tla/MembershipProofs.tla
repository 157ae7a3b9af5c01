-------------------------- MODULE MembershipProofs --------------------------
(***************************************************************************)
(* Proofs about memberships, for any finite set of people, any set of      *)
(* invitations and any bound on the requests.                              *)
(***************************************************************************)
EXTENDS Membership, FiniteSetTheorems, TLAPS

\* The kinds of record, named so that a proof need not open them.
MemberSet == [status: {"none", "invited", "active", "disabled"}, role: Roles]
JobSet == [status: {"none", "pending", "running", "succeeded", "failed"},
           role: Roles, state: {"active", "disabled"},
           step: {"identity", "groups", "finish"},
           error: {"none", "ambiguous", "other"}, again: BOOLEAN]
InviteSet == [status: {"none", "pending", "accepted", "revoked", "expired"},
              on: Users \cup {None}, role: Roles, late: BOOLEAN]
ReqSet == [at: {"idle", "ready", "checked", "locked", "counted"},
           on: Users \cup {None}, role: Roles, want: {"keep", "active", "disabled"}]
Kinds ==
  /\ member \in [Users -> MemberSet]
  /\ linked \subseteq Users
  /\ job \in [Users -> JobSet]
  /\ grouped \subseteq Users
  /\ invite \in [Invites -> InviteSet]
  /\ req \in [Leaders -> ReqSet]
  /\ moves \in 0..MaxMoves

\* Who is named by a request past its check, or by an invitation, is a person.
NamesExist ==
  /\ \A a \in Leaders :
       req[a].at \in {"checked", "locked", "counted"} => req[a].on \in Users
  /\ \A i \in Invites : invite[i].status # "none" => invite[i].on \in Users

\* The kinds say what the type invariant says.
LEMMA KindsAreTypes == MemberTypeOK <=> Kinds
BY DEF MemberTypeOK, Kinds, MemberSet, JobSet, InviteSet, ReqSet

\* The values the handlers write are of their kinds.
LEMMA Values ==
  /\ NoMember \in MemberSet
  /\ NoJob \in JobSet
  /\ NoInvite \in InviteSet
  /\ Idle \in ReqSet
BY DEF MemberSet, JobSet, InviteSet, ReqSet, NoMember, NoJob, NoInvite, Idle, Roles

\* A job that is queued, told to look again, or started over is a job.
LEMMA QueuedIsJob ==
  ASSUME Kinds, NEW u \in Users, NEW r \in Roles, NEW state \in {"active", "disabled"}
  PROVE  /\ Enqueued(u, r, state) \in JobSet
         /\ Enqueued(u, r, state).status \in {"pending", "running"}
         /\ Restarted(u) \in JobSet
         /\ Restarted(u).status = "pending"
<1>1. job[u] \in JobSet /\ member[u] \in MemberSet
  BY DEF Kinds
<1>2. [job[u] EXCEPT !.again = TRUE] \in JobSet
  BY <1>1 DEF JobSet
<1>3. [NoJob EXCEPT !.status = "pending", !.role = r, !.state = state] \in JobSet
  BY DEF JobSet, NoJob
<1>4. Restarted(u) \in JobSet /\ Restarted(u).status = "pending"
  BY <1>1 DEF Restarted, JobSet, NoJob, MemberSet
<1>5. /\ [NoJob EXCEPT !.status = "pending", !.role = r, !.state = state].status = "pending"
      /\ job[u].status = "running" => [job[u] EXCEPT !.again = TRUE].status = "running"
  BY <1>1 DEF JobSet, NoJob
<1> QED
  BY <1>2, <1>3, <1>4, <1>5 DEF Enqueued

\* What becomes of an invitation that is late is an invitation.
LEMMA ExpiredIsInvite ==
  ASSUME Kinds, NEW i \in Invites
  PROVE  /\ Expired(i) \in InviteSet
         /\ Expired(i).on = invite[i].on
         /\ (Expired(i).status = "none") <=> (invite[i].status = "none")
         /\ Expired(i).status \in {"accepted", "revoked"} => Expired(i).status = invite[i].status
         /\ invite[i].status \in {"accepted", "revoked"} => Expired(i) = invite[i]
BY DEF Kinds, Expired, InviteSet

\* Every step writes values of the right kind and names people who exist.
LEMMA StepKinds ==
  ASSUME MaxMoves \in Nat, Kinds, NamesExist, [Next]_vars
  PROVE  Kinds' /\ NamesExist'
<1>0. Idle \in ReqSet /\ Idle.at = "idle" /\ NoMember \in MemberSet /\ NoJob \in JobSet
  BY Values DEF Idle
<1>1. ASSUME NEW a \in Leaders, Authorise(a)
      PROVE  Kinds' /\ NamesExist'
  <2>1. [req[a] EXCEPT !.at = "ready"] \in ReqSet
    BY DEF Kinds, ReqSet
  <2>2. req' \in [Leaders -> ReqSet] /\ moves' \in 0..MaxMoves
    BY <1>1, <2>1 DEF Authorise, Kinds
  <2>3. NamesExist'
    BY <1>1 DEF Authorise, Kinds, NamesExist, ReqSet
  <2> QED
    BY <1>1, <2>2, <2>3 DEF Authorise, Kinds
<1>2. ASSUME NEW a \in Leaders, PatchCount(a)
      PROVE  Kinds' /\ NamesExist'
  <2>1. [req[a] EXCEPT !.at = "counted"] \in ReqSet
    BY DEF Kinds, ReqSet
  <2>2. req' \in [Leaders -> ReqSet]
    BY <1>0, <1>2, <2>1 DEF PatchCount, Kinds
  <2>3. NamesExist'
    BY <1>0, <1>2 DEF PatchCount, Kinds, NamesExist, ReqSet
  <2> QED
    BY <1>2, <2>2, <2>3 DEF PatchCount, Kinds
<1>3. ASSUME NEW a \in Leaders, PatchWrite(a)
      PROVE  Kinds' /\ NamesExist'
  <2> DEFINE u == req[a].on
             m == [role |-> req[a].role, status |-> Transition(member[u].status, req[a].want)]
             s == StateFor(member[u].status, req[a].want)
  <2>1. u \in Users /\ req[a] \in ReqSet
    BY <1>3 DEF PatchWrite, Kinds, NamesExist
  <2>2. m \in MemberSet /\ s \in {"active", "disabled"}
    BY <2>1 DEF Kinds, ReqSet, MemberSet, Transition, StateFor
  <2>3. member' \in [Users -> MemberSet]
    BY <1>3, <2>1, <2>2 DEF PatchWrite, Kinds
  <2>4. Enqueued(u, req[a].role, s) \in JobSet
    <3>1. req[a].role \in Roles
      BY <2>1 DEF ReqSet
    <3> QED
      BY <2>1, <2>2, <3>1, QueuedIsJob
  <2>5. job' \in [Users -> JobSet]
    BY <1>3, <2>1, <2>4 DEF PatchWrite, Kinds
  <2>6. req' \in [Leaders -> ReqSet] /\ NamesExist'
    BY <1>0, <1>3 DEF PatchWrite, Done, Kinds, NamesExist
  <2> QED
    BY <1>3, <2>3, <2>5, <2>6 DEF PatchWrite, Done, Kinds
<1>4. ASSUME NEW a \in Leaders, ListInvites(a)
      PROVE  Kinds' /\ NamesExist'
  <2>1. invite' \in [Invites -> InviteSet]
    BY <1>4, ExpiredIsInvite DEF ListInvites
  <2>2. req' \in [Leaders -> ReqSet]
    BY <1>0, <1>4 DEF ListInvites, Done, Kinds
  <2>3. NamesExist'
    BY <1>0, <1>4, ExpiredIsInvite DEF ListInvites, Done, Kinds, NamesExist
  <2> QED
    BY <1>4, <2>1, <2>2, <2>3 DEF ListInvites, Done, Kinds
<1>5. ASSUME NEW a \in Leaders, NEW bound \in BOOLEAN, Invite(a, bound)
      PROVE  Kinds' /\ NamesExist'
  <2> DEFINE u == req[a].on
  <2>1. u \in Users /\ req[a].role \in Roles
    BY <1>5 DEF Invite, Kinds, NamesExist, ReqSet
  <2>2. [status |-> "invited", role |-> req[a].role] \in MemberSet
    BY <2>1 DEF MemberSet
  <2>3. member' \in [Users -> MemberSet]
    BY <1>5, <2>1, <2>2 DEF Invite, Kinds
  <2>4. Enqueued(u, req[a].role, "active") \in JobSet
    BY <2>1, QueuedIsJob
  <2>5. job' \in [Users -> JobSet] /\ linked' \subseteq Users
    BY <1>5, <2>1, <2>4 DEF Invite, Kinds
  <2>6. ASSUME NEW i \in Invites
        PROVE  /\ [invite[i] EXCEPT !.status = "revoked"] \in InviteSet
               /\ [invite[i] EXCEPT !.status = "revoked"].on = invite[i].on
    BY DEF Kinds, InviteSet
  <2>7. invite' \in [Invites -> InviteSet]
    BY <1>5, <2>6 DEF Invite, Kinds
  <2>8. ASSUME NEW i \in Invites, invite'[i].status # "none"
        PROVE  invite'[i].on \in Users
    BY <1>5, <2>6, <2>8 DEF Invite, Kinds, NamesExist
  <2>9. req' \in [Leaders -> ReqSet]
    BY <1>0, <1>5 DEF Invite, Done, Kinds
  <2>10. NamesExist'
    BY <1>0, <1>5, <2>8 DEF Invite, Done, Kinds, NamesExist
  <2> QED
    BY <1>5, <2>3, <2>5, <2>7, <2>9, <2>10 DEF Invite, Done, Kinds
<1>6. ASSUME NEW a \in Leaders, NEW u \in Users, Cancel(a, u)
      PROVE  Kinds' /\ NamesExist'
  <2>1. /\ member' \in [Users -> MemberSet] /\ job' \in [Users -> JobSet]
        /\ req' \in [Leaders -> ReqSet]
    BY <1>0, <1>6 DEF Cancel, Done, Kinds
  <2>2. NamesExist'
    BY <1>0, <1>6 DEF Cancel, Done, Kinds, NamesExist
  <2> QED
    BY <1>6, <2>1, <2>2 DEF Cancel, Done, Kinds
<1>7. ASSUME NEW u \in Users, NEW why \in {"none", "ambiguous", "other"}
      PROVE  /\ [job[u] EXCEPT !.status = "pending", !.step = "identity", !.error = "none"] \in JobSet
             /\ [job[u] EXCEPT !.status = "failed", !.error = why] \in JobSet
             /\ [job[u] EXCEPT !.status = "running"] \in JobSet
             /\ [job[u] EXCEPT !.status = "succeeded"] \in JobSet
             /\ [job[u] EXCEPT !.step = "groups"] \in JobSet
             /\ [job[u] EXCEPT !.step = "finish"] \in JobSet
  BY DEF Kinds, JobSet
<1>8. ASSUME NEW u \in Users PROVE Retried(u) \in [Users -> JobSet]
  BY <1>7, <1>8 DEF Retried, Kinds
<1>9. ASSUME NEW a \in Leaders, NEW u \in Users, Retry(a, u)
      PROVE  Kinds' /\ NamesExist'
  <2>1. job' \in [Users -> JobSet] /\ req' \in [Leaders -> ReqSet]
    BY <1>0, <1>8, <1>9 DEF Retry, Done, Kinds
  <2>2. NamesExist'
    BY <1>0, <1>9 DEF Retry, Done, Kinds, NamesExist
  <2> QED
    BY <1>9, <2>1, <2>2 DEF Retry, Done, Kinds
<1>10. ASSUME NEW a \in Leaders, NEW u \in Users, NEW r \in Roles, InviteCheck(a, u, r)
       PROVE  Kinds' /\ NamesExist'
  <2> DEFINE q == [Idle EXCEPT !.at = "checked", !.on = u, !.role = r]
  <2>1. q \in ReqSet /\ q.on = u
    BY DEF ReqSet, Idle
  <2>2. req' = [req EXCEPT ![a] = q]
    BY <1>10 DEF InviteCheck
  <2>3. req' \in [Leaders -> ReqSet]
    BY <2>1, <2>2 DEF Kinds
  <2>4. NamesExist'
    BY <1>10, <2>1, <2>2 DEF InviteCheck, Kinds, NamesExist
  <2> QED
    BY <1>10, <2>3, <2>4 DEF InviteCheck, Kinds
<1>11. ASSUME NEW a \in Leaders, NEW u \in Users, NEW r \in Roles,
              NEW want \in {"keep", "active", "disabled"}, PatchLock(a, u, r, want)
       PROVE  Kinds' /\ NamesExist'
  <2> DEFINE q == [at |-> "locked", on |-> u, role |-> r, want |-> want]
  <2>1. q \in ReqSet /\ q.on = u
    BY DEF ReqSet
  <2>2. req' = [req EXCEPT ![a] = q]
    BY <1>11 DEF PatchLock
  <2>3. req' \in [Leaders -> ReqSet]
    BY <2>1, <2>2 DEF Kinds
  <2>4. NamesExist'
    BY <1>11, <2>1, <2>2 DEF PatchLock, Kinds, NamesExist
  <2> QED
    BY <1>11, <2>3, <2>4 DEF PatchLock, Kinds
<1>12. ASSUME NEW a \in Leaders, NEW i \in Invites, NEW u \in Users, NEW r \in Roles,
              CreateInvite(a, i, u, r)
       PROVE  Kinds' /\ NamesExist'
  <2> DEFINE p == [status |-> "pending", on |-> u, role |-> r, late |-> FALSE]
             m == [status |-> "invited", role |-> r]
  <2>1. p \in InviteSet /\ p.on = u /\ m \in MemberSet
    BY DEF InviteSet, MemberSet
  <2>2. invite' = [invite EXCEPT ![i] = p] /\ member' = [member EXCEPT ![u] = m]
    BY <1>12 DEF CreateInvite
  <2>3. /\ invite' \in [Invites -> InviteSet] /\ member' \in [Users -> MemberSet]
        /\ req' \in [Leaders -> ReqSet]
    BY <1>0, <1>12, <2>1, <2>2 DEF CreateInvite, Done, Kinds
  <2>4. NamesExist'
    BY <1>0, <1>12, <2>1, <2>2 DEF CreateInvite, Done, Kinds, NamesExist
  <2> QED
    BY <1>12, <2>3, <2>4 DEF CreateInvite, Done, Kinds
<1>13. ASSUME NEW i \in Invites
       PROVE  /\ [invite[i] EXCEPT !.status = "pending", !.late = FALSE] \in InviteSet
              /\ [invite[i] EXCEPT !.status = "pending", !.late = FALSE].on = invite[i].on
              /\ [invite[i] EXCEPT !.status = "revoked"] \in InviteSet
              /\ [invite[i] EXCEPT !.status = "revoked"].on = invite[i].on
              /\ [invite[i] EXCEPT !.status = "accepted"] \in InviteSet
              /\ [invite[i] EXCEPT !.late = TRUE] \in InviteSet
              /\ Open(i) => invite[i].on \in Users
  BY ExpiredIsInvite DEF Kinds, InviteSet, NamesExist, Open
<1>14. ASSUME NEW a \in Leaders, NEW i \in Invites, ResendInvite(a, i)
       PROVE  Kinds' /\ NamesExist'
  <2> DEFINE p == [invite[i] EXCEPT !.status = "pending", !.late = FALSE]
  <2>1. /\ p \in InviteSet /\ p.on \in Users
        /\ invite' = [k \in Invites |-> IF k = i THEN p ELSE Expired(k)]
    BY <1>13, <1>14 DEF ResendInvite
  <2>2. invite' \in [Invites -> InviteSet] /\ req' \in [Leaders -> ReqSet]
    BY <1>0, <1>14, <2>1, ExpiredIsInvite DEF ResendInvite, Done, Kinds
  <2>3. ASSUME NEW k \in Invites, invite'[k].status # "none"
        PROVE  invite'[k].on \in Users
    BY <2>1, <2>3, ExpiredIsInvite DEF NamesExist
  <2>4. NamesExist'
    BY <1>0, <1>14, <2>3 DEF ResendInvite, Done, Kinds, NamesExist
  <2> QED
    BY <1>14, <2>2, <2>4 DEF ResendInvite, Done, Kinds
<1>15. ASSUME NEW a \in Leaders, NEW i \in Invites, RevokeInvite(a, i)
       PROVE  Kinds' /\ NamesExist'
  <2> DEFINE p == [invite[i] EXCEPT !.status = "revoked"]
             u == invite[i].on
  <2>1. /\ p \in InviteSet /\ p.on \in Users /\ u \in Users
        /\ invite' = [k \in Invites |-> IF k = i THEN p ELSE Expired(k)]
    BY <1>13, <1>15 DEF RevokeInvite
  <2>2. invite' \in [Invites -> InviteSet] /\ req' \in [Leaders -> ReqSet]
    BY <1>0, <1>15, <2>1, ExpiredIsInvite DEF RevokeInvite, Done, Kinds
  <2>3. ASSUME NEW k \in Invites, invite'[k].status # "none"
        PROVE  invite'[k].on \in Users
    BY <2>1, <2>3, ExpiredIsInvite DEF NamesExist
  <2>4. NamesExist'
    BY <1>0, <1>15, <2>3 DEF RevokeInvite, Done, Kinds, NamesExist
  <2>5. [member[u] EXCEPT !.status = IF member[u].status = "invited" THEN "disabled"
                                     ELSE member[u].status] \in MemberSet
    BY <2>1 DEF Kinds, MemberSet
  <2>6. member' \in [Users -> MemberSet]
    BY <1>15, <2>1, <2>5 DEF RevokeInvite, Kinds
  <2> QED
    BY <1>15, <2>2, <2>4, <2>6 DEF RevokeInvite, Done, Kinds
<1>16. ASSUME NEW u \in Users, SignIn(u)
       PROVE  Kinds' /\ NamesExist'
  BY <1>16 DEF SignIn, Kinds, NamesExist
<1>17. ASSUME NEW u \in Users, ResolveIdentity(u)
       PROVE  Kinds' /\ NamesExist'
  <2>1. /\ job' \in [Users -> JobSet] /\ req' \in [Leaders -> ReqSet]
        /\ linked' \subseteq Users
    BY <1>0, <1>8, <1>17 DEF ResolveIdentity, Done, Kinds
  <2>2. NamesExist'
    BY <1>0, <1>17 DEF ResolveIdentity, Done, Kinds, NamesExist, Leaders
  <2> QED
    BY <1>17, <2>1, <2>2 DEF ResolveIdentity, Done, Kinds
<1>18. ASSUME NEW i \in Invites, Accept(i)
       PROVE  Kinds' /\ NamesExist'
  <2> DEFINE u == invite[i].on
  <2>1. u \in Users /\ invite[i].role \in Roles
    BY <1>18 DEF Accept, NamesExist, Kinds, InviteSet
  <2>2. [status |-> "active", role |-> invite[i].role] \in MemberSet
    BY <2>1 DEF MemberSet
  <2>3. member' \in [Users -> MemberSet] /\ linked' \subseteq Users
    BY <1>18, <2>1, <2>2 DEF Accept, Kinds
  <2>4. invite' = [invite EXCEPT ![i] = [invite[i] EXCEPT !.status = "accepted"]]
    BY <1>18 DEF Accept
  <2>5. invite' \in [Invites -> InviteSet]
    BY <1>13, <2>4 DEF Kinds
  <2>6. NamesExist'
    BY <1>18, <2>1, <2>4 DEF Accept, Kinds, NamesExist, InviteSet
  <2> QED
    BY <1>18, <2>3, <2>5, <2>6 DEF Accept, Kinds
<1>19. ASSUME NEW i \in Invites, Late(i)
       PROVE  Kinds' /\ NamesExist'
  <2>1. invite' = [invite EXCEPT ![i] = [invite[i] EXCEPT !.late = TRUE]]
    BY <1>19 DEF Late
  <2>2. invite' \in [Invites -> InviteSet]
    BY <1>13, <2>1 DEF Kinds
  <2>3. NamesExist'
    BY <1>19, <2>1 DEF Late, Kinds, NamesExist, InviteSet
  <2> QED
    BY <1>19, <2>2, <2>3 DEF Late, Kinds
<1>20. ASSUME NEW u \in Users, Take(u) \/ Restart(u) \/ Identify(u)
       PROVE  Kinds' /\ NamesExist'
  <2>1. Restarted(u) \in JobSet
    BY QueuedIsJob, <1>0, Values DEF Roles
  <2>2. job' \in [Users -> JobSet] /\ linked' \subseteq Users
    BY <1>7, <1>20, <2>1 DEF Take, Restart, Identify, Work, Kinds
  <2>3. NamesExist'
    BY <1>20 DEF Take, Restart, Identify, Work, NamesExist
  <2> QED
    BY <1>20, <2>2, <2>3 DEF Take, Restart, Identify, Work, Kinds
<1>21. ASSUME NEW u \in Users, Regroup(u) \/ Complete(u)
       PROVE  Kinds' /\ NamesExist'
  <2>1. [member[u] EXCEPT !.status = IF job[u].state = "active" THEN "active"
                                     ELSE member[u].status] \in MemberSet
    BY DEF Kinds, MemberSet
  <2>2. member' \in [Users -> MemberSet]
    BY <1>21, <2>1 DEF Regroup, Complete, Kinds
  <2>3. job' \in [Users -> JobSet] /\ grouped' \subseteq Users
    BY <1>7, <1>21 DEF Regroup, Complete, Kinds
  <2>4. NamesExist'
    BY <1>21 DEF Regroup, Complete, Work, NamesExist
  <2> QED
    BY <1>21, <2>2, <2>3, <2>4 DEF Regroup, Complete, Work, Kinds
<1>22. ASSUME NEW u \in Users, NEW why \in {"ambiguous", "other"}, Fails(u, why)
       PROVE  Kinds' /\ NamesExist'
  <2>1. job' \in [Users -> JobSet]
    BY <1>7, <1>22 DEF Fails, Kinds
  <2>2. NamesExist'
    BY <1>22 DEF Fails, Work, NamesExist
  <2> QED
    BY <1>22, <2>1, <2>2 DEF Fails, Work, Kinds
<1>23. CASE UNCHANGED vars
  BY <1>23 DEF vars, Kinds, NamesExist
<1> QED
  BY <1>1, <1>2, <1>3, <1>4, <1>5, <1>6, <1>9, <1>10, <1>11, <1>12, <1>14, <1>15, <1>16,
     <1>17, <1>18, <1>19, <1>20, <1>21, <1>22, <1>23
     DEF Next, LeaderStep, PersonStep, WorkerStep

\* A job is for a membership; an account that is in a group, or whose job is past
\* its first step, is bound.  With it the parts of AccessIsTrue are inductive.
JobsAreBacked ==
  /\ \A u \in Users : job[u].status # "none" => member[u].status # "none"
  /\ \A u \in Users : job[u].step # "identity" => u \in linked
  /\ grouped \subseteq linked

\* A membership row that a request has locked is there until it lets go.
LocksHold ==
  \A a \in Leaders : req[a].at \in {"locked", "counted"} =>
    member[req[a].on].status # "none"

\* The row a request holds stays locked on the same person, and is deleted by none.
LEMMA StepLocks ==
  ASSUME Kinds, NamesExist, LocksHold, [Next]_vars
  PROVE  LocksHold'
<1> DEFINE Held(a) == req[a].at \in {"locked", "counted"}
           Stays == \A u \in Users : member[u].status # "none" => member'[u].status # "none"
           NoneNew == \A a \in Leaders : req'[a].at \in {"locked", "counted"} =>
                        Held(a) /\ req'[a].on = req[a].on
<1>0. /\ Idle.at = "idle"
      /\ \A a \in Leaders : req[a] \in ReqSet /\ (Held(a) => req[a].on \in Users)
      /\ \A u \in Users : member[u] \in MemberSet
  BY DEF Idle, Kinds, NamesExist
<1>1. ASSUME Stays, NoneNew PROVE LocksHold'
  BY <1>0, <1>1 DEF LocksHold
<1>2. ASSUME NEW a \in Leaders, Done(a) PROVE NoneNew
  BY <1>0, <1>2 DEF Done, Kinds
<1>3. ASSUME NEW a \in Leaders, Authorise(a) \/ PatchCount(a) PROVE Stays /\ NoneNew
  BY <1>0, <1>3 DEF Authorise, PatchCount, Kinds, ReqSet
<1>4. ASSUME NEW a \in Leaders, PatchWrite(a) PROVE Stays /\ NoneNew
  <2> DEFINE u == req[a].on
  <2>1. u \in Users /\ member[u].status # "none" /\ member[u] \in MemberSet
    BY <1>0, <1>4 DEF PatchWrite, LocksHold
  <2>2. Transition(member[u].status, req[a].want) # "none"
    BY <2>1 DEF Transition
  <2>3. Stays
    BY <1>4, <2>1, <2>2 DEF PatchWrite, Kinds
  <2> QED
    BY <1>2, <1>4, <2>3 DEF PatchWrite
<1>5. ASSUME NEW a \in Leaders, NEW bound \in BOOLEAN, Invite(a, bound) PROVE Stays /\ NoneNew
  <2>1. Stays
    BY <1>5 DEF Invite, Kinds, NamesExist
  <2> QED
    BY <1>2, <1>5, <2>1 DEF Invite
<1>6. ASSUME NEW a \in Leaders, NEW u \in Users, Cancel(a, u) PROVE LocksHold'
  <2>1. RowFree(u) /\ NoneNew
    BY <1>2, <1>6 DEF Cancel
  <2>2. \A v \in Users \ {u} : member'[v] = member[v]
    BY <1>6 DEF Cancel, Kinds
  <2> QED
    BY <1>0, <2>1, <2>2 DEF LocksHold, RowFree
<1>7. ASSUME NEW a \in Leaders, NEW u \in Users, NEW r \in Roles,
             NEW want \in {"keep", "active", "disabled"}, PatchLock(a, u, r, want)
      PROVE  LocksHold'
  BY <1>7 DEF PatchLock, LocksHold, Kinds
<1>8. ASSUME NEW a \in Leaders, NEW u \in Users, NEW r \in Roles, InviteCheck(a, u, r)
      PROVE  Stays /\ NoneNew
  <2> DEFINE q == [Idle EXCEPT !.at = "checked", !.on = u, !.role = r]
  <2>1. q.at = "checked"
    BY DEF Idle
  <2>2. req' = [req EXCEPT ![a] = q] /\ UNCHANGED member
    BY <1>8 DEF InviteCheck
  <2> QED
    BY <2>1, <2>2 DEF Kinds
<1>9. ASSUME NEW a \in Leaders, NEW i \in Invites, NEW u \in Users, NEW r \in Roles,
             CreateInvite(a, i, u, r)
      PROVE  Stays /\ NoneNew
  <2>1. Stays
    BY <1>9 DEF CreateInvite, Kinds
  <2> QED
    BY <1>2, <1>9, <2>1 DEF CreateInvite
<1>10. ASSUME NEW a \in Leaders, NEW i \in Invites, RevokeInvite(a, i) PROVE Stays /\ NoneNew
  <2> DEFINE u == invite[i].on
  <2>1. u \in Users /\ member[u] \in MemberSet
    BY <1>0, <1>10, ExpiredIsInvite DEF RevokeInvite, Open, NamesExist
  <2>2. Stays
    BY <1>10, <2>1 DEF RevokeInvite, Kinds, MemberSet
  <2> QED
    BY <1>2, <1>10, <2>2 DEF RevokeInvite
<1>11. ASSUME NEW a \in Leaders, ListInvites(a) PROVE Stays /\ NoneNew
  BY <1>2, <1>11 DEF ListInvites
<1>12. ASSUME NEW a \in Leaders, NEW i \in Invites, ResendInvite(a, i) PROVE Stays /\ NoneNew
  BY <1>2, <1>12 DEF ResendInvite
<1>13. ASSUME NEW a \in Leaders, NEW u \in Users, Retry(a, u) PROVE Stays /\ NoneNew
  BY <1>2, <1>13 DEF Retry
<1>14. ASSUME NEW u \in Users, ResolveIdentity(u) PROVE Stays /\ NoneNew
  BY <1>2, <1>14 DEF ResolveIdentity, Leaders
<1>15. ASSUME NEW i \in Invites, Accept(i) PROVE Stays /\ NoneNew
  BY <1>15 DEF Accept, Kinds, NamesExist
<1>16. ASSUME NEW u \in Users, WorkerStep(u) PROVE Stays /\ NoneNew
  BY <1>0, <1>16 DEF WorkerStep, Take, Restart, Identify, Regroup, Complete, Fails, Work, Kinds, MemberSet
<1>17. ASSUME NEW u \in Users, SignIn(u) PROVE Stays /\ NoneNew
  BY <1>17 DEF SignIn
<1>18. ASSUME NEW i \in Invites, Late(i) PROVE Stays /\ NoneNew
  BY <1>18 DEF Late
<1>19. CASE UNCHANGED vars
  BY <1>19 DEF vars, LocksHold
<1> HIDE DEF Stays, NoneNew
<1> QED
  BY <1>1, <1>3, <1>4, <1>5, <1>6, <1>7, <1>8, <1>9, <1>10, <1>11, <1>12, <1>13, <1>14,
     <1>15, <1>16, <1>17, <1>18, <1>19 DEF Next, LeaderStep, PersonStep

\* Every step keeps jobs, groups and memberships in agreement.
LEMMA StepBacked ==
  ASSUME Kinds, NamesExist, LocksHold, JobsAreBacked, NoResidualAccess, SuccessIsTrue,
         [Next]_vars
  PROVE  JobsAreBacked' /\ NoResidualAccess' /\ SuccessIsTrue'
<1> DEFINE Good == JobsAreBacked' /\ NoResidualAccess' /\ SuccessIsTrue'
<1> USE DEF JobsAreBacked, NoResidualAccess, SuccessIsTrue
<1>0. /\ \A v \in Users : member[v] \in MemberSet /\ job[v] \in JobSet
      /\ \A a \in Leaders : req[a] \in ReqSet
      /\ NoMember \in MemberSet /\ NoMember.status = "none"
      /\ NoJob \in JobSet /\ NoJob.status = "none" /\ NoJob.step = "identity"
  BY Values DEF Kinds, NoMember, NoJob
<1>1. ASSUME UNCHANGED <<member, linked, job, grouped>> PROVE Good
  BY <1>1
\* A handler writes a membership and, for it, a job that is not finished.
<1>2. ASSUME NEW u \in Users, NEW m, NEW j,
             m.status # "none", j.status # "succeeded", j.step \in {"identity", job[u].step},
             member' = [member EXCEPT ![u] = m], job' = [job EXCEPT ![u] = j],
             linked \subseteq linked', grouped' = grouped
      PROVE  Good
  <2>1. /\ member'[u] = m /\ job'[u] = j
        /\ \A v \in Users \ {u} : member'[v] = member[v] /\ job'[v] = job[v]
    BY <1>2 DEF Kinds
  <2> QED
    BY <1>2, <2>1
\* A handler writes a membership that has no finished job, or agrees with it.
<1>3. ASSUME NEW u \in Users, NEW m,
             m.status # "none", job[u].status # "succeeded" \/ m = member[u],
             member' = [member EXCEPT ![u] = m], job' = job,
             linked \subseteq linked', grouped' = grouped
      PROVE  Good
  <2>1. /\ member'[u] = m /\ \A v \in Users \ {u} : member'[v] = member[v]
    BY <1>3 DEF Kinds
  <2> QED
    BY <1>3, <2>1
\* A job goes on, and stays with its membership.
<1>4. ASSUME NEW u \in Users, NEW j,
             job[u].status # "none", j.status # "succeeded",
             j.step # "identity" => u \in linked',
             job' = [job EXCEPT ![u] = j],
             linked \subseteq linked', grouped' \subseteq grouped \cup ({u} \cap linked'),
             member' = member
      PROVE  Good
  <2>1. job'[u] = j /\ \A v \in Users \ {u} : job'[v] = job[v]
    BY <1>4 DEF Kinds
  <2> QED
    BY <1>4, <2>1
<1>5. ASSUME NEW u \in Users, NEW r \in Roles, NEW state \in {"active", "disabled"}
      PROVE  /\ Enqueued(u, r, state).step \in {"identity", job[u].step}
             /\ Enqueued(u, r, state).status # "succeeded"
  <2>1. job[u].status = "running" => [job[u] EXCEPT !.again = TRUE].step = job[u].step
    BY <1>0 DEF JobSet
  <2>2. [NoJob EXCEPT !.status = "pending", !.role = r, !.state = state].step = "identity"
    BY DEF NoJob
  <2> QED
    BY <2>1, <2>2, QueuedIsJob DEF Enqueued
<1>6. ASSUME NEW a \in Leaders, PatchWrite(a) PROVE Good
  <2> DEFINE u == req[a].on
             m == [role |-> req[a].role, status |-> Transition(member[u].status, req[a].want)]
             s == StateFor(member[u].status, req[a].want)
             j == Enqueued(u, req[a].role, s)
  <2>1. /\ u \in Users /\ req[a].role \in Roles /\ member[u].status # "none"
    BY <1>0, <1>6 DEF PatchWrite, NamesExist, LocksHold, ReqSet
  <2>2. m.status # "none" /\ s \in {"active", "disabled"}
    BY <2>1 DEF Transition, StateFor
  <2>3. /\ member' = [member EXCEPT ![u] = m] /\ job' = [job EXCEPT ![u] = j]
        /\ UNCHANGED <<linked, grouped>>
    BY <1>6 DEF PatchWrite
  <2>4. j.step \in {"identity", job[u].step} /\ j.status # "succeeded"
    BY <1>5, <2>1, <2>2
  <2> HIDE DEF m, j
  <2> QED
    BY <1>2, <2>1, <2>2, <2>3, <2>4
<1>7. ASSUME NEW a \in Leaders, NEW bound \in BOOLEAN, Invite(a, bound) PROVE Good
  <2> DEFINE u == req[a].on
             m == [status |-> "invited", role |-> req[a].role]
             j == Enqueued(u, req[a].role, "active")
  <2>1. u \in Users /\ req[a].role \in Roles /\ m.status # "none"
    BY <1>0, <1>7 DEF Invite, NamesExist, ReqSet
  <2>2. /\ member' = [member EXCEPT ![u] = m] /\ job' = [job EXCEPT ![u] = j]
        /\ linked \subseteq linked' /\ grouped' = grouped
    BY <1>7 DEF Invite
  <2>3. j.step \in {"identity", job[u].step} /\ j.status # "succeeded"
    BY <1>5, <2>1
  <2> HIDE DEF m, j
  <2> QED
    BY <1>2, <2>1, <2>2, <2>3
<1>8. ASSUME NEW a \in Leaders, NEW u \in Users, Cancel(a, u) PROVE Good
  <2>1. /\ u \notin linked /\ UNCHANGED <<linked, grouped>>
        /\ member'[u] = NoMember /\ job'[u] = NoJob
        /\ \A v \in Users \ {u} : member'[v] = member[v] /\ job'[v] = job[v]
    BY <1>8 DEF Cancel, Cancelable, Kinds
  <2> QED
    BY <1>0, <2>1
<1>9. ASSUME NEW u \in Users
      PROVE  LET j == [job[u] EXCEPT !.status = "pending", !.step = "identity", !.error = "none"]
             IN  j.status = "pending" /\ j.step = "identity"
  BY <1>0 DEF JobSet
<1>10. ASSUME NEW a \in Leaders, NEW u \in Users, Retry(a, u) PROVE Good
  <2> DEFINE j == [job[u] EXCEPT !.status = "pending", !.step = "identity", !.error = "none"]
  <2>1. /\ job' = [job EXCEPT ![u] = j] /\ job[u].status # "none"
        /\ UNCHANGED <<member, linked, grouped>>
    BY <1>10 DEF Retry, Retried
  <2>2. j.status = "pending" /\ j.step = "identity"
    BY <1>9
  <2> HIDE DEF j
  <2> QED
    BY <1>4, <2>1, <2>2
<1>11. ASSUME NEW u \in Users, ResolveIdentity(u) PROVE Good
  <2> DEFINE j == [job[u] EXCEPT !.status = "pending", !.step = "identity", !.error = "none"]
  <2>1. /\ job' = [job EXCEPT ![u] = j] /\ job[u].status # "none"
        /\ linked \subseteq linked' /\ UNCHANGED <<member, grouped>>
    BY <1>11 DEF ResolveIdentity, Retried
  <2>2. j.status = "pending" /\ j.step = "identity"
    BY <1>9
  <2> HIDE DEF j
  <2> QED
    BY <1>4, <2>1, <2>2
<1>12. ASSUME NEW a \in Leaders, NEW i \in Invites, NEW u \in Users, NEW r \in Roles,
              CreateInvite(a, i, u, r)
       PROVE  Good
  <2> DEFINE m == [status |-> "invited", role |-> r]
  <2>1. /\ m.status # "none" /\ member[u].status = "none"
        /\ member' = [member EXCEPT ![u] = m]
        /\ UNCHANGED <<linked, job, grouped>>
    BY <1>12 DEF CreateInvite
  <2>2. job[u].status # "succeeded"
    BY <2>1
  <2> HIDE DEF m
  <2> QED
    BY <1>3, <2>1, <2>2
<1>13. ASSUME NEW a \in Leaders, NEW i \in Invites, RevokeInvite(a, i) PROVE Good
  <2> DEFINE u == invite[i].on
             m == [member[u] EXCEPT !.status = IF member[u].status = "invited" THEN "disabled"
                                               ELSE member[u].status]
  <2>1. u \in Users /\ member[u] \in MemberSet
    BY <1>0, <1>13, ExpiredIsInvite DEF RevokeInvite, Open, NamesExist
  <2>2. member' = [member EXCEPT ![u] = m] /\ UNCHANGED <<linked, job, grouped>>
    BY <1>13 DEF RevokeInvite
  <2>3. CASE member[u].status = "invited"
    <3>1. m.status = "disabled" /\ job[u].status # "succeeded"
      BY <1>0, <2>1, <2>3 DEF MemberSet, JobSet
    <3> HIDE DEF m
    <3> QED
      BY <1>3, <2>1, <2>2, <3>1
  <2>4. CASE member[u].status # "invited"
    <3>1. m = member[u]
      BY <2>1, <2>4 DEF MemberSet
    <3>2. member' = member
      BY <2>1, <2>2, <3>1 DEF Kinds
    <3> QED
      BY <1>1, <2>2, <3>2
  <2> QED
    BY <2>3, <2>4
<1>14. ASSUME NEW i \in Invites, Accept(i) PROVE Good
  <2> DEFINE u == invite[i].on
             m == IF member[u].status = "active" THEN member[u]
                  ELSE [status |-> "active", role |-> invite[i].role]
  <2>1. u \in Users /\ member[u] \in MemberSet /\ member[u].status # "disabled"
    BY <1>0, <1>14 DEF Accept, Admits, NamesExist
  <2>2. /\ member' = [member EXCEPT ![u] = m] /\ UNCHANGED <<job, grouped>>
        /\ linked \subseteq linked'
    BY <1>14 DEF Accept
  <2>3. m.status = "active"
    BY <2>1
  <2>4. job[u].status # "succeeded" \/ m = member[u]
    BY <1>0, <2>1 DEF JobSet
  <2> HIDE DEF m
  <2> QED
    BY <1>3, <2>1, <2>2, <2>3, <2>4
<1>15. ASSUME NEW u \in Users, SignIn(u) PROVE Good
  BY <1>15 DEF SignIn
<1>16. ASSUME NEW u \in Users
       PROVE  /\ [job[u] EXCEPT !.status = "running"].status = "running"
              /\ [job[u] EXCEPT !.status = "running"].step = job[u].step
              /\ [job[u] EXCEPT !.step = "groups"].status = job[u].status
              /\ [job[u] EXCEPT !.step = "finish"].status = job[u].status
              /\ Restarted(u).step = "identity"
              /\ \A why \in {"ambiguous", "other"} :
                   /\ [job[u] EXCEPT !.status = "failed", !.error = why].status = "failed"
                   /\ [job[u] EXCEPT !.status = "failed", !.error = why].step = job[u].step
  BY <1>0 DEF JobSet, Restarted, NoJob
<1>17. ASSUME NEW u \in Users, Take(u) PROVE Good
  <2> DEFINE j == [job[u] EXCEPT !.status = "running"]
  <2>1. /\ job' = [job EXCEPT ![u] = j] /\ job[u].status # "none"
        /\ UNCHANGED <<member, linked, grouped>>
    BY <1>17 DEF Take
  <2>2. j.status = "running" /\ j.step = job[u].step
    BY <1>16
  <2> HIDE DEF j
  <2> QED
    BY <1>4, <2>1, <2>2
<1>18. ASSUME NEW u \in Users, Restart(u) PROVE Good
  <2> DEFINE j == Restarted(u)
  <2>1. /\ job' = [job EXCEPT ![u] = j] /\ job[u].status # "none"
        /\ UNCHANGED <<member, linked, grouped>>
    BY <1>18 DEF Restart, Work
  <2>2. j.status = "pending" /\ j.step = "identity"
    BY <1>16, QueuedIsJob, Values DEF Roles
  <2> HIDE DEF j
  <2> QED
    BY <1>4, <2>1, <2>2
<1>19. ASSUME NEW u \in Users, Identify(u) PROVE Good
  <2> DEFINE j == [job[u] EXCEPT !.step = "groups"]
  <2>1. /\ job' = [job EXCEPT ![u] = j] /\ job[u].status = "running"
        /\ linked' = linked \cup {u} /\ UNCHANGED <<member, grouped>>
    BY <1>19 DEF Identify, Work
  <2>2. j.status = "running"
    BY <1>16, <2>1
  <2> HIDE DEF j
  <2> QED
    BY <1>4, <2>1, <2>2
<1>20. ASSUME NEW u \in Users, Regroup(u) PROVE Good
  <2> DEFINE j == [job[u] EXCEPT !.step = "finish"]
  <2>1. /\ job' = [job EXCEPT ![u] = j] /\ job[u].status = "running"
        /\ job[u].step = "groups" /\ UNCHANGED <<member, linked>>
        /\ grouped' \subseteq grouped \cup {u}
    BY <1>20 DEF Regroup, Work
  <2>2. j.status = "running" /\ u \in linked
    BY <1>16, <2>1
  <2> HIDE DEF j
  <2> QED
    BY <1>4, <2>1, <2>2
<1>21. ASSUME NEW u \in Users, Complete(u) PROVE Good
  <2> DEFINE m == [member[u] EXCEPT !.status = IF job[u].state = "active" THEN "active"
                                               ELSE member[u].status]
             j == [job[u] EXCEPT !.status = "succeeded"]
  <2>1. /\ member' = [member EXCEPT ![u] = m] /\ job' = [job EXCEPT ![u] = j]
        /\ job[u].status = "running" /\ Completable(u) /\ UNCHANGED <<linked, grouped>>
    BY <1>21 DEF Complete, Work
  <2>2. /\ m.role = member[u].role
        /\ m.status = IF job[u].state = "active" THEN "active" ELSE member[u].status
        /\ j.role = job[u].role /\ j.state = job[u].state /\ j.step = job[u].step
    BY <1>0 DEF MemberSet, JobSet
  <2>3. m.role = j.role /\ m.status = j.state /\ m.status # "none"
    BY <1>0, <2>1, <2>2 DEF Completable, JobSet
  <2> HIDE DEF m, j
  <2>4. /\ member'[u] = m /\ job'[u] = j
        /\ \A v \in Users \ {u} : member'[v] = member[v] /\ job'[v] = job[v]
    BY <2>1 DEF Kinds
  <2> QED
    BY <2>1, <2>2, <2>3, <2>4
<1>22. ASSUME NEW u \in Users, NEW why \in {"ambiguous", "other"}, Fails(u, why) PROVE Good
  <2> DEFINE j == [job[u] EXCEPT !.status = "failed", !.error = why]
  <2>1. /\ job' = [job EXCEPT ![u] = j] /\ job[u].status # "none"
        /\ UNCHANGED <<member, linked, grouped>>
    BY <1>22 DEF Fails, Work
  <2>2. j.status = "failed" /\ j.step = job[u].step
    BY <1>16
  <2> HIDE DEF j
  <2> QED
    BY <1>4, <2>1, <2>2
<1>23. ASSUME NEW a \in Leaders, Authorise(a) \/ PatchCount(a) \/ ListInvites(a) PROVE Good
  BY <1>1, <1>23 DEF Authorise, PatchCount, ListInvites
<1>24. ASSUME NEW a \in Leaders, NEW u \in Users, NEW r \in Roles,
              \/ InviteCheck(a, u, r)
              \/ \E want \in {"keep", "active", "disabled"} : PatchLock(a, u, r, want)
       PROVE  Good
  BY <1>1, <1>24 DEF InviteCheck, PatchLock
<1>25. ASSUME NEW i \in Invites, Late(i) \/ \E a \in Leaders : ResendInvite(a, i) PROVE Good
  BY <1>1, <1>25 DEF Late, ResendInvite
<1>26. ASSUME UNCHANGED vars PROVE Good
  BY <1>1, <1>26 DEF vars
<1> HIDE DEF Good
<1>27. ASSUME NEW a \in Leaders, LeaderStep(a) PROVE Good
  BY <1>6, <1>7, <1>8, <1>10, <1>12, <1>13, <1>23, <1>24, <1>25, <1>27 DEF LeaderStep
<1>28. ASSUME PersonStep PROVE Good
  BY <1>11, <1>14, <1>15, <1>25, <1>28 DEF PersonStep
<1>29. ASSUME NEW u \in Users, WorkerStep(u) PROVE Good
  BY <1>17, <1>18, <1>19, <1>20, <1>21, <1>22, <1>29 DEF WorkerStep
<1>30. Good
  BY <1>26, <1>27, <1>28, <1>29 DEF Next
<1> QED
  BY <1>30 DEF Good

\* The lock on the tenant: one request at most has counted the administrators and
\* not written yet, and until it writes there is another administrator.
CountInv ==
  /\ \A a, b \in Leaders : req[a].at = "counted" /\ req[b].at = "counted" => a = b
  /\ \A a \in Leaders : req[a].at = "counted" => \E v \in Admins : v # req[a].on

\* More than one administrator: there is one besides whoever is asked about.
LEMMA AnotherAdmin ==
  ASSUME IsFiniteSet(Users), ~(Cardinality(Admins) <= 1), NEW u
  PROVE  \E v \in Admins : v # u
<1>1. SUFFICES ASSUME \A v \in Admins : v = u PROVE FALSE
  OBVIOUS
<1>2. Admins \subseteq {u} /\ Admins \subseteq Users
  BY <1>1 DEF Admins
<1>3. IsFiniteSet({u}) /\ Cardinality({u}) = 1
  BY FS_Singleton
<1>4. Cardinality(Admins) <= 1
  BY <1>2, <1>3, FS_Subset
<1> QED
  BY <1>4

\* Nothing but a request that has counted takes an administrator away.
LEMMA StepAdmins ==
  ASSUME Kinds, NamesExist, [Next]_vars,
         ~ \E a \in Leaders : req[a].at = "counted" /\ PatchWrite(a)
  PROVE  Admins \subseteq Admins'
<1> SUFFICES ASSUME NEW v \in Users, member[v].status = "active", member[v].role = "tenant_admin"
             PROVE  member'[v].status = "active" /\ member'[v].role = "tenant_admin"
  BY DEF Admins
<1> DEFINE Kept == member'[v].status = "active" /\ member'[v].role = "tenant_admin"
<1>0. \A u \in Users : member[u] \in MemberSet
  BY DEF Kinds
<1>1. ASSUME NEW a \in Leaders, PatchWrite(a) PROVE Kept
  <2> DEFINE u == req[a].on
             m == [role |-> req[a].role, status |-> Transition(member[u].status, req[a].want)]
  <2>1. u \in Users /\ member' = [member EXCEPT ![u] = m] /\ ~LosesAdmin(a)
    BY <1>1 DEF PatchWrite, NamesExist
  <2>2. u = v => m.role = "tenant_admin" /\ m.status = "active"
    BY <2>1 DEF LosesAdmin, Admins
  <2> HIDE DEF m
  <2> QED
    BY <2>1, <2>2 DEF Kinds
<1>2. ASSUME NEW a \in Leaders, NEW bound \in BOOLEAN, Invite(a, bound) PROVE Kept
  BY <1>2 DEF Invite, Adoptable, Kinds
<1>3. ASSUME NEW a \in Leaders, NEW u \in Users, Cancel(a, u) PROVE Kept
  BY <1>3 DEF Cancel, Cancelable, Kinds
<1>4. ASSUME NEW a \in Leaders, NEW i \in Invites, NEW u \in Users, NEW r \in Roles,
             CreateInvite(a, i, u, r)
      PROVE  Kept
  BY <1>4 DEF CreateInvite, Kinds
<1>5. ASSUME NEW a \in Leaders, NEW i \in Invites, RevokeInvite(a, i) PROVE Kept
  BY <1>0, <1>5 DEF RevokeInvite, Kinds, MemberSet
<1>6. ASSUME NEW i \in Invites, Accept(i) PROVE Kept
  BY <1>6 DEF Accept, Kinds
<1>7. ASSUME NEW u \in Users, Complete(u) PROVE Kept
  BY <1>0, <1>7 DEF Complete, Completable, Kinds, MemberSet
<1>8. ASSUME member' = member PROVE Kept
  BY <1>8
<1> HIDE DEF Kept
<1>9. ASSUME NEW a \in Leaders, LeaderStep(a) PROVE Kept
  BY <1>1, <1>2, <1>3, <1>4, <1>5, <1>8, <1>9
     DEF LeaderStep, Authorise, PatchCount, ListInvites, Retry, InviteCheck, PatchLock, ResendInvite
<1>10. ASSUME PersonStep PROVE Kept
  BY <1>6, <1>8, <1>10 DEF PersonStep, SignIn, ResolveIdentity, Late
<1>11. ASSUME NEW u \in Users, WorkerStep(u) PROVE Kept
  BY <1>7, <1>8, <1>11 DEF WorkerStep, Take, Restart, Identify, Regroup, Fails
<1>12. ASSUME UNCHANGED vars PROVE Kept
  BY <1>8, <1>12 DEF vars
<1>13. Kept
  BY <1>9, <1>10, <1>11, <1>12 DEF Next
<1> QED
  BY <1>13 DEF Kept

\* A request counts only with the tenant's lock, and goes on about the same person.
LEMMA StepCounted ==
  ASSUME Kinds, [Next]_vars, NEW b \in Leaders, req'[b].at = "counted"
  PROVE  \/ req[b].at = "counted" /\ req'[b].on = req[b].on /\ ~PatchWrite(b)
         \/ PatchCount(b) /\ req'[b].on = req[b].on
<1> DEFINE Goal == \/ req[b].at = "counted" /\ req'[b].on = req[b].on /\ ~PatchWrite(b)
                   \/ PatchCount(b) /\ req'[b].on = req[b].on
<1>0. /\ Idle.at = "idle" /\ \A a \in Leaders : req[a] \in ReqSet
      /\ \A a \in Leaders : Done(a) => req' = [req EXCEPT ![a] = Idle]
      /\ \A a \in Leaders : PatchWrite(a) => Done(a)
  BY DEF Idle, Kinds, Done, PatchWrite
<1>1. ~PatchWrite(b)
  BY <1>0 DEF Kinds
<1>2. ASSUME NEW a \in Leaders, Done(a) PROVE Goal
  BY <1>0, <1>1, <1>2 DEF Kinds
<1>3. ASSUME req' = req PROVE Goal
  BY <1>1, <1>3
<1>4. ASSUME NEW a \in Leaders, Authorise(a) PROVE Goal
  BY <1>0, <1>1, <1>4 DEF Authorise, Kinds, ReqSet
<1>5. ASSUME NEW a \in Leaders, PatchCount(a) PROVE Goal
  BY <1>0, <1>1, <1>5 DEF PatchCount, Kinds, ReqSet
<1>6. ASSUME NEW a \in Leaders, NEW u \in Users, NEW r \in Roles, InviteCheck(a, u, r)
      PROVE  Goal
  <2> DEFINE q == [Idle EXCEPT !.at = "checked", !.on = u, !.role = r]
  <2>1. q.at = "checked" /\ req' = [req EXCEPT ![a] = q]
    BY <1>6 DEF InviteCheck, Idle
  <2> HIDE DEF q
  <2> QED
    BY <1>1, <2>1 DEF Kinds
<1>7. ASSUME NEW a \in Leaders, NEW u \in Users, NEW r \in Roles,
             NEW want \in {"keep", "active", "disabled"}, PatchLock(a, u, r, want)
      PROVE  Goal
  BY <1>1, <1>7 DEF PatchLock, Kinds
<1> HIDE DEF Goal
<1>8. ASSUME NEW a \in Leaders, LeaderStep(a) PROVE Goal
  BY <1>0, <1>2, <1>4, <1>5, <1>6, <1>7, <1>8
     DEF LeaderStep, ListInvites, Invite, Cancel, Retry, CreateInvite, ResendInvite, RevokeInvite
<1>9. ASSUME PersonStep PROVE Goal
  BY <1>2, <1>3, <1>9 DEF PersonStep, SignIn, ResolveIdentity, Accept, Late, Leaders
<1>10. ASSUME NEW u \in Users, WorkerStep(u) PROVE Goal
  BY <1>3, <1>10
     DEF WorkerStep, Take, Restart, Identify, Regroup, Complete, Fails, Work
<1>11. ASSUME UNCHANGED vars PROVE Goal
  BY <1>3, <1>11 DEF vars
<1>12. Goal
  BY <1>8, <1>9, <1>10, <1>11 DEF Next
<1> QED
  BY <1>12 DEF Goal

\* Every step keeps the count honest.
LEMMA StepCount ==
  ASSUME IsFiniteSet(Users), Kinds, NamesExist, CountInv, [Next]_vars
  PROVE  CountInv'
<1>1. ASSUME NEW a \in Leaders, NEW b \in Leaders,
             req'[a].at = "counted", req'[b].at = "counted", a # b
      PROVE  FALSE
  <2>1. PatchCount(a) => TenantFree(a) /\ req'[b] = req[b] /\ req[a].at # "counted"
    BY <1>1 DEF PatchCount, Kinds
  <2>2. PatchCount(b) => TenantFree(b) /\ req'[a] = req[a] /\ req[b].at # "counted"
    BY <1>1 DEF PatchCount, Kinds
  <2> QED
    BY <1>1, <2>1, <2>2, StepCounted DEF CountInv, TenantFree
<1>2. ASSUME NEW b \in Leaders, req'[b].at = "counted"
      PROVE  \E v \in Admins' : v # req'[b].on
  <2>1. CASE PatchCount(b) /\ req'[b].on = req[b].on
    <3>1. ~(Cardinality(Admins) <= 1)
      BY <1>2, <2>1 DEF PatchCount, Kinds, Idle
    <3>2. Admins' = Admins
      BY <2>1 DEF PatchCount, Admins
    <3> QED
      BY <2>1, <3>1, <3>2, AnotherAdmin
  <2>2. CASE req[b].at = "counted" /\ req'[b].on = req[b].on /\ ~PatchWrite(b)
    <3>1. ~ \E a \in Leaders : req[a].at = "counted" /\ PatchWrite(a)
      BY <2>2 DEF CountInv
    <3>2. Admins \subseteq Admins'
      BY <3>1, StepAdmins
    <3> QED
      BY <2>2, <3>2 DEF CountInv
  <2> QED
    BY <1>2, <2>1, <2>2, StepCounted
<1> QED
  BY <1>1, <1>2 DEF CountInv

\* Everything that holds of a reachable state.
MembersInv ==
  /\ Kinds /\ NamesExist /\ LocksHold
  /\ JobsAreBacked /\ NoResidualAccess /\ SuccessIsTrue

LEMMA InitMembers == ASSUME MaxMoves \in Nat PROVE Init => MembersInv /\ CountInv
<1> SUFFICES ASSUME Init PROVE MembersInv /\ CountInv
  OBVIOUS
<1>0. /\ NoMember \in MemberSet /\ NoJob \in JobSet /\ NoInvite \in InviteSet /\ Idle \in ReqSet
      /\ Idle.at = "idle" /\ NoInvite.status = "none"
      /\ NoJob.status = "none" /\ NoJob.step = "identity"
  BY Values DEF Idle, NoInvite, NoJob
<1>1. [status |-> "active", role |-> "tenant_admin"] \in MemberSet
  BY DEF MemberSet, Roles
<1>2. /\ member \in [Users -> MemberSet] /\ linked \subseteq Users /\ grouped = {}
      /\ job = [u \in Users |-> NoJob] /\ invite = [i \in Invites |-> NoInvite]
      /\ req = [a \in Leaders |-> Idle] /\ moves = 0
  BY <1>0, <1>1 DEF Init
<1>3. Kinds
  BY <1>0, <1>2 DEF Kinds
<1>4. NamesExist /\ LocksHold /\ CountInv
  BY <1>0, <1>2 DEF NamesExist, LocksHold, CountInv
<1>5. JobsAreBacked /\ NoResidualAccess /\ SuccessIsTrue
  BY <1>0, <1>2 DEF JobsAreBacked, NoResidualAccess, SuccessIsTrue
<1> QED
  BY <1>3, <1>4, <1>5 DEF MembersInv

LEMMA StepMembers == ASSUME MaxMoves \in Nat PROVE MembersInv /\ [Next]_vars => MembersInv'
BY StepKinds, StepLocks, StepBacked DEF MembersInv

\* The membership, its job and the group say the same of a person in every
\* reachable state: a canceled invitation leaves no group behind that the
\* fallback of tenant.js would honour, and a job that reports success has
\* done what the membership asks for, for any number of people and leaders.
THEOREM AccessIsTrueCorrect == ASSUME MaxMoves \in Nat PROVE Spec => []AccessIsTrue
<1>1. Init => MembersInv
  BY InitMembers
<1>2. MembersInv /\ [Next]_vars => MembersInv'
  BY StepMembers
<1>3. MembersInv => AccessIsTrue
  BY KindsAreTypes DEF MembersInv, AccessIsTrue
<1> QED
  BY <1>1, <1>2, <1>3, PTL DEF Spec

\* A platoon that has an active administrator keeps one, however many leaders
\* demote and disable each other at once: whoever takes an administrator away
\* counted under the tenant's lock and there was another, who stays.
THEOREM AlwaysAnAdminCorrect ==
  ASSUME MaxMoves \in Nat, IsFiniteSet(Users)
  PROVE  Spec => [][AlwaysAnAdmin]_vars
<1>1. Init => MembersInv /\ CountInv
  BY InitMembers
<1>2. MembersInv /\ CountInv /\ [Next]_vars => (MembersInv /\ CountInv)'
  BY StepMembers, StepCount DEF MembersInv
<1>3. MembersInv /\ CountInv /\ [Next]_vars => AlwaysAnAdmin
  <2> SUFFICES ASSUME MembersInv, CountInv, [Next]_vars, Admins # {}
               PROVE  Admins' # {}
    BY DEF AlwaysAnAdmin
  <2>1. ASSUME NEW a \in Leaders, req[a].at = "counted", PatchWrite(a)
        PROVE  Admins' # {}
    <3>1. PICK v \in Admins : v # req[a].on
      BY <2>1 DEF CountInv
    <3>2. v \in Users /\ member'[v] = member[v]
      BY <2>1, <3>1 DEF PatchWrite, Admins, MembersInv, Kinds
    <3> QED
      BY <3>1, <3>2 DEF Admins
  <2>2. CASE ~ \E a \in Leaders : req[a].at = "counted" /\ PatchWrite(a)
    BY <2>2, StepAdmins DEF MembersInv
  <2> QED
    BY <2>1, <2>2
<1> QED
  BY <1>1, <1>2, <1>3, PTL DEF Spec

\* Who is disabled comes back as somebody invited, by the request of a leader
\* that asks for it of them.
LEMMA StepComesBack ==
  ASSUME Kinds, NamesExist, [Next]_vars
  PROVE  ComesBackAsked
<1> SUFFICES ASSUME NEW v \in Users, member[v].status = "disabled",
                    member'[v].status # "disabled"
             PROVE  /\ member'[v].status = "invited"
                    /\ \E a \in Leaders : req[a].on = v /\ req[a].want = "active"
                                          /\ req'[a] = Idle
  BY DEF ComesBackAsked
<1> DEFINE Asked == /\ member'[v].status = "invited"
                    /\ \E a \in Leaders : req[a].on = v /\ req[a].want = "active"
                                          /\ req'[a] = Idle
<1>0. \A u \in Users : member[u] \in MemberSet
  BY DEF Kinds
<1>1. ASSUME NEW a \in Leaders, PatchWrite(a) PROVE Asked
  <2> DEFINE u == req[a].on
             m == [role |-> req[a].role, status |-> Transition(member[u].status, req[a].want)]
  <2>1. /\ u \in Users /\ member' = [member EXCEPT ![u] = m] /\ req'[a] = Idle
        /\ req[a].want \in {"keep", "active", "disabled"}
    BY <1>1 DEF PatchWrite, Done, NamesExist, Kinds, ReqSet
  <2>2. u = v
    BY <2>1 DEF Kinds
  <2>3. member'[v].status = Transition("disabled", req[a].want)
    BY <2>1, <2>2 DEF Kinds
  <2>4. req[a].want = "active" /\ member'[v].status = "invited"
    BY <2>1, <2>3 DEF Transition
  <2> QED
    BY <2>1, <2>2, <2>4
<1>2. ASSUME NEW a \in Leaders, NEW bound \in BOOLEAN, Invite(a, bound) PROVE Asked
  BY <1>2 DEF Invite, Adoptable, Kinds
<1>3. ASSUME NEW a \in Leaders, NEW u \in Users, Cancel(a, u) PROVE Asked
  BY <1>3 DEF Cancel, Cancelable, Kinds
<1>4. ASSUME NEW a \in Leaders, NEW i \in Invites, NEW u \in Users, NEW r \in Roles,
             CreateInvite(a, i, u, r)
      PROVE  Asked
  BY <1>4 DEF CreateInvite, Kinds
<1>5. ASSUME NEW a \in Leaders, NEW i \in Invites, RevokeInvite(a, i) PROVE Asked
  BY <1>0, <1>5 DEF RevokeInvite, Kinds, MemberSet
<1>6. ASSUME NEW i \in Invites, Accept(i) PROVE Asked
  BY <1>6 DEF Accept, Admits, Kinds
<1>7. ASSUME NEW u \in Users, Complete(u) PROVE Asked
  BY <1>0, <1>7 DEF Complete, Completable, Kinds, MemberSet
<1>8. ASSUME member' = member PROVE Asked
  BY <1>8
<1> HIDE DEF Asked
<1>9. ASSUME NEW a \in Leaders, LeaderStep(a) PROVE Asked
  BY <1>1, <1>2, <1>3, <1>4, <1>5, <1>8, <1>9
     DEF LeaderStep, Authorise, PatchCount, ListInvites, Retry, InviteCheck, PatchLock, ResendInvite
<1>10. ASSUME PersonStep PROVE Asked
  BY <1>6, <1>8, <1>10 DEF PersonStep, SignIn, ResolveIdentity, Late
<1>11. ASSUME NEW u \in Users, WorkerStep(u) PROVE Asked
  BY <1>7, <1>8, <1>11 DEF WorkerStep, Take, Restart, Identify, Regroup, Fails
<1>12. ASSUME UNCHANGED vars PROVE Asked
  BY <1>8, <1>12 DEF vars
<1>13. Asked
  BY <1>9, <1>10, <1>11, <1>12 DEF Next
<1> QED
  BY <1>13 DEF Asked

\* An invitation that was accepted or revoked never opens again.
LEMMA StepInvitations ==
  ASSUME Kinds, NamesExist, [Next]_vars
  PROVE  InvitationEnds
<1> SUFFICES ASSUME NEW i \in Invites
             PROVE  /\ invite[i].status \in {"accepted", "revoked"} =>
                         invite'[i].status = invite[i].status
                    /\ invite'[i].status = "accepted" =>
                         invite[i].status \in {"accepted", "pending"}
  BY DEF InvitationEnds
<1> DEFINE Ends == /\ invite[i].status \in {"accepted", "revoked"} =>
                        invite'[i].status = invite[i].status
                   /\ invite'[i].status = "accepted" =>
                        invite[i].status \in {"accepted", "pending"}
<1>0. /\ \A k \in Invites : invite[k] \in InviteSet
      /\ \/ Expired(i).status = invite[i].status
         \/ Expired(i).status = "expired" /\ invite[i].status = "pending"
  BY DEF Kinds, Expired, InviteSet
<1>1. ASSUME NEW a \in Leaders, ListInvites(a) PROVE Ends
  BY <1>0, <1>1 DEF ListInvites
<1>2. ASSUME NEW a \in Leaders, NEW bound \in BOOLEAN, Invite(a, bound) PROVE Ends
  BY <1>0, <1>2 DEF Invite, InviteSet
<1>3. ASSUME NEW a \in Leaders, NEW k \in Invites, NEW u \in Users, NEW r \in Roles,
             CreateInvite(a, k, u, r)
      PROVE  Ends
  BY <1>0, <1>3 DEF CreateInvite, Kinds
<1>4. ASSUME NEW a \in Leaders, NEW k \in Invites, ResendInvite(a, k) PROVE Ends
  <2> DEFINE p == [invite[k] EXCEPT !.status = "pending", !.late = FALSE]
  <2>1. p.status = "pending" /\ invite'[i] = IF i = k THEN p ELSE Expired(i)
    BY <1>0, <1>4 DEF ResendInvite, InviteSet
  <2>2. i = k => invite[i].status \in {"pending", "expired"}
    BY <1>0, <1>4, ExpiredIsInvite DEF ResendInvite, Open
  <2> HIDE DEF p
  <2> QED
    BY <1>0, <2>1, <2>2
<1>5. ASSUME NEW a \in Leaders, NEW k \in Invites, RevokeInvite(a, k) PROVE Ends
  <2> DEFINE p == [invite[k] EXCEPT !.status = "revoked"]
  <2>1. p.status = "revoked" /\ invite'[i] = IF i = k THEN p ELSE Expired(i)
    BY <1>0, <1>5 DEF RevokeInvite, InviteSet
  <2>2. i = k => invite[i].status \in {"pending", "expired"}
    BY <1>0, <1>5, ExpiredIsInvite DEF RevokeInvite, Open
  <2> HIDE DEF p
  <2> QED
    BY <1>0, <2>1, <2>2
<1>6. ASSUME NEW k \in Invites, Accept(k) PROVE Ends
  BY <1>0, <1>6 DEF Accept, Kinds, InviteSet
<1>7. ASSUME NEW k \in Invites, Late(k) PROVE Ends
  BY <1>0, <1>7 DEF Late, Kinds, InviteSet
<1>8. ASSUME invite' = invite PROVE Ends
  BY <1>8
<1> HIDE DEF Ends
<1>9. ASSUME NEW a \in Leaders, LeaderStep(a) PROVE Ends
  BY <1>1, <1>2, <1>3, <1>4, <1>5, <1>8, <1>9
     DEF LeaderStep, Authorise, PatchCount, PatchWrite, Cancel, Retry, InviteCheck, PatchLock
<1>10. ASSUME PersonStep PROVE Ends
  BY <1>6, <1>7, <1>8, <1>10 DEF PersonStep, SignIn, ResolveIdentity
<1>11. ASSUME NEW u \in Users, WorkerStep(u) PROVE Ends
  BY <1>8, <1>11 DEF WorkerStep, Take, Restart, Identify, Regroup, Complete, Fails, Work
<1>12. ASSUME UNCHANGED vars PROVE Ends
  BY <1>8, <1>12 DEF vars
<1>13. Ends
  BY <1>9, <1>10, <1>11, <1>12 DEF Next
<1> QED
  BY <1>13 DEF Ends

\* Nobody is let in unasked: only a leader's request about a disabled member
\* brings them back, and invitations that ended stay ended, for any number of
\* people, leaders and invitations.
THEOREM NobodySlipsBackCorrect ==
  ASSUME MaxMoves \in Nat PROVE Spec => [][NobodySlipsBack]_vars
<1>1. Init => MembersInv
  BY InitMembers
<1>2. MembersInv /\ [Next]_vars => MembersInv'
  BY StepMembers
<1>3. MembersInv /\ [Next]_vars => NobodySlipsBack
  BY StepComesBack, StepInvitations DEF MembersInv, NobodySlipsBack
<1> QED
  BY <1>1, <1>2, <1>3, PTL DEF Spec
=============================================================================
