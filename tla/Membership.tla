----------------------------- MODULE Membership -----------------------------
(***************************************************************************)
(* Who belongs to one platoon, and as what: the memberships, the           *)
(* invitations of the older kind, and what the account job of a membership *)
(* is told to do (backend/src/routes.js, tenant.js).                       *)
(*                                                                         *)
(* A request of a leader is authorised before its transaction begins       *)
(* (requireTenantContext) and its role is not read again, so every request *)
(* here has a step of its own in which its authority is found.  The        *)
(* request that may remove an administrator is split further, at its       *)
(* locks.  The job is kept as coarse as Provisioning allows: what it was   *)
(* told, how far it came, whether it ended.                                *)
(***************************************************************************)
EXTENDS Naturals, FiniteSets

CONSTANTS
  Users,      \* people with a permanent account, by email
  Root,       \* a platform administrator, who needs no membership
  Invites,    \* rows of tenant_invitations
  MaxMoves,   \* bound: requests of leaders
  None        \* SQL NULL

VARIABLES
  member,   \* tenant_memberships: status and role
  linked,   \* users with a sign-in account bound to them (pk, uuid, subject)
  job,      \* authentik_provisioning_jobs
  grouped,  \* users Authentik holds in the platoon's group
  invite,   \* tenant_invitations
  req,      \* per leader: the request under way
  moves

vars == <<member, linked, job, grouped, invite, req, moves>>

Leaders == Users \cup {Root}
Roles == {"tenant_admin", "contributor"}
Idle == [at |-> "idle", on |-> None, role |-> "contributor", want |-> "keep"]
NoMember == [status |-> "none", role |-> "contributor"]
NoJob == [status |-> "none", role |-> "contributor", state |-> "active",
          step |-> "identity", error |-> "none", again |-> FALSE]
NoInvite == [status |-> "none", on |-> None, role |-> "contributor",
             late |-> FALSE]

MemberTypeOK ==
  /\ member \in [Users -> [status: {"none", "invited", "active", "disabled"},
                           role: Roles]]
  /\ linked \subseteq Users
  /\ job \in [Users -> [status: {"none", "pending", "running", "succeeded",
                                 "failed"},
                        role: Roles, state: {"active", "disabled"},
                        step: {"identity", "groups", "finish"},
                        error: {"none", "ambiguous", "other"},
                        again: BOOLEAN]]
  /\ grouped \subseteq Users
  /\ invite \in [Invites -> [status: {"none", "pending", "accepted",
                                      "revoked", "expired"},
                             on: Users \cup {None}, role: Roles,
                             late: BOOLEAN]]
  /\ req \in [Leaders -> [at: {"idle", "ready", "checked", "locked",
                               "counted"},
                          on: Users \cup {None}, role: Roles,
                          want: {"keep", "active", "disabled"}]]
  /\ moves \in 0..MaxMoves

Admins == {u \in Users :
             member[u].status = "active" /\ member[u].role = "tenant_admin"}

\* The platoon has some administrators, or is new and has none.
Init ==
  \E first \in SUBSET Users :
    /\ member = [u \in Users |->
         IF u \in first THEN [status |-> "active", role |-> "tenant_admin"]
         ELSE NoMember]
    /\ linked = first
    /\ job = [u \in Users |-> NoJob]
    /\ grouped = {}
    /\ invite = [i \in Invites |-> NoInvite]
    /\ req = [a \in Leaders |-> Idle]
    /\ moves = 0

-----------------------------------------------------------------------------
(***************************************************************************)
(* Faulty variants.  No specification uses them.                           *)
(***************************************************************************)
AnyTenant(a) == TRUE
CancelAnyFailed(u) ==
  member[u].status = "invited" /\ job[u].status = "failed"
AdmitsAll(u) == TRUE

-----------------------------------------------------------------------------
(***************************************************************************)
(* Authority.  A membership row, whatever its status, is the whole answer; *)
(* only who has none at all gets in by the group.                          *)
(***************************************************************************)
Effective(u) ==
  IF member[u].status # "none"
    THEN IF member[u].status = "active" THEN member[u].role ELSE "none"
    ELSE IF u \in grouped THEN "contributor" ELSE "none"
MayLead(a) == a = Root \/ (a \in Users /\ Effective(a) = "tenant_admin")

Authorise(a) ==
  /\ req[a].at = "idle" /\ MayLead(a)
  /\ moves < MaxMoves /\ moves' = moves + 1
  /\ req' = [req EXCEPT ![a].at = "ready"]
  /\ UNCHANGED <<member, linked, job, grouped, invite>>

Ready(a) == req[a].at = "ready"
Done(a) == req' = [req EXCEPT ![a] = Idle] /\ UNCHANGED moves

\* Row locks on memberships and the lock on the tenant, by who holds them.
RowFree(u) == \A b \in Leaders : req[b].at \in {"locked", "counted"} => req[b].on # u
TenantFree(a) == \A b \in Leaders \ {a} : req[b].at # "counted"

-----------------------------------------------------------------------------
(***************************************************************************)
(* Requests of leaders.                                                    *)
(***************************************************************************)

\* enqueueMembershipProvisioning: a running job is told to look again, any
\* other starts over for the new target.
Enqueued(u, r, state) ==
  IF job[u].status = "running" THEN [job[u] EXCEPT !.again = TRUE]
  ELSE [NoJob EXCEPT !.status = "pending", !.role = r, !.state = state]

\* POST members: the check that there is no membership, and the transaction.
\* A membership made meanwhile by an invitation of the older kind, which
\* has no job, is taken over, and those invitations are revoked.
InviteCheck(a, u, r) ==
  /\ Ready(a) /\ member[u].status = "none"
  /\ req' = [req EXCEPT ![a] = [Idle EXCEPT !.at = "checked", !.on = u,
                                            !.role = r]]
  /\ UNCHANGED <<member, linked, job, grouped, invite, moves>>
Adoptable(u) == member[u].status = "invited" /\ job[u].status = "none"
Invite(a, bound) ==
  LET u == req[a].on
      adopted == Adoptable(u)
  IN
  /\ req[a].at = "checked" /\ RowFree(u)
  /\ member[u].status = "none" \/ adopted
  /\ member' = [member EXCEPT ![u] = [status |-> "invited",
                                      role |-> req[a].role]]
  /\ job' = [job EXCEPT ![u] = Enqueued(u, req[a].role, "active")]
  /\ linked' = IF bound THEN linked \cup {u} ELSE linked
  /\ invite' = [i \in Invites |->
       IF adopted /\ invite[i].on = u
          /\ invite[i].status \in {"pending", "expired"}
       THEN [invite[i] EXCEPT !.status = "revoked"] ELSE invite[i]]
  /\ Done(a)
  /\ UNCHANGED grouped

\* PATCH members and POST disable.  The row of the member is locked; if an
\* active administrator is about to stop being one, the tenant is locked too
\* and the administrators are counted; then the change is written.
Transition(status, want) ==
  CASE want = "disabled" -> "disabled"
    [] want = "active" -> IF status = "active" THEN "active" ELSE "invited"
    [] OTHER -> status
StateFor(status, want) ==
  IF want = "disabled" \/ (want = "keep" /\ status = "disabled")
  THEN "disabled" ELSE "active"
PatchLock(a, u, r, want) ==
  /\ Ready(a) /\ member[u].status # "none" /\ RowFree(u)
  /\ req' = [req EXCEPT ![a] = [at |-> "locked", on |-> u, role |-> r,
                                want |-> want]]
  /\ UNCHANGED <<member, linked, job, grouped, invite, moves>>
LosesAdmin(a) ==
  LET u == req[a].on IN
  /\ u \in Admins
  /\ \/ req[a].role # "tenant_admin"
     \/ Transition(member[u].status, req[a].want) # "active"
PatchCount(a) ==
  /\ req[a].at = "locked" /\ LosesAdmin(a) /\ TenantFree(a)
  /\ IF Cardinality(Admins) <= 1
     THEN req' = [req EXCEPT ![a] = Idle]
     ELSE req' = [req EXCEPT ![a].at = "counted"]
  /\ UNCHANGED <<member, linked, job, grouped, invite, moves>>
PatchWrite(a) ==
  LET u == req[a].on IN
  /\ \/ req[a].at = "counted"
     \/ req[a].at = "locked" /\ ~LosesAdmin(a)
  /\ member' = [member EXCEPT ![u] =
       [role |-> req[a].role, status |-> Transition(@.status, req[a].want)]]
  /\ job' = [job EXCEPT ![u] =
       Enqueued(u, req[a].role, StateFor(member[u].status, req[a].want))]
  /\ Done(a)
  /\ UNCHANGED <<linked, grouped, invite>>

\* DELETE members: only an invitation that failed before an account was
\* bound to it.
Cancelable(u) ==
  /\ member[u].status = "invited" /\ u \notin linked
  /\ job[u].status = "failed" /\ job[u].step = "identity"
Cancel(a, u) ==
  /\ Ready(a) /\ RowFree(u) /\ Cancelable(u)
  /\ member' = [member EXCEPT ![u] = NoMember]
  /\ job' = [job EXCEPT ![u] = NoJob]
  /\ Done(a)
  /\ UNCHANGED <<linked, grouped, invite>>

\* POST retry, and POST resolve-identity by a platform administrator, which
\* binds the account it was told first.
Retried(u) ==
  [job EXCEPT ![u] = [@ EXCEPT !.status = "pending", !.step = "identity",
                               !.error = "none"]]
Retry(a, u) ==
  /\ Ready(a) /\ job[u].status = "failed"
  /\ job' = Retried(u)
  /\ Done(a)
  /\ UNCHANGED <<member, linked, grouped, invite>>
ResolveIdentity(u) ==
  /\ Ready(Root) /\ RowFree(u)
  /\ member[u].status = "invited" /\ u \notin linked
  /\ job[u].status = "failed" /\ job[u].error = "ambiguous"
  /\ linked' = linked \cup {u}
  /\ job' = Retried(u)
  /\ Done(Root)
  /\ UNCHANGED <<member, grouped, invite>>

\* The invitations of the older kind.  Every request about them, the list
\* included, first marks the ones that are late.
Expired(i) ==
  IF invite[i].status = "pending" /\ invite[i].late
  THEN [invite[i] EXCEPT !.status = "expired"] ELSE invite[i]
ListInvites(a) ==
  /\ Ready(a)
  /\ invite' = [i \in Invites |-> Expired(i)]
  /\ Done(a)
  /\ UNCHANGED <<member, linked, job, grouped>>
CreateInvite(a, i, u, r) ==
  /\ Ready(a) /\ invite[i].status = "none" /\ member[u].status = "none"
  /\ member' = [member EXCEPT ![u] = [status |-> "invited", role |-> r]]
  /\ invite' = [invite EXCEPT ![i] = [status |-> "pending", on |-> u,
                                      role |-> r, late |-> FALSE]]
  /\ Done(a)
  /\ UNCHANGED <<linked, job, grouped>>
Open(i) == Expired(i).status \in {"pending", "expired"}
ResendInvite(a, i) ==
  /\ Ready(a) /\ Open(i)
  /\ invite' = [k \in Invites |->
       IF k = i THEN [invite[i] EXCEPT !.status = "pending", !.late = FALSE]
       ELSE Expired(k)]
  /\ Done(a)
  /\ UNCHANGED <<member, linked, job, grouped>>
RevokeInvite(a, i) ==
  LET u == invite[i].on IN
  /\ Ready(a) /\ Open(i) /\ RowFree(u)
  /\ invite' = [k \in Invites |->
       IF k = i THEN [invite[i] EXCEPT !.status = "revoked"] ELSE Expired(k)]
  /\ member' = [member EXCEPT ![u].status =
       IF @ = "invited" THEN "disabled" ELSE @]
  /\ Done(a)
  /\ UNCHANGED <<linked, job, grouped>>

-----------------------------------------------------------------------------
(***************************************************************************)
(* The person, time, and the worker.                                       *)
(***************************************************************************)

\* The person follows the link, signed in with the invited address.
Admits(u) == member[u].status # "disabled"
Accept(i) ==
  LET u == invite[i].on IN
  /\ invite[i].status = "pending" /\ ~invite[i].late
  /\ RowFree(u) /\ Admits(u)
  /\ member' = [member EXCEPT ![u] =
       IF @.status = "active" THEN @
       ELSE [status |-> "active", role |-> invite[i].role]]
  /\ invite' = [invite EXCEPT ![i].status = "accepted"]
  /\ linked' = linked \cup {u}
  /\ UNCHANGED <<job, grouped, req, moves>>
SignIn(u) ==
  /\ u \notin linked /\ linked' = linked \cup {u}
  /\ UNCHANGED <<member, job, grouped, invite, req, moves>>
Late(i) ==
  /\ invite[i].status = "pending" /\ ~invite[i].late
  /\ invite' = [invite EXCEPT ![i].late = TRUE]
  /\ UNCHANGED <<member, linked, job, grouped, req, moves>>

\* The worker: take the job, bind an account, put it in or out of the group,
\* end.  Where it finds that it should look again, it starts over.
Restarted(u) ==
  [NoJob EXCEPT !.status = "pending", !.role = member[u].role,
     !.state = IF member[u].status = "disabled" THEN "disabled" ELSE "active"]
Work(u) == job[u].status = "running" /\ UNCHANGED <<invite, req, moves>>
Take(u) ==
  /\ job[u].status = "pending"
  /\ job' = [job EXCEPT ![u].status = "running"]
  /\ UNCHANGED <<member, linked, grouped, invite, req, moves>>
Restart(u) ==
  /\ Work(u) /\ job[u].again
  /\ job' = [job EXCEPT ![u] = Restarted(u)]
  /\ UNCHANGED <<member, linked, grouped>>
Identify(u) ==
  /\ Work(u) /\ ~job[u].again /\ job[u].step = "identity"
  /\ linked' = linked \cup {u}
  /\ job' = [job EXCEPT ![u].step = "groups"]
  /\ UNCHANGED <<member, grouped>>
Regroup(u) ==
  /\ Work(u) /\ job[u].step = "groups"
  /\ grouped' = IF job[u].state = "active" THEN grouped \cup {u}
                ELSE grouped \ {u}
  /\ job' = [job EXCEPT ![u].step = "finish"]
  /\ UNCHANGED <<member, linked>>
Fails(u, why) ==
  /\ Work(u) /\ ~job[u].again
  /\ why = "ambiguous" => job[u].step = "identity" /\ u \notin linked
  /\ job' = [job EXCEPT ![u] = [@ EXCEPT !.status = "failed", !.error = why]]
  /\ UNCHANGED <<member, linked, grouped>>
Completable(u) ==
  /\ member[u].role = job[u].role
  /\ IF job[u].state = "active" THEN member[u].status \in {"invited", "active"}
     ELSE member[u].status = "disabled"
Complete(u) ==
  /\ Work(u) /\ ~job[u].again /\ job[u].step = "finish" /\ RowFree(u)
  /\ Completable(u)
  /\ member' = [member EXCEPT ![u].status =
       IF job[u].state = "active" THEN "active" ELSE @]
  /\ job' = [job EXCEPT ![u].status = "succeeded"]
  /\ UNCHANGED <<linked, grouped>>

LeaderStep(a) ==
  \/ Authorise(a) \/ PatchCount(a) \/ PatchWrite(a) \/ ListInvites(a)
  \/ \E bound \in BOOLEAN : Invite(a, bound)
  \/ \E u \in Users : Cancel(a, u) \/ Retry(a, u)
  \/ \E u \in Users, r \in Roles :
       \/ InviteCheck(a, u, r)
       \/ \E want \in {"keep", "active", "disabled"} : PatchLock(a, u, r, want)
       \/ \E i \in Invites : CreateInvite(a, i, u, r)
  \/ \E i \in Invites : ResendInvite(a, i) \/ RevokeInvite(a, i)
PersonStep == \/ \E u \in Users : SignIn(u) \/ ResolveIdentity(u)
              \/ \E i \in Invites : Accept(i) \/ Late(i)
WorkerStep(u) ==
  \/ Take(u) \/ Restart(u) \/ Identify(u) \/ Regroup(u) \/ Complete(u)
  \/ \E why \in {"ambiguous", "other"} : Fails(u, why)

Next == \/ \E a \in Leaders : LeaderStep(a)
        \/ PersonStep
        \/ \E u \in Users : WorkerStep(u)
Spec == Init /\ [][Next]_vars

-----------------------------------------------------------------------------
(***************************************************************************)
(* Properties.                                                             *)
(***************************************************************************)

\* A platoon that has an active administrator keeps one, whatever leaders
\* ask at the same time and although their own role may be gone by then
\* (assertMemberCanLoseAdminRole).
AlwaysAnAdmin == Admins # {} => Admins' # {}

\* Who was disabled comes back only through a leader's request about them,
\* and then as invited: no invitation, worker or retry lets them in.
ComesBackAsked ==
  \A u \in Users :
    member[u].status = "disabled" /\ member'[u].status # "disabled" =>
      /\ member'[u].status = "invited"
      /\ \E a \in Leaders : req[a].on = u /\ req[a].want = "active"
                            /\ req'[a] = Idle

\* Who has no membership is not in the platoon's group either, where the
\* group fallback would let them in: a canceled invitation leaves nothing.
NoResidualAccess ==
  \A u \in Users : member[u].status = "none" => u \notin grouped

\* A job that reports success has done what the membership asks for, also
\* when an invitation was accepted or revoked while it ran.
SuccessIsTrue ==
  \A u \in Users : job[u].status = "succeeded" =>
    /\ member[u].role = job[u].role
    /\ member[u].status = job[u].state

\* What the membership, its job and the group say of a person fits together.
AccessIsTrue == MemberTypeOK /\ NoResidualAccess /\ SuccessIsTrue

\* An invitation that was accepted or revoked is never open again, and only
\* an open one is accepted.
InvitationEnds ==
  \A i \in Invites :
    /\ invite[i].status \in {"accepted", "revoked"} =>
         invite'[i].status = invite[i].status
    /\ invite'[i].status = "accepted" =>
         invite[i].status \in {"accepted", "pending"}

\* Nobody comes back unasked, be it by a job, a retry or an old invitation.
NobodySlipsBack == ComesBackAsked /\ InvitationEnds

(***************************************************************************)
(* What the documentation says and the code does not do.                   *)
(***************************************************************************)

\* "Disable/remove the test membership.  Confirm tenant API access stops
\* immediately": whoever changes memberships is a leader at that moment.
AccessStopsAtOnce ==
  [][\A a \in Users :
       req[a].at # "idle" /\ req'[a] = Idle /\ member' # member =>
         MayLead(a)]_vars

\* "Remove disabled memberships from the tenant group": who is disabled and
\* has a job is out of the group, or the job is on its way to take them out.
DisabledLeavesGroup ==
  \A u \in Users :
    member[u].status = "disabled" /\ job[u].status \notin {"none", "failed"}
      => \/ u \notin grouped
         \/ job[u].state = "disabled" \/ job[u].again
=============================================================================
