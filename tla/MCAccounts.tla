----------------------------- MODULE MCAccounts -----------------------------
(***************************************************************************)
(* Who belongs where: memberships and invitations (Membership), users and  *)
(* accounts of Authentik (Identity), and the queue that brings Authentik   *)
(* in line (Provisioning, here with one membership and two replicas).  The *)
(* three are checked side by side in one run: an initial state chooses     *)
(* one, and only that one takes steps.                                     *)
(***************************************************************************)
EXTENDS Naturals, TLC

CONSTANTS None,
          Users, Root, Invites,                  \* of Membership
          People, Shaped, Emails, Slots, Tries,  \* of Identity
          Jobs, Workers                          \* of Provisioning

VARIABLES part, moves, member, job, grouped,
          linked, invite, req,
          rows, address, try, chosen, answer,
          user, account, flying, wk, credit

M == INSTANCE MembershipProofs WITH MaxMoves <- 3
I == INSTANCE IdentityProofs WITH MaxMoves <- 4, Claims <- BOOLEAN
P == INSTANCE ProvisioningProofs WITH Roles <- {"tenant_admin", "contributor"},
       MaxAttempts <- 2, MaxMoves <- 5, Lossy <- FALSE

shared == <<member, job, grouped>>
members == <<linked, invite, req>>
identities == <<rows, address, try, chosen, answer>>
jobs == <<user, account, flying, wk, credit>>
accountVars == <<part, moves, shared, members, identities, jobs>>

MembersRest == linked = 0 /\ invite = 0 /\ req = 0
IdentitiesRest == rows = 0 /\ address = 0 /\ try = 0 /\ chosen = 0 /\ answer = 0
JobsRest == user = 0 /\ account = 0 /\ flying = 0 /\ wk = 0 /\ credit = 0

AccountsInit ==
  \/ part = "members" /\ M!Init /\ IdentitiesRest /\ JobsRest
  \/ /\ part = "identities" /\ I!Init /\ MembersRest /\ JobsRest
     /\ member = 0 /\ job = 0 /\ grouped = 0
  \/ part = "jobs" /\ P!Init /\ MembersRest /\ IdentitiesRest

AccountsNext ==
  \/ part = "members" /\ M!Next /\ UNCHANGED <<part, identities, jobs>>
  \/ part = "identities" /\ I!Next /\ UNCHANGED <<part, shared, members, jobs>>
  \/ part = "jobs" /\ P!Next /\ UNCHANGED <<part, members, identities>>

AccountsSpec == AccountsInit /\ [][AccountsNext]_accountVars

\* No definition tells one person, slot, request, address or replica from
\* another.
Alike == Permutations(Users) \cup Permutations(Slots) \cup Permutations(Tries)
           \cup Permutations(Emails) \cup Permutations(Workers)

-----------------------------------------------------------------------------
\* What the membership, its job and the group say of a person fits together
\* (a canceled invitation leaves nothing, a job that reports success is true).
AccessIsTrue == part = "members" => M!AccessIsTrue

\* A platoon that has an active administrator keeps one, whatever leaders ask
\* at the same time (assertMemberCanLoseAdminRole).
AlwaysAnAdmin == [][part = "members" => M!AlwaysAnAdmin]_accountVars

\* A disabled member comes back only when a leader asks for it, and an
\* invitation that was accepted or revoked never opens again.
NobodySlipsBack == [][part = "members" => M!NobodySlipsBack]_accountVars

\* No account of Authentik belongs to two users, however an invitation, the
\* worker and sign-ins race (db/021, db/022).
OneOwner == part = "identities" => I!OneOwner

\* A sign-in never ends in somebody else's user, and a user that was signed in
\* to is never handed to another subject.
IdentityIsForever == [][part = "identities" => I!IdentityIsForever]_accountVars

\* A job either asks for what the membership is, or knows that it does not:
\* whoever changes a membership while a worker holds the job leaves a note
\* that survives the worker, its lease and every retry.
TargetIsCurrent == part = "jobs" => P!TargetIsCurrent

\* Authentik agrees with a job that reports success: the group holds the
\* account exactly if the membership is active.
SettledIsApplied == part = "jobs" => P!SettledIsApplied

\* A job is well formed (db/019-021) and in one call to Authentik at a time,
\* whoever holds it and whatever lease runs out.
JobsAreSound == part = "jobs" => P!JobsAreSound
=============================================================================
