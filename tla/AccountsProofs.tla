--------------------------- MODULE AccountsProofs ---------------------------
(***************************************************************************)
(* The theorems about memberships, users and jobs, carried over to the     *)
(* specification that puts the parts side by side.  A part that was chosen *)
(* stays chosen and takes the steps of its module; while another one has   *)
(* its turn, its properties have nothing to say.                           *)
(***************************************************************************)
EXTENDS MCAccounts, FiniteSets, TLAPS

OnMembers == part = "members"
OnIdentities == part = "identities"
OnJobs == part = "jobs"

\* With the memberships chosen, what happens is what Membership describes.
LEMMA MembersAlone ==
  AccountsSpec => /\ OnMembers => M!Spec /\ []OnMembers
                  /\ ~OnMembers => []~OnMembers
<1>1. OnMembers /\ AccountsInit => M!Init
  BY DEF AccountsInit, OnMembers
<1>2. OnMembers /\ [AccountsNext]_accountVars => [M!Next]_(M!vars) /\ OnMembers'
  BY DEF AccountsNext, accountVars, M!vars, shared, members, OnMembers
<1>3. ~OnMembers /\ [AccountsNext]_accountVars => ~OnMembers'
  BY DEF AccountsNext, accountVars, OnMembers
<1> QED
  BY <1>1, <1>2, <1>3, PTL DEF AccountsSpec, M!Spec

\* With the users chosen, what happens is what Identity describes.
LEMMA IdentitiesAlone ==
  AccountsSpec => /\ OnIdentities => I!Spec /\ []OnIdentities
                  /\ ~OnIdentities => []~OnIdentities
<1>1. OnIdentities /\ AccountsInit => I!Init
  BY DEF AccountsInit, OnIdentities
<1>2. OnIdentities /\ [AccountsNext]_accountVars => [I!Next]_(I!vars) /\ OnIdentities'
  BY DEF AccountsNext, accountVars, I!vars, identities, OnIdentities
<1>3. ~OnIdentities /\ [AccountsNext]_accountVars => ~OnIdentities'
  BY DEF AccountsNext, accountVars, OnIdentities
<1> QED
  BY <1>1, <1>2, <1>3, PTL DEF AccountsSpec, I!Spec

\* With the queue chosen, what happens is what Provisioning describes.
LEMMA JobsAlone ==
  AccountsSpec => /\ OnJobs => P!Spec /\ []OnJobs
                  /\ ~OnJobs => []~OnJobs
<1>1. OnJobs /\ AccountsInit => P!Init
  BY DEF AccountsInit, OnJobs
<1>2. OnJobs /\ [AccountsNext]_accountVars => [P!Next]_(P!vars) /\ OnJobs'
  BY DEF AccountsNext, accountVars, P!vars, shared, jobs, OnJobs
<1>3. ~OnJobs /\ [AccountsNext]_accountVars => ~OnJobs'
  BY DEF AccountsNext, accountVars, OnJobs
<1> QED
  BY <1>1, <1>2, <1>3, PTL DEF AccountsSpec, P!Spec

\* Who has no membership is in no group, and a job that reports success has
\* done what the membership asks for: in every reachable state, for any
\* people and invitations.
THEOREM AccountsAccessIsTrue == AccountsSpec => []AccessIsTrue
<1>1. M!Spec => []M!AccessIsTrue
  BY M!AccessIsTrueCorrect
<1>2. OnMembers /\ M!AccessIsTrue => AccessIsTrue
  BY DEF AccessIsTrue
<1>3. ~OnMembers => AccessIsTrue
  BY DEF AccessIsTrue, OnMembers
<1> QED
  BY <1>1, <1>2, <1>3, MembersAlone, PTL

\* No step of the platoon takes its last active administrator away, however
\* many leaders demote and disable each other at once.
THEOREM AccountsAlwaysAnAdmin ==
  ASSUME IsFiniteSet(Users) PROVE AccountsSpec => AlwaysAnAdmin
<1>1. M!Spec => [][M!AlwaysAnAdmin]_(M!vars)
  <2>1. M!IsFiniteSet(Users)
    BY DEF IsFiniteSet, M!IsFiniteSet
  <2> QED
    BY <2>1, M!AlwaysAnAdminCorrect
<1>2. OnMembers /\ [M!AlwaysAnAdmin]_(M!vars)
        => [part = "members" => M!AlwaysAnAdmin]_accountVars
  BY DEF M!AlwaysAnAdmin, M!Admins, M!vars, accountVars, shared, members
<1>3. ~OnMembers => [part = "members" => M!AlwaysAnAdmin]_accountVars
  BY DEF OnMembers
<1> QED
  BY <1>1, <1>2, <1>3, MembersAlone, PTL DEF AlwaysAnAdmin

\* Who was disabled comes back only when a leader asks for it, and an
\* invitation that was accepted or revoked is never open again.
THEOREM AccountsNobodySlipsBack == AccountsSpec => NobodySlipsBack
<1>1. M!Spec => [][M!NobodySlipsBack]_(M!vars)
  BY M!NobodySlipsBackCorrect
<1>2. OnMembers /\ [M!NobodySlipsBack]_(M!vars)
        => [part = "members" => M!NobodySlipsBack]_accountVars
  BY DEF M!NobodySlipsBack, M!ComesBackAsked, M!InvitationEnds, M!vars, accountVars,
         shared, members
<1>3. ~OnMembers => [part = "members" => M!NobodySlipsBack]_accountVars
  BY DEF OnMembers
<1> QED
  BY <1>1, <1>2, <1>3, MembersAlone, PTL DEF NobodySlipsBack

\* No account of Authentik belongs to two users, however first requests,
\* invitations and the worker race, for any people, users and addresses.
THEOREM AccountsOneOwner == ASSUME None \notin Emails PROVE AccountsSpec => []OneOwner
<1>1. I!Spec => []I!OneOwner
  BY I!OneOwnerCorrect
<1>2. OnIdentities /\ I!OneOwner => OneOwner
  BY DEF OneOwner
<1>3. ~OnIdentities => OneOwner
  BY DEF OneOwner, OnIdentities
<1> QED
  BY <1>1, <1>2, <1>3, IdentitiesAlone, PTL

\* A sign-in never ends in somebody else's user, and a user that was signed
\* in to is never handed to another subject.
THEOREM AccountsIdentityIsForever ==
  ASSUME None \notin Emails PROVE AccountsSpec => IdentityIsForever
<1>1. I!Spec => [][I!IdentityIsForever]_(I!vars)
  BY I!IdentityIsForeverCorrect
<1>2. OnIdentities /\ [I!IdentityIsForever]_(I!vars)
        => [part = "identities" => I!IdentityIsForever]_accountVars
  BY DEF I!IdentityIsForever, I!NeverForeign, I!SubjectIsForever, I!vars, accountVars,
         identities
<1>3. ~OnIdentities => [part = "identities" => I!IdentityIsForever]_accountVars
  BY DEF OnIdentities
<1> QED
  BY <1>1, <1>2, <1>3, IdentitiesAlone, PTL DEF IdentityIsForever

\* A job asks for what the membership is, or knows that it does not, for any
\* replicas and memberships.
THEOREM AccountsTargetIsCurrent ==
  ASSUME None \notin Jobs \cup Workers PROVE AccountsSpec => []TargetIsCurrent
<1>1. P!Spec => []P!TargetIsCurrent
  BY P!TargetIsCurrentCorrect
<1>2. OnJobs /\ P!TargetIsCurrent => TargetIsCurrent
  BY DEF TargetIsCurrent
<1>3. ~OnJobs => TargetIsCurrent
  BY DEF TargetIsCurrent, OnJobs
<1> QED
  BY <1>1, <1>2, <1>3, JobsAlone, PTL

\* Every statement of the queue respects the constraints of the database, and
\* a job is in one call at a time, for any replicas and memberships.
THEOREM AccountsJobsAreSound ==
  ASSUME None \notin Jobs \cup Workers PROVE AccountsSpec => []JobsAreSound
<1>1. P!Spec => []P!JobsAreSound
  BY P!JobsAreSoundCorrect
<1>2. OnJobs /\ P!JobsAreSound => JobsAreSound
  BY DEF JobsAreSound
<1>3. ~OnJobs => JobsAreSound
  BY DEF JobsAreSound, OnJobs
<1> QED
  BY <1>1, <1>2, <1>3, JobsAlone, PTL

\* As long as Authentik answers, a job that reports success has done what it
\* reports, whatever replicas die in the middle of a change, for any replicas and
\* memberships.
THEOREM AccountsSettledIsApplied ==
  ASSUME None \notin Jobs \cup Workers PROVE AccountsSpec => []SettledIsApplied
<1>1. P!Spec => []P!SettledIsApplied
  BY P!SettledIsAppliedCorrect
<1>2. OnJobs /\ P!SettledIsApplied => SettledIsApplied
  BY DEF SettledIsApplied
<1>3. ~OnJobs => SettledIsApplied
  BY DEF SettledIsApplied, OnJobs
<1> QED
  BY <1>1, <1>2, <1>3, JobsAlone, PTL
=============================================================================
