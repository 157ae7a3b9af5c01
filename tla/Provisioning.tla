---------------------------- MODULE Provisioning ----------------------------
(***************************************************************************)
(* The provisioning queue of backend/src/provisioning.js: one job per      *)
(* membership of one person, worked off by any number of backend replicas, *)
(* which bring the account service Authentik in line with the membership   *)
(* and send the person one set-up email.                                   *)
(*                                                                         *)
(* The person has at most one account (Authentik refuses a second user     *)
(* name) and every membership is in a workspace of its own with one        *)
(* Authentik group.  A job and its membership are one member of Jobs.      *)
(*                                                                         *)
(* What the queue relies on and the operator has to configure: a call      *)
(* takes effect, if at all, within the lease taken for it.  `Timely` names *)
(* the two places that use it.  Everything else may happen at any time:    *)
(* a worker may stall or die between any two statements, any answer may be *)
(* lost (unless Lossy is FALSE), leaders may change a membership whenever. *)
(***************************************************************************)
EXTENDS Integers, FiniteSets

CONSTANTS
  Jobs,         \* jobs of the person, one per membership
  Workers,      \* backend replicas
  Roles,
  MaxAttempts,  \* AUTHENTIK_PROVISIONING_MAX_ATTEMPTS
  MaxMoves,     \* bound: requests of leaders, crashes and stalls together
  Lossy,        \* whether answers of Authentik may be lost
  None          \* SQL NULL

ASSUME ProvisioningAssumption ==
  /\ MaxAttempts \in Nat \ {0}
  /\ MaxMoves \in Nat
  /\ Lossy \in BOOLEAN
  /\ None \notin Jobs \cup Workers
  /\ Roles # {}

VARIABLES
  member,   \* tenant_memberships: status and role
  job,      \* authentik_provisioning_jobs
  user,     \* the person's row of app_users
  account,  \* Authentik: no account, one this app made, or a foreign one
  grouped,  \* Authentik: the memberships whose group holds the account
  flying,   \* group changes sent and given up on, that may yet take effect
  wk,       \* per worker: where processNext is, and what it has read
  credit,   \* set-up emails that may be sent: one, plus those asked for
  moves     \* requests, crashes and stalls so far

vars == <<member, job, user, account, grouped, flying, wk, credit, moves>>

Place == {"idle", "claimed", "identity", "identityCall", "groups", "change",
          "adding", "removing", "enroll", "quit", "dispatch", "mail",
          "mailed", "finish"}
InCall == {"identityCall", "adding", "removing", "mail"}
JobStatus == {"none", "pending", "running", "retry_wait", "succeeded", "failed"}
MemberStatus == {"none", "invited", "active", "disabled"}

\* attempts saturates at MaxAttempts: it is only compared with it.  wait is
\* next_attempt_at: not waiting, waiting for the retry delay or for the quiet
\* period, or due.
JobRow ==
  [status: JobStatus,
   step: {"identity", "groups", "enrollment", "complete"},
   role: Roles,
   state: {"active", "disabled"},
   attempts: 0..MaxAttempts,
   required: {"unknown", "yes", "no"},
   sent: BOOLEAN, dispatch: BOOLEAN, resend: BOOLEAN,
   error: {"none", "delivery_unknown", "pending", "other"},
   reconcile: BOOLEAN,
   lease: Workers \cup {None}, expired: BOOLEAN,
   wait: {"none", "delay", "quiet", "due"}]

NewJob(r) ==
  [status |-> "pending", step |-> "identity", role |-> r, state |-> "active",
   attempts |-> 0, required |-> "unknown", sent |-> FALSE, dispatch |-> FALSE,
   resend |-> FALSE, error |-> "none", reconcile |-> FALSE, lease |-> None,
   expired |-> FALSE, wait |-> "none"]
NoJob == [NewJob(CHOOSE r \in Roles : TRUE) EXCEPT !.status = "none"]
NoMember == [status |-> "none", role |-> CHOOSE r \in Roles : TRUE]
Idle == [at |-> "idle", on |-> None, wants |-> FALSE, seen |-> FALSE]

ProvTypeOK ==
  /\ member \in [Jobs -> [status: MemberStatus, role: Roles]]
  /\ job \in [Jobs -> JobRow]
  /\ user \in [linked: BOOLEAN, managed: BOOLEAN, sent: BOOLEAN,
               owner: Jobs \cup {None}, login: BOOLEAN]
  /\ account \in {"none", "ours", "foreign"}
  /\ grouped \subseteq Jobs
  /\ flying \subseteq Jobs \X {"adding", "removing"}
  /\ wk \in [Workers -> [at: Place, on: Jobs \cup {None}, wants: BOOLEAN,
                         seen: BOOLEAN]]
  /\ credit \in Int
  /\ moves \in 0..MaxMoves

Init ==
  /\ member = [j \in Jobs |-> NoMember]
  /\ job = [j \in Jobs |-> NoJob]
  /\ user = [linked |-> FALSE, managed |-> FALSE, sent |-> FALSE,
             owner |-> None, login |-> FALSE]
  /\ account \in {"none", "foreign"}
  /\ grouped = {}
  /\ flying = {}
  /\ wk = [w \in Workers |-> Idle]
  /\ credit = 1
  /\ moves = 0

-----------------------------------------------------------------------------
(***************************************************************************)
(* Faulty variants of operators that follow.  No specification uses them;  *)
(* each shows that a property notices the bug when it takes the operator's *)
(* place.                                                                  *)
(***************************************************************************)

HoldsRunning(js, w) == js[wk[w].on].status = "running"
RestartedUnread(js, j, quiet) ==
  [js[j] EXCEPT !.status = "pending", !.step = "identity", !.attempts = 0,
                !.reconcile = FALSE, !.lease = None, !.expired = FALSE]
EnqueuedAtOnce(j, r, state) ==
  [job[j] EXCEPT
    !.role = r, !.state = state, !.step = "identity", !.status = "pending",
    !.attempts = 0, !.resend = FALSE, !.wait = "none", !.error = "none",
    !.lease = None, !.expired = FALSE, !.reconcile = FALSE,
    !.required = IF job[j].sent THEN "yes" ELSE "unknown"]
NobodyDispatches(j) == FALSE
OnlyFreeEmail(j) == user.owner \in {None, j}

-----------------------------------------------------------------------------
(***************************************************************************)
(* What the statements of the store write.  js is the table of jobs the    *)
(* statement finds.                                                        *)
(***************************************************************************)

StateOf(j) == IF member[j].status = "disabled" THEN "disabled" ELSE "active"

\* The fence of every statement a worker issues.
Holds(js, w) == js[wk[w].on].lease = w
Current(js, w) == Holds(js, w) /\ ~js[wk[w].on].reconcile

Unleased(row) == [row EXCEPT !.lease = None, !.expired = FALSE]

\* restartIfRequested: the job starts over for what the membership is now.
Restarted(js, j, quiet) ==
  Unleased([js[j] EXCEPT
    !.role = member[j].role, !.state = StateOf(j), !.step = "identity",
    !.status = IF quiet THEN "retry_wait" ELSE "pending",
    !.wait = IF quiet THEN "quiet" ELSE "none",
    !.attempts = 0, !.error = "none", !.resend = FALSE, !.reconcile = FALSE,
    !.sent = @ /\ StateOf(j) = "active",
    !.required = IF StateOf(j) = "disabled" THEN "no"
                 ELSE IF @ = "no" /\ ~js[j].sent THEN "unknown" ELSE @])

\* fail: only enrollment_pending is retried without end and gives its
\* attempt back.
Failed(row, code, retryable) ==
  LET again == code = "pending" \/ (retryable /\ row.attempts < MaxAttempts)
  IN Unleased([row EXCEPT
       !.status = IF again THEN "retry_wait" ELSE "failed",
       !.wait = IF again THEN "delay" ELSE "none",
       !.attempts = IF code = "pending" THEN @ - 1 ELSE @,
       !.error = code])

\* processNext after a lost lease, and after any other error.  unsure: the
\* call may have taken effect, or may still.
AfterLoss(js, w) ==
  LET j == wk[w].on IN
  IF Holds(js, w) /\ js[j].reconcile
    THEN [js EXCEPT ![j] = Restarted(js, j, FALSE)] ELSE js
AfterError(js, w, code, retryable, unsure) ==
  LET j == wk[w].on IN
  IF ~Holds(js, w) THEN js
  ELSE IF js[j].reconcile THEN [js EXCEPT ![j] = Restarted(js, j, unsure)]
  ELSE [js EXCEPT ![j] = Failed(@, code, retryable)]

\* satisfyEnrollmentFromVerifiedLogin: nobody who has signed in needs a
\* set-up email; waiting jobs restart, a running one is told to.
Satisfies(js, j) ==
  /\ js[j].state = "active"
  /\ member[j].status \in {"invited", "active"}
  /\ member[j].role = js[j].role
SatisfiedRow(js, j) ==
  LET met == Satisfies(js, j)
      enrolling == met /\ js[j].step = "enrollment"
      parked == enrolling /\ js[j].status \in {"pending", "retry_wait", "failed"}
  IN [js[j] EXCEPT
       !.required = IF met THEN "no" ELSE @,
       !.sent = @ /\ ~met,
       !.resend = FALSE, !.dispatch = FALSE,
       !.step = IF parked THEN "identity" ELSE @,
       !.status = IF parked THEN "pending" ELSE @,
       !.attempts = IF parked THEN 0 ELSE @,
       !.wait = IF enrolling THEN "none" ELSE @,
       !.error = IF enrolling THEN "none" ELSE @,
       !.reconcile = IF parked THEN FALSE ELSE @ \/ enrolling]
Satisfied(js) ==
  [j \in Jobs |-> IF js[j].status = "none" THEN js[j] ELSE SatisfiedRow(js, j)]

-----------------------------------------------------------------------------
(***************************************************************************)
(* Leaders and the person.                                                 *)
(***************************************************************************)

\* enqueue, on a job there is.
Enqueued(j, r, state) ==
  IF job[j].status = "running" THEN [job[j] EXCEPT !.reconcile = TRUE]
  ELSE [job[j] EXCEPT
    !.role = r, !.state = state, !.step = "identity", !.status = "pending",
    !.attempts = 0, !.resend = FALSE, !.wait = "none", !.error = "none",
    !.reconcile = FALSE,
    !.required = IF state = "active" /\ @ = "no" /\ ~job[j].sent
                 THEN "unknown" ELSE @]

\* POST members.
Invite(j, r) ==
  /\ member[j].status = "none"
  /\ member' = [member EXCEPT ![j] = [status |-> "invited", role |-> r]]
  /\ job' = [job EXCEPT ![j] = NewJob(r)]
  /\ UNCHANGED <<user, account, grouped, flying, wk, credit>>

\* PATCH members and POST disable; an access that is given back waits for
\* the worker as an invitation.
Patch(j, r, status) ==
  /\ member[j].status # "none"
  /\ member' = [member EXCEPT ![j] =
       [role |-> r,
        status |-> IF status = "active" /\ @.status # "active" THEN "invited"
                   ELSE status]]
  /\ job' = [job EXCEPT ![j] =
       Enqueued(j, r, IF status = "disabled" THEN "disabled" ELSE "active")]
  /\ UNCHANGED <<user, account, grouped, flying, wk, credit>>

\* DELETE members: an invitation that never got an identity.
Cancel(j) ==
  /\ member[j].status = "invited"
  /\ ~user.login /\ ~user.linked
  /\ job[j].status = "failed" /\ job[j].step = "identity"
  /\ member' = [member EXCEPT ![j] = NoMember]
  /\ job' = [job EXCEPT ![j] = NoJob]
  /\ UNCHANGED <<user, account, grouped, flying, wk, credit>>

\* POST retry.  It acknowledges an uncertain email: of the job itself, or
\* of the job that owns the email and has stopped.
StoppedOwner(j) ==
  {o \in Jobs \ {j} :
     /\ user.owner = o /\ job[o].dispatch
     /\ \/ job[o].status \in {"failed", "retry_wait"}
        \/ job[o].status = "succeeded" /\ job[o].state = "disabled"}
Acknowledges(j) ==
  \/ job[j].dispatch /\ job[j].error = "delivery_unknown"
  \/ StoppedOwner(j) # {}
Retry(j) ==
  /\ job[j].status \in {"failed", "retry_wait"}
  /\ job' = [k \in Jobs |->
       IF k = j THEN [job[j] EXCEPT
         !.status = "pending", !.step = "identity", !.attempts = 0,
         !.wait = "none", !.error = "none",
         !.dispatch = @ /\ job[j].error # "delivery_unknown"]
       ELSE IF k \in StoppedOwner(j) THEN [job[k] EXCEPT !.dispatch = FALSE]
       ELSE job[k]]
  /\ user' = [user EXCEPT !.owner = IF @ \in StoppedOwner(j) THEN None ELSE @]
  /\ credit' = IF Acknowledges(j) THEN credit + 1 ELSE credit
  /\ UNCHANGED <<member, account, grouped, flying, wk>>

\* POST resend-enrollment.
Resend(j) ==
  /\ job[j].state = "active" /\ job[j].status = "succeeded"
  /\ job[j].required = "yes" /\ job[j].sent
  /\ member[j].status = "active"
  /\ ~user.login /\ user.sent /\ user.managed /\ user.linked
  /\ job' = [job EXCEPT ![j] = [@ EXCEPT
       !.step = "enrollment", !.status = "pending", !.attempts = 0,
       !.sent = FALSE, !.resend = TRUE, !.dispatch = FALSE]]
  /\ credit' = credit + 1
  /\ UNCHANGED <<member, user, account, grouped, flying, wk>>

\* The person signs in (ensureUser), and the request goes on to settle the
\* enrollment (authContext).
Login ==
  /\ account # "none" /\ ~user.login
  /\ user' = [user EXCEPT !.login = TRUE]
  /\ UNCHANGED <<member, job, account, grouped, flying, wk, credit>>
VerifiedLogin ==
  /\ user.login /\ user.linked
  /\ ~user.sent \/ user.owner # None
  /\ user' = [user EXCEPT !.sent = TRUE, !.owner = None]
  /\ job' = Satisfied(job)
  /\ UNCHANGED <<member, account, grouped, flying, wk, credit>>

-----------------------------------------------------------------------------
(***************************************************************************)
(* The worker.  external() looks for a restart and renews the lease before *)
(* a call, and looks for a restart again after it.                         *)
(***************************************************************************)

Goto(w, place) == wk' = [wk EXCEPT ![w].at = place]
Leave(w) == wk' = [wk EXCEPT ![w] = Idle]
Renewed(j) == [job EXCEPT ![j].expired = FALSE]

\* How processNext ends: the lease is lost or a restart was asked for; an
\* error; a call refused for good or for now; a call without an answer.
Quit(w) == job' = AfterLoss(job, w) /\ Leave(w)
Fail(w, code, retryable, unsure) ==
  job' = AfterError(job, w, code, retryable, unsure) /\ Leave(w)
Refused(w) == \E retryable \in BOOLEAN : Fail(w, "other", retryable, FALSE)
Lost(w) == Lossy /\ Fail(w, "other", TRUE, TRUE)

\* claimNext: leases that ran out are taken back, then one job is leased.
Swept ==
  [j \in Jobs |->
    IF job[j].status = "running" /\ job[j].expired
    THEN Unleased([job[j] EXCEPT !.status = "retry_wait", !.wait = "due",
                                 !.error = "other"])
    ELSE job[j]]
Claim(w, j) ==
  /\ wk[w].at = "idle"
  /\ Swept[j].status = "pending" \/ Swept[j].wait = "due"
  /\ job' = [Swept EXCEPT ![j] = [Swept[j] EXCEPT
       !.status = "running", !.wait = "none", !.lease = w,
       !.attempts = IF Swept[j].attempts < MaxAttempts
                    THEN Swept[j].attempts + 1 ELSE Swept[j].attempts]]
  /\ wk' = [wk EXCEPT ![w] = [Idle EXCEPT !.at = "claimed", !.on = j]]
  /\ UNCHANGED <<member, user, account, grouped, flying, credit>>

\* reconcile: the job must ask for what the membership is.
OnTarget(j) == job[j].role = member[j].role /\ job[j].state = StateOf(j)
Begin(w) ==
  /\ wk[w].at = "claimed"
  /\ \/ ~Holds(job, w) /\ Quit(w)
     \/ /\ Holds(job, w) /\ ~OnTarget(wk[w].on)
        /\ Fail(w, "other", FALSE, FALSE)
     \/ /\ Holds(job, w) /\ OnTarget(wk[w].on)
        /\ Goto(w, IF job[wk[w].on].step = "enrollment" THEN "enroll"
                   ELSE job[wk[w].on].step)
        /\ UNCHANGED job
  /\ UNCHANGED <<member, user, account, grouped, flying, credit>>

\* complete: the last check under the membership's lock.
Completable(js, j) ==
  /\ js[j].role = member[j].role /\ js[j].state = StateOf(j)
  /\ js[j].state = "active" /\ js[j].required = "yes" => js[j].sent
Complete(w, js) ==
  LET j == wk[w].on IN
  /\ \/ ~Current(js, w) /\ job' = AfterLoss(js, w) /\ UNCHANGED member
     \/ /\ Current(js, w) /\ ~Completable(js, j)
        /\ job' = AfterError(js, w, "other", FALSE, FALSE)
        /\ UNCHANGED member
     \/ /\ Current(js, w) /\ Completable(js, j)
        /\ member' = [member EXCEPT ![j].status =
             IF @ = "invited" THEN "active" ELSE @]
        /\ job' = [js EXCEPT ![j] = Unleased([@ EXCEPT
             !.step = "complete", !.status = "succeeded", !.error = "none"])]
  /\ Leave(w)

\* Looking for a restart and renewing the lease, then the call.
Call(w, place) ==
  \/ ~Current(job, w) /\ Quit(w)
  \/ Current(job, w) /\ job' = Renewed(wk[w].on) /\ Goto(w, place)

\* identityStep: find the account by its id or UUID, or create it.
IdentityCall(w) ==
  /\ wk[w].at = "identity"
  /\ Call(w, "identityCall")
  /\ UNCHANGED <<member, user, account, grouped, flying, credit>>

\* recordIdentity, under the locks of membership, jobs and person.
RecordIdentity(w, acct) ==
  LET j == wk[w].on
      managed == user.managed \/ acct = "ours"
      candidate == job[j].state = "active" /\ managed /\ ~user.login
      js == IF user.login THEN Satisfied(job) ELSE job
  IN
  /\ user' = [user EXCEPT !.linked = TRUE, !.managed = managed,
                          !.sent = @ \/ user.login,
                          !.owner = IF user.login THEN None ELSE @]
  /\ job' = [js EXCEPT ![j] = [js[j] EXCEPT
       !.step = "groups",
       !.required = IF user.login THEN "no"
                    ELSE IF candidate /\ user.sent THEN "yes"
                    ELSE IF js[j].required # "unknown" THEN js[j].required
                    ELSE IF candidate THEN "yes" ELSE "no",
       !.sent = ~user.login /\ (js[j].sent \/ (candidate /\ user.sent))]]
  /\ Goto(w, "groups")

IdentityAnswer(w) ==
  LET state == job[wk[w].on].state
      acct == IF account = "none" /\ state = "active" THEN "ours" ELSE account
  IN
  /\ wk[w].at = "identityCall"
  /\ \/ /\ account' = acct
        /\ \/ ~Current(job, w) /\ Quit(w) /\ UNCHANGED <<member, user>>
           \/ /\ Current(job, w) /\ acct = "none"
              /\ Complete(w, job) /\ UNCHANGED user
           \/ /\ Current(job, w) /\ acct # "none"
              /\ RecordIdentity(w, acct) /\ UNCHANGED member
     \/ Refused(w) /\ UNCHANGED <<account, member, user>>
     \/ Lost(w) /\ account' \in {account, acct} /\ UNCHANGED <<member, user>>
  /\ UNCHANGED <<grouped, flying, credit>>

\* groupsStep: the account is read once, with its groups; the group is then
\* changed only if what was read calls for it.
ReadAccount(w) ==
  LET j == wk[w].on IN
  /\ wk[w].at = "groups"
  /\ \/ ~Current(job, w) /\ Quit(w)
     \/ /\ Current(job, w)
        /\ job' = Renewed(j)
        /\ wk' = [wk EXCEPT ![w] = [@ EXCEPT
             !.at = "change", !.seen = j \in grouped,
             !.wants = job[j].required = "yes" /\ ~job[j].sent]]
     \/ Current(job, w) /\ (Refused(w) \/ Lost(w))
  /\ UNCHANGED <<member, user, account, grouped, flying, credit>>

\* The end of groupsStep: on to the email, or done.
EndGroups(w) ==
  LET j == wk[w].on IN
  \/ ~Current(job, w) /\ Quit(w) /\ UNCHANGED member
  \/ /\ Current(job, w) /\ job[j].state = "active" /\ wk[w].wants
     /\ job' = [job EXCEPT ![j].step = "enrollment"]
     /\ Goto(w, "enroll")
     /\ UNCHANGED member
  \/ /\ Current(job, w) /\ ~(job[j].state = "active" /\ wk[w].wants)
     /\ Complete(w, job)

ChangeGroup(w) ==
  LET active == job[wk[w].on].state = "active" IN
  /\ wk[w].at = "change"
  /\ \/ /\ wk[w].seen # active
        /\ Call(w, IF active THEN "adding" ELSE "removing")
        /\ UNCHANGED member
     \/ wk[w].seen = active /\ EndGroups(w)
  /\ UNCHANGED <<user, account, grouped, flying, credit>>

Effect(j, op) == IF op = "adding" THEN grouped \cup {j} ELSE grouped \ {j}
GroupAnswer(w) ==
  LET j == wk[w].on IN
  /\ wk[w].at \in {"adding", "removing"}
  /\ \/ grouped' = Effect(j, wk[w].at) /\ EndGroups(w) /\ UNCHANGED flying
     \/ Refused(w) /\ UNCHANGED <<member, grouped, flying>>
     \/ /\ Lost(w) /\ flying' = flying \cup {<<j, wk[w].at>>}
        /\ UNCHANGED <<member, grouped>>
  /\ UNCHANGED <<user, account, credit>>

\* enrollmentStep up to the dispatch, with claimEnrollment: one job of the
\* person owns the email.
EmailWanted(j) ==
  job[j].state = "active" /\ job[j].required = "yes" /\ ~job[j].sent /\ user.managed
OwnerDispatches(j) ==
  \E o \in Jobs \ {j} : user.owner = o /\ job[o].dispatch
CanOwn(j) ==
  \/ user.owner \in {None, j}
  \/ \E o \in Jobs : user.owner = o /\ job[o].status \in {"failed", "succeeded"}
SentBefore(j) == ~job[j].resend /\ user.sent

ClaimEnrollment(w) ==
  LET j == wk[w].on
      owns == ~SentBefore(j) /\ ~OwnerDispatches(j) /\ CanOwn(j)
  IN
  \/ /\ user.login /\ user.linked
     /\ user' = [user EXCEPT !.sent = TRUE, !.owner = None]
     /\ job' = Satisfied(job)
     /\ Goto(w, "quit")
  \/ /\ ~(user.login /\ user.linked)
     /\ user' = [user EXCEPT !.owner = IF owns THEN j ELSE @]
     /\ \/ job[j].dispatch /\ Fail(w, "delivery_unknown", FALSE, FALSE)
        \/ /\ ~job[j].dispatch /\ SentBefore(j)
           /\ job' = [job EXCEPT ![j].sent = TRUE]
           /\ Goto(w, "finish")
        \/ /\ ~job[j].dispatch /\ ~SentBefore(j) /\ OwnerDispatches(j)
           /\ Fail(w, "delivery_unknown", FALSE, FALSE)
        \/ /\ ~job[j].dispatch /\ ~SentBefore(j) /\ ~OwnerDispatches(j)
           /\ ~CanOwn(j)
           /\ Fail(w, "pending", TRUE, FALSE)
        \/ /\ ~job[j].dispatch /\ owns
           /\ Goto(w, "dispatch")
           /\ UNCHANGED job

Enroll(w) ==
  /\ wk[w].at = "enroll"
  /\ \/ ~Current(job, w) /\ Quit(w) /\ UNCHANGED user
     \/ /\ Current(job, w) /\ ~EmailWanted(wk[w].on)
        /\ Goto(w, "finish") /\ UNCHANGED <<job, user>>
     \/ Current(job, w) /\ EmailWanted(wk[w].on) /\ ClaimEnrollment(w)
  /\ UNCHANGED <<member, account, grouped, flying, credit>>

\* The LEASE_LOST that follows a verified login.
SignedIn(w) ==
  /\ wk[w].at = "quit"
  /\ Quit(w)
  /\ UNCHANGED <<member, user, account, grouped, flying, credit>>

\* recordEnrollmentDispatchStarted: from here on the email may be out.
Dispatch(w) ==
  LET j == wk[w].on IN
  /\ wk[w].at = "dispatch"
  /\ \/ /\ ~(Current(job, w) /\ ~job[j].dispatch)
        /\ Quit(w) /\ UNCHANGED credit
     \/ /\ Current(job, w) /\ ~job[j].dispatch
        /\ job' = [Renewed(j) EXCEPT ![j].dispatch = TRUE]
        /\ credit' = credit - 1
        /\ Goto(w, "mail")
  /\ UNCHANGED <<member, user, account, grouped, flying>>

\* sendRecoveryEmail.  Only a definite refusal releases the marker.
EmailAnswer(w) ==
  LET j == wk[w].on
      released == [job EXCEPT ![j].dispatch = FALSE]
  IN
  /\ wk[w].at = "mail"
  /\ \/ Goto(w, "mailed") /\ UNCHANGED <<job, user, credit>>
     \/ /\ Lossy /\ Fail(w, "delivery_unknown", FALSE, FALSE)
        /\ UNCHANGED <<user, credit>>
     \/ /\ Holds(job, w) /\ job[j].dispatch /\ user.owner = j
        /\ user' = [user EXCEPT !.owner = None]
        /\ \E retryable \in BOOLEAN :
             job' = AfterError(released, w, "other", retryable, FALSE)
        /\ credit' = credit + 1
        /\ Leave(w)
     \/ /\ ~(Holds(job, w) /\ job[j].dispatch /\ user.owner = j)
        /\ Quit(w) /\ UNCHANGED <<user, credit>>
  /\ UNCHANGED <<member, account, grouped, flying>>

\* recordEnrollmentSent wakes the jobs that wait for this email.  It does
\* not look for a restart.  A commit without an answer, made or not, counts
\* as uncertain delivery.
RecordSent(w) ==
  LET j == wk[w].on
      owns == Holds(job, w) /\ user.owner = j
      recorded == [k \in Jobs |->
        IF k = j THEN [job[j] EXCEPT !.sent = TRUE, !.resend = FALSE,
                                     !.dispatch = FALSE]
        ELSE IF job[k].status = "retry_wait" /\ job[k].error = "pending"
        THEN [job[k] EXCEPT !.wait = "due"] ELSE job[k]]
  IN
  /\ wk[w].at = "mailed"
  /\ \/ ~owns /\ Quit(w) /\ UNCHANGED user
     \/ /\ owns
        /\ user' = [user EXCEPT !.sent = TRUE, !.owner = None]
        /\ \/ job' = recorded /\ Goto(w, "finish")
           \/ /\ job' = AfterError(recorded, w, "delivery_unknown", FALSE, FALSE)
              /\ Leave(w)
     \/ Fail(w, "delivery_unknown", FALSE, FALSE) /\ UNCHANGED user
  /\ UNCHANGED <<member, account, grouped, flying, credit>>

Finish(w) ==
  /\ wk[w].at = "finish"
  /\ Complete(w, job)
  /\ UNCHANGED <<user, account, grouped, flying, credit>>

\* The replica dies, in a call or between two.
Crash(w) ==
  /\ wk[w].at # "idle"
  /\ flying' = IF wk[w].at \in {"adding", "removing"}
               THEN flying \cup {<<wk[w].on, wk[w].at>>} ELSE flying
  /\ Leave(w)
  /\ UNCHANGED <<member, job, user, account, grouped, credit>>

-----------------------------------------------------------------------------
(***************************************************************************)
(* Time and Authentik.                                                     *)
(***************************************************************************)

\* No group change sent for job j can still take effect, and nobody waits
\* for the answer to one sent under its lease.
Timely(j) ==
  /\ ~\E op \in {"adding", "removing"} : <<j, op>> \in flying
  /\ \A w \in Workers : wk[w].on = j /\ job[j].lease = w => wk[w].at \notin InCall

LeaseRunsOut(j) ==
  /\ job[j].status = "running" /\ ~job[j].expired
  /\ Timely(j)
  /\ job' = [job EXCEPT ![j].expired = TRUE]
  /\ UNCHANGED <<member, user, account, grouped, flying, wk, credit>>

DelayEnds(j) ==
  /\ job[j].wait = "delay" \/ (job[j].wait = "quiet" /\ Timely(j))
  /\ job' = [job EXCEPT ![j].wait = "due"]
  /\ UNCHANGED <<member, user, account, grouped, flying, wk, credit>>

\* A call nobody waits for takes effect, or never does.
Land(call) ==
  /\ call \in flying
  /\ grouped' \in {grouped, Effect(call[1], call[2])}
  /\ flying' = flying \ {call}
  /\ UNCHANGED <<member, job, user, account, wk, credit>>

-----------------------------------------------------------------------------
WorkerStep(w) ==
  \/ Begin(w) \/ IdentityCall(w) \/ IdentityAnswer(w) \/ ReadAccount(w)
  \/ ChangeGroup(w) \/ GroupAnswer(w) \/ Enroll(w) \/ SignedIn(w)
  \/ Dispatch(w) \/ EmailAnswer(w) \/ RecordSent(w) \/ Finish(w)

LeaderStep ==
  \E j \in Jobs :
    \/ \E r \in Roles : Invite(j, r)
    \/ \E r \in Roles : \E s \in {member[j].status, "active", "disabled"} :
         Patch(j, r, s)
    \/ Cancel(j) \/ Retry(j) \/ Resend(j)

Abandoned(j) == \A w \in Workers : ~(wk[w].on = j /\ job[j].lease = w)
TimeStep ==
  \/ \E j \in Jobs : (Abandoned(j) /\ LeaseRunsOut(j)) \/ DelayEnds(j)
  \/ \E call \in flying : Land(call)
Work ==
  \/ \E w \in Workers : WorkerStep(w) \/ \E j \in Jobs : Claim(w, j)
  \/ TimeStep
Person == Login \/ VerifiedLogin
Disturbance ==
  \/ LeaderStep
  \/ \E w \in Workers : Crash(w)
  \/ \E j \in Jobs : ~Abandoned(j) /\ LeaseRunsOut(j)
Next ==
  \/ (Work \/ Person) /\ UNCHANGED moves
  \/ moves < MaxMoves /\ moves' = moves + 1 /\ Disturbance

Spec == Init /\ [][Next]_vars

\* The timer of drain() runs a live worker on; claimNext takes the job that
\* has waited longest, so none is passed over for ever; time passes.
FairSpec ==
  /\ Spec
  /\ \A w \in Workers : WF_vars(WorkerStep(w) /\ UNCHANGED moves)
  /\ \A j \in Jobs :
       /\ SF_vars((\E w \in Workers : Claim(w, j)) /\ UNCHANGED moves)
       /\ WF_vars(Abandoned(j) /\ LeaseRunsOut(j) /\ UNCHANGED moves)
       /\ WF_vars(DelayEnds(j) /\ UNCHANGED moves)
       /\ \A op \in {"adding", "removing"} :
            WF_vars(Land(<<j, op>>) /\ UNCHANGED moves)

-----------------------------------------------------------------------------
(***************************************************************************)
(* Safety.                                                                 *)
(***************************************************************************)

\* The CHECK constraints of db/019, 020 and 021, which every statement has
\* to respect or the transaction fails: a lease exactly while running, a
\* time to wait for exactly while waiting, finished exactly when the last
\* step is, an email recorded only where one was required, and nothing about
\* emails on a person without an account.
ChecksHold ==
  /\ \A j \in Jobs :
       /\ (job[j].lease # None) <=> (job[j].status = "running")
       /\ (job[j].wait # "none") <=> (job[j].status = "retry_wait")
       /\ (job[j].step = "complete") <=> (job[j].status = "succeeded")
       /\ job[j].sent => job[j].required = "yes"
  /\ user.sent \/ user.owner # None => user.linked

\* A job either asks for what the membership is, or knows that it does not:
\* whoever changes a membership while a worker holds the job leaves a note
\* that survives the worker, its lease and every retry.
TargetIsCurrent ==
  \A j \in Jobs :
    member[j].status # "none" /\ ~job[j].reconcile => OnTarget(j)

\* No set-up email goes out that is neither the first one nor asked for: by
\* a resend, or by a retry that acknowledges the uncertain one.  A crash, a
\* lost answer, a lost commit or a second job never repeats it.
NoUnaskedEmail == credit >= 0

\* The marker of an email that may be out is on the job that owns it, so at
\* most one job of the person has one and the others can see it.
DispatchIsOwned == \A j \in Jobs : job[j].dispatch => user.owner = j

\* Two workers are never in a call to Authentik for the same job.
OneCallPerJob ==
  \A v, w \in Workers :
    v # w /\ {wk[v].at, wk[w].at} \subseteq InCall => wk[v].on # wk[w].on

\* A job is well formed and in one call at a time, whoever holds it.
JobsAreSound == ProvTypeOK /\ ChecksHold /\ OneCallPerJob

\* Whoever is ready in a workspace can sign in: an account made by the app
\* was told of itself, by email or by having signed in.
ReadyCanSignIn ==
  \A j \in Jobs :
    job[j].status = "succeeded" /\ job[j].state = "active" /\ account = "ours"
      => user.sent

\* Set-up emails are those that were asked for, told of by the job that sends
\* them, and reach everyone who needs one.
EmailsAreAsked == NoUnaskedEmail /\ DispatchIsOwned /\ ReadyCanSignIn

\* Authentik agrees with a job that reports success: the group holds the
\* account exactly if the membership is active.
SettledIsApplied ==
  \A j \in Jobs :
    job[j].status = "succeeded" =>
      (j \in grouped <=> job[j].state = "active" /\ member[j].status = "active")

\* Once leaders, crashes and stalls leave it alone, every job comes to an
\* end, with no change of its membership left over: no two jobs wait for
\* each other's email, no lost lease or note is forgotten.
EveryJobSettles ==
  <>[](\A j \in Jobs :
         /\ job[j].status \in {"none", "succeeded", "failed"}
         /\ ~job[j].reconcile)

\* Nobody works on the opposite change while one that got no answer may
\* still take effect.
QuietBeforeOpposite ==
  \A j \in Jobs :
    job[j].status = "running" =>
      <<j, IF job[j].state = "active" THEN "removing" ELSE "adding">> \notin flying

\* While one job of the person is at work on the email, another waits for
\* it and does not give up.
SecondJobWaits ==
  [][\A j \in Jobs :
       job[j].status = "running" /\ job'[j].error = "delivery_unknown"
         => \A o \in Jobs \ {j} : ~(user.owner = o /\ job[o].status = "running")]_vars

\* Retrying an email that was asked for again sends it: no job ends well
\* with the wish for an email still on it.
ResendIsKept ==
  \A j \in Jobs : job[j].status = "succeeded" => ~job[j].resend
====
