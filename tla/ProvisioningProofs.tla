------------------------- MODULE ProvisioningProofs -------------------------
(***************************************************************************)
(* Proofs about the provisioning queue, for any number of jobs of one      *)
(* person, replicas and attempts, with answers lost or not.                *)
(***************************************************************************)
EXTENDS Provisioning, FiniteSetTheorems, TLAPS

MemberRow == [status: MemberStatus, role: Roles]
UserRow == [linked: BOOLEAN, managed: BOOLEAN, sent: BOOLEAN,
            owner: Jobs \cup {None}, login: BOOLEAN]
WorkerRow == [at: Place, on: Jobs \cup {None}, wants: BOOLEAN, seen: BOOLEAN]

\* What a row of a job satisfies by itself: the checks of the database, and that
\* only a running job has a lease to run out and has used an attempt.
Sane(row) ==
  /\ row \in JobRow
  /\ (row.lease # None) <=> (row.status = "running")
  /\ (row.wait # "none") <=> (row.status = "retry_wait")
  /\ (row.step = "complete") <=> (row.status = "succeeded")
  /\ row.sent => row.required = "yes"
  /\ row.status = "running" => row.attempts >= 1

\* A row asks for what the membership m is, or knows that it does not; without
\* a membership there is no job.
Asks(m, row) ==
  /\ m.status = "none" => row.status = "none"
  /\ m.status # "none" /\ ~row.reconcile =>
       /\ row.role = m.role
       /\ row.state = IF m.status = "disabled" THEN "disabled" ELSE "active"

\* A table of jobs, and the memberships it is for.
Good(js, ms) ==
  /\ js \in [Jobs -> JobRow]
  /\ \A k \in Jobs : Sane(js[k]) /\ Asks(ms[k], js[k])

-----------------------------------------------------------------------------
(***************************************************************************)
(* Rows.                                                                   *)
(***************************************************************************)

\* Giving up the lease.
LEMMA UnleasedIs ==
  ASSUME NEW row \in JobRow
  PROVE  /\ Unleased(row) \in JobRow
         /\ Unleased(row).lease = None /\ ~Unleased(row).expired
         /\ Unleased(row).status = row.status /\ Unleased(row).step = row.step
         /\ Unleased(row).role = row.role /\ Unleased(row).state = row.state
         /\ Unleased(row).wait = row.wait /\ Unleased(row).attempts = row.attempts
         /\ Unleased(row).sent = row.sent /\ Unleased(row).required = row.required
         /\ Unleased(row).reconcile = row.reconcile
BY DEF Unleased, JobRow

\* A job that fails, or is to be tried again, keeps its target.
LEMMA FailedIsSane ==
  ASSUME NEW row, Sane(row), row.status = "running",
         NEW code \in {"delivery_unknown", "pending", "other"}, NEW retryable \in BOOLEAN
  PROVE  /\ Sane(Failed(row, code, retryable))
         /\ Failed(row, code, retryable).role = row.role
         /\ Failed(row, code, retryable).state = row.state
         /\ Failed(row, code, retryable).reconcile = row.reconcile
         /\ Failed(row, code, retryable).lease = None
         /\ Failed(row, code, retryable).step = row.step
<1> DEFINE again == code = "pending" \/ (retryable /\ row.attempts < MaxAttempts)
           left == IF code = "pending" THEN row.attempts - 1 ELSE row.attempts
           out == [row EXCEPT !.status = IF again THEN "retry_wait" ELSE "failed",
                              !.wait = IF again THEN "delay" ELSE "none",
                              !.attempts = left,
                              !.error = code]
<1>1. row \in JobRow /\ row.attempts \in 0..MaxAttempts /\ row.attempts >= 1
  BY DEF Sane, JobRow
<1>2. left \in 0..MaxAttempts
  BY <1>1, ProvisioningAssumption
<1>3. out \in JobRow
  BY <1>1, <1>2 DEF JobRow, JobStatus
<1>4. /\ out.status = IF again THEN "retry_wait" ELSE "failed"
      /\ out.wait = IF again THEN "delay" ELSE "none"
      /\ out.step = row.step /\ out.role = row.role /\ out.state = row.state
      /\ out.sent = row.sent /\ out.required = row.required /\ out.reconcile = row.reconcile
  BY <1>1 DEF JobRow
<1>5. Failed(row, code, retryable) = Unleased(out)
  BY <1>1 DEF Failed, JobRow
<1> HIDE DEF out
<1>6. row.step # "complete"
  BY DEF Sane
<1> QED
  BY <1>3, <1>4, <1>5, <1>6, UnleasedIs DEF Sane

\* A job that starts over asks for what the membership is.
LEMMA RestartedIsSane ==
  ASSUME NEW js, NEW j \in Jobs, Sane(js[j]), member[j] \in MemberRow,
         member[j].status # "none", NEW quiet \in BOOLEAN
  PROVE  /\ Sane(Restarted(js, j, quiet)) /\ Asks(member[j], Restarted(js, j, quiet))
         /\ Restarted(js, j, quiet).lease = None /\ Restarted(js, j, quiet).step = "identity"
<1> DEFINE row == js[j]
           need == IF StateOf(j) = "disabled" THEN "no"
                   ELSE IF row.required = "no" /\ ~row.sent THEN "unknown" ELSE row.required
           sta == IF quiet THEN "retry_wait" ELSE "pending"
           wai == IF quiet THEN "quiet" ELSE "none"
           one == [row EXCEPT
                     !.role = member[j].role, !.state = StateOf(j), !.step = "identity",
                     !.status = sta]
           two == [one EXCEPT !.wait = wai, !.attempts = 0, !.error = "none", !.resend = FALSE]
           out == [two EXCEPT !.reconcile = FALSE,
                              !.sent = row.sent /\ StateOf(j) = "active", !.required = need]
<1>0. 0 \in 0..MaxAttempts
  BY ProvisioningAssumption
<1>1. /\ row \in JobRow /\ member[j].role \in Roles /\ StateOf(j) \in {"active", "disabled"}
      /\ row.sent => row.required = "yes"
  BY ProvisioningAssumption DEF Sane, MemberRow, StateOf
<1>2. need \in {"unknown", "yes", "no"} /\ (row.sent /\ StateOf(j) = "active" => need = "yes")
  BY <1>1 DEF JobRow
<1>3. /\ sta \in {"retry_wait", "pending"} /\ wai \in {"none", "quiet"}
      /\ (wai # "none") <=> (sta = "retry_wait")
  OBVIOUS
<1>4. /\ out \in JobRow /\ out.status = sta /\ out.wait = wai
      /\ out.step = "identity" /\ out.role = member[j].role /\ out.state = StateOf(j)
      /\ out.sent = (row.sent /\ StateOf(j) = "active") /\ out.required = need
  <2> HIDE DEF need, row, sta, wai
  <2>1. /\ one \in JobRow
        /\ one.status = sta
        /\ one.step = "identity" /\ one.role = member[j].role /\ one.state = StateOf(j)
    BY <1>1, <1>3 DEF JobRow, JobStatus
  <2> HIDE DEF one
  <2>2. /\ two \in JobRow
        /\ two.wait = wai
        /\ two.status = one.status /\ two.step = one.step
        /\ two.role = one.role /\ two.state = one.state
    BY ONLY <1>0, <1>3, <2>1 DEF JobRow, two
  <2> HIDE DEF two
  <2>3. /\ out \in JobRow /\ out.sent = (row.sent /\ StateOf(j) = "active")
        /\ out.required = need
        /\ out.wait = two.wait /\ out.status = two.status /\ out.step = two.step
        /\ out.role = two.role /\ out.state = two.state
    BY ONLY <1>2, <2>2 DEF JobRow, out
  <2> HIDE DEF out
  <2> QED
    BY <2>1, <2>2, <2>3
<1>5. Restarted(js, j, quiet) = Unleased(out)
  BY DEF Restarted
<1> HIDE DEF out, one, two, need, sta, wai
<1>6. Sane(Unleased(out))
  <2>1. /\ Unleased(out) \in JobRow /\ Unleased(out).lease = None
        /\ Unleased(out).status = out.status /\ Unleased(out).step = "identity"
        /\ Unleased(out).wait = out.wait
        /\ Unleased(out).sent = (row.sent /\ StateOf(j) = "active")
        /\ Unleased(out).required = need
    BY ONLY <1>4, UnleasedIs
  <2>2. Unleased(out).sent => Unleased(out).required = "yes"
    BY <1>2, <2>1
  <2>3. /\ Unleased(out).status \in {"retry_wait", "pending"}
        /\ (Unleased(out).wait # "none") <=> (Unleased(out).status = "retry_wait")
    BY <1>4, <1>3, <2>1
  <2> QED
    BY ONLY <2>1, <2>2, <2>3 DEF Sane
<1>7. /\ Asks(member[j], Unleased(out)) /\ Unleased(out).lease = None
      /\ Unleased(out).step = "identity"
  BY <1>4, UnleasedIs DEF Asks, StateOf
<1> QED
  BY <1>5, <1>6, <1>7

\* A job that is told of a change asks for it, or has it noted.
LEMMA EnqueuedIsSane ==
  ASSUME NEW j \in Jobs, Sane(job[j]), NEW r \in Roles, NEW state \in {"active", "disabled"}
  PROVE  /\ Sane(Enqueued(j, r, state))
         /\ Enqueued(j, r, state).lease = job[j].lease
         /\ Enqueued(j, r, state).expired = job[j].expired
         /\ job[j].lease = None \/ Enqueued(j, r, state).required = job[j].required
         /\ \/ job[j].lease = None /\ Enqueued(j, r, state).step = "identity"
            \/ /\ Enqueued(j, r, state).step = job[j].step
               /\ Enqueued(j, r, state).state = job[j].state
         /\ \/ Enqueued(j, r, state).reconcile
            \/ Enqueued(j, r, state).role = r /\ Enqueued(j, r, state).state = state
<1> DEFINE row == job[j]
           need == IF state = "active" /\ row.required = "no" /\ ~row.sent THEN "unknown"
                   ELSE row.required
           noted == [row EXCEPT !.reconcile = TRUE]
           one == [row EXCEPT
                     !.role = r, !.state = state, !.step = "identity", !.status = "pending"]
           two == [one EXCEPT !.attempts = 0, !.resend = FALSE, !.wait = "none",
                              !.error = "none"]
           out == [two EXCEPT !.reconcile = FALSE, !.required = need]
<1>0. 0 \in 0..MaxAttempts
  BY ProvisioningAssumption
<1>1. row \in JobRow /\ (row.sent => row.required = "yes")
  BY DEF Sane
<1>2. need \in {"unknown", "yes", "no"} /\ (row.sent => need = "yes")
  BY <1>1 DEF JobRow
<1>3. CASE row.status = "running"
  <2>1. Enqueued(j, r, state) = noted
    BY <1>3 DEF Enqueued
  <2>2. /\ noted \in JobRow /\ noted.reconcile
        /\ noted.status = row.status /\ noted.lease = row.lease /\ noted.wait = row.wait
        /\ noted.step = row.step /\ noted.sent = row.sent /\ noted.required = row.required
        /\ noted.attempts = row.attempts /\ noted.expired = row.expired
        /\ noted.state = row.state
    BY <1>1 DEF JobRow
  <2> HIDE DEF noted
  <2> QED
    BY <2>1, <2>2 DEF Sane
<1>4. CASE row.status # "running"
  <2>1. Enqueued(j, r, state) = out
    BY <1>4 DEF Enqueued
  <2>2. /\ one \in JobRow
        /\ one.role = r /\ one.state = state /\ one.status = "pending"
        /\ one.lease = row.lease /\ one.step = "identity" /\ one.sent = row.sent
        /\ one.expired = row.expired
    BY <1>1 DEF JobRow, JobStatus
  <2> HIDE DEF one, need
  <2>3. /\ two \in JobRow
        /\ two.role = one.role /\ two.state = one.state /\ two.status = one.status
        /\ two.lease = one.lease /\ two.wait = "none" /\ two.step = one.step
        /\ two.sent = one.sent /\ two.expired = one.expired
    BY ONLY <1>0, <2>2 DEF JobRow, two
  <2> HIDE DEF two
  <2>4. /\ out \in JobRow
        /\ out.role = two.role /\ out.state = two.state /\ out.required = need
        /\ out.status = two.status /\ out.lease = two.lease /\ out.wait = two.wait
        /\ out.step = two.step /\ out.sent = two.sent /\ out.expired = two.expired
    BY <1>2, <2>3 DEF JobRow
  <2> HIDE DEF out
  <2>5. row.lease = None
    BY <1>4 DEF Sane
  <2> QED
    BY <1>2, <2>1, <2>2, <2>3, <2>4, <2>5 DEF Sane
<1> QED
  BY <1>3, <1>4

\* A job whose person signed in keeps its lease, and its target or the note.
LEMMA SatisfiedIsSane ==
  ASSUME NEW js, NEW j \in Jobs, Sane(js[j]), member[j] \in MemberRow, Asks(member[j], js[j])
  PROVE  /\ Sane(SatisfiedRow(js, j)) /\ Asks(member[j], SatisfiedRow(js, j))
         /\ SatisfiedRow(js, j).lease = js[j].lease
         /\ SatisfiedRow(js, j).expired = js[j].expired
         /\ js[j].status = "running" => SatisfiedRow(js, j).status = "running"
<1> DEFINE row == js[j]
           met == Satisfies(js, j)
           enrolling == met /\ row.step = "enrollment"
           parked == enrolling /\ row.status \in {"pending", "retry_wait", "failed"}
           need == IF met THEN "no" ELSE row.required
           has == row.sent /\ ~met
           stp == IF parked THEN "identity" ELSE row.step
           sta == IF parked THEN "pending" ELSE row.status
           att == IF parked THEN 0 ELSE row.attempts
           wai == IF enrolling THEN "none" ELSE row.wait
           err == IF enrolling THEN "none" ELSE row.error
           rec == IF parked THEN FALSE ELSE row.reconcile \/ enrolling
           one == [row EXCEPT !.required = need, !.sent = has, !.resend = FALSE,
                              !.dispatch = FALSE]
           two == [one EXCEPT !.step = stp, !.status = sta, !.attempts = att]
           out == [two EXCEPT !.wait = wai, !.error = err, !.reconcile = rec]
<1>0. row \in JobRow /\ 0 \in 0..MaxAttempts
  BY ProvisioningAssumption DEF Sane
<1>1. SatisfiedRow(js, j) = out
  BY DEF SatisfiedRow
<1>2. met \in BOOLEAN
  BY DEF Satisfies
<1>3. /\ need \in {"unknown", "yes", "no"} /\ has \in BOOLEAN
      /\ stp \in {"identity", "groups", "enrollment", "complete"} /\ sta \in JobStatus
      /\ att \in 0..MaxAttempts /\ wai \in {"none", "delay", "quiet", "due"}
      /\ err \in {"none", "delivery_unknown", "pending", "other"} /\ rec \in BOOLEAN
  <2> HIDE DEF met
  <2>1. /\ row.required \in {"unknown", "yes", "no"} /\ row.sent \in BOOLEAN
        /\ row.step \in {"identity", "groups", "enrollment", "complete"}
        /\ row.status \in JobStatus /\ "pending" \in JobStatus
        /\ row.attempts \in 0..MaxAttempts /\ row.wait \in {"none", "delay", "quiet", "due"}
        /\ row.error \in {"none", "delivery_unknown", "pending", "other"}
        /\ row.reconcile \in BOOLEAN
    BY <1>0 DEF JobRow, JobStatus
  <2> QED
    BY <1>0, <1>2, <2>1
<1>4. /\ has => need = "yes"
      /\ (wai # "none") <=> (sta = "retry_wait")
      /\ (stp = "complete") <=> (sta = "succeeded")
      /\ sta = "running" => row.status = "running" /\ att = row.attempts
      /\ row.status = "running" => sta = "running"
      /\ sta # row.status => row.status \in {"pending", "retry_wait", "failed"} /\ sta = "pending"
  <2> HIDE DEF met
  <2>1. enrolling => row.status # "succeeded"
    BY DEF Sane
  <2>2. row.status \in JobStatus
    BY <1>0 DEF JobRow
  <2> QED
    BY <1>2, <2>1, <2>2 DEF Sane, JobStatus
<1>5. met => /\ row.role = member[j].role /\ row.state = "active"
             /\ member[j].status # "disabled"
  BY DEF Satisfies
<1>6. ~rec => ~row.reconcile \/ met
  <2> HIDE DEF met
  <2> QED OBVIOUS
<1> HIDE DEF need, has, stp, sta, att, wai, err, rec, met
<1>7. /\ out \in JobRow
      /\ out.required = need /\ out.sent = has /\ out.step = stp /\ out.status = sta
      /\ out.attempts = att /\ out.wait = wai /\ out.reconcile = rec
      /\ out.lease = row.lease /\ out.expired = row.expired
      /\ out.role = row.role /\ out.state = row.state
  <2>1. /\ one \in JobRow /\ one.required = need /\ one.sent = has
        /\ one.lease = row.lease /\ one.expired = row.expired
        /\ one.role = row.role /\ one.state = row.state
    BY <1>0, <1>3 DEF JobRow
  <2> HIDE DEF one
  <2>2. /\ two \in JobRow /\ two.step = stp /\ two.status = sta /\ two.attempts = att
        /\ two.required = one.required /\ two.sent = one.sent
        /\ two.lease = one.lease /\ two.expired = one.expired
        /\ two.role = one.role /\ two.state = one.state
    BY <1>3, <2>1 DEF JobRow
  <2> HIDE DEF two
  <2>3. /\ out \in JobRow /\ out.wait = wai /\ out.reconcile = rec
        /\ out.required = two.required /\ out.sent = two.sent /\ out.attempts = two.attempts
        /\ out.lease = two.lease /\ out.expired = two.expired
        /\ out.status = two.status /\ out.step = two.step
        /\ out.role = two.role /\ out.state = two.state
    BY ONLY <1>3, <2>2 DEF JobRow, out
  <2> HIDE DEF out
  <2> QED
    BY <2>1, <2>2, <2>3
<1> HIDE DEF out
<1>9. Sane(out)
  <2>1. (row.lease # None) <=> (sta = "running")
    BY <1>4 DEF Sane
  <2> QED
    BY <1>4, <1>7, <2>1 DEF Sane
<1>10. Asks(member[j], out)
  BY <1>4, <1>5, <1>6, <1>7 DEF Asks
<1> QED
  BY <1>1, <1>4, <1>7, <1>9, <1>10

-----------------------------------------------------------------------------
(***************************************************************************)
(* Tables, workers, and what a step of one worker may disturb.             *)
(***************************************************************************)

Kinds ==
  /\ member \in [Jobs -> MemberRow]
  /\ user \in UserRow
  /\ account \in {"none", "ours", "foreign"}
  /\ grouped \subseteq Jobs
  /\ flying \subseteq Jobs \X {"adding", "removing"}
  /\ wk \in [Workers -> WorkerRow]
  /\ credit \in Int
  /\ moves \in 0..MaxMoves

\* A worker that is at work has a job; one in a call holds its lease, which has
\* not run out.
CallsAreLeased ==
  \A w \in Workers :
    /\ wk[w].at # "idle" => wk[w].on \in Jobs
    /\ wk[w].at \in InCall => job[wk[w].on].lease = w /\ ~job[wk[w].on].expired

\* Whoever is about to send or record the email of the job it holds does so for
\* a job that requires one: recordEnrollmentSent does not look again.
Mailing == {"dispatch", "mail", "mailed"}
EmailOwed ==
  \A w \in Workers :
    /\ wk[w].at \in Mailing /\ job[wk[w].on].lease = w /\ user.owner = wk[w].on
    => job[wk[w].on].required = "yes"

\* Nothing about emails, and nothing managed, without an account.
AccountFirst ==
  /\ user.managed => user.linked
  /\ user.sent \/ user.owner # None => user.linked

QueueInv ==
  Kinds /\ Good(job, member) /\ CallsAreLeased /\ EmailOwed /\ AccountFirst

\* In what follows w is the worker that acts, or None.  It changes or gives up
\* its own lease, or takes one that is free or has run out.
Spares(w) ==
  \A k \in Jobs :
    \/ job[k].lease = w /\ job'[k].lease \in {None, w}
    \/ /\ job'[k].lease = job[k].lease /\ job'[k].expired = job[k].expired
       /\ user'.owner = None \/ job'[k].required = job[k].required
    \/ (job[k].lease = None \/ job[k].expired) /\ job'[k].lease \in {None, w}

\* The email passes to nobody, or to the job w holds.
Owner(w) ==
  \/ user'.owner \in {None, user.owner}
  \/ w \in Workers /\ user'.owner = wk[w].on /\ job[wk[w].on].lease = w

\* Only w moves, into a call only with its lease, and to an email that is owed.
Moves(w) ==
  /\ wk' \in [Workers -> WorkerRow]
  /\ \A v \in Workers \ {w} : wk'[v] = wk[v]
  /\ w \in Workers =>
       /\ wk'[w].at # "idle" => wk'[w].on \in Jobs
       /\ wk'[w].at \in InCall => job'[wk'[w].on].lease = w /\ ~job'[wk'[w].on].expired
       /\ wk'[w].at \in Mailing /\ job'[wk'[w].on].lease = w /\ user'.owner = wk'[w].on
            => job'[wk'[w].on].required = "yes"

Sound(w) ==
  /\ member' \in [Jobs -> MemberRow] /\ Good(job', member')
  /\ Spares(w) /\ Owner(w) /\ Moves(w)

LEMMA SoundKeepsCalls ==
  ASSUME CallsAreLeased, EmailOwed, NEW w \in Workers \cup {None}, Sound(w)
  PROVE  CallsAreLeased' /\ EmailOwed'
<1>1. ASSUME NEW v \in Workers \ {w}, wk[v].at \in InCall
      PROVE  job'[wk[v].on].lease = v /\ ~job'[wk[v].on].expired
  <2>1. wk[v].on \in Jobs /\ job[wk[v].on].lease = v /\ ~job[wk[v].on].expired
    BY <1>1 DEF CallsAreLeased, InCall
  <2>2. v # None
    BY ProvisioningAssumption
  <2> QED
    BY <2>1, <2>2 DEF Sound, Spares
<1>2. ASSUME NEW v \in Workers \ {w}, wk[v].at \in Mailing, job'[wk[v].on].lease = v,
             user'.owner = wk[v].on
      PROVE  job'[wk[v].on].required = "yes"
  <2> DEFINE k == wk[v].on
  <2>1. k \in Jobs /\ v # None /\ k # None
    BY <1>2, ProvisioningAssumption DEF CallsAreLeased, Mailing
  <2>2. job[k].lease = v /\ job'[k].required = job[k].required
    BY <1>2, <2>1 DEF Sound, Spares
  <2>3. user.owner = k
    BY <1>2, <2>1, <2>2 DEF Sound, Owner
  <2> QED
    BY <1>2, <2>2, <2>3 DEF EmailOwed
<1>3. CallsAreLeased'
  BY <1>1 DEF Sound, Moves, CallsAreLeased
<1>4. EmailOwed'
  BY <1>2 DEF Sound, Moves, EmailOwed
<1> QED
  BY <1>3, <1>4

\* Whoever holds a lease is at work on a running job.
LEMMA HeldIsRunning ==
  ASSUME NEW js, NEW ms, Good(js, ms), NEW w \in Workers, wk[w].on \in Jobs, Holds(js, w)
  PROVE  js[wk[w].on].status = "running" /\ js[wk[w].on].step # "complete"
         /\ js[wk[w].on].wait = "none" /\ Sane(js[wk[w].on])
         /\ ms[wk[w].on].status # "none"
<1>1. w # None
  BY ProvisioningAssumption
<1> QED
  BY <1>1 DEF Good, Holds, Sane, Asks

\* One row replaced by a sane one that asks for the same leaves a good table.
LEMMA ReplacedIsGood ==
  ASSUME NEW js, NEW ms, Good(js, ms), NEW j \in Jobs, NEW row, Sane(row), Asks(ms[j], row)
  PROVE  /\ Good([js EXCEPT ![j] = row], ms)
         /\ [js EXCEPT ![j] = row][j] = row
         /\ \A k \in Jobs \ {j} : [js EXCEPT ![j] = row][k] = js[k]
BY DEF Good, Sane

LEMMA AfterLossIsGood ==
  ASSUME NEW js, Good(js, member), Kinds, NEW w \in Workers, wk[w].on \in Jobs
  PROVE  /\ Good(AfterLoss(js, w), member)
         /\ \A k \in Jobs : \/ AfterLoss(js, w)[k] = js[k]
                            \/ js[k].lease = w /\ AfterLoss(js, w)[k].lease = None
<1> DEFINE j == wk[w].on
           new == Restarted(js, j, FALSE)
<1>1. Holds(js, w) => Sane(new) /\ Asks(member[j], new) /\ new.lease = None
  BY HeldIsRunning, RestartedIsSane DEF Kinds
<1>2. AfterLoss(js, w) = js \/ (Holds(js, w) /\ AfterLoss(js, w) = [js EXCEPT ![j] = new])
  BY DEF AfterLoss
<1> HIDE DEF new
<1>3. CASE Holds(js, w) /\ AfterLoss(js, w) = [js EXCEPT ![j] = new]
  <2>1. /\ Good([js EXCEPT ![j] = new], member)
        /\ [js EXCEPT ![j] = new][j] = new
        /\ \A k \in Jobs \ {j} : [js EXCEPT ![j] = new][k] = js[k]
    <3>1. Sane(new) /\ Asks(member[j], new)
      BY <1>1, <1>3
    <3> QED
      BY <3>1, ReplacedIsGood
  <2>2. js[j].lease = w
    BY <1>3 DEF Holds
  <2> QED
    BY <1>1, <1>3, <2>1, <2>2
<1> QED
  BY <1>2, <1>3

Codes == {"delivery_unknown", "pending", "other"}

LEMMA AfterErrorIsGood ==
  ASSUME NEW js, Good(js, member), Kinds, NEW w \in Workers, wk[w].on \in Jobs
  PROVE  \A code \in Codes : \A retryable, unsure \in BOOLEAN :
           /\ Good(AfterError(js, w, code, retryable, unsure), member)
           /\ \A k \in Jobs :
                \/ AfterError(js, w, code, retryable, unsure)[k] = js[k]
                \/ js[k].lease = w /\ AfterError(js, w, code, retryable, unsure)[k].lease = None
<1> TAKE code \in Codes
<1> TAKE retryable, unsure \in BOOLEAN
<1>0. code \in {"delivery_unknown", "pending", "other"}
  BY DEF Codes
<1> DEFINE j == wk[w].on
           new == Restarted(js, j, unsure)
           bad == Failed(js[j], code, retryable)
           out == AfterError(js, w, code, retryable, unsure)
<1>1. Holds(js, w) => Sane(new) /\ Asks(member[j], new) /\ new.lease = None
  BY HeldIsRunning, RestartedIsSane DEF Kinds
<1>2. Holds(js, w) => Sane(bad) /\ Asks(member[j], bad) /\ bad.lease = None
  BY <1>0, HeldIsRunning, FailedIsSane DEF Good, Asks
<1>3. \/ out = js
      \/ Holds(js, w) /\ out = [js EXCEPT ![j] = new]
      \/ Holds(js, w) /\ out = [js EXCEPT ![j] = bad]
  BY DEF AfterError
<1> HIDE DEF new, bad, out
<1> DEFINE Left == /\ Good(out, member)
                  /\ \A k \in Jobs : \/ out[k] = js[k]
                                     \/ js[k].lease = w /\ out[k].lease = None
<1>4. ASSUME NEW row \in {new, bad}, Holds(js, w), out = [js EXCEPT ![j] = row]
      PROVE  Left
  <2>1. Sane(row) /\ Asks(member[j], row) /\ row.lease = None
    BY <1>1, <1>2, <1>4
  <2>2. /\ Good([js EXCEPT ![j] = row], member)
        /\ [js EXCEPT ![j] = row][j] = row
        /\ \A k \in Jobs \ {j} : [js EXCEPT ![j] = row][k] = js[k]
    BY <2>1, ReplacedIsGood
  <2>3. js[j].lease = w
    BY <1>4 DEF Holds
  <2> QED
    BY <1>4, <2>1, <2>2, <2>3
<1>5. Left
  BY <1>3, <1>4
<1> QED
  BY <1>5 DEF out

LEMMA SatisfiedIsGood ==
  ASSUME Good(job, member), Kinds
  PROVE  /\ Good(Satisfied(job), member)
         /\ \A k \in Jobs :
              /\ Satisfied(job)[k].lease = job[k].lease
              /\ Satisfied(job)[k].expired = job[k].expired
              /\ job[k].status = "running" => Satisfied(job)[k].status = "running"
<1>1. \A k \in Jobs : Sane(job[k]) /\ Asks(member[k], job[k]) /\ member[k] \in MemberRow
  BY DEF Good, Kinds
<1>2. \A k \in Jobs : Satisfied(job)[k] \in {job[k], SatisfiedRow(job, k)}
  BY DEF Satisfied
<1>3. \A k \in Jobs : /\ Sane(Satisfied(job)[k]) /\ Asks(member[k], Satisfied(job)[k])
                      /\ Satisfied(job)[k].lease = job[k].lease
                      /\ Satisfied(job)[k].expired = job[k].expired
                      /\ job[k].status = "running" => Satisfied(job)[k].status = "running"
  BY <1>1, <1>2, SatisfiedIsSane
<1>4. Satisfied(job) = [k \in Jobs |-> Satisfied(job)[k]]
  BY DEF Satisfied
<1>5. \A k \in Jobs : Satisfied(job)[k] \in JobRow
  BY <1>3 DEF Sane
<1>6. Satisfied(job) \in [Jobs -> JobRow]
  BY <1>4, <1>5
<1> QED
  BY <1>3, <1>6 DEF Good

-----------------------------------------------------------------------------
(***************************************************************************)
(* Ways a step of a worker ends.                                           *)
(***************************************************************************)

\* Every row keeps its lease, or it is the one w gives up.
Given(w) ==
  \A k \in Jobs :
    \/ /\ job'[k].lease = job[k].lease /\ job'[k].expired = job[k].expired
       /\ job'[k].required = job[k].required
    \/ job[k].lease = w /\ job'[k].lease = None

\* The job is left for later and the worker goes idle.
LEMMA LeftIsSound ==
  ASSUME QueueInv, NEW w \in Workers, Leave(w), Owner(w),
         member' \in [Jobs -> MemberRow], Good(job', member'), Given(w)
  PROVE  Sound(w)
<1>1. Idle \in WorkerRow /\ Idle.at = "idle" /\ "idle" \notin InCall /\ "idle" \notin Mailing
  BY DEF Idle, WorkerRow, Place, InCall, Mailing
<1>2. wk' \in [Workers -> WorkerRow] /\ wk'[w] = Idle /\ \A v \in Workers \ {w} : wk'[v] = wk[v]
  BY <1>1 DEF Leave, QueueInv, Kinds
<1>3. Spares(w)
  BY DEF Given, Spares
<1>4. Moves(w)
  BY <1>1, <1>2 DEF Moves
<1> QED
  BY <1>3, <1>4 DEF Sound

LEMMA QuitIsSound ==
  ASSUME QueueInv, NEW w \in Workers, wk[w].on \in Jobs, Quit(w), member' = member, Owner(w)
  PROVE  Sound(w)
<1>1. Good(job', member') /\ Leave(w) /\ member' \in [Jobs -> MemberRow]
  BY AfterLossIsGood DEF Quit, QueueInv, Kinds
<1>2. Given(w)
  BY AfterLossIsGood DEF Quit, QueueInv, Given
<1> QED
  BY <1>1, <1>2, LeftIsSound

Fails(w) ==
  \/ \E code \in Codes, retryable \in BOOLEAN, unsure \in BOOLEAN :
       Fail(w, code, retryable, unsure)
  \/ Refused(w) \/ Lost(w)

LEMMA FailIsSound ==
  ASSUME QueueInv, NEW w \in Workers, wk[w].on \in Jobs, member' = member, Owner(w), Fails(w)
  PROVE  Sound(w)
<1>1. \E code \in Codes, retryable \in BOOLEAN, unsure \in BOOLEAN :
        Fail(w, code, retryable, unsure)
  BY DEF Fails, Refused, Lost, Codes
<1>2. Leave(w) /\ \E code \in Codes, retryable \in BOOLEAN, unsure \in BOOLEAN :
                    job' = AfterError(job, w, code, retryable, unsure)
  BY <1>1 DEF Fail
<1>3. \A code \in Codes : \A retryable, unsure \in BOOLEAN :
        /\ Good(AfterError(job, w, code, retryable, unsure), member)
        /\ \A k \in Jobs :
             \/ AfterError(job, w, code, retryable, unsure)[k] = job[k]
             \/ job[k].lease = w /\ AfterError(job, w, code, retryable, unsure)[k].lease = None
  BY AfterErrorIsGood DEF QueueInv
<1>4. Good(job', member)
      /\ \A k \in Jobs : job'[k] = job[k] \/ (job[k].lease = w /\ job'[k].lease = None)
  <2>1. PICK code \in Codes, retryable \in BOOLEAN, unsure \in BOOLEAN :
               job' = AfterError(job, w, code, retryable, unsure)
    BY <1>2
  <2> DEFINE out == AfterError(job, w, code, retryable, unsure)
  <2>2. /\ Good(out, member)
        /\ \A k \in Jobs : out[k] = job[k] \/ (job[k].lease = w /\ out[k].lease = None)
    BY <1>3, Zenon
  <2> HIDE DEF out
  <2> QED
    BY <2>1, <2>2 DEF out
<1>5. Given(w) /\ member' \in [Jobs -> MemberRow]
  BY <1>4 DEF Given, QueueInv, Kinds
<1> QED
  BY <1>2, <1>4, <1>5, LeftIsSound

\* The worker goes on, with the row of its job written and the lease kept.
LEMMA OnwardIsSound ==
  ASSUME QueueInv, NEW w \in Workers, wk[w].on \in Jobs, NEW place \in Place, Goto(w, place),
         member' = member, Good(job', member), Spares(w), Owner(w),
         place \in InCall => job'[wk[w].on].lease = w /\ ~job'[wk[w].on].expired,
         place \in Mailing /\ user'.owner = wk[w].on /\ job'[wk[w].on].lease = w
           => job'[wk[w].on].required = "yes"
  PROVE  Sound(w)
<1>1. [wk[w] EXCEPT !.at = place] \in WorkerRow
      /\ [wk[w] EXCEPT !.at = place].at = place /\ [wk[w] EXCEPT !.at = place].on = wk[w].on
  BY DEF QueueInv, Kinds, WorkerRow
<1>2. wk' \in [Workers -> WorkerRow] /\ wk'[w] = [wk[w] EXCEPT !.at = place]
      /\ \A v \in Workers \ {w} : wk'[v] = wk[v]
  BY <1>1 DEF Goto, QueueInv, Kinds
<1>3. Moves(w)
  BY <1>1, <1>2 DEF Moves
<1>4. member' \in [Jobs -> MemberRow]
  BY DEF QueueInv, Kinds
<1> QED
  BY <1>3, <1>4 DEF Sound

\* The lease is renewed.
LEMMA RenewedIsGood ==
  ASSUME QueueInv, NEW w \in Workers, wk[w].on \in Jobs, Holds(job, w)
  PROVE  /\ Good(Renewed(wk[w].on), member)
         /\ Renewed(wk[w].on)[wk[w].on].lease = w
         /\ ~Renewed(wk[w].on)[wk[w].on].expired
         /\ Renewed(wk[w].on)[wk[w].on] = [job[wk[w].on] EXCEPT !.expired = FALSE]
         /\ \A k \in Jobs \ {wk[w].on} : Renewed(wk[w].on)[k] = job[k]
<1> DEFINE j == wk[w].on
           new == [job[j] EXCEPT !.expired = FALSE]
<1>1. Sane(job[j]) /\ Asks(member[j], job[j]) /\ job[j].lease = w
  BY DEF QueueInv, Good, Holds
<1>2. /\ new \in JobRow /\ ~new.expired /\ new.lease = job[j].lease
      /\ new.status = job[j].status /\ new.wait = job[j].wait /\ new.step = job[j].step
      /\ new.sent = job[j].sent /\ new.required = job[j].required
      /\ new.attempts = job[j].attempts /\ new.reconcile = job[j].reconcile
      /\ new.role = job[j].role /\ new.state = job[j].state
  BY <1>1 DEF Sane, JobRow
<1>3. Sane(new) /\ Asks(member[j], new)
  BY <1>1, <1>2 DEF Sane, Asks
<1>4. Renewed(j) = [job EXCEPT ![j] = new]
  BY DEF Renewed
<1> HIDE DEF new
<1>5. /\ Good(Renewed(j), member) /\ Renewed(j)[j] = new
      /\ \A k \in Jobs \ {j} : Renewed(j)[k] = job[k]
  BY <1>3, <1>4, ReplacedIsGood DEF QueueInv
<1> QED
  BY <1>1, <1>2, <1>5 DEF new

LEMMA CallIsSound ==
  ASSUME QueueInv, NEW w \in Workers, wk[w].on \in Jobs,
         NEW place \in {"identityCall", "adding", "removing"},
         Call(w, place), member' = member, user' = user
  PROVE  Sound(w)
<1>0. Owner(w) /\ place \in Place /\ place \notin Mailing
  BY DEF Owner, Place, Mailing
<1>1. CASE Quit(w)
  BY <1>0, <1>1, QuitIsSound
<1>2. CASE Current(job, w) /\ job' = Renewed(wk[w].on) /\ Goto(w, place)
  <2>1. Holds(job, w) /\ job[wk[w].on].lease = w
    BY <1>2 DEF Current, Holds
  <2>2. /\ Good(job', member) /\ job'[wk[w].on].lease = w /\ ~job'[wk[w].on].expired
        /\ \A k \in Jobs \ {wk[w].on} : job'[k] = job[k]
    BY <1>2, <2>1, RenewedIsGood
  <2>3. Spares(w)
    BY <2>1, <2>2 DEF Spares
  <2> QED
    BY <1>0, <1>2, <2>2, <2>3, OnwardIsSound
<1> QED
  BY <1>1, <1>2 DEF Call

\* The job is done, if it still is what the membership asks for.
LEMMA CompleteIsSound ==
  ASSUME QueueInv, NEW w \in Workers, wk[w].on \in Jobs, Complete(w, job), Owner(w)
  PROVE  Sound(w)
<1> DEFINE j == wk[w].on
           ended == [job[j] EXCEPT !.step = "complete", !.status = "succeeded", !.error = "none"]
           active == [member[j] EXCEPT !.status = IF member[j].status = "invited" THEN "active"
                                                  ELSE member[j].status]
<1>1. CASE job' = AfterLoss(job, w) /\ UNCHANGED member
  BY <1>1, QuitIsSound DEF Complete, Quit
<1>2. CASE job' = AfterError(job, w, "other", FALSE, FALSE) /\ UNCHANGED member
  <2>1. Fail(w, "other", FALSE, FALSE)
    BY <1>2 DEF Fail, Complete
  <2>2. Fails(w)
    <3>1. "other" \in Codes /\ FALSE \in BOOLEAN
      BY DEF Codes
    <3> QED
      BY <2>1, <3>1, Zenon DEF Fails
  <2> QED
    BY <1>2, <2>2, FailIsSound
<1>3. CASE /\ Current(job, w) /\ Completable(job, j)
           /\ member' = [member EXCEPT ![j].status = IF @ = "invited" THEN "active" ELSE @]
           /\ job' = [job EXCEPT ![j] = Unleased([@ EXCEPT
                !.step = "complete", !.status = "succeeded", !.error = "none"])]
  <2>0. /\ Sane(job[j]) /\ Asks(member[j], job[j]) /\ job[j].lease = w
        /\ member[j] \in MemberRow /\ job[j].status = "running" /\ job[j].wait = "none"
        /\ member[j].status # "none"
    BY <1>3, HeldIsRunning DEF QueueInv, Good, Kinds, Current, Holds
  <2>1. /\ ended \in JobRow /\ ended.step = "complete" /\ ended.status = "succeeded"
        /\ ended.wait = job[j].wait /\ ended.sent = job[j].sent
        /\ ended.required = job[j].required
        /\ ended.role = job[j].role /\ ended.state = job[j].state
        /\ ended.reconcile = job[j].reconcile
    BY <2>0 DEF Sane, JobRow, JobStatus
  <2>2. /\ active \in MemberRow /\ active.role = member[j].role
        /\ (active.status = "disabled") <=> (member[j].status = "disabled")
        /\ (active.status = "none") <=> (member[j].status = "none")
    BY <2>0 DEF MemberRow, MemberStatus
  <2>3. /\ job' = [job EXCEPT ![j] = Unleased(ended)]
        /\ member' = [member EXCEPT ![j] = active]
    BY <1>3
  <2> HIDE DEF ended, active
  <2>4. Sane(Unleased(ended))
    BY <2>0, <2>1, UnleasedIs DEF Sane
  <2>5. Asks(member[j], Unleased(ended))
    BY <2>0, <2>1, UnleasedIs DEF Asks
  <2>6. Asks(active, Unleased(ended)) /\ Unleased(ended).lease = None
    BY <2>0, <2>1, <2>2, <2>5, UnleasedIs DEF Asks
  <2>7. /\ Good(job', member)
        /\ job'[j] = Unleased(ended) /\ \A k \in Jobs \ {j} : job'[k] = job[k]
    <3>1. /\ Good([job EXCEPT ![j] = Unleased(ended)], member)
          /\ [job EXCEPT ![j] = Unleased(ended)][j] = Unleased(ended)
          /\ \A k \in Jobs \ {j} : [job EXCEPT ![j] = Unleased(ended)][k] = job[k]
      BY <2>4, <2>5, ReplacedIsGood DEF QueueInv
    <3> QED
      BY <2>3, <3>1
  <2>8. /\ member'[j] = active /\ \A k \in Jobs \ {j} : member'[k] = member[k]
        /\ member' \in [Jobs -> MemberRow]
    BY <2>2, <2>3 DEF QueueInv, Kinds
  <2>9. Good(job', member')
    BY <2>6, <2>7, <2>8 DEF Good
  <2>10. Given(w) /\ Leave(w)
    BY <2>0, <2>6, <2>7 DEF Given, Complete
  <2> QED
    BY <2>8, <2>9, <2>10, LeftIsSound
<1> QED
  BY <1>1, <1>2, <1>3 DEF Complete

\* The worker goes on and writes nothing.
LEMMA GotoIsSound ==
  ASSUME QueueInv, NEW w \in Workers, wk[w].on \in Jobs, Owner(w),
         NEW place \in {"identity", "groups", "enroll", "finish"},
         Goto(w, place), member' = member, job' = job
  PROVE  Sound(w)
<1>1. place \in Place /\ place \notin InCall /\ place \notin Mailing
  BY DEF Place, InCall, Mailing
<1>2. Good(job', member) /\ Spares(w)
  BY DEF QueueInv, Spares
<1> QED
  BY <1>1, <1>2, OnwardIsSound

\* The row of its job is written with the lease, the target and the note as they
\* were.
LEMMA WrittenIsGood ==
  ASSUME NEW js, Good(js, member), NEW w \in Workers, wk[w].on \in Jobs, Holds(js, w),
         NEW row, row \in JobRow, row.sent => row.required = "yes", row.step # "complete",
         row.status = js[wk[w].on].status, row.wait = js[wk[w].on].wait,
         row.lease = js[wk[w].on].lease, row.attempts = js[wk[w].on].attempts,
         row.role = js[wk[w].on].role, row.state = js[wk[w].on].state,
         row.reconcile = js[wk[w].on].reconcile
  PROVE  /\ Good([js EXCEPT ![wk[w].on] = row], member)
         /\ [js EXCEPT ![wk[w].on] = row][wk[w].on] = row
         /\ \A k \in Jobs \ {wk[w].on} : [js EXCEPT ![wk[w].on] = row][k] = js[k]
<1> DEFINE j == wk[w].on
<1>1. /\ Sane(js[j]) /\ Asks(member[j], js[j]) /\ js[j].status = "running"
  BY HeldIsRunning DEF Good
<1>2. Sane(row)
  BY <1>1 DEF Sane
<1>3. Asks(member[j], row)
  BY <1>1 DEF Asks
<1> QED
  BY <1>2, <1>3, ReplacedIsGood

\* The same for a failure found when other rows have been written already.
LEMMA FailAfterIsSound ==
  ASSUME QueueInv, NEW w \in Workers, wk[w].on \in Jobs, member' = member, Owner(w), Leave(w),
         NEW js, Good(js, member),
         \A k \in Jobs : /\ js[k].lease = job[k].lease /\ js[k].expired = job[k].expired
                         /\ js[k].required = job[k].required \/ (k = wk[w].on /\ job[k].lease = w),
         NEW code \in Codes, NEW retryable \in BOOLEAN, NEW unsure \in BOOLEAN, Holds(js, w),
         job' = AfterError(js, w, code, retryable, unsure)
  PROVE  Sound(w)
<1> DEFINE out == AfterError(js, w, code, retryable, unsure)
<1>1. /\ Good(out, member)
      /\ \A k \in Jobs : out[k] = js[k] \/ (js[k].lease = w /\ out[k].lease = None)
  <2>1. \A c \in Codes : \A r, u \in BOOLEAN :
          /\ Good(AfterError(js, w, c, r, u), member)
          /\ \A k \in Jobs : \/ AfterError(js, w, c, r, u)[k] = js[k]
                             \/ js[k].lease = w /\ AfterError(js, w, c, r, u)[k].lease = None
    BY AfterErrorIsGood DEF QueueInv
  <2> QED
    BY <2>1, Zenon
<1>2. job' = out
  OBVIOUS
<1> HIDE DEF out
<1>3. Spares(w)
  BY <1>1, <1>2 DEF Spares
<1>4. Idle \in WorkerRow /\ Idle.at = "idle" /\ "idle" \notin InCall /\ "idle" \notin Mailing
  BY DEF Idle, WorkerRow, Place, InCall, Mailing
<1>5. wk' \in [Workers -> WorkerRow] /\ wk'[w] = Idle /\ \A v \in Workers \ {w} : wk'[v] = wk[v]
  BY <1>4 DEF Leave, QueueInv, Kinds
<1>6. Moves(w)
  BY <1>4, <1>5 DEF Moves
<1>7. Good(job', member') /\ member' \in [Jobs -> MemberRow]
  BY <1>1, <1>2 DEF QueueInv, Kinds
<1> QED
  BY <1>3, <1>6, <1>7 DEF Sound

-----------------------------------------------------------------------------
(***************************************************************************)
(* The steps of the worker.                                                *)
(***************************************************************************)

LEMMA RowOf ==
  ASSUME QueueInv, NEW j \in Jobs
  PROVE  Sane(job[j]) /\ Asks(member[j], job[j]) /\ job[j] \in JobRow /\ member[j] \in MemberRow
BY DEF QueueInv, Good, Kinds

LEMMA BusyHasJob ==
  ASSUME QueueInv, NEW w \in Workers, wk[w].at # "idle"
  PROVE  wk[w].on \in Jobs
BY DEF QueueInv, CallsAreLeased

\* A refusal by name is a failure.
LEMMA FailIsFails ==
  ASSUME NEW w, NEW code \in Codes, NEW retryable \in BOOLEAN, NEW unsure \in BOOLEAN,
         Fail(w, code, retryable, unsure)
  PROVE  Fails(w)
BY Zenon DEF Fails

LEMMA BeginIsSound ==
  ASSUME QueueInv, NEW w \in Workers, Begin(w)
  PROVE  Sound(w)
<1> DEFINE j == wk[w].on
           place == IF job[j].step = "enrollment" THEN "enroll" ELSE job[j].step
<1>1. j \in Jobs /\ Owner(w) /\ member' = member
  BY BusyHasJob DEF Begin, Owner
<1>2. CASE Quit(w)
  BY <1>1, <1>2, QuitIsSound
<1>3. CASE Fail(w, "other", FALSE, FALSE)
  <2>1. "other" \in Codes /\ FALSE \in BOOLEAN
    BY DEF Codes
  <2>2. Fails(w)
    BY <1>3, <2>1, FailIsFails
  <2> QED
    BY <1>1, <2>2, FailIsSound
<1>4. CASE Holds(job, w) /\ Goto(w, place) /\ UNCHANGED job
  <2>1. job[j].step # "complete" /\ job[j] \in JobRow
    BY <1>1, <1>4, HeldIsRunning DEF QueueInv, Sane
  <2>2. place \in {"identity", "groups", "enroll", "finish"}
    BY <2>1 DEF JobRow
  <2> QED
    BY <1>1, <1>4, <2>2, GotoIsSound
<1> QED
  BY <1>2, <1>3, <1>4 DEF Begin

LEMMA IdentityCallIsSound ==
  ASSUME QueueInv, NEW w \in Workers, IdentityCall(w)
  PROVE  Sound(w)
BY BusyHasJob, CallIsSound DEF IdentityCall

\* The account is recorded.
LEMMA RecordIdentityIsSound ==
  ASSUME QueueInv, NEW w \in Workers, wk[w].on \in Jobs, Holds(job, w),
         NEW acct, RecordIdentity(w, acct), member' = member
  PROVE  Sound(w)
<1> DEFINE j == wk[w].on
           managed == user.managed \/ acct = "ours"
           candidate == job[j].state = "active" /\ managed /\ ~user.login
           js == IF user.login THEN Satisfied(job) ELSE job
           need == IF user.login THEN "no"
                   ELSE IF candidate /\ user.sent THEN "yes"
                   ELSE IF js[j].required # "unknown" THEN js[j].required
                   ELSE IF candidate THEN "yes" ELSE "no"
           has == ~user.login /\ (js[j].sent \/ (candidate /\ user.sent))
           row == [js[j] EXCEPT !.step = "groups", !.required = need, !.sent = has]
<1>1. /\ Good(js, member)
      /\ \A k \in Jobs : js[k].lease = job[k].lease /\ js[k].expired = job[k].expired
      /\ ~user.login => js = job
  <2>1. CASE user.login
    <3>1. js = Satisfied(job)
      BY <2>1
    <3> HIDE DEF js
    <3> QED
      BY <2>1, <3>1, SatisfiedIsGood DEF QueueInv
  <2>2. CASE ~user.login
    BY <2>2 DEF QueueInv
  <2> QED
    BY <2>1, <2>2
<1>2. job' = [js EXCEPT ![j] = row] /\ Goto(w, "groups")
  BY DEF RecordIdentity
<1>3. user'.owner = IF user.login THEN None ELSE user.owner
  BY DEF RecordIdentity, QueueInv, Kinds, UserRow
<1>4. Sane(js[j]) /\ js[j].lease = w
  BY <1>1 DEF Good, Holds
<1> HIDE DEF js
<1>5. js[j] \in JobRow /\ js[j].required \in {"unknown", "yes", "no"}
  BY <1>4 DEF Sane, JobRow
<1>6. need \in {"unknown", "yes", "no"} /\ has \in BOOLEAN /\ (has => need = "yes")
  <2> HIDE DEF candidate
  <2> QED
    BY <1>4, <1>5 DEF Sane
<1> HIDE DEF need, has
<1>7. /\ row \in JobRow /\ row.sent = has /\ row.required = need /\ row.step = "groups"
      /\ row.status = js[j].status /\ row.wait = js[j].wait /\ row.lease = js[j].lease
      /\ row.attempts = js[j].attempts /\ row.role = js[j].role /\ row.state = js[j].state
      /\ row.reconcile = js[j].reconcile
  <2> DEFINE one == [js[j] EXCEPT !.step = "groups"]
             two == [one EXCEPT !.required = need]
  <2>1. /\ one \in JobRow /\ one.step = "groups" /\ one.sent = js[j].sent
        /\ one.status = js[j].status /\ one.wait = js[j].wait /\ one.lease = js[j].lease
        /\ one.attempts = js[j].attempts /\ one.role = js[j].role
        /\ one.state = js[j].state /\ one.reconcile = js[j].reconcile
    BY <1>5 DEF JobRow
  <2>2. row = [two EXCEPT !.sent = has]
    OBVIOUS
  <2> HIDE DEF one, row
  <2>3. /\ two \in JobRow /\ two.step = "groups" /\ two.required = need
        /\ two.status = one.status /\ two.wait = one.wait /\ two.lease = one.lease
        /\ two.attempts = one.attempts /\ two.role = one.role
        /\ two.state = one.state /\ two.reconcile = one.reconcile
    BY <1>6, <2>1 DEF JobRow
  <2> HIDE DEF two
  <2>4. /\ row \in JobRow /\ row.step = "groups" /\ row.required = need /\ row.sent = has
        /\ row.status = two.status /\ row.wait = two.wait /\ row.lease = two.lease
        /\ row.attempts = two.attempts /\ row.role = two.role
        /\ row.state = two.state /\ row.reconcile = two.reconcile
    BY <1>6, <2>2, <2>3 DEF JobRow
  <2> QED
    BY <2>1, <2>3, <2>4
<1> HIDE DEF row
<1>8. /\ Good(job', member) /\ job'[j] = row
      /\ \A k \in Jobs \ {j} : job'[k] = js[k]
  <2>1. Holds(js, w)
    BY <1>4 DEF Holds
  <2> QED
    <3>1. row.sent => row.required = "yes"
      BY <1>6, <1>7
    <3>2. /\ Good([js EXCEPT ![j] = row], member)
          /\ [js EXCEPT ![j] = row][j] = row
          /\ \A k \in Jobs \ {j} : [js EXCEPT ![j] = row][k] = js[k]
      BY <1>1, <1>7, <2>1, <3>1, WrittenIsGood
    <3> QED
      BY <1>2, <3>2
<1>9. Spares(w)
  BY <1>1, <1>3, <1>4, <1>7, <1>8 DEF Spares
<1>10. Owner(w)
  BY <1>3 DEF Owner
<1>11. "groups" \in Place /\ "groups" \notin InCall /\ "groups" \notin Mailing
  BY DEF Place, InCall, Mailing
<1> QED
  BY <1>2, <1>8, <1>9, <1>10, <1>11, OnwardIsSound

LEMMA IdentityAnswerIsSound ==
  ASSUME QueueInv, NEW w \in Workers, IdentityAnswer(w)
  PROVE  Sound(w)
<1>1. wk[w].on \in Jobs
  BY BusyHasJob DEF IdentityAnswer
<1>2. CASE Quit(w) /\ UNCHANGED <<member, user>>
  BY <1>1, <1>2, QuitIsSound DEF Owner
<1>3. CASE Complete(w, job) /\ UNCHANGED user
  BY <1>1, <1>3, CompleteIsSound DEF Owner
<1>4. CASE Current(job, w) /\ UNCHANGED member /\ \E acct : RecordIdentity(w, acct)
  BY <1>1, <1>4, RecordIdentityIsSound DEF Current
<1>5. CASE (Refused(w) \/ Lost(w)) /\ UNCHANGED <<member, user>>
  BY <1>1, <1>5, FailIsSound DEF Fails, Owner
<1> QED
  BY <1>2, <1>3, <1>4, <1>5 DEF IdentityAnswer

LEMMA ReadAccountIsSound ==
  ASSUME QueueInv, NEW w \in Workers, ReadAccount(w)
  PROVE  Sound(w)
<1> DEFINE j == wk[w].on
<1>1. j \in Jobs /\ Owner(w) /\ member' = member /\ member' \in [Jobs -> MemberRow]
  BY BusyHasJob DEF ReadAccount, Owner, QueueInv, Kinds
<1>2. CASE Quit(w)
  BY <1>1, <1>2, QuitIsSound
<1>3. CASE Refused(w) \/ Lost(w)
  BY <1>1, <1>3, FailIsSound DEF Fails
<1>4. CASE /\ Current(job, w) /\ job' = Renewed(j)
           /\ wk' = [wk EXCEPT ![w] = [@ EXCEPT
                !.at = "change", !.seen = j \in grouped,
                !.wants = job[j].required = "yes" /\ ~job[j].sent]]
  <2> DEFINE new == [wk[w] EXCEPT !.at = "change", !.seen = j \in grouped,
                       !.wants = job[j].required = "yes" /\ ~job[j].sent]
  <2>1. Holds(job, w) /\ job[j].lease = w
    BY <1>4 DEF Current, Holds
  <2>2. /\ Good(job', member) /\ job'[j].lease = w
        /\ \A k \in Jobs \ {j} : job'[k] = job[k]
    BY <1>1, <1>4, <2>1, RenewedIsGood
  <2>3. Spares(w)
    BY <2>1, <2>2 DEF Spares
  <2>4. wk[w] \in WorkerRow /\ (j \in grouped) \in BOOLEAN
        /\ (job[j].required = "yes" /\ ~job[j].sent) \in BOOLEAN
    BY DEF QueueInv, Kinds
  <2>5. new \in WorkerRow /\ new.at = "change" /\ new.on = j
    BY <2>4 DEF WorkerRow, Place
  <2>6. wk' = [wk EXCEPT ![w] = new]
    BY <1>4
  <2> HIDE DEF new
  <2>7. /\ wk' \in [Workers -> WorkerRow] /\ wk'[w] = new
        /\ \A v \in Workers \ {w} : wk'[v] = wk[v]
    BY <2>5, <2>6 DEF QueueInv, Kinds
  <2>8. Moves(w)
    BY <1>1, <2>5, <2>7 DEF Moves, InCall, Mailing
  <2> QED
    BY <1>1, <2>2, <2>3, <2>8 DEF Sound
<1> QED
  BY <1>2, <1>3, <1>4 DEF ReadAccount

\* The end of the step on the groups.
LEMMA EndGroupsIsSound ==
  ASSUME QueueInv, NEW w \in Workers, wk[w].on \in Jobs, EndGroups(w), user' = user
  PROVE  Sound(w)
<1> DEFINE j == wk[w].on
           row == [job[j] EXCEPT !.step = "enrollment"]
<1>1. Owner(w)
  BY DEF Owner
<1>2. CASE Quit(w) /\ UNCHANGED member
  BY <1>1, <1>2, QuitIsSound
<1>3. CASE Complete(w, job)
  BY <1>1, <1>3, CompleteIsSound
<1>4. CASE /\ Current(job, w) /\ job' = [job EXCEPT ![j].step = "enrollment"]
           /\ Goto(w, "enroll") /\ UNCHANGED member
  <2>1. Holds(job, w) /\ job[j].lease = w /\ Sane(job[j]) /\ job[j] \in JobRow
    BY <1>4 DEF Current, Holds, QueueInv, Good, Sane
  <2>2. /\ row \in JobRow /\ row.step = "enrollment" /\ row.sent = job[j].sent
        /\ row.required = job[j].required
        /\ row.status = job[j].status /\ row.wait = job[j].wait /\ row.lease = job[j].lease
        /\ row.attempts = job[j].attempts /\ row.role = job[j].role
        /\ row.state = job[j].state /\ row.reconcile = job[j].reconcile
    BY <2>1 DEF JobRow
  <2>3. job' = [job EXCEPT ![j] = row] /\ (row.sent => row.required = "yes")
    BY <1>4, <2>1, <2>2 DEF Sane
  <2> HIDE DEF row
  <2> DEFINE has == row.sent => row.required = "yes"
  <2>7. has
    BY <2>3
  <2>8. Good(job, member)
    BY DEF QueueInv
  <2>4. /\ Good(job', member) /\ job'[j] = row /\ \A k \in Jobs \ {j} : job'[k] = job[k]
    <3>1. /\ Good([job EXCEPT ![j] = row], member)
          /\ [job EXCEPT ![j] = row][j] = row
          /\ \A k \in Jobs \ {j} : [job EXCEPT ![j] = row][k] = job[k]
      BY ONLY <2>1, <2>2, <2>7, <2>8, WrittenIsGood, w \in Workers, wk[w].on \in Jobs
    <3> QED
      BY <2>3, <3>1
  <2>5. Spares(w)
    BY <2>1, <2>2, <2>4 DEF Spares
  <2>6. "enroll" \in Place /\ "enroll" \notin InCall /\ "enroll" \notin Mailing
    BY DEF Place, InCall, Mailing
  <2> QED
    BY <1>1, <1>4, <2>4, <2>5, <2>6, OnwardIsSound
<1> QED
  BY <1>2, <1>3, <1>4 DEF EndGroups

LEMMA ChangeGroupIsSound ==
  ASSUME QueueInv, NEW w \in Workers, ChangeGroup(w)
  PROVE  Sound(w)
<1>1. wk[w].on \in Jobs /\ user' = user
  BY BusyHasJob DEF ChangeGroup
<1>2. CASE EndGroups(w)
  BY <1>1, <1>2, EndGroupsIsSound
<1>3. CASE UNCHANGED member
           /\ Call(w, IF job[wk[w].on].state = "active" THEN "adding" ELSE "removing")
  BY <1>1, <1>3, CallIsSound
<1> QED
  BY <1>2, <1>3 DEF ChangeGroup

LEMMA GroupAnswerIsSound ==
  ASSUME QueueInv, NEW w \in Workers, GroupAnswer(w)
  PROVE  Sound(w)
<1>1. wk[w].on \in Jobs /\ user' = user
  BY BusyHasJob DEF GroupAnswer
<1>2. CASE EndGroups(w)
  BY <1>1, <1>2, EndGroupsIsSound
<1>3. CASE (Refused(w) \/ Lost(w)) /\ UNCHANGED member
  BY <1>1, <1>3, FailIsSound DEF Fails, Owner
<1> QED
  BY <1>2, <1>3 DEF GroupAnswer

\* claimEnrollment.
LEMMA ClaimEnrollmentIsSound ==
  ASSUME QueueInv, NEW w \in Workers, wk[w].on \in Jobs, Current(job, w),
         EmailWanted(wk[w].on), ClaimEnrollment(w), member' = member
  PROVE  Sound(w)
<1> DEFINE j == wk[w].on
           owns == ~SentBefore(j) /\ ~OwnerDispatches(j) /\ CanOwn(j)
<1>1. /\ Holds(job, w) /\ job[j].lease = w /\ job[j].required = "yes"
      /\ user \in UserRow /\ Good(job, member)
  BY DEF Current, Holds, EmailWanted, QueueInv, Kinds
<1>2. CASE /\ user' = [user EXCEPT !.sent = TRUE, !.owner = None]
           /\ job' = Satisfied(job) /\ Goto(w, "quit")
  <2>1. user'.owner = None
    BY <1>1, <1>2 DEF UserRow
  <2>2. /\ Good(job', member)
        /\ \A k \in Jobs : job'[k].lease = job[k].lease /\ job'[k].expired = job[k].expired
    BY <1>2, SatisfiedIsGood DEF QueueInv
  <2>3. Spares(w) /\ Owner(w)
    BY <2>1, <2>2 DEF Spares, Owner
  <2>4. "quit" \in Place /\ "quit" \notin InCall /\ "quit" \notin Mailing
    BY DEF Place, InCall, Mailing
  <2> QED
    BY <1>2, <2>2, <2>3, <2>4, OnwardIsSound
<1> DEFINE Rest ==
      \/ Fail(w, "delivery_unknown", FALSE, FALSE)
      \/ job' = [job EXCEPT ![j].sent = TRUE] /\ Goto(w, "finish")
      \/ Fail(w, "pending", TRUE, FALSE)
      \/ Goto(w, "dispatch") /\ UNCHANGED job
<1>3. CASE user' = [user EXCEPT !.owner = IF owns THEN j ELSE @] /\ Rest
  <2>1. Owner(w)
    <3>1. user'.owner = IF owns THEN j ELSE user.owner
      BY <1>1, <1>3 DEF UserRow
    <3> QED
      BY <1>1, <3>1 DEF Owner
  <2>2. CASE Fail(w, "delivery_unknown", FALSE, FALSE) \/ Fail(w, "pending", TRUE, FALSE)
    <3>1. {"delivery_unknown", "pending"} \subseteq Codes /\ TRUE \in BOOLEAN /\ FALSE \in BOOLEAN
      BY DEF Codes
    <3>2. Fails(w)
      BY <2>2, <3>1, FailIsFails
    <3> QED
      BY <2>1, <3>2, FailIsSound
  <2>3. CASE job' = [job EXCEPT ![j].sent = TRUE] /\ Goto(w, "finish")
    <3> DEFINE row == [job[j] EXCEPT !.sent = TRUE]
    <3>1. job' = [job EXCEPT ![j] = row]
      BY <2>3
    <3>2. Sane(job[j]) /\ Asks(member[j], job[j]) /\ job[j] \in JobRow
      BY <1>1 DEF Good, Sane
    <3>3. /\ row \in JobRow /\ row.required = job[j].required
          /\ row.step = job[j].step /\ row.lease = job[j].lease
          /\ row.status = job[j].status /\ row.wait = job[j].wait
          /\ row.attempts = job[j].attempts /\ row.role = job[j].role
          /\ row.state = job[j].state /\ row.reconcile = job[j].reconcile
      BY <3>2 DEF JobRow
    <3> HIDE DEF row
    <3>4. Sane(row) /\ Asks(member[j], row)
      BY <1>1, <3>2, <3>3 DEF Sane, Asks
    <3>5. /\ Good([job EXCEPT ![j] = row], member)
          /\ [job EXCEPT ![j] = row][j] = row
          /\ \A k \in Jobs \ {j} : [job EXCEPT ![j] = row][k] = job[k]
      BY <1>1, <3>4, ReplacedIsGood
    <3>6. Spares(w)
      BY <1>1, <3>1, <3>3, <3>5 DEF Spares
    <3>7. "finish" \in Place /\ "finish" \notin InCall /\ "finish" \notin Mailing
      BY DEF Place, InCall, Mailing
    <3> QED
      BY <2>1, <2>3, <3>1, <3>5, <3>6, <3>7, OnwardIsSound
  <2>4. CASE Goto(w, "dispatch") /\ UNCHANGED job
    <3>1. "dispatch" \in Place /\ "dispatch" \notin InCall
      BY DEF Place, InCall
    <3>2. Spares(w) /\ Good(job', member) /\ job'[j].required = "yes"
      BY <1>1, <2>4 DEF Spares
    <3> QED
      BY <2>1, <2>4, <3>1, <3>2, OnwardIsSound
  <2> QED
    BY <1>3, <2>2, <2>3, <2>4
<1>4. \/ /\ user' = [user EXCEPT !.sent = TRUE, !.owner = None]
         /\ job' = Satisfied(job) /\ Goto(w, "quit")
      \/ user' = [user EXCEPT !.owner = IF owns THEN j ELSE @] /\ Rest
  BY Zenon DEF ClaimEnrollment
<1> QED
  BY <1>2, <1>3, <1>4

LEMMA EnrollIsSound ==
  ASSUME QueueInv, NEW w \in Workers, Enroll(w)
  PROVE  Sound(w)
<1>1. wk[w].on \in Jobs /\ member' = member
  BY BusyHasJob DEF Enroll
<1>2. CASE Quit(w) /\ UNCHANGED user
  BY <1>1, <1>2, QuitIsSound DEF Owner
<1>3. CASE Goto(w, "finish") /\ UNCHANGED <<job, user>>
  BY <1>1, <1>3, GotoIsSound DEF Owner
<1>4. CASE Current(job, w) /\ EmailWanted(wk[w].on) /\ ClaimEnrollment(w)
  BY <1>1, <1>4, ClaimEnrollmentIsSound
<1> QED
  BY <1>2, <1>3, <1>4 DEF Enroll

LEMMA SignedInIsSound ==
  ASSUME QueueInv, NEW w \in Workers, SignedIn(w)
  PROVE  Sound(w)
BY BusyHasJob, QuitIsSound DEF SignedIn, Owner

LEMMA DispatchIsSound ==
  ASSUME QueueInv, NEW w \in Workers, Dispatch(w)
  PROVE  Sound(w)
<1> DEFINE j == wk[w].on
<1>1. j \in Jobs /\ Owner(w) /\ member' = member /\ user' = user /\ wk[w].at = "dispatch"
  BY BusyHasJob DEF Dispatch, Owner
<1>2. CASE Quit(w)
  BY <1>1, <1>2, QuitIsSound
<1>3. CASE /\ Current(job, w) /\ job' = [Renewed(j) EXCEPT ![j].dispatch = TRUE]
           /\ Goto(w, "mail")
  <2> DEFINE js == Renewed(j)
             row == [js[j] EXCEPT !.dispatch = TRUE]
  <2>1. Holds(job, w) /\ job[j].lease = w /\ job[j] \in JobRow
    BY <1>1, <1>3 DEF Current, Holds, QueueInv, Good
  <2>2. /\ Good(js, member) /\ js[j].lease = w /\ ~js[j].expired
        /\ js[j] = [job[j] EXCEPT !.expired = FALSE]
        /\ \A k \in Jobs \ {j} : js[k] = job[k]
    BY <1>1, <2>1, RenewedIsGood
  <2>3. js[j].required = job[j].required
    BY <2>1, <2>2 DEF JobRow
  <2>4. job' = [js EXCEPT ![j] = row]
    BY <1>3
  <2> HIDE DEF js
  <2>5. Sane(js[j]) /\ Asks(member[j], js[j]) /\ js[j] \in JobRow
    BY <1>1, <2>2 DEF Good, Sane
  <2>6. /\ row \in JobRow /\ row.required = js[j].required /\ row.sent = js[j].sent
        /\ row.step = js[j].step /\ row.lease = js[j].lease /\ row.expired = js[j].expired
        /\ row.status = js[j].status /\ row.wait = js[j].wait
        /\ row.attempts = js[j].attempts /\ row.role = js[j].role
        /\ row.state = js[j].state /\ row.reconcile = js[j].reconcile
    BY <2>5 DEF JobRow
  <2> HIDE DEF row
  <2>7. Sane(row) /\ Asks(member[j], row)
    BY <2>5, <2>6 DEF Sane, Asks
  <2>8. /\ Good([js EXCEPT ![j] = row], member)
        /\ [js EXCEPT ![j] = row][j] = row
        /\ \A k \in Jobs \ {j} : [js EXCEPT ![j] = row][k] = js[k]
    BY <1>1, <2>2, <2>7, ReplacedIsGood
  <2>9. Spares(w)
    BY <2>1, <2>2, <2>4, <2>6, <2>8 DEF Spares
  <2>10. "mail" \in Place /\ user.owner = j => job[j].required = "yes"
    BY <1>1, <2>1 DEF QueueInv, EmailOwed, Mailing
  <2>11. job'[j].lease = w /\ ~job'[j].expired /\ job'[j].required = job[j].required
    BY <2>2, <2>3, <2>4, <2>6, <2>8
  <2>12. "mail" \in Place
    BY DEF Place
  <2> QED
    BY <1>1, <1>3, <2>4, <2>8, <2>9, <2>10, <2>11, <2>12, OnwardIsSound
<1> QED
  BY <1>2, <1>3 DEF Dispatch

LEMMA EmailAnswerIsSound ==
  ASSUME QueueInv, NEW w \in Workers, EmailAnswer(w)
  PROVE  Sound(w)
<1> DEFINE j == wk[w].on
           released == [job EXCEPT ![j].dispatch = FALSE]
<1>1. /\ j \in Jobs /\ member' = member /\ wk[w].at = "mail"
      /\ user \in UserRow /\ Good(job, member)
  BY BusyHasJob DEF EmailAnswer, QueueInv, Kinds
<1>2. CASE Goto(w, "mailed") /\ UNCHANGED <<job, user>>
  <2>1. "mailed" \in Place /\ "mailed" \notin InCall
    BY DEF Place, InCall
  <2>2. user.owner = j /\ job[j].lease = w => job[j].required = "yes"
    BY <1>1 DEF QueueInv, EmailOwed, Mailing
  <2>3. Spares(w) /\ Owner(w) /\ Good(job', member)
    BY <1>1, <1>2 DEF Spares, Owner
  <2> QED
    BY <1>1, <1>2, <2>1, <2>2, <2>3, OnwardIsSound
<1>3. CASE Fail(w, "delivery_unknown", FALSE, FALSE) /\ UNCHANGED user
  <2>1. "delivery_unknown" \in Codes /\ FALSE \in BOOLEAN
    BY DEF Codes
  <2>2. Fails(w)
    BY <1>3, <2>1, FailIsFails
  <2> QED
    BY <1>1, <1>3, <2>2, FailIsSound DEF Owner
<1>4. CASE /\ Holds(job, w) /\ user' = [user EXCEPT !.owner = None]
           /\ \E retryable \in BOOLEAN :
                job' = AfterError(released, w, "other", retryable, FALSE)
           /\ Leave(w)
  <2> DEFINE row == [job[j] EXCEPT !.dispatch = FALSE]
  <2>1. released = [job EXCEPT ![j] = row]
    OBVIOUS
  <2>2. Sane(job[j]) /\ Asks(member[j], job[j]) /\ job[j] \in JobRow /\ job[j].lease = w
    BY <1>1, <1>4 DEF Good, Sane, Holds
  <2>3. /\ row \in JobRow /\ row.required = job[j].required /\ row.sent = job[j].sent
        /\ row.step = job[j].step /\ row.lease = job[j].lease /\ row.expired = job[j].expired
        /\ row.status = job[j].status /\ row.wait = job[j].wait
        /\ row.attempts = job[j].attempts /\ row.role = job[j].role
        /\ row.state = job[j].state /\ row.reconcile = job[j].reconcile
    BY <2>2 DEF JobRow
  <2> HIDE DEF row
  <2>4. Sane(row) /\ Asks(member[j], row)
    BY <2>2, <2>3 DEF Sane, Asks
  <2>5. /\ Good([job EXCEPT ![j] = row], member)
        /\ [job EXCEPT ![j] = row][j] = row
        /\ \A k \in Jobs \ {j} : [job EXCEPT ![j] = row][k] = job[k]
    BY <1>1, <2>4, ReplacedIsGood
  <2>6. PICK retryable \in BOOLEAN :
          job' = AfterError(released, w, "other", retryable, FALSE)
    BY <1>4
  <2>7. user'.owner = None /\ Owner(w)
    BY <1>1, <1>4 DEF UserRow, Owner
  <2> HIDE DEF released
  <2>8. /\ Good(released, member) /\ Holds(released, w)
        /\ \A k \in Jobs : /\ released[k].lease = job[k].lease
                           /\ released[k].expired = job[k].expired
                           /\ released[k].required = job[k].required
    BY <1>1, <2>1, <2>2, <2>3, <2>5 DEF Holds
  <2>9. "other" \in Codes /\ FALSE \in BOOLEAN
    BY DEF Codes
  <2> QED
    BY <1>1, <1>4, <2>6, <2>7, <2>8, <2>9, FailAfterIsSound
<1>5. CASE Quit(w) /\ UNCHANGED user
  BY <1>1, <1>5, QuitIsSound DEF Owner
<1> QED
  BY <1>2, <1>3, <1>4, <1>5 DEF EmailAnswer

\* The table once the email of job j is recorded, and those who wait for it are
\* woken.
Recorded(j) ==
  [k \in Jobs |->
    IF k = j THEN [job[j] EXCEPT !.sent = TRUE, !.resend = FALSE, !.dispatch = FALSE]
    ELSE IF job[k].status = "retry_wait" /\ job[k].error = "pending"
    THEN [job[k] EXCEPT !.wait = "due"] ELSE job[k]]

LEMMA RecordedIs ==
  ASSUME QueueInv, NEW j \in Jobs, job[j].required = "yes"
  PROVE  /\ Good(Recorded(j), member)
         /\ \A k \in Jobs :
              /\ Recorded(j)[k].lease = job[k].lease /\ Recorded(j)[k].expired = job[k].expired
              /\ Recorded(j)[k].required = job[k].required
              /\ Recorded(j)[k].step = job[k].step /\ Recorded(j)[k].state = job[k].state
              /\ Recorded(j)[k].status = job[k].status
              /\ Recorded(j)[k].reconcile = job[k].reconcile
         /\ Recorded(j)[j].sent /\ ~Recorded(j)[j].resend /\ ~Recorded(j)[j].dispatch
         /\ \A k \in Jobs \ {j} :
              /\ Recorded(j)[k].sent = job[k].sent /\ Recorded(j)[k].resend = job[k].resend
              /\ Recorded(j)[k].dispatch = job[k].dispatch
<1> DEFINE row == [job[j] EXCEPT !.sent = TRUE, !.resend = FALSE, !.dispatch = FALSE]
           woken(k) == [job[k] EXCEPT !.wait = "due"]
           recorded == Recorded(j)
<1>1. \A k \in Jobs : Sane(job[k]) /\ Asks(member[k], job[k]) /\ job[k] \in JobRow
  BY RowOf
<1>2. /\ row \in JobRow /\ row.required = job[j].required
      /\ row.step = job[j].step /\ row.lease = job[j].lease /\ row.expired = job[j].expired
      /\ row.status = job[j].status /\ row.wait = job[j].wait
      /\ row.attempts = job[j].attempts /\ row.role = job[j].role
      /\ row.state = job[j].state /\ row.reconcile = job[j].reconcile
      /\ row.sent /\ ~row.resend /\ ~row.dispatch
  BY <1>1 DEF JobRow
<1>3. ASSUME NEW k \in Jobs
      PROVE  /\ woken(k) \in JobRow /\ woken(k).required = job[k].required
             /\ woken(k).sent = job[k].sent /\ woken(k).wait = "due"
             /\ woken(k).step = job[k].step /\ woken(k).lease = job[k].lease
             /\ woken(k).expired = job[k].expired /\ woken(k).status = job[k].status
             /\ woken(k).attempts = job[k].attempts /\ woken(k).role = job[k].role
             /\ woken(k).state = job[k].state /\ woken(k).reconcile = job[k].reconcile
             /\ woken(k).resend = job[k].resend /\ woken(k).dispatch = job[k].dispatch
  BY <1>1 DEF JobRow
<1>4. \A k \in Jobs : recorded[k] \in
        IF k = j THEN {row}
        ELSE IF job[k].status = "retry_wait" THEN {job[k], woken(k)} ELSE {job[k]}
  BY DEF Recorded
<1>5. recorded = [k \in Jobs |-> recorded[k]]
  BY DEF Recorded
<1> HIDE DEF row, woken
<1>6. Sane(row) /\ Asks(member[j], row)
  BY <1>1, <1>2 DEF Sane, Asks
<1>7. ASSUME NEW k \in Jobs, job[k].status = "retry_wait"
      PROVE  Sane(woken(k)) /\ Asks(member[k], woken(k))
  BY <1>1, <1>3, <1>7 DEF Sane, Asks
<1> HIDE DEF recorded
<1>8. ASSUME NEW k \in Jobs
      PROVE  /\ Sane(recorded[k]) /\ Asks(member[k], recorded[k])
             /\ recorded[k].lease = job[k].lease
             /\ recorded[k].expired = job[k].expired
             /\ recorded[k].required = job[k].required
             /\ recorded[k].step = job[k].step /\ recorded[k].state = job[k].state
             /\ recorded[k].status = job[k].status
             /\ recorded[k].reconcile = job[k].reconcile
             /\ k # j => /\ recorded[k].sent = job[k].sent
                        /\ recorded[k].resend = job[k].resend
                        /\ recorded[k].dispatch = job[k].dispatch
  <2>1. CASE k = j
    <3>1. recorded[k] = row
      BY <1>4, <2>1
    <3> QED
      BY <1>2, <1>6, <2>1, <3>1
  <2>2. CASE k # j /\ recorded[k] = job[k]
    BY <1>1, <2>2
  <2>3. CASE k # j /\ job[k].status = "retry_wait" /\ recorded[k] = woken(k)
    BY <1>3, <1>7, <2>3
  <2> QED
    BY <1>4, <2>1, <2>2, <2>3
<1>9. \A k \in Jobs : recorded[k] \in JobRow
  BY <1>8 DEF Sane
<1>10. recorded \in [Jobs -> JobRow]
  BY <1>5, <1>9
<1>11. /\ recorded[j].sent /\ ~recorded[j].resend /\ ~recorded[j].dispatch
       /\ \A k \in Jobs \ {j} :
            /\ recorded[k].sent = job[k].sent /\ recorded[k].resend = job[k].resend
            /\ recorded[k].dispatch = job[k].dispatch
  <2>1. recorded[j] = row
    BY <1>4
  <2> QED
    BY <1>2, <1>8, <2>1
<1> QED
  BY <1>8, <1>10, <1>11 DEF Good, recorded

LEMMA RecordSentIsSound ==
  ASSUME QueueInv, NEW w \in Workers, RecordSent(w)
  PROVE  Sound(w)
<1> DEFINE j == wk[w].on
           recorded == Recorded(j)
<1>1. /\ j \in Jobs /\ member' = member /\ wk[w].at = "mailed"
      /\ user \in UserRow /\ Good(job, member)
  BY BusyHasJob DEF RecordSent, QueueInv, Kinds
<1>2. CASE Quit(w) /\ UNCHANGED user
  BY <1>1, <1>2, QuitIsSound DEF Owner
<1>3. "delivery_unknown" \in Codes /\ FALSE \in BOOLEAN
  BY DEF Codes
<1>4. CASE Fail(w, "delivery_unknown", FALSE, FALSE) /\ UNCHANGED user
  <2>1. Fails(w)
    BY <1>3, <1>4, FailIsFails
  <2> QED
    BY <1>1, <1>4, <2>1, FailIsSound DEF Owner
<1>5. CASE /\ Holds(job, w) /\ user.owner = j
           /\ user' = [user EXCEPT !.sent = TRUE, !.owner = None]
           /\ \/ job' = recorded /\ Goto(w, "finish")
              \/ /\ job' = AfterError(recorded, w, "delivery_unknown", FALSE, FALSE)
                 /\ Leave(w)
  <2>1. job[j].lease = w /\ job[j].required = "yes"
    BY <1>1, <1>5 DEF QueueInv, EmailOwed, Mailing, Holds
  <2>2. user'.owner = None /\ Owner(w)
    BY <1>1, <1>5 DEF UserRow, Owner
  <2>3. /\ Good(recorded, member)
        /\ \A k \in Jobs : /\ recorded[k].lease = job[k].lease
                           /\ recorded[k].expired = job[k].expired
                           /\ recorded[k].required = job[k].required
    BY <1>1, <2>1, RecordedIs
  <2> HIDE DEF recorded
  <2>4. Holds(recorded, w)
    BY <1>1, <2>1, <2>3 DEF Holds
  <2>5. CASE job' = recorded /\ Goto(w, "finish")
    <3>1. Spares(w)
      BY <2>3, <2>5 DEF Spares
    <3>2. "finish" \in Place /\ "finish" \notin InCall /\ "finish" \notin Mailing
      BY DEF Place, InCall, Mailing
    <3> QED
      BY <1>1, <2>2, <2>3, <2>5, <3>1, <3>2, OnwardIsSound
  <2>6. CASE /\ job' = AfterError(recorded, w, "delivery_unknown", FALSE, FALSE)
             /\ Leave(w)
    BY <1>1, <1>3, <2>2, <2>3, <2>4, <2>6, FailAfterIsSound
  <2> QED
    BY <1>5, <2>5, <2>6
<1> QED
  BY <1>2, <1>4, <1>5 DEF RecordSent, Recorded

LEMMA FinishIsSound ==
  ASSUME QueueInv, NEW w \in Workers, Finish(w)
  PROVE  Sound(w)
BY BusyHasJob, CompleteIsSound DEF Finish, Owner

LEMMA WorkerStepIsSound ==
  ASSUME QueueInv, NEW w \in Workers, WorkerStep(w)
  PROVE  Sound(w)
BY BeginIsSound, IdentityCallIsSound, IdentityAnswerIsSound, ReadAccountIsSound,
   ChangeGroupIsSound, GroupAnswerIsSound, EnrollIsSound, SignedInIsSound, DispatchIsSound,
   EmailAnswerIsSound, RecordSentIsSound, FinishIsSound DEF WorkerStep

\* A lease that ran out is taken back, and nothing else is written.
LEMMA SweptIsGood ==
  ASSUME QueueInv
  PROVE  /\ Good(Swept, member)
         /\ \A k \in Jobs : \/ Swept[k] = job[k]
                            \/ job[k].expired /\ Swept[k].lease = None
<1> DEFINE out(k) == [job[k] EXCEPT !.status = "retry_wait", !.wait = "due", !.error = "other"]
<1>1. ASSUME NEW k \in Jobs
      PROVE  Sane(job[k]) /\ Asks(member[k], job[k]) /\ job[k] \in JobRow
  BY DEF QueueInv, Good, Sane
<1>2. ASSUME NEW k \in Jobs
      PROVE  /\ out(k) \in JobRow /\ out(k).status = "retry_wait" /\ out(k).wait = "due"
             /\ out(k).step = job[k].step /\ out(k).sent = job[k].sent
             /\ out(k).required = job[k].required /\ out(k).role = job[k].role
             /\ out(k).state = job[k].state /\ out(k).reconcile = job[k].reconcile
  BY <1>1 DEF JobRow, JobStatus
<1>3. \A k \in Jobs : Swept[k] = IF job[k].status = "running" /\ job[k].expired
                                 THEN Unleased(out(k)) ELSE job[k]
  BY DEF Swept
<1>4. Swept = [k \in Jobs |-> Swept[k]]
  BY DEF Swept
<1> HIDE DEF out
<1>5. ASSUME NEW k \in Jobs, job[k].status = "running"
      PROVE  /\ Sane(Unleased(out(k))) /\ Asks(member[k], Unleased(out(k)))
             /\ Unleased(out(k)).lease = None
  BY <1>1, <1>2, <1>5, UnleasedIs DEF Sane, Asks
<1>6. \A k \in Jobs : /\ Sane(Swept[k]) /\ Asks(member[k], Swept[k])
                      /\ Swept[k] = job[k] \/ (job[k].expired /\ Swept[k].lease = None)
  BY <1>1, <1>3, <1>5
<1>7. \A k \in Jobs : Swept[k] \in JobRow
  BY <1>6 DEF Sane
<1>8. Swept \in [Jobs -> JobRow]
  BY <1>4, <1>7
<1> QED
  BY <1>6, <1>8 DEF Good

LEMMA ClaimIsSound ==
  ASSUME QueueInv, NEW w \in Workers, NEW j \in Jobs, Claim(w, j)
  PROVE  Sound(w)
<1> DEFINE tries == IF Swept[j].attempts < MaxAttempts
                    THEN Swept[j].attempts + 1 ELSE Swept[j].attempts
           one == [Swept[j] EXCEPT !.status = "running", !.wait = "none", !.lease = w]
           row == [one EXCEPT !.attempts = tries]
           new == [Idle EXCEPT !.at = "claimed", !.on = j]
<1>1. /\ Good(Swept, member) /\ Sane(Swept[j]) /\ Asks(member[j], Swept[j])
      /\ Swept[j] \in JobRow /\ w # None
      /\ \A k \in Jobs : Swept[k] = job[k] \/ (job[k].expired /\ Swept[k].lease = None)
  BY SweptIsGood, ProvisioningAssumption DEF Good, Sane
<1>2. /\ Swept[j].status \in {"pending", "retry_wait"} /\ Swept[j].step # "complete"
      /\ Swept[j].lease = None /\ member[j].status # "none"
  BY <1>1 DEF Claim, Sane, Asks
<1>3. job' = [Swept EXCEPT ![j] = row] /\ wk' = [wk EXCEPT ![w] = new]
      /\ member' = member /\ user' = user
  BY DEF Claim
<1>4. tries \in 0..MaxAttempts /\ tries >= 1
  BY <1>1, ProvisioningAssumption DEF JobRow
<1> HIDE DEF tries
<1>5. /\ one \in JobRow /\ one.status = "running" /\ one.wait = "none" /\ one.lease = w
      /\ one.step = Swept[j].step /\ one.sent = Swept[j].sent
      /\ one.required = Swept[j].required /\ one.role = Swept[j].role
      /\ one.state = Swept[j].state /\ one.reconcile = Swept[j].reconcile
  BY <1>1 DEF JobRow, JobStatus
<1> HIDE DEF one
<1>6. /\ row \in JobRow /\ row.status = "running" /\ row.wait = "none" /\ row.lease = w
      /\ row.step = one.step /\ row.sent = one.sent /\ row.attempts = tries
      /\ row.required = one.required /\ row.role = one.role
      /\ row.state = one.state /\ row.reconcile = one.reconcile
  BY <1>4, <1>5 DEF JobRow
<1> HIDE DEF row
<1>7. Sane(row)
  BY <1>1, <1>2, <1>4, <1>5, <1>6 DEF Sane
<1>8. Asks(member[j], row)
  BY <1>1, <1>2, <1>5, <1>6 DEF Asks
<1>9. /\ Good([Swept EXCEPT ![j] = row], member)
      /\ [Swept EXCEPT ![j] = row][j] = row
      /\ \A k \in Jobs \ {j} : [Swept EXCEPT ![j] = row][k] = Swept[k]
  BY <1>1, <1>7, <1>8, ReplacedIsGood
<1>10. job[j].lease = None \/ job[j].expired
  BY <1>1, <1>2
<1>11. Spares(w) /\ Owner(w)
  BY <1>1, <1>3, <1>6, <1>9, <1>10 DEF Spares, Owner
<1>12. new \in WorkerRow /\ new.at = "claimed" /\ new.on = j
  BY DEF Idle, WorkerRow, Place
<1> HIDE DEF new
<1>13. /\ wk' \in [Workers -> WorkerRow] /\ wk'[w] = new
       /\ \A v \in Workers \ {w} : wk'[v] = wk[v]
  BY <1>3, <1>12 DEF QueueInv, Kinds
<1>14. Moves(w)
  BY <1>12, <1>13 DEF Moves, InCall, Mailing
<1> QED
  BY <1>3, <1>9, <1>11, <1>14 DEF Sound, QueueInv, Kinds

LEMMA CrashIsSound ==
  ASSUME QueueInv, NEW w \in Workers, Crash(w)
  PROVE  Sound(w)
<1>1. Given(w) /\ Owner(w) /\ Leave(w)
  BY DEF Crash, Given, Owner
<1>2. Good(job', member') /\ member' \in [Jobs -> MemberRow]
  BY DEF Crash, QueueInv, Kinds
<1> QED
  BY <1>1, <1>2, LeftIsSound

-----------------------------------------------------------------------------
(***************************************************************************)
(* Leaders, the person, and time: no worker moves.                         *)
(***************************************************************************)

\* Rows are written under leases that stay, or that nobody has.
LEMMA RestIsSound ==
  ASSUME QueueInv, wk' = wk, Owner(None), member' \in [Jobs -> MemberRow], Good(job', member'),
         \A k \in Jobs :
           \/ job[k].lease = None /\ job'[k].lease = None
           \/ /\ job'[k].lease = job[k].lease /\ job'[k].expired = job[k].expired
              /\ user'.owner = None \/ job'[k].required = job[k].required
  PROVE  Sound(None)
<1>1. None \notin Workers
  BY ProvisioningAssumption
<1>2. Spares(None)
  BY DEF Spares
<1>3. Moves(None)
  BY <1>1 DEF Moves, QueueInv, Kinds
<1> QED
  BY <1>2, <1>3 DEF Sound

\* One membership and its job are written.
LEMMA PairIsSound ==
  ASSUME QueueInv, wk' = wk, user' = user, NEW j \in Jobs, NEW m \in MemberRow, NEW row,
         Sane(row), Asks(m, row),
         member' = [member EXCEPT ![j] = m], job' = [job EXCEPT ![j] = row],
         \/ job[j].lease = None /\ row.lease = None
         \/ /\ row.lease = job[j].lease /\ row.expired = job[j].expired
            /\ row.required = job[j].required
  PROVE  Sound(None)
<1>1. /\ member' \in [Jobs -> MemberRow] /\ member'[j] = m
      /\ \A k \in Jobs \ {j} : member'[k] = member[k]
  BY DEF QueueInv, Kinds
<1>2. /\ job' \in [Jobs -> JobRow] /\ job'[j] = row
      /\ \A k \in Jobs \ {j} : job'[k] = job[k]
  BY DEF QueueInv, Good, Sane
<1>3. \A k \in Jobs : Sane(job[k]) /\ Asks(member[k], job[k])
  BY DEF QueueInv, Good
<1>4. Good(job', member')
  BY <1>1, <1>2, <1>3 DEF Good
<1>5. Owner(None)
  BY DEF Owner
<1> QED
  BY <1>1, <1>2, <1>4, <1>5, RestIsSound

LEMMA NewJobIs ==
  ASSUME NEW r \in Roles
  PROVE  /\ Sane(NewJob(r)) /\ NewJob(r).lease = None /\ NewJob(r).role = r
         /\ NewJob(r).state = "active"
<1>1. 0 \in 0..MaxAttempts
  BY ProvisioningAssumption
<1> QED
  BY <1>1 DEF NewJob, Sane, JobRow, JobStatus

LEMMA NoJobIs == Sane(NoJob) /\ NoJob.lease = None /\ NoJob.status = "none"
<1> DEFINE r == CHOOSE r \in Roles : TRUE
<1>1. r \in Roles /\ 0 \in 0..MaxAttempts
  BY ProvisioningAssumption
<1> HIDE DEF r
<1>2. NoJob = [NewJob(r) EXCEPT !.status = "none"]
  BY DEF NoJob, r
<1> QED
  BY <1>1, <1>2 DEF NewJob, Sane, JobRow, JobStatus

LEMMA NoMemberIs == NoMember \in MemberRow /\ NoMember.status = "none"
BY ProvisioningAssumption DEF NoMember, MemberRow, MemberStatus

LEMMA InviteIsSound ==
  ASSUME QueueInv, NEW j \in Jobs, NEW r \in Roles, Invite(j, r)
  PROVE  Sound(None)
<1> DEFINE m == [status |-> "invited", role |-> r]
<1>1. m \in MemberRow /\ m.status = "invited" /\ m.role = r
  BY DEF MemberRow, MemberStatus
<1>2. member' = [member EXCEPT ![j] = m] /\ job' = [job EXCEPT ![j] = NewJob(r)]
      /\ wk' = wk /\ user' = user
  BY DEF Invite
<1> HIDE DEF m
<1>3. job[j].lease = None
  BY RowOf DEF Invite, Sane, Asks
<1>4. Asks(m, NewJob(r))
  BY <1>1, NewJobIs DEF Asks
<1> QED
  BY <1>1, <1>2, <1>3, <1>4, NewJobIs, PairIsSound

LEMMA PatchIsSound ==
  ASSUME QueueInv, NEW j \in Jobs, NEW r \in Roles,
         NEW s \in {member[j].status, "active", "disabled"}, Patch(j, r, s)
  PROVE  Sound(None)
<1> DEFINE status == IF s = "active" /\ member[j].status # "active" THEN "invited" ELSE s
           m == [role |-> r, status |-> status]
           state == IF s = "disabled" THEN "disabled" ELSE "active"
           row == Enqueued(j, r, state)
<1>1. status \in MemberStatus \ {"none"} /\ (status = "disabled" <=> s = "disabled")
  BY RowOf DEF Patch, MemberRow, MemberStatus
<1>2. member' = [member EXCEPT ![j] = m] /\ job' = [job EXCEPT ![j] = row]
      /\ wk' = wk /\ user' = user
  BY DEF Patch
<1> HIDE DEF status
<1>3. m \in MemberRow /\ m.status = status /\ m.role = r
  BY <1>1 DEF MemberRow
<1>4. /\ Sane(row) /\ row.lease = job[j].lease /\ row.expired = job[j].expired
      /\ job[j].lease = None \/ row.required = job[j].required
      /\ row.reconcile \/ (row.role = r /\ row.state = state)
  BY RowOf, EnqueuedIsSane
<1> HIDE DEF row, m
<1>5. Asks(m, row)
  BY <1>1, <1>3, <1>4 DEF Asks
<1> QED
  BY <1>2, <1>3, <1>4, <1>5, PairIsSound

LEMMA CancelIsSound ==
  ASSUME QueueInv, NEW j \in Jobs, Cancel(j)
  PROVE  Sound(None)
<1>1. member' = [member EXCEPT ![j] = NoMember] /\ job' = [job EXCEPT ![j] = NoJob]
      /\ wk' = wk /\ user' = user
  BY DEF Cancel
<1>2. job[j].lease = None
  BY RowOf DEF Cancel, Sane
<1>3. Asks(NoMember, NoJob)
  BY NoJobIs, NoMemberIs DEF Asks
<1> QED
  BY <1>1, <1>2, <1>3, NoJobIs, NoMemberIs, PairIsSound

LEMMA ResendIsSound ==
  ASSUME QueueInv, NEW j \in Jobs, Resend(j)
  PROVE  Sound(None)
<1> DEFINE one == [job[j] EXCEPT !.step = "enrollment", !.status = "pending", !.attempts = 0]
           row == [one EXCEPT !.sent = FALSE, !.resend = TRUE, !.dispatch = FALSE]
<1>1. /\ Sane(job[j]) /\ Asks(member[j], job[j]) /\ job[j] \in JobRow
      /\ member[j] \in MemberRow /\ job[j].status = "succeeded" /\ member[j].status = "active"
      /\ 0 \in 0..MaxAttempts
  BY RowOf, ProvisioningAssumption DEF Resend
<1>2. job' = [job EXCEPT ![j] = row] /\ member' = member /\ wk' = wk /\ user' = user
  BY DEF Resend
<1>3. member' = [member EXCEPT ![j] = member[j]]
  BY <1>2 DEF QueueInv, Kinds
<1>4. /\ one \in JobRow /\ one.step = "enrollment" /\ one.status = "pending"
      /\ one.lease = job[j].lease /\ one.wait = job[j].wait /\ one.role = job[j].role
      /\ one.state = job[j].state /\ one.reconcile = job[j].reconcile
  BY <1>1 DEF JobRow, JobStatus
<1> HIDE DEF one
<1>5. /\ row \in JobRow /\ row.step = "enrollment" /\ row.status = "pending" /\ ~row.sent
      /\ row.lease = one.lease /\ row.wait = one.wait /\ row.role = one.role
      /\ row.state = one.state /\ row.reconcile = one.reconcile
  BY <1>4 DEF JobRow
<1> HIDE DEF row
<1>6. Sane(row) /\ row.lease = None /\ job[j].lease = None
  BY <1>1, <1>4, <1>5 DEF Sane
<1>7. Asks(member[j], row)
  BY <1>1, <1>4, <1>5 DEF Asks
<1> QED
  BY <1>1, <1>2, <1>3, <1>6, <1>7, PairIsSound

LEMMA RetryIsSound ==
  ASSUME QueueInv, NEW j \in Jobs, Retry(j)
  PROVE  Sound(None)
<1> DEFINE marked == job[j].dispatch /\ job[j].error # "delivery_unknown"
           one == [job[j] EXCEPT !.status = "pending", !.step = "identity", !.attempts = 0]
           two == [one EXCEPT !.wait = "none", !.error = "none"]
           row == [two EXCEPT !.dispatch = marked]
           freed(k) == [job[k] EXCEPT !.dispatch = FALSE]
           out == [k \in Jobs |-> IF k = j THEN row
                                  ELSE IF k \in StoppedOwner(j) THEN freed(k) ELSE job[k]]
<1>1. /\ Sane(job[j]) /\ Asks(member[j], job[j]) /\ job[j] \in JobRow
      /\ job[j].status \in {"failed", "retry_wait"} /\ 0 \in 0..MaxAttempts
  BY RowOf, ProvisioningAssumption DEF Retry
<1>2. job' = out /\ wk' = wk /\ member' = member /\ marked \in BOOLEAN
  BY DEF Retry
<1> HIDE DEF marked
<1>3. /\ one \in JobRow /\ one.status = "pending" /\ one.step = "identity"
      /\ one.sent = job[j].sent /\ one.required = job[j].required
      /\ one.lease = job[j].lease /\ one.expired = job[j].expired
      /\ one.role = job[j].role /\ one.state = job[j].state /\ one.reconcile = job[j].reconcile
  BY <1>1 DEF JobRow, JobStatus
<1> HIDE DEF one
<1>4. /\ two \in JobRow /\ two.wait = "none" /\ two.status = one.status /\ two.step = one.step
      /\ two.sent = one.sent /\ two.required = one.required
      /\ two.lease = one.lease /\ two.expired = one.expired
      /\ two.role = one.role /\ two.state = one.state /\ two.reconcile = one.reconcile
  BY <1>3 DEF JobRow
<1> HIDE DEF two
<1>5. /\ row \in JobRow /\ row.wait = two.wait /\ row.status = two.status /\ row.step = two.step
      /\ row.sent = two.sent /\ row.required = two.required
      /\ row.lease = two.lease /\ row.expired = two.expired
      /\ row.role = two.role /\ row.state = two.state /\ row.reconcile = two.reconcile
  BY <1>2, <1>4 DEF JobRow
<1>6. ASSUME NEW k \in Jobs
      PROVE  /\ freed(k) \in JobRow /\ freed(k).wait = job[k].wait
             /\ freed(k).status = job[k].status /\ freed(k).step = job[k].step
             /\ freed(k).sent = job[k].sent /\ freed(k).required = job[k].required
             /\ freed(k).lease = job[k].lease /\ freed(k).expired = job[k].expired
             /\ freed(k).attempts = job[k].attempts /\ freed(k).role = job[k].role
             /\ freed(k).state = job[k].state /\ freed(k).reconcile = job[k].reconcile
  BY RowOf DEF JobRow
<1>7. \A k \in Jobs : job'[k] \in IF k = j THEN {row} ELSE {freed(k), job[k]}
  BY <1>2
<1>8. job' = [k \in Jobs |-> job'[k]]
  BY <1>2
<1> HIDE DEF row, freed, out
<1>9. Sane(row) /\ Asks(member[j], row)
  BY <1>1, <1>3, <1>4, <1>5 DEF Sane, Asks
<1>10. ASSUME NEW k \in Jobs
       PROVE  Sane(freed(k)) /\ Asks(member[k], freed(k))
  BY <1>6, RowOf DEF Sane, Asks
<1>11. \A k \in Jobs : /\ Sane(job'[k]) /\ Asks(member[k], job'[k])
                       /\ job'[k].lease = job[k].lease /\ job'[k].expired = job[k].expired
                       /\ job'[k].required = job[k].required
  <2> TAKE k \in Jobs
  <2>1. CASE k = j
    BY <1>3, <1>4, <1>5, <1>7, <1>9, <2>1
  <2>2. CASE k # j /\ job'[k] = freed(k)
    BY <1>6, <1>10, <2>2
  <2>3. CASE job'[k] = job[k]
    BY <2>3, RowOf
  <2> QED
    BY <1>7, <2>1, <2>2, <2>3
<1>12. \A k \in Jobs : job'[k] \in JobRow
  BY <1>11 DEF Sane
<1>13. Good(job', member') /\ member' \in [Jobs -> MemberRow]
  BY <1>2, <1>8, <1>11, <1>12 DEF Good, QueueInv, Kinds
<1>14. Owner(None)
  BY DEF Retry, Owner, QueueInv, Kinds, UserRow
<1> QED
  BY <1>2, <1>11, <1>13, <1>14, RestIsSound

LEMMA PersonIsSound ==
  ASSUME QueueInv, Person
  PROVE  Sound(None)
<1>1. /\ wk' = wk /\ member' = member /\ member' \in [Jobs -> MemberRow] /\ user \in UserRow
      /\ Good(job, member)
  BY DEF Person, Login, VerifiedLogin, QueueInv, Kinds
<1>2. CASE Login
  <2>1. job' = job /\ user'.owner = user.owner
    BY <1>1, <1>2 DEF Login, UserRow
  <2> QED
    BY <1>1, <2>1, RestIsSound DEF Owner
<1>3. CASE VerifiedLogin
  <2>1. job' = Satisfied(job) /\ user'.owner = None
    BY <1>1, <1>3 DEF VerifiedLogin, UserRow
  <2>2. /\ Good(job', member)
        /\ \A k \in Jobs : job'[k].lease = job[k].lease /\ job'[k].expired = job[k].expired
    BY <2>1, SatisfiedIsGood DEF QueueInv
  <2> QED
    BY <1>1, <2>1, <2>2, RestIsSound DEF Owner
<1> QED
  BY <1>2, <1>3 DEF Person

LEMMA DelayEndsIsSound ==
  ASSUME QueueInv, NEW j \in Jobs, DelayEnds(j)
  PROVE  Sound(None)
<1> DEFINE row == [job[j] EXCEPT !.wait = "due"]
<1>1. /\ Sane(job[j]) /\ Asks(member[j], job[j]) /\ job[j] \in JobRow
      /\ member[j] \in MemberRow /\ job[j].wait # "none"
  BY RowOf DEF DelayEnds
<1>2. job' = [job EXCEPT ![j] = row] /\ member' = member /\ wk' = wk /\ user' = user
  BY DEF DelayEnds
<1>3. member' = [member EXCEPT ![j] = member[j]]
  BY <1>2 DEF QueueInv, Kinds
<1>4. /\ row \in JobRow /\ row.wait = "due" /\ row.status = job[j].status
      /\ row.step = job[j].step /\ row.sent = job[j].sent /\ row.required = job[j].required
      /\ row.lease = job[j].lease /\ row.expired = job[j].expired
      /\ row.attempts = job[j].attempts /\ row.role = job[j].role
      /\ row.state = job[j].state /\ row.reconcile = job[j].reconcile
  BY <1>1 DEF JobRow
<1> HIDE DEF row
<1>5. Sane(row) /\ Asks(member[j], row)
  BY <1>1, <1>4 DEF Sane, Asks
<1> QED
  BY <1>1, <1>2, <1>3, <1>4, <1>5, PairIsSound

LEMMA LandIsSound ==
  ASSUME QueueInv, NEW call \in flying, Land(call)
  PROVE  Sound(None)
<1>1. /\ wk' = wk /\ member' = member /\ job' = job /\ user' = user
      /\ member' \in [Jobs -> MemberRow] /\ Good(job', member') /\ Owner(None)
  BY DEF Land, QueueInv, Kinds, Owner
<1> QED
  BY <1>1, RestIsSound

\* A lease runs out only when nobody is in a call under it.
LEMMA LeaseRunsOutKeeps ==
  ASSUME QueueInv, NEW j \in Jobs, LeaseRunsOut(j)
  PROVE  /\ member' \in [Jobs -> MemberRow] /\ wk' \in [Workers -> WorkerRow]
         /\ Good(job', member') /\ CallsAreLeased' /\ EmailOwed'
<1> DEFINE row == [job[j] EXCEPT !.expired = TRUE]
<1>1. Sane(job[j]) /\ Asks(member[j], job[j]) /\ job[j] \in JobRow
  BY RowOf
<1>2. job' = [job EXCEPT ![j] = row] /\ member' = member /\ wk' = wk /\ user' = user
  BY DEF LeaseRunsOut
<1>3. /\ row \in JobRow /\ row.wait = job[j].wait /\ row.status = job[j].status
      /\ row.step = job[j].step /\ row.sent = job[j].sent /\ row.required = job[j].required
      /\ row.lease = job[j].lease
      /\ row.attempts = job[j].attempts /\ row.role = job[j].role
      /\ row.state = job[j].state /\ row.reconcile = job[j].reconcile
  BY <1>1 DEF JobRow
<1> HIDE DEF row
<1>4. Sane(row) /\ Asks(member[j], row)
  BY <1>1, <1>3 DEF Sane, Asks
<1>5. /\ Good([job EXCEPT ![j] = row], member)
      /\ [job EXCEPT ![j] = row][j] = row
      /\ \A k \in Jobs \ {j} : [job EXCEPT ![j] = row][k] = job[k]
  BY <1>4, ReplacedIsGood DEF QueueInv
<1>6. /\ Good(job', member') /\ job'[j] = row /\ \A k \in Jobs \ {j} : job'[k] = job[k]
  BY <1>2, <1>5
<1>7. CallsAreLeased'
  <2>1. \A w \in Workers : wk[w].on = j /\ job[j].lease = w => wk[w].at \notin InCall
    BY DEF LeaseRunsOut, Timely
  <2>2. \A w \in Workers : wk[w].at \in InCall => wk[w].at # "idle"
    BY DEF InCall
  <2> QED
    BY <1>2, <1>6, <2>1, <2>2 DEF CallsAreLeased, QueueInv
<1>8. EmailOwed'
  <2>1. \A w \in Workers : wk[w].at \in Mailing => wk[w].on \in Jobs
    BY BusyHasJob DEF Mailing
  <2> QED
    BY <1>2, <1>3, <1>6, <2>1 DEF EmailOwed, QueueInv
<1> QED
  BY <1>2, <1>6, <1>7, <1>8 DEF QueueInv, Kinds

LEMMA LeaderIsSound ==
  ASSUME QueueInv, LeaderStep
  PROVE  Sound(None)
<1>1. PICK j \in Jobs :
        \/ \E r \in Roles : Invite(j, r)
        \/ \E r \in Roles : \E s \in {member[j].status, "active", "disabled"} : Patch(j, r, s)
        \/ Cancel(j) \/ Retry(j) \/ Resend(j)
  BY DEF LeaderStep
<1> QED
  BY <1>1, InviteIsSound, PatchIsSound, CancelIsSound, RetryIsSound, ResendIsSound

\* Whoever moves, the tables stay good and calls stay under their leases.
LEMMA NextKeepsTables ==
  ASSUME QueueInv, Next
  PROVE  /\ member' \in [Jobs -> MemberRow] /\ wk' \in [Workers -> WorkerRow]
         /\ Good(job', member') /\ CallsAreLeased' /\ EmailOwed'
<1>1. ASSUME NEW w \in Workers \cup {None}, Sound(w)
      PROVE  /\ member' \in [Jobs -> MemberRow] /\ wk' \in [Workers -> WorkerRow]
             /\ Good(job', member') /\ CallsAreLeased' /\ EmailOwed'
  BY <1>1, SoundKeepsCalls DEF QueueInv, Sound, Moves
<1>2. CASE \E w \in Workers : WorkerStep(w) \/ \E j \in Jobs : Claim(w, j)
  BY <1>1, <1>2, WorkerStepIsSound, ClaimIsSound
<1>3. CASE \E w \in Workers : Crash(w)
  BY <1>1, <1>3, CrashIsSound
<1>4. CASE \E j \in Jobs : LeaseRunsOut(j)
  BY <1>4, LeaseRunsOutKeeps
<1>5. CASE LeaderStep \/ Person \/ (\E j \in Jobs : DelayEnds(j)) \/ \E call \in flying : Land(call)
  <2>1. Sound(None)
    BY <1>5, LeaderIsSound, PersonIsSound, DelayEndsIsSound, LandIsSound
  <2> QED
    BY <1>1, <2>1
<1> QED
  BY <1>2, <1>3, <1>4, <1>5 DEF Next, Work, TimeStep, Disturbance

-----------------------------------------------------------------------------
(***************************************************************************)
(* The person's row, and what nothing else depends on.                     *)
(***************************************************************************)

\* The ways a step writes the person's row.
UserStep ==
  \/ UNCHANGED user
  \/ user' = [user EXCEPT !.owner = None]
  \/ \E j \in Jobs : user.managed /\ user' = [user EXCEPT !.owner = j]
  \/ user' = [user EXCEPT !.login = TRUE]
  \/ user.linked /\ user' = [user EXCEPT !.sent = TRUE, !.owner = None]
  \/ \E managed, sent \in BOOLEAN : \E owner \in {None, user.owner} :
       user' = [user EXCEPT !.linked = TRUE, !.managed = managed, !.sent = sent,
                            !.owner = owner]

LEMMA UserStepKeeps ==
  ASSUME Kinds, AccountFirst, UserStep
  PROVE  user' \in UserRow /\ AccountFirst'
<1>1. user \in UserRow
  BY DEF Kinds
<1>2. CASE UNCHANGED user
  BY <1>1, <1>2 DEF AccountFirst
<1>3. CASE user' = [user EXCEPT !.owner = None]
  BY <1>1, <1>3 DEF AccountFirst, UserRow
<1>4. CASE \E j \in Jobs : user.managed /\ user' = [user EXCEPT !.owner = j]
  BY <1>1, <1>4 DEF AccountFirst, UserRow
<1>5. CASE user' = [user EXCEPT !.login = TRUE]
  BY <1>1, <1>5 DEF AccountFirst, UserRow
<1>6. CASE user.linked /\ user' = [user EXCEPT !.sent = TRUE, !.owner = None]
  BY <1>1, <1>6 DEF AccountFirst, UserRow
<1>7. CASE \E managed, sent \in BOOLEAN : \E owner \in {None, user.owner} :
             user' = [user EXCEPT !.linked = TRUE, !.managed = managed, !.sent = sent,
                                  !.owner = owner]
  BY <1>1, <1>7 DEF AccountFirst, UserRow
<1> QED
  BY <1>2, <1>3, <1>4, <1>5, <1>6, <1>7 DEF UserStep

LEMMA NextIsUserStep ==
  ASSUME QueueInv, Next
  PROVE  UserStep
<1>1. user \in UserRow
  BY DEF QueueInv, Kinds
<1>2. user = [user EXCEPT !.owner = user.owner]
  BY <1>1 DEF UserRow
<1>3. ASSUME NEW w \in Workers, NEW acct, RecordIdentity(w, acct)
      PROVE  UserStep
  <2> DEFINE managed == user.managed \/ acct = "ours"
             sent == user.sent \/ user.login
             owner == IF user.login THEN None ELSE user.owner
  <2>1. managed \in BOOLEAN /\ sent \in BOOLEAN /\ owner \in {None, user.owner}
    OBVIOUS
  <2>2. user' = [user EXCEPT !.linked = TRUE, !.managed = managed, !.sent = sent,
                             !.owner = owner]
    BY <1>3 DEF RecordIdentity
  <2> HIDE DEF managed, sent, owner
  <2> QED
    BY <2>1, <2>2 DEF UserStep
<1>4. ASSUME NEW w \in Workers, IdentityAnswer(w)
      PROVE  UserStep
  BY <1>3, <1>4 DEF IdentityAnswer, UserStep
<1>5. ASSUME NEW w \in Workers, Enroll(w)
      PROVE  UserStep
  <2> DEFINE j == wk[w].on
             owns == ~SentBefore(j) /\ ~OwnerDispatches(j) /\ CanOwn(j)
  <2>1. j \in Jobs
    BY <1>5, BusyHasJob DEF Enroll
  <2>2. CASE UNCHANGED user
    BY <2>2 DEF UserStep
  <2>3. CASE EmailWanted(j) /\ ClaimEnrollment(w)
    <3>1. \/ user.linked /\ user' = [user EXCEPT !.sent = TRUE, !.owner = None]
          \/ user' = [user EXCEPT !.owner = IF owns THEN j ELSE user.owner]
      BY <2>3, Zenon DEF ClaimEnrollment
    <3>2. user.managed
      BY <2>3 DEF EmailWanted
    <3>3. CASE user' = [user EXCEPT !.owner = IF owns THEN j ELSE user.owner]
      <4>1. CASE owns
        BY <2>1, <3>2, <3>3, <4>1 DEF UserStep
      <4>2. CASE ~owns
        BY <1>2, <3>3, <4>2 DEF UserStep
      <4> QED
        BY <4>1, <4>2
    <3> QED
      BY <3>1, <3>3 DEF UserStep
  <2> QED
    BY <1>5, <2>2, <2>3 DEF Enroll
<1>6. ASSUME NEW w \in Workers, EmailAnswer(w)
      PROVE  UserStep
  BY <1>6 DEF EmailAnswer, UserStep
<1>7. ASSUME NEW w \in Workers, RecordSent(w)
      PROVE  UserStep
  <2>1. wk[w].on # None
    BY <1>7, BusyHasJob, ProvisioningAssumption DEF RecordSent
  <2>2. user.owner = wk[w].on => user.linked
    BY <2>1 DEF QueueInv, AccountFirst
  <2> QED
    BY <1>7, <2>2 DEF RecordSent, UserStep
<1>8. ASSUME NEW w \in Workers, WorkerStep(w)
      PROVE  UserStep
  <2>1. CASE \/ Begin(w) \/ IdentityCall(w) \/ ReadAccount(w) \/ ChangeGroup(w)
             \/ GroupAnswer(w) \/ SignedIn(w) \/ Dispatch(w) \/ Finish(w)
    BY <2>1 DEF Begin, IdentityCall, ReadAccount, ChangeGroup, GroupAnswer, SignedIn,
                Dispatch, Finish, UserStep
  <2> QED
    BY <1>4, <1>5, <1>6, <1>7, <1>8, <2>1 DEF WorkerStep
<1>9. ASSUME NEW j \in Jobs, Retry(j)
      PROVE  UserStep
  <2>1. user' = [user EXCEPT !.owner = IF user.owner \in StoppedOwner(j) THEN None ELSE user.owner]
    BY <1>9 DEF Retry
  <2>2. CASE user.owner \in StoppedOwner(j)
    BY <2>1, <2>2 DEF UserStep
  <2>3. CASE user.owner \notin StoppedOwner(j)
    BY <1>2, <2>1, <2>3 DEF UserStep
  <2> QED
    BY <2>2, <2>3
<1>10. CASE LeaderStep
  BY <1>9, <1>10 DEF LeaderStep, Invite, Patch, Cancel, Resend, UserStep
<1>11. CASE Person
  BY <1>11 DEF Person, Login, VerifiedLogin, UserStep
<1>12. CASE \/ \E w \in Workers : Crash(w) \/ \E j \in Jobs : Claim(w, j)
            \/ \E j \in Jobs : LeaseRunsOut(j) \/ DelayEnds(j)
            \/ \E call \in flying : Land(call)
  BY <1>12 DEF Crash, Claim, LeaseRunsOut, DelayEnds, Land, UserStep
<1> QED
  BY <1>8, <1>10, <1>11, <1>12 DEF Next, Work, TimeStep, Disturbance

Others ==
  /\ account \in {"none", "ours", "foreign"}
  /\ grouped \subseteq Jobs
  /\ flying \subseteq Jobs \X {"adding", "removing"}
  /\ credit \in Int

LEMMA NextKeepsOthers ==
  ASSUME QueueInv, Next
  PROVE  Others' /\ moves' \in 0..MaxMoves
<1>1. Others /\ moves \in 0..MaxMoves
  BY DEF QueueInv, Kinds, Others
<1>2. moves' \in 0..MaxMoves
  BY <1>1, ProvisioningAssumption DEF Next
<1> DEFINE OnlyCredit == /\ UNCHANGED <<account, grouped, flying>>
                         /\ credit' \in {credit, credit - 1, credit + 1}
<1>9. OnlyCredit => Others'
  BY <1>1 DEF Others
<1>3. ASSUME NEW w \in Workers, WorkerStep(w)
      PROVE  Others'
  <2>1. CASE \/ Begin(w) \/ IdentityCall(w) \/ ReadAccount(w) \/ ChangeGroup(w)
             \/ Enroll(w) \/ SignedIn(w) \/ RecordSent(w) \/ Finish(w)
    BY <1>1, <2>1 DEF Begin, IdentityCall, ReadAccount, ChangeGroup, Enroll, SignedIn,
                      RecordSent, Finish, Others
  <2>2. CASE IdentityAnswer(w)
    BY <1>1, <2>2 DEF IdentityAnswer, Others
  <2>3. CASE GroupAnswer(w)
    <3>1. wk[w].on \in Jobs /\ wk[w].at \in {"adding", "removing"}
      BY <2>3, BusyHasJob DEF GroupAnswer
    <3>2. grouped' \in {grouped, Effect(wk[w].on, wk[w].at)}
          /\ flying' \in {flying, flying \cup {<<wk[w].on, wk[w].at>>}}
          /\ account' = account /\ credit' = credit
      BY <2>3 DEF GroupAnswer
    <3> QED
      BY <1>1, <3>1, <3>2 DEF Others, Effect
  <2>4. CASE Dispatch(w) \/ EmailAnswer(w)
    <3>1. OnlyCredit
      BY <2>4 DEF Dispatch, EmailAnswer
    <3> QED
      BY <1>9, <3>1
  <2> QED
    BY <1>3, <2>1, <2>2, <2>3, <2>4 DEF WorkerStep
<1>4. CASE LeaderStep
  <2>1. ASSUME NEW j \in Jobs, Retry(j)
        PROVE  OnlyCredit
    BY <2>1 DEF Retry
  <2>2. ASSUME NEW j \in Jobs, Resend(j)
        PROVE  OnlyCredit
    BY <2>2 DEF Resend
  <2>3. OnlyCredit
    BY <1>4, <2>1, <2>2 DEF LeaderStep, Invite, Patch, Cancel
  <2> QED
    BY <1>2, <1>9, <2>3
<1>5. CASE Person
  <2>1. OnlyCredit
    BY <1>5 DEF Person, Login, VerifiedLogin
  <2> QED
    BY <1>2, <1>9, <2>1
<1>6. CASE \/ \E w \in Workers : \E j \in Jobs : Claim(w, j)
           \/ \E j \in Jobs : LeaseRunsOut(j) \/ DelayEnds(j)
  <2>1. OnlyCredit
    BY <1>6 DEF Claim, LeaseRunsOut, DelayEnds
  <2> QED
    BY <1>2, <1>9, <2>1
<1>7. ASSUME NEW w \in Workers, Crash(w)
      PROVE  Others'
  <2>1. wk[w].on \in Jobs
    BY <1>7, BusyHasJob DEF Crash
  <2> QED
    BY <1>1, <1>7, <2>1 DEF Crash, Others
<1>8. ASSUME NEW call \in flying, Land(call)
      PROVE  Others'
  <2>1. call[1] \in Jobs
    BY <1>1 DEF Others
  <2> QED
    BY <1>1, <1>8, <2>1 DEF Land, Effect, Others
<1> QED
  BY <1>2, <1>3, <1>4, <1>5, <1>6, <1>7, <1>8 DEF Next, Work, TimeStep, Disturbance

-----------------------------------------------------------------------------
(***************************************************************************)
(* Theorems.                                                               *)
(***************************************************************************)

LEMMA QueueInvInit == Init => QueueInv
<1> SUFFICES ASSUME Init PROVE QueueInv
  OBVIOUS
<1>1. Idle \in WorkerRow /\ Idle.at = "idle" /\ "idle" \notin InCall /\ "idle" \notin Mailing
  BY DEF Idle, WorkerRow, Place, InCall, Mailing
<1>2. Kinds
  BY <1>1, NoMemberIs, ProvisioningAssumption DEF Init, Kinds, UserRow
<1>3. \A k \in Jobs : Sane(job[k]) /\ Asks(member[k], job[k])
  BY NoJobIs, NoMemberIs DEF Init, Asks
<1>4. job \in [Jobs -> JobRow]
  BY NoJobIs DEF Init, Sane
<1>5. CallsAreLeased /\ EmailOwed
  BY <1>1 DEF Init, CallsAreLeased, EmailOwed
<1>6. AccountFirst
  BY DEF Init, AccountFirst
<1> QED
  BY <1>2, <1>3, <1>4, <1>5, <1>6 DEF QueueInv, Good

LEMMA QueueInvStep == QueueInv /\ [Next]_vars => QueueInv'
<1> SUFFICES ASSUME QueueInv, [Next]_vars PROVE QueueInv'
  OBVIOUS
<1>1. CASE Next
  <2>1. user' \in UserRow /\ AccountFirst'
    BY <1>1, NextIsUserStep, UserStepKeeps DEF QueueInv
  <2>2. Kinds'
    BY <1>1, <2>1, NextKeepsTables, NextKeepsOthers DEF Kinds, Others
  <2> QED
    BY <1>1, <2>1, <2>2, NextKeepsTables DEF QueueInv
<1>2. CASE UNCHANGED vars
  BY <1>2 DEF vars, QueueInv, Kinds, Good, CallsAreLeased, EmailOwed, AccountFirst
<1> QED
  BY <1>1, <1>2

LEMMA QueueInvAlways == Spec => []QueueInv
BY QueueInvInit, QueueInvStep, PTL DEF Spec

\* Whoever changes a membership while a worker holds its job leaves a note that
\* survives the worker, its lease and every retry: a job without one asks for
\* what the membership is.
THEOREM TargetIsCurrentCorrect == Spec => []TargetIsCurrent
<1>1. QueueInv => TargetIsCurrent
  BY DEF QueueInv, Good, Asks, TargetIsCurrent, OnTarget, StateOf
<1> QED
  BY <1>1, QueueInvAlways, PTL

\* Every statement of the queue respects the constraints of the database, and
\* no two replicas are in a call for the same job.
THEOREM JobsAreSoundCorrect == Spec => []JobsAreSound
<1>1. QueueInv => ProvTypeOK
  BY DEF QueueInv, Kinds, Good, MemberRow, UserRow, WorkerRow, ProvTypeOK
<1>2. QueueInv => ChecksHold
  BY DEF QueueInv, Good, Sane, AccountFirst, ChecksHold
<1>3. QueueInv => OneCallPerJob
  BY ProvisioningAssumption DEF QueueInv, CallsAreLeased, OneCallPerJob
<1> QED
  BY <1>1, <1>2, <1>3, QueueInvAlways, PTL DEF JobsAreSound

-----------------------------------------------------------------------------
(***************************************************************************)
(* The set-up email.                                                       *)
(***************************************************************************)

\* What a row has to do with emails that were sent to the person, a being the
\* account and told whether the person was told of it: only a person who was
\* told, or has a foreign account, is not to be told, and no job is past the
\* first step, or done, before that is settled.
Told(row, told, a) ==
  /\ row.sent => told
  /\ row.state = "active" /\ row.required = "no" => told \/ a = "foreign"
  /\ row.state = "active" /\ row.required = "unknown" => row.step = "identity"
  /\ row.state = "active" /\ row.required = "yes" /\ row.status = "succeeded" => row.sent
  /\ row.step = "enrollment" => row.state = "active"
  /\ row.status = "none" => ~row.dispatch /\ ~row.resend
  /\ row.resend => told

\* The worker that holds a job is at the step the job is at, and goes to send
\* an email only while it owns it and it is the first or asked for again,
\* unless the job is to start over.
AtGroups == {"groups", "change", "adding", "removing"}
AtEmail == {"enroll", "quit", "dispatch", "mail", "mailed", "finish"}
InPlace(w) ==
  LET j == wk[w].on IN
  /\ wk[w].at \in AtGroups /\ job[j].lease = w => job[j].step = "groups"
  /\ wk[w].at \in AtEmail /\ job[j].lease = w => job[j].step = "enrollment"
  /\ wk[w].at = "dispatch" /\ job[j].lease = w /\ ~job[j].reconcile
       => user.owner = j /\ (job[j].resend \/ ~user.sent)

\* The emails that may be sent as things are: one for each resend that is not
\* under way, and the first.
Asked == {j \in Jobs : job[j].resend /\ ~job[j].dispatch}
First == IF user.sent \/ (\E j \in Jobs : job[j].dispatch) THEN 0 ELSE 1
CreditCovers == IsFiniteSet(Asked) /\ credit >= Cardinality(Asked) + First

MailInv ==
  /\ \A k \in Jobs : Told(job[k], user.sent, account)
  /\ \A w \in Workers : InPlace(w)
  /\ DispatchIsOwned
  /\ CreditCovers

\* In what follows w is the worker that acts, or None.  A row that another
\* worker holds stays at its step, and with the wish for its email, or is noted
\* to start over.
InHand(row, new, w) ==
  new.lease # w /\ new.lease # None =>
    /\ new.lease = row.lease /\ new.step = row.step
    /\ ~new.reconcile /\ row.step = "enrollment" =>
         ~row.reconcile /\ new.resend = row.resend
UserKept(w) ==
  \A k \in Jobs :
    /\ user.owner = k /\ job[k].lease # None /\ job[k].lease # w
    /\ job[k].step = "enrollment" /\ ~job'[k].reconcile
    => user'.owner = k /\ user'.sent = user.sent
Posted(w) ==
  /\ \A k \in Jobs : Told(job'[k], user'.sent, account') /\ InHand(job[k], job'[k], w)
  /\ UserKept(w)
  /\ \A v \in Workers \ {w} : wk'[v] = wk[v]
  /\ w \in Workers => InPlace(w)'
  /\ DispatchIsOwned' /\ CreditCovers'

LEMMA PostedKeepsMail ==
  ASSUME QueueInv, MailInv, NEW w \in Workers \cup {None}, Posted(w)
  PROVE  MailInv'
<1>1. ASSUME NEW v \in Workers \ {w}
      PROVE  InPlace(v)'
  <2> DEFINE j == wk[v].on
  <2>1. wk'[v] = wk[v] /\ v # None /\ InPlace(v)
    BY <1>1, ProvisioningAssumption DEF Posted, MailInv
  <2>2. CASE j \in Jobs /\ job'[j].lease = v
    <3>1. InHand(job[j], job'[j], w)
      BY <2>2 DEF Posted
    <3>2. /\ job[j].lease = v /\ job'[j].step = job[j].step
          /\ ~job'[j].reconcile /\ job[j].step = "enrollment" =>
               ~job[j].reconcile /\ job'[j].resend = job[j].resend
      BY <2>1, <2>2, <3>1 DEF InHand
    <3>3. CASE wk[v].at = "dispatch" /\ ~job'[j].reconcile
      <4>1. job[j].step = "enrollment"
        BY <2>1, <3>2, <3>3 DEF InPlace, AtEmail
      <4>2. user.owner = j /\ (job[j].resend \/ ~user.sent)
        BY <2>1, <3>2, <3>3, <4>1 DEF InPlace
      <4>3. user'.owner = j /\ user'.sent = user.sent
        BY <2>1, <2>2, <3>2, <3>3, <4>1, <4>2 DEF Posted, UserKept
      <4> QED
        BY <2>1, <3>2, <3>3, <4>1, <4>2, <4>3 DEF InPlace, AtGroups
    <3>4. CASE ~(wk[v].at = "dispatch" /\ ~job'[j].reconcile)
      BY <2>1, <3>2, <3>4 DEF InPlace
    <3> QED
      BY <3>3, <3>4
  <2>3. CASE job'[j].lease # v
    BY <2>1, <2>3 DEF InPlace
  <2>4. CASE j \notin Jobs
    <3>1. wk[v].at = "idle"
      BY <1>1, <2>4, BusyHasJob
    <3> QED
      BY <2>1, <3>1 DEF InPlace, AtGroups, AtEmail
  <2> QED
    BY <2>2, <2>3, <2>4
<1> QED
  BY <1>1 DEF Posted, MailInv

\* A step that is not about the email: nothing is marked, asked for or owned
\* that was not.
Calm(w) ==
  /\ \A k \in Jobs :
       /\ Told(job'[k], user'.sent, account') /\ InHand(job[k], job'[k], w)
       /\ job'[k].dispatch = job[k].dispatch /\ (job'[k].resend => job[k].resend)
  /\ user'.sent = user.sent /\ user'.owner = user.owner
  /\ credit' = credit
  /\ \A v \in Workers \ {w} : wk'[v] = wk[v]
  /\ w \in Workers => InPlace(w)'

\* The same or fewer emails may be sent.
LEMMA CreditStays ==
  ASSUME QueueInv, CreditCovers, credit' = credit, user.sent => user'.sent,
         \A k \in Jobs :
           /\ job'[k].resend /\ ~job'[k].dispatch => job[k].resend /\ ~job[k].dispatch
           /\ job[k].dispatch => job'[k].dispatch \/ user'.sent
  PROVE  CreditCovers'
<1>1. Asked' \subseteq Asked
  BY DEF Asked
<1>2. IsFiniteSet(Asked') /\ Cardinality(Asked') <= Cardinality(Asked)
      /\ Cardinality(Asked') \in Nat /\ Cardinality(Asked) \in Nat
  BY <1>1, FS_Subset, FS_CardinalityType DEF CreditCovers
<1>3. First' <= First /\ First \in {0, 1} /\ First' \in {0, 1}
  BY DEF First
<1>4. credit \in Int
  BY DEF QueueInv, Kinds
<1> QED
  BY <1>2, <1>3, <1>4 DEF CreditCovers

\* One more email may be sent, the one of job m or the first.
LEMMA CreditGrows ==
  ASSUME QueueInv, CreditCovers, credit' = credit + 1, user.sent => user'.sent,
         NEW m \in Jobs,
         \A k \in Jobs \ {m} :
           /\ job'[k].resend /\ ~job'[k].dispatch => job[k].resend /\ ~job[k].dispatch
           /\ job[k].dispatch => job'[k].dispatch \/ user'.sent,
         job'[m].resend => user.sent
  PROVE  CreditCovers'
<1>1. credit \in Int /\ First \in {0, 1} /\ First' \in {0, 1}
  BY DEF QueueInv, Kinds, First
<1>2. IsFiniteSet(Asked) /\ Cardinality(Asked) \in Nat
  BY FS_CardinalityType DEF CreditCovers
<1>3. CASE job'[m].resend
  <2>1. Asked' \subseteq Asked \cup {m}
    BY DEF Asked
  <2>2. First = 0 /\ First' = 0
    BY <1>3 DEF First
  <2>3. /\ IsFiniteSet(Asked \cup {m})
        /\ Cardinality(Asked \cup {m}) <= Cardinality(Asked) + 1
        /\ Cardinality(Asked \cup {m}) \in Nat
    <3>1. /\ IsFiniteSet(Asked \cup {m})
          /\ Cardinality(Asked \cup {m}) =
               IF m \in Asked THEN Cardinality(Asked) ELSE Cardinality(Asked) + 1
      BY <1>2, FS_AddElement
    <3> QED
      BY <1>2, <3>1
  <2>4. IsFiniteSet(Asked') /\ Cardinality(Asked') <= Cardinality(Asked \cup {m})
        /\ Cardinality(Asked') \in Nat
    BY <2>1, <2>3, FS_Subset, FS_CardinalityType
  <2> QED
    BY <1>1, <1>2, <2>2, <2>3, <2>4 DEF CreditCovers
<1>4. CASE ~job'[m].resend
  <2>1. Asked' \subseteq Asked
    BY <1>4 DEF Asked
  <2>2. IsFiniteSet(Asked') /\ Cardinality(Asked') <= Cardinality(Asked)
        /\ Cardinality(Asked') \in Nat
    BY <1>2, <2>1, FS_Subset, FS_CardinalityType
  <2> QED
    BY <1>1, <1>2, <2>2 DEF CreditCovers
<1> QED
  BY <1>3, <1>4

LEMMA CalmIsPosted ==
  ASSUME QueueInv, MailInv, NEW w, Calm(w)
  PROVE  Posted(w)
<1>1. UserKept(w)
  BY DEF Calm, UserKept
<1>2. DispatchIsOwned'
  BY DEF Calm, MailInv, DispatchIsOwned
<1>3. CreditCovers'
  BY CreditStays DEF Calm, MailInv
<1> QED
  BY <1>1, <1>2, <1>3 DEF Calm, Posted

\* What an error, a restart and a lost lease do to a row: it may lose its lease,
\* and then its wish for an email; the marker stays.
Parted(row, new) ==
  new = row \/ (new.lease = None /\ new.dispatch = row.dispatch /\ (new.resend => row.resend))

LEMMA UnleasedMail ==
  ASSUME NEW row \in JobRow
  PROVE  Unleased(row).dispatch = row.dispatch /\ Unleased(row).resend = row.resend
BY DEF Unleased, JobRow

LEMMA FailedMail ==
  ASSUME NEW row, Sane(row), row.status = "running",
         NEW code \in {"delivery_unknown", "pending", "other"}, NEW retryable \in BOOLEAN,
         NEW told, NEW a, Told(row, told, a)
  PROVE  Told(Failed(row, code, retryable), told, a) /\ Parted(row, Failed(row, code, retryable))
<1> DEFINE again == code = "pending" \/ (retryable /\ row.attempts < MaxAttempts)
           left == IF code = "pending" THEN row.attempts - 1 ELSE row.attempts
           out == [row EXCEPT !.status = IF again THEN "retry_wait" ELSE "failed",
                              !.wait = IF again THEN "delay" ELSE "none",
                              !.attempts = left,
                              !.error = code]
<1>1. row \in JobRow /\ row.attempts \in 0..MaxAttempts /\ row.attempts >= 1
  BY DEF Sane, JobRow
<1>2. left \in 0..MaxAttempts
  BY <1>1, ProvisioningAssumption
<1>3. out \in JobRow
  BY <1>1, <1>2 DEF JobRow, JobStatus
<1>4. /\ out.status \in {"retry_wait", "failed"}
      /\ out.step = row.step /\ out.state = row.state
      /\ out.sent = row.sent /\ out.required = row.required
      /\ out.dispatch = row.dispatch /\ out.resend = row.resend
  BY <1>1 DEF JobRow
<1>5. Failed(row, code, retryable) = Unleased(out)
  BY <1>1 DEF Failed, JobRow
<1> HIDE DEF out
<1> QED
  BY <1>3, <1>4, <1>5, UnleasedIs, UnleasedMail DEF Told, Parted

LEMMA RestartedMail ==
  ASSUME NEW js, NEW j \in Jobs, Sane(js[j]), member[j] \in MemberRow, NEW quiet \in BOOLEAN,
         NEW told, NEW a, Told(js[j], told, a)
  PROVE  /\ Told(Restarted(js, j, quiet), told, a) /\ Parted(js[j], Restarted(js, j, quiet))
<1> DEFINE row == js[j]
           need == IF StateOf(j) = "disabled" THEN "no"
                   ELSE IF row.required = "no" /\ ~row.sent THEN "unknown" ELSE row.required
           sta == IF quiet THEN "retry_wait" ELSE "pending"
           wai == IF quiet THEN "quiet" ELSE "none"
           has == row.sent /\ StateOf(j) = "active"
           one == [row EXCEPT
                     !.role = member[j].role, !.state = StateOf(j), !.step = "identity",
                     !.status = sta]
           two == [one EXCEPT !.wait = wai, !.attempts = 0, !.error = "none", !.resend = FALSE]
           out == [two EXCEPT !.reconcile = FALSE, !.sent = has, !.required = need]
<1>0. 0 \in 0..MaxAttempts
  BY ProvisioningAssumption
<1>1. /\ row \in JobRow /\ member[j].role \in Roles /\ StateOf(j) \in {"active", "disabled"}
      /\ row.sent => row.required = "yes"
  BY ProvisioningAssumption DEF Sane, MemberRow, StateOf
<1>2. /\ need \in {"unknown", "yes", "no"} /\ has \in BOOLEAN /\ (has => row.sent)
      /\ StateOf(j) = "active" => need # "no"
      /\ sta \in {"retry_wait", "pending"} /\ wai \in {"none", "quiet"}
  BY <1>1 DEF JobRow
<1>3. /\ out \in JobRow /\ out.status = sta /\ out.step = "identity" /\ out.state = StateOf(j)
      /\ out.sent = has /\ out.required = need
      /\ out.dispatch = row.dispatch /\ out.resend = FALSE
  <2> HIDE DEF need, row, sta, wai, has
  <2>1. /\ one \in JobRow /\ one.status = sta /\ one.step = "identity"
        /\ one.state = StateOf(j) /\ one.dispatch = row.dispatch
    BY <1>1, <1>2 DEF JobRow, JobStatus
  <2> HIDE DEF one
  <2>2. /\ two \in JobRow /\ two.status = one.status /\ two.step = one.step
        /\ two.state = one.state /\ two.dispatch = one.dispatch /\ two.resend = FALSE
    BY ONLY <1>0, <1>2, <2>1 DEF JobRow, two
  <2> HIDE DEF two
  <2>3. /\ out \in JobRow /\ out.sent = has /\ out.required = need
        /\ out.status = two.status /\ out.step = two.step /\ out.state = two.state
        /\ out.dispatch = two.dispatch /\ out.resend = two.resend
    BY ONLY <1>2, <2>2 DEF JobRow, out
  <2> HIDE DEF out
  <2> QED
    BY <2>1, <2>2, <2>3
<1>4. Restarted(js, j, quiet) = Unleased(out)
  BY DEF Restarted
<1> HIDE DEF out, one, two, need, sta, wai, has
<1>5. Told(Unleased(out), told, a)
  BY <1>1, <1>2, <1>3, UnleasedIs, UnleasedMail DEF Told
<1>6. Parted(row, Unleased(out))
  BY <1>3, UnleasedIs, UnleasedMail DEF Parted
<1> QED
  BY <1>4, <1>5, <1>6

LEMMA AfterLossMail ==
  ASSUME NEW js, Good(js, member), Kinds, NEW w \in Workers, wk[w].on \in Jobs,
         NEW told, NEW a, \A k \in Jobs : Told(js[k], told, a)
  PROVE  \A k \in Jobs : /\ Told(AfterLoss(js, w)[k], told, a)
                         /\ Parted(js[k], AfterLoss(js, w)[k])
<1> DEFINE j == wk[w].on
           new == Restarted(js, j, FALSE)
<1>1. Told(new, told, a) /\ Parted(js[j], new)
  BY RestartedMail DEF Good, Kinds
<1>2. AfterLoss(js, w) = js \/ AfterLoss(js, w) = [js EXCEPT ![j] = new]
  BY DEF AfterLoss
<1> HIDE DEF new
<1> QED
  BY <1>1, <1>2 DEF Good, Parted

LEMMA AfterErrorMail ==
  ASSUME NEW js, Good(js, member), Kinds, NEW w \in Workers, wk[w].on \in Jobs,
         NEW told, NEW a, \A k \in Jobs : Told(js[k], told, a)
  PROVE  \A code \in Codes : \A retryable, unsure \in BOOLEAN :
           \A k \in Jobs :
             /\ Told(AfterError(js, w, code, retryable, unsure)[k], told, a)
             /\ Parted(js[k], AfterError(js, w, code, retryable, unsure)[k])
<1> TAKE code \in Codes
<1> TAKE retryable, unsure \in BOOLEAN
<1>0. code \in {"delivery_unknown", "pending", "other"}
  BY DEF Codes
<1> DEFINE j == wk[w].on
           new == Restarted(js, j, unsure)
           bad == Failed(js[j], code, retryable)
           out == AfterError(js, w, code, retryable, unsure)
<1>1. Told(new, told, a) /\ Parted(js[j], new)
  BY RestartedMail DEF Good, Kinds
<1>2. Holds(js, w) => Told(bad, told, a) /\ Parted(js[j], bad)
  BY <1>0, HeldIsRunning, FailedMail DEF Good
<1>3. \/ out = js
      \/ out = [js EXCEPT ![j] = new]
      \/ Holds(js, w) /\ out = [js EXCEPT ![j] = bad]
  BY DEF AfterError
<1> HIDE DEF new, bad, out
<1>4. \A k \in Jobs : Told(out[k], told, a) /\ Parted(js[k], out[k])
  BY <1>1, <1>2, <1>3 DEF Good, Parted
<1> QED
  BY <1>4 DEF out

-----------------------------------------------------------------------------
(***************************************************************************)
(* Calm ways a step of a worker ends.                                      *)
(***************************************************************************)

\* What the end of a step leaves alone.
Apart == UNCHANGED <<user, credit>> /\ (account = "foreign" => account' = "foreign")

\* Telling, and an account found to be one of the app, keep a row in order.
LEMMA ToldStays ==
  ASSUME NEW row, NEW told, NEW a, NEW told2, NEW a2, Told(row, told, a), told => told2,
         a = "foreign" => a2 = "foreign"
  PROVE  Told(row, told2, a2)
BY DEF Told

LEMMA PartedInHand ==
  ASSUME NEW row, NEW new, NEW w, Parted(row, new)
  PROVE  /\ InHand(row, new, w)
         /\ new.dispatch = row.dispatch /\ (new.resend => row.resend)
BY DEF Parted, InHand

LEMMA LeftIsCalm ==
  ASSUME QueueInv, MailInv, NEW w \in Workers, Leave(w), Apart,
         \A k \in Jobs : Told(job'[k], user.sent, account) /\ Parted(job[k], job'[k])
  PROVE  Calm(w)
<1>1. Idle.at = "idle" /\ "idle" \notin AtGroups /\ "idle" \notin AtEmail
  BY DEF Idle, AtGroups, AtEmail
<1>2. wk'[w] = Idle /\ \A v \in Workers \ {w} : wk'[v] = wk[v]
  BY DEF Leave, QueueInv, Kinds
<1>3. InPlace(w)'
  BY <1>1, <1>2 DEF InPlace
<1>4. \A k \in Jobs : /\ Told(job'[k], user'.sent, account') /\ InHand(job[k], job'[k], w)
                      /\ job'[k].dispatch = job[k].dispatch /\ (job'[k].resend => job[k].resend)
  BY ToldStays, PartedInHand DEF Apart
<1> QED
  BY <1>2, <1>3, <1>4 DEF Calm, Apart

LEMMA QuitIsCalm ==
  ASSUME QueueInv, MailInv, NEW w \in Workers, wk[w].on \in Jobs, Quit(w), Apart
  PROVE  Calm(w)
<1>1. \A k \in Jobs : Told(AfterLoss(job, w)[k], user.sent, account)
                      /\ Parted(job[k], AfterLoss(job, w)[k])
  BY AfterLossMail DEF QueueInv, MailInv
<1> QED
  BY <1>1, LeftIsCalm DEF Quit

LEMMA FailIsCalm ==
  ASSUME QueueInv, MailInv, NEW w \in Workers, wk[w].on \in Jobs, Fails(w), Apart
  PROVE  Calm(w)
<1>1. \E code \in Codes, retryable \in BOOLEAN, unsure \in BOOLEAN :
        Fail(w, code, retryable, unsure)
  BY DEF Fails, Refused, Lost, Codes
<1>2. PICK code \in Codes, retryable \in BOOLEAN, unsure \in BOOLEAN :
        Leave(w) /\ job' = AfterError(job, w, code, retryable, unsure)
  BY <1>1 DEF Fail
<1>3. \A k \in Jobs : Told(job'[k], user.sent, account) /\ Parted(job[k], job'[k])
  <2>1. \A c \in Codes : \A r, u \in BOOLEAN : \A k \in Jobs :
          /\ Told(AfterError(job, w, c, r, u)[k], user.sent, account)
          /\ Parted(job[k], AfterError(job, w, c, r, u)[k])
    BY AfterErrorMail DEF QueueInv, MailInv
  <2> DEFINE out == AfterError(job, w, code, retryable, unsure)
  <2>2. \A k \in Jobs : Told(out[k], user.sent, account) /\ Parted(job[k], out[k])
    BY <2>1, Zenon
  <2> HIDE DEF out
  <2> QED
    BY <1>2, <2>2 DEF out
<1> QED
  BY <1>2, <1>3, LeftIsCalm

\* The worker goes on under its lease, its row at a step that fits the place.
LEMMA OnwardIsCalm ==
  ASSUME QueueInv, MailInv, NEW w \in Workers, wk[w].on \in Jobs, NEW place \in Place,
         wk' = [wk EXCEPT ![w] = wk'[w]], wk'[w].at = place, wk'[w].on = wk[w].on, Apart,
         place # "dispatch",
         \A k \in Jobs \ {wk[w].on} : job'[k] = job[k],
         Told(job'[wk[w].on], user.sent, account), job[wk[w].on].lease = w,
         job'[wk[w].on].lease = w, job'[wk[w].on].dispatch = job[wk[w].on].dispatch,
         job'[wk[w].on].resend = job[wk[w].on].resend,
         place \in AtGroups => job'[wk[w].on].step = "groups",
         place \in AtEmail => job'[wk[w].on].step = "enrollment"
  PROVE  Calm(w)
<1> DEFINE j == wk[w].on
<1>1. \A v \in Workers \ {w} : wk'[v] = wk[v]
  BY DEF QueueInv, Kinds
<1>2. InPlace(w)'
  BY DEF InPlace
<1>3. ASSUME NEW k \in Jobs
      PROVE  /\ Told(job'[k], user.sent, account) /\ InHand(job[k], job'[k], w)
             /\ job'[k].dispatch = job[k].dispatch /\ (job'[k].resend => job[k].resend)
  BY DEF MailInv, InHand
<1>4. \A k \in Jobs : Told(job'[k], user'.sent, account')
  BY <1>3, ToldStays DEF Apart
<1> QED
  BY <1>1, <1>2, <1>3, <1>4 DEF Calm, Apart

LEMMA GotoIs ==
  ASSUME QueueInv, NEW w \in Workers, NEW place, Goto(w, place)
  PROVE  /\ wk' = [wk EXCEPT ![w] = wk'[w]] /\ wk'[w].at = place /\ wk'[w].on = wk[w].on
         /\ \A v \in Workers \ {w} : wk'[v] = wk[v]
<1>1. wk \in [Workers -> WorkerRow]
  BY DEF QueueInv, Kinds
<1> QED
  BY <1>1 DEF Goto, WorkerRow

LEMMA CallIsCalm ==
  ASSUME QueueInv, MailInv, NEW w \in Workers, wk[w].on \in Jobs,
         NEW place \in {"identityCall", "adding", "removing"}, Call(w, place), Apart,
         place \in AtGroups => wk[w].at \in AtGroups
  PROVE  Calm(w)
<1> DEFINE j == wk[w].on
<1>1. CASE Quit(w)
  BY <1>1, QuitIsCalm
<1>2. CASE Current(job, w) /\ job' = Renewed(j) /\ Goto(w, place)
  <2>1. Holds(job, w) /\ job[j].lease = w /\ job[j] \in JobRow
    BY <1>2 DEF Current, Holds, QueueInv, Good
  <2>2. /\ job'[j].lease = w /\ job'[j] = [job[j] EXCEPT !.expired = FALSE]
        /\ \A k \in Jobs \ {j} : job'[k] = job[k]
    BY <1>2, <2>1, RenewedIsGood
  <2>3. /\ job'[j].step = job[j].step /\ job'[j].state = job[j].state
        /\ job'[j].sent = job[j].sent /\ job'[j].required = job[j].required
        /\ job'[j].status = job[j].status
        /\ job'[j].dispatch = job[j].dispatch /\ job'[j].resend = job[j].resend
    BY <2>1, <2>2 DEF JobRow
  <2>4. Told(job'[j], user.sent, account)
    BY <2>3 DEF MailInv, Told
  <2>5. place \in AtGroups => job'[j].step = "groups"
    BY <2>1, <2>3 DEF MailInv, InPlace
  <2>6. place \in Place /\ place \notin AtEmail /\ place # "dispatch"
    BY DEF Place, AtEmail
  <2> QED
    BY <1>2, <2>1, <2>2, <2>3, <2>4, <2>5, <2>6, GotoIs, OnwardIsCalm
<1> QED
  BY <1>1, <1>2 DEF Call

\* A job ends well only when it is settled whether there is an email to send.
LEMMA CompleteIsCalm ==
  ASSUME QueueInv, MailInv, NEW w \in Workers, wk[w].on \in Jobs, Complete(w, job), Apart,
         Holds(job, w) => job[wk[w].on].state = "disabled" \/ job[wk[w].on].step # "identity"
  PROVE  Calm(w)
<1> DEFINE j == wk[w].on
           ended == [job[j] EXCEPT !.step = "complete", !.status = "succeeded", !.error = "none"]
<1>1. CASE job' = AfterLoss(job, w)
  BY <1>1, QuitIsCalm DEF Complete, Quit
<1>2. CASE job' = AfterError(job, w, "other", FALSE, FALSE)
  <2>1. Fail(w, "other", FALSE, FALSE)
    BY <1>2 DEF Fail, Complete
  <2>2. "other" \in Codes /\ FALSE \in BOOLEAN
    BY DEF Codes
  <2>3. Fails(w)
    BY <2>1, <2>2, FailIsFails
  <2> QED
    BY <2>3, FailIsCalm
<1>3. CASE /\ Current(job, w) /\ Completable(job, j)
           /\ job' = [job EXCEPT ![j] = Unleased([@ EXCEPT
                !.step = "complete", !.status = "succeeded", !.error = "none"])]
  <2>1. /\ job[j] \in JobRow /\ Told(job[j], user.sent, account)
        /\ job[j].state = "disabled" \/ job[j].step # "identity"
        /\ job[j].status = "running"
    BY <1>3, RowOf, HeldIsRunning DEF MailInv, Current, QueueInv
  <2>2. /\ ended \in JobRow /\ ended.step = "complete" /\ ended.status = "succeeded"
        /\ ended.sent = job[j].sent /\ ended.required = job[j].required
        /\ ended.state = job[j].state /\ ended.dispatch = job[j].dispatch
        /\ ended.resend = job[j].resend
    BY <2>1 DEF JobRow, JobStatus
  <2>3. job' = [job EXCEPT ![j] = Unleased(ended)]
    BY <1>3
  <2> HIDE DEF ended
  <2>4. job[j].state = "active" /\ job[j].required = "yes" => job[j].sent
    BY <1>3 DEF Completable
  <2>5. Told(Unleased(ended), user.sent, account)
    BY <2>1, <2>2, <2>4, UnleasedIs, UnleasedMail DEF Told
  <2>6. Parted(job[j], Unleased(ended))
    BY <2>2, UnleasedIs, UnleasedMail DEF Parted
  <2>7. \A k \in Jobs : Told(job'[k], user.sent, account) /\ Parted(job[k], job'[k])
    BY <2>3, <2>5, <2>6 DEF QueueInv, Good, MailInv, Parted
  <2>8. Leave(w)
    BY DEF Complete
  <2> QED
    BY <2>7, <2>8, LeftIsCalm
<1> QED
  BY <1>1, <1>2, <1>3 DEF Complete

-----------------------------------------------------------------------------
(***************************************************************************)
(* A verified login: the person is told, and needs no email.               *)
(***************************************************************************)

LEMMA SatisfiedMail ==
  ASSUME QueueInv, MailInv, NEW k \in Jobs, NEW w, NEW a, account = "foreign" => a = "foreign"
  PROVE  /\ Told(Satisfied(job)[k], TRUE, a) /\ InHand(job[k], Satisfied(job)[k], w)
         /\ ~Satisfied(job)[k].dispatch /\ ~Satisfied(job)[k].resend
         /\ job[k].lease # None /\ job[k].step = "enrollment" => Satisfied(job)[k].reconcile
         /\ job[k].lease # None => Satisfied(job)[k].step = job[k].step
         /\ Satisfied(job)[k].state = job[k].state
         /\ Satisfied(job)[k].step \in {"identity", job[k].step}
<1> DEFINE met == Satisfies(job, k)
           enrolling == met /\ job[k].step = "enrollment"
           parked == enrolling /\ job[k].status \in {"pending", "retry_wait", "failed"}
           row == SatisfiedRow(job, k)
<1>1. /\ Sane(job[k]) /\ Asks(member[k], job[k]) /\ job[k] \in JobRow
      /\ Told(job[k], user.sent, account) /\ member[k] \in MemberRow
  BY RowOf DEF MailInv
<1>2. Satisfied(job)[k] = IF job[k].status = "none" THEN job[k] ELSE row
  BY DEF Satisfied
<1>3. CASE job[k].status = "none"
  <2>1. job[k].lease = None
    BY <1>1, <1>3 DEF Sane
  <2> QED
    BY <1>1, <1>2, <1>3, <2>1 DEF Told, InHand
<1>4. CASE job[k].status # "none"
  <2>1. /\ row.lease = job[k].lease /\ row.state = job[k].state
        /\ row.required = (IF met THEN "no" ELSE job[k].required)
        /\ row.sent = (job[k].sent /\ ~met)
        /\ ~row.resend /\ ~row.dispatch
        /\ row.step = (IF parked THEN "identity" ELSE job[k].step)
        /\ row.status = (IF parked THEN "pending" ELSE job[k].status)
        /\ row.reconcile = (IF parked THEN FALSE ELSE job[k].reconcile \/ enrolling)
    <3> HIDE DEF met, enrolling, parked
    <3>1. SatisfiedRow(job, k) = [job[k] EXCEPT
            !.required = IF met THEN "no" ELSE job[k].required,
            !.sent = job[k].sent /\ ~met,
            !.resend = FALSE, !.dispatch = FALSE,
            !.step = IF parked THEN "identity" ELSE job[k].step,
            !.status = IF parked THEN "pending" ELSE job[k].status,
            !.attempts = IF parked THEN 0 ELSE job[k].attempts,
            !.wait = IF enrolling THEN "none" ELSE job[k].wait,
            !.error = IF enrolling THEN "none" ELSE job[k].error,
            !.reconcile = IF parked THEN FALSE ELSE job[k].reconcile \/ enrolling]
      BY <1>1 DEF SatisfiedRow, met, enrolling, parked, JobRow
    <3> QED
      BY <1>1, <3>1 DEF JobRow
  <2> HIDE DEF row
  <2>2. Told(row, TRUE, a)
    BY <1>1, <1>4, <2>1 DEF Told
  <2>3. job[k].lease # None => ~parked /\ row.step = job[k].step
    BY <1>1, <2>1 DEF Sane
  <2>4. job[k].lease # None /\ job[k].step = "enrollment" /\ ~job[k].reconcile => enrolling
    <3>1. member[k].status \in MemberStatus
      BY <1>1 DEF MemberRow
    <3> QED
      BY <1>1, <1>4, <3>1 DEF Asks, Told, Satisfies, MemberStatus
  <2>5. job[k].lease # None /\ job[k].step = "enrollment" => row.reconcile
    BY <2>1, <2>3, <2>4
  <2>6. InHand(job[k], row, w)
    BY <2>1, <2>3, <2>5 DEF InHand
  <2> QED
    BY <1>2, <1>4, <2>1, <2>2, <2>3, <2>5, <2>6
<1> QED
  BY <1>3, <1>4

LEMMA MetIsPosted ==
  ASSUME QueueInv, MailInv, NEW w,
         user'.sent = TRUE, user'.owner = None, credit' = credit,
         account = "foreign" => account' = "foreign",
         \A k \in Jobs :
           \/ job'[k] = Satisfied(job)[k]
           \/ /\ job[k].lease = w /\ job'[k].lease = w /\ Told(job'[k], TRUE, account')
              /\ ~job'[k].dispatch /\ ~job'[k].resend,
         \A v \in Workers \ {w} : wk'[v] = wk[v],
         w \in Workers => InPlace(w)'
  PROVE  Posted(w)
<1>1. ASSUME NEW k \in Jobs
      PROVE  /\ Told(job'[k], TRUE, account') /\ InHand(job[k], job'[k], w)
             /\ ~job'[k].dispatch /\ ~job'[k].resend
             /\ job[k].lease # None /\ job[k].lease # w /\ job[k].step = "enrollment"
                  => job'[k].reconcile
  BY SatisfiedMail DEF InHand
<1>2. UserKept(w)
  BY <1>1 DEF UserKept
<1>3. DispatchIsOwned'
  BY <1>1 DEF DispatchIsOwned
<1>4. CreditCovers'
  BY <1>1, CreditStays DEF MailInv
<1> QED
  BY <1>1, <1>2, <1>3, <1>4 DEF Posted

-----------------------------------------------------------------------------
(***************************************************************************)
(* The steps of the worker, as to the email.                               *)
(***************************************************************************)

LEMMA HeldMail ==
  ASSUME QueueInv, MailInv, NEW w \in Workers, wk[w].on \in Jobs
  PROVE  LET j == wk[w].on IN
         /\ Sane(job[j]) /\ job[j] \in JobRow /\ Told(job[j], user.sent, account)
         /\ Holds(job, w) => job[j].lease = w /\ job[j].status = "running"
         /\ Holds(job, w) /\ wk[w].at \in AtGroups => job[j].step = "groups"
         /\ Holds(job, w) /\ wk[w].at \in AtEmail => job[j].step = "enrollment"
<1>1. w # None
  BY ProvisioningAssumption
<1> QED
  BY <1>1, RowOf DEF MailInv, InPlace, Holds, Sane

LEMMA BeginIsCalm ==
  ASSUME QueueInv, MailInv, NEW w \in Workers, Begin(w)
  PROVE  Calm(w)
<1> DEFINE j == wk[w].on
           place == IF job[j].step = "enrollment" THEN "enroll" ELSE job[j].step
<1>1. j \in Jobs /\ Apart
  BY BusyHasJob DEF Begin, Apart
<1>2. CASE Quit(w)
  BY <1>1, <1>2, QuitIsCalm
<1>3. CASE Fail(w, "other", FALSE, FALSE)
  <2>1. "other" \in Codes /\ FALSE \in BOOLEAN
    BY DEF Codes
  <2>2. Fails(w)
    BY <1>3, <2>1, FailIsFails
  <2> QED
    BY <1>1, <2>2, FailIsCalm
<1>4. CASE Holds(job, w) /\ Goto(w, place) /\ UNCHANGED job
  <2>1. /\ job[j].step # "complete" /\ job[j] \in JobRow /\ job[j].lease = w
        /\ Told(job[j], user.sent, account)
    BY <1>1, <1>4, HeldIsRunning, HeldMail DEF QueueInv
  <2>2. place \in {"identity", "groups", "enroll"}
    BY <2>1 DEF JobRow
  <2>3. /\ place \in Place /\ place # "dispatch"
        /\ place \in AtGroups => job[j].step = "groups"
        /\ place \in AtEmail => job[j].step = "enrollment"
    BY <2>1, <2>2 DEF Place, AtGroups, AtEmail, JobRow
  <2> HIDE DEF place
  <2>4. /\ wk' = [wk EXCEPT ![w] = wk'[w]] /\ wk'[w].at = place /\ wk'[w].on = wk[w].on
    BY <1>4, GotoIs
  <2> QED
    BY <1>1, <1>4, <2>1, <2>3, <2>4, OnwardIsCalm
<1> QED
  BY <1>2, <1>3, <1>4 DEF Begin

LEMMA IdentityCallIsCalm ==
  ASSUME QueueInv, MailInv, NEW w \in Workers, IdentityCall(w)
  PROVE  Calm(w)
<1>1. wk[w].on \in Jobs /\ Apart /\ "identityCall" \notin AtGroups
  BY BusyHasJob DEF IdentityCall, Apart, AtGroups
<1> QED
  BY <1>1, CallIsCalm DEF IdentityCall

\* When the account is recorded it is settled whether the person needs an email.
LEMMA RecordIdentityIsPosted ==
  ASSUME QueueInv, MailInv, NEW w \in Workers, wk[w].on \in Jobs, Holds(job, w),
         NEW acct \in {"ours", "foreign"}, RecordIdentity(w, acct), account' = acct,
         account = "foreign" => acct = "foreign", credit' = credit
  PROVE  Posted(w)
<1> DEFINE j == wk[w].on
<1>1. /\ Sane(job[j]) /\ job[j] \in JobRow /\ job[j].lease = w
      /\ Told(job[j], user.sent, account) /\ job[j].status = "running" /\ w # None
  BY HeldMail, ProvisioningAssumption
<1>2. /\ wk'[w].at = "groups" /\ wk'[w].on = j /\ \A v \in Workers \ {w} : wk'[v] = wk[v]
  BY GotoIs DEF RecordIdentity
<1>3. "groups" \notin AtEmail
  BY DEF AtEmail
<1>4. CASE user.login
  <2> DEFINE row == [Satisfied(job)[j] EXCEPT !.step = "groups", !.required = "no", !.sent = FALSE]
  <2>1. user'.sent = TRUE /\ user'.owner = None
    BY <1>4 DEF RecordIdentity, QueueInv, Kinds, UserRow
  <2>2. job' = [Satisfied(job) EXCEPT ![j] = row]
    <3>1. /\ (IF user.login THEN Satisfied(job) ELSE job) = Satisfied(job)
          /\ (~user.login) = FALSE
      BY <1>4
    <3> QED
      BY <1>4, <3>1 DEF RecordIdentity
  <2>3. /\ Good(Satisfied(job), member) /\ Satisfied(job)[j].lease = w
        /\ Satisfied(job)[j].status = "running"
    BY <1>1, SatisfiedIsGood DEF QueueInv
  <2>4. Satisfied(job)[j] \in JobRow /\ ~Satisfied(job)[j].dispatch /\ ~Satisfied(job)[j].resend
    BY <2>3, SatisfiedMail DEF Good
  <2>5. /\ row.lease = w /\ row.step = "groups" /\ row.required = "no" /\ ~row.sent
        /\ row.status = "running" /\ ~row.dispatch /\ ~row.resend
    BY <2>3, <2>4 DEF JobRow
  <2> HIDE DEF row
  <2>6. /\ job'[j] = row /\ \A k \in Jobs \ {j} : job'[k] = Satisfied(job)[k]
    BY <2>2, <2>3 DEF Good
  <2>7. Told(row, TRUE, account')
    BY <2>5 DEF Told
  <2>8. InPlace(w)'
    BY <1>2, <1>3, <2>5, <2>6 DEF InPlace
  <2> QED
    BY <1>1, <1>2, <2>1, <2>5, <2>6, <2>7, <2>8, MetIsPosted
<1>5. CASE ~user.login
  <2> DEFINE managed == user.managed \/ acct = "ours"
             candidate == job[j].state = "active" /\ managed /\ ~user.login
             need == IF candidate /\ user.sent THEN "yes"
                     ELSE IF job[j].required # "unknown" THEN job[j].required
                     ELSE IF candidate THEN "yes" ELSE "no"
             has == job[j].sent \/ (candidate /\ user.sent)
             row == [job[j] EXCEPT !.step = "groups", !.required = need, !.sent = has]
  <2>1. user'.sent = user.sent /\ user'.owner = user.owner
    BY <1>5 DEF RecordIdentity, QueueInv, Kinds, UserRow
  <2>2. job' = [job EXCEPT ![j] = row]
    <3>1. /\ (IF user.login THEN Satisfied(job) ELSE job) = job
          /\ (~user.login) = TRUE
      BY <1>5
    <3> QED
      BY <1>5, <3>1 DEF RecordIdentity
  <2>3. /\ has \in BOOLEAN /\ has => user.sent
        /\ need \in {"unknown", "yes", "no"} /\ need # "unknown"
        /\ need = "no" /\ job[j].state = "active" => user.sent \/ account' = "foreign"
    <3>1. /\ user.sent \in BOOLEAN /\ user.managed \in BOOLEAN /\ job[j].sent \in BOOLEAN
          /\ job[j].required \in {"unknown", "yes", "no"}
      BY <1>1 DEF QueueInv, Kinds, UserRow, JobRow
    <3>2. candidate \in BOOLEAN
      OBVIOUS
    <3>3. job[j].state = "active" /\ ~candidate => account' = "foreign"
      BY <1>5
    <3>4. job[j].sent => user.sent
      BY <1>1 DEF Told
    <3>5. job[j].state = "active" /\ job[j].required = "no" => user.sent \/ account' = "foreign"
      BY <1>1 DEF Told
    <3> HIDE DEF candidate
    <3> QED
      BY <3>1, <3>2, <3>3, <3>4, <3>5
  <2> HIDE DEF need, has
  <2>4. /\ row.lease = w /\ row.step = "groups" /\ row.required = need /\ row.sent = has
        /\ row.status = "running" /\ row.dispatch = job[j].dispatch
        /\ row.resend = job[j].resend /\ row.state = job[j].state
    BY <1>1, <2>3 DEF JobRow
  <2> HIDE DEF row
  <2>5. /\ job'[j] = row /\ \A k \in Jobs \ {j} : job'[k] = job[k]
    BY <2>2 DEF QueueInv, Good
  <2>6. Told(row, user.sent, account')
    BY <1>1, <2>3, <2>4 DEF Told
  <2>7. InPlace(w)'
    BY <1>2, <1>3, <2>4, <2>5 DEF InPlace
  <2>8. \A k \in Jobs : Told(job'[k], user.sent, account')
    BY <2>5, <2>6, ToldStays DEF MailInv
  <2>9. \A k \in Jobs : /\ InHand(job[k], job'[k], w)
                        /\ job'[k].dispatch = job[k].dispatch
                        /\ (job'[k].resend => job[k].resend)
    BY <2>4, <2>5 DEF InHand
  <2>10. Calm(w)
    BY <1>2, <2>1, <2>7, <2>8, <2>9 DEF Calm
  <2> QED
    BY <2>10, CalmIsPosted
<1> QED
  BY <1>4, <1>5

LEMMA IdentityAnswerIsPosted ==
  ASSUME QueueInv, MailInv, NEW w \in Workers, IdentityAnswer(w)
  PROVE  Posted(w)
<1> DEFINE j == wk[w].on
           acct == IF account = "none" /\ job[j].state = "active" THEN "ours" ELSE account
<1>1. /\ j \in Jobs /\ credit' = credit /\ account' \in {account, acct}
  BY BusyHasJob DEF IdentityAnswer
<1>2. account \in {"none", "ours", "foreign"} /\ (account = "foreign" => acct = "foreign")
  BY DEF QueueInv, Kinds
<1>3. CASE Quit(w) /\ UNCHANGED <<member, user>>
  BY <1>1, <1>2, <1>3, QuitIsCalm, CalmIsPosted DEF Apart
<1>4. CASE acct = "none" /\ Complete(w, job) /\ UNCHANGED user
  <2>1. Apart
    BY <1>1, <1>2, <1>4 DEF Apart
  <2>2. job[j].state = "disabled"
    BY <1>1, <1>4, RowOf DEF JobRow
  <2> QED
    BY <1>1, <1>4, <2>1, <2>2, CompleteIsCalm, CalmIsPosted
<1>5. CASE Current(job, w) /\ acct # "none" /\ account' = acct /\ RecordIdentity(w, acct)
  <2>1. acct \in {"ours", "foreign"} /\ Holds(job, w)
    BY <1>2, <1>5 DEF Current
  <2> QED
    BY <1>1, <1>2, <1>5, <2>1, RecordIdentityIsPosted
<1>6. CASE (Refused(w) \/ Lost(w)) /\ UNCHANGED <<member, user>>
  BY <1>1, <1>2, <1>6, FailIsCalm, CalmIsPosted DEF Fails, Apart
<1> QED
  BY <1>3, <1>4, <1>5, <1>6 DEF IdentityAnswer

LEMMA ReadAccountIsCalm ==
  ASSUME QueueInv, MailInv, NEW w \in Workers, ReadAccount(w)
  PROVE  Calm(w)
<1> DEFINE j == wk[w].on
<1>1. j \in Jobs /\ Apart
  BY BusyHasJob DEF ReadAccount, Apart
<1>2. CASE Quit(w)
  BY <1>1, <1>2, QuitIsCalm
<1>3. CASE Refused(w) \/ Lost(w)
  BY <1>1, <1>3, FailIsCalm DEF Fails
<1>4. CASE /\ Current(job, w) /\ job' = Renewed(j)
           /\ wk' = [wk EXCEPT ![w] = [@ EXCEPT
                !.at = "change", !.seen = j \in grouped,
                !.wants = job[j].required = "yes" /\ ~job[j].sent]]
  <2>1. /\ Holds(job, w) /\ job[j].lease = w /\ job[j] \in JobRow /\ job[j].step = "groups"
        /\ Told(job[j], user.sent, account)
    <3>1. "groups" \in AtGroups
      BY DEF AtGroups
    <3> QED
      BY <1>1, <1>4, <3>1, HeldMail DEF ReadAccount, Current
  <2>2. /\ job'[j].lease = w /\ job'[j] = [job[j] EXCEPT !.expired = FALSE]
        /\ \A k \in Jobs \ {j} : job'[k] = job[k]
    BY <1>1, <1>4, <2>1, RenewedIsGood
  <2>3. /\ job'[j].step = job[j].step /\ job'[j].state = job[j].state
        /\ job'[j].sent = job[j].sent /\ job'[j].required = job[j].required
        /\ job'[j].status = job[j].status
        /\ job'[j].dispatch = job[j].dispatch /\ job'[j].resend = job[j].resend
    BY <2>1, <2>2 DEF JobRow
  <2>4. Told(job'[j], user.sent, account)
    BY <2>1, <2>3 DEF Told
  <2>5. wk'[w].at = "change" /\ wk'[w].on = j /\ wk' = [wk EXCEPT ![w] = wk'[w]]
    BY <1>4 DEF QueueInv, Kinds, WorkerRow
  <2>6. "change" \in Place /\ "change" \notin AtEmail
    BY DEF Place, AtEmail
  <2> QED
    BY <1>1, <2>1, <2>2, <2>3, <2>4, <2>5, <2>6, OnwardIsCalm
<1> QED
  BY <1>2, <1>3, <1>4 DEF ReadAccount

LEMMA EndGroupsIsCalm ==
  ASSUME QueueInv, MailInv, NEW w \in Workers, wk[w].on \in Jobs, wk[w].at \in AtGroups,
         EndGroups(w), Apart
  PROVE  Calm(w)
<1> DEFINE j == wk[w].on
           row == [job[j] EXCEPT !.step = "enrollment"]
<1>1. Holds(job, w) => /\ job[j].lease = w /\ job[j].step = "groups"
                       /\ job[j].status = "running"
  BY HeldMail
<1>2. CASE Quit(w)
  BY <1>2, QuitIsCalm
<1>3. CASE Complete(w, job)
  BY <1>1, <1>3, CompleteIsCalm
<1>4. CASE /\ Current(job, w) /\ job[j].state = "active"
           /\ job' = [job EXCEPT ![j].step = "enrollment"] /\ Goto(w, "enroll")
  <2>1. job[j].lease = w /\ job[j] \in JobRow /\ Told(job[j], user.sent, account)
        /\ job[j].step = "groups" /\ job[j].status = "running"
    BY <1>1, <1>4, HeldMail DEF Current
  <2>2. /\ row.step = "enrollment" /\ row.sent = job[j].sent /\ row.state = job[j].state
        /\ row.required = job[j].required /\ row.lease = w
        /\ row.status = job[j].status
        /\ row.dispatch = job[j].dispatch /\ row.resend = job[j].resend
    BY <2>1 DEF JobRow
  <2>3. job' = [job EXCEPT ![j] = row]
    BY <1>4
  <2> HIDE DEF row
  <2>4. /\ job'[j] = row /\ \A k \in Jobs \ {j} : job'[k] = job[k]
    BY <2>3 DEF QueueInv, Good
  <2>5. Told(row, user.sent, account)
    BY <1>4, <2>1, <2>2 DEF Told
  <2>6. "enroll" \in Place /\ "enroll" \notin AtGroups
    BY DEF Place, AtGroups
  <2>7. /\ wk' = [wk EXCEPT ![w] = wk'[w]] /\ wk'[w].at = "enroll" /\ wk'[w].on = wk[w].on
    BY <1>4, GotoIs
  <2> QED
    BY <2>1, <2>2, <2>4, <2>5, <2>6, <2>7, OnwardIsCalm
<1> QED
  BY <1>2, <1>3, <1>4 DEF EndGroups

LEMMA ChangeGroupIsCalm ==
  ASSUME QueueInv, MailInv, NEW w \in Workers, ChangeGroup(w)
  PROVE  Calm(w)
<1>1. wk[w].on \in Jobs /\ Apart /\ wk[w].at \in AtGroups
  BY BusyHasJob DEF ChangeGroup, Apart, AtGroups
<1>2. CASE EndGroups(w)
  BY <1>1, <1>2, EndGroupsIsCalm
<1>3. CASE Call(w, IF job[wk[w].on].state = "active" THEN "adding" ELSE "removing")
  BY <1>1, <1>3, CallIsCalm
<1> QED
  BY <1>2, <1>3 DEF ChangeGroup

LEMMA GroupAnswerIsCalm ==
  ASSUME QueueInv, MailInv, NEW w \in Workers, GroupAnswer(w)
  PROVE  Calm(w)
<1>1. wk[w].on \in Jobs /\ Apart /\ wk[w].at \in AtGroups
  BY BusyHasJob DEF GroupAnswer, Apart, AtGroups
<1>2. CASE EndGroups(w)
  BY <1>1, <1>2, EndGroupsIsCalm
<1>3. CASE Refused(w) \/ Lost(w)
  BY <1>1, <1>3, FailIsCalm DEF Fails
<1> QED
  BY <1>2, <1>3 DEF GroupAnswer

\* A failure for which nothing was written.
LEMMA FailsIsCalm ==
  ASSUME QueueInv, MailInv, NEW w \in Workers, wk[w].on \in Jobs, NEW code \in Codes,
         NEW retryable \in BOOLEAN, Fail(w, code, retryable, FALSE), Apart
  PROVE  Calm(w)
<1>1. FALSE \in BOOLEAN
  OBVIOUS
<1>2. Fails(w)
  BY <1>1, FailIsFails
<1> QED
  BY <1>2, FailIsCalm

\* Whoever claims the email does not take it from a job at work on it.
LEMMA ClaimEnrollmentIsPosted ==
  ASSUME QueueInv, MailInv, NEW w \in Workers, wk[w].on \in Jobs, wk[w].at = "enroll",
         Current(job, w), EmailWanted(wk[w].on), ClaimEnrollment(w),
         UNCHANGED <<account, credit>>
  PROVE  Posted(w)
<1> DEFINE j == wk[w].on
           owns == ~SentBefore(j) /\ ~OwnerDispatches(j) /\ CanOwn(j)
<1>1. /\ Holds(job, w) /\ job[j].lease = w /\ job[j].required = "yes" /\ job[j] \in JobRow
      /\ job[j].step = "enrollment" /\ job[j].status = "running" /\ ~job[j].reconcile
      /\ Told(job[j], user.sent, account) /\ user \in UserRow /\ w # None
  <2>1. "enroll" \in AtEmail
    BY DEF AtEmail
  <2> QED
    BY <2>1, HeldMail, ProvisioningAssumption DEF Current, EmailWanted, QueueInv, Kinds
<1>2. CASE /\ user' = [user EXCEPT !.sent = TRUE, !.owner = None]
           /\ job' = Satisfied(job) /\ Goto(w, "quit")
  <2>1. user'.sent = TRUE /\ user'.owner = None
    BY <1>1, <1>2 DEF UserRow
  <2>2. wk'[w].at = "quit" /\ wk'[w].on = j /\ \A v \in Workers \ {w} : wk'[v] = wk[v]
    BY <1>2, GotoIs
  <2>3. job'[j].step = "enrollment"
    BY <1>1, <1>2, SatisfiedMail
  <2>4. InPlace(w)'
    BY <2>2, <2>3 DEF InPlace, AtGroups
  <2> QED
    BY <1>2, <2>1, <2>2, <2>4, MetIsPosted
<1>3. CASE /\ user' = [user EXCEPT !.owner = IF owns THEN j ELSE @]
           /\ \/ job[j].dispatch /\ Fail(w, "delivery_unknown", FALSE, FALSE)
              \/ ~owns /\ \/ Fail(w, "delivery_unknown", FALSE, FALSE)
                          \/ Fail(w, "pending", TRUE, FALSE)
  <2>1. job[j].dispatch => user.owner = j
    BY DEF MailInv, DispatchIsOwned
  <2>2. user' = user
    <3>1. user' = [user EXCEPT !.owner = user.owner]
      BY <1>3, <2>1
    <3> QED
      BY <1>1, <3>1 DEF UserRow
  <2>3. Apart /\ {"delivery_unknown", "pending"} \subseteq Codes
    BY <2>2 DEF Apart, Codes
  <2> QED
    BY <1>3, <2>3, FailsIsCalm, CalmIsPosted
<1>4. CASE /\ user' = [user EXCEPT !.owner = IF owns THEN j ELSE @]
           /\ SentBefore(j) /\ job' = [job EXCEPT ![j].sent = TRUE] /\ Goto(w, "finish")
  <2> DEFINE row == [job[j] EXCEPT !.sent = TRUE]
  <2>1. user' = user
    <3>1. user' = [user EXCEPT !.owner = user.owner]
      BY <1>4
    <3> QED
      BY <1>1, <3>1 DEF UserRow
  <2>2. Apart /\ user.sent
    BY <1>4, <2>1 DEF Apart, SentBefore
  <2>3. /\ row.step = "enrollment" /\ row.sent = TRUE /\ row.state = job[j].state
        /\ row.required = job[j].required /\ row.lease = w
        /\ row.status = job[j].status
        /\ row.dispatch = job[j].dispatch /\ row.resend = job[j].resend
    BY <1>1 DEF JobRow
  <2>4. job' = [job EXCEPT ![j] = row]
    BY <1>4
  <2> HIDE DEF row
  <2>5. /\ job'[j] = row /\ \A k \in Jobs \ {j} : job'[k] = job[k]
    BY <2>4 DEF QueueInv, Good
  <2>6. Told(row, user.sent, account)
    BY <1>1, <2>2, <2>3 DEF Told
  <2>7. "finish" \in Place /\ "finish" \notin AtGroups
    BY DEF Place, AtGroups
  <2>8. /\ wk' = [wk EXCEPT ![w] = wk'[w]] /\ wk'[w].at = "finish" /\ wk'[w].on = wk[w].on
    BY <1>4, GotoIs
  <2>9. Calm(w)
    BY <1>1, <2>2, <2>3, <2>5, <2>6, <2>7, <2>8, OnwardIsCalm
  <2> QED
    BY <2>9, CalmIsPosted
<1>5. CASE /\ user' = [user EXCEPT !.owner = IF owns THEN j ELSE @]
           /\ ~job[j].dispatch /\ owns /\ Goto(w, "dispatch") /\ UNCHANGED job
  <2>1. user'.owner = j /\ user'.sent = user.sent
    BY <1>1, <1>5 DEF UserRow
  <2>2. wk'[w].at = "dispatch" /\ wk'[w].on = j /\ \A v \in Workers \ {w} : wk'[v] = wk[v]
    BY <1>5, GotoIs
  <2>3. InPlace(w)'
    BY <1>1, <1>5, <2>1, <2>2 DEF InPlace, AtGroups, SentBefore
  <2>4. \A k \in Jobs : user.owner = k /\ job[k].lease # None => k = j
    <3>1. \A k \in Jobs : job[k].lease # None => job[k].status = "running" /\ k # None
      BY RowOf, ProvisioningAssumption DEF Sane
    <3> QED
      BY <1>5, <3>1 DEF CanOwn
  <2>5. UserKept(w)
    BY <1>1, <2>4 DEF UserKept
  <2>6. DispatchIsOwned'
    BY <1>5, <2>1 DEF MailInv, DispatchIsOwned, OwnerDispatches
  <2>7. CreditCovers'
    BY <1>5, <2>1, CreditStays DEF MailInv
  <2>8. \A k \in Jobs : Told(job'[k], user'.sent, account') /\ InHand(job[k], job'[k], w)
    BY <1>5, <2>1 DEF MailInv, InHand
  <2> QED
    BY <2>2, <2>3, <2>5, <2>6, <2>7, <2>8 DEF Posted
<1>6. \/ /\ user' = [user EXCEPT !.sent = TRUE, !.owner = None]
         /\ job' = Satisfied(job) /\ Goto(w, "quit")
      \/ /\ user' = [user EXCEPT !.owner = IF owns THEN j ELSE @]
         /\ \/ job[j].dispatch /\ Fail(w, "delivery_unknown", FALSE, FALSE)
            \/ SentBefore(j) /\ job' = [job EXCEPT ![j].sent = TRUE] /\ Goto(w, "finish")
            \/ OwnerDispatches(j) /\ Fail(w, "delivery_unknown", FALSE, FALSE)
            \/ ~CanOwn(j) /\ Fail(w, "pending", TRUE, FALSE)
            \/ ~job[j].dispatch /\ owns /\ Goto(w, "dispatch") /\ UNCHANGED job
  BY Zenon DEF ClaimEnrollment
<1> QED
  BY <1>2, <1>3, <1>4, <1>5, <1>6

LEMMA EnrollIsPosted ==
  ASSUME QueueInv, MailInv, NEW w \in Workers, Enroll(w)
  PROVE  Posted(w)
<1> DEFINE j == wk[w].on
<1>1. j \in Jobs /\ wk[w].at = "enroll" /\ UNCHANGED <<account, credit>>
  BY BusyHasJob DEF Enroll
<1>2. CASE Quit(w) /\ UNCHANGED user
  BY <1>1, <1>2, QuitIsCalm, CalmIsPosted DEF Apart
<1>3. CASE Current(job, w) /\ Goto(w, "finish") /\ UNCHANGED <<job, user>>
  <2>1. "enroll" \in AtEmail /\ "finish" \in Place /\ "finish" \notin AtGroups
    BY DEF AtEmail, Place, AtGroups
  <2>2. job[j].lease = w /\ job[j].step = "enrollment" /\ Told(job[j], user.sent, account)
    BY <1>1, <1>3, <2>1, HeldMail DEF Current
  <2>3. /\ wk' = [wk EXCEPT ![w] = wk'[w]] /\ wk'[w].at = "finish" /\ wk'[w].on = wk[w].on
    BY <1>3, GotoIs
  <2>4. Apart
    BY <1>1, <1>3 DEF Apart
  <2>5. Calm(w)
    BY <1>1, <1>3, <2>1, <2>2, <2>3, <2>4, OnwardIsCalm
  <2> QED
    BY <2>5, CalmIsPosted
<1>4. CASE Current(job, w) /\ EmailWanted(j) /\ ClaimEnrollment(w)
  BY <1>1, <1>4, ClaimEnrollmentIsPosted
<1> QED
  BY <1>2, <1>3, <1>4 DEF Enroll

\* From here on the email may be out, and only that one.
LEMMA DispatchIsPosted ==
  ASSUME QueueInv, MailInv, NEW w \in Workers, Dispatch(w)
  PROVE  Posted(w)
<1> DEFINE j == wk[w].on
<1>1. j \in Jobs /\ wk[w].at = "dispatch" /\ UNCHANGED <<account, user>> /\ w # None
  BY BusyHasJob, ProvisioningAssumption DEF Dispatch
<1>2. CASE Quit(w) /\ UNCHANGED credit
  BY <1>1, <1>2, QuitIsCalm, CalmIsPosted DEF Apart
<1>3. CASE /\ Current(job, w) /\ ~job[j].dispatch
           /\ job' = [Renewed(j) EXCEPT ![j].dispatch = TRUE]
           /\ credit' = credit - 1 /\ Goto(w, "mail")
  <2>1. /\ Holds(job, w) /\ job[j].lease = w /\ job[j] \in JobRow /\ ~job[j].reconcile
        /\ job[j].step = "enrollment" /\ Told(job[j], user.sent, account)
        /\ user.owner = j /\ (job[j].resend \/ ~user.sent)
    <3>1. "dispatch" \in AtEmail
      BY DEF AtEmail
    <3> QED
      BY <1>1, <1>3, <3>1, HeldMail DEF Current, MailInv, InPlace
  <2>2. /\ Renewed(j)[j] = [job[j] EXCEPT !.expired = FALSE]
        /\ \A k \in Jobs \ {j} : Renewed(j)[k] = job[k]
        /\ Good(Renewed(j), member)
    BY <1>1, <2>1, RenewedIsGood
  <2>3. /\ job'[j] = [job[j] EXCEPT !.expired = FALSE, !.dispatch = TRUE]
        /\ \A k \in Jobs \ {j} : job'[k] = job[k]
    BY <1>1, <1>3, <2>2 DEF Good
  <2>4. /\ job'[j].lease = w /\ job'[j].step = job[j].step /\ job'[j].state = job[j].state
        /\ job'[j].sent = job[j].sent /\ job'[j].required = job[j].required
        /\ job'[j].status = job[j].status
        /\ job'[j].dispatch = TRUE /\ job'[j].resend = job[j].resend
    BY <2>1, <2>3 DEF JobRow
  <2>5. Told(job'[j], user.sent, account)
    <3>1. job[j].status = "running"
      BY <1>1, <2>1, HeldMail
    <3> QED
      BY <2>1, <2>4, <3>1 DEF Told
  <2>6. \A k \in Jobs : Told(job'[k], user'.sent, account') /\ InHand(job[k], job'[k], w)
    BY <1>1, <2>3, <2>4, <2>5 DEF MailInv, InHand
  <2>7. wk'[w].at = "mail" /\ wk'[w].on = j /\ \A v \in Workers \ {w} : wk'[v] = wk[v]
    BY <1>3, GotoIs
  <2>8. InPlace(w)'
    BY <2>1, <2>4, <2>7 DEF InPlace, AtGroups
  <2>9. UserKept(w)
    BY <1>1 DEF UserKept
  <2>10. DispatchIsOwned'
    BY <1>1, <2>1, <2>3 DEF MailInv, DispatchIsOwned
  <2>11. CreditCovers'
    <3>1. credit \in Int /\ CreditCovers /\ DispatchIsOwned
      BY DEF QueueInv, Kinds, MailInv
    <3>2. First' = 0
      BY <1>1, <2>4 DEF First
    <3>3. IsFiniteSet(Asked) /\ Cardinality(Asked) \in Nat
      BY <3>1, FS_CardinalityType DEF CreditCovers
    <3>4. Asked' = Asked \ {j}
      BY <2>3, <2>4 DEF Asked
    <3>5. /\ IsFiniteSet(Asked \ {j})
          /\ Cardinality(Asked \ {j}) = IF j \in Asked THEN Cardinality(Asked) - 1
                                        ELSE Cardinality(Asked)
      BY <3>3, FS_RemoveElement
    <3>6. CASE job[j].resend
      <4>1. j \in Asked
        BY <1>1, <1>3, <3>6 DEF Asked
      <4>2. First \in {0, 1}
        BY DEF First
      <4> QED
        BY <1>3, <3>1, <3>2, <3>3, <3>4, <3>5, <4>1, <4>2 DEF CreditCovers
    <3>7. CASE ~job[j].resend
      <4>1. j \notin Asked
        BY <3>7 DEF Asked
      <4>2. First = 1
        BY <1>3, <2>1, <3>1, <3>7 DEF First, DispatchIsOwned
      <4> QED
        BY <1>3, <3>1, <3>2, <3>3, <3>4, <3>5, <4>1, <4>2 DEF CreditCovers
    <3> QED
      BY <3>6, <3>7
  <2> QED
    BY <2>6, <2>7, <2>8, <2>9, <2>10, <2>11 DEF Posted
<1> QED
  BY <1>2, <1>3 DEF Dispatch

LEMMA SignedInIsCalm ==
  ASSUME QueueInv, MailInv, NEW w \in Workers, SignedIn(w)
  PROVE  Calm(w)
BY BusyHasJob, QuitIsCalm DEF SignedIn, Apart

LEMMA FinishIsCalm ==
  ASSUME QueueInv, MailInv, NEW w \in Workers, Finish(w)
  PROVE  Calm(w)
<1>1. wk[w].on \in Jobs /\ Apart /\ wk[w].at \in AtEmail
  BY BusyHasJob DEF Finish, Apart, AtEmail
<1>2. Holds(job, w) => job[wk[w].on].step # "identity"
  BY <1>1, HeldMail
<1> QED
  BY <1>1, <1>2, CompleteIsCalm DEF Finish

LEMMA CrashIsCalm ==
  ASSUME QueueInv, MailInv, NEW w \in Workers, Crash(w)
  PROVE  Calm(w)
<1>1. \A k \in Jobs : Told(job'[k], user.sent, account) /\ Parted(job[k], job'[k])
  BY DEF Crash, MailInv, Parted
<1>2. Leave(w) /\ Apart
  BY DEF Crash, Apart
<1> QED
  BY <1>1, <1>2, LeftIsCalm

\* A refusal releases the marker and gives the email back; an answer that was
\* lost does not.
LEMMA EmailAnswerIsPosted ==
  ASSUME QueueInv, MailInv, NEW w \in Workers, EmailAnswer(w)
  PROVE  Posted(w)
<1> DEFINE j == wk[w].on
           released == [job EXCEPT ![j].dispatch = FALSE]
<1>1. /\ j \in Jobs /\ wk[w].at = "mail" /\ UNCHANGED account /\ w # None
      /\ user \in UserRow /\ Good(job, member)
  BY BusyHasJob, ProvisioningAssumption DEF EmailAnswer, QueueInv, Kinds
<1>2. CASE Goto(w, "mailed") /\ UNCHANGED <<job, user, credit>>
  <2>1. wk'[w].at = "mailed" /\ wk'[w].on = j /\ \A v \in Workers \ {w} : wk'[v] = wk[v]
    BY <1>2, GotoIs
  <2>2. InPlace(w)'
    BY <1>1, <1>2, <2>1 DEF MailInv, InPlace, AtGroups, AtEmail
  <2>3. Calm(w)
    BY <1>1, <1>2, <2>1, <2>2 DEF Calm, MailInv, InHand
  <2> QED
    BY <2>3, CalmIsPosted
<1>3. CASE Fail(w, "delivery_unknown", FALSE, FALSE) /\ UNCHANGED <<user, credit>>
  <2>1. Apart /\ "delivery_unknown" \in Codes /\ FALSE \in BOOLEAN
    BY <1>1, <1>3 DEF Apart, Codes
  <2> QED
    BY <1>1, <1>3, <2>1, FailsIsCalm, CalmIsPosted
<1>4. CASE Quit(w) /\ UNCHANGED <<user, credit>>
  BY <1>1, <1>4, QuitIsCalm, CalmIsPosted DEF Apart
<1>5. CASE /\ Holds(job, w) /\ user.owner = j
           /\ user' = [user EXCEPT !.owner = None]
           /\ \E retryable \in BOOLEAN :
                job' = AfterError(released, w, "other", retryable, FALSE)
           /\ credit' = credit + 1
           /\ Leave(w)
  <2> DEFINE row == [job[j] EXCEPT !.dispatch = FALSE]
  <2>1. /\ Sane(job[j]) /\ job[j] \in JobRow /\ job[j].lease = w /\ job[j].step # "complete"
        /\ Told(job[j], user.sent, account)
    BY <1>1, <1>5, HeldMail, HeldIsRunning
  <2>2. /\ row \in JobRow /\ (row.sent => row.required = "yes")
        /\ row.status = job[j].status /\ row.wait = job[j].wait /\ row.lease = job[j].lease
        /\ row.attempts = job[j].attempts /\ row.role = job[j].role
        /\ row.state = job[j].state /\ row.reconcile = job[j].reconcile
        /\ row.required = job[j].required /\ row.sent = job[j].sent
        /\ row.step = job[j].step /\ row.step # "complete"
        /\ row.resend = job[j].resend /\ ~row.dispatch
    BY <2>1 DEF JobRow, Sane
  <2>3. released = [job EXCEPT ![j] = row]
    OBVIOUS
  <2> HIDE DEF row, released
  <2>4. /\ Good(released, member) /\ released[j] = row
        /\ \A k \in Jobs \ {j} : released[k] = job[k]
    <3>1. /\ Good([job EXCEPT ![j] = row], member)
          /\ [job EXCEPT ![j] = row][j] = row
          /\ \A k \in Jobs \ {j} : [job EXCEPT ![j] = row][k] = job[k]
      BY <1>1, <1>5, <2>2, WrittenIsGood
    <3> QED
      BY <2>3, <3>1
  <2>5. Told(row, user.sent, account)
    BY <2>1, <2>2 DEF Told
  <2>6. \A k \in Jobs : Told(released[k], user.sent, account)
    BY <2>4, <2>5 DEF MailInv
  <2>7. \A k \in Jobs : Told(job'[k], user.sent, account) /\ Parted(released[k], job'[k])
    <3>1. PICK retryable \in BOOLEAN :
            job' = AfterError(released, w, "other", retryable, FALSE)
      BY <1>5
    <3>2. "other" \in Codes /\ FALSE \in BOOLEAN
      BY DEF Codes
    <3>3. \A c \in Codes : \A r, u \in BOOLEAN : \A k \in Jobs :
            /\ Told(AfterError(released, w, c, r, u)[k], user.sent, account)
            /\ Parted(released[k], AfterError(released, w, c, r, u)[k])
      BY <1>1, <2>4, <2>6, AfterErrorMail DEF QueueInv
    <3> DEFINE out == AfterError(released, w, "other", retryable, FALSE)
    <3>4. \A k \in Jobs : Told(out[k], user.sent, account) /\ Parted(released[k], out[k])
      BY <3>2, <3>3, Zenon
    <3> HIDE DEF out
    <3> QED
      BY <3>1, <3>4 DEF out
  <2>8. user'.owner = None /\ user'.sent = user.sent
    BY <1>1, <1>5 DEF UserRow
  <2>9. \A k \in Jobs \ {j} : /\ InHand(job[k], job'[k], w)
                              /\ job'[k].dispatch = job[k].dispatch
                              /\ (job'[k].resend => job[k].resend)
    BY <2>4, <2>7, PartedInHand
  <2>10. /\ InHand(job[j], job'[j], w) /\ ~job'[j].dispatch /\ (job'[j].resend => job[j].resend)
    <3>1. /\ job'[j].dispatch = released[j].dispatch
          /\ (job'[j].resend => released[j].resend)
      BY <1>1, <2>7, PartedInHand
    <3>2. job'[j].lease \in {w, None}
      BY <1>1, <2>1, <2>2, <2>4, <2>7 DEF Parted
    <3> QED
      BY <2>2, <2>4, <3>1, <3>2 DEF InHand
  <2>11. UserKept(w)
    BY <1>1, <1>5, <2>1 DEF UserKept
  <2>12. DispatchIsOwned'
    BY <1>5, <2>9, <2>10 DEF MailInv, DispatchIsOwned
  <2>13. CreditCovers'
    <3>1. job'[j].resend => user.sent
      BY <2>1, <2>10 DEF Told
    <3> QED
      BY <1>1, <1>5, <2>8, <2>9, <3>1, CreditGrows DEF MailInv
  <2>14. InPlace(w)' /\ \A v \in Workers \ {w} : wk'[v] = wk[v]
    BY <1>5 DEF Leave, Idle, InPlace, AtGroups, AtEmail, QueueInv, Kinds
  <2>15. \A k \in Jobs : Told(job'[k], user'.sent, account') /\ InHand(job[k], job'[k], w)
    BY <1>1, <2>7, <2>8, <2>9, <2>10
  <2> QED
    BY <2>11, <2>12, <2>13, <2>14, <2>15 DEF Posted
<1> QED
  BY <1>2, <1>3, <1>4, <1>5 DEF EmailAnswer

LEMMA RecordSentIsPosted ==
  ASSUME QueueInv, MailInv, NEW w \in Workers, RecordSent(w)
  PROVE  Posted(w)
<1> DEFINE j == wk[w].on
           recorded == Recorded(j)
<1>1. /\ j \in Jobs /\ wk[w].at = "mailed" /\ UNCHANGED <<account, credit>> /\ w # None
      /\ user \in UserRow
  BY BusyHasJob, ProvisioningAssumption DEF RecordSent, QueueInv, Kinds
<1>2. CASE Quit(w) /\ UNCHANGED user
  BY <1>1, <1>2, QuitIsCalm, CalmIsPosted DEF Apart
<1>3. "delivery_unknown" \in Codes /\ FALSE \in BOOLEAN
  BY DEF Codes
<1>4. CASE Fail(w, "delivery_unknown", FALSE, FALSE) /\ UNCHANGED user
  BY <1>1, <1>3, <1>4, FailsIsCalm, CalmIsPosted DEF Apart
<1>5. CASE /\ Holds(job, w) /\ user.owner = j
           /\ user' = [user EXCEPT !.sent = TRUE, !.owner = None]
           /\ \/ job' = recorded /\ Goto(w, "finish")
              \/ /\ job' = AfterError(recorded, w, "delivery_unknown", FALSE, FALSE)
                 /\ Leave(w)
  <2>1. /\ job[j].lease = w /\ job[j].required = "yes" /\ job[j].step = "enrollment"
        /\ job[j].status = "running"
    <3>1. "mailed" \in AtEmail
      BY DEF AtEmail
    <3> QED
      BY <1>1, <1>5, <3>1, HeldMail DEF QueueInv, EmailOwed, Mailing, Holds
  <2>2. user'.owner = None /\ user'.sent = TRUE
    BY <1>1, <1>5 DEF UserRow
  <2>3. /\ Good(recorded, member)
        /\ \A k \in Jobs :
             /\ recorded[k].lease = job[k].lease /\ recorded[k].expired = job[k].expired
             /\ recorded[k].required = job[k].required
             /\ recorded[k].step = job[k].step /\ recorded[k].state = job[k].state
             /\ recorded[k].status = job[k].status
             /\ recorded[k].reconcile = job[k].reconcile
        /\ recorded[j].sent /\ ~recorded[j].resend /\ ~recorded[j].dispatch
        /\ \A k \in Jobs \ {j} :
             /\ recorded[k].sent = job[k].sent /\ recorded[k].resend = job[k].resend
             /\ recorded[k].dispatch = job[k].dispatch
    BY <1>1, <2>1, RecordedIs
  <2> HIDE DEF recorded
  <2>4. \A k \in Jobs : Told(recorded[k], TRUE, account)
    BY <2>1, <2>3 DEF MailInv, Told
  <2>5. \A k \in Jobs : Told(job'[k], TRUE, account) /\ Parted(recorded[k], job'[k])
    <3>1. CASE job' = recorded
      BY <2>4, <3>1 DEF Parted
    <3>2. CASE job' = AfterError(recorded, w, "delivery_unknown", FALSE, FALSE)
      <4>1. \A c \in Codes : \A r, u \in BOOLEAN : \A k \in Jobs :
              /\ Told(AfterError(recorded, w, c, r, u)[k], TRUE, account)
              /\ Parted(recorded[k], AfterError(recorded, w, c, r, u)[k])
        BY <1>1, <2>3, <2>4, AfterErrorMail DEF QueueInv
      <4> DEFINE out == AfterError(recorded, w, "delivery_unknown", FALSE, FALSE)
      <4>2. \A k \in Jobs : Told(out[k], TRUE, account) /\ Parted(recorded[k], out[k])
        BY <1>3, <4>1, Zenon
      <4> HIDE DEF out
      <4> QED
        BY <3>2, <4>2 DEF out
    <3> QED
      BY <1>5, <3>1, <3>2
  <2>6. \A k \in Jobs \ {j} : /\ InHand(job[k], job'[k], w)
                              /\ job'[k].dispatch = job[k].dispatch
                              /\ (job'[k].resend => job[k].resend)
    <3> TAKE k \in Jobs \ {j}
    <3>1. /\ InHand(recorded[k], job'[k], w) /\ job'[k].dispatch = recorded[k].dispatch
          /\ (job'[k].resend => recorded[k].resend)
      BY <2>5, PartedInHand
    <3>2. /\ recorded[k].lease = job[k].lease /\ recorded[k].step = job[k].step
          /\ recorded[k].reconcile = job[k].reconcile
          /\ recorded[k].resend = job[k].resend /\ recorded[k].dispatch = job[k].dispatch
      BY <2>3
    <3> QED
      BY <3>1, <3>2 DEF InHand
  <2>7. /\ InHand(job[j], job'[j], w) /\ ~job'[j].dispatch /\ ~job'[j].resend
    <3>1. /\ job'[j].dispatch = recorded[j].dispatch
          /\ (job'[j].resend => recorded[j].resend)
      BY <1>1, <2>5, PartedInHand
    <3>2. job'[j].lease \in {w, None}
      BY <1>1, <2>1, <2>3, <2>5 DEF Parted
    <3> QED
      BY <2>3, <3>1, <3>2 DEF InHand
  <2>8. UserKept(w)
    BY <1>1, <1>5, <2>1 DEF UserKept
  <2>9. DispatchIsOwned'
    BY <1>5, <2>6, <2>7 DEF MailInv, DispatchIsOwned
  <2>10. CreditCovers'
    BY <1>1, <2>2, <2>6, <2>7, CreditStays DEF MailInv
  <2>11. InPlace(w)' /\ \A v \in Workers \ {w} : wk'[v] = wk[v]
    <3>1. CASE job' = recorded /\ Goto(w, "finish")
      <4>1. wk'[w].at = "finish" /\ wk'[w].on = j /\ \A v \in Workers \ {w} : wk'[v] = wk[v]
        BY <3>1, GotoIs
      <4>2. job'[j].step = "enrollment"
        BY <1>1, <2>1, <2>3, <3>1
      <4> QED
        BY <4>1, <4>2 DEF InPlace, AtGroups
    <3>2. CASE Leave(w)
      BY <3>2 DEF Leave, Idle, InPlace, AtGroups, AtEmail, QueueInv, Kinds
    <3> QED
      BY <1>5, <3>1, <3>2
  <2>12. \A k \in Jobs : Told(job'[k], user'.sent, account') /\ InHand(job[k], job'[k], w)
    BY <1>1, <2>2, <2>5, <2>6, <2>7
  <2> QED
    BY <2>8, <2>9, <2>10, <2>11, <2>12 DEF Posted
<1> QED
  BY <1>2, <1>4, <1>5 DEF RecordSent, Recorded

LEMMA WorkerStepIsPosted ==
  ASSUME QueueInv, MailInv, NEW w \in Workers, WorkerStep(w)
  PROVE  Posted(w)
BY BeginIsCalm, IdentityCallIsCalm, IdentityAnswerIsPosted, ReadAccountIsCalm,
   ChangeGroupIsCalm, GroupAnswerIsCalm, EnrollIsPosted, SignedInIsCalm, DispatchIsPosted,
   EmailAnswerIsPosted, RecordSentIsPosted, FinishIsCalm, CalmIsPosted DEF WorkerStep

LEMMA ClaimIsCalm ==
  ASSUME QueueInv, MailInv, NEW w \in Workers, NEW j \in Jobs, Claim(w, j)
  PROVE  Calm(w)
<1> DEFINE tries == IF Swept[j].attempts < MaxAttempts
                    THEN Swept[j].attempts + 1 ELSE Swept[j].attempts
           out(k) == [job[k] EXCEPT !.status = "retry_wait", !.wait = "due", !.error = "other"]
           row == [Swept[j] EXCEPT !.status = "running", !.wait = "none", !.lease = w,
                                   !.attempts = tries]
<1>1. \A k \in Jobs : Told(Swept[k], user.sent, account) /\ Parted(job[k], Swept[k])
  <2> TAKE k \in Jobs
  <2>1. job[k] \in JobRow /\ Told(job[k], user.sent, account)
    BY RowOf DEF MailInv
  <2>2. /\ out(k) \in JobRow /\ out(k).status = "retry_wait"
        /\ out(k).step = job[k].step /\ out(k).state = job[k].state
        /\ out(k).sent = job[k].sent /\ out(k).required = job[k].required
        /\ out(k).dispatch = job[k].dispatch /\ out(k).resend = job[k].resend
    BY <2>1 DEF JobRow, JobStatus
  <2>3. Swept[k] \in {job[k], Unleased(out(k))}
    BY DEF Swept
  <2> HIDE DEF out
  <2>4. Told(Unleased(out(k)), user.sent, account) /\ Parted(job[k], Unleased(out(k)))
    BY <2>1, <2>2, UnleasedIs, UnleasedMail DEF Told, Parted
  <2> QED
    BY <2>1, <2>3, <2>4 DEF Parted
<1>2. /\ Good(Swept, member) /\ Swept[j] \in JobRow
      /\ job' = [Swept EXCEPT ![j] = row] /\ Apart
      /\ wk' = [wk EXCEPT ![w] = [Idle EXCEPT !.at = "claimed", !.on = j]]
  BY SweptIsGood DEF Claim, Good, Apart
<1>3. /\ row.status = "running" /\ row.lease = w
      /\ row.step = Swept[j].step /\ row.state = Swept[j].state
      /\ row.sent = Swept[j].sent /\ row.required = Swept[j].required
      /\ row.dispatch = Swept[j].dispatch /\ row.resend = Swept[j].resend
  BY <1>2 DEF JobRow
<1> HIDE DEF row
<1>4. /\ job'[j] = row /\ \A k \in Jobs \ {j} : job'[k] = Swept[k]
  BY <1>2 DEF Good
<1>5. ASSUME NEW k \in Jobs
      PROVE  /\ Told(job'[k], user.sent, account) /\ InHand(job[k], job'[k], w)
             /\ job'[k].dispatch = job[k].dispatch /\ (job'[k].resend => job[k].resend)
  <2>1. /\ Told(Swept[k], user.sent, account) /\ InHand(job[k], Swept[k], w)
        /\ Swept[k].dispatch = job[k].dispatch /\ (Swept[k].resend => job[k].resend)
    BY <1>1, PartedInHand
  <2>2. CASE k = j
    BY <1>3, <1>4, <2>1, <2>2 DEF Told, InHand
  <2>3. CASE k # j
    BY <1>4, <2>1, <2>3
  <2> QED
    BY <2>2, <2>3
<1>6. wk'[w].at = "claimed" /\ \A v \in Workers \ {w} : wk'[v] = wk[v]
  BY <1>2 DEF Idle, QueueInv, Kinds
<1>7. InPlace(w)'
  BY <1>6 DEF InPlace, AtGroups, AtEmail
<1>8. \A k \in Jobs : Told(job'[k], user'.sent, account')
  BY <1>2, <1>5, ToldStays DEF Apart
<1> QED
  BY <1>2, <1>5, <1>6, <1>7, <1>8 DEF Calm, Apart

-----------------------------------------------------------------------------
(***************************************************************************)
(* Leaders, the person, and time, as to the email.                         *)
(***************************************************************************)

\* The row of one job is written, and nothing about its email.
LEMMA RowIsCalm ==
  ASSUME QueueInv, MailInv, wk' = wk, NEW j \in Jobs, NEW row, job' = [job EXCEPT ![j] = row],
         user'.sent = user.sent, user'.owner = user.owner, UNCHANGED <<account, credit>>,
         Told(row, user.sent, account), InHand(job[j], row, None),
         row.dispatch = job[j].dispatch, row.resend => job[j].resend
  PROVE  Calm(None)
<1>1. job'[j] = row /\ \A k \in Jobs \ {j} : job'[k] = job[k]
  BY DEF QueueInv, Good
<1>2. \A k \in Jobs : /\ Told(job'[k], user'.sent, account') /\ InHand(job[k], job'[k], None)
                      /\ job'[k].dispatch = job[k].dispatch
                      /\ (job'[k].resend => job[k].resend)
  BY <1>1 DEF MailInv, InHand
<1> QED
  BY <1>2, ProvisioningAssumption DEF Calm

LEMMA InviteIsCalm ==
  ASSUME QueueInv, MailInv, NEW j \in Jobs, NEW r \in Roles, Invite(j, r)
  PROVE  Calm(None)
<1>1. job[j].status = "none" /\ job[j] \in JobRow /\ Told(job[j], user.sent, account)
  BY RowOf DEF Invite, Asks, MailInv
<1>2. /\ Told(NewJob(r), user.sent, account) /\ InHand(job[j], NewJob(r), None)
      /\ NewJob(r).dispatch = FALSE /\ NewJob(r).resend = FALSE
  BY DEF NewJob, Told, InHand
<1>3. job[j].dispatch = FALSE
  BY <1>1 DEF Told, JobRow
<1> QED
  BY <1>2, <1>3, RowIsCalm DEF Invite

\* No invitation is cancelled with an email out: nobody has an account.
LEMMA CancelIsCalm ==
  ASSUME QueueInv, MailInv, NEW j \in Jobs, Cancel(j)
  PROVE  Calm(None)
<1> DEFINE r == CHOOSE r \in Roles : TRUE
<1>1. job[j].dispatch = FALSE
  <2>1. job[j].dispatch \in BOOLEAN /\ j # None
    BY RowOf, ProvisioningAssumption DEF JobRow
  <2>2. user.owner = None
    BY DEF QueueInv, AccountFirst, Cancel
  <2> QED
    BY <2>1, <2>2 DEF MailInv, DispatchIsOwned
<1>2. /\ Told(NoJob, user.sent, account) /\ InHand(job[j], NoJob, None)
      /\ NoJob.dispatch = FALSE /\ NoJob.resend = FALSE
  BY DEF NoJob, NewJob, Told, InHand
<1> QED
  BY <1>1, <1>2, RowIsCalm DEF Cancel

LEMMA PatchIsCalm ==
  ASSUME QueueInv, MailInv, NEW j \in Jobs, NEW r \in Roles,
         NEW s \in {member[j].status, "active", "disabled"}, Patch(j, r, s)
  PROVE  Calm(None)
<1> DEFINE state == IF s = "disabled" THEN "disabled" ELSE "active"
           need == IF state = "active" /\ job[j].required = "no" /\ ~job[j].sent
                   THEN "unknown" ELSE job[j].required
           noted == [job[j] EXCEPT !.reconcile = TRUE]
           one == [job[j] EXCEPT
                     !.role = r, !.state = state, !.step = "identity", !.status = "pending"]
           two == [one EXCEPT !.attempts = 0, !.resend = FALSE, !.wait = "none",
                              !.error = "none"]
           out == [two EXCEPT !.reconcile = FALSE, !.required = need]
           row == Enqueued(j, r, state)
<1>1. /\ Sane(job[j]) /\ job[j] \in JobRow /\ Told(job[j], user.sent, account)
      /\ 0 \in 0..MaxAttempts
  BY RowOf, ProvisioningAssumption DEF MailInv
<1>2. CASE job[j].status = "running"
  <2>1. row = noted
    BY <1>2 DEF Enqueued
  <2>2. /\ noted.reconcile /\ noted.status = job[j].status /\ noted.lease = job[j].lease
        /\ noted.step = job[j].step /\ noted.state = job[j].state
        /\ noted.sent = job[j].sent /\ noted.required = job[j].required
        /\ noted.dispatch = job[j].dispatch /\ noted.resend = job[j].resend
    BY <1>1 DEF JobRow
  <2> HIDE DEF noted
  <2>3. Told(noted, user.sent, account) /\ InHand(job[j], noted, None)
    BY <1>1, <2>2 DEF Told, InHand
  <2> HIDE DEF row
  <2>4. /\ job' = [job EXCEPT ![j] = row] /\ wk' = wk
        /\ UNCHANGED <<account, credit>> /\ user' = user
    BY DEF Patch, row
  <2> QED
    BY <2>1, <2>2, <2>3, <2>4, RowIsCalm
<1>3. CASE job[j].status # "running"
  <2>1. row = out
    BY <1>3 DEF Enqueued
  <2>2. need \in {"unknown", "yes", "no"}
        /\ (state = "active" => need # "no" \/ job[j].sent)
    BY <1>1 DEF JobRow
  <2>3. /\ one \in JobRow /\ one.step = "identity" /\ one.status = "pending"
        /\ one.state = state /\ one.sent = job[j].sent /\ one.dispatch = job[j].dispatch
        /\ one.lease = job[j].lease
    BY <1>1 DEF JobRow, JobStatus
  <2> HIDE DEF one, need, state
  <2>4. /\ two \in JobRow /\ two.step = one.step /\ two.status = one.status
        /\ two.state = one.state /\ two.sent = one.sent /\ two.dispatch = one.dispatch
        /\ two.resend = FALSE /\ two.lease = one.lease
    BY ONLY <1>1, <2>3 DEF JobRow, two
  <2> HIDE DEF two
  <2>5. /\ out.step = two.step /\ out.status = two.status /\ out.required = need
        /\ out.state = two.state /\ out.sent = two.sent /\ out.dispatch = two.dispatch
        /\ out.resend = two.resend /\ out.lease = two.lease
    BY <2>2, <2>4 DEF JobRow
  <2> HIDE DEF out
  <2>6. job[j].lease = None /\ (job[j].sent => user.sent)
    BY <1>1, <1>3 DEF Sane, Told
  <2>7. Told(out, user.sent, account) /\ InHand(job[j], out, None)
        /\ out.dispatch = job[j].dispatch /\ ~out.resend
    BY <1>1, <2>2, <2>3, <2>4, <2>5, <2>6 DEF Told, InHand
  <2> HIDE DEF row
  <2>8. /\ job' = [job EXCEPT ![j] = row] /\ wk' = wk
        /\ UNCHANGED <<account, credit>> /\ user' = user
    BY DEF Patch, row, state
  <2> QED
    BY <2>1, <2>7, <2>8, RowIsCalm
<1> QED
  BY <1>2, <1>3

LEMMA TimeIsCalm ==
  ASSUME QueueInv, MailInv, NEW j \in Jobs, LeaseRunsOut(j) \/ DelayEnds(j)
  PROVE  Calm(None)
<1>1. job[j] \in JobRow /\ Told(job[j], user.sent, account)
  BY RowOf DEF MailInv
<1>2. CASE LeaseRunsOut(j)
  <2> DEFINE row == [job[j] EXCEPT !.expired = TRUE]
  <2>1. /\ Told(row, user.sent, account) /\ InHand(job[j], row, None)
        /\ row.dispatch = job[j].dispatch /\ row.resend = job[j].resend
    BY <1>1 DEF JobRow, Told, InHand
  <2> QED
    BY <1>2, <2>1, RowIsCalm DEF LeaseRunsOut
<1>3. CASE DelayEnds(j)
  <2> DEFINE row == [job[j] EXCEPT !.wait = "due"]
  <2>1. /\ Told(row, user.sent, account) /\ InHand(job[j], row, None)
        /\ row.dispatch = job[j].dispatch /\ row.resend = job[j].resend
    BY <1>1 DEF JobRow, Told, InHand
  <2> QED
    BY <1>3, <2>1, RowIsCalm DEF DelayEnds
<1> QED
  BY <1>2, <1>3

\* Nobody writes a row.
LEMMA IdleIsCalm ==
  ASSUME QueueInv, MailInv, wk' = wk, job' = job, UNCHANGED <<account, credit>>,
         user'.sent = user.sent, user'.owner = user.owner
  PROVE  Calm(None)
BY ProvisioningAssumption DEF Calm, MailInv, InHand

LEMMA PersonIsPosted ==
  ASSUME QueueInv, MailInv, Person
  PROVE  Posted(None)
<1>1. user \in UserRow /\ None \notin Workers
  BY ProvisioningAssumption DEF QueueInv, Kinds
<1>2. CASE Login
  <2>1. user'.sent = user.sent /\ user'.owner = user.owner
    BY <1>1, <1>2 DEF Login, UserRow
  <2> QED
    BY <1>2, <2>1, IdleIsCalm, CalmIsPosted DEF Login
<1>3. CASE VerifiedLogin
  <2>1. user'.sent = TRUE /\ user'.owner = None
    BY <1>1, <1>3 DEF VerifiedLogin, UserRow
  <2> QED
    BY <1>1, <1>3, <2>1, MetIsPosted DEF VerifiedLogin
<1> QED
  BY <1>2, <1>3 DEF Person

\* A resend is asked for once the first email is out.
LEMMA ResendIsPosted ==
  ASSUME QueueInv, MailInv, NEW j \in Jobs, Resend(j)
  PROVE  Posted(None)
<1> DEFINE one == [job[j] EXCEPT !.step = "enrollment", !.status = "pending", !.attempts = 0]
           row == [one EXCEPT !.sent = FALSE, !.resend = TRUE, !.dispatch = FALSE]
<1>1. /\ Sane(job[j]) /\ job[j] \in JobRow /\ Told(job[j], user.sent, account)
      /\ job[j].status = "succeeded" /\ job[j].state = "active" /\ job[j].required = "yes"
      /\ user.sent /\ 0 \in 0..MaxAttempts
  <2>1. 0 \in 0..MaxAttempts
    BY ProvisioningAssumption
  <2>2. Told(job[j], user.sent, account)
    BY DEF MailInv
  <2>3. /\ job[j].status = "succeeded" /\ job[j].state = "active" /\ job[j].required = "yes"
        /\ user.sent
    BY Zenon DEF Resend
  <2> QED
    BY <2>1, <2>2, <2>3, RowOf
<1>2. /\ job' = [job EXCEPT ![j] = row] /\ wk' = wk /\ user' = user
      /\ credit' = credit + 1 /\ account' = account
  BY DEF Resend
<1>3. /\ one \in JobRow /\ one.step = "enrollment" /\ one.status = "pending"
      /\ one.state = job[j].state /\ one.required = job[j].required
      /\ one.lease = job[j].lease
  BY <1>1 DEF JobRow, JobStatus
<1> HIDE DEF one
<1>4. /\ row.step = one.step /\ row.status = one.status /\ row.state = one.state
      /\ row.required = one.required /\ ~row.sent /\ row.resend /\ ~row.dispatch
      /\ row.lease = one.lease
  BY <1>3 DEF JobRow
<1> HIDE DEF row
<1>5. job'[j] = row /\ \A k \in Jobs \ {j} : job'[k] = job[k]
  BY <1>2 DEF QueueInv, Good
<1>6. row.lease = None
  BY <1>1, <1>3, <1>4 DEF Sane
<1>7. Told(row, user.sent, account) /\ InHand(job[j], row, None)
  BY <1>1, <1>3, <1>4, <1>6 DEF Told, InHand
<1>8. \A k \in Jobs : Told(job'[k], user'.sent, account') /\ InHand(job[k], job'[k], None)
  BY <1>2, <1>5, <1>7 DEF MailInv, InHand
<1>9. UserKept(None)
  BY <1>2 DEF UserKept
<1>10. DispatchIsOwned'
  BY <1>2, <1>4, <1>5 DEF MailInv, DispatchIsOwned
<1>11. CreditCovers'
  <2>1. \A k \in Jobs \ {j} :
          /\ job'[k].resend /\ ~job'[k].dispatch => job[k].resend /\ ~job[k].dispatch
          /\ job[k].dispatch => job'[k].dispatch \/ user'.sent
    BY <1>5
  <2>2. CreditCovers /\ (user.sent => user'.sent) /\ (job'[j].resend => user.sent)
    BY <1>1, <1>2 DEF MailInv
  <2>3. credit' = credit + 1
    BY <1>2
  <2> QED
    BY ONLY QueueInv, j \in Jobs, <2>1, <2>2, <2>3, CreditGrows
<1> QED
  BY <1>2, <1>8, <1>9, <1>10, <1>11, ProvisioningAssumption DEF Posted

\* A retry acknowledges at most one email: only one job of the person can have
\* one that is uncertain.
LEMMA RetryIsPosted ==
  ASSUME QueueInv, MailInv, NEW j \in Jobs, Retry(j)
  PROVE  Posted(None)
<1> DEFINE marked == job[j].dispatch /\ job[j].error # "delivery_unknown"
           one == [job[j] EXCEPT !.status = "pending", !.step = "identity", !.attempts = 0]
           two == [one EXCEPT !.wait = "none", !.error = "none"]
           row == [two EXCEPT !.dispatch = marked]
           freed(k) == [job[k] EXCEPT !.dispatch = FALSE]
           out == [k \in Jobs |-> IF k = j THEN row
                                  ELSE IF k \in StoppedOwner(j) THEN freed(k) ELSE job[k]]
<1>1. /\ Sane(job[j]) /\ job[j] \in JobRow /\ Told(job[j], user.sent, account)
      /\ job[j].status \in {"failed", "retry_wait"} /\ 0 \in 0..MaxAttempts
      /\ user \in UserRow /\ DispatchIsOwned /\ CreditCovers
  BY RowOf, ProvisioningAssumption DEF Retry, MailInv, QueueInv, Kinds
<1>2. /\ job' = out /\ wk' = wk /\ account' = account
      /\ credit' = IF Acknowledges(j) THEN credit + 1 ELSE credit
  BY DEF Retry
<1>3. user'.sent = user.sent
      /\ user'.owner = IF user.owner \in StoppedOwner(j) THEN None ELSE user.owner
  BY <1>1 DEF Retry, UserRow
<1>4. marked \in BOOLEAN
  OBVIOUS
<1>5. /\ one \in JobRow /\ one.status = "pending" /\ one.step = "identity"
      /\ one.sent = job[j].sent /\ one.required = job[j].required
      /\ one.lease = job[j].lease /\ one.state = job[j].state /\ one.resend = job[j].resend
  BY <1>1 DEF JobRow, JobStatus
<1> HIDE DEF one
<1>6. /\ two \in JobRow /\ two.status = one.status /\ two.step = one.step
      /\ two.sent = one.sent /\ two.required = one.required
      /\ two.lease = one.lease /\ two.state = one.state /\ two.resend = one.resend
  BY <1>5 DEF JobRow
<1> HIDE DEF two, marked
<1>7. /\ row.status = two.status /\ row.step = two.step
      /\ row.sent = two.sent /\ row.required = two.required
      /\ row.lease = two.lease /\ row.state = two.state
      /\ row.resend = two.resend /\ row.dispatch = marked
  BY <1>4, <1>6 DEF JobRow
<1> HIDE DEF row
<1>8. job[j].lease = None
  BY <1>1 DEF Sane
<1>9. Told(row, user.sent, account) /\ InHand(job[j], row, None)
  BY <1>1, <1>5, <1>6, <1>7, <1>8 DEF Told, InHand
<1>10. job'[j] = row
       /\ \A k \in Jobs \ {j} : job'[k] = IF k \in StoppedOwner(j) THEN freed(k) ELSE job[k]
  BY <1>2
<1> HIDE DEF out
<1>11. ASSUME NEW k \in StoppedOwner(j)
       PROVE  /\ k \in Jobs \ {j} /\ user.owner = k /\ job[k].dispatch /\ job[k].lease = None
              /\ ~freed(k).dispatch /\ freed(k).resend = job[k].resend
              /\ Told(freed(k), user.sent, account) /\ InHand(job[k], freed(k), None)
  <2>1. k \in Jobs \ {j} /\ user.owner = k /\ job[k].dispatch /\ job[k].status # "running"
    BY <1>11 DEF StoppedOwner
  <2>2. Sane(job[k]) /\ job[k] \in JobRow /\ Told(job[k], user.sent, account)
    BY <2>1, RowOf DEF MailInv
  <2>3. /\ freed(k).sent = job[k].sent /\ freed(k).state = job[k].state
        /\ freed(k).required = job[k].required /\ freed(k).step = job[k].step
        /\ freed(k).status = job[k].status /\ freed(k).resend = job[k].resend
        /\ freed(k).lease = job[k].lease /\ ~freed(k).dispatch
    BY <2>2 DEF JobRow
  <2> HIDE DEF freed
  <2>4. job[k].lease = None
    BY <2>1, <2>2 DEF Sane
  <2>5. job[k].status # "none"
    BY <2>1, <2>2 DEF Told
  <2> QED
    BY <2>1, <2>2, <2>3, <2>4, <2>5 DEF Told, InHand
<1> HIDE DEF freed
<1>12. \A k \in Jobs : Told(job'[k], user'.sent, account') /\ InHand(job[k], job'[k], None)
  <2> TAKE k \in Jobs
  <2>1. CASE k = j
    BY <1>2, <1>3, <1>9, <1>10, <2>1
  <2>2. CASE k \in StoppedOwner(j)
    BY <1>2, <1>3, <1>10, <1>11, <2>2
  <2>3. CASE k # j /\ k \notin StoppedOwner(j)
    BY <1>2, <1>3, <1>10, <2>3 DEF MailInv, InHand
  <2> QED
    BY <2>1, <2>2, <2>3
<1>13. UserKept(None)
  BY <1>3, <1>11 DEF UserKept
<1>14. DispatchIsOwned'
  <2> SUFFICES ASSUME NEW k \in Jobs, job'[k].dispatch PROVE user'.owner = k
    BY DEF DispatchIsOwned
  <2>1. k \notin StoppedOwner(j)
    BY <1>10, <1>11
  <2>2. job[k].dispatch
    <3>1. CASE k = j
      BY <1>7, <1>10, <3>1 DEF marked
    <3>2. CASE k # j
      BY <1>10, <2>1, <3>2
    <3> QED
      BY <3>1, <3>2
  <2> QED
    BY <1>1, <1>3, <2>1, <2>2 DEF DispatchIsOwned
<1>15. CreditCovers'
  <2> DEFINE same(k) ==
        /\ job'[k].resend /\ ~job'[k].dispatch => job[k].resend /\ ~job[k].dispatch
        /\ job[k].dispatch => job'[k].dispatch \/ user'.sent
  <2>1. ASSUME NEW k \in Jobs \ {j}, k \notin StoppedOwner(j)
        PROVE  same(k)
    BY <1>10, <2>1
  <2>2. ~(job[j].dispatch /\ job[j].error = "delivery_unknown") => same(j)
    <3>1. job'[j].resend = job[j].resend /\ job'[j].dispatch = marked
      BY <1>5, <1>6, <1>7, <1>10
    <3> QED
      BY <3>1 DEF marked
  <2>3. \A k \in Jobs : job'[k].resend => user.sent
    BY <1>3, <1>12 DEF Told
  <2> HIDE DEF same
  <2>4. CASE StoppedOwner(j) # {}
    <3>1. PICK m \in StoppedOwner(j) : TRUE
      BY <2>4
    <3>2. m \in Jobs \ {j} /\ user.owner = m
      BY <3>1, <1>11
    <3>3. ~job[j].dispatch /\ \A k \in StoppedOwner(j) : k = m
      BY <1>1, <1>11, <3>2 DEF DispatchIsOwned
    <3>4. \A k \in Jobs \ {m} : same(k)
      BY <2>1, <2>2, <3>3
    <3>5. credit' = credit + 1
      BY <1>2, <2>4 DEF Acknowledges
    <3>6. m \in Jobs /\ (user.sent => user'.sent) /\ (job'[m].resend => user.sent)
      BY <1>3, <2>3, <3>2
    <3> QED
      BY <1>1, <3>4, <3>5, <3>6, CreditGrows DEF same
  <2>5. CASE job[j].dispatch /\ job[j].error = "delivery_unknown"
    <3>1. StoppedOwner(j) = {}
      BY <1>1, <1>11, <2>5 DEF DispatchIsOwned
    <3>2. \A k \in Jobs \ {j} : same(k)
      BY <2>1, <3>1
    <3>3. credit' = credit + 1
      BY <1>2, <2>5 DEF Acknowledges
    <3>4. (user.sent => user'.sent) /\ (job'[j].resend => user.sent)
      BY <1>3, <2>3
    <3> QED
      BY <1>1, <3>2, <3>3, <3>4, CreditGrows DEF same
  <2>6. CASE StoppedOwner(j) = {} /\ ~(job[j].dispatch /\ job[j].error = "delivery_unknown")
    <3>1. \A k \in Jobs : same(k)
      BY <2>1, <2>2, <2>6
    <3>2. credit' = credit
      BY <1>2, <2>6 DEF Acknowledges
    <3>3. user.sent => user'.sent
      BY <1>3
    <3> QED
      BY <1>1, <3>1, <3>2, <3>3, CreditStays DEF same
  <2> QED
    BY <2>4, <2>5, <2>6
<1> QED
  BY <1>2, <1>12, <1>13, <1>14, <1>15, ProvisioningAssumption DEF Posted

LEMMA NextIsPosted ==
  ASSUME QueueInv, MailInv, Next
  PROVE  \E w \in Workers \cup {None} : Posted(w)
<1>1. CASE \E w \in Workers : WorkerStep(w) \/ Crash(w) \/ \E j \in Jobs : Claim(w, j)
  BY <1>1, WorkerStepIsPosted, CrashIsCalm, ClaimIsCalm, CalmIsPosted
<1>2. CASE \E j \in Jobs : LeaseRunsOut(j) \/ DelayEnds(j)
  BY <1>2, TimeIsCalm, CalmIsPosted
<1>3. CASE \E call \in flying : Land(call)
  BY <1>3, IdleIsCalm, CalmIsPosted DEF Land
<1>4. CASE LeaderStep
  <2>1. PICK j \in Jobs :
          \/ \E r \in Roles : Invite(j, r)
          \/ \E r \in Roles : \E s \in {member[j].status, "active", "disabled"} : Patch(j, r, s)
          \/ Cancel(j) \/ Retry(j) \/ Resend(j)
    BY <1>4 DEF LeaderStep
  <2> QED
    BY <2>1, InviteIsCalm, PatchIsCalm, CancelIsCalm, RetryIsPosted, ResendIsPosted, CalmIsPosted
<1>5. CASE Person
  BY <1>5, PersonIsPosted
<1> QED
  BY <1>1, <1>2, <1>3, <1>4, <1>5 DEF Next, Work, TimeStep, Disturbance

LEMMA MailInvInit == Init => MailInv
<1> SUFFICES ASSUME Init PROVE MailInv
  OBVIOUS
<1>1. /\ \A k \in Jobs : job[k] = NoJob
      /\ user.sent = FALSE /\ credit = 1 /\ \A w \in Workers : wk[w].at = "idle"
  BY DEF Init, Idle
<1>2. /\ NoJob.dispatch = FALSE /\ NoJob.resend = FALSE /\ NoJob.sent = FALSE
      /\ NoJob.required = "unknown" /\ NoJob.step = "identity" /\ NoJob.status = "none"
  BY DEF NoJob, NewJob
<1>3. \A k \in Jobs : Told(job[k], user.sent, account)
  BY <1>1, <1>2 DEF Told
<1>4. (\A w \in Workers : InPlace(w)) /\ DispatchIsOwned
  BY <1>1, <1>2 DEF InPlace, AtGroups, AtEmail, DispatchIsOwned
<1>5. Asked = {} /\ First \in {0, 1}
  BY <1>1, <1>2 DEF Asked, First
<1>6. CreditCovers
  BY <1>1, <1>5, FS_EmptySet DEF CreditCovers
<1> QED
  BY <1>3, <1>4, <1>6 DEF MailInv

LEMMA MailInvStep == QueueInv /\ MailInv /\ [Next]_vars => MailInv'
<1> SUFFICES ASSUME QueueInv, MailInv, [Next]_vars PROVE MailInv'
  OBVIOUS
<1>1. CASE Next
  BY <1>1, NextIsPosted, PostedKeepsMail
<1>2. CASE UNCHANGED vars
  BY <1>2 DEF vars, MailInv, InPlace, DispatchIsOwned, CreditCovers, Asked, First
<1> QED
  BY <1>1, <1>2

LEMMA MailInvAlways == Spec => [](QueueInv /\ MailInv)
BY QueueInvInit, QueueInvStep, MailInvInit, MailInvStep, PTL DEF Spec

\* Set-up emails are those that were asked for, the first and one for each
\* resend and each retry that acknowledges an uncertain one, whatever crashes,
\* answers and commits are lost in between; the marker of one that may be out is
\* on the job that owns it; and whoever is ready in a workspace was told of the
\* account the app made.
THEOREM EmailsAreAskedCorrect == Spec => []EmailsAreAsked
<1>1. QueueInv /\ MailInv => NoUnaskedEmail
  <2> SUFFICES ASSUME QueueInv, MailInv PROVE credit >= 0
    BY DEF NoUnaskedEmail
  <2>1. credit \in Int /\ First \in {0, 1} /\ CreditCovers
    BY DEF QueueInv, Kinds, First, MailInv
  <2>2. Cardinality(Asked) \in Nat
    BY <2>1, FS_CardinalityType DEF CreditCovers
  <2> QED
    BY <2>1, <2>2 DEF CreditCovers
<1>2. QueueInv /\ MailInv => DispatchIsOwned
  BY DEF MailInv
<1>3. QueueInv /\ MailInv => ReadyCanSignIn
  <2> SUFFICES ASSUME QueueInv, MailInv, NEW j \in Jobs, job[j].status = "succeeded",
                      job[j].state = "active", account = "ours"
               PROVE  user.sent
    BY DEF ReadyCanSignIn
  <2>1. Sane(job[j]) /\ job[j] \in JobRow /\ Told(job[j], user.sent, account)
    BY RowOf DEF MailInv
  <2> QED
    BY <2>1 DEF Sane, JobRow, Told
<1> QED
  BY <1>1, <1>2, <1>3, MailInvAlways, PTL DEF EmailsAreAsked

-----------------------------------------------------------------------------
(***************************************************************************)
(* What is reported done has been done, as long as Authentik answers.      *)
(***************************************************************************)

\* What a row says of the group, in being whether it holds the account: past the
\* group step, the group is as the row asks; there is somebody to add before that
\* step begins.
Applied(row, in, m, a) ==
  /\ row.step = "groups" \/ in => a # "none"
  /\ row.step = "enrollment" => row.state = "active" /\ in
  /\ row.step = "complete" => (in <=> row.state = "active" /\ m.status = "active")

\* A worker that holds a job knows whether the group holds the account, and has
\* asked for what the job asks for.
Guided(w) ==
  LET j == wk[w].on IN
  wk[w].at # "idle" /\ job[j].lease = w =>
    /\ wk[w].at = "change" => (wk[w].seen <=> j \in grouped)
    /\ wk[w].at = "adding" => job[j].state = "active"
    /\ wk[w].at = "removing" => job[j].state = "disabled"

\* A change that was given up on was the last thing done for its job, whose lease
\* does not run out before the change can no longer take effect.
Adrift(j) ==
  job[j].lease # None /\ ~job[j].expired /\ job[j].step = "groups" /\ Abandoned(j)

SettledInv ==
  /\ \A k \in Jobs : Applied(job[k], k \in grouped, member[k], account)
  /\ \A w \in Workers : Guided(w)
  /\ \A call \in flying : Adrift(call[1])

\* In what follows w is the worker that acts, or None.  It moves the row it holds
\* and rows nobody holds for good; the others stay.
Steady(row, new) ==
  /\ new.lease = row.lease
  /\ row.lease # None =>
       new.step = row.step /\ new.state = row.state /\ (new.expired => row.expired)
Mine(k, w) == w \in Workers /\ wk[w].on = k /\ job[k].lease = w
Settling(w) ==
  /\ flying' = flying
  /\ \A k \in Jobs :
       /\ Applied(job'[k], k \in grouped', member'[k], account')
       /\ \/ Steady(job[k], job'[k])
          \/ /\ job'[k].lease \in {w, None}
             /\ Mine(k, w) \/ job[k].lease = None \/ job[k].expired
       /\ Mine(k, w) \/ (k \in grouped' <=> k \in grouped)
  /\ \A v \in Workers \ {w} : wk'[v] = wk[v]
  /\ w \in Workers =>
       /\ Guided(w)'
       /\ LET k == wk'[w].on IN
          k \in {wk[w].on, None} \/ job[k].lease = None \/ job[k].expired

LEMMA SettlingKeeps ==
  ASSUME QueueInv, SettledInv, NEW w \in Workers \cup {None}, Settling(w)
  PROVE  SettledInv'
<1>1. ASSUME NEW v \in Workers \ {w}
      PROVE  Guided(v)'
  <2> DEFINE j == wk[v].on
  <2>1. wk'[v] = wk[v] /\ v # None /\ Guided(v) /\ (wk[v].at # "idle" => j \in Jobs)
    BY <1>1, BusyHasJob, ProvisioningAssumption DEF Settling, SettledInv
  <2>2. CASE j \in Jobs /\ job'[j].lease = v
    <3>1. Steady(job[j], job'[j]) /\ ~Mine(j, w)
      BY <1>1, <2>1, <2>2 DEF Settling, Steady, Mine
    <3>2. j \in grouped' <=> j \in grouped
      BY <2>2, <3>1 DEF Settling
    <3> QED
      BY <2>1, <2>2, <3>1, <3>2 DEF Guided, Steady
  <2> QED
    BY <2>1, <2>2 DEF Guided
<1>2. ASSUME NEW call \in flying'
      PROVE  Adrift(call[1])'
  <2> DEFINE k == call[1]
  <2>1. call \in flying /\ k \in Jobs /\ k # None /\ Adrift(k)
    BY <1>2, ProvisioningAssumption DEF Settling, SettledInv, QueueInv, Kinds
  <2>2. Steady(job[k], job'[k])
    BY <2>1 DEF Settling, Adrift, Abandoned, Mine
  <2>3. ASSUME NEW v \in Workers, wk'[v].on = k, job'[k].lease = v
        PROVE  FALSE
    <3>1. job[k].lease = v /\ wk[v].on # k
      BY <2>1, <2>2, <2>3 DEF Steady, Adrift, Abandoned
    <3>2. v = w
      BY <2>3, <3>1 DEF Settling
    <3> QED
      BY <2>1, <2>3, <3>1, <3>2 DEF Settling, Adrift
  <2>4. Abandoned(k)'
    BY <2>3 DEF Abandoned
  <2> QED
    BY <2>1, <2>2, <2>4 DEF Adrift, Steady
<1> QED
  BY <1>1, <1>2 DEF Settling, SettledInv

\* A row that stays at its step and state, or is set back to the first step, says
\* no more of the group than before.
Eased(row, new) == new.step = "identity" \/ (new.step = row.step /\ new.state = row.state)

\* What a lost lease, a restart and an error do to the rows js.
Dropped(js, out, w) ==
  \A k \in Jobs :
    \/ out[k] = js[k]
    \/ k = wk[w].on /\ js[k].lease = w /\ out[k].lease = None /\ Eased(js[k], out[k])

LEMMA AfterLossDrops ==
  ASSUME NEW js, Good(js, member), Kinds, NEW w \in Workers, wk[w].on \in Jobs
  PROVE  Dropped(js, AfterLoss(js, w), w)
<1> DEFINE j == wk[w].on
           new == Restarted(js, j, FALSE)
<1>1. Holds(js, w) => Eased(js[j], new) /\ new.lease = None /\ js[j].lease = w
  <2> SUFFICES ASSUME Holds(js, w) PROVE Eased(js[j], new) /\ new.lease = None /\ js[j].lease = w
    OBVIOUS
  <2>1. js[j].lease = w /\ Sane(js[j]) /\ member[j] \in MemberRow /\ member[j].status # "none"
    BY HeldIsRunning DEF Holds, Good, Kinds, Asks
  <2> QED
    BY <2>1, RestartedIsSane DEF Eased
<1>2. AfterLoss(js, w) = js \/ (Holds(js, w) /\ AfterLoss(js, w) = [js EXCEPT ![j] = new])
  BY DEF AfterLoss
<1> HIDE DEF new
<1> QED
  BY <1>1, <1>2 DEF Good, Dropped

LEMMA AfterErrorDrops ==
  ASSUME NEW js, Good(js, member), Kinds, NEW w \in Workers, wk[w].on \in Jobs
  PROVE  \A code \in Codes : \A retryable, unsure \in BOOLEAN :
           Dropped(js, AfterError(js, w, code, retryable, unsure), w)
<1> TAKE code \in Codes
<1> TAKE retryable, unsure \in BOOLEAN
<1> DEFINE j == wk[w].on
           new == Restarted(js, j, unsure)
           bad == Failed(js[j], code, retryable)
           out == AfterError(js, w, code, retryable, unsure)
<1>0. code \in {"delivery_unknown", "pending", "other"}
  BY DEF Codes
<1>1. Holds(js, w) => /\ Eased(js[j], new) /\ new.lease = None /\ js[j].lease = w
                      /\ Eased(js[j], bad) /\ bad.lease = None
  <2> SUFFICES ASSUME Holds(js, w)
               PROVE  /\ Eased(js[j], new) /\ new.lease = None /\ js[j].lease = w
                      /\ Eased(js[j], bad) /\ bad.lease = None
    OBVIOUS
  <2>1. /\ js[j].lease = w /\ Sane(js[j]) /\ member[j] \in MemberRow /\ member[j].status # "none"
        /\ js[j].status = "running"
    BY HeldIsRunning DEF Holds, Good, Kinds, Asks
  <2>2. new.step = "identity" /\ new.lease = None
    BY <2>1, RestartedIsSane
  <2>3. bad.step = js[j].step /\ bad.state = js[j].state /\ bad.lease = None
    BY <1>0, <2>1, FailedIsSane
  <2> QED
    BY <2>1, <2>2, <2>3 DEF Eased
<1>2. \/ out = js
      \/ Holds(js, w) /\ (out = [js EXCEPT ![j] = new] \/ out = [js EXCEPT ![j] = bad])
  BY DEF AfterError
<1> HIDE DEF new, bad, out
<1>3. Dropped(js, out, w)
  BY <1>1, <1>2 DEF Good, Dropped
<1> QED
  BY <1>3 DEF out

\* What a step of a worker that holds a job in the group step may do to the
\* group; any other step leaves the groups alone.
Near(w) ==
  LET j == wk[w].on IN
  /\ flying' = flying /\ (account # "none" => account' # "none")
  /\ \/ grouped' = grouped
     \/ /\ job[j].step = "groups" /\ job[j].lease = w
        /\ grouped' \in {grouped \cup {j}, grouped \ {j}}

\* The worker drops its job: rows others hold are as they were in job.
LEMMA LeftIsSettling ==
  ASSUME QueueInv, SettledInv, NEW w \in Workers, wk[w].on \in Jobs, Leave(w), Near(w),
         member' = member, NEW js, Dropped(js, job', w),
         \A k \in Jobs : js[k].lease = job[k].lease /\ Eased(job[k], js[k]),
         \A k \in Jobs : Steady(job[k], js[k])
  PROVE  Settling(w)
<1> DEFINE j == wk[w].on
<1>1. w # None /\ Idle.at = "idle" /\ Idle.on = None
  BY ProvisioningAssumption DEF Idle
<1>2. wk'[w] = Idle /\ \A v \in Workers \ {w} : wk'[v] = wk[v]
  BY DEF Leave, QueueInv, Kinds
<1>3. ASSUME NEW k \in Jobs
      PROVE  /\ Eased(job[k], job'[k])
             /\ \/ Steady(job[k], job'[k])
                \/ job'[k].lease \in {w, None} /\ Mine(k, w)
             /\ Mine(k, w) \/ (k \in grouped' <=> k \in grouped)
  <2>1. \/ job'[k] = js[k]
        \/ k = j /\ js[k].lease = w /\ job'[k].lease = None /\ Eased(js[k], job'[k])
    BY DEF Dropped
  <2>2. Eased(job[k], job'[k])
    BY <2>1 DEF Eased
  <2>3. Mine(k, w) \/ (k \in grouped' <=> k \in grouped)
    BY DEF Near, Mine
  <2> QED
    BY <2>1, <2>2, <2>3 DEF Mine
<1>4. ASSUME NEW k \in Jobs
      PROVE  Applied(job'[k], k \in grouped', member'[k], account')
  <2>1. Applied(job[k], k \in grouped, member[k], account) /\ Eased(job[k], job'[k])
    BY <1>3 DEF SettledInv
  <2>2. CASE k \in grouped' <=> k \in grouped
    BY <2>1, <2>2 DEF Near, Applied, Eased
  <2>3. CASE ~(k \in grouped' <=> k \in grouped)
    BY <2>1, <2>3 DEF Near, Applied, Eased
  <2> QED
    BY <2>2, <2>3
<1>5. Guided(w)'
  BY <1>1, <1>2 DEF Guided
<1> QED
  BY <1>1, <1>2, <1>3, <1>4, <1>5 DEF Settling, Near

LEMMA QuitIsSettling ==
  ASSUME QueueInv, SettledInv, NEW w \in Workers, wk[w].on \in Jobs, Quit(w), Near(w),
         member' = member
  PROVE  Settling(w)
<1>1. Dropped(job, job', w) /\ Leave(w)
  BY AfterLossDrops DEF Quit, QueueInv
<1>2. \A k \in Jobs : Steady(job[k], job[k]) /\ Eased(job[k], job[k])
  BY DEF Steady, Eased
<1> QED
  BY <1>1, <1>2, LeftIsSettling

LEMMA FailIsSettling ==
  ASSUME QueueInv, SettledInv, NEW w \in Workers, wk[w].on \in Jobs, Fails(w), Near(w),
         member' = member
  PROVE  Settling(w)
<1>1. \E code \in Codes, retryable \in BOOLEAN, unsure \in BOOLEAN :
        Fail(w, code, retryable, unsure)
  BY DEF Fails, Refused, Lost, Codes
<1>2. PICK code \in Codes, retryable \in BOOLEAN, unsure \in BOOLEAN :
        Leave(w) /\ job' = AfterError(job, w, code, retryable, unsure)
  BY <1>1 DEF Fail
<1>3. Dropped(job, job', w)
  <2>1. \A c \in Codes : \A r, u \in BOOLEAN : Dropped(job, AfterError(job, w, c, r, u), w)
    BY AfterErrorDrops DEF QueueInv
  <2> DEFINE out == AfterError(job, w, code, retryable, unsure)
  <2>2. Dropped(job, out, w)
    BY <2>1, Zenon
  <2> HIDE DEF out
  <2> QED
    BY <1>2, <2>2 DEF out
<1>4. \A k \in Jobs : Steady(job[k], job[k]) /\ Eased(job[k], job[k])
  BY DEF Steady, Eased
<1> QED
  BY <1>2, <1>3, <1>4, LeftIsSettling

\* A failure for which nothing was written.
LEMMA FailsIsSettling ==
  ASSUME QueueInv, SettledInv, NEW w \in Workers, wk[w].on \in Jobs, NEW code \in Codes,
         NEW retryable \in BOOLEAN, Fail(w, code, retryable, FALSE), Near(w), member' = member
  PROVE  Settling(w)
<1>1. FALSE \in BOOLEAN
  OBVIOUS
<1>2. Fails(w)
  BY <1>1, FailIsFails
<1> QED
  BY <1>2, FailIsSettling

\* The worker goes on with the job it holds, and only its row changes.
LEMMA OnwardIsSettling ==
  ASSUME QueueInv, SettledInv, NEW w \in Workers, wk[w].on \in Jobs, Near(w),
         wk'[w].on = wk[w].on, \A v \in Workers \ {w} : wk'[v] = wk[v], Guided(w)',
         member' = member, job[wk[w].on].lease = w, job'[wk[w].on].lease = w,
         \A k \in Jobs \ {wk[w].on} : Steady(job[k], job'[k]) /\ Eased(job[k], job'[k]),
         Applied(job'[wk[w].on], wk[w].on \in grouped', member[wk[w].on], account')
  PROVE  Settling(w)
<1> DEFINE j == wk[w].on
<1>1. ASSUME NEW k \in Jobs
      PROVE  /\ Applied(job'[k], k \in grouped', member'[k], account')
             /\ Steady(job[k], job'[k]) \/ (job'[k].lease \in {w, None} /\ Mine(k, w))
             /\ Mine(k, w) \/ (k \in grouped' <=> k \in grouped)
  <2>1. CASE k = j
    BY <2>1 DEF Mine
  <2>2. CASE k # j
    <3>1. /\ Steady(job[k], job'[k]) /\ Eased(job[k], job'[k])
          /\ k \in grouped' <=> k \in grouped
          /\ Applied(job[k], k \in grouped, member[k], account)
      BY <2>2 DEF Near, SettledInv
    <3> QED
      BY <3>1 DEF Applied, Eased, Near
  <2> QED
    BY <2>1, <2>2
<1> QED
  BY <1>1 DEF Settling, Near

LEMMA CallIsSettling ==
  ASSUME QueueInv, SettledInv, NEW w \in Workers, wk[w].on \in Jobs,
         NEW place \in {"identityCall", "adding", "removing"}, Call(w, place), Near(w),
         member' = member, grouped' = grouped,
         place = "adding" => job[wk[w].on].state = "active",
         place = "removing" => job[wk[w].on].state = "disabled"
  PROVE  Settling(w)
<1> DEFINE j == wk[w].on
<1>1. CASE Quit(w)
  BY <1>1, QuitIsSettling
<1>2. CASE Current(job, w) /\ job' = Renewed(j) /\ Goto(w, place)
  <2>1. Holds(job, w) /\ job[j].lease = w /\ job[j] \in JobRow
    BY <1>2 DEF Current, Holds, QueueInv, Good
  <2>2. /\ job'[j].lease = w /\ job'[j] = [job[j] EXCEPT !.expired = FALSE]
        /\ \A k \in Jobs \ {j} : job'[k] = job[k]
    BY <1>2, <2>1, RenewedIsGood
  <2>3. job'[j].step = job[j].step /\ job'[j].state = job[j].state
    BY <2>1, <2>2 DEF JobRow
  <2>4. Applied(job'[j], j \in grouped', member[j], account')
    BY <2>3 DEF SettledInv, Applied, Near
  <2>5. \A k \in Jobs \ {j} : Steady(job[k], job'[k]) /\ Eased(job[k], job'[k])
    BY <2>2 DEF Steady, Eased
  <2>6. /\ wk'[w].at = place /\ wk'[w].on = wk[w].on
        /\ \A v \in Workers \ {w} : wk'[v] = wk[v]
    BY <1>2, GotoIs
  <2>7. Guided(w)'
    BY <2>3, <2>6 DEF Guided
  <2> QED
    BY <2>1, <2>2, <2>4, <2>5, <2>6, <2>7, OnwardIsSettling
<1> QED
  BY <1>1, <1>2 DEF Call

\* Completing under the lease takes a row past the group step, or with nobody to
\* add or to take out.
LEMMA CompleteIsSettling ==
  ASSUME QueueInv, SettledInv, NEW w \in Workers, wk[w].on \in Jobs, Complete(w, job), Near(w),
         Current(job, w) => (wk[w].on \in grouped' <=> job[wk[w].on].state = "active"),
         wk[w].on \in grouped' => account' # "none"
  PROVE  Settling(w)
<1> DEFINE j == wk[w].on
           ended == [job[j] EXCEPT !.step = "complete", !.status = "succeeded", !.error = "none"]
<1>1. CASE job' = AfterLoss(job, w) /\ UNCHANGED member
  BY <1>1, QuitIsSettling DEF Complete, Quit
<1>2. CASE job' = AfterError(job, w, "other", FALSE, FALSE) /\ UNCHANGED member
  <2>1. Fail(w, "other", FALSE, FALSE)
    BY <1>2 DEF Fail, Complete
  <2>2. "other" \in Codes /\ FALSE \in BOOLEAN
    BY DEF Codes
  <2> QED
    BY <1>2, <2>1, <2>2, FailsIsSettling
<1>3. CASE /\ Current(job, w) /\ Completable(job, j)
           /\ member' = [member EXCEPT ![j].status = IF @ = "invited" THEN "active" ELSE @]
           /\ job' = [job EXCEPT ![j] = Unleased([@ EXCEPT
                !.step = "complete", !.status = "succeeded", !.error = "none"])]
  <2>1. /\ job[j] \in JobRow /\ job[j].lease = w /\ member[j] \in MemberRow
        /\ member[j].status # "none"
        /\ job[j].state = IF member[j].status = "disabled" THEN "disabled" ELSE "active"
        /\ j \in grouped' <=> job[j].state = "active"
    BY <1>3, RowOf, HeldIsRunning DEF Current, QueueInv, Holds, Completable, StateOf
  <2>2. /\ ended \in JobRow /\ ended.step = "complete" /\ ended.state = job[j].state
    BY <2>1 DEF JobRow, JobStatus
  <2>3. job' = [job EXCEPT ![j] = Unleased(ended)]
    BY <1>3
  <2> HIDE DEF ended
  <2>4. /\ job'[j].step = "complete" /\ job'[j].state = job[j].state /\ job'[j].lease = None
        /\ \A k \in Jobs \ {j} : job'[k] = job[k] /\ member'[k] = member[k]
    BY <1>3, <2>2, <2>3, UnleasedIs DEF QueueInv, Good, Kinds
  <2>5. member'[j].status = IF member[j].status = "invited" THEN "active" ELSE member[j].status
    BY <1>3, <2>1 DEF QueueInv, Kinds, MemberRow
  <2>6. member[j].status \in {"invited", "active", "disabled"}
    BY <2>1 DEF MemberRow, MemberStatus
  <2>7. Applied(job'[j], j \in grouped', member'[j], account')
    BY <2>1, <2>4, <2>5, <2>6 DEF Applied
  <2>8. ASSUME NEW k \in Jobs
        PROVE  /\ Applied(job'[k], k \in grouped', member'[k], account')
               /\ Steady(job[k], job'[k]) \/ (job'[k].lease \in {w, None} /\ Mine(k, w))
               /\ Mine(k, w) \/ (k \in grouped' <=> k \in grouped)
    <3>1. CASE k = j
      BY <2>1, <2>4, <2>7, <3>1 DEF Mine
    <3>2. CASE k # j
      <4>1. /\ job'[k] = job[k] /\ member'[k] = member[k]
            /\ k \in grouped' <=> k \in grouped
            /\ Applied(job[k], k \in grouped, member[k], account)
        BY <2>4, <3>2 DEF Near, SettledInv
      <4> QED
        BY <4>1 DEF Applied, Steady, Near
    <3> QED
      BY <3>1, <3>2
  <2>9. /\ wk'[w].at = "idle" /\ wk'[w].on = None /\ \A v \in Workers \ {w} : wk'[v] = wk[v]
    BY DEF Complete, Leave, Idle, QueueInv, Kinds
  <2>10. Guided(w)'
    BY <2>9 DEF Guided
  <2> QED
    BY <2>8, <2>9, <2>10 DEF Settling, Near
<1> QED
  BY <1>1, <1>2, <1>3 DEF Complete

-----------------------------------------------------------------------------
(***************************************************************************)
(* The steps of the worker, as to the group.                               *)
(***************************************************************************)

\* A verified login leaves rows that are held at their step.
LEMMA SatisfiedIsSteady ==
  ASSUME QueueInv, MailInv, NEW k \in Jobs
  PROVE  Steady(job[k], Satisfied(job)[k]) /\ Eased(job[k], Satisfied(job)[k])
<1>1. /\ Satisfied(job)[k].state = job[k].state
      /\ job[k].lease # None => Satisfied(job)[k].step = job[k].step
      /\ Satisfied(job)[k].step \in {"identity", job[k].step}
  BY SatisfiedMail
<1>2. Satisfied(job)[k].lease = job[k].lease /\ Satisfied(job)[k].expired = job[k].expired
  BY SatisfiedIsGood DEF QueueInv
<1> QED
  BY <1>1, <1>2 DEF Steady, Eased

LEMMA BeginIsSettling ==
  ASSUME QueueInv, MailInv, SettledInv, NEW w \in Workers, Begin(w)
  PROVE  Settling(w)
<1> DEFINE j == wk[w].on
           place == IF job[j].step = "enrollment" THEN "enroll" ELSE job[j].step
<1>1. j \in Jobs /\ Near(w) /\ member' = member
  BY BusyHasJob DEF Begin, Near
<1>2. CASE Quit(w)
  BY <1>1, <1>2, QuitIsSettling
<1>3. CASE Fail(w, "other", FALSE, FALSE)
  <2>1. "other" \in Codes /\ FALSE \in BOOLEAN
    BY DEF Codes
  <2> QED
    BY <1>1, <1>3, <2>1, FailsIsSettling
<1>4. CASE Holds(job, w) /\ Goto(w, place) /\ UNCHANGED job
  <2>1. job[j].step # "complete" /\ job[j] \in JobRow /\ job[j].lease = w
    BY <1>1, <1>4, HeldIsRunning, HeldMail DEF QueueInv
  <2>2. place \in {"identity", "groups", "enroll"}
    BY <2>1 DEF JobRow
  <2> HIDE DEF place
  <2>3. /\ wk'[w].at = place /\ wk'[w].on = wk[w].on
        /\ \A v \in Workers \ {w} : wk'[v] = wk[v]
    BY <1>4, GotoIs
  <2>4. Guided(w)'
    BY <2>2, <2>3 DEF Guided
  <2>5. Applied(job'[j], j \in grouped', member[j], account')
    BY <1>1, <1>4 DEF SettledInv, Begin
  <2>6. \A k \in Jobs : Steady(job[k], job'[k]) /\ Eased(job[k], job'[k])
    BY <1>4 DEF Steady, Eased
  <2> QED
    BY <1>1, <1>4, <2>1, <2>3, <2>4, <2>5, <2>6, OnwardIsSettling
<1> QED
  BY <1>2, <1>3, <1>4 DEF Begin

LEMMA IdentityCallIsSettling ==
  ASSUME QueueInv, MailInv, SettledInv, NEW w \in Workers, IdentityCall(w)
  PROVE  Settling(w)
<1>1. wk[w].on \in Jobs /\ Near(w) /\ member' = member /\ grouped' = grouped
  BY BusyHasJob DEF IdentityCall, Near
<1> QED
  BY <1>1, CallIsSettling DEF IdentityCall

LEMMA RecordIdentityIsSettling ==
  ASSUME QueueInv, MailInv, SettledInv, NEW w \in Workers, wk[w].on \in Jobs, Holds(job, w),
         NEW acct \in {"ours", "foreign"}, RecordIdentity(w, acct), account' = acct,
         member' = member, UNCHANGED <<grouped, flying>>
  PROVE  Settling(w)
<1> DEFINE j == wk[w].on
           js == IF user.login THEN Satisfied(job) ELSE job
           need == IF user.login THEN "no"
                   ELSE IF job[j].state = "active" /\ (user.managed \/ acct = "ours")
                             /\ ~user.login /\ user.sent THEN "yes"
                   ELSE IF js[j].required # "unknown" THEN js[j].required
                   ELSE IF job[j].state = "active" /\ (user.managed \/ acct = "ours")
                             /\ ~user.login THEN "yes" ELSE "no"
           has == ~user.login /\ (js[j].sent \/ (job[j].state = "active"
                    /\ (user.managed \/ acct = "ours") /\ ~user.login /\ user.sent))
           row == [js[j] EXCEPT !.step = "groups", !.required = need, !.sent = has]
<1>1. /\ job[j].lease = w /\ Near(w)
  BY DEF Holds, Near
<1>2. Good(js, member) /\ \A k \in Jobs : Steady(job[k], js[k]) /\ Eased(job[k], js[k])
  <2>1. Good(Satisfied(job), member)
    BY SatisfiedIsGood DEF QueueInv
  <2>2. \A k \in Jobs : Steady(job[k], job[k]) /\ Eased(job[k], job[k])
    BY DEF Steady, Eased
  <2>3. Good(job, member)
    BY DEF QueueInv
  <2> QED
    BY <2>1, <2>2, <2>3, SatisfiedIsSteady
<1>3. job' = [js EXCEPT ![j] = row]
  BY DEF RecordIdentity
<1> HIDE DEF js, need, has
<1>4. /\ row.step = "groups" /\ row.lease = js[j].lease
  BY <1>2 DEF Good, JobRow
<1> HIDE DEF row
<1>5. job'[j] = row /\ \A k \in Jobs \ {j} : job'[k] = js[k]
  BY <1>2, <1>3 DEF Good
<1>6. job'[j].lease = w
  BY <1>1, <1>2, <1>4, <1>5 DEF Steady
<1>7. Applied(job'[j], j \in grouped', member[j], account')
  BY <1>4, <1>5 DEF Applied
<1>8. /\ wk'[w].at = "groups" /\ wk'[w].on = j /\ \A v \in Workers \ {w} : wk'[v] = wk[v]
  BY GotoIs DEF RecordIdentity
<1>9. Guided(w)'
  BY <1>8 DEF Guided
<1> QED
  BY <1>1, <1>2, <1>5, <1>6, <1>7, <1>8, <1>9, OnwardIsSettling

LEMMA IdentityAnswerIsSettling ==
  ASSUME QueueInv, MailInv, SettledInv, NEW w \in Workers, IdentityAnswer(w)
  PROVE  Settling(w)
<1> DEFINE j == wk[w].on
           acct == IF account = "none" /\ job[j].state = "active" THEN "ours" ELSE account
<1>1. /\ j \in Jobs /\ account' \in {account, acct} /\ UNCHANGED <<grouped, flying>>
  BY BusyHasJob DEF IdentityAnswer
<1>2. /\ account \in {"none", "ours", "foreign"} /\ (account # "none" => acct # "none")
      /\ acct \in {"none", "ours", "foreign"}
  BY DEF QueueInv, Kinds
<1>3. Near(w)
  BY <1>1, <1>2 DEF Near
<1>4. CASE Quit(w) /\ UNCHANGED member
  BY <1>1, <1>3, <1>4, QuitIsSettling
<1>5. CASE account' = acct /\ acct = "none" /\ Complete(w, job)
  <2>1. job[j].state = "disabled" /\ account = "none"
    BY <1>1, <1>2, <1>5, RowOf DEF JobRow
  <2>2. j \notin grouped'
    BY <1>1, <2>1 DEF SettledInv, Applied
  <2> QED
    BY <1>1, <1>3, <1>5, <2>1, <2>2, CompleteIsSettling
<1>6. CASE Current(job, w) /\ acct # "none" /\ account' = acct /\ RecordIdentity(w, acct)
           /\ UNCHANGED member
  <2>1. acct \in {"ours", "foreign"} /\ Holds(job, w)
    BY <1>2, <1>6 DEF Current
  <2> QED
    BY <1>1, <1>6, <2>1, RecordIdentityIsSettling
<1>7. CASE (Refused(w) \/ Lost(w)) /\ UNCHANGED member
  BY <1>1, <1>3, <1>7, FailIsSettling DEF Fails
<1> QED
  BY <1>4, <1>5, <1>6, <1>7 DEF IdentityAnswer

LEMMA ReadAccountIsSettling ==
  ASSUME QueueInv, MailInv, SettledInv, NEW w \in Workers, ReadAccount(w)
  PROVE  Settling(w)
<1> DEFINE j == wk[w].on
<1>1. j \in Jobs /\ Near(w) /\ member' = member /\ grouped' = grouped /\ account' = account
  BY BusyHasJob DEF ReadAccount, Near
<1>2. CASE Quit(w)
  BY <1>1, <1>2, QuitIsSettling
<1>3. CASE Refused(w) \/ Lost(w)
  BY <1>1, <1>3, FailIsSettling DEF Fails
<1>4. CASE /\ Current(job, w) /\ job' = Renewed(j)
           /\ wk' = [wk EXCEPT ![w] = [@ EXCEPT
                !.at = "change", !.seen = j \in grouped,
                !.wants = job[j].required = "yes" /\ ~job[j].sent]]
  <2>1. /\ Holds(job, w) /\ job[j].lease = w /\ job[j] \in JobRow
    BY <1>1, <1>4, HeldMail DEF Current
  <2>2. /\ job'[j].lease = w /\ job'[j] = [job[j] EXCEPT !.expired = FALSE]
        /\ \A k \in Jobs \ {j} : job'[k] = job[k]
    BY <1>1, <1>4, <2>1, RenewedIsGood
  <2>3. /\ job'[j].step = job[j].step /\ job'[j].state = job[j].state
    BY <2>1, <2>2 DEF JobRow
  <2>4. Applied(job'[j], j \in grouped', member[j], account')
    BY <1>1, <2>3 DEF SettledInv, Applied
  <2>5. /\ wk'[w].at = "change" /\ wk'[w].on = j /\ (wk'[w].seen <=> j \in grouped)
        /\ \A v \in Workers \ {w} : wk'[v] = wk[v]
    BY <1>4 DEF QueueInv, Kinds, WorkerRow
  <2>6. Guided(w)'
    BY <1>1, <2>5 DEF Guided
  <2>7. \A k \in Jobs \ {j} : Steady(job[k], job'[k]) /\ Eased(job[k], job'[k])
    BY <2>2 DEF Steady, Eased
  <2> QED
    BY <1>1, <2>1, <2>2, <2>4, <2>5, <2>6, <2>7, OnwardIsSettling
<1> QED
  BY <1>2, <1>3, <1>4 DEF ReadAccount

\* The step ends with the group as the row asks.
LEMMA EndGroupsIsSettling ==
  ASSUME QueueInv, MailInv, SettledInv, NEW w \in Workers, wk[w].on \in Jobs,
         wk[w].at \in AtGroups, EndGroups(w), Near(w), account' = account,
         Holds(job, w) => (wk[w].on \in grouped' <=> job[wk[w].on].state = "active")
  PROVE  Settling(w)
<1> DEFINE j == wk[w].on
           row == [job[j] EXCEPT !.step = "enrollment"]
<1>1. Holds(job, w) => job[j].lease = w /\ job[j].step = "groups" /\ job[j] \in JobRow
  BY HeldMail
<1>2. Applied(job[j], j \in grouped, member[j], account)
  BY DEF SettledInv
<1>3. j \in grouped' => account # "none"
  BY <1>2 DEF Near, Applied
<1>4. CASE Quit(w) /\ UNCHANGED member
  BY <1>4, QuitIsSettling
<1>5. CASE Complete(w, job)
  BY <1>3, <1>5, CompleteIsSettling DEF Current
<1>6. CASE /\ Current(job, w) /\ job[j].state = "active"
           /\ job' = [job EXCEPT ![j].step = "enrollment"] /\ Goto(w, "enroll")
           /\ UNCHANGED member
  <2>1. job[j].lease = w /\ job[j] \in JobRow /\ j \in grouped'
    BY <1>1, <1>6 DEF Current
  <2>2. /\ row.step = "enrollment" /\ row.state = job[j].state /\ row.lease = w
    BY <2>1 DEF JobRow
  <2>3. job' = [job EXCEPT ![j] = row]
    BY <1>6
  <2> HIDE DEF row
  <2>4. /\ job'[j] = row /\ \A k \in Jobs \ {j} : job'[k] = job[k]
    BY <2>3 DEF QueueInv, Good
  <2>5. Applied(job'[j], j \in grouped', member[j], account')
    BY <1>3, <1>6, <2>1, <2>2, <2>4 DEF Applied
  <2>6. \A k \in Jobs \ {j} : Steady(job[k], job'[k]) /\ Eased(job[k], job'[k])
    BY <2>4 DEF Steady, Eased
  <2>7. /\ wk'[w].at = "enroll" /\ wk'[w].on = wk[w].on
        /\ \A v \in Workers \ {w} : wk'[v] = wk[v]
    BY <1>6, GotoIs
  <2>8. Guided(w)'
    BY <2>7 DEF Guided
  <2> QED
    BY <1>6, <2>1, <2>2, <2>4, <2>5, <2>6, <2>7, <2>8, OnwardIsSettling
<1> QED
  BY <1>4, <1>5, <1>6 DEF EndGroups

LEMMA ChangeGroupIsSettling ==
  ASSUME QueueInv, MailInv, SettledInv, NEW w \in Workers, ChangeGroup(w)
  PROVE  Settling(w)
<1> DEFINE j == wk[w].on
           active == job[j].state = "active"
<1>1. /\ j \in Jobs /\ Near(w) /\ wk[w].at \in AtGroups /\ wk[w].at = "change"
      /\ UNCHANGED <<account, grouped>> /\ job[j].state \in {"active", "disabled"}
  BY BusyHasJob, RowOf DEF ChangeGroup, Near, AtGroups, JobRow
<1>2. CASE wk[w].seen = active /\ EndGroups(w)
  <2>1. Holds(job, w) => (j \in grouped' <=> active)
    BY <1>1, <1>2 DEF SettledInv, Guided, Holds
  <2> QED
    BY <1>1, <1>2, <2>1, EndGroupsIsSettling
<1>3. CASE Call(w, IF active THEN "adding" ELSE "removing") /\ UNCHANGED member
  <2>1. CASE active
    BY <1>1, <1>3, <2>1, CallIsSettling
  <2>2. CASE ~active
    BY <1>1, <1>3, <2>2, CallIsSettling
  <2> QED
    BY <2>1, <2>2
<1> QED
  BY <1>2, <1>3 DEF ChangeGroup

LEMMA GroupAnswerIsSettling ==
  ASSUME QueueInv, MailInv, SettledInv, ~Lossy, NEW w \in Workers, GroupAnswer(w)
  PROVE  Settling(w)
<1> DEFINE j == wk[w].on
<1>1. /\ j \in Jobs /\ wk[w].at \in {"adding", "removing"} /\ wk[w].at \in AtGroups
      /\ wk[w].at \in InCall /\ account' = account
  BY BusyHasJob DEF GroupAnswer, AtGroups, InCall
<1>2. job[j].lease = w /\ job[j].step = "groups" /\ Guided(w)
  BY <1>1 DEF QueueInv, CallsAreLeased, MailInv, InPlace, SettledInv
<1>3. CASE grouped' = Effect(j, wk[w].at) /\ EndGroups(w) /\ UNCHANGED flying
  <2>1. Near(w)
    BY <1>1, <1>2, <1>3 DEF Near, Effect
  <2>2. j \in grouped' <=> job[j].state = "active"
    BY <1>1, <1>2, <1>3 DEF Guided, Effect
  <2> QED
    BY <1>1, <1>3, <2>1, <2>2, EndGroupsIsSettling
<1>4. CASE Refused(w) /\ UNCHANGED <<member, grouped, flying>>
  <2>1. Near(w) /\ Fails(w)
    BY <1>1, <1>4 DEF Near, Fails
  <2> QED
    BY <1>1, <1>4, <2>1, FailIsSettling
<1> QED
  BY <1>3, <1>4 DEF GroupAnswer, Lost

\* The worker goes on to a place of no account for the group.
LEMMA PassIsSettling ==
  ASSUME QueueInv, SettledInv, NEW w \in Workers, wk[w].on \in Jobs, Near(w),
         member' = member, grouped' = grouped,
         NEW place, place \notin {"change", "adding", "removing"}, Goto(w, place),
         \A k \in Jobs : Steady(job[k], job'[k]) /\ Eased(job[k], job'[k])
  PROVE  Settling(w)
<1>1. /\ wk'[w].at = place /\ wk'[w].on = wk[w].on
      /\ \A v \in Workers \ {w} : wk'[v] = wk[v]
  BY GotoIs
<1>2. Guided(w)'
  BY <1>1 DEF Guided
<1>3. \A k \in Jobs : Applied(job'[k], k \in grouped', member'[k], account')
  BY DEF SettledInv, Near, Applied, Eased
<1> QED
  BY <1>1, <1>2, <1>3 DEF Settling, Near

LEMMA EnrollIsSettling ==
  ASSUME QueueInv, MailInv, SettledInv, NEW w \in Workers, Enroll(w)
  PROVE  Settling(w)
<1> DEFINE j == wk[w].on
<1>1. j \in Jobs /\ Near(w) /\ member' = member /\ grouped' = grouped
  BY BusyHasJob DEF Enroll, Near
<1>2. {"delivery_unknown", "pending"} \subseteq Codes
  BY DEF Codes
<1>3. CASE Quit(w)
  BY <1>1, <1>3, QuitIsSettling
<1>4. CASE \/ Fail(w, "delivery_unknown", FALSE, FALSE)
           \/ Fail(w, "pending", TRUE, FALSE)
  BY <1>1, <1>2, <1>4, FailsIsSettling
<1>5. CASE job' = job /\ (Goto(w, "finish") \/ Goto(w, "dispatch"))
  <2>1. \A k \in Jobs : Steady(job[k], job'[k]) /\ Eased(job[k], job'[k])
    BY <1>5 DEF Steady, Eased
  <2> QED
    BY <1>1, <1>5, <2>1, PassIsSettling
<1>6. CASE job' = Satisfied(job) /\ Goto(w, "quit")
  <2>1. \A k \in Jobs : Steady(job[k], job'[k]) /\ Eased(job[k], job'[k])
    BY <1>6, SatisfiedIsSteady
  <2> QED
    BY <1>1, <1>6, <2>1, PassIsSettling
<1>7. CASE job' = [job EXCEPT ![j].sent = TRUE] /\ Goto(w, "finish")
  <2>1. job[j] \in JobRow
    BY <1>1, RowOf
  <2>2. \A k \in Jobs : /\ job'[k].lease = job[k].lease /\ job'[k].expired = job[k].expired
                        /\ job'[k].step = job[k].step /\ job'[k].state = job[k].state
    BY <1>1, <1>7, <2>1 DEF JobRow, QueueInv, Good
  <2>3. \A k \in Jobs : Steady(job[k], job'[k]) /\ Eased(job[k], job'[k])
    BY <2>2 DEF Steady, Eased
  <2> QED
    BY <1>1, <1>7, <2>3, PassIsSettling
<1>8. ASSUME ClaimEnrollment(w)
      PROVE  \/ job' = Satisfied(job) /\ Goto(w, "quit")
             \/ Fail(w, "delivery_unknown", FALSE, FALSE)
             \/ Fail(w, "pending", TRUE, FALSE)
             \/ job' = [job EXCEPT ![j].sent = TRUE] /\ Goto(w, "finish")
             \/ job' = job /\ Goto(w, "dispatch")
  BY <1>8, Zenon DEF ClaimEnrollment
<1> QED
  BY <1>3, <1>4, <1>5, <1>6, <1>7, <1>8 DEF Enroll

LEMMA SignedInIsSettling ==
  ASSUME QueueInv, MailInv, SettledInv, NEW w \in Workers, SignedIn(w)
  PROVE  Settling(w)
<1>1. wk[w].on \in Jobs /\ Near(w) /\ member' = member
  BY BusyHasJob DEF SignedIn, Near
<1> QED
  BY <1>1, QuitIsSettling DEF SignedIn

LEMMA DispatchIsSettling ==
  ASSUME QueueInv, MailInv, SettledInv, NEW w \in Workers, Dispatch(w)
  PROVE  Settling(w)
<1> DEFINE j == wk[w].on
<1>1. j \in Jobs /\ Near(w) /\ member' = member /\ grouped' = grouped
  BY BusyHasJob DEF Dispatch, Near
<1>2. CASE Quit(w)
  BY <1>1, <1>2, QuitIsSettling
<1>3. CASE /\ Current(job, w)
           /\ job' = [Renewed(j) EXCEPT ![j].dispatch = TRUE] /\ Goto(w, "mail")
  <2>1. Holds(job, w) /\ job[j] \in JobRow
    BY <1>1, <1>3, RowOf DEF Current
  <2>2. /\ Renewed(j)[j] = [job[j] EXCEPT !.expired = FALSE]
        /\ \A k \in Jobs \ {j} : Renewed(j)[k] = job[k]
        /\ Good(Renewed(j), member)
    BY <1>1, <2>1, RenewedIsGood
  <2>3. /\ job'[j] = [job[j] EXCEPT !.expired = FALSE, !.dispatch = TRUE]
        /\ \A k \in Jobs \ {j} : job'[k] = job[k]
    BY <1>1, <1>3, <2>2 DEF Good
  <2>4. \A k \in Jobs : /\ job'[k].lease = job[k].lease /\ (job'[k].expired => job[k].expired)
                        /\ job'[k].step = job[k].step /\ job'[k].state = job[k].state
    <3>1. /\ job'[j].lease = job[j].lease /\ ~job'[j].expired
          /\ job'[j].step = job[j].step /\ job'[j].state = job[j].state
      BY <2>1, <2>3 DEF JobRow
    <3> QED
      BY <2>3, <3>1
  <2>5. \A k \in Jobs : Steady(job[k], job'[k]) /\ Eased(job[k], job'[k])
    BY <2>4 DEF Steady, Eased
  <2> QED
    BY <1>1, <1>3, <2>5, PassIsSettling
<1> QED
  BY <1>2, <1>3 DEF Dispatch

LEMMA EmailAnswerIsSettling ==
  ASSUME QueueInv, MailInv, SettledInv, NEW w \in Workers, EmailAnswer(w)
  PROVE  Settling(w)
<1> DEFINE j == wk[w].on
           released == [job EXCEPT ![j].dispatch = FALSE]
<1>1. j \in Jobs /\ Near(w) /\ member' = member /\ grouped' = grouped
  BY BusyHasJob DEF EmailAnswer, Near
<1>2. CASE Goto(w, "mailed") /\ job' = job
  <2>1. \A k \in Jobs : Steady(job[k], job'[k]) /\ Eased(job[k], job'[k])
    BY <1>2 DEF Steady, Eased
  <2> QED
    BY <1>1, <1>2, <2>1, PassIsSettling
<1>3. CASE Fail(w, "delivery_unknown", FALSE, FALSE)
  <2>1. "delivery_unknown" \in Codes /\ FALSE \in BOOLEAN
    BY DEF Codes
  <2> QED
    BY <1>1, <1>3, <2>1, FailsIsSettling
<1>4. CASE Quit(w)
  BY <1>1, <1>4, QuitIsSettling
<1>5. CASE /\ Holds(job, w)
           /\ \E retryable \in BOOLEAN :
                job' = AfterError(released, w, "other", retryable, FALSE)
           /\ Leave(w)
  <2> DEFINE row == [job[j] EXCEPT !.dispatch = FALSE]
  <2>1. /\ Sane(job[j]) /\ job[j] \in JobRow /\ job[j].step # "complete" /\ Good(job, member)
    BY <1>1, <1>5, RowOf, HeldIsRunning DEF QueueInv
  <2>2. /\ row \in JobRow /\ (row.sent => row.required = "yes")
        /\ row.status = job[j].status /\ row.wait = job[j].wait /\ row.lease = job[j].lease
        /\ row.attempts = job[j].attempts /\ row.role = job[j].role
        /\ row.state = job[j].state /\ row.reconcile = job[j].reconcile
        /\ row.expired = job[j].expired /\ row.step = job[j].step /\ row.step # "complete"
    BY <2>1 DEF JobRow, Sane
  <2>3. released = [job EXCEPT ![j] = row]
    OBVIOUS
  <2> HIDE DEF row, released
  <2>4. /\ Good(released, member) /\ released[j] = row
        /\ \A k \in Jobs \ {j} : released[k] = job[k]
    <3>1. /\ Good([job EXCEPT ![j] = row], member)
          /\ [job EXCEPT ![j] = row][j] = row
          /\ \A k \in Jobs \ {j} : [job EXCEPT ![j] = row][k] = job[k]
      BY <1>1, <1>5, <2>1, <2>2, WrittenIsGood
    <3> QED
      BY <2>3, <3>1
  <2>5. Dropped(released, job', w)
    <3>1. PICK retryable \in BOOLEAN :
            job' = AfterError(released, w, "other", retryable, FALSE)
      BY <1>5
    <3>2. "other" \in Codes /\ FALSE \in BOOLEAN
      BY DEF Codes
    <3>3. \A c \in Codes : \A r, u \in BOOLEAN :
            Dropped(released, AfterError(released, w, c, r, u), w)
      BY <1>1, <2>4, AfterErrorDrops DEF QueueInv
    <3> DEFINE out == AfterError(released, w, "other", retryable, FALSE)
    <3>4. Dropped(released, out, w)
      BY <3>2, <3>3, Zenon
    <3> HIDE DEF out
    <3> QED
      BY <3>1, <3>4 DEF out
  <2>6. \A k \in Jobs : /\ released[k].lease = job[k].lease /\ Eased(job[k], released[k])
                        /\ Steady(job[k], released[k])
    BY <2>2, <2>4 DEF Eased, Steady
  <2> QED
    BY <1>1, <1>5, <2>5, <2>6, LeftIsSettling
<1> QED
  BY <1>2, <1>3, <1>4, <1>5 DEF EmailAnswer

LEMMA RecordSentIsSettling ==
  ASSUME QueueInv, MailInv, SettledInv, NEW w \in Workers, RecordSent(w)
  PROVE  Settling(w)
<1> DEFINE j == wk[w].on
           recorded == Recorded(j)
<1>1. j \in Jobs /\ Near(w) /\ member' = member /\ grouped' = grouped /\ wk[w].at = "mailed"
  BY BusyHasJob DEF RecordSent, Near
<1>2. "delivery_unknown" \in Codes /\ FALSE \in BOOLEAN
  BY DEF Codes
<1>3. CASE Quit(w)
  BY <1>1, <1>3, QuitIsSettling
<1>4. CASE Fail(w, "delivery_unknown", FALSE, FALSE)
  BY <1>1, <1>2, <1>4, FailsIsSettling
<1>5. CASE /\ Holds(job, w) /\ user.owner = j
           /\ \/ job' = recorded /\ Goto(w, "finish")
              \/ /\ job' = AfterError(recorded, w, "delivery_unknown", FALSE, FALSE)
                 /\ Leave(w)
  <2>1. job[j].required = "yes"
    BY <1>1, <1>5 DEF QueueInv, EmailOwed, Mailing, Holds
  <2>2. /\ Good(recorded, member)
        /\ \A k \in Jobs :
             /\ recorded[k].lease = job[k].lease /\ recorded[k].expired = job[k].expired
             /\ recorded[k].step = job[k].step /\ recorded[k].state = job[k].state
    BY <1>1, <2>1, RecordedIs
  <2> HIDE DEF recorded
  <2>3. \A k \in Jobs : /\ recorded[k].lease = job[k].lease /\ Eased(job[k], recorded[k])
                        /\ Steady(job[k], recorded[k])
    BY <2>2 DEF Eased, Steady
  <2>4. CASE job' = recorded /\ Goto(w, "finish")
    BY <1>1, <2>3, <2>4, PassIsSettling
  <2>5. CASE job' = AfterError(recorded, w, "delivery_unknown", FALSE, FALSE) /\ Leave(w)
    <3>1. \A c \in Codes : \A r, u \in BOOLEAN :
            Dropped(recorded, AfterError(recorded, w, c, r, u), w)
      BY <1>1, <2>2, AfterErrorDrops DEF QueueInv
    <3> DEFINE out == AfterError(recorded, w, "delivery_unknown", FALSE, FALSE)
    <3>2. Dropped(recorded, out, w)
      BY <1>2, <3>1, Zenon
    <3> HIDE DEF out
    <3>3. Dropped(recorded, job', w)
      BY <2>5, <3>2 DEF out
    <3> QED
      BY <1>1, <2>3, <2>5, <3>3, LeftIsSettling
  <2> QED
    BY <1>5, <2>4, <2>5
<1> QED
  BY <1>3, <1>4, <1>5 DEF RecordSent, Recorded

LEMMA FinishIsSettling ==
  ASSUME QueueInv, MailInv, SettledInv, NEW w \in Workers, Finish(w)
  PROVE  Settling(w)
<1> DEFINE j == wk[w].on
<1>1. /\ j \in Jobs /\ Near(w) /\ wk[w].at \in AtEmail /\ UNCHANGED <<grouped, account>>
  BY BusyHasJob DEF Finish, Near, AtEmail
<1>2. Current(job, w) => job[j].step = "enrollment"
  BY <1>1, HeldMail DEF Current
<1>3. Applied(job[j], j \in grouped, member[j], account)
  BY <1>1 DEF SettledInv
<1> QED
  BY <1>1, <1>2, <1>3, CompleteIsSettling DEF Finish, Applied

LEMMA WorkerStepIsSettling ==
  ASSUME QueueInv, MailInv, SettledInv, ~Lossy, NEW w \in Workers, WorkerStep(w)
  PROVE  Settling(w)
BY BeginIsSettling, IdentityCallIsSettling, IdentityAnswerIsSettling, ReadAccountIsSettling,
   ChangeGroupIsSettling, GroupAnswerIsSettling, EnrollIsSettling, SignedInIsSettling,
   DispatchIsSettling, EmailAnswerIsSettling, RecordSentIsSettling, FinishIsSettling
   DEF WorkerStep

\* Whoever claims a job takes one that nobody holds, or whose lease ran out.
LEMMA ClaimIsSettling ==
  ASSUME QueueInv, SettledInv, NEW w \in Workers, NEW j \in Jobs, Claim(w, j)
  PROVE  Settling(w)
<1> DEFINE tries == IF Swept[j].attempts < MaxAttempts
                    THEN Swept[j].attempts + 1 ELSE Swept[j].attempts
           out(k) == [job[k] EXCEPT !.status = "retry_wait", !.wait = "due", !.error = "other"]
           row == [Swept[j] EXCEPT !.status = "running", !.wait = "none", !.lease = w,
                                   !.attempts = tries]
<1>1. /\ Good(Swept, member) /\ Sane(Swept[j]) /\ Swept[j] \in JobRow
      /\ \A k \in Jobs : Swept[k] = job[k] \/ (job[k].expired /\ Swept[k].lease = None)
  BY SweptIsGood DEF Good
<1>2. \A k \in Jobs : Swept[k].step = job[k].step /\ Swept[k].state = job[k].state
  <2> TAKE k \in Jobs
  <2>1. job[k] \in JobRow
    BY RowOf
  <2>2. out(k) \in JobRow /\ out(k).step = job[k].step /\ out(k).state = job[k].state
    BY <2>1 DEF JobRow, JobStatus
  <2>3. Swept[k] \in {job[k], Unleased(out(k))}
    BY DEF Swept
  <2> HIDE DEF out
  <2> QED
    BY <2>2, <2>3, UnleasedIs
<1>3. /\ job' = [Swept EXCEPT ![j] = row] /\ UNCHANGED <<member, account, grouped, flying>>
      /\ wk' = [wk EXCEPT ![w] = [Idle EXCEPT !.at = "claimed", !.on = j]]
  BY DEF Claim
<1>4. job[j].lease = None \/ job[j].expired
  <2>1. Swept[j].lease = None
    BY <1>1 DEF Claim, Sane
  <2> QED
    BY <1>1, <2>1
<1>5. row.lease = w /\ row.step = Swept[j].step /\ row.state = Swept[j].state
  BY <1>1 DEF JobRow
<1> HIDE DEF row
<1>6. job'[j] = row /\ \A k \in Jobs \ {j} : job'[k] = Swept[k]
  BY <1>1, <1>3 DEF Good
<1>7. ASSUME NEW k \in Jobs
      PROVE  /\ Applied(job'[k], k \in grouped', member'[k], account')
             /\ \/ Steady(job[k], job'[k])
                \/ job'[k].lease \in {w, None} /\ (job[k].lease = None \/ job[k].expired)
  <2>1. job'[k].step = job[k].step /\ job'[k].state = job[k].state
    BY <1>2, <1>5, <1>6
  <2>2. Applied(job[k], k \in grouped, member[k], account)
    BY DEF SettledInv
  <2>3. Applied(job'[k], k \in grouped', member'[k], account')
    BY <1>3, <2>1, <2>2 DEF Applied
  <2>4. \/ job'[k] = job[k]
        \/ job'[k].lease \in {w, None} /\ (job[k].lease = None \/ job[k].expired)
    BY <1>1, <1>4, <1>5, <1>6
  <2> QED
    BY <2>3, <2>4 DEF Steady
<1>8. /\ wk'[w].at = "claimed" /\ wk'[w].on = j /\ \A v \in Workers \ {w} : wk'[v] = wk[v]
  BY <1>3 DEF Idle, QueueInv, Kinds
<1>9. Guided(w)'
  BY <1>8 DEF Guided
<1> QED
  BY <1>3, <1>4, <1>7, <1>8, <1>9 DEF Settling

\* A replica that dies in a call leaves a change that may yet take effect.
LEMMA CrashKeepsSettled ==
  ASSUME QueueInv, MailInv, SettledInv, NEW w \in Workers, Crash(w)
  PROVE  SettledInv'
<1>0. PICK j : j = wk[w].on
  OBVIOUS
<1>1. /\ UNCHANGED <<member, job, account, grouped>> /\ None \notin Jobs \cup Workers
      /\ wk'[w].at = "idle" /\ wk'[w].on = None /\ \A v \in Workers \ {w} : wk'[v] = wk[v]
  BY ProvisioningAssumption DEF Crash, Leave, Idle, QueueInv, Kinds
<1>2. \A v \in Workers : Guided(v)'
  BY <1>1 DEF Guided, SettledInv
<1>3. \A k \in Jobs : Abandoned(k) => Abandoned(k)'
  BY <1>1 DEF Abandoned
<1>4. ASSUME NEW call \in flying'
      PROVE  Adrift(call[1])'
  <2>1. CASE call \in flying
    <3>1. call[1] \in Jobs /\ Adrift(call[1])
      BY <2>1 DEF SettledInv, QueueInv, Kinds
    <3> QED
      BY <1>1, <1>3, <3>1 DEF Adrift
  <2>2. CASE call \notin flying
    <3>1. wk[w].at \in {"adding", "removing"} /\ call = <<j, wk[w].at>>
      BY <1>0, <1>4, <2>2 DEF Crash
    <3>2. wk[w].at \in InCall /\ wk[w].at \in AtGroups
      BY <3>1 DEF InCall, AtGroups
    <3>3. /\ j \in Jobs /\ job[j].lease = w /\ ~job[j].expired /\ job[j].step = "groups"
      BY <1>0, <3>2, BusyHasJob DEF QueueInv, CallsAreLeased, MailInv, InPlace, InCall
    <3>4. Abandoned(j)'
      BY <1>1, <3>3 DEF Abandoned
    <3> QED
      BY <1>1, <3>1, <3>3, <3>4 DEF Adrift
  <2> QED
    BY <2>1, <2>2
<1> QED
  BY <1>1, <1>2, <1>4 DEF SettledInv

LEMMA LandKeepsSettled ==
  ASSUME QueueInv, SettledInv, NEW call \in flying, Land(call)
  PROVE  SettledInv'
<1> DEFINE k == call[1]
<1>1. /\ UNCHANGED <<member, job, account, wk>> /\ flying' \subseteq flying
      /\ grouped' \in {grouped, grouped \cup {k}, grouped \ {k}}
      /\ k \in Jobs /\ Adrift(k) /\ flying \subseteq Jobs \X {"adding", "removing"}
  BY DEF Land, Effect, SettledInv, QueueInv, Kinds
<1>2. \A i \in Jobs : Applied(job'[i], i \in grouped', member'[i], account')
  <2> TAKE i \in Jobs
  <2>1. Applied(job[i], i \in grouped, member[i], account)
    BY DEF SettledInv
  <2>2. CASE i = k
    BY <1>1, <2>1, <2>2 DEF Applied, Adrift
  <2>3. CASE i # k
    BY <1>1, <2>1, <2>3 DEF Applied
  <2> QED
    BY <2>2, <2>3
<1>3. \A v \in Workers : Guided(v)'
  <2> TAKE v \in Workers
  <2>1. Guided(v) /\ ~(wk[v].on = k /\ job[k].lease = v)
    BY <1>1 DEF SettledInv, Adrift, Abandoned
  <2> QED
    BY <1>1, <2>1 DEF Guided
<1>4. \A c \in flying' : Adrift(c[1])'
  BY <1>1 DEF SettledInv, Adrift, Abandoned
<1> QED
  BY <1>2, <1>3, <1>4 DEF SettledInv

\* A lease does not run out while a change sent under it may take effect.
LEMMA LeaseRunsOutKeepsSettled ==
  ASSUME QueueInv, SettledInv, NEW j \in Jobs, LeaseRunsOut(j)
  PROVE  SettledInv'
<1>1. /\ UNCHANGED <<member, account, grouped, flying, wk>> /\ job[j] \in JobRow
      /\ job' = [job EXCEPT ![j].expired = TRUE]
  BY RowOf DEF LeaseRunsOut
<1>2. \A k \in Jobs : /\ job'[k].step = job[k].step /\ job'[k].state = job[k].state
                      /\ job'[k].lease = job[k].lease
                      /\ k # j => job'[k].expired = job[k].expired
  BY <1>1 DEF JobRow, QueueInv, Good
<1>3. \A k \in Jobs : Applied(job'[k], k \in grouped', member'[k], account')
  BY <1>1, <1>2 DEF SettledInv, Applied
<1>4. \A v \in Workers : Guided(v)'
  BY <1>1, <1>2, BusyHasJob DEF SettledInv, Guided
<1>5. ASSUME NEW call \in flying'
      PROVE  Adrift(call[1])'
  <2>1. /\ call \in flying /\ call[1] \in Jobs /\ call[2] \in {"adding", "removing"}
        /\ call = <<call[1], call[2]>>
    BY <1>1, <1>5 DEF QueueInv, Kinds
  <2>2. call[1] # j
    BY <2>1 DEF LeaseRunsOut, Timely
  <2> QED
    BY <1>1, <1>2, <2>1, <2>2 DEF SettledInv, Adrift, Abandoned
<1> QED
  BY <1>3, <1>4, <1>5 DEF SettledInv

-----------------------------------------------------------------------------
(***************************************************************************)
(* Leaders and the person, as to the group.                                *)
(***************************************************************************)

\* Rows are written, and none of a job that is held moves.
LEMMA TableIsSettling ==
  ASSUME QueueInv, SettledInv, UNCHANGED <<wk, account, grouped, flying>>,
         \A k \in Jobs : /\ Steady(job[k], job'[k])
                         /\ \/ member'[k] = member[k] /\ Eased(job[k], job'[k])
                            \/ Applied(job'[k], k \in grouped, member'[k], account)
  PROVE  Settling(None)
<1>1. \A k \in Jobs : Applied(job'[k], k \in grouped', member'[k], account')
  BY DEF SettledInv, Applied, Eased
<1> QED
  BY <1>1, ProvisioningAssumption DEF Settling

\* One row is written, and its membership.
LEMMA RowIsSettling ==
  ASSUME QueueInv, SettledInv, UNCHANGED <<wk, account, grouped, flying>>,
         NEW j \in Jobs, NEW row, job' = [job EXCEPT ![j] = row],
         \A k \in Jobs \ {j} : member'[k] = member[k],
         Steady(job[j], row), Applied(row, j \in grouped, member'[j], account)
  PROVE  Settling(None)
<1>1. job'[j] = row /\ \A k \in Jobs \ {j} : job'[k] = job[k]
  BY DEF QueueInv, Good
<1>2. \A k \in Jobs : /\ Steady(job[k], job'[k])
                      /\ \/ member'[k] = member[k] /\ Eased(job[k], job'[k])
                         \/ Applied(job'[k], k \in grouped, member'[k], account)
  BY <1>1 DEF Steady, Eased
<1> QED
  BY <1>2, TableIsSettling

LEMMA InviteIsSettling ==
  ASSUME QueueInv, SettledInv, NEW j \in Jobs, NEW r \in Roles, Invite(j, r)
  PROVE  Settling(None)
<1>1. /\ job[j].lease = None /\ Applied(job[j], j \in grouped, member[j], account)
      /\ \A k \in Jobs \ {j} : member'[k] = member[k]
  BY RowOf DEF Invite, Asks, Sane, SettledInv, QueueInv, Kinds
<1>2. NewJob(r).lease = None /\ NewJob(r).step = "identity"
  BY DEF NewJob
<1>3. Steady(job[j], NewJob(r)) /\ Applied(NewJob(r), j \in grouped, member'[j], account)
  BY <1>1, <1>2 DEF Steady, Applied
<1> QED
  BY <1>1, <1>3, RowIsSettling DEF Invite

LEMMA CancelIsSettling ==
  ASSUME QueueInv, SettledInv, NEW j \in Jobs, Cancel(j)
  PROVE  Settling(None)
<1>1. /\ job[j].lease = None /\ Applied(job[j], j \in grouped, member[j], account)
      /\ \A k \in Jobs \ {j} : member'[k] = member[k]
  BY RowOf DEF Cancel, Sane, SettledInv, QueueInv, Kinds
<1>2. NoJob.lease = None /\ NoJob.step = "identity"
  BY DEF NoJob, NewJob
<1>3. Steady(job[j], NoJob) /\ Applied(NoJob, j \in grouped, member'[j], account)
  BY <1>1, <1>2 DEF Steady, Applied
<1> QED
  BY <1>1, <1>3, RowIsSettling DEF Cancel

\* A change of the membership takes its job back to the first step, or is noted.
LEMMA PatchIsSettling ==
  ASSUME QueueInv, SettledInv, NEW j \in Jobs, NEW r \in Roles,
         NEW s \in {member[j].status, "active", "disabled"}, Patch(j, r, s)
  PROVE  Settling(None)
<1> DEFINE state == IF s = "disabled" THEN "disabled" ELSE "active"
           row == Enqueued(j, r, state)
<1>1. /\ Sane(job[j]) /\ Applied(job[j], j \in grouped, member[j], account)
      /\ \A k \in Jobs \ {j} : member'[k] = member[k]
  BY RowOf DEF Patch, SettledInv, QueueInv, Kinds
<1>2. /\ row.lease = job[j].lease /\ row.expired = job[j].expired /\ Sane(row)
      /\ \/ job[j].lease = None /\ row.step = "identity"
         \/ row.step = job[j].step /\ row.state = job[j].state
  BY <1>1, EnqueuedIsSane
<1>3. row.step # "complete"
  <2>1. CASE job[j].status = "running"
    <3>1. row = [job[j] EXCEPT !.reconcile = TRUE]
      BY <2>1 DEF Enqueued
    <3>2. row.step = job[j].step
      BY <1>1, <3>1 DEF Sane, JobRow
    <3> QED
      BY <1>1, <2>1, <3>2 DEF Sane
  <2>2. CASE job[j].status # "running"
    <3>1. row.step = "identity"
      BY <1>1, <2>2 DEF Enqueued, Sane, JobRow
    <3> QED
      BY <3>1
  <2> QED
    BY <2>1, <2>2
<1>4. job' = [job EXCEPT ![j] = row] /\ UNCHANGED <<wk, account, grouped, flying>>
  BY DEF Patch
<1> HIDE DEF row
<1>5. Steady(job[j], row) /\ Applied(row, j \in grouped, member'[j], account)
  BY <1>1, <1>2, <1>3 DEF Steady, Applied
<1> QED
  BY <1>1, <1>4, <1>5, RowIsSettling

LEMMA RetryIsSettling ==
  ASSUME QueueInv, SettledInv, NEW j \in Jobs, Retry(j)
  PROVE  Settling(None)
<1> DEFINE freed(k) == [job[k] EXCEPT !.dispatch = FALSE]
<1>1. /\ UNCHANGED <<wk, account, grouped, flying, member>>
      /\ Sane(job[j]) /\ job[j].status # "running"
  BY RowOf DEF Retry
<1>2. job[j].lease = None /\ job'[j].lease = job[j].lease /\ job'[j].step = "identity"
  <2>1. job[j].lease = None /\ job[j] \in JobRow
    BY <1>1 DEF Sane
  <2> QED
    BY <2>1 DEF Retry, JobRow
<1>3. \A k \in Jobs \ {j} : job'[k] \in {job[k], freed(k)}
  BY DEF Retry
<1>4. \A k \in Jobs : /\ freed(k).lease = job[k].lease /\ freed(k).expired = job[k].expired
                      /\ freed(k).step = job[k].step /\ freed(k).state = job[k].state
  BY RowOf DEF JobRow
<1> HIDE DEF freed
<1>5. \A k \in Jobs : Steady(job[k], job'[k]) /\ Eased(job[k], job'[k])
  BY <1>2, <1>3, <1>4 DEF Steady, Eased
<1> QED
  BY <1>1, <1>5, TableIsSettling

\* A resend takes up the job past the group step, where the group is as it was left.
LEMMA ResendIsSettling ==
  ASSUME QueueInv, SettledInv, NEW j \in Jobs, Resend(j)
  PROVE  Settling(None)
<1> DEFINE row == [job[j] EXCEPT !.step = "enrollment", !.status = "pending", !.attempts = 0,
                                 !.sent = FALSE, !.resend = TRUE, !.dispatch = FALSE]
<1>1. /\ Sane(job[j]) /\ job[j] \in JobRow
      /\ Applied(job[j], j \in grouped, member[j], account)
      /\ job[j].state = "active" /\ job[j].status = "succeeded" /\ member[j].status = "active"
  BY RowOf DEF Resend, SettledInv
<1>2. job[j].lease = None /\ j \in grouped
  BY <1>1 DEF Sane, Applied
<1>3. row.lease = job[j].lease /\ row.step = "enrollment" /\ row.state = job[j].state
  BY <1>1 DEF JobRow
<1>4. /\ job' = [job EXCEPT ![j] = row] /\ UNCHANGED <<wk, account, grouped, flying, member>>
  BY DEF Resend
<1> HIDE DEF row
<1>5. Steady(job[j], row) /\ Applied(row, j \in grouped, member'[j], account)
  BY <1>1, <1>2, <1>3 DEF Steady, Applied
<1> QED
  BY <1>4, <1>5, RowIsSettling

LEMMA RestIsSettling ==
  ASSUME QueueInv, MailInv, SettledInv, Person \/ \E j \in Jobs : DelayEnds(j)
  PROVE  Settling(None)
<1>1. UNCHANGED <<wk, account, grouped, flying, member>>
  BY DEF Person, Login, VerifiedLogin, DelayEnds
<1>2. \A k \in Jobs : Steady(job[k], job'[k]) /\ Eased(job[k], job'[k])
  <2>1. CASE Login
    BY <2>1 DEF Login, Steady, Eased
  <2>2. CASE VerifiedLogin
    BY <2>2, SatisfiedIsSteady DEF VerifiedLogin
  <2>3. CASE \E j \in Jobs : DelayEnds(j)
    <3>1. PICK j \in Jobs : job' = [job EXCEPT ![j].wait = "due"]
      BY <2>3 DEF DelayEnds
    <3>2. \A k \in Jobs :
            /\ job'[k].lease = job[k].lease /\ job'[k].expired = job[k].expired
            /\ job'[k].step = job[k].step /\ job'[k].state = job[k].state
      BY <3>1, RowOf DEF JobRow, QueueInv, Good
    <3> QED
      BY <3>2 DEF Steady, Eased
  <2> QED
    BY <2>1, <2>2, <2>3 DEF Person
<1> QED
  BY <1>1, <1>2, TableIsSettling

LEMMA SettledInvStep ==
  ASSUME ~Lossy
  PROVE  QueueInv /\ MailInv /\ SettledInv /\ [Next]_vars => SettledInv'
<1> SUFFICES ASSUME QueueInv, MailInv, SettledInv, [Next]_vars PROVE SettledInv'
  OBVIOUS
<1>1. ASSUME NEW w \in Workers \cup {None}, Settling(w) PROVE SettledInv'
  BY <1>1, SettlingKeeps
<1>2. CASE \E w \in Workers : WorkerStep(w) \/ \E j \in Jobs : Claim(w, j)
  BY <1>1, <1>2, WorkerStepIsSettling, ClaimIsSettling
<1>3. CASE \E w \in Workers : Crash(w)
  BY <1>3, CrashKeepsSettled
<1>4. CASE \E j \in Jobs : LeaseRunsOut(j)
  BY <1>4, LeaseRunsOutKeepsSettled
<1>5. CASE \E call \in flying : Land(call)
  BY <1>5, LandKeepsSettled
<1>6. CASE LeaderStep
  <2>1. PICK j \in Jobs :
          \/ \E r \in Roles : Invite(j, r)
          \/ \E r \in Roles : \E s \in {member[j].status, "active", "disabled"} : Patch(j, r, s)
          \/ Cancel(j) \/ Retry(j) \/ Resend(j)
    BY <1>6 DEF LeaderStep
  <2>2. Settling(None)
    BY <2>1, InviteIsSettling, PatchIsSettling, CancelIsSettling, RetryIsSettling,
       ResendIsSettling
  <2> QED
    BY <1>1, <2>2
<1>7. CASE Person \/ \E j \in Jobs : DelayEnds(j)
  BY <1>1, <1>7, RestIsSettling
<1>8. CASE UNCHANGED vars
  BY <1>8 DEF vars, SettledInv, Guided, Adrift, Abandoned
<1> QED
  BY <1>2, <1>3, <1>4, <1>5, <1>6, <1>7, <1>8 DEF Next, Work, TimeStep, Disturbance

LEMMA SettledInvInit == Init => SettledInv
<1> SUFFICES ASSUME Init PROVE SettledInv
  OBVIOUS
<1>1. /\ \A k \in Jobs : job[k].step = "identity"
      /\ \A w \in Workers : wk[w].at = "idle"
      /\ grouped = {} /\ flying = {}
  BY DEF Init, Idle, NoJob, NewJob
<1> QED
  BY <1>1 DEF SettledInv, Applied, Guided

\* As long as Authentik answers every call it lives to answer, a job that reports
\* success has done what it reports, whatever replicas die, stall or take over
\* from each other in the middle of a change: the group holds the account exactly
\* if the membership is active.
THEOREM SettledIsAppliedCorrect == ASSUME ~Lossy PROVE Spec => []SettledIsApplied
<1>1. QueueInv /\ SettledInv => SettledIsApplied
  <2> SUFFICES ASSUME QueueInv, SettledInv, NEW j \in Jobs, job[j].status = "succeeded"
               PROVE  j \in grouped <=> job[j].state = "active" /\ member[j].status = "active"
    BY DEF SettledIsApplied
  <2>1. job[j].step = "complete" /\ Applied(job[j], j \in grouped, member[j], account)
    BY RowOf DEF Sane, SettledInv
  <2> QED
    BY <2>1 DEF Applied
<1>2. QueueInv /\ MailInv /\ SettledInv /\ [Next]_vars => SettledInv'
  BY SettledInvStep
<1> QED
  BY <1>1, <1>2, MailInvAlways, SettledInvInit, PTL DEF Spec
=============================================================================
