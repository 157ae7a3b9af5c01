---------------------------- MODULE CrewWorkflow ----------------------------
(***************************************************************************)
(* The ledger with the crew passes of backend/src/crew-auth.js.            *)
(*                                                                         *)
(* A leader creates a pass for an active session; whoever enters its code  *)
(* becomes a guest user of that session alone, known by a cookie.  A pass  *)
(* ends by revocation, logout, the close of its session, wrong codes, or   *)
(* time; time is noticed only when some later request looks.  A request of *)
(* a guest is authenticated outside the transaction that does the work     *)
(* (authed), so what was checked may be over when the work starts: each    *)
(* transaction checks the pass again under row locks.                      *)
(*                                                                         *)
(* Consuming a code always creates a new user, so a pass and its user are  *)
(* the same member of Crew.  Codes, PIN attempts and rate limits are       *)
(* abstracted: who has the right code may join, who exhausts the attempts  *)
(* of a pass has it revoked.                                               *)
(***************************************************************************)
EXTENDS InventoryWorkflow, Naturals, FiniteSets

CONSTANT MaxGrants   \* config.crewAccess.maxActiveGrantsPerSession

ASSUME CrewIsBounded == IsFiniteSet(Crew) /\ MaxGrants \in Nat

VARIABLES
  grant,          \* status of a pass; "none" before, "deleted" after
  grantSession,   \* the session a pass is for
  auth,           \* its auth session: none, live, or with revoked_at set
  lapsed,         \* passes past expires_at, or past the inactivity limit
  authed          \* passes with a request authenticated but not yet executed

passVars == <<grant, grantSession, auth, lapsed, authed>>
crewVars == <<ledgerVars, passVars>>

GrantStatus == {"none", "pending", "consumed", "revoked", "expired", "deleted"}
OpenGrant == {"pending", "consumed"}
RetiredGrant == {"revoked", "expired"}

\* Type correctness of the passes.
CrewTypeOK ==
  /\ LedgerTypeOK
  /\ grant \in [Crew -> GrantStatus]
  /\ grantSession \in [Crew -> Sessions \cup {None}]
  /\ auth \in [Crew -> {"none", "live", "revoked"}]
  /\ lapsed \in [Crew -> BOOLEAN]
  /\ authed \subseteq Crew

CrewInit ==
  /\ LedgerInit
  /\ grant = [p \in Crew |-> "none"]
  /\ grantSession = [p \in Crew |-> None]
  /\ auth = [p \in Crew |-> "none"]
  /\ lapsed = [p \in Crew |-> FALSE]
  /\ authed = {}

Joined(p) == auth[p] # "none"
PassesOf(s) == {p \in Crew : grantSession[p] = s}
SessionActive(p) ==
  grantSession[p] # None /\ sessStatus[grantSession[p]] = "active"

\* A pass that is in force: the credential is good, the pass is consumed and
\* in time, and its session is active.
PassLive(p) ==
  /\ auth[p] = "live"
  /\ grant[p] = "consumed"
  /\ ~lapsed[p]
  /\ SessionActive(p)

\* Faulty variants of the operators that follow, to show that a property
\* notices the bug; no specification uses them.
AuthenticatedBefore(p) == TRUE
ClaimsForgotten(G) == {}
EndOnlyConsumed(G, st) ==
  [p \in Crew |-> IF p \in G /\ grant[p] = "consumed" THEN st ELSE grant[p]]
CredentialsKept(G) == auth
OffByOneRoom(s) ==
  Cardinality({q \in PassesOf(s) : grant[q] \in OpenGrant /\ ~lapsed[q]}) <= MaxGrants

\* What the transaction of a guest's work finds when it locks the pass.
LockActiveCrewAccess(p) == PassLive(p)

\* The claims releaseCrewClaims is called for when the passes G end.
ClaimsOf(G) == {<<grantSession[p], p>> : p \in {q \in G : Joined(q)}}

EndGrants(G, st) ==
  [p \in Crew |-> IF p \in G /\ grant[p] \in OpenGrant THEN st ELSE grant[p]]
RevokeAuth(G) ==
  [p \in Crew |-> IF p \in G /\ auth[p] = "live" THEN "revoked" ELSE auth[p]]

\* expireCrewAccess looks at every pass of the platoon.
Lapsed == {p \in Crew : grant[p] \in OpenGrant /\ lapsed[p]}

-----------------------------------------------------------------------------
(***************************************************************************)
(* Passes.  Every action that begins with expireCrewAccess ends the passes *)
(* whose time is over, whatever else it does.                              *)
(***************************************************************************)

\* GET crew-access, and a code entry that fails.
ListCrew ==
  /\ grant' = EndGrants(Lapsed, "expired")
  /\ auth' = RevokeAuth(Lapsed)
  /\ ReleaseClaims(ClaimsOf(Lapsed))
  /\ UNCHANGED <<grantSession, lapsed, authed>>

\* The session has fewer open passes than the limit once the expiry is done.
HasRoom(s) ==
  Cardinality({q \in PassesOf(s) : grant[q] \in OpenGrant /\ ~lapsed[q]}) < MaxGrants

\* POST crew-access, with the session locked: refused unless it is active
\* and has fewer than MaxGrants passes left after the expiry.
CreateGrant(p, s) ==
  /\ sessStatus[s] = "active"
  /\ grant[p] = "none"
  /\ HasRoom(s)
  /\ grant' = [EndGrants(Lapsed, "expired") EXCEPT ![p] = "pending"]
  /\ auth' = RevokeAuth(Lapsed)
  /\ grantSession' = [grantSession EXCEPT ![p] = s]
  /\ ReleaseClaims(ClaimsOf(Lapsed))
  /\ UNCHANGED <<lapsed, authed>>

\* The row a code entry locks: a pending pass, in time, of an active session.
Enterable(p) == grant[p] = "pending" /\ ~lapsed[p] /\ SessionActive(p)

Consume(p) ==
  /\ Enterable(p)
  /\ grant' = [EndGrants(Lapsed, "expired") EXCEPT ![p] = "consumed"]
  /\ auth' = [RevokeAuth(Lapsed) EXCEPT ![p] = "live"]
  /\ ReleaseClaims(ClaimsOf(Lapsed))
  /\ UNCHANGED <<grantSession, lapsed, authed>>

\* The wrong code that reaches the limit of attempts revokes the pass.
ExhaustAttempts(p) ==
  /\ Enterable(p)
  /\ grant' = [EndGrants(Lapsed, "expired") EXCEPT ![p] = "revoked"]
  /\ auth' = RevokeAuth(Lapsed)
  /\ ReleaseClaims(ClaimsOf(Lapsed))
  /\ UNCHANGED <<grantSession, lapsed, authed>>

\* A leader revokes a pass; the claims are released even when it was over.
Revoke(p) ==
  /\ grant[p] \in OpenGrant \cup RetiredGrant
  /\ grant' = EndGrants({p}, "revoked")
  /\ auth' = IF grant[p] \in OpenGrant THEN RevokeAuth({p}) ELSE auth
  /\ ReleaseClaims(ClaimsOf({p}))
  /\ UNCHANGED <<grantSession, lapsed, authed>>

\* The guest logs out, in whatever state the pass is.
Logout(p) ==
  /\ Joined(p)
  /\ grant' = [grant EXCEPT ![p] = IF @ = "consumed" THEN "revoked" ELSE @]
  /\ auth' = RevokeAuth({p})
  /\ ReleaseClaims(ClaimsOf({p}))
  /\ UNCHANGED <<grantSession, lapsed, authed>>

\* authenticateCrewRequest on a pass that is in force.
Authenticate(p) ==
  /\ PassLive(p)
  /\ authed' = authed \cup {p}
  /\ UNCHANGED <<ledgerVars, grant, grantSession, auth, lapsed>>

\* authenticateCrewRequest on a pass whose time is over retires it.
RetireDetectedExpired(p) ==
  /\ Joined(p)
  /\ grant[p] = "expired" \/ lapsed[p]
  /\ grant' = EndGrants({p}, "expired")
  /\ auth' = RevokeAuth({p})
  /\ ReleaseClaims(ClaimsOf({p}))
  /\ UNCHANGED <<grantSession, lapsed, authed>>

\* Time passes for one pass.
Lapse(p) ==
  /\ grant[p] \in OpenGrant \cup RetiredGrant
  /\ ~lapsed[p]
  /\ lapsed' = [lapsed EXCEPT ![p] = TRUE]
  /\ UNCHANGED <<ledgerVars, grant, grantSession, auth, authed>>

-----------------------------------------------------------------------------
(***************************************************************************)
(* The work of a guest, and the ledger's handlers with their effect on     *)
(* passes.                                                                 *)
(***************************************************************************)

\* The row is of the guest's own session.
OwnRow(p, i) == itemSession[i] = grantSession[p]

CrewWork(p) ==
  /\ p \in authed
  /\ LockActiveCrewAccess(p)
  /\ \/ \E i \in Items : OwnRow(p, i) /\ (Claim(p, i) \/ Release(p, i))
     \/ \E i \in Items, x \in Submissions : OwnRow(p, i) /\ Submit(p, i, x)
     \/ \E x \in Submissions : Withdraw(p, x) /\ OwnRow(p, subItem[x])
  /\ authed' = authed \ {p}
  /\ UNCHANGED <<grant, grantSession, auth, lapsed>>

\* The request is refused, by its own check or by the ledger's, or is lost.
CrewRefused(p) ==
  /\ p \in authed
  /\ authed' = authed \ {p}
  /\ UNCHANGED <<ledgerVars, grant, grantSession, auth, lapsed>>

\* Everyone who ever joined session s by a pass.
JoinedCrew(s) == {p \in PassesOf(s) : Joined(p)}

\* PATCH to closed ends every pass of the session and releases the claims of
\* everyone who ever joined it.
Close(s) ==
  /\ CloseSession(s, JoinedCrew(s))
  /\ grant' = EndGrants(PassesOf(s), "revoked")
  /\ auth' = RevokeAuth(PassesOf(s))
  /\ UNCHANGED <<grantSession, lapsed, authed>>

\* The passes of a deleted session go with it.
Delete(s) ==
  /\ DeleteSession(s)
  /\ grant' = [p \in Crew |-> IF p \in PassesOf(s) THEN "deleted" ELSE grant[p]]
  /\ auth' = [p \in Crew |-> IF p \in PassesOf(s) THEN "none" ELSE auth[p]]
  /\ grantSession' = [p \in Crew |-> IF p \in PassesOf(s) THEN None ELSE grantSession[p]]
  /\ UNCHANGED <<lapsed, authed>>

\* What members do, none of which touches a pass.
MemberStep ==
  /\ \/ \E s \in Sessions :
          \/ \E st \in {"draft", "active"} : CreateSession(s, st) \/ SetSessionStatus(s, st)
          \/ CountRows(s)
          \/ \E R \in SUBSET Items : \E m \in [R -> MatchState] : AddRows(s, R, m)
     \/ \E i \in Items : LeadRow(i)
     \/ \E x \in Submissions : Review(x)
     \/ \E u \in Members : Work(u)
  /\ UNCHANGED passVars

PassStep(p) ==
  \/ \E s \in Sessions : CreateGrant(p, s)
  \/ Consume(p) \/ ExhaustAttempts(p)
  \/ Revoke(p) \/ Logout(p)
  \/ Authenticate(p) \/ RetireDetectedExpired(p)
  \/ Lapse(p)
  \/ CrewWork(p) \/ CrewRefused(p)

CrewNext ==
  \/ MemberStep
  \/ \E s \in Sessions : Close(s) \/ Delete(s)
  \/ ListCrew
  \/ \E p \in Crew : PassStep(p)

CrewSpec == CrewInit /\ [][CrewNext]_crewVars

-----------------------------------------------------------------------------
(***************************************************************************)
(* Correctness of the composition.                                         *)
(***************************************************************************)

\* Untouched(p, i): row i is claimed by p and nobody ever submitted for it.
Untouched(p, i) ==
  assignee[i] = p /\ itemStatus[i] = "unchecked" /\ ProofOf(i) = {}

\* docs/forkable-tasks.md:807: logout, removal, expiry and closeout release
\* untouched claims.  No row stays claimed by somebody whose pass is over.
RetiredHoldNothing ==
  \A p \in Crew, i \in Items : grant[p] \in RetiredGrant => ~Untouched(p, i)

\* A guest leaves no trace outside the session of the pass: neither a claim
\* nor a submission.
CrewStaysInSession ==
  \A p \in Crew :
    /\ \A i \in Items : assignee[i] = p => itemSession[i] = grantSession[p]
    /\ \A x \in Submissions : subBy[x] = p => itemSession[subItem[x]] = grantSession[p]

\* A pass leaves nothing behind, neither a claim when it is over nor a trace in
\* another session.
PassesLeaveNothing == CrewTypeOK /\ RetiredHoldNothing /\ CrewStaysInSession

\* A cookie is good exactly while its pass is consumed: no path that ends a
\* pass leaves the credential, and none takes the credential of a live pass.
CredentialMatchesGrant ==
  \A p \in Crew : auth[p] = "live" <=> grant[p] = "consumed"

\* A closed session has no pass that could be entered or used, also when the
\* pass was created or entered while the session was being closed.
ClosedHasNoPasses ==
  \A p \in Crew : grant[p] \in OpenGrant => sessStatus[grantSession[p]] # "closed"

\* A session never has more than MaxGrants open passes.
GrantLimit ==
  \A s \in Sessions :
    Cardinality({p \in PassesOf(s) : grant[p] \in OpenGrant}) <= MaxGrants

\* A pass that is over acts no more, not even by a request that was
\* authenticated while it was good: it submits nothing, withdraws nothing and
\* claims nothing (a leader may still return proof to its submitter).
DeadPassesActNoMore ==
  [][\A p \in Crew : ~PassLive(p) =>
       /\ \A x \in Submissions :
            /\ subBy'[x] = p => subBy[x] = p
            /\ subBy[x] = p /\ subState'[x] = "withdrawn" => subState[x] = "withdrawn"
       /\ \A i \in Items : assignee'[i] = p =>
            \/ assignee[i] = p
            \/ \E x \in ActionableOn(i) : subBy[x] = p
    ]_crewVars

\* Claims do not move in a session that is and stays closed: the late
\* logout, expiry or revocation of a guest finds nothing left to release.
ClosedClaimsFrozen ==
  [][\A i \in Items : itemSession[i] # None =>
       LET s == itemSession[i]
       IN sessStatus[s] = "closed" /\ sessStatus'[s] = "closed"
            => assignee'[i] = assignee[i]
    ]_crewVars

\* What comes late changes nothing: neither the request of a pass that is over
\* nor the end of a pass whose session is closed.
LatePassesChangeNothing == DeadPassesActNoMore /\ ClosedClaimsFrozen
=============================================================================
