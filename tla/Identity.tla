------------------------------ MODULE Identity ------------------------------
(***************************************************************************)
(* Whose user is whose: the rows of app_users, the sign-ins that find,     *)
(* link or create one (backend/src/auth.js), and the two ways an account   *)
(* of Authentik is bound to one beforehand: by an invitation (routes.js)   *)
(* and by the provisioning worker (provisioning.js).                       *)
(*                                                                         *)
(* A person of Authentik never changes; the email address does, and may    *)
(* pass to another person.  The subject and the UUID of a person are both  *)
(* the person here; whether a subject is written as the UUID is Shaped.    *)
(***************************************************************************)
EXTENDS Naturals, FiniteSets

CONSTANTS
  People,   \* accounts of Authentik
  Shaped,   \* those whose OIDC subject is their UUID
  Emails,
  Slots,    \* ids of app_users
  Tries,    \* requests that sign in
  Claims,   \* whether tokens carry the UUID: the values that occur
  MaxMoves, \* bound: sign-ins, look-ups of an account, changes of address
  None      \* SQL NULL

VARIABLES
  rows,      \* app_users
  address,   \* the email of each person, as Authentik has it
  try,       \* per request: its token, and how far it came
  chosen,    \* per email: the account an invitation found and will bind
  answer,    \* per user: the account the worker found and will record
  moves

vars == <<rows, address, try, chosen, answer, moves>>

NoRow == [email |-> None, subject |-> None, mgmt |-> None, oidc |-> None]
NoTry == [at |-> "idle", who |-> None, email |-> None, claim |-> FALSE,
          rows |-> {}, again |-> FALSE]

IdentityTypeOK ==
  /\ rows \in [Slots -> [email: Emails \cup {None}, subject: People \cup {None},
                         mgmt: People \cup {None}, oidc: People \cup {None}]]
  /\ \A r \in Slots : rows[r].email = None => rows[r] = NoRow
  /\ address \in [People -> Emails]
  /\ try \in [Tries -> [at: {"idle", "token", "seen", "locked", "in",
                             "refused", "failed"},
                        who: People \cup {None}, email: Emails \cup {None},
                        claim: BOOLEAN, rows: SUBSET Slots, again: BOOLEAN]]
  /\ chosen \in [Emails -> People \cup {None}]
  /\ answer \in [Slots -> People \cup {None}]
  /\ moves \in 0..MaxMoves

Init ==
  /\ rows = [r \in Slots |-> NoRow]
  /\ address \in [People -> Emails]
  /\ try = [t \in Tries |-> NoTry]
  /\ chosen = [e \in Emails |-> None]
  /\ answer = [r \in Slots |-> None]
  /\ moves = 0

-----------------------------------------------------------------------------
(***************************************************************************)
(* Faulty variants.  No specification uses them.                           *)
(***************************************************************************)
OwnedByIndexOnly(r, row) ==
  \E other \in Slots \ {r} :
    ({row.mgmt, row.oidc} \cap {rows[other].mgmt, rows[other].oidc}) \ {None} # {}
AnySubject(t, r) == TRUE

-----------------------------------------------------------------------------
(***************************************************************************)
(* What the database enforces.                                             *)
(***************************************************************************)

\* The UUIDs a row claims, which db/022 gives to one row only.  The trigger
\* takes an advisory lock on each, so it sees every row that was committed.
Uuids(row) == ({row.mgmt, row.oidc} \cup ({row.subject} \cap Shaped)) \ {None}
Owned(r, row) ==
  \E other \in Slots \ {r} : Uuids(row) \cap Uuids(rows[other]) # {}
Taken(r, row) ==
  \E other \in Slots \ {r} :
    \/ rows[other].email = row.email
    \/ row.subject # None /\ rows[other].subject = row.subject
Mismatch(row) == row.mgmt # None /\ row.oidc # None /\ row.mgmt # row.oidc
Unclaimed(r) == rows[r] = NoRow

-----------------------------------------------------------------------------
(***************************************************************************)
(* A sign-in: ensureUserWithClient in one transaction.                     *)
(***************************************************************************)
Move == moves < MaxMoves /\ moves' = moves + 1
Step(t, at) == try' = [try EXCEPT ![t].at = at]

\* A token is issued with the address of that moment and used later.
Token(t, p, claim) ==
  /\ try[t].at = "idle"
  /\ try' = [try EXCEPT ![t] = [NoTry EXCEPT !.at = "token", !.who = p,
                                !.email = address[p], !.claim = claim]]
  /\ UNCHANGED <<rows, address, chosen, answer>>
  /\ Move

\* findIdentityUsers: the rows the statement sees, then their locks, with
\* the condition looked at again in what they hold by then.
Matches(t, r) ==
  \/ rows[r].subject = try[t].who
  \/ rows[r].email = try[t].email
  \/ try[t].claim /\ try[t].who \in {rows[r].mgmt, rows[r].oidc}
Look(t) ==
  /\ try[t].at = "token"
  /\ try' = [try EXCEPT ![t].at = "seen",
                        ![t].rows = {r \in Slots : Matches(t, r)}]
  /\ UNCHANGED <<rows, address, chosen, answer, moves>>
Free(r) == \A t \in Tries : try[t].at = "locked" => r \notin try[t].rows
Lock(t) ==
  /\ try[t].at = "seen" /\ \A r \in try[t].rows : Free(r)
  /\ try' = [try EXCEPT ![t].at = "locked",
                        ![t].rows = {r \in @ : Matches(t, r)}]
  /\ UNCHANGED <<rows, address, chosen, answer, moves>>

\* reconcileIdentityUsers: the subject decides, else the UUID, else the
\* email; the others must not point elsewhere.
BySubject(t) == {r \in try[t].rows : rows[r].subject = try[t].who}
ByUuid(t) == {r \in try[t].rows :
                try[t].claim /\ try[t].who \in {rows[r].mgmt, rows[r].oidc}}
ByEmail(t) == {r \in try[t].rows : rows[r].email = try[t].email}
Choice(t) == IF BySubject(t) # {} THEN BySubject(t)
             ELSE IF ByUuid(t) # {} THEN ByUuid(t) ELSE ByEmail(t)
Immutable(t, r) ==
  \/ rows[r].mgmt = None /\ rows[r].oidc = None
  \/ try[t].claim /\ {rows[r].mgmt, rows[r].oidc} \subseteq {None, try[t].who}
SubjectFits(t, r) == rows[r].subject \in {None, try[t].who}
Accepts(t, r) ==
  /\ Choice(t) = {r} /\ ByUuid(t) \cup ByEmail(t) \subseteq {r}
  /\ Immutable(t, r) /\ SubjectFits(t, r)
LinkedRow(t, r) ==
  [rows[r] EXCEPT !.subject = try[t].who, !.email = try[t].email,
     !.oidc = IF @ = None /\ try[t].claim THEN try[t].who ELSE @]
Link(t, r) ==
  LET row == LinkedRow(t, r) IN
  /\ try[t].at = "locked" /\ Accepts(t, r)
  /\ IF Owned(r, row) \/ Taken(r, row) \/ Mismatch(row)
     THEN Step(t, "failed") /\ UNCHANGED rows
     ELSE rows' = [rows EXCEPT ![r] = row] /\ Step(t, "in")
  /\ UNCHANGED <<address, chosen, answer, moves>>
Refuse(t) ==
  /\ try[t].at = "locked" /\ Choice(t) # {}
  /\ \A r \in Slots : ~Accepts(t, r)
  /\ Step(t, "refused")
  /\ UNCHANGED <<rows, address, chosen, answer, moves>>

\* Nobody is found: a row of one's own.  The trigger of db/022 comes before
\* ON CONFLICT DO NOTHING, after which the rows are looked for once more.
Create(t, r) ==
  LET row == LinkedRow(t, r) IN
  /\ try[t].at = "locked" /\ Choice(t) = {} /\ Unclaimed(r)
  /\ IF ~try[t].again /\ ~Owned(r, row) /\ ~Taken(r, row)
     THEN rows' = [rows EXCEPT ![r] = row] /\ Step(t, "in")
     ELSE /\ UNCHANGED rows
          /\ IF try[t].again THEN Step(t, "refused")
             ELSE IF Owned(r, row) THEN Step(t, "failed")
             ELSE try' = [try EXCEPT ![t].at = "token", ![t].rows = {},
                                     ![t].again = TRUE]
  /\ UNCHANGED <<address, chosen, answer, moves>>

Answered(t) ==
  /\ try[t].at \in {"in", "refused", "failed"}
  /\ try' = [try EXCEPT ![t] = NoTry]
  /\ UNCHANGED <<rows, address, chosen, answer, moves>>

-----------------------------------------------------------------------------
(***************************************************************************)
(* Accounts bound beforehand.                                              *)
(***************************************************************************)
Rename(p, e) ==
  /\ address[p] # e /\ address' = [address EXCEPT ![p] = e]
  /\ UNCHANGED <<rows, try, chosen, answer>>
  /\ Move

\* inspectPermanentIdentityEmail and choosePermanentIdentity: an account
\* with this address that is linked to no other user, and no user with this
\* address that is linked to another account.
Eligible(p, e) ==
  /\ address[p] = e
  /\ \A r \in Slots :
       IF rows[r].email = e THEN Uuids(rows[r]) \subseteq {p}
       ELSE p \notin Uuids(rows[r])
Inspect(e, p) ==
  /\ chosen[e] = None /\ Eligible(p, e)
  /\ chosen' = [chosen EXCEPT ![e] = p]
  /\ UNCHANGED <<rows, address, try, answer>>
  /\ Move

\* The transaction of POST members: findOrCreatePermanentUser, then
\* bindPermanentUserIdentity if there is an account.
Invite(e, r) ==
  LET row == IF Unclaimed(r) THEN [NoRow EXCEPT !.email = e] ELSE rows[r]
      bound == IF chosen[e] = None THEN row
               ELSE [row EXCEPT !.mgmt = chosen[e]]
  IN
  /\ Free(r)
  /\ \/ rows[r].email = e
     \/ Unclaimed(r) /\ \A o \in Slots : rows[o].email # e
  /\ chosen[e] # None => {row.mgmt, row.oidc} \subseteq {None, chosen[e]}
  /\ ~Owned(r, bound)
  /\ rows' = [rows EXCEPT ![r] = bound]
  /\ chosen' = [chosen EXCEPT ![e] = None]
  /\ UNCHANGED <<address, try, answer, moves>>
GiveUp(e) ==
  /\ chosen[e] # None /\ chosen' = [chosen EXCEPT ![e] = None]
  /\ UNCHANGED <<rows, address, try, answer, moves>>

\* identityStep: the account bound already, else that of the sign-in, else
\* the one with the address; then recordIdentity.
Finds(r, p) ==
  IF Uuids([rows[r] EXCEPT !.subject = None]) # {}
  THEN p \in {rows[r].mgmt, rows[r].oidc}
  ELSE address[p] = rows[r].email
Ask(r, p) ==
  /\ ~Unclaimed(r) /\ answer[r] = None /\ Finds(r, p)
  /\ answer' = [answer EXCEPT ![r] = p]
  /\ UNCHANGED <<rows, address, try, chosen>>
  /\ Move
Recordable(r, p) ==
  /\ rows[r].subject # None => rows[r].oidc # None
  /\ {rows[r].mgmt, rows[r].oidc} \subseteq {None, p}
  /\ ~Owned(r, [rows[r] EXCEPT !.mgmt = p])
Record(r) ==
  LET p == answer[r] IN
  /\ p # None /\ Free(r)
  /\ rows' = IF Recordable(r, p) THEN [rows EXCEPT ![r].mgmt = p] ELSE rows
  /\ answer' = [answer EXCEPT ![r] = None]
  /\ UNCHANGED <<address, try, chosen, moves>>

SignIn(t) ==
  \/ Look(t) \/ Lock(t) \/ Refuse(t) \/ Answered(t)
  \/ \E p \in People, claim \in Claims : Token(t, p, claim)
  \/ \E r \in Slots : Link(t, r) \/ Create(t, r)
Bind ==
  \/ \E e \in Emails : GiveUp(e) \/ \E p \in People : Inspect(e, p)
  \/ \E e \in Emails, r \in Slots : Invite(e, r)
  \/ \E r \in Slots : Record(r) \/ \E p \in People : Ask(r, p)
Next ==
  \/ \E t \in Tries : SignIn(t)
  \/ Bind
  \/ \E p \in People, e \in Emails : Rename(p, e)
Spec == Init /\ [][Next]_vars

-----------------------------------------------------------------------------
(***************************************************************************)
(* Properties.                                                             *)
(***************************************************************************)

\* No account of Authentik belongs to two users, whether it was claimed by
\* an invitation, the worker, a token or a subject that is the UUID, and
\* however these raced (db/021, db/022).
OneOwner ==
  IdentityTypeOK /\ \A r, s \in Slots : r # s => Uuids(rows[r]) \cap Uuids(rows[s]) = {}

\* A sign-in never ends in a user that was bound to somebody else, although
\* the email address is what found the user: addresses are reused.
NeverForeign ==
  \A t \in Tries : try[t].at = "locked" /\ try'[t].at = "in" =>
    \E r \in Slots :
      /\ rows'[r].subject = try[t].who
      /\ {rows'[r].mgmt, rows'[r].oidc} \subseteq {None, try[t].who}

\* A user, once signed in to, is never handed to another subject.
SubjectIsForever ==
  \A r \in Slots :
    rows[r].subject # None => rows'[r].subject = rows[r].subject

\* Whom a user stands for does not change by signing in.
IdentityIsForever == NeverForeign /\ SubjectIsForever

(***************************************************************************)
(* What the documentation and a comment say and the code does not do.      *)
(***************************************************************************)

\* "A concurrent login may have inserted the subject or email between the
\* initial lookup and insert.  Re-read it under lock and apply the same
\* checks": no sign-in runs into a constraint.
RacesAreReread == \A t \in Tries : try[t].at # "failed"

\* "Email address [...] are not safe identity keys because they can change
\* or be reused": a user somebody signed in to is not bound to another.
NoMixedUser ==
  \A r \in Slots :
    rows[r].subject # None => rows[r].mgmt \in {None, rows[r].subject}
=============================================================================
