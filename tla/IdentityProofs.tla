--------------------------- MODULE IdentityProofs ---------------------------
(***************************************************************************)
(* Proofs about users and accounts of Authentik, for any sets of people,   *)
(* addresses, users and concurrent sign-ins.                               *)
(***************************************************************************)
EXTENDS Identity, TLAPS

\* The kinds of record, named so that a proof need not open them.
RowSet == [email: Emails \cup {None}, subject: People \cup {None},
           mgmt: People \cup {None}, oidc: People \cup {None}]
TrySet == [at: {"idle", "token", "seen", "locked", "in", "refused", "failed"},
           who: People \cup {None}, email: Emails \cup {None},
           claim: BOOLEAN, rows: SUBSET Slots, again: BOOLEAN]
Kinds ==
  /\ rows \in [Slots -> RowSet]
  /\ address \in [People -> Emails]
  /\ try \in [Tries -> TrySet]
  /\ chosen \in [Emails -> People \cup {None}]
  /\ answer \in [Slots -> People \cup {None}]
  /\ moves \in 0..MaxMoves

\* A request has a token of somebody, with an address; only users there are have
\* an account looked up for them; a user has an address or is not there.
Sound ==
  /\ \A t \in Tries : try[t].at # "idle" => try[t].who \in People /\ try[t].email \in Emails
  /\ \A r \in Slots : answer[r] # None => rows[r].email # None
  /\ \A r \in Slots : rows[r].email = None => rows[r] = NoRow

Unshared == \A r, s \in Slots : r # s => Uuids(rows[r]) \cap Uuids(rows[s]) = {}

IdentityInv == Kinds /\ Sound /\ Unshared

LEMMA Values == NoRow \in RowSet /\ NoTry \in TrySet
BY DEF NoRow, NoTry, RowSet, TrySet

LEMMA InitIdentity == ASSUME MaxMoves \in Nat PROVE Init => IdentityInv
<1> SUFFICES ASSUME Init PROVE IdentityInv
  OBVIOUS
<1>1. NoRow \in RowSet /\ NoTry \in TrySet /\ NoTry.at = "idle" /\ Uuids(NoRow) = {}
  BY Values DEF NoTry, NoRow, Uuids
<1>2. Kinds
  BY <1>1 DEF Init, Kinds
<1>3. Sound /\ Unshared
  BY <1>1 DEF Init, Sound, Unshared
<1> QED
  BY <1>2, <1>3 DEF IdentityInv

\* The row a sign-in writes: of the person who signs in, with their address,
\* and with the account it had or, if it had none, that of the token.
LEMMA LinkedRowIs ==
  ASSUME Kinds, Sound, NEW t \in Tries, NEW r \in Slots, try[t].at # "idle"
  PROVE  /\ LinkedRow(t, r) \in RowSet
         /\ LinkedRow(t, r).email = try[t].email
         /\ LinkedRow(t, r).subject = try[t].who
         /\ LinkedRow(t, r).mgmt = rows[r].mgmt
         /\ LinkedRow(t, r).oidc = IF rows[r].oidc = None /\ try[t].claim THEN try[t].who
                                   ELSE rows[r].oidc
         /\ try[t].email \in Emails
<1>1. rows[r] \in RowSet /\ try[t].who \in People /\ try[t].email \in Emails
  BY DEF Kinds, Sound
<1> QED
  BY <1>1 DEF LinkedRow, RowSet

\* How the rows change: not at all, or one of them, to one that claims nobody
\* else's account, keeps its subject, and has an address.
OneRow(r, row) ==
  /\ rows' = [rows EXCEPT ![r] = row]
  /\ row \in RowSet /\ row.email \in Emails /\ ~Owned(r, row)
  /\ rows[r].subject # None => row.subject = rows[r].subject

LEMMA StepRows ==
  ASSUME Kinds, Sound, None \notin Emails, [Next]_vars
  PROVE  rows' = rows \/ \E r \in Slots, row \in RowSet : OneRow(r, row)
<1> DEFINE Goal == rows' = rows \/ \E r \in Slots, row \in RowSet : OneRow(r, row)
<1>0. \A r \in Slots : rows[r] \in RowSet
  BY DEF Kinds
<1>1. ASSUME NEW t \in Tries, NEW r \in Slots, Link(t, r) PROVE Goal
  <2> DEFINE row == LinkedRow(t, r)
  <2>1. try[t].at = "locked" /\ rows[r].subject \in {None, try[t].who}
    BY <1>1 DEF Link, Accepts, SubjectFits
  <2>2. row \in RowSet /\ row.email \in Emails /\ row.subject = try[t].who
    BY <2>1, LinkedRowIs
  <2>3. rows' = rows \/ (rows' = [rows EXCEPT ![r] = row] /\ ~Owned(r, row))
    BY <1>1 DEF Link
  <2> HIDE DEF row
  <2> QED
    BY <2>1, <2>2, <2>3 DEF OneRow
<1>2. ASSUME NEW t \in Tries, NEW r \in Slots, Create(t, r) PROVE Goal
  <2> DEFINE row == LinkedRow(t, r)
  <2>1. try[t].at = "locked" /\ rows[r].subject = None
    BY <1>2 DEF Create, Unclaimed, NoRow
  <2>2. row \in RowSet /\ row.email \in Emails
    BY <2>1, LinkedRowIs
  <2>3. rows' = rows \/ (rows' = [rows EXCEPT ![r] = row] /\ ~Owned(r, row))
    BY <1>2 DEF Create
  <2> HIDE DEF row
  <2> QED
    BY <2>1, <2>2, <2>3 DEF OneRow
<1>3. ASSUME NEW e \in Emails, NEW r \in Slots, Invite(e, r) PROVE Goal
  <2> DEFINE row == IF Unclaimed(r) THEN [NoRow EXCEPT !.email = e] ELSE rows[r]
             bound == IF chosen[e] = None THEN row ELSE [row EXCEPT !.mgmt = chosen[e]]
  <2>1. /\ rows' = [rows EXCEPT ![r] = bound] /\ ~Owned(r, bound)
        /\ rows[r].email = e \/ Unclaimed(r)
    BY <1>3 DEF Invite
  <2>2. /\ row \in RowSet /\ row.email = e
        /\ rows[r].subject # None => row.subject = rows[r].subject
    <3>1. CASE Unclaimed(r)
      <4>1. /\ [NoRow EXCEPT !.email = e] \in RowSet /\ [NoRow EXCEPT !.email = e].email = e
            /\ rows[r].subject = None
        BY <3>1 DEF NoRow, RowSet, Unclaimed
      <4> QED
        BY <3>1, <4>1
    <3>2. CASE ~Unclaimed(r)
      BY <1>0, <2>1, <3>2
    <3> QED
      BY <3>1, <3>2
  <2>3. chosen[e] \in People \cup {None}
    BY DEF Kinds
  <2> HIDE DEF row
  <2>4. /\ [row EXCEPT !.mgmt = chosen[e]] \in RowSet
        /\ [row EXCEPT !.mgmt = chosen[e]].email = row.email
        /\ [row EXCEPT !.mgmt = chosen[e]].subject = row.subject
    BY <2>2, <2>3 DEF RowSet
  <2>5. bound \in RowSet /\ bound.email = e /\ bound.subject = row.subject
    BY <2>2, <2>4
  <2> HIDE DEF bound
  <2> QED
    BY <2>1, <2>2, <2>5 DEF OneRow
<1>4. ASSUME NEW r \in Slots, Record(r) PROVE Goal
  <2> DEFINE row == [rows[r] EXCEPT !.mgmt = answer[r]]
  <2>1. answer[r] # None /\ answer[r] \in People \cup {None} /\ rows[r].email \in Emails
    BY <1>0, <1>4 DEF Record, Kinds, Sound, RowSet
  <2>2. row \in RowSet /\ row.email = rows[r].email /\ row.subject = rows[r].subject
    BY <1>0, <2>1 DEF RowSet
  <2>3. rows' = rows \/ (rows' = [rows EXCEPT ![r] = row] /\ ~Owned(r, row))
    <3>1. CASE Recordable(r, answer[r])
      <4>1. ~Owned(r, row)
        BY <3>1 DEF Recordable
      <4>2. rows' = [rows EXCEPT ![r].mgmt = answer[r]]
        BY <1>4, <3>1 DEF Record
      <4> QED
        BY <4>1, <4>2
    <3>2. CASE ~Recordable(r, answer[r])
      BY <1>4, <3>2 DEF Record
    <3> QED
      BY <3>1, <3>2
  <2> HIDE DEF row
  <2> QED
    BY <2>1, <2>2, <2>3 DEF OneRow
<1>5. ASSUME rows' = rows PROVE Goal
  BY <1>5
<1> HIDE DEF Goal
<1>6. ASSUME NEW t \in Tries, SignIn(t) PROVE Goal
  BY <1>1, <1>2, <1>5, <1>6 DEF SignIn, Look, Lock, Refuse, Answered, Token
<1>7. ASSUME Bind PROVE Goal
  BY <1>3, <1>4, <1>5, <1>7 DEF Bind, GiveUp, Inspect, Ask
<1>8. ASSUME NEW p \in People, NEW e \in Emails, Rename(p, e) PROVE Goal
  BY <1>5, <1>8 DEF Rename
<1>9. ASSUME UNCHANGED vars PROVE Goal
  BY <1>5, <1>9 DEF vars
<1>10. Goal
  BY <1>6, <1>7, <1>8, <1>9 DEF Next
<1> QED
  BY <1>10 DEF Goal

\* Every step writes values of the right kind.
LEMMA StepKinds ==
  ASSUME MaxMoves \in Nat, Claims \subseteq BOOLEAN, None \notin Emails, Kinds, Sound, [Next]_vars
  PROVE  Kinds'
<1>1. rows' \in [Slots -> RowSet]
  BY StepRows DEF Kinds, OneRow
<1>2. address' \in [People -> Emails]
  BY DEF Kinds, Next, SignIn, Bind, Token, Look, Lock, Link, Refuse, Create, Answered, Rename,
         Inspect, Invite, GiveUp, Ask, Record, vars
<1>3. chosen' \in [Emails -> People \cup {None}]
  BY DEF Kinds, Next, SignIn, Bind, Token, Look, Lock, Link, Refuse, Create, Answered, Rename,
         Inspect, Invite, GiveUp, Ask, Record, vars
<1>4. answer' \in [Slots -> People \cup {None}]
  BY DEF Kinds, Next, SignIn, Bind, Token, Look, Lock, Link, Refuse, Create, Answered, Rename,
         Inspect, Invite, GiveUp, Ask, Record, vars
<1>5. moves' \in 0..MaxMoves
  <2>1. moves' = moves \/ Move
    BY DEF Next, SignIn, Bind, Token, Look, Lock, Link, Refuse, Create, Answered, Rename,
           Inspect, Invite, GiveUp, Ask, Record, vars
  <2> QED
    BY <2>1 DEF Kinds, Move
<1>6. try' \in [Tries -> TrySet]
  <2> DEFINE Goal == try' \in [Tries -> TrySet]
  <2>0. NoTry \in TrySet /\ \A t \in Tries : try[t] \in TrySet
    BY Values DEF Kinds
  <2>1. ASSUME NEW t \in Tries, NEW at \in {"token", "seen", "locked", "in", "refused", "failed"},
               NEW found \in SUBSET Slots
        PROVE  /\ [try[t] EXCEPT !.at = at] \in TrySet
               /\ [[try[t] EXCEPT !.at = at] EXCEPT !.rows = found] \in TrySet
               /\ [[[try[t] EXCEPT !.at = at] EXCEPT !.rows = found] EXCEPT !.again = TRUE] \in TrySet
    BY <2>0 DEF TrySet
  <2>2. ASSUME NEW t \in Tries, NEW at \in {"in", "refused", "failed"}, Step(t, at)
        PROVE  Goal
    BY <2>1, <2>2 DEF Step, Kinds
  <2>3. ASSUME try' = try PROVE Goal
    BY <2>3 DEF Kinds
  <2>4. ASSUME NEW t \in Tries, NEW p \in People, NEW claim \in Claims, Token(t, p, claim)
        PROVE  Goal
    <3> DEFINE q == [NoTry EXCEPT !.at = "token", !.who = p, !.email = address[p], !.claim = claim]
    <3>1. address[p] \in Emails /\ claim \in BOOLEAN
      BY DEF Kinds
    <3>2. q \in TrySet
      BY <3>1 DEF NoTry, TrySet
    <3>3. try' = [try EXCEPT ![t] = q]
      BY <2>4 DEF Token
    <3> HIDE DEF q
    <3> QED
      BY <3>2, <3>3 DEF Kinds
  <2>5. ASSUME NEW t \in Tries, Look(t) PROVE Goal
    <3> DEFINE found == {r \in Slots : Matches(t, r)}
    <3>1. try' = [try EXCEPT ![t] = [[try[t] EXCEPT !.at = "seen"] EXCEPT !.rows = found]]
      BY <2>0, <2>5 DEF Look, Kinds
    <3> QED
      BY <2>1, <3>1 DEF Kinds
  <2>6. ASSUME NEW t \in Tries, Lock(t) PROVE Goal
    <3> DEFINE found == {r \in try[t].rows : Matches(t, r)}
    <3>1. try[t].rows \subseteq Slots
      BY <2>0 DEF TrySet
    <3>2. try' = [try EXCEPT ![t] = [[try[t] EXCEPT !.at = "locked"] EXCEPT !.rows = found]]
      BY <2>0, <2>6 DEF Lock, Kinds, TrySet
    <3> QED
      BY <2>1, <3>1, <3>2 DEF Kinds
  <2>7. ASSUME NEW t \in Tries, NEW r \in Slots, Link(t, r) PROVE Goal
    BY <2>2, <2>7 DEF Link
  <2>8. ASSUME NEW t \in Tries, NEW r \in Slots, Create(t, r) PROVE Goal
    <3>1. \/ Step(t, "in") \/ Step(t, "refused") \/ Step(t, "failed")
          \/ try' = [try EXCEPT ![t] = [[[try[t] EXCEPT !.at = "token"] EXCEPT !.rows = {}]
                                          EXCEPT !.again = TRUE]]
      BY <2>0, <2>8 DEF Create, Kinds
    <3> DEFINE q == [[[try[t] EXCEPT !.at = "token"] EXCEPT !.rows = {}] EXCEPT !.again = TRUE]
    <3>2. q \in TrySet
      BY <2>1
    <3> HIDE DEF q
    <3>3. ASSUME try' = [try EXCEPT ![t] = q] PROVE Goal
      BY <3>2, <3>3 DEF Kinds
    <3> HIDE DEF Goal
    <3> QED
      BY <2>2, <3>1, <3>3 DEF q
  <2>9. ASSUME NEW t \in Tries, Answered(t) PROVE Goal
    BY <2>0, <2>9 DEF Answered, Kinds
  <2>10. ASSUME NEW t \in Tries, Refuse(t) PROVE Goal
    BY <2>2, <2>10 DEF Refuse
  <2> HIDE DEF Goal
  <2>11. Goal
    BY <2>3, <2>4, <2>5, <2>6, <2>7, <2>8, <2>9, <2>10
       DEF Next, SignIn, Bind, Rename, Inspect, Invite, GiveUp, Ask, Record, vars
  <2> QED
    BY <2>11 DEF Goal
<1> QED
  BY <1>1, <1>2, <1>3, <1>4, <1>5, <1>6 DEF Kinds

\* Requests keep their token, and looked-up accounts their user.
LEMMA StepSound ==
  ASSUME None \notin Emails, Kinds, Sound, [Next]_vars
  PROVE  Sound'
<1>1. \A r \in Slots : rows'[r] = rows[r] \/ rows'[r].email \in Emails
  BY StepRows DEF Kinds, OneRow
<1>2. \A r \in Slots : rows'[r].email = None => rows'[r] = NoRow
  BY <1>1 DEF Sound
<1>3. \A r \in Slots : answer'[r] # None => answer[r] # None \/ ~Unclaimed(r)
  BY DEF Kinds, Next, SignIn, Bind, Token, Look, Lock, Link, Refuse, Create, Answered, Rename,
         Inspect, Invite, GiveUp, Ask, Record, vars
<1>4. \A r \in Slots : answer'[r] # None => rows'[r].email # None
  BY <1>1, <1>3 DEF Sound, Unclaimed
<1>5. ASSUME NEW t \in Tries, try'[t].at # "idle"
      PROVE  try'[t].who \in People /\ try'[t].email \in Emails
  <2> DEFINE Goal == try'[t].who \in People /\ try'[t].email \in Emails
             Same(o) == /\ try' = [try EXCEPT ![o] = try'[o]]
                        /\ try[o].at # "idle"
                        /\ try'[o].who = try[o].who /\ try'[o].email = try[o].email
  <2>0. NoTry.at = "idle" /\ \A o \in Tries : try[o] \in TrySet
    BY DEF NoTry, Kinds
  <2>1. ASSUME NEW o \in Tries, Same(o) PROVE Goal
    BY <1>5, <2>1 DEF Kinds, Sound
  <2>2. ASSUME try' = try PROVE Goal
    BY <1>5, <2>2 DEF Sound
  <2>3. ASSUME NEW o \in Tries, NEW at, try[o].at # "idle", Step(o, at) PROVE Same(o)
    BY <2>0, <2>3 DEF Step, Kinds, TrySet
  <2>4. ASSUME NEW o \in Tries, Look(o) \/ Lock(o) PROVE Same(o)
    BY <2>0, <2>4 DEF Look, Lock, Kinds, TrySet
  <2>5. ASSUME NEW o \in Tries, NEW r \in Slots, Create(o, r) PROVE Same(o)
    <3>1. CASE try' = [try EXCEPT ![o].at = "token", ![o].rows = {}, ![o].again = TRUE]
      BY <2>0, <2>5, <3>1 DEF Create, Kinds, TrySet
    <3>2. CASE \E at \in {"in", "refused", "failed"} : Step(o, at)
      BY <2>3, <2>5, <3>2 DEF Create
    <3> QED
      BY <2>5, <3>1, <3>2 DEF Create
  <2>6. ASSUME NEW o \in Tries, NEW p \in People, NEW claim \in Claims, Token(o, p, claim)
        PROVE  Goal
    <3> DEFINE q == [NoTry EXCEPT !.at = "token", !.who = p, !.email = address[p], !.claim = claim]
    <3>1. q.who = p /\ q.email = address[p] /\ try' = [try EXCEPT ![o] = q]
      BY <2>6 DEF Token, NoTry
    <3>2. address[p] \in Emails
      BY DEF Kinds
    <3> HIDE DEF q
    <3> QED
      BY <1>5, <3>1, <3>2 DEF Kinds, Sound
  <2>7. ASSUME NEW o \in Tries, Answered(o) PROVE Goal
    BY <1>5, <2>0, <2>7 DEF Answered, Kinds, Sound
  <2>8. ASSUME NEW o \in Tries, NEW r \in Slots, Link(o, r) PROVE Same(o)
    BY <2>3, <2>8 DEF Link
  <2>9. ASSUME NEW o \in Tries, Refuse(o) PROVE Same(o)
    BY <2>3, <2>9 DEF Refuse
  <2> HIDE DEF Goal, Same
  <2>10. Goal
    BY <2>1, <2>2, <2>4, <2>5, <2>6, <2>7, <2>8, <2>9
       DEF Next, SignIn, Bind, Rename, Inspect, Invite, GiveUp, Ask, Record, vars
  <2> QED
    BY <2>10 DEF Goal
<1> QED
  BY <1>2, <1>4, <1>5 DEF Sound

\* A row that is written claims no account another row has.
LEMMA StepUnshared ==
  ASSUME None \notin Emails, Kinds, Sound, Unshared, [Next]_vars
  PROVE  Unshared'
<1>1. CASE rows' = rows
  BY <1>1 DEF Unshared, Uuids
<1>2. ASSUME NEW r \in Slots, NEW row \in RowSet, OneRow(r, row)
      PROVE  Unshared'
  <2>1. \A s \in Slots : rows'[s] = IF s = r THEN row ELSE rows[s]
    BY <1>2 DEF OneRow, Kinds
  <2>2. \A s \in Slots \ {r} : Uuids(row) \cap Uuids(rows[s]) = {}
    BY <1>2 DEF OneRow, Owned
  <2>3. ASSUME NEW s \in Slots, NEW o \in Slots, s # o
        PROVE  Uuids(rows'[s]) \cap Uuids(rows'[o]) = {}
    <3>1. CASE s = r
      BY <2>1, <2>2, <2>3, <3>1
    <3>2. CASE o = r
      BY <2>1, <2>2, <2>3, <3>2
    <3>3. CASE s # r /\ o # r
      BY <2>1, <2>3, <3>3 DEF Unshared
    <3> QED
      BY <3>1, <3>2, <3>3
  <2> QED
    BY <2>3 DEF Unshared, Uuids
<1> QED
  BY <1>1, <1>2, StepRows

LEMMA StepIdentity ==
  ASSUME MaxMoves \in Nat, Claims \subseteq BOOLEAN, None \notin Emails
  PROVE  IdentityInv /\ [Next]_vars => IdentityInv'
BY StepKinds, StepSound, StepUnshared DEF IdentityInv

\* No account of Authentik belongs to two users in any reachable state: whoever
\* writes a row, an invitation, the worker or a sign-in, sees what the others
\* committed (db/022), for any number of people and concurrent sign-ins.
THEOREM OneOwnerCorrect ==
  ASSUME MaxMoves \in Nat, Claims \subseteq BOOLEAN, None \notin Emails
  PROVE  Spec => []OneOwner
<1>1. Init => IdentityInv
  BY InitIdentity
<1>2. IdentityInv /\ [Next]_vars => IdentityInv'
  BY StepIdentity
<1>3. IdentityInv => OneOwner
  BY DEF IdentityInv, Kinds, Sound, Unshared, OneOwner, IdentityTypeOK, RowSet, TrySet
<1> QED
  BY <1>1, <1>2, <1>3, PTL DEF Spec

\* A sign-in that succeeds ends in a user of the person who signs in.
LEMMA StepNeverForeign ==
  ASSUME Kinds, Sound, [Next]_vars
  PROVE  NeverForeign
<1> SUFFICES ASSUME NEW t \in Tries, try[t].at = "locked", try'[t].at = "in"
             PROVE  \E r \in Slots :
                      /\ rows'[r].subject = try[t].who
                      /\ {rows'[r].mgmt, rows'[r].oidc} \subseteq {None, try[t].who}
  BY DEF NeverForeign
<1> DEFINE Mine == \E r \in Slots :
                      /\ rows'[r].subject = try[t].who
                      /\ {rows'[r].mgmt, rows'[r].oidc} \subseteq {None, try[t].who}
<1>0. NoTry.at = "idle" /\ \A o \in Tries : try[o] \in TrySet
  BY DEF NoTry, Kinds
<1>1. ASSUME NEW r \in Slots, rows'[r] = LinkedRow(t, r), Immutable(t, r) \/ Unclaimed(r)
      PROVE  Mine
  <2>1. /\ rows'[r].subject = try[t].who /\ rows'[r].mgmt = rows[r].mgmt
        /\ rows'[r].oidc = IF rows[r].oidc = None /\ try[t].claim THEN try[t].who
                           ELSE rows[r].oidc
    BY <1>1, LinkedRowIs
  <2>2. {rows[r].mgmt, rows[r].oidc} \subseteq {None, try[t].who}
    BY <1>1 DEF Immutable, Unclaimed, NoRow
  <2> QED
    BY <2>1, <2>2
<1>2. ASSUME NEW o \in Tries, NEW r \in Slots, Link(o, r) PROVE Mine
  <2>1. o = t
    BY <1>2 DEF Link, Step, Kinds
  <2>2. rows' = [rows EXCEPT ![r] = LinkedRow(t, r)] /\ Immutable(t, r)
    BY <1>0, <1>2, <2>1 DEF Link, Step, Kinds, TrySet, Accepts
  <2> QED
    BY <1>1, <2>2 DEF Kinds
<1>3. ASSUME NEW o \in Tries, NEW r \in Slots, Create(o, r) PROVE Mine
  <2>1. o = t
    BY <1>3 DEF Create, Step, Kinds
  <2>2. rows' = [rows EXCEPT ![r] = LinkedRow(t, r)] /\ Unclaimed(r)
    BY <1>0, <1>3, <2>1 DEF Create, Step, Kinds, TrySet
  <2> QED
    BY <1>1, <2>2 DEF Kinds
<1>4. ASSUME try' = try PROVE FALSE
  BY <1>4
<1>5. ASSUME NEW o \in Tries, NEW p \in People, NEW claim \in Claims,
             Token(o, p, claim)
      PROVE  FALSE
  BY <1>5 DEF Token, Kinds
<1>6. ASSUME NEW o \in Tries, Look(o) \/ Lock(o) \/ Refuse(o) \/ Answered(o)
      PROVE  FALSE
  BY <1>0, <1>6 DEF Look, Lock, Refuse, Answered, Step, Kinds, TrySet
<1> HIDE DEF Mine
<1>7. Mine
  BY <1>2, <1>3, <1>4, <1>5, <1>6
     DEF Next, SignIn, Bind, Rename, Inspect, Invite, GiveUp, Ask, Record, vars
<1> QED
  BY <1>7 DEF Mine

\* Whom a user stands for does not change by signing in: a sign-in ends in no
\* user that is bound to somebody else, although the address is what found it,
\* and a user keeps the subject that signed in to it first.
THEOREM IdentityIsForeverCorrect ==
  ASSUME MaxMoves \in Nat, Claims \subseteq BOOLEAN, None \notin Emails
  PROVE  Spec => [][IdentityIsForever]_vars
<1>1. Init => IdentityInv
  BY InitIdentity
<1>2. IdentityInv /\ [Next]_vars => IdentityInv'
  BY StepIdentity
<1>3. IdentityInv /\ [Next]_vars => IdentityIsForever
  <2> SUFFICES ASSUME IdentityInv, [Next]_vars PROVE NeverForeign /\ SubjectIsForever
    BY DEF IdentityIsForever
  <2>1. NeverForeign
    BY StepNeverForeign DEF IdentityInv
  <2>2. SubjectIsForever
    BY StepRows DEF IdentityInv, Kinds, OneRow, SubjectIsForever
  <2> QED
    BY <2>1, <2>2
<1> QED
  BY <1>1, <1>2, <1>3, PTL DEF Spec
=============================================================================
