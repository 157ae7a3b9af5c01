--------------------------- MODULE BrowserProofs ---------------------------
(***************************************************************************)
(* Proofs about the page in the browser: staying signed in, the proof      *)
(* drawer, the list of people, the review queue and the dashboard, for any *)
(* number of requests, forms, members, proofs and inventories.             *)
(***************************************************************************)
EXTENDS SessionToken, ProofForm, PeopleDesk, ReviewDesk, SessionDesk,
        FiniteSetTheorems, TLAPS

(***************************************************************************)
(* Staying signed in.  Where the proofs need that there is one tab they    *)
(* say so: two tabs renew past each other.                                 *)
(***************************************************************************)
\* The records, named so that a proof need not open them; n tokens were issued.
CallSet(n) == [at: {"idle", "renewing", "sent"}, token: 0..n,
               retry: BOOLEAN, on: Calls \cup {NoOne}]
FlightSet(n) == [at: {"none", "sent", "server", "back"}, with: 0..n, was: 0..n,
                 result: {"none", "renewed", "rejected", "unavailable"},
                 token: 0..n, cancelled: BOOLEAN]
Records(n) == call \in [Calls -> CallSet(n)] /\ flight \in [Calls -> FlightSet(n)]
Scalars ==
  /\ stored \in 0..issued /\ cookie \in 0..issued /\ good \in 1..issued
  /\ issued \in 1..MaxToken /\ expired \subseteq 1..issued
  /\ page \in [Tabs -> {"open", "leaving", "out", "failed"}]
  /\ reconnect \in [Tabs -> BOOLEAN] /\ over \in BOOLEAN
  /\ losses \in 0..Losses

LEMMA TypesAre ==
  /\ TokenTypeOK <=> Scalars /\ Records(issued)
  /\ TokenTypeOK' <=> Scalars' /\ Records(issued)'
BY DEF TokenTypeOK, Scalars, Records, CallSet, FlightSet

\* A request is made in a tab.
LEMMA TabOf == \A c \in Calls : Tab(c) \in Tabs
BY DEF Calls, Tab

-----------------------------------------------------------------------------
(***************************************************************************)
(* Types, for any number of tabs.                                          *)
(***************************************************************************)
LEMMA RecordsGrow ==
  ASSUME NEW n \in Nat
  PROVE  CallSet(n) \subseteq CallSet(n + 1) /\ FlightSet(n) \subseteq FlightSet(n + 1)
<1>1. 0..n \subseteq 0..(n + 1)
  OBVIOUS
<1>2. CallSet(n) \subseteq CallSet(n + 1)
  BY <1>1 DEF CallSet
<1>3. FlightSet(n) \subseteq FlightSet(n + 1)
  BY <1>1 DEF FlightSet
<1> QED
  BY <1>2, <1>3

LEMMA FreshRecords ==
  ASSUME NEW n \in Nat
  PROVE  NoCall \in CallSet(n) /\ NoFlight \in FlightSet(n)
BY DEF NoCall, NoFlight, CallSet, FlightSet

\* Waiting requests go on with the token, or end.
LEMMA ToldIsCalls ==
  ASSUME NEW n \in Nat, NEW c \in Calls, NEW ok \in BOOLEAN, NEW token \in 0..n,
         call \in [Calls -> CallSet(n)], Told(c, ok, token)
  PROVE  call' \in [Calls -> CallSet(n)]
<1>1. ASSUME NEW d \in Calls
      PROVE  [call[d] EXCEPT !.at = "sent", !.token = token, !.on = NoOne] \in CallSet(n)
  BY DEF CallSet
<1>2. \A d \in Calls : call[d] \in CallSet(n)
  OBVIOUS
<1> QED
  BY <1>1, <1>2, FreshRecords DEF Told

LEMMA AnsweredIsFlights ==
  ASSUME NEW n \in Nat, NEW with, NEW result \in {"renewed", "rejected", "unavailable"},
         NEW token \in 0..n, flight \in [Calls -> FlightSet(n)], Answered(with, result, token)
  PROVE  flight' \in [Calls -> FlightSet(n)]
<1>1. ASSUME NEW c \in Calls
      PROVE  [flight[c] EXCEPT !.at = "back", !.result = result, !.token = token]
               \in FlightSet(n)
  BY DEF FlightSet
<1>2. \A c \in Calls : flight[c] \in FlightSet(n)
  OBVIOUS
<1> QED
  BY <1>1, <1>2 DEF Answered

\* A request that needs a new token joins the flight of its tab, or starts one.
LEMMA RenewingIs ==
  ASSUME TokenTypeOK, NEW c \in Calls, NEW retry \in BOOLEAN, Renewing(c, retry)
  PROVE  /\ call' \in [Calls -> CallSet(issued)] /\ page[Tab(c)] = "open"
         /\ \/ flight' = flight
            \/ Flights(Tab(c)) = {} /\ flight' = [flight EXCEPT ![c] = NewFlight]
<1>1. \A d \in Calls : Waiter(d, retry) \in CallSet(issued)
  BY TypesAre, TokenAssumption DEF Waiter, CallSet, Scalars
<1>2. \E d \in Calls : call' = [call EXCEPT ![c] = Waiter(d, retry)]
  BY DEF Renewing, Joins, Flights
<1>3. call' \in [Calls -> CallSet(issued)]
  BY <1>1, <1>2, TypesAre DEF Records
<1> QED
  BY <1>3 DEF Renewing, Joins

LEMMA NewFlightIs ==
  ASSUME TokenTypeOK
  PROVE  /\ NewFlight \in FlightSet(issued) /\ NewFlight.at = "sent"
         /\ NewFlight.with = cookie /\ NewFlight.result = "none"
BY TypesAre, TokenAssumption DEF NewFlight, FlightSet, Scalars

LEMMA CallTypes ==
  ASSUME TokenTypeOK, NEW c \in Calls, CallStep(c)
  PROVE  TokenTypeOK'
<1> USE TokenAssumption
<1>1. Scalars /\ Records(issued) /\ issued \in Nat
  BY TypesAre DEF Scalars
<1>2. NewFlight \in FlightSet(issued) /\ NoCall \in CallSet(issued)
  BY <1>1, NewFlightIs, FreshRecords
<1>3. UNCHANGED <<cookie, good, issued, expired, page, losses, over>>
  BY DEF CallStep, Send, Restore, Succeed, Unauthorized, Rest
<1>4. stored' \in 0..issued
  <2>1. stored' \in {stored, 0}
    BY DEF CallStep, Send, Restore, Succeed, Unauthorized
  <2> QED
    BY <1>1, <2>1 DEF Scalars
<1>5. reconnect' \in [Tabs -> BOOLEAN]
  <2>1. reconnect' = reconnect \/ reconnect' = [reconnect EXCEPT ![Tab(c)] = TRUE]
    BY DEF CallStep, Send, Restore, Succeed, Unauthorized
  <2> QED
    BY <1>1, <2>1, TabOf DEF Scalars
<1>6. ASSUME NEW retry \in BOOLEAN, Renewing(c, retry)
      PROVE  Records(issued)'
  <2>1. flight' \in [Calls -> FlightSet(issued)]
    BY <1>1, <1>2, <1>6, RenewingIs DEF Records
  <2> QED
    BY <1>3, <1>6, <2>1, RenewingIs DEF Records, CallSet, FlightSet
<1>7. ASSUME call' \in [Calls -> CallSet(issued)], flight' = flight
      PROVE  Records(issued)'
  BY <1>1, <1>3, <1>7 DEF Records, CallSet, FlightSet
<1>8. [call EXCEPT ![c] = NoCall] \in [Calls -> CallSet(issued)]
  BY <1>1, <1>2 DEF Records
<1>9. CASE Send(c)
  <2>1. CASE stored \in expired
    <3>1. Renewing(c, TRUE)
      BY <1>9, <2>1 DEF Send
    <3> QED
      BY <1>1, <1>3, <1>4, <1>5, <1>6, <3>1, TypesAre DEF Scalars
  <2>2. CASE stored \notin expired
    <3>1. [at |-> "sent", token |-> stored, retry |-> TRUE, on |-> NoOne] \in CallSet(issued)
      BY <1>1 DEF CallSet, Scalars
    <3>2. call' \in [Calls -> CallSet(issued)]
      BY <1>1, <1>9, <2>2, <3>1 DEF Send, Records
    <3> QED
      BY <1>1, <1>3, <1>4, <1>5, <1>7, <1>9, <2>2, <3>2, TypesAre DEF Send, Scalars
  <2> QED
    BY <2>1, <2>2
<1>10. CASE Restore(c)
  BY <1>1, <1>3, <1>4, <1>5, <1>6, <1>10, TypesAre DEF Restore, Scalars
<1>11. CASE Succeed(c)
  BY <1>1, <1>3, <1>4, <1>5, <1>7, <1>8, <1>11, TypesAre DEF Succeed, Scalars
<1>12. CASE Unauthorized(c)
  <2>1. [call EXCEPT ![c].token = stored, ![c].retry = FALSE] \in [Calls -> CallSet(issued)]
    BY <1>1 DEF Records, CallSet, Scalars
  <2>2. \/ Renewing(c, FALSE)
        \/ flight' = flight /\ call' = [call EXCEPT ![c] = NoCall]
        \/ /\ flight' = flight
           /\ call' = [call EXCEPT ![c].token = stored, ![c].retry = FALSE]
    BY <1>12 DEF Unauthorized
  <2>3. Records(issued)'
    BY <1>6, <1>7, <1>8, <2>1, <2>2
  <2> QED
    BY <1>1, <1>3, <1>4, <1>5, <2>3, TypesAre DEF Scalars
<1> QED
  BY <1>9, <1>10, <1>11, <1>12 DEF CallStep

LEMMA FlightTypes ==
  ASSUME TokenTypeOK, NEW c \in Calls, FlightStep(c)
  PROVE  TokenTypeOK'
<1> USE TokenAssumption
<1>1. Scalars /\ Records(issued) /\ issued \in Nat
  BY TypesAre DEF Scalars
<1>2. NoFlight \in FlightSet(issued) /\ Tab(c) \in Tabs
  BY <1>1, FreshRecords, TabOf
<1>3. UNCHANGED <<good, issued, expired, over>>
  BY DEF FlightStep, Arrive, Renewed, NotRenewed, Lost
<1>4. flight[c].token \in 0..issued
  BY <1>1 DEF Records, FlightSet
<1>5. flight' \in [Calls -> FlightSet(issued)]
  <2>1. [flight EXCEPT ![c].at = "server"] \in [Calls -> FlightSet(issued)]
    BY <1>1 DEF Records, FlightSet
  <2>2. [flight EXCEPT ![c] = NoFlight] \in [Calls -> FlightSet(issued)]
    BY <1>1, <1>2 DEF Records
  <2> QED
    BY <2>1, <2>2 DEF FlightStep, Arrive, Renewed, NotRenewed, Lost
<1>6. call' \in [Calls -> CallSet(issued)]
  <2>1. \/ call' = call
        \/ \E ok \in BOOLEAN, token \in 0..issued : Told(c, ok, token)
    <3>1. 0 \in 0..issued
      BY <1>1
    <3> QED
      BY <1>4, <3>1 DEF FlightStep, Arrive, Renewed, NotRenewed, Lost
  <2> QED
    BY <1>1, <2>1, ToldIsCalls DEF Records
<1>7. stored' \in 0..issued /\ cookie' \in 0..issued /\ losses' \in 0..Losses
  <2>1. /\ stored' \in {stored, flight[c].token, 0} /\ cookie' \in {cookie, flight[c].token, 0}
        /\ losses' = losses \/ (losses < Losses /\ losses' = losses + 1)
    BY DEF FlightStep, Arrive, Renewed, NotRenewed, Lost, Landed
  <2> QED
    BY <1>1, <1>4, <2>1 DEF Scalars
<1>8. page' \in [Tabs -> {"open", "leaving", "out", "failed"}] /\ reconnect' \in [Tabs -> BOOLEAN]
  BY <1>1 DEF FlightStep, Arrive, Renewed, NotRenewed, Lost, Scalars
<1>9. Records(issued)'
  BY <1>3, <1>5, <1>6 DEF Records, CallSet, FlightSet
<1> QED
  BY <1>1, <1>3, <1>7, <1>8, <1>9, TypesAre DEF Scalars

LEMMA ProviderTypes ==
  ASSUME TokenTypeOK, NEW with \in 0..issued, Provider(with)
  PROVE  TokenTypeOK'
<1> USE TokenAssumption
<1>1. Scalars /\ Records(issued) /\ issued \in Nat
  BY TypesAre DEF Scalars
<1>2. CASE Rotate(with)
  <2>1. /\ call' \in [Calls -> CallSet(issued + 1)]
        /\ flight \in [Calls -> FlightSet(issued + 1)]
    BY <1>1, <1>2, RecordsGrow DEF Records, Rotate
  <2>2. flight' \in [Calls -> FlightSet(issued + 1)]
    BY <1>1, <1>2, <2>1, AnsweredIsFlights DEF Rotate
  <2>3. Records(issued)'
    BY <1>2, <2>1, <2>2 DEF Rotate, Records, CallSet, FlightSet
  <2>4. Scalars'
    BY <1>1, <1>2 DEF Rotate, Scalars
  <2> QED
    BY <2>3, <2>4, TypesAre
<1>3. CASE Reject(with) \/ Unavailable(with)
  <2>1. flight' \in [Calls -> FlightSet(issued)]
    BY <1>1, <1>3, AnsweredIsFlights DEF Reject, Unavailable, Records
  <2>2. Records(issued)'
    BY <1>1, <1>3, <2>1 DEF Reject, Unavailable, Records, CallSet, FlightSet
  <2>3. losses' = losses \/ (losses < Losses /\ losses' = losses + 1)
    BY <1>3 DEF Reject, Unavailable
  <2>4. Scalars'
    <3>1. losses' \in 0..Losses
      BY <1>1, <2>3 DEF Scalars
    <3>2. UNCHANGED <<stored, cookie, good, issued, expired, page, reconnect, over>>
      BY <1>3 DEF Reject, Unavailable
    <3> QED
      BY <1>1, <3>1, <3>2 DEF Scalars
  <2> QED
    BY <2>2, <2>4, TypesAre
<1> QED
  BY <1>2, <1>3 DEF Provider

LEMMA TabTypes ==
  ASSUME TokenTypeOK, (\E t \in Tabs : TabStep(t)) \/ TokenExpires
  PROVE  TokenTypeOK'
<1> USE TokenAssumption
<1>1. Scalars /\ Records(issued) /\ issued \in Nat
  BY TypesAre DEF Scalars
<1>2. ASSUME NEW t \in Tabs, SignOut(t) PROVE TokenTypeOK'
  <2>1. ASSUME NEW c \in Calls PROVE [flight[c] EXCEPT !.cancelled = TRUE] \in FlightSet(issued)
    BY <1>1 DEF Records, FlightSet
  <2>2. flight' \in [Calls -> FlightSet(issued)]
    BY <1>1, <1>2, <2>1 DEF SignOut, Records
  <2>3. Records(issued)' /\ Scalars'
    BY <1>1, <1>2, <2>2 DEF SignOut, Records, Scalars, CallSet, FlightSet
  <2> QED
    BY <2>3, TypesAre
<1>3. ASSUME NEW t \in Tabs, SignedOut(t) \/ SignOutFailed(t) \/ Reopen(t)
      PROVE  TokenTypeOK'
  <2>1. UNCHANGED <<good, issued, expired, call, flight>> /\ stored' \in {stored, 0}
    BY <1>3 DEF SignedOut, SignOutFailed, Reopen, Leaves
  <2>2. Records(issued)'
    BY <1>1, <2>1 DEF Records, CallSet, FlightSet
  <2>3. cookie' \in 0..issued /\ over' \in BOOLEAN /\ losses' \in 0..Losses
    <3>1. /\ cookie' \in {cookie, 0} /\ over' \in {over, FALSE}
          /\ losses' = losses \/ (losses < Losses /\ losses' = losses + 1)
      BY <1>3 DEF SignedOut, SignOutFailed, Reopen, Leaves
    <3>2. 0 \in 0..issued
      BY <1>1
    <3>3. losses' \in 0..Losses
      BY <1>1, <3>1 DEF Scalars
    <3> QED
      BY <1>1, <3>1, <3>2, <3>3 DEF Scalars
  <2>4. /\ page' \in [Tabs -> {"open", "leaving", "out", "failed"}]
        /\ reconnect' \in [Tabs -> BOOLEAN]
    BY <1>1, <1>3 DEF SignedOut, SignOutFailed, Reopen, Leaves, Scalars
  <2>5. Scalars'
    BY <1>1, <2>1, <2>3, <2>4 DEF Scalars
  <2> QED
    BY <2>2, <2>5, TypesAre
<1>4. ASSUME NEW t \in Tabs, SignIn(t) PROVE TokenTypeOK'
  <2>1. /\ call \in [Calls -> CallSet(issued + 1)]
        /\ flight \in [Calls -> FlightSet(issued + 1)]
    BY <1>1, RecordsGrow DEF Records
  <2>2. Records(issued)'
    BY <1>4, <2>1 DEF SignIn, Records, CallSet, FlightSet
  <2>3. Scalars'
    <3>1. /\ page' \in [Tabs -> {"open", "leaving", "out", "failed"}]
          /\ reconnect' \in [Tabs -> BOOLEAN] /\ over' \in BOOLEAN
          /\ losses' \in 0..Losses
      BY <1>1, <1>4 DEF SignIn, Scalars
    <3>2. /\ issued' \in 1..MaxToken /\ expired' \subseteq 1..issued'
          /\ stored' \in 0..issued' /\ cookie' \in 0..issued' /\ good' \in 1..issued'
      BY <1>1, <1>4 DEF SignIn, Scalars
    <3> QED
      BY <3>1, <3>2 DEF Scalars
  <2> QED
    BY <2>2, <2>3, TypesAre
<1>5. ASSUME TokenExpires PROVE TokenTypeOK'
  <2>1. Records(issued)' /\ Scalars'
    BY <1>1, <1>5 DEF TokenExpires, Records, Scalars, CallSet, FlightSet
  <2> QED
    BY <2>1, TypesAre
<1> QED
  BY <1>2, <1>3, <1>4, <1>5 DEF TabStep

LEMMA TypesKept == TokenTypeOK /\ [Next]_vars => TokenTypeOK'
<1> SUFFICES ASSUME TokenTypeOK, [Next]_vars PROVE TokenTypeOK'
  OBVIOUS
<1>1. CASE UNCHANGED vars
  BY <1>1 DEF vars, TokenTypeOK
<1> QED
  BY <1>1, CallTypes, FlightTypes, ProviderTypes, TabTypes DEF Next

-----------------------------------------------------------------------------
(***************************************************************************)
(* The session of a single tab.                                            *)
(***************************************************************************)
OneTab == \E t : Tabs = {t}

\* One renewal is under way at a time.
OneFlight == \A c, d \in Calls : flight[c].at # "none" /\ flight[d].at # "none" => c = d

\* Who is signing out is told that it failed, or has no refresh token in the end,
\* and no access token from the start.
Phase(t) ==
  /\ page[t] = "leaving" => over
  /\ over /\ page[t] # "leaving" => cookie = 0
NoToken == over => stored = 0

\* An answer is there once the provider has given it, a renewed token with it.
Answers(c) ==
  /\ flight[c].at # "back" => flight[c].result = "none"
  /\ flight[c].at = "back" => flight[c].result # "none"
  /\ flight[c].result = "renewed" => flight[c].token # 0
\* A renewal that outlives the session has been cancelled, and is waited for;
\* one that is started afterwards has no token to present.
Cancelled(c) == flight[c].at # "none" /\ over =>
  \/ flight[c].cancelled /\ page[Tab(c)] = "leaving"
  \/ flight[c].with = 0 /\ flight[c].result # "renewed"

\* The token that is good is in the cookie, or on its way in the one answer.
GoodIsAt(c) ==
  /\ flight[c].at \in {"sent", "server"} => flight[c].with = good /\ cookie = good
  /\ flight[c].at = "back" =>
       \/ flight[c].result = "renewed" /\ flight[c].token = good
       \/ flight[c].result = "unavailable" /\ cookie = good
GoodIsKept ==
  losses = 0 /\ ~over => RenewalSurvives /\ \A c \in Calls : GoodIsAt(c)

SessionInv ==
  /\ OneFlight /\ NoToken /\ GoodIsKept
  /\ \A t \in Tabs : Phase(t)
  /\ \A c \in Calls : Cancelled(c)

LEMMA AnswersInitially == Init => TokenTypeOK /\ \A c \in Calls : Answers(c)
<1> SUFFICES ASSUME Init PROVE TokenTypeOK /\ \A c \in Calls : Answers(c)
  OBVIOUS
<1>1. Scalars
  <2>1. issued = 1 /\ MaxToken \in Nat /\ MaxToken # 0 /\ Losses \in Nat
    BY TokenAssumption DEF Init
  <2>2. issued \in 1..MaxToken /\ losses \in 0..Losses
    BY <2>1 DEF Init
  <2>3. /\ page \in [Tabs -> {"open", "leaving", "out", "failed"}]
        /\ reconnect \in [Tabs -> BOOLEAN] /\ over \in BOOLEAN
    BY DEF Init
  <2>4. /\ stored \in 0..issued /\ cookie \in 0..issued /\ good \in 1..issued
        /\ expired \subseteq 1..issued
    BY DEF Init
  <2> QED
    BY <2>2, <2>3, <2>4 DEF Scalars
<1>2. issued = 1 /\ NoCall \in CallSet(1) /\ NoFlight \in FlightSet(1)
  BY FreshRecords DEF Init
<1>3. Records(issued)
  BY <1>2 DEF Init, Records
<1>4. ASSUME NEW c \in Calls PROVE Answers(c)
  BY DEF Init, Answers, NoFlight
<1> QED
  BY <1>1, <1>3, <1>4, TypesAre

\* What each kind of step makes of the flights.
LEMMA CallFlights ==
  ASSUME TokenTypeOK, NEW c \in Calls, CallStep(c)
  PROVE  /\ UNCHANGED <<cookie, good, issued, page, over, losses>>
         /\ stored' \in {stored, 0}
         /\ \/ flight' = flight
            \/ /\ page[Tab(c)] = "open" /\ Flights(Tab(c)) = {}
               /\ flight' = [flight EXCEPT ![c] = NewFlight]
<1>1. UNCHANGED <<cookie, good, issued, page, over, losses>>
  BY DEF CallStep, Send, Restore, Succeed, Unauthorized, Rest
<1>2. stored' \in {stored, 0}
  BY DEF CallStep, Send, Restore, Succeed, Unauthorized
<1>3. flight' = flight \/ \E retry \in BOOLEAN : Renewing(c, retry)
  BY DEF CallStep, Send, Restore, Succeed, Unauthorized
<1> QED
  BY <1>1, <1>2, <1>3, RenewingIs

LEMMA AnsweredFlights ==
  ASSUME TokenTypeOK, NEW with, NEW result, NEW token, Answered(with, result, token),
         NEW c \in Calls
  PROVE  IF flight[c].at = "server" /\ flight[c].with = with
         THEN /\ flight'[c].at = "back" /\ flight'[c].result = result
              /\ flight'[c].token = token /\ flight'[c].cancelled = flight[c].cancelled
              /\ flight'[c].with = with
         ELSE flight'[c] = flight[c]
<1>1. flight[c] \in FlightSet(issued)
  BY TypesAre DEF Records
<1> QED
  BY <1>1 DEF Answered, FlightSet

LEMMA SignOutFlights ==
  ASSUME TokenTypeOK, NEW t \in Tabs, SignOut(t), NEW c \in Calls
  PROVE  /\ flight'[c].at = flight[c].at /\ flight'[c].result = flight[c].result
         /\ flight'[c].token = flight[c].token
         /\ flight[c].at # "none" /\ Tab(c) = t => flight'[c].cancelled
<1>1. flight[c] \in FlightSet(issued)
  BY TypesAre DEF Records
<1>2. flight'[c] = IF c \in Flights(t) THEN [flight[c] EXCEPT !.cancelled = TRUE]
                   ELSE flight[c]
  BY DEF SignOut
<1>3. c \in Flights(t) <=> Tab(c) = t /\ flight[c].at # "none"
  BY DEF Flights
<1> QED
  BY <1>1, <1>2, <1>3 DEF FlightSet

LEMMA AnswersKept ==
  ASSUME TokenTypeOK, \A c \in Calls : Answers(c), [Next]_vars
  PROVE  \A c \in Calls : Answers(c)'
<1> SUFFICES ASSUME NEW d \in Calls PROVE Answers(d)'
  OBVIOUS
<1>0. flight \in [Calls -> FlightSet(issued)] /\ issued \in Nat /\ Answers(d)
  BY TypesAre, TokenAssumption DEF Records, Scalars
<1>1. CASE flight'[d] = flight[d]
  BY <1>0, <1>1 DEF Answers
<1>2. ASSUME NEW c \in Calls, CallStep(c) PROVE Answers(d)'
  <2>1. CASE flight' = [flight EXCEPT ![c] = NewFlight]
    BY <1>0, <2>1 DEF Answers, NewFlight
  <2> QED
    BY <1>1, <1>2, <2>1, CallFlights
<1>3. ASSUME NEW c \in Calls, FlightStep(c) PROVE Answers(d)'
  <2>1. CASE flight' = [flight EXCEPT ![c] = NoFlight]
    BY <1>0, <2>1 DEF Answers, NoFlight
  <2>2. CASE Arrive(c)
    <3>1. flight'[c].at = "server" /\ flight'[c].result = flight[c].result
      BY <1>0, <2>2 DEF Arrive, FlightSet
    <3>2. d # c => flight'[d] = flight[d]
      BY <1>0, <2>2 DEF Arrive
    <3> QED
      BY <1>0, <1>1, <2>2, <3>1, <3>2 DEF Answers, Arrive
  <2> QED
    BY <1>3, <2>1, <2>2 DEF FlightStep, Renewed, NotRenewed, Lost
<1>4. ASSUME NEW with \in 0..issued, Provider(with) PROVE Answers(d)'
  <2>1. \E result \in {"renewed", "rejected", "unavailable"}, token \in 0..(issued + 1) :
          /\ Answered(with, result, token)
          /\ result = "renewed" => token = issued + 1
    BY <1>0, <1>4 DEF Provider, Rotate, Reject, Unavailable
  <2>2. PICK result \in {"renewed", "rejected", "unavailable"}, token \in 0..(issued + 1) :
          /\ Answered(with, result, token)
          /\ result = "renewed" => token = issued + 1
    BY <2>1
  <2>3. result = "renewed" => token # 0
    BY <1>0, <2>2
  <2> QED
    BY <1>1, <2>2, <2>3, AnsweredFlights DEF Answers
<1>5. ASSUME NEW t \in Tabs, TabStep(t) PROVE Answers(d)'
  <2>1. CASE SignOut(t)
    BY <1>0, <2>1, SignOutFlights DEF Answers
  <2> QED
    BY <1>1, <1>5, <2>1 DEF TabStep, SignedOut, SignOutFailed, Leaves, Reopen, SignIn
<1>6. CASE TokenExpires \/ UNCHANGED vars
  BY <1>1, <1>6 DEF TokenExpires, vars
<1> QED
  BY <1>2, <1>3, <1>4, <1>5, <1>6 DEF Next

AnswersInv == TokenTypeOK /\ \A c \in Calls : Answers(c)

LEMMA AnswersAlways == Spec => []AnswersInv
<1>1. Init => AnswersInv
  BY AnswersInitially DEF AnswersInv
<1>2. AnswersInv /\ [Next]_vars => AnswersInv'
  BY TypesKept, AnswersKept DEF AnswersInv
<1> QED
  BY <1>1, <1>2, PTL DEF Spec

\* A session whose access token still works is not dropped needlessly, however
\* many tabs and requests share it.
THEOREM NoNeedlessSignOutCorrect == Spec => NoNeedlessSignOut
<1> DEFINE Dropping == stored # 0 /\ stored \notin expired /\ stored' = 0
           Reasoned ==
             \/ \E t \in Tabs : page[t] # page'[t] /\ page'[t] \in {"leaving", "out", "failed"}
             \/ \E c \in Calls : flight[c].result = "rejected" /\ flight'[c].at = "none"
<1>1. ASSUME TokenTypeOK, \A c \in Calls : Answers(c), [Next]_vars, Dropping
      PROVE  Reasoned
  <2>0. /\ flight \in [Calls -> FlightSet(issued)] /\ issued \in Nat /\ issued # 0
        /\ page \in [Tabs -> {"open", "leaving", "out", "failed"}]
    BY <1>1, TypesAre, TokenAssumption DEF Records, Scalars
  <2>1. ASSUME NEW c \in Calls, CallStep(c) PROVE FALSE
    BY <1>1, <2>1 DEF CallStep, Send, Restore, Succeed, Unauthorized, Dropped
  <2>2. ASSUME NEW c \in Calls, FlightStep(c) PROVE Reasoned
    <3>1. ~Renewed(c)
      BY <1>1 DEF Renewed, Landed, Answers
    <3>2. NotRenewed(c) /\ flight[c].result = "rejected"
      BY <1>1, <2>2, <3>1 DEF FlightStep, Arrive, NotRenewed, Lost
    <3>3. flight'[c].at = "none"
      BY <2>0, <3>2 DEF NotRenewed, NoFlight
    <3> QED
      BY <3>2, <3>3
  <2>3. ASSUME NEW t \in Tabs, TabStep(t) PROVE Reasoned
    <3>1. SignOut(t) \/ SignedOut(t) \/ SignOutFailed(t)
      BY <1>1, <2>0, <2>3 DEF TabStep, SignIn, Reopen
    <3>2. page[t] # page'[t] /\ page'[t] \in {"leaving", "out", "failed"}
      BY <2>0, <3>1 DEF SignOut, SignedOut, SignOutFailed, Leaves
    <3> QED
      BY <3>2
  <2>4. ASSUME NEW with \in 0..issued, Provider(with) PROVE FALSE
    BY <1>1, <2>4 DEF Provider, Rotate, Reject, Unavailable
  <2>5. CASE TokenExpires \/ UNCHANGED vars
    BY <1>1, <2>5 DEF TokenExpires, vars
  <2> QED
    BY <1>1, <2>1, <2>2, <2>3, <2>4, <2>5 DEF Next
<1>2. AnswersInv /\ [Next]_vars => [Dropping => Reasoned]_vars
  BY <1>1 DEF AnswersInv
<1> QED
  BY <1>2, AnswersAlways, PTL DEF Spec, NoNeedlessSignOut

-----------------------------------------------------------------------------
(***************************************************************************)
(* With one tab the session survives its renewals and ends for good.       *)
(***************************************************************************)
LEMMA SessionInitially == ASSUME Init PROVE SessionInv
<1>1. \A c \in Calls : flight[c] = NoFlight
  BY DEF Init
<1>2. \A c \in Calls : flight[c].at = "none"
  BY <1>1 DEF NoFlight
<1>3. OneFlight /\ NoToken /\ \A c \in Calls : Cancelled(c)
  BY <1>2 DEF Init, OneFlight, NoToken, Cancelled
<1>4. \A t \in Tabs : Phase(t)
  BY DEF Init, Phase
<1>5. GoodIsKept
  BY <1>2 DEF Init, GoodIsKept, RenewalSurvives, GoodIsAt
<1> QED
  BY <1>3, <1>4, <1>5 DEF SessionInv

LEMMA CallKeeps ==
  ASSUME OneTab, AnswersInv, SessionInv, NEW c \in Calls, CallStep(c)
  PROVE  SessionInv'
<1>0. /\ TokenTypeOK /\ flight \in [Calls -> FlightSet(issued)] /\ Tab(c) \in Tabs
      /\ stored' = stored \/ stored' = 0
      /\ UNCHANGED <<cookie, good, issued, page, over, losses>>
  BY TypesAre, TabOf, CallFlights DEF AnswersInv, Records
<1>1. NoToken' /\ \A t \in Tabs : Phase(t)'
  BY <1>0 DEF SessionInv, NoToken, Phase
<1>2. CASE flight' = flight
  BY <1>0, <1>1, <1>2 DEF SessionInv, OneFlight, GoodIsKept, RenewalSurvives, GoodIsAt, Cancelled
<1>3. CASE /\ page[Tab(c)] = "open" /\ Flights(Tab(c)) = {}
           /\ flight' = [flight EXCEPT ![c] = NewFlight]
  <2>1. /\ \A d \in Calls : flight[d].at = "none"
        /\ \A d \in Calls : d # c => flight'[d] = flight[d]
    BY <1>0, <1>3, TabOf DEF Flights, OneTab
  <2>2. /\ flight'[c].at = "sent" /\ flight'[c].with = cookie
        /\ flight'[c].result = "none" /\ (over => cookie = 0)
    BY <1>0, <1>3 DEF NewFlight, SessionInv, Phase
  <2>3. OneFlight'
    BY <2>1 DEF OneFlight
  <2>4. \A d \in Calls : Cancelled(d)'
    BY <1>0, <1>3, <2>1, <2>2 DEF Cancelled
  <2>5. GoodIsKept'
    <3>1. losses = 0 /\ ~over => cookie = good
      BY <2>1, <2>2 DEF SessionInv, GoodIsKept, RenewalSurvives
    <3>2. \A d \in Calls : losses = 0 /\ ~over => GoodIsAt(d)'
      BY <1>0, <2>1, <2>2, <3>1 DEF GoodIsAt
    <3> QED
      BY <1>0, <2>2, <3>1, <3>2 DEF GoodIsKept, RenewalSurvives
  <2> QED
    BY <1>1, <2>3, <2>4, <2>5 DEF SessionInv
<1> QED
  BY <1>0, <1>2, <1>3, CallFlights

LEMMA FlightKeeps ==
  ASSUME OneTab, AnswersInv, SessionInv, NEW c \in Calls, FlightStep(c)
  PROVE  SessionInv'
<1>0. /\ TokenTypeOK /\ flight \in [Calls -> FlightSet(issued)] /\ Tab(c) \in Tabs
      /\ page \in [Tabs -> {"open", "leaving", "out", "failed"}] /\ losses \in Nat /\ good # 0
      /\ flight[c].at # "none" /\ UNCHANGED <<good, issued, over>>
  <2>1. /\ TokenTypeOK /\ flight \in [Calls -> FlightSet(issued)]
        /\ page \in [Tabs -> {"open", "leaving", "out", "failed"}] /\ losses \in Nat /\ good # 0
    BY TypesAre, TokenAssumption DEF AnswersInv, Records, Scalars
  <2>2. flight[c].at # "none" /\ UNCHANGED <<good, issued, over>>
    BY DEF FlightStep, Arrive, Renewed, NotRenewed, Lost
  <2> QED
    BY <2>1, <2>2, TabOf
<1>1. \A d \in Calls : d # c => flight[d].at = "none"
  BY <1>0 DEF SessionInv, OneFlight
<1>2. \A d \in Calls : d # c => flight'[d] = flight[d]
  BY <1>0 DEF FlightStep, Arrive, Renewed, NotRenewed, Lost
<1>3. OneFlight'
  BY <1>1, <1>2 DEF OneFlight
<1>4. ASSUME flight'[c].at = "none", \A t \in Tabs : Phase(t)', NoToken',
             losses' = 0 /\ ~over => cookie' = good
      PROVE  SessionInv'
  <2>1. \A d \in Calls : flight'[d].at = "none"
    BY <1>1, <1>2, <1>4
  <2>2. \A d \in Calls : Cancelled(d)'
    BY <2>1 DEF Cancelled
  <2>3. GoodIsKept'
    BY <1>0, <1>4, <2>1 DEF GoodIsKept, RenewalSurvives, GoodIsAt
  <2> QED
    BY <1>3, <1>4, <2>2, <2>3 DEF SessionInv
<1>5. flight' = [flight EXCEPT ![c] = NoFlight] => flight'[c].at = "none"
  BY <1>0 DEF NoFlight
<1>6. CASE Arrive(c)
  <2>1. /\ flight'[c].at = "server" /\ flight'[c].with = flight[c].with
        /\ flight'[c].cancelled = flight[c].cancelled
        /\ flight'[c].result = flight[c].result
    BY <1>0, <1>6 DEF Arrive, FlightSet
  <2>2. UNCHANGED <<stored, cookie, page, losses>>
    BY <1>6 DEF Arrive
  <2>3. NoToken' /\ \A t \in Tabs : Phase(t)'
    BY <1>0, <2>2 DEF SessionInv, NoToken, Phase
  <2>4. \A d \in Calls : Cancelled(d)'
    BY <1>0, <1>2, <2>1, <2>2 DEF SessionInv, Cancelled
  <2>5. GoodIsKept'
    <3>1. \A d \in Calls : GoodIsAt(d) => GoodIsAt(d)'
      BY <1>0, <1>2, <1>6, <2>1, <2>2 DEF GoodIsAt, Arrive
    <3>2. ~(\A d \in Calls : flight'[d].at = "none")
      BY <2>1
    <3> QED
      BY <1>0, <2>2, <3>1, <3>2 DEF SessionInv, GoodIsKept, RenewalSurvives
  <2> QED
    BY <1>3, <2>3, <2>4, <2>5 DEF SessionInv
<1>7. CASE Renewed(c)
  <2>1. /\ flight'[c].at = "none" /\ losses' = losses /\ cookie' = flight[c].token
        /\ flight[c].at = "back" /\ flight[c].result = "renewed"
    BY <1>5, <1>7 DEF Renewed
  <2>2. losses' = 0 /\ ~over => cookie' = good
    BY <1>0, <2>1 DEF SessionInv, GoodIsKept, GoodIsAt
  <2>3. over => flight[c].cancelled /\ page[Tab(c)] = "leaving"
    BY <1>0, <2>1 DEF SessionInv, Cancelled
  <2>4. CASE Kept(flight[c])
    <3>1. ~over /\ page' = [page EXCEPT ![Tab(c)] = "open"]
      BY <1>7, <2>3, <2>4 DEF Renewed, Kept
    <3>2. NoToken' /\ \A t \in Tabs : Phase(t)'
      BY <1>0, <3>1 DEF SessionInv, NoToken, Phase, OneTab
    <3> QED
      BY <1>4, <2>1, <2>2, <3>2
  <2>5. CASE ~Kept(flight[c])
    <3>1. UNCHANGED <<stored, page>>
      BY <1>7, <2>5 DEF Renewed
    <3>2. NoToken' /\ \A t \in Tabs : Phase(t)'
      BY <1>0, <2>3, <3>1 DEF SessionInv, NoToken, Phase, OneTab
    <3> QED
      BY <1>4, <2>1, <2>2, <3>2
  <2> QED
    BY <2>4, <2>5
<1>8. CASE NotRenewed(c)
  <2>1. /\ flight'[c].at = "none" /\ UNCHANGED <<losses, page>>
        /\ flight[c].at = "back" /\ flight[c].result \in {"rejected", "unavailable"}
        /\ stored' = stored \/ stored' = 0
        /\ cookie' = cookie \/ cookie' = 0
        /\ flight[c].result = "unavailable" => cookie' = cookie
    BY <1>5, <1>8 DEF NotRenewed
  <2>2. losses' = 0 /\ ~over => cookie' = good
    BY <1>0, <2>1 DEF SessionInv, GoodIsKept, GoodIsAt
  <2>3. NoToken' /\ \A t \in Tabs : Phase(t)'
    BY <1>0, <2>1 DEF SessionInv, NoToken, Phase
  <2> QED
    BY <1>4, <2>1, <2>2, <2>3
<1>9. CASE Lost(c)
  <2>1. flight'[c].at = "none" /\ losses' # 0 /\ UNCHANGED <<stored, cookie, page>>
    BY <1>0, <1>5, <1>9 DEF Lost
  <2>2. NoToken' /\ \A t \in Tabs : Phase(t)'
    BY <1>0, <2>1 DEF SessionInv, NoToken, Phase
  <2> QED
    BY <1>4, <2>1, <2>2
<1> QED
  BY <1>6, <1>7, <1>8, <1>9 DEF FlightStep

\* The provider's answer.
LEMMA ProviderKeeps ==
  ASSUME OneTab, AnswersInv, SessionInv, NEW with \in 0..issued, Provider(with)
  PROVE  SessionInv'
<1>0. /\ TokenTypeOK /\ good # 0 /\ losses \in Nat
      /\ UNCHANGED <<stored, cookie, page, over>>
      /\ losses' = 0 => losses = 0
  <2>1. TokenTypeOK /\ good # 0 /\ losses \in Nat
    BY TypesAre, TokenAssumption DEF AnswersInv, Scalars
  <2> QED
    BY <2>1 DEF Provider, Rotate, Reject, Unavailable
<1>1. PICK c \in Calls : flight[c].at = "server" /\ flight[c].with = with
  BY DEF Provider, Rotate, Reject, Unavailable, Waiting
<1>2. \A d \in Calls : d # c => flight[d].at = "none"
  BY <1>1 DEF SessionInv, OneFlight
<1>3. PICK result, token :
        /\ Answered(with, result, token)
        /\ \/ /\ result = "renewed" /\ token = good' /\ with # 0
           \/ /\ result = "rejected" /\ (with = 0 \/ with # good) /\ good' = good
           \/ /\ result = "unavailable" /\ good' = good
  BY DEF Provider, Rotate, Reject, Unavailable
<1>4. /\ flight'[c].at = "back" /\ flight'[c].result = result /\ flight'[c].token = token
      /\ flight'[c].cancelled = flight[c].cancelled /\ flight'[c].with = with
  BY <1>0, <1>1, <1>3, AnsweredFlights
<1>5. \A d \in Calls : d # c => flight'[d] = flight[d]
  BY <1>0, <1>2, <1>3, AnsweredFlights
<1>6. OneFlight'
  BY <1>2, <1>5 DEF OneFlight
<1>7. NoToken' /\ \A t \in Tabs : Phase(t)'
  BY <1>0 DEF SessionInv, NoToken, Phase
<1>8. \A d \in Calls : Cancelled(d)'
  BY <1>0, <1>1, <1>3, <1>4, <1>5 DEF SessionInv, Cancelled
<1>9. GoodIsKept'
  <2>1. ASSUME losses' = 0, ~over PROVE GoodIsAt(c)'
    <3>1. with = good /\ cookie = good
      BY <1>0, <1>1, <2>1 DEF SessionInv, GoodIsKept, GoodIsAt
    <3> QED
      BY <1>0, <1>3, <1>4, <3>1 DEF GoodIsAt
  <2>2. \A d \in Calls : d # c => GoodIsAt(d)'
    BY <1>2, <1>5 DEF GoodIsAt
  <2> QED
    BY <1>0, <1>4, <2>1, <2>2 DEF GoodIsKept, RenewalSurvives
<1> QED
  BY <1>6, <1>7, <1>8, <1>9 DEF SessionInv

LEMMA TabKeeps ==
  ASSUME OneTab, AnswersInv, SessionInv, NEW t \in Tabs, TabStep(t)
  PROVE  SessionInv'
<1>0. /\ TokenTypeOK /\ flight \in [Calls -> FlightSet(issued)]
      /\ page \in [Tabs -> {"open", "leaving", "out", "failed"}]
  BY TypesAre DEF AnswersInv, Records, Scalars
<1>1. \A u \in Tabs : u = t
  BY DEF OneTab
<1>2. \A c \in Calls : Tab(c) = t
  BY <1>1, TabOf
<1>3. CASE SignOut(t)
  <2>1. /\ \A c \in Calls : flight'[c].at = flight[c].at
        /\ \A c \in Calls : flight[c].at # "none" => flight'[c].cancelled
    BY <1>0, <1>2, <1>3, SignOutFlights
  <2>2. page'[t] = "leaving" /\ over' /\ stored' = 0
    BY <1>0, <1>3 DEF SignOut
  <2>3. OneFlight' /\ NoToken' /\ GoodIsKept'
    BY <2>1, <2>2 DEF SessionInv, OneFlight, NoToken, GoodIsKept
  <2>4. \A u \in Tabs : Phase(u)'
    BY <1>1, <2>2 DEF Phase
  <2>5. \A c \in Calls : Cancelled(c)'
    BY <1>2, <2>1, <2>2 DEF Cancelled
  <2> QED
    BY <2>3, <2>4, <2>5 DEF SessionInv
<1>4. CASE SignedOut(t) \/ SignOutFailed(t)
  <2>1. \A c \in Calls : flight[c].at = "none"
    BY <1>2, <1>4 DEF SignedOut, SignOutFailed, Leaves, Awaited, Flights
  <2>2. /\ page'[t] # "leaving" /\ stored' = 0 /\ flight' = flight
        /\ \/ cookie' = 0 /\ over' = over
           \/ ~over' /\ losses' # 0
    <3>1. losses \in Nat
      BY TypesAre, TokenAssumption DEF AnswersInv, Scalars
    <3> QED
      BY <1>0, <1>4, <3>1 DEF SignedOut, SignOutFailed, Leaves
  <2>3. over
    BY <1>4 DEF SignedOut, SignOutFailed, Leaves, SessionInv, Phase
  <2>4. OneFlight' /\ NoToken' /\ GoodIsKept'
    BY <2>1, <2>2, <2>3 DEF OneFlight, NoToken, GoodIsKept
  <2>5. \A u \in Tabs : Phase(u)'
    BY <1>1, <2>2 DEF Phase
  <2>6. \A c \in Calls : Cancelled(c)'
    BY <2>1, <2>2 DEF Cancelled
  <2> QED
    BY <2>4, <2>5, <2>6 DEF SessionInv
<1>5. CASE Reopen(t)
  <2>1. \A c \in Calls : flight[c].at = "none"
    BY <1>2, <1>5 DEF Reopen, Idle
  <2>2. /\ page[t] # "leaving" /\ page'[t] # "leaving"
        /\ UNCHANGED <<stored, cookie, good, flight, over, losses>>
    BY <1>0, <1>5 DEF Reopen
  <2>3. OneFlight' /\ NoToken' /\ GoodIsKept'
    BY <2>1, <2>2 DEF SessionInv, OneFlight, NoToken, GoodIsKept, RenewalSurvives, GoodIsAt
  <2>4. \A u \in Tabs : Phase(u)'
    BY <1>1, <2>2 DEF SessionInv, Phase
  <2>5. \A c \in Calls : Cancelled(c)'
    BY <2>1, <2>2 DEF Cancelled
  <2> QED
    BY <2>3, <2>4, <2>5 DEF SessionInv
<1>6. CASE SignIn(t)
  <2>1. \A c \in Calls : flight[c].at = "none"
    BY <1>2, <1>6 DEF SignIn, Idle
  <2>2. page'[t] = "open" /\ cookie' = good' /\ flight' = flight /\ ~over'
    BY <1>0, <1>6 DEF SignIn
  <2>3. OneFlight' /\ NoToken' /\ GoodIsKept'
    BY <2>1, <2>2 DEF OneFlight, NoToken, GoodIsKept, RenewalSurvives, GoodIsAt
  <2>4. \A u \in Tabs : Phase(u)'
    BY <1>1, <2>2 DEF Phase
  <2>5. \A c \in Calls : Cancelled(c)'
    BY <2>1, <2>2 DEF Cancelled
  <2> QED
    BY <2>3, <2>4, <2>5 DEF SessionInv
<1> QED
  BY <1>3, <1>4, <1>5, <1>6 DEF TabStep

LEMMA SessionKept == OneTab /\ AnswersInv /\ SessionInv /\ [Next]_vars => SessionInv'
<1> SUFFICES ASSUME OneTab, AnswersInv, SessionInv, [Next]_vars PROVE SessionInv'
  OBVIOUS
<1>1. CASE TokenExpires \/ UNCHANGED vars
  BY <1>1 DEF TokenExpires, vars, SessionInv, OneFlight, NoToken, GoodIsKept, RenewalSurvives,
              GoodIsAt, Phase, Cancelled
<1> QED
  BY <1>1, CallKeeps, FlightKeeps, ProviderKeeps, TabKeeps DEF Next

\* However many requests find the token expired at once, and whatever is under
\* way when the user signs out: between renewals the cookie holds the token that
\* is good, but for answers that were lost, and after signing out nothing is
\* left, nor brought back by opening the app again, unless the page has said
\* that the sign-out failed.  With a second tab neither holds.
THEOREM SignedInOrOutCorrect == ASSUME OneTab PROVE Spec => []SignedInOrOut
<1>1. Init => SessionInv
  BY SessionInitially
<1>2. AnswersInv /\ SessionInv /\ [Next]_vars => SessionInv'
  BY SessionKept
<1>3. AnswersInv /\ SessionInv => SignedInOrOut
  <2> SUFFICES ASSUME AnswersInv, SessionInv PROVE SignedInOrOut
    OBVIOUS
  <2>1. RenewalSurvives
    BY DEF SessionInv, GoodIsKept, RenewalSurvives
  <2>2. SignOutIsFinal
    <3> SUFFICES ASSUME over, \A t \in Tabs : page[t] # "leaving" PROVE cookie = 0
      BY DEF SignOutIsFinal, SessionInv, NoToken
    <3> QED
      BY DEF SessionInv, Phase, OneTab
  <2> QED
    BY <2>1, <2>2 DEF AnswersInv, SignedInOrOut
<1> QED
  BY <1>1, <1>2, <1>3, AnswersAlways, PTL DEF Spec

-----------------------------------------------------------------------------
(***************************************************************************)
(* The proof form.                                                         *)
(***************************************************************************)
Stages == {"new", "open", "dismissed", "cancelled", "saved"}
KnownSet == [Files -> 0..MaxCopies]
Tasks == [kind : {"none", "submit", "remove", "cancel"}, todo : SUBSET Files]
Requests == [op : {"none", "upload", "discard", "submit"}, file : Files \cup {0},
             upload : 0..MaxCopies, answer : {"none", "ok", "refused"}]
CopyStates == {"none", "staged", "attached", "gone"}
CopySet == [Files -> [1..MaxCopies -> CopyStates]]

FormKinds ==
  /\ drawer \in Forms \cup {0} /\ stage \in [Forms -> Stages]
  /\ chosen \in [Forms -> SUBSET Files] /\ known \in [Forms -> KnownSet]
  /\ pending \in [Forms -> Tasks] /\ request \in [Forms -> Requests]
  /\ copy \in [Forms -> CopySet] /\ intended \in [Forms -> SUBSET Files]
  /\ DOMAIN accepted = Forms
DrawerFits == \A f \in Forms : stage[f] = "open" <=> drawer = f

\* The request is one of the action's.
RequestFits(f) ==
  /\ request[f].op # "none" => pending[f].kind # "none"
  /\ request[f].op = "upload" => pending[f].kind = "submit" /\ request[f].file \in pending[f].todo
  /\ request[f].op = "discard" =>
       /\ pending[f].kind \in {"remove", "cancel"} /\ request[f].file \in pending[f].todo
       /\ request[f].upload # 0 /\ request[f].upload = known[f][request[f].file]
  /\ request[f].op = "submit" => pending[f].kind = "submit" /\ pending[f].todo = {}
\* What is still to do is what the form shows: the photos do not change meanwhile.
TodoFits(f) ==
  /\ pending[f].kind = "submit" => intended[f] = chosen[f] /\ pending[f].todo = ToUpload(f)
  /\ pending[f].kind = "cancel" => pending[f].todo = ToDiscard(f)
  /\ pending[f].kind = "remove" => /\ pending[f].todo \subseteq ToDiscard(f)
                                   /\ \E p \in Files : pending[f].todo = {p}
\* An upload that is known was made, of a photo in the form.
KnownFits(f) ==
  \A p \in Files : known[f][p] # 0 => p \in chosen[f] /\ copy[f][p][known[f][p]] # "none"
\* What an answer says has been done.
AnswerIsTrue(f) ==
  request[f].answer = "ok" =>
    /\ request[f].op = "upload" => /\ request[f].upload # 0
                                   /\ copy[f][request[f].file][request[f].upload] # "none"
    /\ request[f].op = "discard" => copy[f][request[f].file][request[f].upload] = "gone"
    /\ request[f].op = "submit" =>
         \A p \in Files : known[f][p] # 0 => copy[f][p][known[f][p]] = "attached"
\* The form knows every staged upload, or will when it reads the answer, or the
\* answer was lost.
Traced(f, p, n) ==
  \/ known[f][p] = n \/ <<f, p, n>> \in lost
  \/ /\ request[f].op = "upload" /\ request[f].answer = "ok"
     /\ request[f].file = p /\ request[f].upload = n
StagedIsTraced(f) ==
  \A p \in Files, n \in 1..MaxCopies : copy[f][p][n] = "staged" => Traced(f, p, n)
\* A stored proof is whole and has its photos for itself.
StoredIsWhole(f) ==
  /\ \A s \in accepted[f] :
       /\ {x[1] : x \in s.photos} = s.asked
       /\ \A x \in s.photos : /\ x \in Files \X (1..MaxCopies)
                              /\ copy[f][x[1]][x[2]] = "attached"
  /\ \A s, t \in accepted[f] : s # t => s.photos \cap t.photos = {}
\* A form that was cancelled knows nothing and does nothing any more.
CancelledIsOver(f) ==
  stage[f] = "cancelled" =>
    pending[f].kind = "none" /\ request[f].op = "none" /\ \A p \in Files : known[f][p] = 0

FormInv(f) ==
  /\ RequestFits(f) /\ TodoFits(f) /\ KnownFits(f) /\ AnswerIsTrue(f)
  /\ StagedIsTraced(f) /\ StoredIsWhole(f) /\ CancelledIsOver(f)
ProofFormInv == FormKinds /\ DrawerFits /\ \A f \in Forms : FormInv(f)

LEMMA QuietIs ==
  /\ Quiet \in Tasks /\ Quiet.kind = "none" /\ Quiet.todo = {}
  /\ NoRequest \in Requests /\ NoRequest.op = "none" /\ NoRequest.answer = "none"
BY ProofFormAssumption DEF Quiet, Tasks, NoRequest, Requests

LEMMA FormFields ==
  ASSUME FormKinds, NEW f \in Forms
  PROVE  /\ stage[f] \in Stages /\ chosen[f] \subseteq Files /\ intended[f] \subseteq Files
         /\ known[f] \in KnownSet /\ \A p \in Files : known[f][p] \in 0..MaxCopies
         /\ pending[f] \in Tasks /\ pending[f].todo \subseteq Files
         /\ pending[f].kind \in {"none", "submit", "remove", "cancel"}
         /\ request[f] \in Requests /\ request[f].file \in Files \cup {0}
         /\ request[f].upload \in 0..MaxCopies /\ request[f].answer \in {"none", "ok", "refused"}
         /\ request[f].op \in {"none", "upload", "discard", "submit"}
         /\ copy[f] \in CopySet
         /\ \A p \in Files, n \in 1..MaxCopies : copy[f][p][n] \in CopyStates
         /\ \A n \in 0..MaxCopies : n # 0 => n \in 1..MaxCopies
BY ProofFormAssumption DEF FormKinds, Tasks, Requests, KnownSet, CopySet

LEMMA FormInitially == ProofFormInit => ProofFormInv
<1> SUFFICES ASSUME ProofFormInit PROVE ProofFormInv
  OBVIOUS
<1> USE ProofFormAssumption DEF ProofFormInit
<1>1. FormKinds
  <2>1. [p \in Files |-> 0] \in KnownSet
    BY DEF KnownSet
  <2>2. [p \in Files |-> [n \in 1..MaxCopies |-> "none"]] \in CopySet
    BY DEF CopySet, CopyStates
  <2> QED
    BY <2>1, <2>2, QuietIs DEF FormKinds, Stages
<1>2. DrawerFits
  BY DEF DrawerFits
<1>3. ASSUME NEW f \in Forms PROVE FormInv(f)
  <2>1. /\ pending[f] = Quiet /\ request[f] = NoRequest /\ accepted[f] = {} /\ stage[f] = "new"
        /\ \A p \in Files : known[f][p] = 0 /\ \A n \in 1..MaxCopies : copy[f][p][n] = "none"
    OBVIOUS
  <2> QED
    BY <2>1, QuietIs DEF FormInv, RequestFits, TodoFits, KnownFits, AnswerIsTrue, StagedIsTraced,
       StoredIsWhole, CancelledIsOver
<1> QED
  BY <1>1, <1>2, <1>3 DEF ProofFormInv

\* What a form does is no concern of another, but that it may close its drawer.
OthersKept(f) ==
  /\ lost \subseteq lost'
  /\ \A g \in Forms \ {f} :
       /\ chosen'[g] = chosen[g] /\ known'[g] = known[g] /\ pending'[g] = pending[g]
       /\ request'[g] = request[g] /\ copy'[g] = copy[g] /\ accepted'[g] = accepted[g]
       /\ intended'[g] = intended[g]
       /\ stage'[g] = "cancelled" => stage[g] = "cancelled"
FormKept(f) == FormKinds' /\ DrawerFits' /\ OthersKept(f) /\ FormInv(f)'

LEMMA KeptIsKept ==
  ASSUME ProofFormInv, NEW f \in Forms, FormKept(f)
  PROVE  ProofFormInv'
<1>1. ASSUME NEW g \in Forms, g # f PROVE FormInv(g)'
  <2>1. FormInv(g) /\ OthersKept(f)
    BY DEF ProofFormInv, FormKept
  <2>2. RequestFits(g)' /\ KnownFits(g)' /\ AnswerIsTrue(g)' /\ StoredIsWhole(g)'
    BY <1>1, <2>1 DEF FormInv, OthersKept, RequestFits, KnownFits, AnswerIsTrue, StoredIsWhole
  <2>3. TodoFits(g)'
    BY <1>1, <2>1 DEF FormInv, OthersKept, TodoFits, ToUpload, ToDiscard
  <2>4. StagedIsTraced(g)' /\ CancelledIsOver(g)'
    BY <1>1, <2>1 DEF FormInv, OthersKept, StagedIsTraced, Traced, CancelledIsOver
  <2> QED
    BY <2>2, <2>3, <2>4 DEF FormInv
<1> QED
  BY <1>1 DEF FormKept, ProofFormInv

\* Steps that leave the photos, the requests and the uploads alone.
FormRests ==
  /\ UNCHANGED <<chosen, known, pending, request, copy, accepted, intended, lost>>
  /\ stage' \in [Forms -> Stages] /\ drawer' \in Forms \cup {0}
  /\ \A g \in Forms : stage'[g] = "cancelled" => stage[g] = "cancelled"

LEMMA RestKeeps ==
  ASSUME ProofFormInv, FormRests, DrawerFits'
  PROVE  ProofFormInv'
<1>1. FormKinds'
  BY DEF ProofFormInv, FormKinds, FormRests
<1>2. ASSUME NEW g \in Forms PROVE FormInv(g)'
  <2>1. FormInv(g)
    BY DEF ProofFormInv
  <2>2. RequestFits(g)' /\ KnownFits(g)' /\ AnswerIsTrue(g)' /\ StoredIsWhole(g)'
    BY <2>1 DEF FormInv, FormRests, RequestFits, KnownFits, AnswerIsTrue, StoredIsWhole
  <2>3. TodoFits(g)'
    BY <2>1 DEF FormInv, FormRests, TodoFits, ToUpload, ToDiscard
  <2>4. StagedIsTraced(g)' /\ CancelledIsOver(g)'
    BY <2>1 DEF FormInv, FormRests, StagedIsTraced, Traced, CancelledIsOver
  <2> QED
    BY <2>2, <2>3, <2>4 DEF FormInv
<1> QED
  BY <1>1, <1>2 DEF ProofFormInv

\* Nothing is under way in a form whose buttons are enabled.
LEMMA FreeIs ==
  ASSUME ProofFormInv, NEW f \in Forms, Free(f)
  PROVE  /\ stage[f] = "open" /\ pending[f].kind = "none" /\ request[f].op = "none"
BY FormFields DEF Free, ProofFormInv, FormInv, RequestFits, DrawerFits

LEMMA ChosenKeeps ==
  ASSUME ProofFormInv, NEW f \in Forms, Free(f), NEW new \in SUBSET Files,
         chosen' = [chosen EXCEPT ![f] = new], \A p \in Files : known[f][p] # 0 => p \in new,
         UNCHANGED <<drawer, stage, known, pending, request, copy, accepted, intended, lost>>
  PROVE  ProofFormInv'
<1>1. FormKinds' /\ DrawerFits' /\ chosen'[f] = new /\ \A g \in Forms \ {f} : chosen'[g] = chosen[g]
  BY DEF ProofFormInv, FormKinds, DrawerFits
<1>2. FormInv(f) /\ pending[f].kind = "none" /\ request[f].op = "none"
  BY FreeIs DEF ProofFormInv
<1>3. RequestFits(f)' /\ TodoFits(f)' /\ KnownFits(f)' /\ AnswerIsTrue(f)' /\ StagedIsTraced(f)'
      /\ StoredIsWhole(f)' /\ CancelledIsOver(f)'
  BY <1>1, <1>2 DEF FormInv, RequestFits, TodoFits, KnownFits, AnswerIsTrue, StagedIsTraced, Traced,
     StoredIsWhole, CancelledIsOver
<1>4. OthersKept(f)
  BY <1>1 DEF OthersKept
<1> QED
  BY <1>1, <1>3, <1>4, KeptIsKept DEF FormKept, FormInv

LEMMA BeginKeeps ==
  ASSUME ProofFormInv, NEW f \in Forms, NEW kind \in {"submit", "remove", "cancel"},
         NEW todo \in SUBSET Files, BeginAction(f, kind, todo),
         \/ /\ kind = "submit" /\ todo = ToUpload(f) /\ intended' = [intended EXCEPT ![f] = chosen[f]]
         \/ /\ kind = "cancel" /\ todo = ToDiscard(f) /\ UNCHANGED intended
         \/ /\ kind = "remove" /\ UNCHANGED intended
            /\ \E p \in Files : todo = {p} /\ known[f][p] # 0
  PROVE  ProofFormInv'
<1>0. FormKinds /\ DrawerFits /\ FormInv(f)
  BY DEF ProofFormInv
<1>1. /\ Free(f) /\ UNCHANGED <<drawer, stage, chosen, known, request, copy, accepted, lost>>
      /\ pending' = [pending EXCEPT ![f] = [kind |-> kind, todo |-> todo]]
  BY DEF BeginAction, proofView
<1>2. [kind |-> kind, todo |-> todo] \in Tasks
  BY DEF Tasks
<1>3. /\ pending' \in [Forms -> Tasks] /\ pending'[f].kind = kind /\ pending'[f].todo = todo
      /\ \A g \in Forms \ {f} : pending'[g] = pending[g]
  BY <1>0, <1>1, <1>2 DEF FormKinds
<1>4. /\ intended' \in [Forms -> SUBSET Files]
      /\ kind = "submit" => intended'[f] = chosen[f]
      /\ \A g \in Forms \ {f} : intended'[g] = intended[g]
  BY <1>0, <1>1, FormFields DEF FormKinds
<1>5. FormKinds' /\ DrawerFits' /\ OthersKept(f)
  BY <1>0, <1>1, <1>3, <1>4 DEF FormKinds, DrawerFits, OthersKept
<1>6. stage[f] = "open" /\ request[f].op = "none"
  BY <1>1, FreeIs
<1>7. TodoFits(f)'
  <2>1. ToUpload(f)' = ToUpload(f) /\ ToDiscard(f)' = ToDiscard(f) /\ chosen' = chosen
    BY <1>1 DEF ToUpload, ToDiscard
  <2>2. CASE kind = "submit"
    <3>1. todo = ToUpload(f) /\ intended'[f] = chosen[f]
      BY <1>4, <2>2
    <3> QED
      BY <1>3, <2>1, <2>2, <3>1 DEF TodoFits
  <2>3. CASE kind = "cancel"
    BY <1>3, <2>1, <2>3 DEF TodoFits
  <2>4. CASE kind = "remove"
    <3>1. todo \subseteq ToDiscard(f) /\ \E p \in Files : todo = {p}
      BY <2>4 DEF ToDiscard
    <3> QED
      BY <1>3, <2>1, <2>4, <3>1 DEF TodoFits
  <2> QED
    BY <2>2, <2>3, <2>4
<1>8. RequestFits(f)' /\ KnownFits(f)' /\ AnswerIsTrue(f)' /\ StagedIsTraced(f)' /\ StoredIsWhole(f)'
      /\ CancelledIsOver(f)'
  BY <1>0, <1>1, <1>6 DEF FormInv, RequestFits, KnownFits, AnswerIsTrue, StagedIsTraced, Traced,
     StoredIsWhole, CancelledIsOver
<1> QED
  BY <1>5, <1>7, <1>8, KeptIsKept DEF FormKept, FormInv

\* Whichever drawer is open is closed; the form that ends keeps nothing to do.
LEMMA EndedIs ==
  ASSUME ProofFormInv, NEW f \in Forms, NEW how \in {"cancelled", "saved"}, Ended(f, how)
  PROVE  /\ drawer' = 0 /\ DrawerFits' /\ stage' \in [Forms -> Stages]
         /\ \A g \in Forms : stage'[g] = "cancelled" =>
                stage[g] = "cancelled" \/ (g = f /\ how = "cancelled")
         /\ pending' \in [Forms -> Tasks] /\ pending'[f] = Quiet
         /\ \A g \in Forms \ {f} : pending'[g] = pending[g]
<1> USE ProofFormAssumption
<1>0. FormKinds /\ DrawerFits
  BY DEF ProofFormInv
<1>1. pending' \in [Forms -> Tasks] /\ pending'[f] = Quiet /\ \A g \in Forms \ {f} : pending'[g] = pending[g]
  BY <1>0, QuietIs DEF Ended, FormKinds
<1>2. drawer' = 0
  BY DEF Ended
<1>3. \A g \in Forms :
        stage'[g] = IF g = f /\ (stage[f] = "open" \/ how = "saved") THEN how
                    ELSE IF g = drawer THEN "dismissed" ELSE stage[g]
  BY DEF Ended
<1>4. \A g \in Forms : stage'[g] \in Stages /\ stage'[g] # "open"
  BY <1>0, <1>3 DEF FormKinds, DrawerFits, Stages
<1>5. stage' \in [Forms -> Stages]
  <2>1. stage' = [g \in Forms |-> stage'[g]]
    BY DEF Ended
  <2> QED
    BY <1>4, <2>1
<1>6. DrawerFits'
  BY <1>2, <1>4 DEF DrawerFits
<1> QED
  BY <1>1, <1>2, <1>3, <1>5, <1>6

LEMMA UserKeeps ==
  ASSUME ProofFormInv, Dismiss \/ \E f \in Forms : ProofUser(f)
  PROVE  ProofFormInv'
<1>0. FormKinds /\ DrawerFits
  BY DEF ProofFormInv
<1>1. CASE Dismiss
  <2>1. FormRests
    BY <1>0, <1>1 DEF Dismiss, FormRests, FormKinds, Stages
  <2>2. DrawerFits'
    BY <1>0, <1>1, ProofFormAssumption DEF Dismiss, DrawerFits, FormKinds
  <2> QED
    BY <2>1, <2>2, RestKeeps
<1>2. ASSUME NEW f \in Forms, OpenProof(f) PROVE ProofFormInv'
  <2>1. FormRests
    BY <1>0, <1>2 DEF OpenProof, FormRests, FormKinds, Stages
  <2>2. DrawerFits'
    BY <1>0, <1>2, ProofFormAssumption DEF OpenProof, DrawerFits, FormKinds
  <2> QED
    BY <2>1, <2>2, RestKeeps
<1>3. ASSUME NEW f \in Forms, NEW p \in Files, ChoosePhoto(f, p) PROVE ProofFormInv'
  <2> DEFINE new == chosen[f] \cup {p}
  <2>1. new \in SUBSET Files /\ \A q \in Files : known[f][q] # 0 => q \in new
    BY <1>0, FormFields DEF ProofFormInv, FormInv, KnownFits
  <2>2. /\ Free(f) /\ chosen' = [chosen EXCEPT ![f] = new]
        /\ UNCHANGED <<drawer, stage, known, pending, request, copy, accepted, intended, lost>>
    BY <1>3 DEF ChoosePhoto
  <2> QED
    BY <2>1, <2>2, ChosenKeeps
<1>4. ASSUME NEW f \in Forms, PressSubmit(f) PROVE ProofFormInv'
  <2>1. ToUpload(f) \in SUBSET Files
    BY <1>0, FormFields DEF ToUpload
  <2> QED
    BY <1>4, <2>1, BeginKeeps DEF PressSubmit
<1>5. ASSUME NEW f \in Forms, NEW p \in Files, PressRemove(f, p) PROVE ProofFormInv'
  <2>1. CASE known[f][p] # 0
    BY <1>5, <2>1, BeginKeeps DEF PressRemove
  <2>2. CASE known[f][p] = 0
    <3> DEFINE new == Without(f, p)
    <3>1. new \in SUBSET Files /\ \A q \in Files : known[f][q] # 0 => q \in new
      BY <1>0, <2>2, FormFields DEF ProofFormInv, FormInv, KnownFits, Without
    <3>2. /\ Free(f) /\ chosen' = [chosen EXCEPT ![f] = new]
          /\ UNCHANGED <<drawer, stage, known, pending, request, copy, accepted, intended, lost>>
      BY <1>5, <2>2 DEF PressRemove
    <3> QED
      BY <3>1, <3>2, ChosenKeeps
  <2> QED
    BY <2>1, <2>2
<1>6. ASSUME NEW f \in Forms, PressCancel(f) PROVE ProofFormInv'
  <2>1. CASE ToDiscard(f) # {}
    <3>1. ToDiscard(f) \in SUBSET Files
      BY DEF ToDiscard
    <3> QED
      BY <1>6, <2>1, <3>1, BeginKeeps DEF PressCancel
  <2>2. CASE ToDiscard(f) = {}
    <3>1. /\ Free(f) /\ Ended(f, "cancelled")
          /\ UNCHANGED <<chosen, known, request, copy, accepted, intended, lost>>
      BY <1>6, <2>2 DEF PressCancel
    <3>2. /\ request[f].op = "none" /\ \A p \in Files : known[f][p] = 0
      BY <2>2, <3>1, FreeIs DEF ToDiscard
    <3>3. FormKinds' /\ DrawerFits' /\ OthersKept(f)
      BY <1>0, <3>1, EndedIs DEF FormKinds, OthersKept
    <3>4. FormInv(f) /\ pending'[f].kind = "none"
      BY <3>1, EndedIs, QuietIs DEF ProofFormInv
    <3>5. FormInv(f)'
      BY <3>1, <3>2, <3>4 DEF FormInv, RequestFits, TodoFits, KnownFits, AnswerIsTrue, StagedIsTraced,
         Traced, StoredIsWhole, CancelledIsOver
    <3> QED
      BY <3>3, <3>5, KeptIsKept DEF FormKept
  <2> QED
    BY <2>1, <2>2
<1> QED
  BY <1>1, <1>2, <1>3, <1>4, <1>5, <1>6 DEF ProofUser

\* A request is sent; nothing else happens.
LEMMA SendKeeps ==
  ASSUME ProofFormInv, NEW f \in Forms,
         \/ \E p \in Files : SendUpload(f, p) \/ SendDiscard(f, p)
         \/ SendProof(f)
  PROVE  ProofFormInv'
<1>0. FormKinds /\ DrawerFits /\ FormInv(f)
  BY DEF ProofFormInv
<1>1. PICK op \in {"upload", "discard", "submit"}, p \in Files \cup {0} :
        /\ SendRequest(f, op, p) /\ pending[f].kind # "none" /\ request[f].op = "none"
        /\ op = "upload" => pending[f].kind = "submit" /\ p \in pending[f].todo
        /\ op = "discard" => pending[f].kind \in {"remove", "cancel"} /\ p \in pending[f].todo
        /\ op = "submit" => pending[f].kind = "submit" /\ pending[f].todo = {}
  BY DEF SendUpload, SendDiscard, SendProof, BetweenRequests
<1> DEFINE upload == IF op \in {"upload", "submit"} THEN 0 ELSE known[f][p]
           new == [op |-> op, file |-> p, answer |-> "none", upload |-> upload]
<1>2. /\ request' = [request EXCEPT ![f] = new]
      /\ UNCHANGED <<drawer, stage, chosen, known, pending, copy, accepted, intended, lost>>
  BY <1>1 DEF SendRequest, proofView
<1>3. op = "discard" => p \in Files /\ upload = known[f][p] /\ upload # 0 /\ upload \in 0..MaxCopies
  BY <1>0, <1>1, FormFields DEF FormInv, TodoFits, ToDiscard
<1>4. new \in Requests /\ new.op = op /\ new.file = p /\ new.answer = "none" /\ new.upload = upload
  BY <1>3, ProofFormAssumption DEF Requests
<1> HIDE DEF new, upload
<1>5. /\ request' \in [Forms -> Requests] /\ request'[f] = new
      /\ \A g \in Forms \ {f} : request'[g] = request[g]
  BY <1>0, <1>2, <1>4 DEF FormKinds
<1>6. FormKinds' /\ DrawerFits' /\ OthersKept(f)
  BY <1>0, <1>2, <1>5 DEF FormKinds, DrawerFits, OthersKept
<1>7. RequestFits(f)'
  BY <1>1, <1>2, <1>3, <1>4, <1>5 DEF RequestFits
<1>8. TodoFits(f)' /\ KnownFits(f)' /\ AnswerIsTrue(f)' /\ StoredIsWhole(f)'
  BY <1>0, <1>2, <1>4, <1>5 DEF FormInv, TodoFits, ToUpload, ToDiscard, KnownFits, AnswerIsTrue,
     StoredIsWhole
<1>9. StagedIsTraced(f)' /\ CancelledIsOver(f)'
  BY <1>0, <1>1, <1>2, <1>4, <1>5 DEF FormInv, StagedIsTraced, Traced, CancelledIsOver
<1> QED
  BY <1>6, <1>7, <1>8, <1>9, KeptIsKept DEF FormKept, FormInv

-----------------------------------------------------------------------------
\* The API answers: what it made of the uploads of the form is its own affair.
Replies(f, answer, upload) ==
  /\ request' \in [Forms -> Requests] /\ copy' \in [Forms -> CopySet] /\ DOMAIN accepted' = Forms
  /\ \A g \in Forms \ {f} :
       request'[g] = request[g] /\ copy'[g] = copy[g] /\ accepted'[g] = accepted[g]
  /\ request'[f].op = request[f].op /\ request'[f].file = request[f].file
  /\ request'[f].upload = upload /\ request'[f].answer = answer
  /\ UNCHANGED <<drawer, stage, chosen, known, pending, intended, lost>>

LEMMA AnswerIs ==
  ASSUME FormKinds, NEW f \in Forms, NEW answer \in {"ok", "refused"}, NEW upload \in 0..MaxCopies,
         Answer(f, answer, upload)
  PROVE  /\ request' \in [Forms -> Requests]
         /\ \A g \in Forms \ {f} : request'[g] = request[g]
         /\ request'[f].op = request[f].op /\ request'[f].file = request[f].file
         /\ request'[f].upload = upload /\ request'[f].answer = answer
<1> DEFINE new == [op |-> request[f].op, file |-> request[f].file, upload |-> upload, answer |-> answer]
<1>1. /\ new \in Requests /\ new.op = request[f].op /\ new.file = request[f].file
      /\ new.upload = upload /\ new.answer = answer
  BY FormFields DEF Requests
<1>2. request' = [request EXCEPT ![f] = new]
  BY DEF Answer
<1> HIDE DEF new
<1> QED
  BY <1>1, <1>2 DEF FormKinds

\* One upload of a form gets another state.
CopyBecomes(f, p, n, new) == copy' = [copy EXCEPT ![f][p][n] = new]
LEMMA CopyIs ==
  ASSUME FormKinds, NEW f \in Forms, NEW p \in Files, NEW n \in 1..MaxCopies, NEW new \in CopyStates,
         CopyBecomes(f, p, n, new)
  PROVE  /\ copy' \in [Forms -> CopySet] /\ \A g \in Forms \ {f} : copy'[g] = copy[g]
         /\ copy'[f][p][n] = new
         /\ \A q \in Files, m \in 1..MaxCopies : <<q, m>> # <<p, n>> => copy'[f][q][m] = copy[f][q][m]
<1> DEFINE ofPhoto == [copy[f][p] EXCEPT ![n] = new]
           ofForm == [copy[f] EXCEPT ![p] = ofPhoto]
<1>1. copy[f][p] \in [1..MaxCopies -> CopyStates] /\ copy[f] \in CopySet
  BY DEF FormKinds, CopySet
<1>2. /\ ofPhoto \in [1..MaxCopies -> CopyStates] /\ ofPhoto[n] = new
      /\ \A m \in 1..MaxCopies : m # n => ofPhoto[m] = copy[f][p][m]
  BY <1>1
<1> HIDE DEF ofPhoto
<1>3. /\ ofForm \in CopySet /\ ofForm[p] = ofPhoto /\ \A q \in Files : q # p => ofForm[q] = copy[f][q]
  BY <1>1, <1>2 DEF CopySet
<1>4. copy' = [copy EXCEPT ![f] = ofForm]
  BY DEF CopyBecomes, ofPhoto
<1> HIDE DEF ofForm
<1>5. copy' \in [Forms -> CopySet] /\ copy'[f] = ofForm /\ \A g \in Forms \ {f} : copy'[g] = copy[g]
  BY <1>3, <1>4 DEF FormKinds
<1> QED
  BY <1>2, <1>3, <1>5

\* The uploads change state, and the invariant with the answer that was given.
LEMMA AnswersKeep ==
  ASSUME ProofFormInv, NEW f \in Forms, NEW answer \in {"ok", "refused"}, NEW upload \in 0..MaxCopies,
         Replies(f, answer, upload), request[f].op # "none", request[f].answer = "none",
         request[f].op = "discard" => upload = request[f].upload,
         KnownFits(f)', AnswerIsTrue(f)', StagedIsTraced(f)', StoredIsWhole(f)'
  PROVE  ProofFormInv'
<1>0. FormKinds /\ DrawerFits /\ FormInv(f)
  BY DEF ProofFormInv
<1>1. FormKinds' /\ DrawerFits' /\ OthersKept(f)
  BY <1>0 DEF Replies, FormKinds, DrawerFits, OthersKept
<1>2. RequestFits(f)' /\ TodoFits(f)' /\ CancelledIsOver(f)'
  BY <1>0 DEF Replies, FormInv, RequestFits, TodoFits, ToUpload, ToDiscard, CancelledIsOver
<1> QED
  BY <1>1, <1>2, KeptIsKept DEF FormKept, FormInv

LEMMA StoreUploadKeeps ==
  ASSUME ProofFormInv, NEW f \in Forms, StoreUpload(f)
  PROVE  ProofFormInv'
<1>0. FormKinds /\ FormInv(f)
  BY DEF ProofFormInv
<1> DEFINE p == request[f].file
<1>1. PICK n \in 1..MaxCopies :
        /\ copy[f][p][n] = "none" /\ CopyBecomes(f, p, n, "staged") /\ Answer(f, "ok", n)
  BY DEF StoreUpload, CopyBecomes
<1>2. /\ request[f].op = "upload" /\ request[f].answer = "none"
      /\ UNCHANGED <<drawer, stage, chosen, known, pending, accepted, intended, lost>>
  BY DEF StoreUpload, proofView
<1>3. p \in Files /\ n \in 0..MaxCopies /\ n # 0
  BY <1>0, <1>2, FormFields, ProofFormAssumption DEF FormInv, RequestFits
<1>4. "staged" \in CopyStates
  BY DEF CopyStates
<1> HIDE DEF p
<1>5. /\ copy' \in [Forms -> CopySet] /\ \A g \in Forms \ {f} : copy'[g] = copy[g]
      /\ copy'[f][p][n] = "staged"
      /\ \A q \in Files, m \in 1..MaxCopies : <<q, m>> # <<p, n>> => copy'[f][q][m] = copy[f][q][m]
  BY <1>0, <1>1, <1>3, <1>4, CopyIs
<1>6. Replies(f, "ok", n)
  BY <1>0, <1>1, <1>2, <1>3, <1>5, AnswerIs DEF Replies, FormKinds
<1>7. KnownFits(f)'
  <2>1. ASSUME NEW q \in Files, known[f][q] # 0 PROVE q \in chosen[f] /\ copy'[f][q][known[f][q]] # "none"
    <3>1. known[f][q] \in 1..MaxCopies /\ q \in chosen[f] /\ copy[f][q][known[f][q]] # "none"
      BY <1>0, <2>1, FormFields DEF FormInv, KnownFits
    <3> QED
      BY <1>5, <3>1
  <2> QED
    BY <1>2, <2>1 DEF KnownFits
<1>8. AnswerIsTrue(f)'
  BY <1>2, <1>3, <1>5, <1>6 DEF AnswerIsTrue, Replies, p
<1>9. StagedIsTraced(f)'
  <2>1. ASSUME NEW q \in Files, NEW m \in 1..MaxCopies, copy'[f][q][m] = "staged", <<q, m>> # <<p, n>>
        PROVE  Traced(f, q, m)'
    BY <1>0, <1>2, <1>5, <2>1 DEF FormInv, StagedIsTraced, Traced
  <2>2. ASSUME NEW q \in Files, NEW m \in 1..MaxCopies, copy'[f][q][m] = "staged"
        PROVE  Traced(f, q, m)'
    <3>1. CASE q = p /\ m = n
      <4>1. request'[f].op = "upload" /\ request'[f].answer = "ok"
        BY <1>2, <1>6 DEF Replies
      <4>2. request'[f].file = q /\ request'[f].upload = m
        BY <1>6, <3>1 DEF Replies, p
      <4> QED
        BY <4>1, <4>2 DEF Traced
    <3>2. CASE ~(q = p /\ m = n)
      <4>1. <<q, m>> # <<p, n>>
        BY <3>2
      <4> QED
        BY <2>1, <2>2, <4>1
    <3> QED
      BY <3>1, <3>2
  <2> QED
    BY <2>2 DEF StagedIsTraced
<1>10. StoredIsWhole(f)'
  <2>1. ASSUME NEW s \in accepted[f], NEW x \in s.photos
        PROVE  x \in Files \X (1..MaxCopies) /\ copy'[f][x[1]][x[2]] = "attached"
    <3>1. x \in Files \X (1..MaxCopies) /\ copy[f][x[1]][x[2]] = "attached"
      BY <1>0 DEF FormInv, StoredIsWhole
    <3>2. PICK q \in Files, m \in 1..MaxCopies : x = <<q, m>>
      BY <3>1
    <3>3. <<q, m>> # <<p, n>>
      BY <1>1, <3>1, <3>2
    <3> QED
      BY <1>5, <3>1, <3>2, <3>3
  <2> QED
    BY <1>0, <1>2, <2>1 DEF FormInv, StoredIsWhole
<1> QED
  BY <1>2, <1>3, <1>6, <1>7, <1>8, <1>9, <1>10, AnswersKeep

LEMMA DiscardUploadKeeps ==
  ASSUME ProofFormInv, NEW f \in Forms, DiscardUpload(f)
  PROVE  ProofFormInv'
<1>0. FormKinds /\ FormInv(f)
  BY DEF ProofFormInv
<1> DEFINE p == request[f].file
           n == request[f].upload
<1>1. /\ request[f].op = "discard" /\ request[f].answer = "none"
      /\ UNCHANGED <<drawer, stage, chosen, known, pending, accepted, intended, lost>>
      /\ \/ copy[f][p][n] = "staged" /\ CopyBecomes(f, p, n, "gone") /\ Answer(f, "ok", n)
         \/ Answer(f, "refused", n) /\ UNCHANGED copy
  BY DEF DiscardUpload, proofView, CopyBecomes
<1>2. /\ p \in Files /\ n \in 0..MaxCopies /\ n \in 1..MaxCopies /\ n = known[f][p]
      /\ "gone" \in CopyStates
  BY <1>0, <1>1, FormFields DEF FormInv, RequestFits, CopyStates
<1> HIDE DEF p, n
<1>3. PICK answer \in {"ok", "refused"} :
        /\ Replies(f, answer, n)
        /\ answer = "ok" => copy'[f][p][n] = "gone"
        /\ \A q \in Files, m \in 1..MaxCopies :
             copy'[f][q][m] = copy[f][q][m] \/ (copy[f][q][m] = "staged" /\ copy'[f][q][m] = "gone")
  <2>1. CASE copy[f][p][n] = "staged" /\ CopyBecomes(f, p, n, "gone") /\ Answer(f, "ok", n)
    <3>1. /\ copy' \in [Forms -> CopySet] /\ \A g \in Forms \ {f} : copy'[g] = copy[g]
          /\ copy'[f][p][n] = "gone"
          /\ \A q \in Files, m \in 1..MaxCopies : <<q, m>> # <<p, n>> => copy'[f][q][m] = copy[f][q][m]
      BY <1>0, <1>2, <2>1, CopyIs
    <3>2. Replies(f, "ok", n)
      BY <1>0, <1>1, <1>2, <2>1, <3>1, AnswerIs DEF Replies, FormKinds
    <3> QED
      BY <2>1, <3>1, <3>2
  <2>2. CASE Answer(f, "refused", n) /\ UNCHANGED copy
    <3>1. Replies(f, "refused", n)
      BY <1>0, <1>1, <1>2, <2>2, AnswerIs DEF Replies, FormKinds
    <3> QED
      BY <2>2, <3>1
  <2> QED
    BY <1>1, <2>1, <2>2
<1>4. KnownFits(f)'
  <2>1. ASSUME NEW q \in Files, known[f][q] # 0 PROVE q \in chosen[f] /\ copy'[f][q][known[f][q]] # "none"
    <3>1. known[f][q] \in 1..MaxCopies /\ q \in chosen[f] /\ copy[f][q][known[f][q]] # "none"
      BY <1>0, <2>1, FormFields DEF FormInv, KnownFits
    <3> QED
      BY <1>3, <3>1
  <2> QED
    BY <1>1, <2>1 DEF KnownFits
<1>5. AnswerIsTrue(f)'
  BY <1>1, <1>3 DEF AnswerIsTrue, Replies, p
<1>6. StagedIsTraced(f)'
  BY <1>0, <1>1, <1>3 DEF FormInv, StagedIsTraced, Traced
<1>7. StoredIsWhole(f)'
  <2>1. ASSUME NEW s \in accepted[f], NEW x \in s.photos
        PROVE  x \in Files \X (1..MaxCopies) /\ copy'[f][x[1]][x[2]] = "attached"
    <3>1. x \in Files \X (1..MaxCopies) /\ copy[f][x[1]][x[2]] = "attached"
      BY <1>0 DEF FormInv, StoredIsWhole
    <3>2. x[1] \in Files /\ x[2] \in 1..MaxCopies
      BY <3>1
    <3> QED
      BY <1>3, <3>1, <3>2
  <2> QED
    BY <1>0, <1>1, <2>1 DEF FormInv, StoredIsWhole
<1>8. request[f].op # "none" /\ request[f].answer = "none" /\ n = request[f].upload
  BY <1>1 DEF n
<1> QED
  BY <1>2, <1>3, <1>4, <1>5, <1>6, <1>7, <1>8, AnswersKeep

LEMMA StoreProofKeeps ==
  ASSUME ProofFormInv, NEW f \in Forms, StoreProof(f)
  PROVE  ProofFormInv'
<1>0. FormKinds /\ FormInv(f)
  BY DEF ProofFormInv
<1>1. /\ request[f].op = "submit" /\ request[f].answer = "none"
      /\ UNCHANGED <<drawer, stage, chosen, known, pending, intended, lost>>
  BY DEF StoreProof, proofView
\* Every photo in the form is uploaded by then.
<1>2. /\ Photos(f) = intended[f] /\ Photos(f) \subseteq Files
      /\ \A p \in Files : known[f][p] # 0 => p \in Photos(f)
      /\ \A p \in Photos(f) : known[f][p] \in 1..MaxCopies
  BY <1>0, <1>1, FormFields DEF FormInv, RequestFits, TodoFits, KnownFits, Photos, ToUpload
<1>3. 0 \in 0..MaxCopies
  BY ProofFormAssumption
<1>4. CASE ~\A p \in Photos(f) : Attachable(f, p)
  <2>1. Answer(f, "refused", 0) /\ UNCHANGED <<copy, accepted>>
    BY <1>4 DEF StoreProof
  <2>2. Replies(f, "refused", 0)
    BY <1>0, <1>1, <1>3, <2>1, AnswerIs DEF Replies, FormKinds
  <2>3. KnownFits(f)' /\ AnswerIsTrue(f)' /\ StagedIsTraced(f)' /\ StoredIsWhole(f)'
    BY <1>0, <1>1, <2>1, <2>2 DEF Replies, FormInv, KnownFits, AnswerIsTrue, StagedIsTraced, Traced,
       StoredIsWhole
  <2> QED
    BY <1>1, <1>3, <2>2, <2>3, AnswersKeep
<1>5. CASE \A p \in Photos(f) : Attachable(f, p)
  <2> DEFINE Taken(p, n) == p \in Photos(f) /\ n = known[f][p]
             new == [nr |-> Cardinality(accepted[f]) + 1, asked |-> intended[f],
                     photos |-> {<<p, known[f][p]>> : p \in Photos(f)}]
  <2>1. /\ Answer(f, "ok", 0)
        /\ copy' = [copy EXCEPT ![f] = [p \in Files |-> [n \in 1..MaxCopies |->
                       IF Taken(p, n) THEN "attached" ELSE copy[f][p][n]]]]
        /\ accepted' = [accepted EXCEPT ![f] = accepted[f] \cup {new}]
    BY <1>5 DEF StoreProof
  <2>2. /\ [p \in Files |-> [n \in 1..MaxCopies |-> IF Taken(p, n) THEN "attached" ELSE copy[f][p][n]]]
              \in CopySet
    BY <1>0, FormFields DEF CopySet, CopyStates
  <2>3. /\ copy' \in [Forms -> CopySet] /\ \A g \in Forms \ {f} : copy'[g] = copy[g]
        /\ \A p \in Files, n \in 1..MaxCopies :
             copy'[f][p][n] = IF Taken(p, n) THEN "attached" ELSE copy[f][p][n]
    BY <1>0, <2>1, <2>2 DEF FormKinds
  <2>4. /\ DOMAIN accepted' = Forms /\ accepted'[f] = accepted[f] \cup {new}
        /\ \A g \in Forms \ {f} : accepted'[g] = accepted[g]
    BY <1>0, <2>1 DEF FormKinds
  <2>5. Replies(f, "ok", 0)
    BY <1>0, <1>1, <1>3, <2>1, <2>3, <2>4, AnswerIs DEF Replies
  <2>6. \A p \in Photos(f) : copy[f][p][known[f][p]] = "staged" /\ copy'[f][p][known[f][p]] = "attached"
    BY <1>2, <1>5, <2>3 DEF Attachable
  <2>7. KnownFits(f)' /\ AnswerIsTrue(f)'
    BY <1>0, <1>1, <1>2, <2>5, <2>6 DEF FormInv, KnownFits, AnswerIsTrue, Replies
  <2>8. StagedIsTraced(f)'
    <3>1. ASSUME NEW p \in Files, NEW n \in 1..MaxCopies, copy'[f][p][n] = "staged"
          PROVE  Traced(f, p, n)'
      <4>1. copy[f][p][n] = "staged"
        BY <2>3, <3>1
      <4> QED
        BY <1>0, <1>1, <4>1 DEF FormInv, StagedIsTraced, Traced
    <3> QED
      BY <3>1 DEF StagedIsTraced
  <2>9. StoredIsWhole(f)'
    <3>1. /\ new.asked = intended[f] /\ new.photos = {<<p, known[f][p]>> : p \in Photos(f)}
      OBVIOUS
    <3> HIDE DEF new
    <3>2. {x[1] : x \in new.photos} = new.asked
      <4>1. ASSUME NEW x \in new.photos PROVE x[1] \in Photos(f)
        BY <3>1
      <4>2. ASSUME NEW p \in Photos(f) PROVE \E x \in new.photos : x[1] = p
        <5>1. <<p, known[f][p]>> \in new.photos /\ <<p, known[f][p]>>[1] = p
          BY <3>1
        <5> QED
          BY <5>1
      <4> QED
        BY <1>2, <3>1, <4>1, <4>2
    <3>3. ASSUME NEW x \in new.photos
          PROVE  /\ x \in Files \X (1..MaxCopies) /\ copy[f][x[1]][x[2]] = "staged"
                 /\ copy'[f][x[1]][x[2]] = "attached"
      <4>1. PICK p \in Photos(f) : x = <<p, known[f][p]>>
        BY <3>1
      <4> QED
        BY <1>2, <2>6, <4>1
    <3>4. ASSUME NEW s \in accepted[f], NEW x \in s.photos
          PROVE  /\ x \in Files \X (1..MaxCopies) /\ copy[f][x[1]][x[2]] = "attached"
                 /\ copy'[f][x[1]][x[2]] = "attached" /\ x \notin new.photos
      <4>1. x \in Files \X (1..MaxCopies) /\ copy[f][x[1]][x[2]] = "attached"
        BY <1>0 DEF FormInv, StoredIsWhole
      <4>2. x[1] \in Files /\ x[2] \in 1..MaxCopies
        BY <4>1
      <4> QED
        BY <2>3, <3>3, <4>1, <4>2
    <3>5. ASSUME NEW s \in accepted[f], NEW t \in accepted[f], s # t PROVE s.photos \cap t.photos = {}
      BY <1>0, <3>5 DEF FormInv, StoredIsWhole
    <3>6. \A s \in accepted[f] : {x[1] : x \in s.photos} = s.asked
      BY <1>0 DEF FormInv, StoredIsWhole
    <3>7. \A s \in accepted[f] : s.photos \cap new.photos = {}
      BY <3>4
    <3> QED
      BY <2>4, <3>2, <3>3, <3>4, <3>5, <3>6, <3>7 DEF StoredIsWhole
  <2> QED
    BY <1>1, <1>3, <2>5, <2>7, <2>8, <2>9, AnswersKeep
<1> QED
  BY <1>4, <1>5

-----------------------------------------------------------------------------
\* An answer that is lost after the API has acted leaves the upload untraced by
\* the form: that is what lost records.
LEMMA SpoilKeeps ==
  ASSUME ProofFormInv, NEW f \in Forms, Spoil(f)
  PROVE  ProofFormInv'
<1>0. FormKinds /\ DrawerFits /\ FormInv(f)
  BY DEF ProofFormInv
<1> DEFINE new == [request[f] EXCEPT !.answer = "refused"]
<1>1. /\ request[f].op # "none" /\ UNCHANGED <<drawer, stage, chosen, known, pending, copy, accepted, intended>>
      /\ request' = [request EXCEPT ![f] = new]
      /\ lost \subseteq lost'
      /\ request[f].op = "upload" /\ request[f].answer = "ok" =>
           <<f, request[f].file, request[f].upload>> \in lost'
  BY DEF Spoil, proofView
<1>2. /\ new \in Requests /\ new.op = request[f].op /\ new.file = request[f].file
      /\ new.upload = request[f].upload /\ new.answer = "refused"
  BY <1>0, FormFields DEF Requests
<1> HIDE DEF new
<1>3. /\ request' \in [Forms -> Requests] /\ request'[f] = new
      /\ \A g \in Forms \ {f} : request'[g] = request[g]
  BY <1>0, <1>1, <1>2 DEF FormKinds
<1>4. FormKinds' /\ DrawerFits' /\ OthersKept(f)
  BY <1>0, <1>1, <1>3 DEF FormKinds, DrawerFits, OthersKept
<1>5. RequestFits(f)' /\ TodoFits(f)' /\ KnownFits(f)' /\ AnswerIsTrue(f)' /\ StoredIsWhole(f)'
      /\ CancelledIsOver(f)'
  BY <1>0, <1>1, <1>2, <1>3 DEF FormInv, RequestFits, TodoFits, ToUpload, ToDiscard, KnownFits,
     AnswerIsTrue, StoredIsWhole, CancelledIsOver
<1>6. StagedIsTraced(f)'
  <2>1. ASSUME NEW p \in Files, NEW n \in 1..MaxCopies, copy[f][p][n] = "staged"
        PROVE  known[f][p] = n \/ <<f, p, n>> \in lost'
    BY <1>0, <1>1, <2>1 DEF FormInv, StagedIsTraced, Traced
  <2> QED
    BY <1>1, <2>1 DEF StagedIsTraced, Traced
<1> QED
  BY <1>4, <1>5, <1>6, KeptIsKept DEF FormKept, FormInv

\* The sweeper takes only what is staged: nothing that is known becomes unmade,
\* nothing that a proof has is taken.
LEMMA ExpireUploadKeeps ==
  ASSUME ProofFormInv, NEW f \in Forms, NEW p \in Files, NEW n \in 1..MaxCopies, ExpireUpload(f, p, n)
  PROVE  ProofFormInv'
<1>0. FormKinds /\ DrawerFits /\ FormInv(f)
  BY DEF ProofFormInv
<1>1. /\ UNCHANGED <<drawer, stage, chosen, known, pending, request, accepted, intended, lost>>
      /\ copy[f][p][n] = "staged" /\ CopyBecomes(f, p, n, "gone") /\ "gone" \in CopyStates
  BY DEF ExpireUpload, proofView, CopyBecomes, CopyStates
<1>2. /\ copy' \in [Forms -> CopySet] /\ \A g \in Forms \ {f} : copy'[g] = copy[g]
      /\ copy'[f][p][n] = "gone"
      /\ \A q \in Files, m \in 1..MaxCopies : <<q, m>> # <<p, n>> => copy'[f][q][m] = copy[f][q][m]
  BY <1>0, <1>1, CopyIs
<1>3. \A q \in Files, m \in 1..MaxCopies :
        copy'[f][q][m] = copy[f][q][m] \/ (copy[f][q][m] = "staged" /\ copy'[f][q][m] = "gone")
  BY <1>1, <1>2
<1>4. FormKinds' /\ DrawerFits' /\ OthersKept(f)
  BY <1>0, <1>1, <1>2 DEF FormKinds, DrawerFits, OthersKept
<1>5. RequestFits(f)' /\ TodoFits(f)' /\ CancelledIsOver(f)'
  BY <1>0, <1>1 DEF FormInv, RequestFits, TodoFits, ToUpload, ToDiscard, CancelledIsOver
<1>6. KnownFits(f)'
  <2>1. ASSUME NEW q \in Files, known[f][q] # 0 PROVE q \in chosen[f] /\ copy'[f][q][known[f][q]] # "none"
    <3>1. known[f][q] \in 1..MaxCopies /\ q \in chosen[f] /\ copy[f][q][known[f][q]] # "none"
      BY <1>0, <2>1, FormFields DEF FormInv, KnownFits
    <3> QED
      BY <1>3, <3>1
  <2> QED
    BY <1>1, <2>1 DEF KnownFits
<1>7. AnswerIsTrue(f)'
  <2>1. CASE request[f].answer # "ok"
    BY <1>1, <2>1 DEF AnswerIsTrue
  <2>2. CASE request[f].answer = "ok" /\ request[f].op = "upload"
    <3>1. /\ request[f].file \in Files /\ request[f].upload \in 1..MaxCopies /\ request[f].upload # 0
          /\ copy[f][request[f].file][request[f].upload] # "none"
      BY <1>0, <2>2, FormFields DEF FormInv, AnswerIsTrue, RequestFits
    <3> QED
      BY <1>1, <1>3, <2>2, <3>1 DEF AnswerIsTrue
  <2>3. CASE request[f].answer = "ok" /\ request[f].op = "discard"
    <3>1. /\ request[f].file \in Files /\ request[f].upload \in 1..MaxCopies
          /\ copy[f][request[f].file][request[f].upload] = "gone"
      BY <1>0, <2>3, FormFields DEF FormInv, AnswerIsTrue, RequestFits
    <3> QED
      BY <1>1, <1>3, <2>3, <3>1 DEF AnswerIsTrue
  <2>4. CASE request[f].answer = "ok" /\ request[f].op = "submit"
    <3>1. ASSUME NEW q \in Files, known[f][q] # 0 PROVE copy'[f][q][known[f][q]] = "attached"
      <4>1. known[f][q] \in 1..MaxCopies /\ copy[f][q][known[f][q]] = "attached"
        BY <1>0, <2>4, <3>1, FormFields DEF FormInv, AnswerIsTrue
      <4> QED
        BY <1>3, <4>1
    <3> QED
      BY <1>1, <2>4, <3>1 DEF AnswerIsTrue
  <2>5. CASE request[f].answer = "ok" /\ request[f].op = "none"
    BY <1>1, <2>5 DEF AnswerIsTrue
  <2> QED
    BY <1>0, <2>1, <2>2, <2>3, <2>4, <2>5, FormFields
<1>8. StagedIsTraced(f)'
  BY <1>0, <1>1, <1>3 DEF FormInv, StagedIsTraced, Traced
<1>9. StoredIsWhole(f)'
  <2>1. ASSUME NEW s \in accepted[f], NEW x \in s.photos
        PROVE  x \in Files \X (1..MaxCopies) /\ copy'[f][x[1]][x[2]] = "attached"
    <3>1. x \in Files \X (1..MaxCopies) /\ copy[f][x[1]][x[2]] = "attached"
      BY <1>0 DEF FormInv, StoredIsWhole
    <3>2. x[1] \in Files /\ x[2] \in 1..MaxCopies
      BY <3>1
    <3> QED
      BY <1>3, <3>1, <3>2
  <2> QED
    BY <1>0, <1>1, <2>1 DEF FormInv, StoredIsWhole
<1> QED
  BY <1>4, <1>5, <1>6, <1>7, <1>8, <1>9, KeptIsKept DEF FormKept, FormInv

-----------------------------------------------------------------------------
\* The form reads an answer.
LEMMA ReadIs ==
  ASSUME FormKinds, NEW f \in Forms, NEW op, NEW answer, ProofAnswered(f, op, answer)
  PROVE  /\ request[f].op = op /\ request[f].answer = answer
         /\ request' \in [Forms -> Requests] /\ request'[f] = NoRequest
         /\ \A g \in Forms \ {f} : request'[g] = request[g]
         /\ UNCHANGED <<copy, accepted, intended, lost>>
BY QuietIs DEF ProofAnswered, FormKinds

\* One photo is known by another upload, or by none.
KnownBecomes(f, p, n) == known' = [known EXCEPT ![f][p] = n]
LEMMA KnownIs ==
  ASSUME FormKinds, NEW f \in Forms, NEW p \in Files, NEW n \in 0..MaxCopies, KnownBecomes(f, p, n)
  PROVE  /\ known' \in [Forms -> KnownSet] /\ known'[f][p] = n
         /\ \A g \in Forms \ {f} : known'[g] = known[g]
         /\ \A q \in Files \ {p} : known'[f][q] = known[f][q]
<1> DEFINE new == [known[f] EXCEPT ![p] = n]
<1>1. new \in KnownSet /\ new[p] = n /\ \A q \in Files \ {p} : new[q] = known[f][q]
  BY DEF FormKinds, KnownSet
<1>2. known' = [known EXCEPT ![f] = new]
  BY DEF KnownBecomes
<1> HIDE DEF new
<1> QED
  BY <1>1, <1>2 DEF FormKinds

LEMMA TaskIs ==
  ASSUME FormKinds, NEW f \in Forms, NEW undone \in SUBSET Files,
         pending' = [pending EXCEPT ![f] = [pending[f] EXCEPT !.todo = undone]]
  PROVE  /\ pending' \in [Forms -> Tasks] /\ pending'[f].kind = pending[f].kind
         /\ pending'[f].todo = undone /\ \A g \in Forms \ {f} : pending'[g] = pending[g]
<1> DEFINE new == [pending[f] EXCEPT !.todo = undone]
<1>1. new \in Tasks /\ new.kind = pending[f].kind /\ new.todo = undone
  BY FormFields DEF Tasks
<1> HIDE DEF new
<1>2. pending' = [pending EXCEPT ![f] = new]
  BY DEF new
<1> QED
  BY <1>1, <1>2 DEF FormKinds

LEMMA UploadedKeeps ==
  ASSUME ProofFormInv, NEW f \in Forms, Uploaded(f)
  PROVE  ProofFormInv'
<1>0. FormKinds /\ DrawerFits /\ FormInv(f)
  BY DEF ProofFormInv
<1> DEFINE p == request[f].file
           n == request[f].upload
           undone == pending[f].todo \ {p}
<1>1. /\ ProofAnswered(f, "upload", "ok") /\ KnownBecomes(f, p, n)
      /\ pending' = [pending EXCEPT ![f] = [pending[f] EXCEPT !.todo = undone]]
      /\ UNCHANGED <<drawer, stage, chosen>>
  BY DEF Uploaded, KnownBecomes
<1>2. /\ request[f].op = "upload" /\ request[f].answer = "ok"
      /\ request' \in [Forms -> Requests] /\ request'[f] = NoRequest
      /\ \A g \in Forms \ {f} : request'[g] = request[g]
      /\ UNCHANGED <<copy, accepted, intended, lost>>
  BY <1>0, <1>1, ReadIs
<1>3. /\ pending[f].kind = "submit" /\ p \in pending[f].todo /\ pending[f].todo = ToUpload(f)
      /\ intended[f] = chosen[f] /\ p \in Files /\ n \in 0..MaxCopies /\ n # 0 /\ n \in 1..MaxCopies
      /\ copy[f][p][n] # "none" /\ undone \in SUBSET Files
  BY <1>0, <1>2, FormFields DEF FormInv, RequestFits, TodoFits, AnswerIsTrue
<1>4. p \in chosen[f] /\ known[f][p] = 0
  BY <1>3 DEF ToUpload
<1>5. undone = ToUpload(f) \ {p}
  BY <1>3
<1>6. \A m \in 1..MaxCopies, q \in Files :
        Traced(f, q, m) => known[f][q] = m \/ <<f, q, m>> \in lost \/ (q = p /\ m = n)
  BY DEF Traced
<1> HIDE DEF p, n, undone
<1>7. /\ known' \in [Forms -> KnownSet] /\ known'[f][p] = n
      /\ \A g \in Forms \ {f} : known'[g] = known[g]
      /\ \A q \in Files \ {p} : known'[f][q] = known[f][q]
  BY <1>0, <1>1, <1>3, KnownIs
<1>8. /\ pending' \in [Forms -> Tasks] /\ pending'[f].kind = pending[f].kind
      /\ pending'[f].todo = undone /\ \A g \in Forms \ {f} : pending'[g] = pending[g]
  BY <1>0, <1>1, <1>3, TaskIs
<1>9. FormKinds' /\ DrawerFits' /\ OthersKept(f)
  BY <1>0, <1>1, <1>2, <1>7, <1>8 DEF FormKinds, DrawerFits, OthersKept
<1>10. RequestFits(f)' /\ AnswerIsTrue(f)'
  BY <1>2, QuietIs DEF RequestFits, AnswerIsTrue
<1>11. TodoFits(f)'
  <2>1. chosen'[f] \subseteq Files /\ chosen' = chosen
    BY <1>0, <1>1, FormFields
  <2>2. ToUpload(f)' = ToUpload(f) \ {p}
    BY <1>3, <1>7, <2>1 DEF ToUpload
  <2> QED
    BY <1>2, <1>3, <1>5, <1>8, <2>1, <2>2 DEF TodoFits
<1>12. KnownFits(f)' /\ StoredIsWhole(f)'
  BY <1>0, <1>1, <1>2, <1>3, <1>4, <1>7 DEF FormInv, KnownFits, StoredIsWhole
<1>13. StagedIsTraced(f)'
  <2>1. ASSUME NEW q \in Files, NEW m \in 1..MaxCopies, copy[f][q][m] = "staged"
        PROVE  known'[f][q] = m \/ <<f, q, m>> \in lost
    <3>1. known[f][q] = m \/ <<f, q, m>> \in lost \/ (q = p /\ m = n)
      BY <1>0, <1>6, <2>1 DEF FormInv, StagedIsTraced
    <3>2. m # 0
      BY ProofFormAssumption
    <3> QED
      BY <1>4, <1>7, <3>1, <3>2
  <2> QED
    BY <1>2, <2>1 DEF StagedIsTraced, Traced
<1>14. CancelledIsOver(f)'
  BY <1>0, <1>1, <1>3 DEF FormInv, CancelledIsOver
<1> QED
  BY <1>9, <1>10, <1>11, <1>12, <1>13, <1>14, KeptIsKept DEF FormKept, FormInv

\* A photo that was discarded is gone, so that the form may forget it.
LEMMA DiscardedKeeps ==
  ASSUME ProofFormInv, NEW f \in Forms, Discarded(f)
  PROVE  ProofFormInv'
<1>0. FormKinds /\ DrawerFits /\ FormInv(f)
  BY DEF ProofFormInv
<1> DEFINE p == request[f].file
           n == request[f].upload
           undone == pending[f].todo \ {p}
<1>1. /\ ProofAnswered(f, "discard", "ok") /\ KnownBecomes(f, p, 0)
      /\ chosen' = IF pending[f].kind = "remove" THEN [chosen EXCEPT ![f] = Without(f, p)] ELSE chosen
      /\ \/ undone = {} /\ pending[f].kind = "cancel" /\ Ended(f, "cancelled")
         \/ /\ ~(undone = {} /\ pending[f].kind = "cancel") /\ UNCHANGED <<drawer, stage>>
            /\ pending' = [pending EXCEPT ![f] =
                              IF undone = {} THEN Quiet ELSE [pending[f] EXCEPT !.todo = undone]]
  BY DEF Discarded, KnownBecomes
<1>2. /\ request[f].op = "discard" /\ request[f].answer = "ok"
      /\ request' \in [Forms -> Requests] /\ request'[f] = NoRequest
      /\ \A g \in Forms \ {f} : request'[g] = request[g]
      /\ UNCHANGED <<copy, accepted, intended, lost>>
  BY <1>0, <1>1, ReadIs
<1>3. /\ pending[f].kind \in {"remove", "cancel"} /\ p \in pending[f].todo /\ p \in Files
      /\ n # 0 /\ n = known[f][p] /\ n \in 1..MaxCopies /\ copy[f][p][n] = "gone"
      /\ undone \in SUBSET Files /\ 0 \in 0..MaxCopies
  BY <1>0, <1>2, FormFields, ProofFormAssumption DEF FormInv, RequestFits, AnswerIsTrue
<1>4. /\ pending[f].kind = "cancel" => undone = ToDiscard(f) \ {p}
      /\ pending[f].kind = "remove" => undone = {}
  BY <1>0, <1>3 DEF FormInv, TodoFits
<1>5. \A m \in 1..MaxCopies, q \in Files : Traced(f, q, m) => known[f][q] = m \/ <<f, q, m>> \in lost
  BY <1>2 DEF Traced
<1> HIDE DEF p, n, undone
<1>6. /\ known' \in [Forms -> KnownSet] /\ known'[f][p] = 0
      /\ \A g \in Forms \ {f} : known'[g] = known[g]
      /\ \A q \in Files \ {p} : known'[f][q] = known[f][q]
  BY <1>0, <1>1, <1>3, KnownIs
<1>7. /\ chosen' \in [Forms -> SUBSET Files] /\ \A g \in Forms \ {f} : chosen'[g] = chosen[g]
      /\ \A q \in Files \ {p} : q \in chosen[f] => q \in chosen'[f]
  BY <1>0, <1>1, FormFields DEF FormKinds, Without
<1>8. /\ pending' \in [Forms -> Tasks] /\ \A g \in Forms \ {f} : pending'[g] = pending[g]
      /\ drawer' \in Forms \cup {0} /\ stage' \in [Forms -> Stages] /\ DrawerFits'
      /\ \A g \in Forms \ {f} : stage'[g] = "cancelled" => stage[g] = "cancelled"
      /\ \/ pending'[f].kind = "none" /\ (stage'[f] = "cancelled" => stage[f] = "cancelled" \/ undone = {})
         \/ /\ undone # {} /\ pending'[f].kind = pending[f].kind /\ pending'[f].todo = undone
            /\ stage'[f] = stage[f]
  <2>1. CASE undone = {} /\ pending[f].kind = "cancel" /\ Ended(f, "cancelled")
    <3>1. /\ drawer' = 0 /\ DrawerFits' /\ stage' \in [Forms -> Stages]
          /\ \A g \in Forms : stage'[g] = "cancelled" => stage[g] = "cancelled" \/ g = f
          /\ pending' \in [Forms -> Tasks] /\ pending'[f] = Quiet
          /\ \A g \in Forms \ {f} : pending'[g] = pending[g]
      BY <2>1, EndedIs
    <3> QED
      BY <2>1, <3>1, QuietIs
  <2>2. CASE /\ ~(undone = {} /\ pending[f].kind = "cancel") /\ UNCHANGED <<drawer, stage>>
             /\ pending' = [pending EXCEPT ![f] =
                               IF undone = {} THEN Quiet ELSE [pending[f] EXCEPT !.todo = undone]]
    <3>1. DrawerFits' /\ drawer' \in Forms \cup {0} /\ stage' \in [Forms -> Stages]
      BY <1>0, <2>2 DEF DrawerFits, FormKinds
    <3>2. CASE undone = {}
      <4>1. pending' = [pending EXCEPT ![f] = Quiet]
        BY <2>2, <3>2
      <4>2. /\ pending' \in [Forms -> Tasks] /\ pending'[f] = Quiet
            /\ \A g \in Forms \ {f} : pending'[g] = pending[g]
        BY <1>0, <4>1, QuietIs DEF FormKinds
      <4> QED
        BY <2>2, <3>1, <4>2, QuietIs
    <3>3. CASE undone # {}
      <4>1. pending' = [pending EXCEPT ![f] = [pending[f] EXCEPT !.todo = undone]]
        BY <2>2, <3>3
      <4>2. /\ pending' \in [Forms -> Tasks] /\ pending'[f].kind = pending[f].kind
            /\ pending'[f].todo = undone /\ \A g \in Forms \ {f} : pending'[g] = pending[g]
        BY <1>0, <1>3, <4>1, TaskIs
      <4> QED
        BY <2>2, <3>1, <3>3, <4>2
    <3> QED
      BY <3>2, <3>3
  <2> QED
    BY <1>1, <2>1, <2>2
<1>9. FormKinds' /\ OthersKept(f)
  BY <1>0, <1>2, <1>6, <1>7, <1>8 DEF FormKinds, OthersKept
<1>10. RequestFits(f)' /\ AnswerIsTrue(f)'
  BY <1>2, QuietIs DEF RequestFits, AnswerIsTrue
<1>11. TodoFits(f)'
  <2>1. CASE pending'[f].kind = "none"
    BY <2>1 DEF TodoFits
  <2>2. CASE undone # {} /\ pending'[f].kind = pending[f].kind /\ pending'[f].todo = undone
    <3>1. pending[f].kind = "cancel" /\ undone = ToDiscard(f) \ {p}
      BY <1>3, <1>4, <2>2
    <3>2. ToDiscard(f)' = ToDiscard(f) \ {p}
      BY <1>6 DEF ToDiscard
    <3> QED
      BY <2>2, <3>1, <3>2 DEF TodoFits
  <2> QED
    BY <1>8, <2>1, <2>2
<1>12. KnownFits(f)' /\ StoredIsWhole(f)'
  BY <1>0, <1>2, <1>6, <1>7 DEF FormInv, KnownFits, StoredIsWhole
<1>13. StagedIsTraced(f)'
  <2>1. ASSUME NEW q \in Files, NEW m \in 1..MaxCopies, copy[f][q][m] = "staged"
        PROVE  known'[f][q] = m \/ <<f, q, m>> \in lost
    <3>1. known[f][q] = m \/ <<f, q, m>> \in lost
      BY <1>0, <1>5, <2>1 DEF FormInv, StagedIsTraced
    <3>2. q = p => known[f][q] # m
      BY <1>3, <2>1
    <3> QED
      BY <1>6, <3>1, <3>2
  <2> QED
    BY <1>2, <2>1 DEF StagedIsTraced, Traced
<1>14. CancelledIsOver(f)'
  <2>1. ASSUME stage'[f] = "cancelled" PROVE undone = {} /\ pending[f].kind # "none" /\ stage[f] # "cancelled"
    BY <1>0, <1>3, <1>8, <2>1 DEF FormInv, CancelledIsOver
  <2>2. ASSUME stage'[f] = "cancelled" PROVE \A q \in Files : known'[f][q] = 0
    <3>1. pending[f].kind = "cancel"
      BY <1>1, <1>3, <1>8, <2>1, <2>2 DEF FormKinds
    <3>2. \A q \in Files \ {p} : known[f][q] = 0
      BY <1>4, <2>1, <2>2, <3>1 DEF ToDiscard
    <3> QED
      BY <1>6, <3>2
  <2> QED
    BY <1>2, <1>8, <2>1, <2>2, QuietIs DEF CancelledIsOver
<1> QED
  BY <1>8, <1>9, <1>10, <1>11, <1>12, <1>13, <1>14, KeptIsKept DEF FormKept, FormInv

\* What was known when the proof was stored is attached, so that the form may
\* forget it.
LEMMA SavedKeeps ==
  ASSUME ProofFormInv, NEW f \in Forms, Saved(f)
  PROVE  ProofFormInv'
<1>0. FormKinds /\ FormInv(f)
  BY DEF ProofFormInv
<1> DEFINE none == [p \in Files |-> 0]
<1>1. /\ ProofAnswered(f, "submit", "ok") /\ Ended(f, "saved")
      /\ known' = [known EXCEPT ![f] = none] /\ UNCHANGED chosen
  BY DEF Saved
<1>2. /\ request[f].op = "submit" /\ request[f].answer = "ok"
      /\ request' \in [Forms -> Requests] /\ request'[f] = NoRequest
      /\ \A g \in Forms \ {f} : request'[g] = request[g]
      /\ UNCHANGED <<copy, accepted, intended, lost>>
  BY <1>0, <1>1, ReadIs
<1>3. none \in KnownSet /\ \A p \in Files : none[p] = 0
  BY ProofFormAssumption DEF KnownSet
<1> HIDE DEF none
<1>4. /\ known' \in [Forms -> KnownSet] /\ \A p \in Files : known'[f][p] = 0
      /\ \A g \in Forms \ {f} : known'[g] = known[g]
  BY <1>0, <1>1, <1>3 DEF FormKinds
<1>5. /\ drawer' = 0 /\ DrawerFits' /\ stage' \in [Forms -> Stages]
      /\ \A g \in Forms : stage'[g] = "cancelled" => stage[g] = "cancelled"
      /\ pending' \in [Forms -> Tasks] /\ pending'[f] = Quiet
      /\ \A g \in Forms \ {f} : pending'[g] = pending[g]
  BY <1>1, EndedIs
<1>6. FormKinds' /\ OthersKept(f)
  BY <1>0, <1>1, <1>2, <1>4, <1>5 DEF FormKinds, OthersKept
<1>7. RequestFits(f)' /\ AnswerIsTrue(f)' /\ TodoFits(f)' /\ KnownFits(f)'
  BY <1>2, <1>4, <1>5, QuietIs DEF RequestFits, AnswerIsTrue, TodoFits, KnownFits
<1>8. StoredIsWhole(f)' /\ CancelledIsOver(f)'
  BY <1>0, <1>2, <1>4, <1>5, QuietIs DEF FormInv, StoredIsWhole, CancelledIsOver
<1>9. StagedIsTraced(f)'
  <2>1. ASSUME NEW q \in Files, NEW m \in 1..MaxCopies, copy[f][q][m] = "staged"
        PROVE  <<f, q, m>> \in lost
    <3>1. known[f][q] = m \/ <<f, q, m>> \in lost
      BY <1>0, <1>2, <2>1 DEF FormInv, StagedIsTraced, Traced
    <3>2. known[f][q] # m
      BY <1>0, <1>2, <2>1, ProofFormAssumption DEF FormInv, AnswerIsTrue
    <3> QED
      BY <3>1, <3>2
  <2> QED
    BY <1>2, <2>1 DEF StagedIsTraced, Traced
<1> QED
  BY <1>5, <1>6, <1>7, <1>8, <1>9, KeptIsKept DEF FormKept, FormInv

LEMMA ProofRefusedKeeps ==
  ASSUME ProofFormInv, NEW f \in Forms, ProofRefused(f)
  PROVE  ProofFormInv'
<1>0. FormKinds /\ DrawerFits /\ FormInv(f)
  BY DEF ProofFormInv
<1>1. PICK op \in {"upload", "discard", "submit"} : ProofAnswered(f, op, "refused")
  BY DEF ProofRefused
<1>2. UNCHANGED <<drawer, stage, chosen, known>> /\ pending' = [pending EXCEPT ![f] = Quiet]
  BY DEF ProofRefused, proofView
<1>3. /\ request[f].answer = "refused" /\ request' \in [Forms -> Requests] /\ request'[f] = NoRequest
      /\ \A g \in Forms \ {f} : request'[g] = request[g]
      /\ UNCHANGED <<copy, accepted, intended, lost>>
  BY <1>0, <1>1, ReadIs
<1>4. /\ pending' \in [Forms -> Tasks] /\ pending'[f] = Quiet
      /\ \A g \in Forms \ {f} : pending'[g] = pending[g]
  BY <1>0, <1>2, QuietIs DEF FormKinds
<1>5. FormKinds' /\ DrawerFits' /\ OthersKept(f)
  BY <1>0, <1>2, <1>3, <1>4 DEF FormKinds, DrawerFits, OthersKept
<1>6. RequestFits(f)' /\ AnswerIsTrue(f)' /\ TodoFits(f)'
  BY <1>3, <1>4, QuietIs DEF RequestFits, AnswerIsTrue, TodoFits
<1>7. KnownFits(f)' /\ StoredIsWhole(f)' /\ CancelledIsOver(f)'
  BY <1>0, <1>2, <1>3, <1>4, QuietIs DEF FormInv, KnownFits, StoredIsWhole, CancelledIsOver
<1>8. StagedIsTraced(f)'
  BY <1>0, <1>2, <1>3 DEF FormInv, StagedIsTraced, Traced
<1> QED
  BY <1>5, <1>6, <1>7, <1>8, KeptIsKept DEF FormKept, FormInv

-----------------------------------------------------------------------------
LEMMA ProofFormInvKept == ProofFormInv /\ [ProofFormNext]_proofFormVars => ProofFormInv'
<1> SUFFICES ASSUME ProofFormInv, [ProofFormNext]_proofFormVars PROVE ProofFormInv'
  OBVIOUS
<1>1. CASE Dismiss \/ \E f \in Forms : ProofUser(f)
  BY <1>1, UserKeeps
<1>2. ASSUME NEW f \in Forms, ProofStep(f) PROVE ProofFormInv'
  <2>1. ASSUME NEW p \in Files, SendUpload(f, p) \/ SendDiscard(f, p) PROVE ProofFormInv'
    BY <2>1, SendKeeps
  <2>2. CASE SendProof(f) \/ StoreUpload(f) \/ DiscardUpload(f) \/ StoreProof(f)
    BY <2>2, SendKeeps, StoreUploadKeeps, DiscardUploadKeeps, StoreProofKeeps
  <2>3. CASE Uploaded(f) \/ Discarded(f) \/ Saved(f) \/ ProofRefused(f)
    BY <2>3, UploadedKeeps, DiscardedKeeps, SavedKeeps, ProofRefusedKeeps
  <2> QED
    BY <1>2, <2>1, <2>2, <2>3 DEF ProofStep
<1>3. ASSUME NEW f \in Forms, Spoil(f) \/ \E p \in Files, n \in 1..MaxCopies : ExpireUpload(f, p, n)
      PROVE  ProofFormInv'
  BY <1>3, SpoilKeeps, ExpireUploadKeeps
<1>4. CASE UNCHANGED proofFormVars
  <2>1. UNCHANGED <<drawer, stage, chosen, known, pending, request, copy, accepted, intended, lost>>
    BY <1>4 DEF proofFormVars, proofView
  <2>2. FormRests /\ DrawerFits'
    BY <2>1 DEF FormRests, ProofFormInv, FormKinds, DrawerFits
  <2> QED
    BY <2>2, RestKeeps
<1> QED
  BY <1>1, <1>2, <1>3, <1>4 DEF ProofFormNext

LEMMA ProofFormInvAlways == ProofFormSpec => []ProofFormInv
BY FormInitially, ProofFormInvKept, PTL DEF ProofFormSpec

LEMMA PhotosAreKeptIn == ProofFormInv => PhotosAreKept
<1> SUFFICES ASSUME ProofFormInv PROVE PhotosAreKept
  OBVIOUS
<1>0. FormKinds /\ DrawerFits /\ \A f \in Forms : FormInv(f)
  BY DEF ProofFormInv
<1>1. ProofFormTypeOK
  BY <1>0, FormFields DEF ProofFormTypeOK, FormKinds, DrawerFits, FormInv, RequestFits, Stages
<1>2. ProofIsWhole /\ PhotosAreUsedOnce /\ KnownIsShown
  BY <1>0 DEF ProofIsWhole, PhotosAreUsedOnce, KnownIsShown, FormInv, StoredIsWhole, KnownFits
<1>3. CancelDiscards
  <2> SUFFICES ASSUME NEW f \in Forms, NEW p \in Files, NEW n \in 1..MaxCopies,
                      stage[f] = "cancelled", copy[f][p][n] = "staged"
               PROVE  <<f, p, n>> \in lost
    BY DEF CancelDiscards
  <2>1. known[f][p] = 0 /\ request[f].op = "none" /\ Traced(f, p, n)
    BY <1>0 DEF FormInv, CancelledIsOver, StagedIsTraced
  <2> QED
    BY <2>1, ProofFormAssumption DEF Traced
<1> QED
  BY <1>1, <1>2, <1>3 DEF PhotosAreKept

\* Whatever requests fail, whatever answers are lost and whatever is swept: a
\* stored proof is whole, no photo is used twice, cancelling leaves nothing but
\* uploads that were never answered, and what the form knows it shows.
THEOREM PhotosAreKeptCorrect == ProofFormSpec => []PhotosAreKept
BY ProofFormInvAlways, PhotosAreKeptIn, PTL

-----------------------------------------------------------------------------
(***************************************************************************)
(* The list of people.                                                     *)
(***************************************************************************)
RosterLoads == [at : {"none", "sent", "read"}, silent : BOOLEAN, data : [Members -> Rows]]
CommandRecords == [at : {"none", "sent", "ok", "refused", "loading"},
                   member : Members \cup {Nobody}, command : Commands, result : Rows]
PeopleCounts == [presses : Nat, losses : Nat, renewals : Nat]

PeopleKinds ==
  /\ row \in [Members -> Rows] /\ roster \in [Members -> Rows]
  /\ working \in Members \cup {Nobody} /\ saving \in BOOLEAN /\ failures \in 0..FailureCap
  /\ timer \in BOOLEAN /\ rosterLoad \in [Loaders -> RosterLoads]
  /\ action \in [CommandSlots -> CommandRecords] /\ peopleSpent \in PeopleCounts
\* Whose command is over is a member.
CommandsHaveMembers ==
  \A s \in CommandSlots : action[s].at # "none" => action[s].member \in Members
\* A command waits for a load just if it has one.
CommandsWait ==
  \A s \in CommandSlots : action[s].at = "loading" <=> rosterLoad[s].at # "none"
TimerFits == timer => Rearmed(roster, working)
PollIsSilent == rosterLoad[0].silent
FailuresAreLosses == failures <= peopleSpent.losses /\ peopleSpent.losses <= MaxLosses
\* Only a failure beyond the cap stops the poll.
PollOrCap == PollGoesOn \/ (failures = FailureCap /\ peopleSpent.losses > FailureCap)

PeopleInv ==
  /\ PeopleKinds /\ CommandsHaveMembers /\ CommandsWait /\ TimerFits /\ PollIsSilent
  /\ FailuresAreLosses /\ PollOrCap

LEMMA LoadersAre ==
  /\ 0 \in Loaders /\ 0 \notin CommandSlots /\ CommandSlots \subseteq Loaders
  /\ \A o \in Loaders : o # 0 => o \in CommandSlots
BY PeopleAssumption DEF Loaders

LEMMA FreshPeopleRecords ==
  /\ NoRow \in Rows /\ Unread \in [Members -> Rows] /\ NoRosterLoad \in RosterLoads
  /\ NoCommand \in CommandRecords
  /\ \A silent \in BOOLEAN : Request(silent) \in RosterLoads
<1>1. NoRow \in Rows
  BY DEF NoRow, Rows
<1>2. Unread \in [Members -> Rows]
  BY <1>1 DEF Unread
<1> QED
  BY <1>1, <1>2 DEF NoRosterLoad, RosterLoads, NoCommand, CommandRecords, Request, Commands

\* The API and the answers make rows of rows.
LEMMA OutcomeIsRow ==
  ASSUME NEW r \in Rows, NEW command \in Commands
  PROVE  Outcome(r, command) \in Rows
<1>1. [r EXCEPT !.job = "work"] \in Rows
  BY DEF Rows
<1>2. NoRow \in Rows /\ [state |-> "active", job |-> "work"] \in Rows
      /\ [state |-> "disabled", job |-> "work"] \in Rows
  BY DEF Rows, NoRow
<1> QED
  BY <1>1, <1>2 DEF Outcome

LEMMA MergedIsRoster ==
  ASSUME PeopleKinds, NEW s \in CommandSlots
  PROVE  Merged(s) \in [Members -> Rows]
<1>1. action[s].result \in Rows /\ NoRow \in Rows
  BY FreshPeopleRecords DEF PeopleKinds, CommandRecords
<1>2. \A m, r \in Rows : [roster EXCEPT ![action[s].member] = r] \in [Members -> Rows]
  BY DEF PeopleKinds
<1> QED
  BY <1>1, <1>2 DEF Merged, PeopleKinds

LEMMA PeopleInitially == PeopleInit => PeopleInv
<1> SUFFICES ASSUME PeopleInit PROVE PeopleInv
  OBVIOUS
<1>1. row \in [Members -> Rows]
  BY PeopleAssumption DEF PeopleInit
<1>2. PeopleKinds
  <2>1. timer \in BOOLEAN
    BY Zenon DEF PeopleInit
  <2>2. rosterLoad \in [Loaders -> RosterLoads] /\ action \in [CommandSlots -> CommandRecords]
    BY FreshPeopleRecords DEF PeopleInit
  <2>3. peopleSpent \in PeopleCounts
    BY DEF PeopleInit, PeopleCounts
  <2> QED
    <3>1. roster = row /\ working = Nobody /\ saving \in BOOLEAN /\ failures = 0
      BY Zenon DEF PeopleInit
    <3>2. 0 \in 0..FailureCap
      BY PeopleAssumption
    <3> QED
      BY <1>1, <2>1, <2>2, <2>3, <3>1, <3>2 DEF PeopleKinds
<1>3. CommandsHaveMembers /\ CommandsWait /\ PollIsSilent
  BY LoadersAre DEF PeopleInit, CommandsHaveMembers, CommandsWait, PollIsSilent, NoCommand,
     NoRosterLoad
<1>4. TimerFits /\ PollOrCap
  BY DEF PeopleInit, TimerFits, Rearmed, Pending, PollOrCap, PollGoesOn
<1>5. FailuresAreLosses
  BY PeopleAssumption DEF PeopleInit, FailuresAreLosses
<1> QED
  BY <1>2, <1>3, <1>4, <1>5 DEF PeopleInv

\* Counting a bound.
LEMMA UseUpIs ==
  ASSUME PeopleKinds, NEW bound \in Nat, NEW what \in {"presses", "losses", "renewals"},
         UseUp(what, bound)
  PROVE  /\ peopleSpent' \in PeopleCounts
         /\ what # "losses" => peopleSpent'.losses = peopleSpent.losses
         /\ what = "losses" => /\ peopleSpent'.losses = peopleSpent.losses + 1
                               /\ peopleSpent'.losses <= bound
BY DEF UseUp, PeopleKinds, PeopleCounts

LEMMA RearmedIsBoolean == \A view, member : Rearmed(view, member) \in BOOLEAN
BY Zenon DEF Rearmed, Pending

\* The end of a command or of the load that it waited for.
LEMMA EndsKeeps ==
  ASSUME PeopleKinds, CommandsHaveMembers, NEW s \in CommandSlots, Ends(s)
  PROVE  /\ action' \in [CommandSlots -> CommandRecords] /\ saving' \in BOOLEAN
         /\ working' \in Members \cup {Nobody} /\ working' = WorkingAfter(s)
         /\ action'[s].at = "none" /\ \A r \in CommandSlots \ {s} : action'[r] = action[r]
         /\ CommandsHaveMembers'
<1>1. NoCommand \in CommandRecords /\ NoCommand.at = "none"
  BY FreshPeopleRecords DEF NoCommand
<1>2. saving' \in BOOLEAN
  BY Zenon DEF Ends
<1> HIDE DEF NoCommand
<1>3. /\ action' \in [CommandSlots -> CommandRecords]
      /\ action'[s].at = "none" /\ \A r \in CommandSlots \ {s} : action'[r] = action[r]
  BY <1>1 DEF Ends, PeopleKinds
<1>4. working' \in Members \cup {Nobody} /\ working' = WorkingAfter(s)
  BY DEF Ends, WorkingAfter, PeopleKinds
<1>5. CommandsHaveMembers'
  BY <1>3 DEF CommandsHaveMembers
<1> QED
  BY <1>2, <1>3, <1>4, <1>5

\* What a load of the list leaves when it is over.
LEMMA RosterEndsKeeps ==
  ASSUME PeopleKinds, CommandsHaveMembers, CommandsWait, PollIsSilent,
         NEW o \in Loaders, RosterEnds(o)
  PROVE  /\ rosterLoad' \in [Loaders -> RosterLoads] /\ rosterLoad' = [rosterLoad EXCEPT ![o] = NoRosterLoad]
         /\ action' \in [CommandSlots -> CommandRecords] /\ saving' \in BOOLEAN
         /\ working' \in Members \cup {Nobody} /\ working' = AfterLoad(o)
         /\ CommandsHaveMembers' /\ CommandsWait' /\ PollIsSilent'
<1>1. NoRosterLoad \in RosterLoads /\ NoRosterLoad.at = "none" /\ NoRosterLoad.silent
  BY FreshPeopleRecords DEF NoRosterLoad
<1> HIDE DEF NoRosterLoad
<1>2. /\ rosterLoad' \in [Loaders -> RosterLoads] /\ rosterLoad'[o] = NoRosterLoad
      /\ \A p \in Loaders \ {o} : rosterLoad'[p] = rosterLoad[p]
      /\ rosterLoad' = [rosterLoad EXCEPT ![o] = NoRosterLoad]
  BY <1>1 DEF RosterEnds, PeopleKinds
<1>3. PollIsSilent'
  BY <1>1, <1>2, LoadersAre DEF PollIsSilent
<1>4. CASE o = 0
  <2>1. UNCHANGED <<action, working, saving>>
    BY <1>4 DEF RosterEnds
  <2>2. CommandsWait' /\ CommandsHaveMembers'
    BY <2>1, <1>2, <1>4, LoadersAre DEF CommandsWait, CommandsHaveMembers
  <2> QED
    BY <1>2, <1>3, <1>4, <2>1, <2>2 DEF PeopleKinds, AfterLoad
<1>5. CASE o # 0
  <2>1. o \in CommandSlots /\ Ends(o)
    BY <1>5, LoadersAre DEF RosterEnds
  <2>2. CommandsWait'
    BY <1>1, <1>2, <2>1, EndsKeeps, LoadersAre DEF CommandsWait
  <2> QED
    BY <1>2, <1>3, <1>5, <2>1, <2>2, EndsKeeps DEF AfterLoad
<1> QED
  BY <1>4, <1>5

\* The lists, the loads and the commands, and what waits for what.
PeopleOrder == PeopleKinds /\ CommandsHaveMembers /\ CommandsWait /\ PollIsSilent

LEMMA CommandKeepsOrder ==
  ASSUME PeopleOrder, NEW s \in CommandSlots,
         \/ CommandStep(s) \/ LoseCommand(s)
         \/ \E m \in Members, c \in Commands : PressCommand(s, m, c)
  PROVE  PeopleOrder'
<1> USE PeopleAssumption DEF PeopleOrder
<1>1. CASE ServeCommand(s)
  <2> DEFINE m == action[s].member
             new == Outcome(row[m], action[s].command)
             at == IF new = row[m] THEN "refused" ELSE "ok"
  <2>1. action[s] \in CommandRecords /\ action[s].at = "sent" /\ m \in Members
        /\ action[s].command \in Commands /\ row[m] \in Rows
    BY <1>1 DEF ServeCommand, CommandsHaveMembers, PeopleKinds, CommandRecords
  <2>2. new \in Rows
    BY <2>1, OutcomeIsRow
  <2> HIDE DEF m, new
  <2>3. [at |-> at, member |-> m, command |-> action[s].command, result |-> new] \in CommandRecords
    BY <2>1, <2>2 DEF CommandRecords
  <2>4. /\ action' = [action EXCEPT ![s] =
               [at |-> at, member |-> m, command |-> action[s].command, result |-> new]]
        /\ row' = [row EXCEPT ![m] = new]
        /\ UNCHANGED <<roster, working, saving, failures, timer, rosterLoad, peopleSpent>>
    BY <1>1 DEF ServeCommand, m, new
  <2>5. PeopleKinds'
    BY <2>1, <2>2, <2>3, <2>4 DEF PeopleKinds
  <2>6. /\ action'[s].member = m /\ action'[s].at \in {"refused", "ok"}
        /\ \A r \in CommandSlots \ {s} : action'[r] = action[r]
    BY <2>4 DEF PeopleKinds
  <2>7. CommandsHaveMembers' /\ CommandsWait' /\ PollIsSilent'
    BY <2>1, <2>4, <2>6 DEF CommandsHaveMembers, CommandsWait, PollIsSilent
  <2> QED
    BY <2>5, <2>7
<1>2. CASE CommandAccepted(s)
  <2>1. /\ action[s].at = "ok" /\ action' = [action EXCEPT ![s].at = "loading"]
        /\ rosterLoad' = [rosterLoad EXCEPT ![s] = Request(Silent(action[s].command))]
        /\ roster' = Merged(s) /\ timer' = Rearmed(Merged(s), working)
        /\ UNCHANGED <<row, working, saving, failures, peopleSpent>>
    BY <1>2 DEF CommandAccepted
  <2>2. Request(Silent(action[s].command)) \in RosterLoads
    <3>1. Silent(action[s].command) \in BOOLEAN
      BY DEF Silent
    <3> QED
      BY <3>1, FreshPeopleRecords
  <2>3. Request(Silent(action[s].command)).at = "sent"
    BY DEF Request
  <2>4. PeopleKinds'
    <3>1. action' \in [CommandSlots -> CommandRecords]
      BY <2>1 DEF PeopleKinds, CommandRecords
    <3>2. rosterLoad' \in [Loaders -> RosterLoads]
      BY <2>1, <2>2, LoadersAre DEF PeopleKinds
    <3>3. timer' \in BOOLEAN
      BY <2>1, RearmedIsBoolean
    <3> QED
      BY <2>1, <3>1, <3>2, <3>3, MergedIsRoster DEF PeopleKinds
  <2>5. /\ action'[s].at = "loading" /\ action'[s].member = action[s].member
        /\ \A r \in CommandSlots \ {s} : action'[r] = action[r]
    BY <2>1 DEF PeopleKinds, CommandRecords
  <2>6. /\ rosterLoad'[s].at = "sent"
        /\ \A o \in Loaders \ {s} : rosterLoad'[o] = rosterLoad[o]
    BY <2>1, <2>3, LoadersAre DEF PeopleKinds
  <2>7. CommandsHaveMembers' /\ CommandsWait' /\ PollIsSilent'
    BY <2>1, <2>5, <2>6, LoadersAre DEF CommandsHaveMembers, CommandsWait, PollIsSilent
  <2> QED
    BY <2>4, <2>7
<1>3. CASE CommandRefused(s)
  <2>1. /\ Ends(s) /\ action[s].at = "refused"
        /\ timer' = IF WorkingAfter(s) # working THEN Rearmed(roster, WorkingAfter(s)) ELSE timer
        /\ UNCHANGED <<row, roster, failures, rosterLoad, peopleSpent>>
    BY <1>3 DEF CommandRefused
  <2>2. timer' \in BOOLEAN
    BY <2>1, RearmedIsBoolean DEF PeopleKinds
  <2>3. PeopleKinds'
    BY <2>1, <2>2, EndsKeeps DEF PeopleKinds
  <2>4. CommandsHaveMembers' /\ CommandsWait' /\ PollIsSilent'
    BY <2>1, EndsKeeps DEF CommandsWait, PollIsSilent
  <2> QED
    BY <2>3, <2>4
<1>4. CASE LoseCommand(s)
  <2>1. /\ action[s].at \in {"sent", "ok"} /\ UseUp("losses", MaxLosses)
        /\ action' = [action EXCEPT ![s].at = "refused"]
        /\ UNCHANGED <<row, roster, working, saving, failures, timer, rosterLoad>>
    BY <1>4 DEF LoseCommand
  <2>2. peopleSpent' \in PeopleCounts
    BY <2>1, UseUpIs
  <2>3. PeopleKinds'
    <3>1. action' \in [CommandSlots -> CommandRecords]
      BY <2>1 DEF PeopleKinds, CommandRecords
    <3> QED
      BY <2>1, <2>2, <3>1 DEF PeopleKinds
  <2>4. /\ action'[s].at = "refused" /\ action'[s].member = action[s].member
        /\ \A r \in CommandSlots \ {s} : action'[r] = action[r]
    BY <2>1 DEF PeopleKinds, CommandRecords
  <2>5. CommandsHaveMembers' /\ CommandsWait' /\ PollIsSilent'
    BY <2>1, <2>4 DEF CommandsHaveMembers, CommandsWait, PollIsSilent
  <2> QED
    BY <2>3, <2>5
<1>5. CASE \E m \in Members, c \in Commands : PressCommand(s, m, c)
  <2>1. PICK m \in Members, c \in Commands : PressCommand(s, m, c)
    BY <1>5
  <2> DEFINE new == [at |-> "sent", member |-> m, command |-> c, result |-> NoRow]
  <2>2. new \in CommandRecords /\ new.at = "sent" /\ new.member = m
    BY FreshPeopleRecords DEF CommandRecords
  <2>3. /\ action[s].at = "none" /\ UseUp("presses", MaxCommands)
        /\ action' = [action EXCEPT ![s] = new]
        /\ UNCHANGED <<row, roster, failures, rosterLoad>>
        /\ working' \in {working, m} /\ saving' \in {saving, TRUE} /\ timer' \in {timer, FALSE}
    BY <2>1 DEF PressCommand
  <2>4. peopleSpent' \in PeopleCounts
    BY <2>3, UseUpIs
  <2> HIDE DEF new
  <2>5. PeopleKinds'
    BY <2>2, <2>3, <2>4 DEF PeopleKinds
  <2>6. /\ action'[s] = new /\ \A r \in CommandSlots \ {s} : action'[r] = action[r]
    BY <2>3 DEF PeopleKinds
  <2>7. CommandsHaveMembers' /\ CommandsWait' /\ PollIsSilent'
    BY <2>2, <2>3, <2>6 DEF CommandsHaveMembers, CommandsWait, PollIsSilent
  <2> QED
    BY <2>5, <2>7
<1> QED
  BY <1>1, <1>2, <1>3, <1>4, <1>5 DEF CommandStep

LEMMA LoadKeepsOrder ==
  ASSUME PeopleOrder,
         \/ \E o \in Loaders : RosterStep(o) \/ FailRoster(o)
         \/ \E m \in Members : SetUp(m)
         \/ Poll \/ RenewRoster
  PROVE  PeopleOrder'
<1> USE PeopleAssumption DEF PeopleOrder
<1>1. ASSUME NEW o \in Loaders, ReadRoster(o)
      PROVE  PeopleOrder'
  <2> DEFINE new == [at |-> "read", silent |-> rosterLoad[o].silent, data |-> row]
  <2>1. /\ rosterLoad[o].at = "sent" /\ rosterLoad' = [rosterLoad EXCEPT ![o] = new]
        /\ UNCHANGED <<row, roster, working, saving, failures, timer, action, peopleSpent>>
    BY <1>1 DEF ReadRoster
  <2>2. new \in RosterLoads /\ new.at = "read" /\ new.silent = rosterLoad[o].silent
    BY DEF PeopleKinds, RosterLoads
  <2> HIDE DEF new
  <2>3. rosterLoad' \in [Loaders -> RosterLoads] /\ rosterLoad'[o] = new
        /\ \A p \in Loaders \ {o} : rosterLoad'[p] = rosterLoad[p]
    BY <2>1, <2>2 DEF PeopleKinds
  <2>4. PeopleKinds' /\ CommandsHaveMembers'
    BY <2>1, <2>3 DEF PeopleKinds, CommandsHaveMembers
  <2>5. CommandsWait' /\ PollIsSilent'
    BY <2>1, <2>2, <2>3, LoadersAre DEF CommandsWait, PollIsSilent
  <2> QED
    BY <2>4, <2>5
<1>2. ASSUME NEW o \in Loaders, ShowRoster(o)
      PROVE  PeopleOrder'
  <2>1. /\ RosterEnds(o) /\ roster' = rosterLoad[o].data /\ failures' = 0
        /\ timer' = Rearmed(rosterLoad[o].data, AfterLoad(o)) /\ UNCHANGED <<row, peopleSpent>>
    BY <1>2 DEF ShowRoster
  <2>2. roster' \in [Members -> Rows] /\ timer' \in BOOLEAN
    BY <2>1, RearmedIsBoolean DEF PeopleKinds, RosterLoads
  <2> QED
    BY <2>1, <2>2, RosterEndsKeeps DEF PeopleKinds
<1>3. ASSUME NEW o \in Loaders, FailRoster(o)
      PROVE  PeopleOrder'
  <2>1. /\ RosterEnds(o) /\ UseUp("losses", MaxLosses) /\ UNCHANGED <<row, roster>>
        /\ failures' \in {failures, Failures}
        /\ timer' \in {timer, Rearmed(roster, AfterLoad(o))}
    BY <1>3 DEF FailRoster
  <2>2. timer' \in BOOLEAN /\ failures' \in 0..FailureCap
    BY <2>1, RearmedIsBoolean DEF PeopleKinds, Failures
  <2>3. peopleSpent' \in PeopleCounts
    BY <2>1, UseUpIs
  <2> QED
    BY <2>1, <2>2, <2>3, RosterEndsKeeps DEF PeopleKinds
<1>4. ASSUME NEW m \in Members, SetUp(m)
      PROVE  PeopleOrder'
  <2>1. UNCHANGED <<roster, working, saving, failures, timer, rosterLoad, action, peopleSpent>>
    BY <1>4 DEF SetUp
  <2>2. row' \in [Members -> Rows]
    <3>1. PICK end \in {"done", "failed"} : row' = [row EXCEPT ![m].job = end]
      BY <1>4 DEF SetUp
    <3> QED
      BY <3>1 DEF PeopleKinds, Rows
  <2> QED
    BY <2>1, <2>2 DEF PeopleKinds, CommandsHaveMembers, CommandsWait, PollIsSilent
<1>5. ASSUME Poll \/ RenewRoster
      PROVE  PeopleOrder'
  <2>1. /\ rosterLoad[0].at = "none" /\ rosterLoad' = [rosterLoad EXCEPT ![0] = Request(TRUE)]
        /\ timer' \in {FALSE, Rearmed(roster, working)}
        /\ UNCHANGED <<row, roster, working, saving, failures, action>>
    BY <1>5 DEF Poll, RenewRoster
  <2>2. peopleSpent' \in PeopleCounts
    BY <1>5, UseUpIs DEF Poll, RenewRoster, PeopleKinds
  <2>3. Request(TRUE) \in RosterLoads /\ Request(TRUE).silent
    BY FreshPeopleRecords DEF Request
  <2> HIDE DEF Request
  <2>4. rosterLoad' \in [Loaders -> RosterLoads] /\ rosterLoad'[0] = Request(TRUE)
        /\ \A p \in Loaders \ {0} : rosterLoad'[p] = rosterLoad[p]
    BY <2>1, <2>3, LoadersAre DEF PeopleKinds
  <2>5. PeopleKinds'
    BY <2>1, <2>2, <2>4, RearmedIsBoolean DEF PeopleKinds
  <2>6. CommandsHaveMembers' /\ CommandsWait' /\ PollIsSilent'
    BY <2>1, <2>3, <2>4, LoadersAre DEF CommandsHaveMembers, CommandsWait, PollIsSilent
  <2> QED
    BY <2>5, <2>6
<1> QED
  BY <1>1, <1>2, <1>3, <1>4, <1>5 DEF RosterStep

LEMMA OrderKept == PeopleOrder /\ [PeopleNext]_peopleVars => PeopleOrder'
<1>1. ASSUME PeopleOrder, UNCHANGED peopleVars PROVE PeopleOrder'
  BY <1>1 DEF peopleVars, PeopleOrder, PeopleKinds, CommandsHaveMembers, CommandsWait, PollIsSilent
<1> QED
  BY <1>1, CommandKeepsOrder, LoadKeepsOrder DEF PeopleNext

\* What a step does to the timer: it is set as the effect sets it, or nothing
\* that the timer depends on has changed, or somebody is worked on, or a poll is
\* under way, or a poll has failed once more with the counter at its cap.
TimerIsSet == timer' <=> Rearmed(roster', working')
TimerIsLeft ==
  /\ UNCHANGED <<timer, roster, working>>
  /\ rosterLoad'[0].at # "none" <=> rosterLoad[0].at # "none"
PollUnderWay == rosterLoad'[0].at # "none" /\ (timer' => TimerIsSet)
MemberInHand == working' # Nobody /\ ~timer'
CapReached ==
  /\ UNCHANGED <<timer, roster, working>>
  /\ failures' = FailureCap /\ failures = FailureCap /\ peopleSpent'.losses = peopleSpent.losses + 1
FailuresCounted ==
  \/ failures' \in {0, failures} /\ peopleSpent'.losses = peopleSpent.losses
  \/ /\ failures' \in {failures, failures + 1} /\ peopleSpent'.losses = peopleSpent.losses + 1
     /\ peopleSpent'.losses <= MaxLosses
\* Only an answer resets the counter, and it sets the timer.
PeopleEffect ==
  /\ TimerIsSet \/ TimerIsLeft \/ PollUnderWay \/ MemberInHand \/ CapReached
  /\ failures' # failures => TimerIsSet
  /\ FailuresCounted

LEMMA EffectKeeps ==
  ASSUME PeopleOrder, PeopleOrder', TimerFits, FailuresAreLosses, PollOrCap, PeopleEffect
  PROVE  TimerFits' /\ FailuresAreLosses' /\ PollOrCap'
<1> USE PeopleAssumption
<1>0. /\ failures \in 0..FailureCap /\ failures' \in 0..FailureCap /\ timer \in BOOLEAN
      /\ peopleSpent.losses \in Nat /\ peopleSpent'.losses \in Nat /\ FailureCap \in Nat
      /\ MaxLosses \in Nat
  BY DEF PeopleOrder, PeopleKinds, PeopleCounts
<1>1. FailuresAreLosses'
  BY <1>0 DEF PeopleEffect, FailuresCounted, FailuresAreLosses
<1>2. TimerFits'
  BY <1>0 DEF PeopleEffect, TimerIsSet, TimerIsLeft, PollUnderWay, MemberInHand, CapReached, TimerFits
<1>3. CASE TimerIsSet \/ PollUnderWay \/ MemberInHand
  BY <1>1, <1>2, <1>3 DEF TimerIsSet, PollUnderWay, MemberInHand, PollOrCap, PollGoesOn, Rearmed
<1>4. CASE TimerIsLeft /\ ~TimerIsSet
  <2>1. failures' = failures /\ peopleSpent'.losses >= peopleSpent.losses
    BY <1>0, <1>4 DEF PeopleEffect, FailuresCounted
  <2>2. PollGoesOn => PollGoesOn'
    BY <1>4 DEF TimerIsLeft, PollGoesOn, Pending
  <2> QED
    BY <1>0, <1>1, <1>2, <2>1, <2>2 DEF PollOrCap
<1>5. CASE CapReached
  BY <1>0, <1>1, <1>2, <1>5 DEF CapReached, PollOrCap, FailuresAreLosses
<1> QED
  BY <1>3, <1>4, <1>5 DEF PeopleEffect

LEMMA EffectOfCommands ==
  ASSUME PeopleOrder, PeopleOrder', TimerFits, NEW s \in CommandSlots,
         \/ CommandStep(s) \/ LoseCommand(s)
         \/ \E m \in Members, c \in Commands : PressCommand(s, m, c)
  PROVE  PeopleEffect
<1> USE PeopleAssumption
<1>1. CASE ServeCommand(s)
  BY <1>1 DEF ServeCommand, PeopleEffect, TimerIsLeft, FailuresCounted
<1>2. CASE CommandAccepted(s)
  <2>1. /\ timer' = Rearmed(roster', working') /\ UNCHANGED <<failures, peopleSpent>>
    BY <1>2 DEF CommandAccepted
  <2> QED
    BY <2>1 DEF PeopleEffect, TimerIsSet, FailuresCounted
<1>3. CASE CommandRefused(s)
  <2>1. /\ Ends(s) /\ UNCHANGED <<roster, failures, rosterLoad, peopleSpent>>
        /\ timer' = IF WorkingAfter(s) # working THEN Rearmed(roster, WorkingAfter(s)) ELSE timer
    BY <1>3 DEF CommandRefused
  <2>2. working' = WorkingAfter(s)
    BY <2>1 DEF Ends
  <2> QED
    BY <2>1, <2>2 DEF PeopleEffect, TimerIsSet, TimerIsLeft, FailuresCounted
<1>4. CASE LoseCommand(s)
  <2>1. UseUp("losses", MaxLosses) /\ UNCHANGED <<roster, working, failures, timer, rosterLoad>>
    BY <1>4 DEF LoseCommand
  <2> QED
    BY <2>1, UseUpIs DEF PeopleEffect, TimerIsLeft, FailuresCounted, PeopleOrder
<1>5. CASE \E m \in Members, c \in Commands : PressCommand(s, m, c)
  <2>1. PICK m \in Members, c \in Commands : PressCommand(s, m, c)
    BY <1>5
  <2>2. UseUp("presses", MaxCommands) /\ UNCHANGED <<roster, failures, rosterLoad>>
    BY <2>1 DEF PressCommand
  <2>3. FailuresCounted
    BY <2>2, UseUpIs DEF PeopleOrder, FailuresCounted
  <2>4. CASE c = "add"
    BY <2>1, <2>2, <2>3, <2>4 DEF PressCommand, PeopleEffect, TimerIsLeft
  <2>5. CASE c # "add"
    BY <2>1, <2>2, <2>3, <2>5 DEF PressCommand, PeopleEffect, MemberInHand
  <2> QED
    BY <2>4, <2>5
<1> QED
  BY <1>1, <1>2, <1>3, <1>4, <1>5 DEF CommandStep

LEMMA EffectOfLoads ==
  ASSUME PeopleOrder, PeopleOrder', TimerFits,
         \/ \E o \in Loaders : RosterStep(o) \/ FailRoster(o)
         \/ \E m \in Members : SetUp(m)
         \/ Poll \/ RenewRoster
  PROVE  PeopleEffect
<1> USE PeopleAssumption DEF PeopleOrder
<1>1. ASSUME NEW o \in Loaders, ReadRoster(o)
      PROVE  PeopleEffect
  <2>1. rosterLoad'[0].at # "none" <=> rosterLoad[0].at # "none"
    BY <1>1, LoadersAre DEF ReadRoster, PeopleKinds
  <2> QED
    BY <1>1, <2>1 DEF ReadRoster, PeopleEffect, TimerIsLeft, FailuresCounted
<1>2. ASSUME NEW o \in Loaders, ShowRoster(o)
      PROVE  PeopleEffect
  <2>1. /\ RosterEnds(o) /\ roster' = rosterLoad[o].data /\ failures' = 0
        /\ timer' = Rearmed(rosterLoad[o].data, AfterLoad(o)) /\ UNCHANGED peopleSpent
    BY <1>2 DEF ShowRoster
  <2> QED
    BY <2>1, RosterEndsKeeps DEF PeopleEffect, TimerIsSet, FailuresCounted
<1>3. ASSUME NEW o \in Loaders, FailRoster(o)
      PROVE  PeopleEffect
  <2> DEFINE count == IF rosterLoad[o].silent THEN Failures ELSE failures
  <2>1. /\ RosterEnds(o) /\ UseUp("losses", MaxLosses) /\ UNCHANGED roster
        /\ failures' = count
        /\ timer' = IF count # failures \/ AfterLoad(o) # working
                    THEN Rearmed(roster, AfterLoad(o)) ELSE timer
    BY <1>3 DEF FailRoster
  <2>2. /\ working' = AfterLoad(o) /\ rosterLoad' = [rosterLoad EXCEPT ![o] = NoRosterLoad]
    BY <2>1, RosterEndsKeeps
  <2>3. FailuresCounted
    BY <2>1, UseUpIs DEF FailuresCounted, Failures
  <2>4. CASE failures' # failures \/ working' # working
    BY <2>1, <2>2, <2>3, <2>4 DEF PeopleEffect, TimerIsSet
  <2>5. CASE failures' = failures /\ working' = working /\ o # 0
    <3>1. rosterLoad'[0] = rosterLoad[0]
      BY <2>2, <2>5, LoadersAre DEF PeopleKinds
    <3> QED
      BY <2>1, <2>2, <2>3, <2>5, <3>1 DEF PeopleEffect, TimerIsLeft
  <2>6. CASE failures' = failures /\ working' = working /\ o = 0
    <3>1. failures = FailureCap
      BY <2>1, <2>6 DEF PollIsSilent, Failures, PeopleKinds
    <3> QED
      BY <2>1, <2>2, <2>3, <2>6, <3>1, UseUpIs DEF PeopleEffect, CapReached
  <2> QED
    BY <2>4, <2>5, <2>6
<1>4. ASSUME NEW m \in Members, SetUp(m)
      PROVE  PeopleEffect
  BY <1>4 DEF SetUp, PeopleEffect, TimerIsLeft, FailuresCounted
<1>5. ASSUME Poll
      PROVE  PeopleEffect
  <2>1. rosterLoad'[0].at # "none"
    BY <1>5, LoadersAre DEF Poll, PeopleKinds, Request
  <2> QED
    BY <1>5, <2>1 DEF Poll, PeopleEffect, PollUnderWay, FailuresCounted
<1>6. ASSUME RenewRoster
      PROVE  PeopleEffect
  <2>1. UseUp("renewals", MaxRenewals) /\ UNCHANGED <<roster, working, failures>>
        /\ timer' = Rearmed(roster, working)
    BY <1>6 DEF RenewRoster
  <2> QED
    BY <2>1, UseUpIs DEF PeopleEffect, TimerIsSet, FailuresCounted
<1> QED
  BY <1>1, <1>2, <1>3, <1>4, <1>5, <1>6 DEF RosterStep

LEMMA PeopleInvKept == PeopleInv /\ [PeopleNext]_peopleVars => PeopleInv'
<1> SUFFICES ASSUME PeopleInv, [PeopleNext]_peopleVars PROVE PeopleInv'
  OBVIOUS
<1>1. PeopleOrder /\ PeopleOrder'
  BY OrderKept DEF PeopleInv, PeopleOrder
<1>2. CASE UNCHANGED peopleVars
  <2>1. PollGoesOn' <=> PollGoesOn
    BY <1>2 DEF peopleVars, PollGoesOn, Pending
  <2> QED
    BY <1>1, <1>2, <2>1 DEF peopleVars, PeopleInv, PeopleOrder, TimerFits, Rearmed, Pending,
       FailuresAreLosses, PollOrCap
<1>3. CASE PeopleNext
  <2>1. PeopleEffect
    BY <1>1, <1>3, EffectOfCommands, EffectOfLoads DEF PeopleInv, PeopleNext
  <2> QED
    BY <1>1, <2>1, EffectKeeps DEF PeopleInv, PeopleOrder
<1> QED
  BY <1>2, <1>3

LEMMA PeopleInvAlways == PeopleSpec => []PeopleInv
BY PeopleInitially, PeopleInvKept, PTL DEF PeopleSpec

\* The types; buttons are disabled while the timer is stopped and only then, and a
\* command that waits for a load has one.
THEOREM PeopleTypeCorrect == PeopleSpec => []PeopleTypeOK
<1>1. PeopleInv => PeopleTypeOK
  BY DEF PeopleInv, PeopleKinds, PeopleTypeOK, CommandsWait, TimerFits, Rearmed, Pending,
     CommandRecords
<1> QED
  BY <1>1, PeopleInvAlways, PTL

\* The poll goes on while fewer failures were counted than the cap, however many
\* there were: it is the cap, and nothing else, that can stop it.
THEOREM PollGoesOnBelowCap == PeopleSpec => [](failures < FailureCap => PollGoesOn)
<1>1. PeopleInv => (failures < FailureCap => PollGoesOn)
  BY DEF PeopleInv, PollOrCap, PeopleKinds
<1> QED
  BY <1>1, PeopleInvAlways, PTL

\* The poll goes on whatever overlaps, where no more requests fail than are counted.
THEOREM PollGoesOnCorrect ==
  ASSUME MaxLosses <= FailureCap
  PROVE  PeopleSpec => []PollGoesOn
<1>1. PeopleInv => PollGoesOn
  BY PeopleAssumption DEF PeopleInv, PollOrCap, FailuresAreLosses, PeopleKinds, PeopleCounts
<1> QED
  BY <1>1, PeopleInvAlways, PTL

-----------------------------------------------------------------------------
(***************************************************************************)
(* The review queue.                                                       *)
(***************************************************************************)
ProofRecords == [state : {"absent", "waiting", "approved", "rejected", "gone"},
                 hint : BOOLEAN, saved : BOOLEAN]
Acts == [kind : {"none", "approve", "match", "reject"},
         at : {"none", "sent", "served", "refused", "loading"}, save : BOOLEAN]
QueueLoads == [at : {"none", "sent", "read"}, fresh : BOOLEAN, data : [Proofs -> Views]]
KeepChoices == {"unset", "yes", "no"}

ReviewKinds ==
  /\ proof \in [Proofs -> ProofRecords] /\ shown \in [Proofs -> Views]
  /\ keep \in [Proofs -> KeepChoices] /\ form \in Owners /\ act \in [Proofs -> Acts]
  /\ load \in [Owners -> QueueLoads] /\ seen \subseteq Proofs /\ wanted \in [Proofs -> KeepChoices]

Waits(s) == proof[s].state = "waiting"
Over(s) == proof[s].state \notin {"absent", "waiting"}
Answering(o) == load[o].fresh /\ load[o].at = "read"

\* One load counts, and an action that loads the queue has a load.
OneIsFresh == \A o, p \in Owners : load[o].fresh /\ load[p].fresh => o = p
ActsLoad == \A s \in Proofs : act[s].at = "loading" <=> load[s].at # "none"
KeepFits == \A s \in Proofs : keep[s] = "unset" <=> shown[s] = "none"

\* A proof that the queue has shown exists; one that it has shown and does not
\* show any more was decided or withdrawn.
SeenIsThere ==
  \A s \in Proofs : /\ shown[s] # "none" => s \in seen
                    /\ s \in seen => proof[s].state # "absent"
                    /\ s \in seen /\ shown[s] = "none" => Over(s)
\* The same of the answer that will be shown.
AnswerFits ==
  \A o \in Owners, s \in Proofs : Answering(o) =>
    /\ load[o].data[s] # "none" => proof[s].state # "absent"
    /\ s \in seen /\ load[o].data[s] = "none" => Over(s)
    /\ s \in seen /\ shown[s] = "none" => load[o].data[s] = "none"
\* The last choice before the verdict is the one that is kept, and sent.
ChoiceIsKept ==
  \A s \in Proofs : wanted[s] # "unset" =>
    /\ s \in seen
    /\ Waits(s) => keep[s] = wanted[s]
    /\ Waits(s) /\ act[s].kind = "approve" /\ act[s].at = "sent"
         => (act[s].save <=> wanted[s] = "yes")

ReviewInv ==
  /\ ReviewKinds /\ OneIsFresh /\ ActsLoad /\ KeepFits /\ ReasonIsSent
  /\ SeenIsThere /\ AnswerFits /\ ChoiceIsKept /\ SavedAsChosen

LEMMA OwnersAre == None \in Owners /\ Proofs \subseteq Owners /\ \A o \in Owners : o # None => o \in Proofs
BY ReviewDeskAssumption DEF Owners

LEMMA FreshReviewRecords ==
  /\ Nothing \in [Proofs -> Views] /\ NoLoad \in QueueLoads /\ FreshLoad \in QueueLoads
  /\ NoAct \in Acts /\ NoLoad.at = "none" /\ ~NoLoad.fresh /\ NoAct.at = "none"
  /\ FreshLoad.at = "sent" /\ FreshLoad.fresh /\ NoAct.kind = "none"
<1>1. Nothing \in [Proofs -> Views]
  BY DEF Nothing, Views
<1> QED
  BY <1>1 DEF NoLoad, FreshLoad, QueueLoads, NoAct, Acts

LEMMA ReviewInitially == ReviewDeskInit => ReviewInv
<1> SUFFICES ASSUME ReviewDeskInit PROVE ReviewInv
  OBVIOUS
<1>1. proof \in [Proofs -> ProofRecords] /\ \A s \in Proofs : proof[s].state # "approved"
  <2>1. [state : {"absent", "waiting"}, hint : BOOLEAN, saved : {FALSE}] \subseteq ProofRecords
    BY DEF ProofRecords
  <2> QED
    BY <2>1 DEF ReviewDeskInit
<1>2. /\ shown = Nothing /\ keep = [s \in Proofs |-> "unset"] /\ form = None
      /\ act = [s \in Proofs |-> NoAct] /\ seen = {} /\ wanted = [s \in Proofs |-> "unset"]
      /\ load = [o \in Owners |-> IF o = None THEN FreshLoad ELSE NoLoad]
  BY DEF ReviewDeskInit
<1>3. ReviewKinds
  BY <1>1, <1>2, FreshReviewRecords, OwnersAre DEF ReviewKinds, KeepChoices
<1>4. /\ \A s \in Proofs : act[s] = NoAct /\ load[s] = NoLoad /\ shown[s] = "none" /\ keep[s] = "unset"
      /\ \A o \in Owners : load[o].fresh => o = None /\ load[o].at = "sent"
      /\ \A s \in Proofs : wanted[s] = "unset"
  BY <1>2, FreshReviewRecords, OwnersAre, ReviewDeskAssumption DEF Nothing
<1>5. OneIsFresh /\ ActsLoad /\ KeepFits /\ ReasonIsSent
  BY <1>2, <1>4, FreshReviewRecords DEF OneIsFresh, ActsLoad, KeepFits, ReasonIsSent, NotBusy
<1>6. SeenIsThere /\ AnswerFits /\ ChoiceIsKept /\ SavedAsChosen
  BY <1>1, <1>2, <1>4 DEF SeenIsThere, AnswerFits, Answering, ChoiceIsKept, SavedAsChosen
<1> QED
  BY <1>3, <1>5, <1>6 DEF ReviewInv

\* An action of a proof begins, ends, or goes on: nothing else changes, and an
\* approval that begins takes the choice that is shown.
ActGoesOn(s) ==
  /\ act' \in [Proofs -> Acts] /\ form' \in Owners
  /\ \A r \in Proofs \ {s} : act'[r] = act[r]
  /\ act'[s].at # "loading" /\ act[s].at # "loading"
  /\ act'[s].kind = "approve" /\ act'[s].at = "sent" => (act'[s].save <=> keep[s] = "yes")
  /\ UNCHANGED <<proof, shown, keep, load, seen, wanted>>

LEMMA ActKeeps ==
  ASSUME ReviewInv, NEW s \in Proofs, ActGoesOn(s), ReasonIsSent'
  PROVE  ReviewInv'
<1>1. ReviewKinds'
  BY DEF ReviewInv, ReviewKinds, ActGoesOn
<1>2. OneIsFresh' /\ KeepFits' /\ SeenIsThere' /\ AnswerFits' /\ SavedAsChosen'
  BY DEF ReviewInv, ActGoesOn, OneIsFresh, KeepFits, SeenIsThere, AnswerFits, SavedAsChosen,
     Over, Answering
<1>3. ActsLoad'
  BY DEF ReviewInv, ActGoesOn, ActsLoad
<1>4. ChoiceIsKept'
  BY DEF ReviewInv, ActGoesOn, ChoiceIsKept, Waits
<1> QED
  BY <1>1, <1>2, <1>3, <1>4 DEF ReviewInv

\* What an action that starts looks like.
LEMMA BeginIs ==
  ASSUME ReviewInv, NEW s \in Proofs, NEW kind \in {"approve", "match", "reject"}, Begin(s, kind)
  PROVE  /\ act' \in [Proofs -> Acts] /\ \A r \in Proofs \ {s} : act'[r] = act[r]
         /\ act'[s].at = "sent" /\ act'[s].kind = kind
         /\ act'[s].save <=> kind = "approve" /\ keep[s] = "yes"
<1> DEFINE new == [kind |-> kind, at |-> "sent", save |-> kind = "approve" /\ keep[s] = "yes"]
<1>1. new \in Acts /\ new.at = "sent" /\ new.kind = kind
      /\ (new.save <=> kind = "approve" /\ keep[s] = "yes")
  BY DEF Acts
<1>2. act' = [act EXCEPT ![s] = new]
  BY DEF Begin
<1> HIDE DEF new
<1> QED
  BY <1>1, <1>2 DEF ReviewInv, ReviewKinds

LEMMA ButtonsKeep ==
  ASSUME ReviewInv,
         \/ \E s \in Proofs : PressApprove(s) \/ PressMatch(s) \/ OpenForm(s) \/ Lose(s) \/ VerdictRefused(s)
         \/ SendReason \/ CancelForm
  PROVE  ReviewInv'
<1>0. ReviewKinds /\ ReasonIsSent
  BY DEF ReviewInv
<1>1. ASSUME NEW s \in Proofs, PressApprove(s) \/ PressMatch(s)
      PROVE  ReviewInv'
  <2>1. PICK kind \in {"approve", "match"} : Begin(s, kind)
    BY <1>1 DEF PressApprove, PressMatch
  <2>2. /\ Unlocked(s) /\ UNCHANGED <<proof, shown, keep, form, load, seen, wanted>>
    BY <1>1 DEF PressApprove, PressMatch
  <2>3. ActGoesOn(s)
    BY <1>0, <2>1, <2>2, BeginIs DEF ActGoesOn, Unlocked, NotBusy, ReviewKinds
  <2>4. ReasonIsSent'
    BY <1>0, <2>1, <2>2, BeginIs, OwnersAre DEF ReasonIsSent, Unlocked, NotBusy, ReviewKinds
  <2> QED
    BY <2>3, <2>4, ActKeeps
<1>2. ASSUME NEW s \in Proofs, OpenForm(s)
      PROVE  ReviewInv'
  <2>1. form' = s /\ NotBusy(s) /\ UNCHANGED <<proof, shown, keep, act, load, seen, wanted>>
    BY <1>2 DEF OpenForm, RejectOffered
  <2>2. ActGoesOn(s)
    BY <1>0, <2>1, OwnersAre DEF ActGoesOn, ReviewKinds, NotBusy
  <2>3. ReasonIsSent'
    BY <2>1 DEF ReasonIsSent, NotBusy
  <2> QED
    BY <2>2, <2>3, ActKeeps
<1>3. ASSUME NEW s \in Proofs, Lose(s)
      PROVE  ReviewInv'
  <2>1. /\ act[s].at \in {"sent", "served"} /\ act' = [act EXCEPT ![s].at = "refused"]
        /\ UNCHANGED <<proof, shown, keep, form, load, seen, wanted>>
    BY <1>3 DEF Lose
  <2>2. /\ act' \in [Proofs -> Acts] /\ act'[s].at = "refused"
        /\ \A r \in Proofs \ {s} : act'[r] = act[r]
    BY <1>0, <2>1 DEF ReviewKinds, Acts
  <2>3. ActGoesOn(s)
    BY <1>0, <2>1, <2>2 DEF ActGoesOn, ReviewKinds
  <2>4. ReasonIsSent'
    BY <1>0, <2>1, <2>2, OwnersAre DEF ReasonIsSent, NotBusy, ReviewKinds
  <2> QED
    BY <2>3, <2>4, ActKeeps
<1>4. ASSUME NEW s \in Proofs, VerdictRefused(s)
      PROVE  ReviewInv'
  <2>1. /\ act[s].at = "refused" /\ act' = [act EXCEPT ![s] = NoAct]
        /\ UNCHANGED <<proof, shown, keep, form, load, seen, wanted>>
    BY <1>4 DEF VerdictRefused
  <2>2. NoAct \in Acts /\ NoAct.at = "none"
    BY FreshReviewRecords
  <2>3. /\ act' \in [Proofs -> Acts] /\ act'[s].at = "none"
        /\ \A r \in Proofs \ {s} : act'[r] = act[r]
    BY <1>0, <2>1, <2>2 DEF ReviewKinds
  <2>4. ActGoesOn(s)
    BY <1>0, <2>1, <2>3 DEF ActGoesOn, ReviewKinds
  <2>5. ReasonIsSent'
    BY <1>0, <2>1, <2>3, OwnersAre DEF ReasonIsSent, NotBusy, ReviewKinds
  <2> QED
    BY <2>4, <2>5, ActKeeps
<1>5. ASSUME SendReason
      PROVE  ReviewInv'
  <2>1. /\ form \in Proofs /\ NotBusy(form) /\ form' = None /\ Begin(form, "reject")
        /\ UNCHANGED <<proof, shown, keep, load, seen, wanted>>
    BY <1>0, <1>5, OwnersAre DEF SendReason, FormDrawn, ReasonIsSent, ReviewKinds
  <2>2. ActGoesOn(form)
    BY <1>0, <2>1, BeginIs, OwnersAre DEF ActGoesOn, NotBusy, ReviewKinds
  <2>3. ReasonIsSent'
    BY <2>1 DEF ReasonIsSent
  <2> QED
    BY <2>1, <2>2, <2>3, ActKeeps
<1>6. ASSUME CancelForm
      PROVE  ReviewInv'
  <2>1. /\ form \in Proofs /\ NotBusy(form) /\ form' = None
        /\ UNCHANGED <<proof, shown, keep, act, load, seen, wanted>>
    BY <1>0, <1>6, OwnersAre DEF CancelForm, FormDrawn, ReviewKinds
  <2>2. ActGoesOn(form)
    BY <1>0, <2>1, OwnersAre DEF ActGoesOn, NotBusy, ReviewKinds
  <2>3. ReasonIsSent'
    BY <2>1 DEF ReasonIsSent
  <2> QED
    BY <2>1, <2>2, <2>3, ActKeeps
<1> QED
  BY <1>1, <1>2, <1>3, <1>4, <1>5, <1>6

\* A proof is submitted, decided or withdrawn, or its match is settled; what is
\* saved with an approval is what the action of the page had been given.
ProofMoves(s) ==
  /\ proof' \in [Proofs -> ProofRecords] /\ \A r \in Proofs \ {s} : proof'[r] = proof[r]
  /\ \/ proof'[s].state = proof[s].state
     \/ proof[s].state = "absent" /\ proof'[s].state = "waiting"
     \/ Waits(s) /\ proof'[s].state \notin {"absent", "waiting"}
  /\ proof'[s].state = "approved" =>
       \/ proof[s].state = "approved" /\ proof'[s].saved = proof[s].saved
       \/ Waits(s) /\ act[s].kind = "approve" /\ act[s].at = "sent" /\ proof'[s].saved = act[s].save
  /\ act' \in [Proofs -> Acts]
  /\ \A r \in Proofs : act'[r].at = act[r].at \/ (act[r].at = "sent" /\ act'[r].at \in {"served", "refused"})
  /\ \A r \in Proofs : act'[r].at = act[r].at => act'[r] = act[r]
  /\ UNCHANGED <<shown, keep, form, load, seen, wanted>>

LEMMA ProofMovesKeep ==
  ASSUME ReviewInv, NEW s \in Proofs, ProofMoves(s)
  PROVE  ReviewInv'
<1>1. ReviewKinds'
  BY DEF ReviewInv, ReviewKinds, ProofMoves
<1>2. OneIsFresh' /\ KeepFits' /\ ActsLoad'
  BY DEF ReviewInv, ProofMoves, OneIsFresh, KeepFits, ActsLoad
<1>3. ReasonIsSent'
  <2>1. form # None => act[form].at = "none" /\ form \in Proofs
    BY OwnersAre DEF ReviewInv, ReviewKinds, ReasonIsSent, NotBusy
  <2> QED
    BY <2>1 DEF ProofMoves, ReasonIsSent, NotBusy
<1>4. \A r \in Proofs : /\ proof[r].state # "absent" => proof'[r].state # "absent"
                        /\ Over(r) => Over(r)'
  BY DEF ProofMoves, Over, Waits
<1>5. SeenIsThere'
  BY <1>4 DEF ReviewInv, ProofMoves, SeenIsThere
<1>6. AnswerFits'
  BY <1>4 DEF ReviewInv, ProofMoves, AnswerFits, Answering
<1>7. ASSUME NEW r \in Proofs, wanted[r] # "unset" PROVE Waits(r)' => Waits(r)
  BY <1>7 DEF ReviewInv, ProofMoves, ChoiceIsKept, SeenIsThere, Waits
<1>8. ChoiceIsKept'
  BY <1>7 DEF ReviewInv, ProofMoves, ChoiceIsKept
<1>9. SavedAsChosen'
  <2>1. ASSUME NEW r \in Proofs, proof'[r].state = "approved", wanted'[r] # "unset"
        PROVE  proof'[r].saved <=> wanted'[r] = "yes"
    <3>1. wanted[r] # "unset" /\ wanted'[r] = wanted[r]
      BY <2>1 DEF ProofMoves
    <3>2. CASE proof[r].state = "approved" /\ proof'[r].saved = proof[r].saved
      BY <3>1, <3>2 DEF ReviewInv, SavedAsChosen
    <3>3. CASE Waits(r) /\ act[r].kind = "approve" /\ act[r].at = "sent" /\ proof'[r].saved = act[r].save
      BY <3>1, <3>3 DEF ReviewInv, ChoiceIsKept
    <3>4. CASE r # s
      BY <3>1, <3>4, <2>1 DEF ReviewInv, SavedAsChosen, ProofMoves
    <3> QED
      BY <2>1, <3>2, <3>3, <3>4 DEF ProofMoves
  <2> QED
    BY <2>1 DEF SavedAsChosen
<1> QED
  BY <1>1, <1>2, <1>3, <1>5, <1>6, <1>8, <1>9 DEF ReviewInv

LEMMA DecidedIs ==
  ASSUME ReviewInv, NEW s \in Proofs, act[s].at = "sent"
  PROVE  /\ Decided(s) \in ProofRecords
         /\ \/ Decided(s).state = proof[s].state /\ Decided(s).saved = proof[s].saved
            \/ /\ Waits(s) /\ Decided(s).state = "approved"
               /\ act[s].kind = "approve" /\ Decided(s).saved = act[s].save
            \/ Waits(s) /\ Decided(s).state = "rejected"
<1>1. proof[s] \in ProofRecords /\ act[s] \in Acts
  BY DEF ReviewInv, ReviewKinds
<1>2. CASE act[s].kind = "approve" /\ proof[s].state = "waiting" /\ ~proof[s].hint
  <2>1. Decided(s) = [state |-> "approved", hint |-> FALSE, saved |-> act[s].save]
    BY <1>2 DEF Decided
  <2> QED
    BY <1>1, <1>2, <2>1 DEF ProofRecords, Acts, Waits
<1>3. CASE act[s].kind = "reject" /\ proof[s].state = "waiting"
  <2>1. Decided(s) = [proof[s] EXCEPT !.state = "rejected"]
    BY <1>3 DEF Decided
  <2> QED
    BY <1>1, <1>3, <2>1 DEF ProofRecords, Waits
<1>4. CASE act[s].kind = "match" /\ proof[s].hint
  <2>1. Decided(s) = [proof[s] EXCEPT !.hint = FALSE]
    BY <1>4 DEF Decided
  <2> QED
    BY <1>1, <2>1 DEF ProofRecords
<1>5. CASE Decided(s) = proof[s]
  BY <1>1, <1>5
<1> QED
  BY <1>2, <1>3, <1>4, <1>5 DEF Decided

LEMMA ProofStepsKeep ==
  ASSUME ReviewInv, NEW s \in Proofs, Serve(s) \/ Elsewhere(s)
  PROVE  ReviewInv'
<1>0. ReviewKinds
  BY DEF ReviewInv
<1>1. CASE Serve(s)
  <2> DEFINE new == Decided(s)
             at == IF new # proof[s] THEN "served" ELSE "refused"
  <2>1. /\ act[s].at = "sent" /\ proof' = [proof EXCEPT ![s] = new]
        /\ act' = [act EXCEPT ![s].at = at]
        /\ UNCHANGED <<shown, keep, form, load, seen, wanted>>
    BY <1>1 DEF Serve
  <2>2. at \in {"served", "refused"}
    OBVIOUS
  <2> HIDE DEF new, at
  <2>3. /\ act' \in [Proofs -> Acts] /\ act'[s].at = at
        /\ \A r \in Proofs \ {s} : act'[r] = act[r]
    BY <1>0, <2>1, <2>2 DEF ReviewKinds, Acts
  <2>4. /\ proof' \in [Proofs -> ProofRecords] /\ proof'[s] = new
        /\ \A r \in Proofs \ {s} : proof'[r] = proof[r]
    BY <1>0, <2>1, DecidedIs DEF ReviewKinds, new
  <2>5. ProofMoves(s)
    BY <2>1, <2>2, <2>3, <2>4, DecidedIs DEF ProofMoves, new
  <2> QED
    BY <2>5, ProofMovesKeep
<1>2. CASE Elsewhere(s)
  <2>1. UNCHANGED <<shown, keep, form, act, load, seen, wanted>>
    BY <1>2 DEF Elsewhere
  <2>2. \/ proof[s].state = "absent" /\ proof' = [proof EXCEPT ![s].state = "waiting"]
        \/ proof[s].state = "waiting" /\ proof' = [proof EXCEPT ![s].state = "gone"]
        \/ proof' = [proof EXCEPT ![s].hint = FALSE]
    BY <1>2 DEF Elsewhere
  <2>3. /\ proof' \in [Proofs -> ProofRecords] /\ proof'[s].saved = proof[s].saved
        /\ \A r \in Proofs \ {s} : proof'[r] = proof[r]
        /\ \/ proof[s].state = "absent" /\ proof'[s].state = "waiting"
           \/ proof[s].state = "waiting" /\ proof'[s].state = "gone"
           \/ proof'[s].state = proof[s].state
    <3>1. CASE proof[s].state = "absent" /\ proof' = [proof EXCEPT ![s].state = "waiting"]
      BY <1>0, <3>1 DEF ReviewKinds, ProofRecords
    <3>2. CASE proof[s].state = "waiting" /\ proof' = [proof EXCEPT ![s].state = "gone"]
      BY <1>0, <3>2 DEF ReviewKinds, ProofRecords
    <3>3. CASE proof' = [proof EXCEPT ![s].hint = FALSE]
      BY <1>0, <3>3 DEF ReviewKinds, ProofRecords
    <3> QED
      BY <2>2, <3>1, <3>2, <3>3
  <2>4. ProofMoves(s)
    BY <1>0, <2>1, <2>3 DEF ProofMoves, Waits, ReviewKinds
  <2> QED
    BY <2>4, ProofMovesKeep
<1> QED
  BY <1>1, <1>2

LEMMA ToggleKeeps ==
  ASSUME ReviewInv, NEW s \in Proofs, Toggle(s)
  PROVE  ReviewInv'
<1> DEFINE new == IF keep[s] = "yes" THEN "no" ELSE "yes"
<1>1. /\ NotBusy(s) /\ shown[s] = "plain" /\ keep' = [keep EXCEPT ![s] = new]
      /\ wanted' = IF proof[s].state = "waiting" THEN [wanted EXCEPT ![s] = new] ELSE wanted
      /\ UNCHANGED <<proof, shown, form, act, load, seen>>
  BY DEF Toggle, Unlocked
<1>2. new \in KeepChoices /\ new # "unset"
  BY DEF KeepChoices
<1> HIDE DEF new
<1>3. ReviewKinds'
  BY <1>1, <1>2 DEF ReviewInv, ReviewKinds
<1>4. /\ keep'[s] = new /\ \A r \in Proofs \ {s} : keep'[r] = keep[r] /\ wanted'[r] = wanted[r]
      /\ wanted'[s] = IF Waits(s) THEN new ELSE wanted[s]
  BY <1>1 DEF ReviewInv, ReviewKinds, Waits
<1>5. OneIsFresh' /\ ActsLoad' /\ ReasonIsSent' /\ SeenIsThere' /\ AnswerFits'
  BY <1>1 DEF ReviewInv, OneIsFresh, ActsLoad, ReasonIsSent, NotBusy, SeenIsThere, AnswerFits,
     Answering, Over
<1>6. KeepFits'
  BY <1>1, <1>2, <1>4 DEF ReviewInv, KeepFits
<1>7. ChoiceIsKept'
  BY <1>1, <1>4 DEF ReviewInv, ChoiceIsKept, SeenIsThere, Waits, NotBusy
<1>8. SavedAsChosen'
  BY <1>1, <1>4 DEF ReviewInv, SavedAsChosen, Waits
<1> QED
  BY <1>3, <1>5, <1>6, <1>7, <1>8 DEF ReviewInv

\* A load starts: it is the only one that counts, and has read nothing yet.
LEMMA StartedIs ==
  ASSUME ReviewInv, NEW o \in Owners, load' = Started(o)
  PROVE  /\ load' \in [Owners -> QueueLoads] /\ load'[o] = FreshLoad /\ OneIsFresh'
         /\ \A p \in Owners \ {o} : ~load'[p].fresh /\ load'[p].at = load[p].at
         /\ \A p \in Owners : ~Answering(p)'
<1>1. /\ load'[o] = FreshLoad
      /\ \A p \in Owners \ {o} : load'[p] = [load[p] EXCEPT !.fresh = FALSE]
  BY DEF Started
<1>2. \A q \in QueueLoads : /\ [q EXCEPT !.fresh = FALSE] \in QueueLoads
                           /\ ~[q EXCEPT !.fresh = FALSE].fresh
                           /\ [q EXCEPT !.fresh = FALSE].at = q.at
  BY DEF QueueLoads
<1>3. load \in [Owners -> QueueLoads]
  BY DEF ReviewInv, ReviewKinds
<1> HIDE DEF QueueLoads
<1>4. \A p \in Owners : load'[p] \in QueueLoads
  BY <1>1, <1>2, <1>3, FreshReviewRecords
<1>5. load' \in [Owners -> QueueLoads]
  <2>1. load' = [p \in Owners |-> load'[p]]
    BY DEF Started
  <2> QED
    BY <1>4, <2>1
<1>6. \A p \in Owners \ {o} : ~load'[p].fresh /\ load'[p].at = load[p].at
  BY <1>1, <1>2, <1>3
<1> QED
  BY <1>1, <1>5, <1>6, FreshReviewRecords DEF OneIsFresh, Answering

LEMMA StartsKeep ==
  ASSUME ReviewInv, RenewToken \/ \E s \in Proofs : Accepted(s)
  PROVE  ReviewInv'
<1>1. PICK o \in Owners :
        /\ load' = Started(o) /\ UNCHANGED <<proof, shown, keep, form, seen, wanted>>
        /\ \/ o = None /\ UNCHANGED act
           \/ o \in Proofs /\ act[o].at = "served" /\ act' = [act EXCEPT ![o].at = "loading"]
  <2>1. CASE RenewToken
    BY <2>1, OwnersAre DEF RenewToken
  <2>2. CASE \E s \in Proofs : Accepted(s)
    BY <2>2, OwnersAre DEF Accepted
  <2> QED
    BY <2>1, <2>2
<1>2. /\ act' \in [Proofs -> Acts]
      /\ \A r \in Proofs \ {o} : act'[r] = act[r]
      /\ o \in Proofs => act[o].at = "served" /\ act'[o].at = "loading"
  BY <1>1, ReviewDeskAssumption DEF ReviewInv, ReviewKinds, Acts
<1>3. ReviewKinds'
  BY <1>1, <1>2, StartedIs DEF ReviewInv, ReviewKinds
<1>4. KeepFits' /\ SeenIsThere' /\ SavedAsChosen' /\ OneIsFresh'
  BY <1>1, StartedIs DEF ReviewInv, KeepFits, SeenIsThere, SavedAsChosen, Over
<1>5. ActsLoad'
  BY <1>1, <1>2, StartedIs, FreshReviewRecords, OwnersAre DEF ReviewInv, ActsLoad
<1>6. ReasonIsSent'
  BY <1>1, <1>2, OwnersAre DEF ReviewInv, ReviewKinds, ReasonIsSent, NotBusy
<1>7. AnswerFits'
  BY <1>1, StartedIs DEF AnswerFits
<1>8. ChoiceIsKept'
  BY <1>1, <1>2 DEF ReviewInv, ChoiceIsKept, Waits
<1> QED
  BY <1>3, <1>4, <1>5, <1>6, <1>7, <1>8 DEF ReviewInv

LEMMA ReadKeeps ==
  ASSUME ReviewInv, NEW o \in Owners, Read(o)
  PROVE  ReviewInv'
<1> DEFINE new == [at |-> "read", fresh |-> load[o].fresh, data |-> Queue]
<1>1. /\ load[o].at = "sent" /\ load' = [load EXCEPT ![o] = new]
      /\ UNCHANGED <<proof, shown, keep, form, act, seen, wanted>>
  BY DEF Read
<1>2. /\ Queue \in [Proofs -> Views]
      /\ \A s \in Proofs : Queue[s] = "none" <=> ~Waits(s)
  BY DEF Queue, Views, Waits
<1>3. /\ new \in QueueLoads /\ new.at = "read" /\ new.fresh = load[o].fresh /\ new.data = Queue
  BY <1>2 DEF ReviewInv, ReviewKinds, QueueLoads
<1> HIDE DEF new, Queue
<1>4. /\ load' \in [Owners -> QueueLoads] /\ load'[o] = new
      /\ \A p \in Owners \ {o} : load'[p] = load[p]
  BY <1>1, <1>3 DEF ReviewInv, ReviewKinds
<1>5. ReviewKinds'
  BY <1>1, <1>4 DEF ReviewInv, ReviewKinds
<1>6. OneIsFresh' /\ ActsLoad'
  BY <1>1, <1>3, <1>4, OwnersAre DEF ReviewInv, OneIsFresh, ActsLoad
<1>7. KeepFits' /\ ReasonIsSent' /\ SeenIsThere' /\ ChoiceIsKept' /\ SavedAsChosen'
  BY <1>1 DEF ReviewInv, KeepFits, ReasonIsSent, NotBusy, SeenIsThere, ChoiceIsKept,
     SavedAsChosen, Over, Waits
<1>8. AnswerFits'
  <2>1. ASSUME NEW s \in Proofs
        PROVE  /\ Queue[s] # "none" => proof[s].state # "absent"
               /\ s \in seen /\ Queue[s] = "none" => Over(s)
               /\ s \in seen /\ shown[s] = "none" => Queue[s] = "none"
    BY <1>2 DEF ReviewInv, SeenIsThere, Waits, Over
  <2>2. ASSUME NEW p \in Owners, p # o PROVE Answering(p)' <=> Answering(p)
    BY <1>4, <2>2 DEF Answering
  <2> QED
    BY <1>1, <1>3, <1>4, <2>1, <2>2 DEF ReviewInv, AnswerFits, Over
<1> QED
  BY <1>5, <1>6, <1>7, <1>8 DEF ReviewInv

\* A load is over, with or without an answer.
LEMMA QueueEnds ==
  ASSUME ReviewInv, NEW o \in Owners, LoadEnds(o), load[o].at # "none", UNCHANGED form
  PROVE  /\ load' \in [Owners -> QueueLoads] /\ ~load'[o].fresh
         /\ \A p \in Owners \ {o} : load'[p] = load[p]
         /\ act' \in [Proofs -> Acts]
         /\ \A s \in Proofs : act'[s] = act[s] \/ act'[s].at = "none"
         /\ OneIsFresh' /\ ActsLoad' /\ ReasonIsSent'
<1> HIDE DEF NoLoad, NoAct
<1>1. /\ load' \in [Owners -> QueueLoads] /\ load'[o] = NoLoad
      /\ \A p \in Owners \ {o} : load'[p] = load[p]
  BY FreshReviewRecords DEF LoadEnds, ReviewInv, ReviewKinds
<1>2. CASE o = None
  <2>1. act' = act
    BY <1>2 DEF LoadEnds
  <2> QED
    BY <1>1, <1>2, <2>1, FreshReviewRecords, OwnersAre, ReviewDeskAssumption
       DEF ReviewInv, ReviewKinds, OneIsFresh, ActsLoad, ReasonIsSent, NotBusy
<1>3. CASE o # None
  <2>1. /\ o \in Proofs /\ act' \in [Proofs -> Acts] /\ act'[o] = NoAct
        /\ \A s \in Proofs \ {o} : act'[s] = act[s]
    BY <1>3, FreshReviewRecords, OwnersAre DEF LoadEnds, ReviewInv, ReviewKinds
  <2>2. OneIsFresh' /\ ActsLoad'
    BY <1>1, <2>1, FreshReviewRecords, OwnersAre DEF ReviewInv, OneIsFresh, ActsLoad
  <2>3. ReasonIsSent'
    BY <2>1, FreshReviewRecords, OwnersAre DEF ReviewInv, ReviewKinds, ReasonIsSent, NotBusy
  <2> QED
    BY <1>1, <2>1, <2>2, <2>3, FreshReviewRecords
<1> QED
  BY <1>2, <1>3

LEMMA UnshownKeeps ==
  ASSUME ReviewInv, NEW o \in Owners, Superseded(o) \/ FailLoad(o)
  PROVE  ReviewInv'
<1>1. LoadEnds(o) /\ load[o].at # "none" /\ UNCHANGED <<proof, shown, keep, form, seen, wanted>>
  BY DEF Superseded, FailLoad
<1>2. ReviewKinds'
  BY <1>1, QueueEnds DEF ReviewInv, ReviewKinds
<1>3. KeepFits' /\ SeenIsThere' /\ SavedAsChosen'
  BY <1>1 DEF ReviewInv, KeepFits, SeenIsThere, SavedAsChosen, Over
<1>4. AnswerFits'
  BY <1>1, QueueEnds DEF ReviewInv, AnswerFits, Answering, Over
<1>5. ChoiceIsKept'
  BY <1>1, QueueEnds DEF ReviewInv, ChoiceIsKept, Waits
<1> QED
  BY <1>1, <1>2, <1>3, <1>4, <1>5, QueueEnds DEF ReviewInv

LEMMA ShowKeeps ==
  ASSUME ReviewInv, NEW o \in Owners, Show(o)
  PROVE  ReviewInv'
<1> DEFINE data == load[o].data
<1>1. /\ Answering(o) /\ LoadEnds(o) /\ shown' = data
      /\ keep' = [s \in Proofs |-> NewKeep(s, data[s])]
      /\ seen' = seen \cup {s \in Proofs : data[s] # "none"}
      /\ UNCHANGED <<proof, form, wanted>>
  BY DEF Show, Current, Answering
<1>2. data \in [Proofs -> Views]
  BY DEF ReviewInv, ReviewKinds, QueueLoads
<1>3. \A s \in Proofs : /\ data[s] # "none" => proof[s].state # "absent"
                        /\ s \in seen /\ data[s] = "none" => Over(s)
  BY <1>1 DEF ReviewInv, AnswerFits
<1> HIDE DEF data
<1>4. \A s \in Proofs : /\ keep'[s] \in KeepChoices
                        /\ keep'[s] = "unset" <=> data[s] = "none"
                        /\ data[s] # "none" /\ keep[s] # "unset" => keep'[s] = keep[s]
  BY <1>1, <1>2 DEF NewKeep, Default, KeepChoices, ReviewInv, ReviewKinds
<1>5. ReviewKinds'
  <2>1. keep' \in [Proofs -> KeepChoices]
    BY <1>1, <1>4
  <2> QED
    BY <1>1, <1>2, <2>1, QueueEnds DEF ReviewInv, ReviewKinds, Answering
<1>6. KeepFits'
  BY <1>1, <1>4 DEF KeepFits
<1>7. SeenIsThere'
  BY <1>1, <1>3 DEF ReviewInv, SeenIsThere, Over
<1>8. AnswerFits'
  <2>1. \A p \in Owners : ~Answering(p)'
    BY <1>1, QueueEnds DEF ReviewInv, OneIsFresh, Answering
  <2> QED
    BY <2>1 DEF AnswerFits
<1>9. ChoiceIsKept'
  <2>1. ASSUME NEW s \in Proofs, wanted'[s] # "unset"
        PROVE  /\ s \in seen'
               /\ Waits(s)' => keep'[s] = wanted'[s]
               /\ Waits(s)' /\ act'[s].kind = "approve" /\ act'[s].at = "sent"
                    => (act'[s].save <=> wanted'[s] = "yes")
    <3>1. wanted[s] # "unset" /\ s \in seen /\ wanted'[s] = wanted[s] /\ (Waits(s)' <=> Waits(s))
      BY <1>1, <2>1 DEF ReviewInv, ChoiceIsKept, Waits
    <3>2. Waits(s) => data[s] # "none"
      BY <1>3, <3>1 DEF Waits, Over
    <3>3. Waits(s) => keep'[s] = wanted[s]
      BY <1>4, <2>1, <3>1, <3>2 DEF ReviewInv, ChoiceIsKept
    <3> QED
      BY <1>1, <3>1, <3>3, QueueEnds DEF ReviewInv, ChoiceIsKept, Answering
  <2> QED
    BY <2>1 DEF ChoiceIsKept
<1>10. SavedAsChosen'
  BY <1>1 DEF ReviewInv, SavedAsChosen
<1> QED
  BY <1>1, <1>5, <1>6, <1>7, <1>8, <1>9, <1>10, QueueEnds DEF ReviewInv, Answering

LEMMA ReviewInvKept == ReviewInv /\ [ReviewDeskNext]_reviewDeskVars => ReviewInv'
<1> SUFFICES ASSUME ReviewInv, [ReviewDeskNext]_reviewDeskVars PROVE ReviewInv'
  OBVIOUS
<1>1. CASE UNCHANGED reviewDeskVars
  BY <1>1 DEF reviewDeskVars, ReviewInv, ReviewKinds, OneIsFresh, ActsLoad, KeepFits,
     ReasonIsSent, NotBusy, SeenIsThere, AnswerFits, Answering, ChoiceIsKept, SavedAsChosen,
     Over, Waits
<1>2. CASE ReviewDeskNext
  BY <1>2, ButtonsKeep, ProofStepsKeep, ToggleKeeps, StartsKeep, ReadKeeps, ShowKeeps, UnshownKeeps
     DEF ReviewDeskNext, ReviewUser, ReviewStep, QueueStep
<1> QED
  BY <1>1, <1>2

LEMMA ReviewInvAlways == ReviewDeskSpec => []ReviewInv
BY ReviewInitially, ReviewInvKept, PTL DEF ReviewDeskSpec

\* What a leader has chosen for an item and typed as a reason is what is sent,
\* however many proofs and loads there are.
THEOREM InputIsKeptCorrect == ReviewDeskSpec => []InputIsKept
<1>1. ReviewInv => InputIsKept
  <2> SUFFICES ASSUME ReviewInv PROVE InputIsKept
    OBVIOUS
  <2> DEFINE F == {o \in Owners : load[o].fresh}
  <2>1. Cardinality(F) \in {0, 1}
    <3>1. CASE F = {}
      BY <3>1, FS_EmptySet
    <3>2. CASE F # {}
      <4>1. PICK o \in F : TRUE
        BY <3>2
      <4>2. F = {o}
        BY <4>1 DEF ReviewInv, OneIsFresh
      <4> QED
        BY <4>2, FS_Singleton
    <3> QED
      BY <3>1, <3>2
  <2>2. ReviewDeskTypeOK
    BY <2>1 DEF ReviewDeskTypeOK, ReviewInv, ReviewKinds, KeepFits, ActsLoad, ProofRecords, Acts, KeepChoices
  <2> QED
    BY <2>2 DEF ReviewInv, InputIsKept
<1> QED
  BY <1>1, ReviewInvAlways, PTL

\* A proof that has left the queue does not come back, whichever answers are late.
THEOREM ResolvedStaysGoneCorrect == ReviewDeskSpec => ResolvedStaysGone
<1> DEFINE Gone == \A s \in seen : shown[s] = "none" => shown'[s] = "none"
<1>1. ReviewInv /\ [ReviewDeskNext]_reviewDeskVars => [Gone]_reviewDeskVars
  <2> SUFFICES ASSUME ReviewInv, ReviewDeskNext PROVE Gone
    BY DEF reviewDeskVars
  <2>1. CASE \E o \in Owners : Show(o)
    <3>1. PICK o \in Owners : Show(o)
      BY <2>1
    <3> QED
      BY <3>1 DEF Show, Current, Answering, ReviewInv, ReviewKinds, AnswerFits
  <2>2. CASE ~\E o \in Owners : Show(o)
    <3>1. UNCHANGED shown
      BY <2>2 DEF ReviewDeskNext, ReviewUser, ReviewStep, QueueStep, RenewToken, PressApprove,
         PressMatch, Toggle, OpenForm, SendReason, CancelForm, Serve, Accepted, VerdictRefused,
         Lose, Elsewhere, Read, Superseded, FailLoad
    <3> QED
      BY <3>1
  <2> QED
    BY <2>1, <2>2
<1> QED
  BY <1>1, ReviewInvAlways, PTL DEF ReviewDeskSpec, ResolvedStaysGone

-----------------------------------------------------------------------------
(***************************************************************************)
(* The dashboard.                                                          *)
(***************************************************************************)
Stocks == [status : {"none", "active", "closed", "deleted"}, rev : Nat]
Lists == [Sessions -> {"none", "active", "closed"}]
ListLoads == [at : {"none", "sent", "read", "detail"}, want : Choices, pref : Choices, read : Lists]
Details == [of : Choices, rev : Nat]
DetailLoads == [at : {"none", "sent", "read"}, of : Choices, nested : BOOLEAN, rev : Nat]
DeskActions == [kind : {"none", "check", "assign", "close", "delete", "start"},
                on : Choices, sel : Choices,
                at : {"none", "sent", "served", "refused", "failed", "list", "detail"}]

DeskKinds ==
  /\ inventory \in [Sessions -> Stocks] /\ own \in [Sessions -> Nat] /\ left \subseteq Sessions
  /\ preferred \in Choices /\ selected \in Choices /\ retried \in Choices
  /\ due \in {"none", "preferred", "context"} /\ listed \in Lists /\ detail \in Details
  /\ listLoad \in ListLoads /\ detailLoad \in DetailLoads /\ slot \in [Slots -> DeskActions]
  /\ failed \in BOOLEAN /\ crossed \in BOOLEAN

\* A list load is under way that has not come to its detail; a detail is loaded
\* for itself.
Listing == listLoad.at \in {"sent", "read"}
OwnDetail == detailLoad.at # "none" /\ ~detailLoad.nested
\* A change made here whose answer has not come yet will load it.
Owing(s) == \E b \in Slots : /\ slot[b].at = "served" /\ slot[b].on = s
                             /\ slot[b].kind \in {"check", "assign", "close", "delete"}
Leaving(s) == \E b \in Slots : /\ slot[b].at = "served" /\ slot[b].on = s
                               /\ slot[b].kind \in {"close", "delete"}

\* An action on an item knows its inventory.
SlotsFit ==
  \A b \in Slots : slot[b].at # "none" =>
    /\ slot[b].on \in Sessions /\ slot[b].kind # "none"
    /\ slot[b].kind = "assign" => slot[b].sel = slot[b].on
\* A list load that has come to its detail waits for that of the selected one.
LoadsFit ==
  /\ listLoad.at = "detail" => /\ detailLoad.nested /\ detailLoad.at # "none"
                               /\ detailLoad.of = selected
  /\ detailLoad.at # "none" => detailLoad.of \in Sessions
\* The history is about what the API has.
HistoryFits ==
  /\ \A s \in Sessions : own[s] <= inventory[s].rev
  /\ \A s \in left : inventory[s].status \in {"closed", "deleted"}
\* What was read or is shown is as new as the last change made here, or will be
\* replaced.
ReadIsNew ==
  detailLoad.at = "read" =>
    \/ detailLoad.rev >= own[detailLoad.of] \/ Owing(detailLoad.of) \/ Listing \/ failed
ShownIsNew ==
  selected # NoSession /\ detail.of = selected =>
    \/ detail.rev >= own[selected] \/ Owing(selected)
    \/ listLoad.at # "none" \/ OwnDetail \/ failed
\* What was closed or deleted here will be left.
LeftIsLeft ==
  \A s \in left :
    /\ listLoad.at = "read" => listLoad.read[s] # "active" \/ Leaving(s)
    /\ selected = s => Leaving(s) \/ Listing \/ failed
    /\ preferred = s => Leaving(s) \/ Listing \/ failed \/ due # "none"
\* A list load asks for the inventory that was chosen, or is to ask for it.
AsksForChosen ==
  Listing /\ ~crossed /\ listLoad.pref # NoSession =>
    \/ listLoad.want = listLoad.pref
    \/ listLoad.want = NoSession /\ retried # listLoad.pref
\* The chosen inventory is the selected one, or will be.
ChosenIsSelected ==
  preferred # NoSession =>
    selected = preferred \/ due # "none" \/ Listing \/ failed \/ crossed
\* The selected inventory is shown, or will be.
SelectedIsShown ==
  /\ selected # NoSession =>
       detail.of = selected \/ listLoad.at # "none" \/ OwnDetail \/ failed \/ crossed
  /\ OwnDetail => detailLoad.of = selected \/ Listing \/ failed \/ crossed

DeskInv ==
  /\ DeskKinds /\ SlotsFit /\ LoadsFit /\ HistoryFits /\ ReadIsNew /\ ShownIsNew /\ LeftIsLeft
  /\ AsksForChosen /\ ChosenIsSelected /\ SelectedIsShown

LEMMA DeskFields ==
  ASSUME DeskKinds
  PROVE  /\ \A s \in Sessions : /\ inventory[s] \in Stocks /\ inventory[s].rev \in Nat
                                /\ inventory[s].status \in {"none", "active", "closed", "deleted"}
                                /\ own[s] \in Nat
                                /\ listLoad.read[s] \in {"none", "active", "closed"}
         /\ listLoad.at \in {"none", "sent", "read", "detail"}
         /\ listLoad.want \in Choices /\ listLoad.pref \in Choices /\ listLoad.read \in Lists
         /\ detail.of \in Choices /\ detail.rev \in Nat
         /\ detailLoad.at \in {"none", "sent", "read"} /\ detailLoad.of \in Choices
         /\ detailLoad.nested \in BOOLEAN /\ detailLoad.rev \in Nat
         /\ \A b \in Slots : /\ slot[b] \in DeskActions /\ slot[b].on \in Choices
                             /\ slot[b].sel \in Choices
                             /\ slot[b].kind \in {"none", "check", "assign", "close", "delete", "start"}
                             /\ slot[b].at \in {"none", "sent", "served", "refused", "failed",
                                               "list", "detail"}
BY DEF DeskKinds, Stocks, ListLoads, Lists, Details, DetailLoads, DeskActions

LEMMA FreshDeskRecords ==
  /\ NoSession \in Choices /\ Sessions \subseteq Choices /\ Unlisted \in Lists
  /\ NoListLoad \in ListLoads /\ NoListLoad.at = "none"
  /\ NoDetailLoad \in DetailLoads /\ NoDetailLoad.at = "none"
  /\ NoDetail \in Details /\ NoDetail.of = NoSession /\ NoDetail.rev = 0
  /\ NoAction \in DeskActions /\ NoAction.at = "none"
BY DEF Choices, Unlisted, Lists, NoListLoad, ListLoads, NoDetailLoad, DetailLoads, NoDetail, Details,
   NoAction, DeskActions

LEMMA FreshLoads ==
  ASSUME NEW want \in Choices, preferred \in Choices
  PROVE  /\ ListFor(want) \in ListLoads /\ ListFor(want).at = "sent"
         /\ ListFor(want).want = want /\ ListFor(want).pref = preferred
         /\ \A nested \in BOOLEAN :
              /\ DetailOf(want, nested) \in DetailLoads /\ DetailOf(want, nested).at = "sent"
              /\ DetailOf(want, nested).of = want /\ DetailOf(want, nested).nested = nested
BY FreshDeskRecords DEF ListFor, ListLoads, DetailOf, DetailLoads

\* Actions that wait for a load are over with it; the others are not touched.
ServedKept(B) ==
  /\ slot' \in [Slots -> DeskActions] /\ SlotsFit'
  /\ \A b \in Slots \ B : slot[b].at = "served" => slot'[b] = slot[b]

LEMMA OverInKeeps ==
  ASSUME DeskKinds, SlotsFit, NEW kinds \in SUBSET {"list", "detail"}, slot' = OverIn(kinds, slot)
  PROVE  ServedKept({})
<1>1. \A b \in Slots : slot'[b] = IF slot[b].at \in kinds THEN NoAction ELSE slot[b]
  BY DEF OverIn
<1>2. slot' \in [Slots -> DeskActions]
  BY FreshDeskRecords DEF OverIn, DeskKinds
<1>3. SlotsFit'
  BY <1>1, FreshDeskRecords DEF SlotsFit
<1> QED
  BY <1>1, <1>2, <1>3 DEF ServedKept

LEMMA SettlingKeeps ==
  ASSUME DeskKinds, SlotsFit, NEW kinds \in SUBSET {"list", "detail"}, NEW b \in Slots,
         NEW at \in {"list", "detail"}, slot[b].at \in {"served", "refused", "failed"},
         slot' = [OverIn(kinds, slot) EXCEPT ![b].at = at]
  PROVE  ServedKept({b})
<1> DEFINE freed == OverIn(kinds, slot)
           new == [freed[b] EXCEPT !.at = at]
<1>1. \A c \in Slots : freed[c] = IF slot[c].at \in kinds THEN NoAction ELSE slot[c]
  BY DEF OverIn
<1>2. freed \in [Slots -> DeskActions]
  BY FreshDeskRecords DEF OverIn, DeskKinds
<1>3. slot' = [freed EXCEPT ![b] = new]
  OBVIOUS
<1> HIDE DEF freed
<1>4. new \in DeskActions /\ new.on = freed[b].on /\ new.sel = freed[b].sel /\ new.kind = freed[b].kind
  BY <1>2 DEF DeskActions
<1> HIDE DEF new
<1>5. /\ slot' \in [Slots -> DeskActions] /\ slot'[b] = new
      /\ \A c \in Slots \ {b} : slot'[c] = freed[c]
  BY <1>2, <1>3, <1>4
<1>6. SlotsFit'
  <2>1. freed[b] = slot[b]
    BY <1>1
  <2>2. \A c \in Slots : freed[c] = slot[c] \/ freed[c].at = "none"
    BY <1>1, FreshDeskRecords
  <2>3. new.on \in Sessions /\ new.kind # "none" /\ (new.kind = "assign" => new.sel = new.on)
    BY <1>4, <2>1 DEF SlotsFit
  <2>4. ASSUME NEW c \in Slots, slot'[c].at # "none"
        PROVE  /\ slot'[c].on \in Sessions /\ slot'[c].kind # "none"
               /\ slot'[c].kind = "assign" => slot'[c].sel = slot'[c].on
    <3>1. CASE c = b
      BY <1>5, <2>3, <3>1
    <3>2. CASE c # b
      <4>1. slot'[c] = slot[c]
        BY <1>5, <2>2, <2>4, <3>2
      <4> QED
        BY <2>4, <4>1 DEF SlotsFit
    <3> QED
      BY <3>1, <3>2
  <2> QED
    BY <2>4 DEF SlotsFit
<1>7. \A c \in Slots \ {b} : slot[c].at = "served" => slot'[c] = slot[c]
  BY <1>1, <1>5
<1> QED
  BY <1>5, <1>6, <1>7 DEF ServedKept

\* What changes the slots makes nothing owing that was.
LEMMA OwingKept ==
  ASSUME NEW B \in SUBSET Slots, ServedKept(B), NEW s
  PROVE  /\ Owing(s) => Owing(s)' \/ \E b \in B : slot[b].at = "served" /\ slot[b].on = s
                                              /\ slot[b].kind \in {"check", "assign", "close", "delete"}
         /\ Leaving(s) => Leaving(s)' \/ \E b \in B : slot[b].at = "served" /\ slot[b].on = s
                                              /\ slot[b].kind \in {"close", "delete"}
<1>1. ASSUME NEW b \in Slots \ B, slot[b].at = "served" PROVE slot'[b] = slot[b]
  BY <1>1 DEF ServedKept
<1> QED
  BY <1>1 DEF Owing, Leaving

-----------------------------------------------------------------------------
\* A load of the list starts: whatever was wrong will be put right by it.
LEMMA StartKeeps ==
  ASSUME DeskInv, NEW want \in Choices, NEW B \in SUBSET Slots,
         listLoad' = ListFor(want), failed' = FALSE, ServedKept(B),
         UNCHANGED <<inventory, preferred, listed, own, left>>,
         selected' \in Choices, detail' \in Details, retried' \in Choices, crossed' \in BOOLEAN,
         due' \in {"none", "preferred", "context"},
         detailLoad' = detailLoad \/ detailLoad' = NoDetailLoad,
         \/ crossed' \/ preferred = NoSession \/ want = preferred
         \/ want = NoSession /\ retried' # preferred
  PROVE  DeskInv'
<1>0. DeskKinds /\ LoadsFit /\ HistoryFits
  BY DEF DeskInv
<1>1. /\ listLoad' \in ListLoads /\ listLoad'.at = "sent"
      /\ listLoad'.want = want /\ listLoad'.pref = preferred
  BY <1>0, FreshLoads DEF DeskKinds
<1>2. DeskKinds'
  BY <1>0, <1>1, FreshDeskRecords DEF DeskKinds, ServedKept
<1>3. LoadsFit' /\ HistoryFits' /\ Listing'
  BY <1>0, <1>1, FreshDeskRecords DEF LoadsFit, HistoryFits, Listing
<1>4. ReadIsNew' /\ ShownIsNew' /\ LeftIsLeft' /\ ChosenIsSelected' /\ SelectedIsShown'
  BY <1>1, <1>3 DEF ReadIsNew, ShownIsNew, LeftIsLeft, ChosenIsSelected, SelectedIsShown
<1>5. AsksForChosen'
  BY <1>1 DEF AsksForChosen
<1> QED
  BY <1>2, <1>3, <1>4, <1>5 DEF DeskInv, ServedKept

LEMMA SlotsStay == DeskInv /\ UNCHANGED slot => ServedKept({})
BY DEF DeskInv, DeskKinds, ServedKept, SlotsFit

LEMMA ReloadKeeps ==
  ASSUME DeskInv, NEW b \in Slots, slot[b].at \in {"served", "refused", "failed"}, NEW want \in Choices, Reload(b, want),
         selected' \in Choices, detail' \in Details
  PROVE  DeskInv'
<1>0. DeskKinds /\ SlotsFit
  BY DEF DeskInv
<1>1. /\ listLoad' = ListFor(want) /\ failed' = FALSE
      /\ slot' = [OverIn({"list"}, slot) EXCEPT ![b].at = "list"]
      /\ crossed' = (crossed \/ Crosses(want))
      /\ UNCHANGED <<inventory, preferred, due, listed, retried, detailLoad, own, left>>
  BY DEF Reload, ReloadList
<1>2. ServedKept({b})
  BY <1>0, <1>1, SettlingKeeps
<1>3. /\ crossed' \in BOOLEAN /\ retried' \in Choices /\ due' \in {"none", "preferred", "context"}
      /\ \/ crossed' \/ want = preferred
         \/ want = NoSession /\ retried' # preferred
  BY <1>0, <1>1 DEF DeskKinds, Crosses
<1> QED
  BY <1>1, <1>2, <1>3, StartKeeps

LEMMA ListStartsKeep ==
  ASSUME DeskInv,
         \/ RetryMissing \/ RefreshQueue \/ (Effect /\ ~Unaffected)
         \/ (DetailMissing /\ ~detailLoad.nested)
         \/ \E b \in Slots : SettleCheck(b) \/ SettleClose(b) \/ SettleDelete(b)
  PROVE  DeskInv'
<1>0. DeskKinds /\ SlotsFit
  BY DEF DeskInv
<1> USE FreshDeskRecords
<1>1. CASE RetryMissing
  <2>1. /\ listLoad' = ListFor(preferred) /\ failed' = FALSE /\ slot' = OverIn({"list"}, slot)
        /\ retried' = preferred
        /\ UNCHANGED <<inventory, preferred, selected, due, listed, detail, detailLoad, own, left, crossed>>
    BY <1>1 DEF RetryMissing, deskHistory
  <2>2. ServedKept({})
    BY <1>0, <2>1, OverInKeeps
  <2> QED
    BY <1>0, <2>1, <2>2, StartKeeps DEF DeskKinds
<1>2. CASE RefreshQueue
  <2>1. /\ listLoad' = ListFor(selected) /\ failed' = FALSE /\ slot' = OverIn({"list"}, slot)
        /\ crossed' = (crossed \/ Crosses(selected))
        /\ UNCHANGED <<inventory, preferred, selected, due, listed, detail, retried, detailLoad, own, left>>
    BY <1>2 DEF RefreshQueue
  <2>2. ServedKept({})
    BY <1>0, <2>1, OverInKeeps
  <2>3. \/ crossed' \/ selected = preferred
        \/ selected = NoSession /\ retried' # preferred
    BY <2>1 DEF Crosses
  <2> QED
    BY <1>0, <2>1, <2>2, <2>3, StartKeeps DEF DeskKinds
<1>3. CASE Effect /\ ~Unaffected
  <2> DEFINE want == IF preferred # NoSession THEN preferred ELSE selected
  <2>1. /\ listLoad' = ListFor(want) /\ failed' = FALSE /\ slot' = OverIn({"list"}, slot)
        /\ selected' = want /\ detail' = (IF selected' # selected THEN NoDetail ELSE detail)
        /\ crossed' = FALSE /\ due' = "none"
        /\ UNCHANGED <<inventory, preferred, listed, retried, detailLoad, own, left>>
    BY <1>3 DEF Effect
  <2>2. ServedKept({})
    BY <1>0, <2>1, OverInKeeps
  <2>3. want \in Choices /\ (preferred = NoSession \/ want = preferred)
    BY <1>0 DEF DeskKinds
  <2> QED
    BY <1>0, <2>1, <2>2, <2>3, StartKeeps DEF DeskKinds
<1>4. CASE DetailMissing /\ ~detailLoad.nested
  <2>1. /\ listLoad' = ListFor(NoSession) /\ failed' = FALSE /\ slot' = OverIn({"list", "detail"}, slot)
        /\ detailLoad' = NoDetailLoad /\ selected' = NoSession /\ detail' = NoDetail /\ retried' = NoSession
        /\ UNCHANGED <<inventory, preferred, due, listed, own, left, crossed>>
    BY <1>4 DEF DetailMissing, Cleared, deskHistory
  <2>2. ServedKept({})
    BY <1>0, <2>1, OverInKeeps
  <2> QED
    BY <1>0, <2>1, <2>2, StartKeeps DEF DeskKinds
<1>5. ASSUME NEW b \in Slots, SettleCheck(b) PROVE DeskInv'
  BY <1>0, <1>5, DeskFields, ReloadKeeps DEF SettleCheck, DeskKinds
<1>6. ASSUME NEW b \in Slots, SettleClose(b) PROVE DeskInv'
  BY <1>0, <1>6, ReloadKeeps DEF SettleClose, DeskKinds
<1>7. ASSUME NEW b \in Slots, SettleDelete(b) PROVE DeskInv'
  <2>1. selected' \in Choices /\ detail' \in Details
    BY <1>0, <1>7 DEF SettleDelete, DeskKinds
  <2> QED
    BY <1>7, <2>1, ReloadKeeps DEF SettleDelete
<1> QED
  BY <1>1, <1>2, <1>3, <1>4, <1>5, <1>6, <1>7

-----------------------------------------------------------------------------
\* The loads and what they have shown stay as they are.
LEMMA RestsKeep ==
  ASSUME DeskInv, UNCHANGED <<inventory, selected, listed, detail, retried, failed, listLoad,
                              detailLoad, own, crossed>>,
         preferred' \in Choices, due' \in {"none", "preferred", "context"}, left' \subseteq left,
         ServedKept({}) \/ \E b \in Slots : ServedKept({b}) /\ (slot[b].at # "served" \/ slot[b].kind = "start"),
         \/ due' # "none"
         \/ preferred' = preferred /\ (due = "none" \/ preferred = selected)
  PROVE  DeskInv'
<1>0. DeskKinds /\ LoadsFit /\ HistoryFits /\ ReadIsNew /\ ShownIsNew /\ LeftIsLeft /\ AsksForChosen
      /\ ChosenIsSelected /\ SelectedIsShown
  BY DEF DeskInv
<1>1. SlotsFit' /\ slot' \in [Slots -> DeskActions]
  BY DEF ServedKept
<1>2. \A s : (Owing(s) => Owing(s)') /\ (Leaving(s) => Leaving(s)')
  <2>1. CASE ServedKept({})
    BY <2>1, OwingKept
  <2>2. CASE \E b \in Slots : ServedKept({b}) /\ (slot[b].at # "served" \/ slot[b].kind = "start")
    <3>1. PICK b \in Slots : ServedKept({b}) /\ (slot[b].at # "served" \/ slot[b].kind = "start")
      BY <2>2
    <3>2. \A s : /\ Owing(s) => Owing(s)' \/ \E c \in {b} : slot[c].at = "served" /\ slot[c].on = s
                                    /\ slot[c].kind \in {"check", "assign", "close", "delete"}
                 /\ Leaving(s) => Leaving(s)' \/ \E c \in {b} : slot[c].at = "served" /\ slot[c].on = s
                                    /\ slot[c].kind \in {"close", "delete"}
      BY <3>1, OwingKept
    <3> QED
      BY <3>1, <3>2
  <2> QED
    BY <2>1, <2>2
<1>3. DeskKinds'
  BY <1>0, <1>1 DEF DeskKinds
<1>4. LoadsFit' /\ HistoryFits' /\ AsksForChosen' /\ SelectedIsShown'
  BY <1>0 DEF LoadsFit, HistoryFits, AsksForChosen, SelectedIsShown, Listing, OwnDetail
<1>5. ReadIsNew' /\ ShownIsNew'
  <2>1. ReadIsNew'
    BY <1>0, <1>2 DEF ReadIsNew, Listing, Owing
  <2>2. ShownIsNew'
    BY <1>0, <1>2 DEF ShownIsNew, Listing, OwnDetail, Owing
  <2> QED
    BY <2>1, <2>2
<1>6. LeftIsLeft' /\ ChosenIsSelected'
  BY <1>0, <1>2 DEF LeftIsLeft, ChosenIsSelected, Listing
<1> QED
  BY <1>1, <1>3, <1>4, <1>5, <1>6 DEF DeskInv

LEMMA SlotIs ==
  ASSUME DeskKinds, SlotsFit, NEW b \in Slots, NEW new \in DeskActions, slot' = [slot EXCEPT ![b] = new],
         new.at # "none" => /\ new.on \in Sessions /\ new.kind # "none"
                            /\ new.kind = "assign" => new.sel = new.on
  PROVE  ServedKept({b}) /\ slot'[b] = new
<1>1. /\ slot' \in [Slots -> DeskActions] /\ slot'[b] = new
      /\ \A c \in Slots \ {b} : slot'[c] = slot[c]
  BY DEF DeskKinds
<1>2. SlotsFit'
  <2>1. ASSUME NEW c \in Slots, slot'[c].at # "none"
        PROVE  /\ slot'[c].on \in Sessions /\ slot'[c].kind # "none"
               /\ slot'[c].kind = "assign" => slot'[c].sel = slot'[c].on
    <3>1. CASE c = b
      BY <1>1, <2>1, <3>1
    <3>2. CASE c # b
      <4>1. slot'[c] = slot[c]
        BY <1>1, <3>2
      <4> QED
        BY <2>1, <4>1 DEF SlotsFit
    <3> QED
      BY <3>1, <3>2
  <2> QED
    BY <2>1 DEF SlotsFit
<1> QED
  BY <1>1, <1>2 DEF ServedKept

LEMMA PressesKeep ==
  ASSUME DeskInv, NEW b \in Slots,
         \/ \E kind \in {"check", "assign"} : PressItem(b, kind)
         \/ PressClose(b) \/ PressDelete(b) \/ \E s \in Sessions : PressStart(b, s)
  PROVE  DeskInv'
<1>0. DeskKinds /\ SlotsFit
  BY DEF DeskInv
<1>1. PICK kind \in {"check", "assign", "close", "delete", "start"}, on \in Choices :
        Press(b, kind, on) /\ on \in Sessions /\ (kind = "assign" => selected = on)
  <2>1. DetailIsCurrent => detail.of \in Sessions /\ detail.of \in Choices /\ selected = detail.of
    BY <1>0, DeskFields DEF DetailIsCurrent, Wanted, Choices
  <2> QED
    BY <2>1, FreshDeskRecords DEF PressItem, PressClose, PressDelete, PressStart
<1> DEFINE new == [kind |-> kind, on |-> on, sel |-> selected, at |-> "sent"]
<1>2. /\ slot[b].at = "none" /\ slot' = [slot EXCEPT ![b] = new]
      /\ UNCHANGED <<inventory, preferred, selected, due, listed, detail, retried, failed, listLoad,
                     detailLoad, own, left, crossed>>
  BY <1>1 DEF Press, deskView, deskLoads, deskHistory
<1>3. /\ new \in DeskActions /\ new.on \in Sessions /\ new.kind # "none"
      /\ new.kind = "assign" => new.sel = new.on
  BY <1>0, <1>1 DEF DeskActions, DeskKinds
<1> HIDE DEF new
<1>4. ServedKept({b})
  BY <1>0, <1>2, <1>3, SlotIs
<1>5. due' = "none" => preferred' = preferred /\ due = "none"
  BY <1>2
<1> QED
  BY <1>0, <1>2, <1>4, <1>5, RestsKeep DEF DeskKinds

LEMMA RestingKeep ==
  ASSUME DeskInv,
         \/ RenewContext \/ (Effect /\ Unaffected)
         \/ \E s \in Sessions : Choose(s)
         \/ \E b \in Slots : SettleStart(b) \/ SettleRefused(b)
  PROVE  DeskInv'
<1>0. DeskKinds /\ SlotsFit
  BY DEF DeskInv
<1> USE FreshDeskRecords
<1>1. CASE RenewContext
  <2>1. /\ due' = "context"
        /\ UNCHANGED <<inventory, preferred, selected, listed, detail, retried, failed, listLoad,
                       detailLoad, slot, own, left, crossed>>
    BY <1>1 DEF RenewContext, deskLoads, deskHistory
  <2> QED
    BY <1>0, <2>1, SlotsStay, RestsKeep DEF DeskKinds
<1>2. CASE Effect /\ Unaffected
  <2>1. /\ due' = "none" /\ preferred = selected
        /\ UNCHANGED <<inventory, preferred, selected, listed, detail, retried, failed, listLoad,
                       detailLoad, slot, own, left, crossed>>
    BY <1>2 DEF Effect, Unaffected, deskLoads
  <2> QED
    BY <1>0, <2>1, SlotsStay, RestsKeep DEF DeskKinds
<1>3. ASSUME NEW s \in Sessions, Choose(s) PROVE DeskInv'
  <2>1. /\ preferred' = s /\ due' = (IF due = "none" THEN "preferred" ELSE due) /\ left' = left \ {s}
        /\ UNCHANGED <<inventory, selected, listed, detail, retried, failed, listLoad,
                       detailLoad, slot, own, crossed>>
    BY <1>3 DEF Choose, deskLoads
  <2>2. due' \in {"none", "preferred", "context"} /\ due' # "none"
    BY <1>0, <2>1 DEF DeskKinds
  <2> QED
    BY <1>0, <2>1, <2>2, SlotsStay, RestsKeep
<1>4. ASSUME NEW b \in Slots, SettleStart(b) PROVE DeskInv'
  <2>1. /\ preferred' = slot[b].on /\ due' = (IF due = "none" THEN "preferred" ELSE due)
        /\ slot[b].kind = "start" /\ slot' = [slot EXCEPT ![b] = NoAction]
        /\ UNCHANGED <<inventory, selected, listed, detail, retried, failed, listLoad,
                       detailLoad, own, left, crossed>>
    BY <1>4 DEF SettleStart, deskLoads, deskHistory
  <2>2. due' \in {"none", "preferred", "context"} /\ due' # "none" /\ preferred' \in Choices
    BY <1>0, <2>1, DeskFields DEF DeskKinds
  <2>3. ServedKept({b})
    BY <1>0, <2>1, SlotIs
  <2> QED
    BY <1>0, <2>1, <2>2, <2>3, RestsKeep
<1>5. ASSUME NEW b \in Slots, SettleRefused(b) PROVE DeskInv'
  <2>1. /\ slot[b].at # "served" /\ slot' = [slot EXCEPT ![b] = NoAction]
        /\ UNCHANGED <<inventory, preferred, selected, due, listed, detail, retried, failed, listLoad,
                       detailLoad, own, left, crossed>>
    BY <1>5 DEF SettleRefused, deskView, deskLoads, deskHistory
  <2>2. ServedKept({b})
    BY <1>0, <2>1, SlotIs
  <2>3. due' = "none" => preferred' = preferred /\ due = "none"
    BY <2>1
  <2> QED
    BY <1>0, <2>1, <2>2, <2>3, RestsKeep DEF DeskKinds
<1> QED
  BY <1>1, <1>2, <1>3, <1>4, <1>5

-----------------------------------------------------------------------------
\* The API reads what is there: a list does not have what was left as active,
\* a detail is as new as the last change made here.
LEMMA ReadsKeep ==
  ASSUME DeskInv, ListRead \/ DetailRead
  PROVE  DeskInv'
<1>0. DeskKinds /\ LoadsFit /\ HistoryFits /\ ReadIsNew /\ ShownIsNew /\ LeftIsLeft /\ AsksForChosen
      /\ ChosenIsSelected /\ SelectedIsShown
  BY DEF DeskInv
<1>1. CASE ListRead
  <2> DEFINE read == [s \in Sessions |-> IF Exists(s) THEN inventory[s].status ELSE "none"]
             new == [at |-> "read", want |-> listLoad.want, pref |-> listLoad.pref, read |-> read]
  <2>1. /\ listLoad.at = "sent" /\ listLoad' = new
        /\ UNCHANGED <<inventory, preferred, selected, due, listed, detail, retried, failed,
                       detailLoad, slot, own, left, crossed>>
    BY <1>1 DEF ListRead, deskView, deskHistory
  <2>2. read \in Lists /\ \A s \in left : read[s] # "active"
    <3>1. \A s \in Sessions : read[s] \in {"none", "active", "closed"}
      BY DEF Exists
    <3>2. \A s \in left : read[s] # "active"
      BY <1>0, <3>1 DEF HistoryFits, Exists, DeskKinds
    <3> QED
      BY <3>1, <3>2 DEF Lists
  <2> HIDE DEF read
  <2>3. new \in ListLoads /\ new.at = "read" /\ new.want = listLoad.want /\ new.pref = listLoad.pref
        /\ new.read = read
    BY <1>0, <2>2, DeskFields DEF ListLoads
  <2> HIDE DEF new
  <2>4. DeskKinds'
    BY <1>0, <2>1, <2>3 DEF DeskKinds
  <2>5. SlotsFit' /\ LoadsFit' /\ HistoryFits'
    BY <1>0, <2>1, <2>3, SlotsStay DEF ServedKept, LoadsFit, HistoryFits
  <2>6. ReadIsNew' /\ ShownIsNew' /\ LeftIsLeft'
    BY <2>1, <2>2, <2>3 DEF ReadIsNew, ShownIsNew, LeftIsLeft, Listing
  <2>7. AsksForChosen' /\ ChosenIsSelected' /\ SelectedIsShown'
    BY <1>0, <2>1, <2>3 DEF AsksForChosen, ChosenIsSelected, SelectedIsShown, Listing
  <2> QED
    BY <2>4, <2>5, <2>6, <2>7 DEF DeskInv
<1>2. CASE DetailRead
  <2> DEFINE new == [at |-> "read", of |-> detailLoad.of, nested |-> detailLoad.nested,
                     rev |-> inventory[detailLoad.of].rev]
  <2>1. /\ detailLoad.at = "sent" /\ detailLoad' = new
        /\ UNCHANGED <<inventory, preferred, selected, due, listed, detail, retried, failed,
                       listLoad, slot, own, left, crossed>>
    BY <1>2 DEF DetailRead, deskView, deskHistory
  <2>2. detailLoad.of \in Sessions /\ inventory[detailLoad.of].rev \in Nat
        /\ inventory[detailLoad.of].rev >= own[detailLoad.of] /\ own[detailLoad.of] \in Nat
    BY <1>0, <2>1, DeskFields DEF LoadsFit, HistoryFits
  <2>3. new \in DetailLoads /\ new.at = "read" /\ new.of = detailLoad.of /\ new.nested = detailLoad.nested
        /\ new.rev = inventory[detailLoad.of].rev
    BY <1>0, <2>2, DeskFields DEF DetailLoads
  <2> HIDE DEF new
  <2>4. DeskKinds'
    BY <1>0, <2>1, <2>3 DEF DeskKinds
  <2>5. SlotsFit' /\ LoadsFit' /\ HistoryFits'
    BY <1>0, <2>1, <2>3, SlotsStay DEF ServedKept, LoadsFit, HistoryFits
  <2>6. ReadIsNew'
    BY <2>1, <2>2, <2>3 DEF ReadIsNew
  <2>7. ShownIsNew' /\ LeftIsLeft'
    BY <1>0, <2>1, <2>3 DEF ShownIsNew, LeftIsLeft, Listing, OwnDetail, Owing, Leaving
  <2>8. AsksForChosen' /\ ChosenIsSelected' /\ SelectedIsShown'
    BY <1>0, <2>1, <2>3 DEF AsksForChosen, ChosenIsSelected, SelectedIsShown, Listing, OwnDetail
  <2> QED
    BY <2>4, <2>5, <2>6, <2>7, <2>8 DEF DeskInv
<1> QED
  BY <1>1, <1>2

-----------------------------------------------------------------------------
\* Loads fail: the page says so, if they counted.
LEMMA FailuresKeep ==
  ASSUME DeskInv, ListFailed \/ DetailFailed \/ (DetailMissing /\ detailLoad.nested)
  PROVE  DeskInv'
<1>0. DeskKinds /\ SlotsFit /\ LoadsFit /\ HistoryFits /\ ReadIsNew /\ ShownIsNew /\ LeftIsLeft
      /\ AsksForChosen /\ ChosenIsSelected /\ SelectedIsShown
  BY DEF DeskInv
<1> USE FreshDeskRecords
<1>1. CASE ListFailed
  <2>1. /\ listLoad.at \in {"sent", "read"} /\ listLoad' = NoListLoad /\ failed' = TRUE
        /\ slot' = OverIn({"list"}, slot)
        /\ UNCHANGED <<inventory, preferred, selected, due, listed, detail, retried, detailLoad,
                       own, left, crossed>>
    BY <1>1 DEF ListFailed, deskHistory
  <2>2. ServedKept({})
    BY <1>0, <2>1, OverInKeeps
  <2>3. DeskKinds' /\ LoadsFit' /\ HistoryFits'
    BY <1>0, <2>1, <2>2 DEF DeskKinds, ServedKept, LoadsFit, HistoryFits
  <2>4. ReadIsNew' /\ ShownIsNew' /\ LeftIsLeft' /\ AsksForChosen' /\ ChosenIsSelected' /\ SelectedIsShown'
    BY <2>1 DEF ReadIsNew, ShownIsNew, LeftIsLeft, AsksForChosen, ChosenIsSelected, SelectedIsShown,
       Listing
  <2> QED
    BY <2>2, <2>3, <2>4 DEF DeskInv, ServedKept
<1>2. CASE DetailFailed \/ (DetailMissing /\ detailLoad.nested)
  <2>1. /\ detailLoad.at # "none" /\ detailLoad' = NoDetailLoad
        /\ listLoad' = (IF listLoad.at = "detail" THEN NoListLoad ELSE listLoad)
        /\ slot' = OverIn(ListEnds, slot) /\ failed' = (failed \/ Counts)
        /\ UNCHANGED <<inventory, preferred, selected, due, listed, detail, retried, own, left, crossed>>
    BY <1>2 DEF DetailFailed, DetailMissing, DetailDone, ListWithoutDetail, deskHistory
  <2>2. ServedKept({}) /\ failed' \in BOOLEAN
    BY <1>0, <2>1, OverInKeeps DEF ListEnds, DeskKinds
  <2>3. DeskKinds' /\ LoadsFit' /\ HistoryFits'
    BY <1>0, <2>1, <2>2 DEF DeskKinds, ServedKept, LoadsFit, HistoryFits
  <2>4. \A s : (Owing(s) => Owing(s)') /\ (Leaving(s) => Leaving(s)')
    BY <2>2, OwingKept
  \* What did not count was nobody's.
  <2>5. failed' \/ (detailLoad.nested /\ listLoad.at # "detail" /\ listLoad' = listLoad)
    BY <1>0, <2>1 DEF Counts
  <2>6. ReadIsNew' /\ SelectedIsShown'
    BY <1>0, <2>1, <2>5 DEF ReadIsNew, SelectedIsShown, Listing, OwnDetail
  <2>7. ShownIsNew'
    <3>1. CASE failed'
      BY <3>1 DEF ShownIsNew
    <3>2. CASE ~failed'
      <4>1. detailLoad.nested /\ listLoad' = listLoad /\ ~failed
        BY <2>1, <2>5, <3>2
      <4>2. Owing(selected) => Owing(selected)'
        BY <2>1, <2>4 DEF Owing
      <4> QED
        BY <1>0, <2>1, <4>1, <4>2 DEF ShownIsNew, OwnDetail, Owing
    <3> QED
      BY <3>1, <3>2
  <2>8. LeftIsLeft' /\ AsksForChosen' /\ ChosenIsSelected'
    BY <1>0, <2>1, <2>4, <2>5 DEF LeftIsLeft, AsksForChosen, ChosenIsSelected, Listing
  <2> QED
    BY <2>2, <2>3, <2>6, <2>7, <2>8 DEF DeskInv, ServedKept
<1> QED
  BY <1>1, <1>2

\* A detail that counts is that of the selected inventory, and as new as is known.
LEMMA DetailShownKeeps ==
  ASSUME DeskInv, DetailShown
  PROVE  DeskInv'
<1>0. DeskKinds /\ SlotsFit /\ LoadsFit /\ HistoryFits /\ ReadIsNew /\ ShownIsNew /\ LeftIsLeft
      /\ AsksForChosen /\ ChosenIsSelected /\ SelectedIsShown
  BY DEF DeskInv
<1> USE FreshDeskRecords
<1> DEFINE new == [of |-> detailLoad.of, rev |-> detailLoad.rev]
<1>1. /\ detailLoad.at = "read" /\ detailLoad' = NoDetailLoad
      /\ listLoad' = (IF listLoad.at = "detail" THEN NoListLoad ELSE listLoad)
      /\ slot' = OverIn(ListEnds, slot) /\ detail' = (IF Counts THEN new ELSE detail)
      /\ UNCHANGED <<inventory, preferred, selected, due, listed, retried, failed, own, left, crossed>>
  BY DEF DetailShown, DetailDone, ListWithoutDetail, deskHistory
<1>2. new \in Details /\ new.of = detailLoad.of /\ new.rev = detailLoad.rev
  BY <1>0, DeskFields DEF Details
<1> HIDE DEF new
<1>3. ServedKept({})
  BY <1>0, <1>1, OverInKeeps DEF ListEnds
<1>4. \A s : (Owing(s) => Owing(s)') /\ (Leaving(s) => Leaving(s)')
  BY <1>3, OwingKept
<1>5. DeskKinds' /\ LoadsFit' /\ HistoryFits'
  BY <1>0, <1>1, <1>2, <1>3 DEF DeskKinds, ServedKept, LoadsFit, HistoryFits
<1>6. ReadIsNew' /\ AsksForChosen' /\ ChosenIsSelected'
  BY <1>0, <1>1 DEF ReadIsNew, AsksForChosen, ChosenIsSelected, Listing
<1>7. LeftIsLeft'
  BY <1>0, <1>1, <1>4 DEF LeftIsLeft, Listing
<1>8. CASE Counts
  <2>1. detailLoad.of = selected \/ Listing \/ failed \/ crossed
    BY <1>0, <1>1, <1>8 DEF Counts, LoadsFit, SelectedIsShown, OwnDetail
  <2>2. Listing => listLoad'.at # "none"
    BY <1>1 DEF Listing
  <2>3. SelectedIsShown'
    BY <1>1, <1>2, <1>8, <2>1, <2>2 DEF SelectedIsShown, OwnDetail
  <2>4. ShownIsNew'
    BY <1>0, <1>1, <1>2, <1>4, <1>8, <2>2 DEF ShownIsNew, ReadIsNew, Owing
  <2> QED
    BY <1>3, <1>5, <1>6, <1>7, <2>3, <2>4 DEF DeskInv, ServedKept
<1>9. CASE ~Counts
  <2>1. detailLoad.nested /\ listLoad' = listLoad /\ detail' = detail
    BY <1>1, <1>9 DEF Counts
  <2>2. SelectedIsShown'
    BY <1>0, <1>1, <2>1 DEF SelectedIsShown, OwnDetail
  <2>3. ShownIsNew'
    BY <1>0, <1>1, <1>4, <2>1 DEF ShownIsNew, OwnDetail, Owing
  <2> QED
    BY <1>3, <1>5, <1>6, <1>7, <2>2, <2>3 DEF DeskInv, ServedKept
<1> QED
  BY <1>8, <1>9

-----------------------------------------------------------------------------
\* An assignment loads the detail of the inventory it was made on.
LEMMA AssignKeeps ==
  ASSUME DeskInv, NEW b \in Slots, SettleAssign(b)
  PROVE  DeskInv'
<1>0. DeskKinds /\ SlotsFit /\ LoadsFit /\ HistoryFits /\ LeftIsLeft
      /\ AsksForChosen /\ ChosenIsSelected
  BY DEF DeskInv
<1> USE FreshDeskRecords
<1> DEFINE sel == slot[b].sel
<1>1. /\ slot[b].at \in {"served", "refused"} /\ slot[b].kind = "assign"
      /\ detailLoad' = DetailOf(sel, FALSE)
      /\ listLoad' = (IF listLoad.at = "detail" THEN NoListLoad ELSE listLoad)
      /\ slot' = [OverIn(ListEnds, slot) EXCEPT ![b].at = "detail"]
      /\ crossed' = (crossed \/ sel # preferred \/ sel # selected)
      /\ UNCHANGED <<inventory, preferred, selected, due, listed, detail, retried, failed, own, left>>
  BY DEF SettleAssign, ListWithoutDetail, deskView
<1>2. sel \in Sessions /\ sel \in Choices
  BY <1>0, <1>1 DEF SlotsFit
<1> HIDE DEF sel
<1>3. /\ detailLoad' \in DetailLoads /\ detailLoad'.at = "sent" /\ detailLoad'.of = sel
      /\ detailLoad'.nested = FALSE
  BY <1>0, <1>1, <1>2, FreshLoads DEF DeskKinds
<1>4. ServedKept({b})
  BY <1>0, <1>1, SettlingKeeps DEF ListEnds
<1>5. \A s : Leaving(s) => Leaving(s)'
  <2>1. \A s : Leaving(s) => Leaving(s)' \/ \E c \in {b} : slot[c].at = "served" /\ slot[c].on = s
                                              /\ slot[c].kind \in {"close", "delete"}
    BY <1>4, OwingKept
  <2> QED
    BY <1>1, <2>1
<1>6. DeskKinds'
  BY <1>0, <1>1, <1>3, <1>4 DEF DeskKinds, ServedKept
<1>7. LoadsFit' /\ HistoryFits' /\ OwnDetail'
  BY <1>0, <1>1, <1>2, <1>3 DEF LoadsFit, HistoryFits, OwnDetail
<1>8. ReadIsNew' /\ ShownIsNew' /\ SelectedIsShown'
  BY <1>1, <1>3, <1>7 DEF ReadIsNew, ShownIsNew, SelectedIsShown
<1>9. LeftIsLeft' /\ AsksForChosen' /\ ChosenIsSelected'
  BY <1>0, <1>1, <1>5 DEF LeftIsLeft, AsksForChosen, ChosenIsSelected, Listing
<1> QED
  BY <1>4, <1>6, <1>7, <1>8, <1>9 DEF DeskInv, ServedKept

-----------------------------------------------------------------------------
\* What a list selects is active in it; it is what was asked for, if that is.
LEMMA WhatIsSelected ==
  ASSUME DeskKinds, NEW sel \in Selectable(listLoad.read)
  PROVE  /\ sel \in Choices
         /\ sel # NoSession => sel \in Sessions /\ listLoad.read[sel] = "active"
         /\ sel = NoSession => \A s \in Sessions : listLoad.read[s] # "active"
         /\ Found /\ listLoad.read[Requested] = "active" => sel = Requested
<1>1. Requested \in Choices /\ \A s \in Sessions : listLoad.read[s] \in {"none", "active", "closed"}
  BY DeskFields DEF Requested, DeskKinds
<1> DEFINE open == {s \in Sessions : listLoad.read[s] = "active"}
<1>2. CASE Found /\ listLoad.read[Requested] # "closed"
  <2>1. sel = Requested /\ Requested \in Sessions /\ listLoad.read[Requested] = "active"
    BY <1>1, <1>2 DEF Selectable, Found, Choices
  <2> QED
    BY <1>1, <2>1, SessionDeskAssumption
<1>3. CASE ~(Found /\ listLoad.read[Requested] # "closed")
  <2>1. sel \in IF open # {} THEN open ELSE {NoSession}
    BY <1>3 DEF Selectable
  <2> QED
    BY <1>3, <2>1, SessionDeskAssumption, FreshDeskRecords
<1> QED
  BY <1>2, <1>3

\* The list ends with the detail of what it selects, or with nothing selected;
\* the selector is told, when its inventory is not there.
LEMMA ListShownKeeps ==
  ASSUME DeskInv, ListShown
  PROVE  DeskInv'
<1>0. DeskKinds /\ SlotsFit /\ LoadsFit /\ HistoryFits /\ LeftIsLeft
      /\ AsksForChosen /\ ChosenIsSelected
  BY DEF DeskInv
<1> USE FreshDeskRecords
<1>1. /\ listLoad.at = "read" /\ ~AskAgain(preferred, Requested, Changed, listLoad.read)
      /\ listed' = listLoad.read
      /\ UNCHANGED <<inventory, failed, own, left, crossed>>
  BY DEF ListShown, deskHistory
<1>2. PICK sel \in Selectable(listLoad.read) :
       /\ preferred' = IF Shared(sel, listLoad.read) THEN sel ELSE preferred
       /\ due' = IF preferred' # preferred /\ due = "none" THEN "preferred" ELSE due
       /\ IF sel # NoSession
          THEN /\ selected' = sel /\ UNCHANGED detail
               /\ retried' = IF preferred = NoSession \/ Found THEN NoSession ELSE retried
               /\ listLoad' = [listLoad EXCEPT !.at = "detail"]
               /\ detailLoad' = DetailOf(sel, TRUE)
               /\ slot' = OverIn({"detail"}, slot)
          ELSE /\ Cleared /\ listLoad' = NoListLoad /\ detailLoad' = NoDetailLoad
               /\ slot' = OverIn({"list", "detail"}, slot)
  BY DEF ListShown
<1>3. /\ sel \in Choices
      /\ sel # NoSession => sel \in Sessions /\ listLoad.read[sel] = "active"
      /\ sel = NoSession => \A s \in Sessions : listLoad.read[s] # "active"
      /\ Found /\ listLoad.read[Requested] = "active" => sel = Requested
  BY <1>0, WhatIsSelected
<1>4. ServedKept({})
  <2>1. CASE sel # NoSession
    BY <1>0, <1>2, <2>1, OverInKeeps
  <2>2. CASE sel = NoSession
    BY <1>0, <1>2, <2>2, OverInKeeps
  <2> QED
    BY <2>1, <2>2
<1>5. \A s : Leaving(s) => Leaving(s)'
  BY <1>4, OwingKept
<1>6. /\ preferred' \in Choices /\ due' \in {"none", "preferred", "context"}
      /\ preferred' # preferred => due' # "none"
  BY <1>0, <1>2, <1>3 DEF DeskKinds
\* An inventory that stays chosen without a word is active in the list, or is
\* the selected one.
<1>7. preferred' = preferred /\ sel # preferred => preferred \in Sessions /\ listLoad.read[preferred] = "active"
  BY <1>0, <1>2, DeskFields DEF Shared, DeskKinds, Choices
<1>8. HistoryFits'
  BY <1>0, <1>1 DEF HistoryFits
<1>9. selected' = sel /\ retried' \in Choices /\ detail' \in Details
  BY <1>0, <1>2 DEF Cleared, DeskKinds
<1>10. CASE sel # NoSession
  <2>1. /\ detail' = detail /\ listLoad' = [listLoad EXCEPT !.at = "detail"]
        /\ detailLoad' = DetailOf(sel, TRUE)
    BY <1>2, <1>10
  <2>2. /\ listLoad' \in ListLoads /\ listLoad'.at = "detail" /\ listLoad'.read = listLoad.read
        /\ detailLoad' \in DetailLoads /\ detailLoad'.at = "sent" /\ detailLoad'.of = sel
        /\ detailLoad'.nested = TRUE
    <3>1. listLoad' \in ListLoads /\ listLoad'.at = "detail" /\ listLoad'.read = listLoad.read
      BY <1>0, <2>1 DEF ListLoads, DeskKinds
    <3> QED
      BY <1>0, <1>3, <2>1, <3>1, FreshLoads DEF DeskKinds
  <2>3. DeskKinds'
    BY <1>0, <1>1, <1>3, <1>4, <1>6, <1>9, <2>2, DeskFields DEF DeskKinds, ServedKept
  <2>4. LoadsFit' /\ ReadIsNew' /\ ShownIsNew' /\ AsksForChosen' /\ SelectedIsShown'
    BY <1>3, <1>9, <1>10, <2>2 DEF LoadsFit, ReadIsNew, ShownIsNew, AsksForChosen, SelectedIsShown,
       Listing, OwnDetail
  <2>5. LeftIsLeft'
    <3>1. \A s \in left : listLoad.read[s] = "active" => Leaving(s)'
      BY <1>0, <1>1, <1>5 DEF LeftIsLeft
    <3>2. ASSUME NEW s \in left, selected' = s PROVE Leaving(s)'
      BY <1>3, <1>9, <1>10, <3>1, <3>2
    <3>3. ASSUME NEW s \in left, preferred' = s, due' = "none" PROVE Leaving(s)'
      BY <1>3, <1>6, <1>7, <1>10, <3>1, <3>3
    <3> QED
      BY <1>1, <2>2, <3>2, <3>3 DEF LeftIsLeft
  <2>6. ChosenIsSelected'
    <3>1. SUFFICES ASSUME preferred' # NoSession, due' = "none", ~crossed, sel # preferred'
                   PROVE  FALSE
      BY <1>1, <1>9 DEF ChosenIsSelected
    <3>2. preferred' = preferred /\ preferred \in Sessions /\ listLoad.read[preferred] = "active"
      BY <1>6, <1>7, <3>1
    <3>3. Requested # preferred
      BY <1>3, <3>1, <3>2 DEF Found
    <3>4. ~Changed /\ listLoad.pref = preferred
      BY <3>3 DEF Requested, Changed
    <3>5. Requested = NoSession /\ retried # preferred
      BY <1>0, <1>1, <3>1, <3>2, <3>3, <3>4 DEF AsksForChosen, Listing, Requested
    <3> QED
      BY <1>1, <3>1, <3>2, <3>5 DEF AskAgain
  <2> QED
    BY <1>4, <1>8, <2>3, <2>4, <2>5, <2>6 DEF DeskInv, ServedKept
<1>11. CASE sel = NoSession
  <2>1. detail' = NoDetail /\ listLoad' = NoListLoad /\ detailLoad' = NoDetailLoad
    BY <1>2, <1>11 DEF Cleared
  <2>2. DeskKinds'
    BY <1>0, <1>1, <1>3, <1>4, <1>6, <1>9, <2>1, DeskFields DEF DeskKinds, ServedKept
  <2>3. LoadsFit' /\ ReadIsNew' /\ ShownIsNew' /\ AsksForChosen' /\ SelectedIsShown'
    BY <1>9, <1>11, <2>1 DEF LoadsFit, ReadIsNew, ShownIsNew, AsksForChosen, SelectedIsShown,
       Listing, OwnDetail
  <2>4. preferred' = NoSession \/ due' # "none"
    BY <1>3, <1>6, <1>7, <1>11
  <2>5. LeftIsLeft'
    <3>1. NoSession \notin left
      BY <1>0, SessionDeskAssumption DEF DeskKinds
    <3> QED
      BY <1>1, <1>9, <1>11, <2>1, <2>4, <3>1 DEF LeftIsLeft
  <2>6. ChosenIsSelected'
    BY <2>4 DEF ChosenIsSelected
  <2> QED
    BY <1>4, <1>8, <2>2, <2>3, <2>5, <2>6 DEF DeskInv, ServedKept
<1> QED
  BY <1>10, <1>11

-----------------------------------------------------------------------------
\* What the API makes of an action or of what others do: it leaves alone what
\* the page has, and owes it what was changed from here.
LEMMA ChangesKeep ==
  ASSUME DeskInv, NEW s \in Sessions, NEW B \in SUBSET Slots, ServedKept(B),
         \A b \in B : slot[b].at # "served",
         NEW new \in Stocks, inventory' = [inventory EXCEPT ![s] = new],
         NEW n \in Nat, own' = [own EXCEPT ![s] = n], n <= new.rev,
         left' \in SUBSET Sessions, left' \subseteq left \cup {s},
         s \in left' => new.status \in {"closed", "deleted"},
         s \in left' => s \in left \/ Leaving(s)',
         n <= own[s] \/ Owing(s)',
         UNCHANGED <<preferred, selected, due, listed, detail, retried, failed, listLoad, detailLoad, crossed>>
  PROVE  DeskInv'
<1>0. DeskKinds /\ LoadsFit /\ HistoryFits /\ ReadIsNew /\ ShownIsNew /\ LeftIsLeft /\ AsksForChosen
      /\ ChosenIsSelected /\ SelectedIsShown
  BY DEF DeskInv
<1>1. \A x : (Owing(x) => Owing(x)') /\ (Leaving(x) => Leaving(x)')
  BY OwingKept
<1>2. /\ inventory' \in [Sessions -> Stocks] /\ own' \in [Sessions -> Nat]
      /\ inventory'[s] = new /\ own'[s] = n
      /\ \A x \in Sessions \ {s} : inventory'[x] = inventory[x] /\ own'[x] = own[x]
  BY <1>0 DEF DeskKinds
<1>3. new.rev \in Nat
  BY DEF Stocks
<1>4. DeskKinds' /\ LoadsFit'
  BY <1>0, <1>2 DEF DeskKinds, ServedKept, LoadsFit
<1>5. HistoryFits'
  BY <1>0, <1>2 DEF HistoryFits
<1>6. \A x \in Sessions : own'[x] <= own[x] \/ Owing(x)'
  BY <1>0, <1>2 DEF DeskKinds
<1>7. ReadIsNew'
  <2>1. SUFFICES ASSUME detailLoad.at = "read", ~Owing(detailLoad.of)', ~Listing, ~failed
                 PROVE  detailLoad.rev >= own'[detailLoad.of]
    BY DEF ReadIsNew, Listing, Owing
  <2>2. detailLoad.of \in Sessions /\ detailLoad.rev >= own[detailLoad.of]
    BY <1>0, <1>1, <2>1 DEF ReadIsNew, LoadsFit
  <2>3. own'[detailLoad.of] <= own[detailLoad.of]
    BY <1>6, <2>1, <2>2
  <2> QED
    BY <1>0, <1>2, <2>2, <2>3 DEF DeskKinds, DetailLoads
<1>8. ShownIsNew'
  <2>1. SUFFICES ASSUME selected # NoSession, detail.of = selected, ~Owing(selected)',
                        listLoad.at = "none", ~OwnDetail, ~failed
                 PROVE  detail.rev >= own'[selected]
    BY DEF ShownIsNew, OwnDetail, Owing
  <2>2. selected \in Sessions /\ detail.rev >= own[selected]
    BY <1>0, <1>1, <2>1 DEF ShownIsNew, DeskKinds, Choices
  <2>3. own'[selected] <= own[selected]
    BY <1>6, <2>1, <2>2
  <2> QED
    BY <1>0, <1>2, <2>2, <2>3 DEF DeskKinds, Details
<1>9. LeftIsLeft'
  <2>1. ASSUME NEW x \in left'
        PROVE  \/ Leaving(x)'
               \/ /\ listLoad.at = "read" => listLoad.read[x] # "active"
                  /\ selected = x => Listing \/ failed
                  /\ preferred = x => Listing \/ failed \/ due # "none"
    <3>1. x \in left \/ Leaving(x)'
      OBVIOUS
    <3> QED
      BY <1>0, <1>1, <3>1 DEF LeftIsLeft
  <2> QED
    BY <2>1 DEF LeftIsLeft, Listing
<1>10. AsksForChosen' /\ ChosenIsSelected' /\ SelectedIsShown'
  BY <1>0 DEF AsksForChosen, ChosenIsSelected, SelectedIsShown, Listing, OwnDetail
<1> QED
  BY <1>4, <1>5, <1>7, <1>8, <1>9, <1>10 DEF DeskInv, ServedKept

LEMMA ServeKeeps ==
  ASSUME DeskInv, NEW b \in Slots, ServeAction(b)
  PROVE  DeskInv'
<1>0. DeskKinds /\ SlotsFit /\ HistoryFits
  BY DEF DeskInv
<1>a. PICK s \in Sessions : slot[b].on = s
  BY <1>0 DEF ServeAction, SlotsFit
<1> DEFINE kind == slot[b].kind
           done(at) == [slot[b] EXCEPT !.at = at]
<1>1. /\ slot[b].at = "sent"
      /\ kind \in {"check", "assign", "close", "delete", "start"}
      /\ UNCHANGED <<preferred, selected, due, listed, detail, retried, failed, listLoad,
                     detailLoad, crossed>>
  BY <1>0, DeskFields DEF ServeAction, SlotsFit, deskView, deskLoads
<1>2. ASSUME NEW at \in {"served", "refused", "failed"}, slot' = [slot EXCEPT ![b].at = at]
      PROVE  ServedKept({b}) /\ slot'[b].at = at /\ slot'[b].on = s /\ slot'[b].kind = kind
  <2>1. slot' = [slot EXCEPT ![b] = done(at)]
    BY <1>2
  <2>2. done(at) \in DeskActions /\ done(at).at = at /\ done(at).on = s /\ done(at).kind = kind
        /\ done(at).sel = slot[b].sel
    BY <1>a, <1>2, DeskFields, <1>0 DEF DeskActions
  <2> HIDE DEF done
  <2>3. kind = "assign" => slot[b].sel = s
    BY <1>a, <1>0, <1>1 DEF SlotsFit
  <2>4. ServedKept({b}) /\ slot'[b] = done(at)
    BY <1>0, <1>1, <2>1, <2>2, <2>3, SlotIs
  <2> QED
    BY <2>2, <2>4
<1> HIDE DEF done
<1>3. CASE ~Allowed(kind, s)
  <2>1. PICK at \in {"refused", "failed"} :
          slot' = [slot EXCEPT ![b].at = at] /\ UNCHANGED <<inventory, own, left>>
    BY <1>a, <1>3 DEF ServeAction
  <2>2. ServedKept({b}) /\ slot[b].at # "served"
    BY <1>1, <1>2, <2>1
  <2>3. due' = "none" => preferred' = preferred /\ due = "none"
    BY <1>1
  <2> QED
    BY <1>0, <1>1, <2>1, <2>2, <2>3, RestsKeep DEF DeskKinds
<1>4. CASE Allowed(kind, s)
  <2> DEFINE new == Result(kind, s)
  <2>1. /\ inventory' = [inventory EXCEPT ![s] = new] /\ own' = [own EXCEPT ![s] = new.rev]
        /\ left' = IF kind \in {"close", "delete"} THEN left \cup {s} ELSE left \ {s}
        /\ slot' = [slot EXCEPT ![b].at = "served"]
    BY <1>a, <1>4 DEF ServeAction
  <2>2. ServedKept({b}) /\ slot'[b].at = "served" /\ slot'[b].on = s /\ slot'[b].kind = kind
    BY <1>2, <2>1
  <2>3. /\ new \in Stocks /\ new.rev \in Nat
        /\ kind \in {"close", "delete"} => new.status \in {"closed", "deleted"}
        /\ kind = "start" => new.rev = 0
    <3>1. inventory[s] \in Stocks /\ inventory[s].rev \in Nat
      BY <1>0, <1>1, DeskFields
    <3>2. CASE kind = "close"
      BY <3>1, <3>2 DEF Result, Stocks
    <3>3. CASE kind = "delete"
      BY <3>1, <3>3 DEF Result, Stocks, Deleted
    <3>4. CASE kind = "start"
      BY <3>1, <3>4 DEF Result, Stocks
    <3>5. CASE kind \in {"check", "assign"}
      BY <3>1, <3>5 DEF Result, Stocks
    <3> QED
      BY <1>1, <3>2, <3>3, <3>4, <3>5
  <2> HIDE DEF new
  <2>4. /\ kind \in {"check", "assign", "close", "delete"} => Owing(s)'
        /\ kind \in {"close", "delete"} => Leaving(s)'
    BY <2>2 DEF Owing, Leaving
  <2>5. new.rev <= new.rev /\ (new.rev <= own[s] \/ Owing(s)')
    BY <1>0, <1>1, <2>3, <2>4 DEF DeskKinds
  <2>6. /\ left' \in SUBSET Sessions /\ left' \subseteq left \cup {s}
        /\ s \in left' => kind \in {"close", "delete"}
    BY <1>0, <1>1, <2>1 DEF DeskKinds
  <2>7. \A c \in {b} : slot[c].at # "served"
    BY <1>1
  <2>8. /\ s \in left' => new.status \in {"closed", "deleted"}
        /\ s \in left' => s \in left \/ Leaving(s)'
    BY <2>3, <2>4, <2>6
  <2> HIDE DEF kind
  <2> QED
    BY <1>1, <2>1, <2>2, <2>3, <2>5, <2>6, <2>7, <2>8, ChangesKeep
<1> QED
  BY <1>3, <1>4

\* An answer is lost: what the page has not been told of it does not owe.
LEMMA LostKeeps ==
  ASSUME DeskInv, NEW b \in Slots, AnswerLost(b)
  PROVE  DeskInv'
<1>0. DeskKinds /\ SlotsFit /\ LoadsFit /\ HistoryFits /\ ReadIsNew /\ ShownIsNew /\ LeftIsLeft
      /\ AsksForChosen /\ ChosenIsSelected /\ SelectedIsShown
  BY DEF DeskInv
<1>1. /\ slot[b].at \in {"sent", "served"} /\ slot' = [slot EXCEPT ![b].at = "failed"]
      /\ UNCHANGED <<inventory, preferred, selected, due, listed, detail, retried, failed, listLoad,
                     detailLoad, crossed>>
  BY DEF AnswerLost, deskView, deskLoads
<1>2. PICK s \in Sessions : slot[b].on = s
  BY <1>0, <1>1 DEF SlotsFit
<1> DEFINE given == [slot[b] EXCEPT !.at = "failed"]
<1>3. /\ slot' = [slot EXCEPT ![b] = given] /\ given \in DeskActions
      /\ given.on = s /\ given.kind = slot[b].kind /\ given.sel = slot[b].sel
  BY <1>0, <1>1, <1>2, DeskFields DEF DeskActions
<1>4. slot[b].kind # "none" /\ (slot[b].kind = "assign" => slot[b].sel = s)
  BY <1>0, <1>1, <1>2 DEF SlotsFit
<1> HIDE DEF given
<1>5. ServedKept({b})
  BY <1>0, <1>2, <1>3, <1>4, SlotIs
<1>6. CASE slot[b].at = "sent"
  <2>1. UNCHANGED <<own, left>>
    BY <1>6 DEF AnswerLost
  <2>2. due' = "none" => preferred' = preferred /\ due = "none"
    BY <1>1
  <2> QED
    BY <1>0, <1>1, <1>5, <1>6, <2>1, <2>2, RestsKeep DEF DeskKinds
<1>7. CASE slot[b].at = "served"
  <2>1. /\ own' = [own EXCEPT ![s] = 0]
        /\ left' = IF slot[b].kind \in {"close", "delete"} THEN left \ {s} ELSE left
    BY <1>2, <1>7 DEF AnswerLost
  <2>2. /\ own' \in [Sessions -> Nat] /\ own'[s] = 0
        /\ \A x \in Sessions \ {s} : own'[x] = own[x]
        /\ left' \subseteq left
    BY <1>0, <2>1 DEF DeskKinds
  <2>3. \A x : /\ Owing(x) => Owing(x)' \/ x = s
               /\ Leaving(x) => Leaving(x)' \/ (x = s /\ slot[b].kind \in {"close", "delete"})
    <3>1. \A x : /\ Owing(x) => Owing(x)' \/ \E c \in {b} : slot[c].at = "served" /\ slot[c].on = x
                                    /\ slot[c].kind \in {"check", "assign", "close", "delete"}
                 /\ Leaving(x) => Leaving(x)' \/ \E c \in {b} : slot[c].at = "served" /\ slot[c].on = x
                                    /\ slot[c].kind \in {"close", "delete"}
      BY <1>5, OwingKept
    <3> QED
      BY <1>2, <3>1
  <2>4. DeskKinds' /\ LoadsFit'
    BY <1>0, <1>1, <1>5, <2>2 DEF DeskKinds, ServedKept, LoadsFit
  <2>5. HistoryFits'
    BY <1>0, <1>1, <2>2, DeskFields DEF HistoryFits
  <2>6. ReadIsNew'
    <3>1. SUFFICES ASSUME detailLoad.at = "read", ~Owing(detailLoad.of)', ~Listing, ~failed
                   PROVE  detailLoad.rev >= own'[detailLoad.of]
      BY <1>1 DEF ReadIsNew, Listing, Owing
    <3>2. detailLoad.of \in Sessions /\ detailLoad.rev \in Nat
      BY <1>0, <3>1, DeskFields DEF LoadsFit
    <3>3. CASE detailLoad.of = s
      BY <2>2, <3>2, <3>3
    <3>4. CASE detailLoad.of # s
      BY <1>0, <1>1, <2>2, <2>3, <3>1, <3>2, <3>4 DEF ReadIsNew
    <3> QED
      BY <3>3, <3>4
  <2>7. ShownIsNew'
    <3>1. SUFFICES ASSUME selected # NoSession, detail.of = selected, ~Owing(selected)',
                          listLoad.at = "none", ~OwnDetail, ~failed
                   PROVE  detail.rev >= own'[selected]
      BY <1>1 DEF ShownIsNew, OwnDetail, Owing
    <3>2. selected \in Sessions /\ detail.rev \in Nat
      BY <1>0, <3>1, DeskFields DEF DeskKinds, Choices
    <3>3. CASE selected = s
      BY <2>2, <3>2, <3>3
    <3>4. CASE selected # s
      BY <1>0, <1>1, <2>2, <2>3, <3>1, <3>2, <3>4 DEF ShownIsNew
    <3> QED
      BY <3>3, <3>4
  <2>8. LeftIsLeft'
    <3>1. ASSUME NEW x \in left' PROVE x \in left /\ (Leaving(x) => Leaving(x)')
      BY <2>1, <2>2, <2>3
    <3> QED
      BY <1>0, <1>1, <3>1 DEF LeftIsLeft, Listing
  <2>9. AsksForChosen' /\ ChosenIsSelected' /\ SelectedIsShown'
    BY <1>0, <1>1 DEF AsksForChosen, ChosenIsSelected, SelectedIsShown, Listing, OwnDetail
  <2> QED
    BY <1>5, <2>4, <2>5, <2>6, <2>7, <2>8, <2>9 DEF DeskInv, ServedKept
<1> QED
  BY <1>1, <1>6, <1>7

LEMMA OthersKeep ==
  ASSUME DeskInv, NEW s \in Sessions, OthersManage(s)
  PROVE  DeskInv'
<1>0. DeskKinds /\ HistoryFits
  BY DEF DeskInv
<1>1. PICK kind \in {"check", "close", "delete", "start"} :
        /\ Allowed(kind, s) /\ inventory' = [inventory EXCEPT ![s] = Result(kind, s)]
        /\ own' = [own EXCEPT ![s] = IF kind = "check" THEN own[s] ELSE 0]
  BY DEF OthersManage
<1> DEFINE new == Result(kind, s)
           n == IF kind = "check" THEN own[s] ELSE 0
<1>2. UNCHANGED <<preferred, selected, due, listed, detail, retried, failed, listLoad,
                  detailLoad, slot, left, crossed>>
  BY DEF OthersManage, deskView, deskLoads
<1>3. /\ inventory[s] \in Stocks /\ inventory[s].rev \in Nat /\ own[s] \in Nat
      /\ own[s] <= inventory[s].rev
      /\ s \in left => inventory[s].status \in {"closed", "deleted"}
  BY <1>0, DeskFields DEF HistoryFits
<1>4. /\ new \in Stocks /\ new.rev \in Nat /\ n <= new.rev
      /\ s \in left => new.status \in {"closed", "deleted"}
  <2>1. CASE kind = "check"
    <3>1. new = [inventory[s] EXCEPT !.rev = @ + 1] /\ inventory[s].status = "active"
      BY <1>1, <2>1 DEF Result, Allowed
    <3>2. new \in Stocks /\ new.rev = inventory[s].rev + 1
      BY <1>3, <3>1 DEF Stocks
    <3> QED
      BY <1>3, <2>1, <3>1, <3>2
  <2>2. CASE kind = "close"
    BY <1>3, <2>2 DEF Result, Stocks
  <2>3. CASE kind = "delete"
    BY <1>3, <2>3 DEF Result, Stocks, Deleted
  <2>4. CASE kind = "start"
    BY <1>1, <1>3, <2>4 DEF Result, Stocks, Allowed
  <2> QED
    BY <2>1, <2>2, <2>3, <2>4
<1>5. n \in Nat /\ n <= own[s]
  BY <1>3
<1>6. /\ inventory' = [inventory EXCEPT ![s] = new] /\ own' = [own EXCEPT ![s] = n]
      /\ left' \in SUBSET Sessions /\ left' \subseteq left \cup {s} /\ ServedKept({})
      /\ s \in left' => s \in left
  BY <1>0, <1>1, <1>2, SlotsStay DEF DeskKinds
<1> HIDE DEF new, n
<1> QED
  BY <1>2, <1>4, <1>5, <1>6, ChangesKeep

-----------------------------------------------------------------------------
LEMMA DeskInvInit == SessionDeskInit => DeskInv
<1> SUFFICES ASSUME SessionDeskInit PROVE DeskInv
  OBVIOUS
<1> USE FreshDeskRecords
<1>1. /\ inventory \in Beginnings
      /\ preferred = NoSession /\ selected = NoSession /\ due = "context"
      /\ listed = Unlisted /\ detail = NoDetail
      /\ listLoad = NoListLoad /\ detailLoad = NoDetailLoad /\ retried = NoSession
      /\ slot = [b \in Slots |-> NoAction] /\ failed = FALSE
      /\ own = [s \in Sessions |-> 0] /\ left = {} /\ crossed = FALSE
  BY DEF SessionDeskInit
<1>2. inventory \in [Sessions -> Stocks]
  <2>1. inventory \in [Sessions -> [status : {"none", "active", "closed"}, rev : Nat]]
    BY <1>1, SessionDeskAssumption
  <2>2. [status : {"none", "active", "closed"}, rev : Nat] \subseteq Stocks
    BY DEF Stocks
  <2> QED
    BY <2>1, <2>2
<1>3. slot \in [Slots -> DeskActions] /\ \A b \in Slots : slot[b].at = "none"
  BY <1>1
<1>4. DeskKinds
  BY <1>1, <1>2, <1>3 DEF DeskKinds
<1>5. SlotsFit /\ LoadsFit
  BY <1>1, <1>3 DEF SlotsFit, LoadsFit
<1>6. HistoryFits
  BY <1>1, <1>2 DEF HistoryFits, Stocks
<1>7. ReadIsNew /\ ShownIsNew /\ LeftIsLeft
  BY <1>1 DEF ReadIsNew, ShownIsNew, LeftIsLeft
<1>8. AsksForChosen /\ ChosenIsSelected /\ SelectedIsShown
  BY <1>1 DEF AsksForChosen, ChosenIsSelected, SelectedIsShown, Listing, OwnDetail
<1> QED
  BY <1>4, <1>5, <1>6, <1>7, <1>8 DEF DeskInv

LEMMA DeskInvKept == DeskInv /\ [SessionDeskNext]_sessionDeskVars => DeskInv'
<1> SUFFICES ASSUME DeskInv, [SessionDeskNext]_sessionDeskVars PROVE DeskInv'
  OBVIOUS
<1>1. CASE LoadStep
  <2>1. DetailMissing => (DetailMissing /\ detailLoad.nested) \/ (DetailMissing /\ ~detailLoad.nested)
    OBVIOUS
  <2> QED
    BY <1>1, <2>1, ReadsKeep, ListStartsKeep, ListShownKeeps, FailuresKeep, DetailShownKeeps DEF LoadStep
<1>2. CASE ActionStep
  <2>1. PICK b \in Slots : ServeAction(b) \/ SettleCheck(b) \/ SettleClose(b) \/ SettleDelete(b)
                           \/ SettleAssign(b) \/ SettleStart(b) \/ SettleRefused(b)
    BY <1>2 DEF ActionStep
  <2> QED
    BY <2>1, ServeKeeps, ListStartsKeep, AssignKeeps, RestingKeep
<1>3. CASE UserStep
  BY <1>3, RestingKeep, OthersKeep, LostKeeps, ListStartsKeep, PressesKeep DEF UserStep
<1>4. CASE Effect
  BY <1>4, RestingKeep, ListStartsKeep
<1>5. CASE UNCHANGED sessionDeskVars
  <2>1. /\ UNCHANGED <<inventory, preferred, selected, due, listed, detail, retried, failed, listLoad,
                       detailLoad, slot, own, left, crossed>>
    BY <1>5 DEF sessionDeskVars, deskView, deskLoads, deskHistory
  <2>2. due' = "none" => preferred' = preferred /\ due = "none"
    BY <2>1
  <2> QED
    BY <2>1, <2>2, SlotsStay, RestsKeep DEF DeskInv, DeskKinds
<1> QED
  BY <1>1, <1>2, <1>3, <1>4, <1>5 DEF SessionDeskNext

LEMMA DeskInvAgrees == DeskInv => DashboardAgrees
<1> SUFFICES ASSUME DeskInv PROVE DashboardAgrees
  OBVIOUS
<1>0. DeskKinds /\ LoadsFit /\ ShownIsNew /\ LeftIsLeft /\ ChosenIsSelected /\ SelectedIsShown
  BY DEF DeskInv
<1>1. SessionDeskTypeOK
  BY <1>0, DeskFields DEF SessionDeskTypeOK, DeskKinds, LoadsFit
<1>2. AtRest => ~Listing /\ ~OwnDetail /\ \A s : ~Owing(s) /\ ~Leaving(s)
  BY DEF AtRest, Listing, OwnDetail, Owing, Leaving
<1>3. QueueShowsOwnWork
  BY <1>0, <1>2 DEF QueueShowsOwnWork, DetailIsCurrent, ShownIsNew, AtRest
<1>4. ClosedIsLeft
  BY <1>0, <1>2 DEF ClosedIsLeft, LeftIsLeft, AtRest
<1>5. ChosenIsShown
  BY <1>0, <1>2 DEF ChosenIsShown, DetailIsCurrent, Wanted, ChosenIsSelected, SelectedIsShown, AtRest
<1> QED
  BY <1>1, <1>3, <1>4, <1>5 DEF DashboardAgrees

\* The work queue of the dashboard (SessionPanel): whatever overtakes whatever,
\* for any number of inventories, buttons, failed loads and lost answers, once
\* the page is at rest the queue shows the latest change it was told of, what was closed or deleted
\* here is left by selector and queue, and the queue shows the chosen inventory,
\* unless a reload went past it since it was chosen.
THEOREM DashboardAgreesCorrect == SessionDeskSpec => []DashboardAgrees
<1>1. SessionDeskInit => DeskInv
  BY DeskInvInit
<1>2. DeskInv /\ [SessionDeskNext]_sessionDeskVars => DeskInv'
  BY DeskInvKept
<1>3. DeskInv => DashboardAgrees
  BY DeskInvAgrees
<1> QED
  BY <1>1, <1>2, <1>3, PTL DEF SessionDeskSpec
============================================================================
