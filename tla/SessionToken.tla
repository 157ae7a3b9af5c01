---------------------------- MODULE SessionToken ----------------------------
(***************************************************************************)
(* Staying signed in: the tabs of one browser, each with several requests  *)
(* under way, renew an access token with a rotating refresh token that the *)
(* API keeps in a cookie (react-app/src/lib/auth.js, lib/api.js; auth.js   *)
(* and routes.js of the backend).                                          *)
(*                                                                         *)
(* Tokens are numbers: the provider issues access token n and refresh      *)
(* token n together, and only the last refresh token is good.  Number 0 is *)
(* no token.                                                               *)
(***************************************************************************)
EXTENDS Naturals, FiniteSets

CONSTANTS
  Tabs,     \* tabs of one origin: they share localStorage and the cookie
  Lanes,    \* requests a tab may have under way
  MaxToken, \* bound: tokens issued
  Losses    \* bound: answers to a renewal or a sign-out that are lost or say 5xx

ASSUME TokenAssumption == MaxToken \in Nat \ {0} /\ Losses \in Nat

VARIABLES
  stored,    \* the access token in localStorage
  cookie,    \* the refresh token in the cookie
  good,      \* the provider's: the refresh token that is good
  issued,    \* the provider's: the last token issued
  expired,   \* access tokens that are over
  call,      \* per request: the token sent, whether a 401 may be retried
  flight,    \* per request: the renewal it started, if any
  page,      \* per tab: open, leaving (signing out), out, or failed to sign out
  reconnect, \* per tab: reconnectRequired
  over,      \* history: the user signed out, was not told that it failed, and has
             \* not signed in again
  losses

vars == <<stored, cookie, good, issued, expired, call, flight, page,
          reconnect, over, losses>>

Calls == Tabs \X Lanes
Tab(c) == c[1]
NoOne == <<>>
NoCall == [at |-> "idle", token |-> 0, retry |-> TRUE, on |-> NoOne]
NoFlight == [at |-> "none", with |-> 0, was |-> 0, result |-> "none",
             token |-> 0, cancelled |-> FALSE]

TokenTypeOK ==
  /\ {stored, cookie} \subseteq 0..issued /\ good \in 1..issued /\ issued \in 1..MaxToken
  /\ expired \subseteq 1..issued
  /\ call \in [Calls -> [at: {"idle", "renewing", "sent"}, token: 0..issued,
                         retry: BOOLEAN, on: Calls \cup {NoOne}]]
  /\ flight \in [Calls -> [at: {"none", "sent", "server", "back"},
                           with: 0..issued, was: 0..issued,
                           result: {"none", "renewed", "rejected", "unavailable"},
                           token: 0..issued, cancelled: BOOLEAN]]
  /\ page \in [Tabs -> {"open", "leaving", "out", "failed"}]
  /\ reconnect \in [Tabs -> BOOLEAN] /\ over \in BOOLEAN
  /\ losses \in 0..Losses

\* Signed in, in every tab, with a token that can be renewed.
Init ==
  /\ stored = 1 /\ cookie = 1 /\ good = 1 /\ issued = 1 /\ expired = {}
  /\ call = [c \in Calls |-> NoCall] /\ flight = [c \in Calls |-> NoFlight]
  /\ page = [t \in Tabs |-> "open"] /\ reconnect = [t \in Tabs |-> FALSE]
  /\ over = FALSE /\ losses = 0

-----------------------------------------------------------------------------
(***************************************************************************)
(* Faulty variants.  No specification uses them.                           *)
(***************************************************************************)
NeverJoins(c) == {}
IgnoresGeneration(f) == TRUE
InvalidatesAny(token) == stored # 0
TellsOwner(c, ok, token) ==
  call' = [call EXCEPT ![c] =
    IF ok THEN [@ EXCEPT !.at = "sent", !.token = token, !.on = NoOne]
    ELSE NoCall]

-----------------------------------------------------------------------------
(***************************************************************************)
(* Renewal: refreshAuthSession.  A tab has one flight; who needs one while *)
(* it is under way waits for it.                                           *)
(***************************************************************************)
Flights(t) == {c \in Calls : Tab(c) = t /\ flight[c].at # "none"}
Joins(c) == Flights(Tab(c))
Waiter(d, retry) == [at |-> "renewing", token |-> 0, retry |-> retry, on |-> d]
NewFlight == [at |-> "sent", with |-> cookie, was |-> stored, result |-> "none",
              token |-> 0, cancelled |-> FALSE]
Renewing(c, retry) ==
  /\ page[Tab(c)] = "open"
  /\ IF Joins(c) # {}
     THEN /\ \E d \in Joins(c) : call' = [call EXCEPT ![c] = Waiter(d, retry)]
          /\ UNCHANGED flight
     ELSE /\ flight[c].at = "none"
          /\ call' = [call EXCEPT ![c] = Waiter(c, retry)]
          /\ flight' = [flight EXCEPT ![c] = NewFlight]

\* The API joins requests that present the same token while the provider
\* has not answered; the provider rotates the token it is given.
Arrive(c) ==
  /\ flight[c].at = "sent"
  /\ flight' = [flight EXCEPT ![c].at = "server"]
  /\ UNCHANGED <<stored, cookie, good, issued, expired, call, page, reconnect,
                 losses, over>>
Answered(with, result, token) ==
  flight' = [c \in Calls |->
    IF flight[c].at = "server" /\ flight[c].with = with
    THEN [flight[c] EXCEPT !.at = "back", !.result = result, !.token = token]
    ELSE flight[c]]
Waiting(with) == \E c \in Calls : flight[c].at = "server" /\ flight[c].with = with
Rotate(with) ==
  /\ Waiting(with) /\ with # 0 /\ with = good /\ issued < MaxToken
  /\ issued' = issued + 1 /\ good' = issued + 1
  /\ Answered(with, "renewed", issued + 1)
  /\ UNCHANGED <<stored, cookie, expired, call, page, reconnect, losses, over>>
Reject(with) ==
  /\ Waiting(with) /\ (with = 0 \/ with # good)
  /\ Answered(with, "rejected", 0)
  /\ UNCHANGED <<stored, cookie, good, issued, expired, call, page, reconnect,
                 losses, over>>
Unavailable(with) ==
  /\ Waiting(with)
  /\ \/ losses < Losses /\ losses' = losses + 1
     \/ issued = MaxToken /\ UNCHANGED losses
  /\ Answered(with, "unavailable", 0)
  /\ UNCHANGED <<stored, cookie, good, issued, expired, call, page, reconnect,
                 over>>

\* The answer reaches the browser, which takes the cookie, and the tab.
Dropped(token) == stored # 0 /\ stored = token
Kept(f) == ~f.cancelled
Told(c, ok, token) ==
  call' = [d \in Calls |->
    IF call[d].at = "renewing" /\ call[d].on = c
    THEN IF ok THEN [call[d] EXCEPT !.at = "sent", !.token = token, !.on = NoOne]
         ELSE NoCall
    ELSE call[d]]
Landed(c) == flight[c].token
Renewed(c) ==
  LET f == flight[c] IN
  /\ f.at = "back" /\ f.result = "renewed"
  /\ cookie' = f.token
  /\ IF Kept(f)
     THEN /\ stored' = Landed(c) /\ Told(c, TRUE, f.token)
          /\ page' = [page EXCEPT ![Tab(c)] = "open"]
          /\ reconnect' = [reconnect EXCEPT ![Tab(c)] = FALSE]
     ELSE Told(c, FALSE, 0) /\ UNCHANGED <<stored, page, reconnect>>
  /\ flight' = [flight EXCEPT ![c] = NoFlight]
  /\ UNCHANGED <<good, issued, expired, losses, over>>
NotRenewed(c) ==
  LET f == flight[c]
      ends == f.result = "rejected" /\ Dropped(f.was)
  IN
  /\ f.at = "back" /\ f.result \in {"rejected", "unavailable"}
  /\ cookie' = IF f.result = "rejected" /\ f.with # 0 THEN 0 ELSE cookie
  /\ stored' = IF ends THEN 0 ELSE stored
  /\ reconnect' = IF ends THEN [reconnect EXCEPT ![Tab(c)] = TRUE] ELSE reconnect
  /\ Told(c, FALSE, 0)
  /\ flight' = [flight EXCEPT ![c] = NoFlight]
  /\ UNCHANGED <<good, issued, expired, page, losses, over>>

\* The answer is lost on its way: the tab sees a network error.
Lost(c) ==
  /\ flight[c].at = "back" /\ losses < Losses /\ losses' = losses + 1
  /\ Told(c, FALSE, 0)
  /\ flight' = [flight EXCEPT ![c] = NoFlight]
  /\ UNCHANGED <<stored, cookie, good, issued, expired, page, reconnect,
                 over>>

-----------------------------------------------------------------------------
(***************************************************************************)
(* Requests: apiRequest.                                                   *)
(***************************************************************************)
Idle(c) == call[c].at = "idle" /\ flight[c].at = "none"
Rest == UNCHANGED <<cookie, good, issued, expired, page, losses, over>>

Send(c) ==
  /\ Idle(c) /\ page[Tab(c)] = "open" /\ ~reconnect[Tab(c)] /\ stored # 0
  /\ IF stored \in expired THEN Renewing(c, TRUE)
     ELSE /\ call' = [call EXCEPT ![c] =
               [at |-> "sent", token |-> stored, retry |-> TRUE, on |-> NoOne]]
          /\ UNCHANGED flight
  /\ UNCHANGED <<stored, reconnect>> /\ Rest

\* The renewal timer, the restoring of a session when a page is opened, and
\* the dialog that reconnects.
Restore(c) ==
  /\ Idle(c) /\ Renewing(c, FALSE)
  /\ UNCHANGED <<stored, reconnect>> /\ Rest

Succeed(c) ==
  /\ call[c].at = "sent" /\ call[c].token \notin expired
  /\ call' = [call EXCEPT ![c] = NoCall]
  /\ UNCHANGED <<stored, flight, reconnect>> /\ Rest

\* 401.  Another token was stored meanwhile: try it; the stored one was
\* sent: renew it; once only.  Otherwise drop it, if it is still stored.
Unauthorized(c) ==
  LET token == call[c].token
      other == stored \notin {0, token}
  IN
  /\ call[c].at = "sent" /\ token \in expired
  /\ IF call[c].retry /\ other
     THEN /\ call' = [call EXCEPT ![c].token = stored, ![c].retry = FALSE]
          /\ UNCHANGED <<stored, flight, reconnect>>
     ELSE IF call[c].retry /\ stored = token
     THEN /\ IF page[Tab(c)] = "open" THEN Renewing(c, FALSE)
             ELSE call' = [call EXCEPT ![c] = NoCall] /\ UNCHANGED flight
          /\ UNCHANGED <<stored, reconnect>>
     ELSE /\ call' = [call EXCEPT ![c] = NoCall]
          /\ stored' = IF Dropped(token) THEN 0 ELSE stored
          /\ reconnect' = IF Dropped(token)
                          THEN [reconnect EXCEPT ![Tab(c)] = TRUE] ELSE reconnect
          /\ UNCHANGED flight
  /\ Rest

TokenExpires ==
  /\ stored # 0 /\ stored \notin expired
  /\ expired' = expired \cup {stored}
  /\ UNCHANGED <<stored, cookie, good, issued, call, flight, page, reconnect,
                 losses, over>>

-----------------------------------------------------------------------------
(***************************************************************************)
(* Signing in and out.                                                     *)
(***************************************************************************)

\* endOidcSession: the tab forgets the session, waits for the renewal it
\* may have under way, and has the API clear the cookie.  If that fails the page
\* says so, and the cookie stays: the user may try again.
SignOut(t) ==
  /\ (page[t] = "open" /\ stored # 0) \/ page[t] = "failed"
  /\ stored' = 0
  /\ page' = [page EXCEPT ![t] = "leaving"] /\ over' = TRUE
  /\ reconnect' = [reconnect EXCEPT ![t] = FALSE]
  /\ flight' = [c \in Calls |->
       IF c \in Flights(t) THEN [flight[c] EXCEPT !.cancelled = TRUE]
       ELSE flight[c]]
  /\ UNCHANGED <<cookie, good, issued, expired, call, losses>>
Awaited(t) == Flights(t)
Leaves(t, to) ==
  /\ page[t] = "leaving" /\ Awaited(t) = {} /\ stored' = 0
  /\ page' = [page EXCEPT ![t] = to]
  /\ reconnect' = [reconnect EXCEPT ![t] = FALSE]
  /\ UNCHANGED <<good, issued, expired, call, flight>>
SignedOut(t) == Leaves(t, "out") /\ cookie' = 0 /\ UNCHANGED <<losses, over>>
SignOutFailed(t) ==
  /\ losses < Losses /\ losses' = losses + 1
  /\ Leaves(t, "failed") /\ over' = FALSE /\ UNCHANGED cookie

\* The page is loaded again; what it does then is Restore.
Reopen(t) ==
  /\ page[t] \in {"out", "failed"} /\ \A c \in Calls : Tab(c) = t => Idle(c)
  /\ page' = [page EXCEPT ![t] = "open"]
  /\ reconnect' = [reconnect EXCEPT ![t] = FALSE]
  /\ UNCHANGED <<stored, cookie, good, issued, expired, call, flight, over, losses>>

\* A redirect to the provider and back leaves nothing of the tab under way;
\* nobody signs in while signing out.
SignIn(t) ==
  /\ issued < MaxToken /\ stored = 0 /\ \A u \in Tabs : page[u] # "leaving"
  /\ \A c \in Calls : Tab(c) = t => Idle(c)
  /\ issued' = issued + 1 /\ good' = issued + 1
  /\ stored' = issued + 1 /\ cookie' = issued + 1
  /\ page' = [page EXCEPT ![t] = "open"] /\ over' = FALSE
  /\ reconnect' = [reconnect EXCEPT ![t] = FALSE]
  /\ UNCHANGED <<expired, call, flight, losses>>

CallStep(c) == Send(c) \/ Restore(c) \/ Succeed(c) \/ Unauthorized(c)
FlightStep(c) == Arrive(c) \/ Renewed(c) \/ NotRenewed(c) \/ Lost(c)
Provider(with) == Rotate(with) \/ Reject(with) \/ Unavailable(with)
TabStep(t) ==
  SignOut(t) \/ SignedOut(t) \/ SignOutFailed(t) \/ Reopen(t) \/ SignIn(t)
Next ==
  \/ \E c \in Calls : CallStep(c) \/ FlightStep(c)
  \/ \E with \in 0..issued : Provider(with)
  \/ \E t \in Tabs : TabStep(t)
  \/ TokenExpires
Spec == Init /\ [][Next]_vars

\* The network and the API answer, or the browser reports that they do not;
\* nobody has to do anything.
Progress(c) == FlightStep(c) \/ Succeed(c) \/ Unauthorized(c)
TokenProgress ==
  /\ \A c \in Calls : WF_vars(Progress(c))
  /\ \A with \in 0..MaxToken : WF_vars(Provider(with))
  /\ \A t \in Tabs : WF_vars(SignedOut(t))

-----------------------------------------------------------------------------
(***************************************************************************)
(* Properties.                                                             *)
(***************************************************************************)

\* Between renewals the cookie holds the refresh token that is good:
\* requests that find the token expired at the same time do not spend one
\* token twice.  An answer that was lost is the exception.
RenewalSurvives ==
  losses = 0 /\ ~over /\ (\A c \in Calls : flight[c].at = "none")
    => cookie = good

\* After signing out nothing brings the session back, neither a renewal that
\* was under way nor a late answer to a request, nor opening the app again.  A
\* sign-out that failed does not count: the user was told to try again, and the
\* cookie still holds the session (FailedSignOutEnds).
SignOutIsFinal ==
  over => /\ stored = 0
          /\ (\A t \in Tabs : page[t] # "leaving") => cookie = 0

\* "Use [...] the app's sign-out flow when access must end immediately"
\* (docs/authentik-provisioning.md:29), also when its request fails.
FailedSignOutEnds == \A t \in Tabs : page[t] = "failed" => cookie = 0

\* Signed in means able to renew, signed out means nothing is left.
SignedInOrOut == TokenTypeOK /\ RenewalSurvives /\ SignOutIsFinal

\* Nothing hangs: every request ends, also one that waits for a renewal, and so
\* does the sign-out that waits for one.
NothingHangs ==
  /\ \A c \in Calls : []<>(call[c].at = "idle")
  /\ \A t \in Tabs : []<>(page[t] # "leaving")

\* A session whose access token still works is dropped by signing out, or by
\* a refused renewal, and never by a late 401 for an older token.
NoNeedlessSignOut ==
  [][stored # 0 /\ stored \notin expired /\ stored' = 0 =>
       \/ \E t \in Tabs : page[t] # page'[t] /\ page'[t] \in {"leaving", "out", "failed"}
       \/ \E c \in Calls : flight[c].result = "rejected" /\ flight'[c].at = "none"]_vars
=============================================================================
