# Verification of inventory-list

TLA+ models of the inventory-list backend (Express and PostgreSQL, with a React client), model-checked
with TLC on small instances and proved with TLAPS where that pays. Paths are relative to the repository;
`routes.js`, `crew-auth.js` and so on are files of `backend/src/`, `db/NNN` is `backend/db/NNN_*.sql`.

## The system

A *platoon* (tenant) inventories its equipment. A *leader* (`tenant_admin`) opens a session, imports a
packet of rows, and hands rows to *contributors* or to *crew*: guests who hold a pass for one session.
Workers claim rows and submit proof; leaders approve it, send it back, ask for more, or check the row
themselves. When nothing awaits a decision the session may be closed.

One Node process (or several) serves HTTP. All state is in PostgreSQL under READ COMMITTED.
`db.withTransaction` runs each mutating handler in a transaction; handlers lock the rows they decide on
with `FOR UPDATE`. Two processes run beside it: the provisioning worker, which talks to Authentik, and
the media cleanup.

| Component | State | Operations | Interacts with | Hard part | What makes it correct |
|---|---|---|---|---|---|
| Inventory workflow (`routes.js:6842-9322`, `db/001`, `015`, `025`) | sessions, rows, submissions, evidence requests | create, patch, delete session; add rows; claim, assign, release; match; direct check; submit, withdraw, review, request evidence | crew access (claims, closing), media (photos), saved items | many roles acting on one row; the unlocked count of a delete; a trigger and CHECK constraints that must agree with every handler | the queue shows exactly what awaits a decision; verdicts are final; a closed session is settled; a row's status is backed by its proof |
| Crew access (`crew-auth.js`, `routes.js:6882-7029`, `db/016-018`) | passes, credentials, code reservations, rate buckets | create, enter, revoke, log out, expire, authenticate, close | the workflow: lock and recheck in each guest transaction; claims released when a pass ends | authentication outside the transaction; lazy expiry; late logout after close and reopen; lock order | a pass that is over acts no more and holds nothing; credential and pass agree; limits hold |
| Provisioning (`provisioning.js`, `provisioning-state.js`, `db/019-023`) | jobs, leases, enrollments, reconcile flags | enqueue, claim, work, succeed, fail, retry, reconcile, satisfy from a login | Authentik, memberships, invitations | leases that expire during a call, deliveries whose answer is lost, fencing | one call at a time per job; a job that reports success has done what the membership asks; exactly the emails asked for; every job comes to an end |
| Authentik client (`authentik.js`) | none | HTTP calls | provisioning | lost and late answers | idempotent by id |
| Identity (`auth.js`, `routes.js:917`, `db/021`, `022`) | users and the three columns that bind them to an account | verify a token, find, link or create the user; bind an account beforehand | provisioning, memberships | first requests that race; an email that changes hands | one account, one user; nobody ends in another's user |
| Memberships (`tenant.js`, `routes.js:5487-6415`) | memberships, invitations | invite, accept, revoke, change role, remove | provisioning | last administrator; double acceptance; a role read before the transaction | always an administrator; nobody comes back unasked; a job that succeeded is true |
| Media registry (`media.js`, `cleanup-media.js`, `routes.js:2555-2700, 7726-7895`, `db/011`) | uploads and their state, files | upload, attach, discard, clean up | submissions, saved items, crew quota | a disk that is not transactional; cleanup racing an attachment | attached photos keep their files; late ones go; no file without a row |
| Saved items and history (`inventory-history.js`, `media.js`, `db/024`, `026`) | items, reference photos, links | match, suggest, save, group, link, disclose photos | workflow, media | one set of queries writes a page, another guards its photo URLs | shown is readable; groups are exact; only approved finds are saved |
| Newsletter (`routes.js:3095-3168, 4113-`, `email.js`, `db/004-006`) | subscribers, issues, public updates, deliveries | sign up, approve, edit, publish, deliver | email, its page | publication commits, mailing follows and may stop; the addresses are read once | one copy each, as on record, only to who stood approved when the issue was published |
| Platform administration (`routes.js:4426-4700`) | tenants, with a group and a directory by subdomain | create, reset | Authentik, worker, uploads | three stores, no common transaction, subdomains used again | strangers stay out of a group; files and rows of a platoon stay together, and a reset takes only its own |
| Audit and notifications | append-only rows, mail | record, send | none reads them | none | nothing depends on them |
| Migrations (`migrate.js`) | applied versions | apply | schema | two runners | each migration once, in order |
| React client (`react-app/src`: `lib/auth.js`, `lib/api.js`, `AdminConsole.jsx`) | tokens, lists, forms, refs to what is under way | renew, load, act, fill in | the API | loads that overtake actions and each other; lost answers; several tabs | no needless sign-out; own work is shown; nothing entered is lost; nothing hangs |

## What is modelled

| Module | Models |
|---|---|
| `RowLifecycle` | abstract: what the product promises about one row: open, in review, resolved; sealed sessions |
| `InventoryWorkflow` | the ledger: sessions, rows, submissions; implements `RowLifecycle` |
| `CrewWorkflow` | the ledger composed with crew passes; implements `InventoryWorkflow` |
| `Provisioning` | the provisioning queue: jobs, leases, workers, Authentik, the set-up email |
| `Membership` | memberships and invitations of a platoon, with their jobs |
| `Identity` | whose user is whose: sign-ins, invitations and the worker against `app_users` |
| `Media` | the registry of uploads, the files, the cleanup job |
| `Library` | saved items, approved history, remembered links, disclosed photos |
| `Newsletter` | sign-up, issues, publication, delivery |
| `Workspaces` | creating and resetting a platoon |
| `SessionToken` | the tabs of a browser renewing one session |
| `NewsletterDesk` | the newsletter page; EXTENDS `Newsletter` |
| `SessionDesk` | the dashboard: selector and work queue |
| `ProofForm` | the drawer that uploads photos and submits proof |
| `PeopleDesk` | the team page and its poll |
| `ReviewDesk` | the review queue |
| `LedgerProofs`, `MembershipProofs`, `IdentityProofs`, `ProvisioningProofs`, `AccountsProofs`, `BackgroundProofs`, `RecordsProofs`, `BrowserProofs` | theorems |
| `MC...` | instances for TLC |

`MCAccounts`, `MCRecords`, `MCBackground` and `MCForms` each check two or three modules that
share nothing in one run: the variable `part` is chosen by the initial state, and only that part takes
steps, while the others rest. All but `MCAccounts` EXTEND their modules, whose properties they check as they
are; in `MCAccounts` the variables of a part that rests stay 0 and a property says which part it speaks of.
The fairness of a part is stated again for its steps.

### InventoryWorkflow

State is one function per column the handlers decide on. A UUID is a member of a finite set; a slot that
does not exist has status `"absent"` (rows, submissions) or `"none"` (sessions), SQL `NULL` is `None`.

* `sessStatus`, `completed`: `inventory_sessions.status`, `completed_at IS NOT NULL`.
* `counted`: sessions some DELETE request has counted as empty and not yet deleted: the local variable of
  the handler between its two statements.
* `itemSession`, `itemStatus`, `assignee`, `verified`: columns of `inventory_session_items`. `found`,
  `not_found` and `mismatch` are one value, `"checked"`: no handler treats them differently.
* `match`: the pair `suggested_inventory_item_id`, `inventory_item_id`, as nothing, suggested, confirmed.
  A row keeps a confirmed item when it gets no suggestion; no guard reads it.
* `subItem`, `subBy`, `subState`, `subRoute`: columns of `item_submissions`; `openReq`: whether an
  evidence request of the submission has `resolved_at IS NULL`.

Each handler is one action, because each locks row and session `FOR UPDATE` (`Writable`), then the
submission (`Reviewable`), before it reads what it decides on; the pointer that finds the row of a
submission is read earlier but never changes. The trigger of `db/025` runs inside the statement that
fires it, so `RecordCompletion` is a conjunct of every action that writes a row's status or adds rows.
The DELETE handler is the exception and is two actions. `LedgerNext` groups the actions by the role that
`requireTenantContext` asks for.

Left out: photos and uploads (so a submission never fails for its photos), quantities, names, notes,
audit events, mail. `Approve` with `save` stands for saving the item, of which only the effect on the row
is kept; saving can be refused for reasons outside the model, which only removes behaviours.

### CrewWorkflow

Adds passes. Entering a code always creates a new user, so a pass and its guest are one member of `Crew`.
`grant` and `grantSession` are columns of `session_crew_grants`, `auth` the row of
`session_crew_auth_sessions` (none, live, revoked), `lapsed` whether `expires_at` or the inactivity limit
is past, `authed` the guests with a request that was authenticated and has not reached its transaction.

* `expireCrewAccess` begins the list, the creation and the entering of a code: those actions end *all*
  lapsed passes (`EndGrants(Lapsed, ..)`, `RevokeAuth`, `ReleaseClaims`), as the code does. A request that
  fails after it throws and rolls everything back, except a wrong code, which commits: `ListCrew` stands
  for that one and for the list.
* `CrewWork` is a guest's transaction: `lockActiveCrewAccess` checks the pass again under shared locks,
  `OwnRow` is the check of the row's session. `CrewRefused` drops the request.
* `Close` is the PATCH that closes, with `revokeCrewAccessForSession`; `Delete` the cascade.
* Codes, PIN counters and rate buckets are abstracted: `Consume` is entering the right code,
  `ExhaustAttempts` the wrong code that reaches `maxFailuresPerGrant`.
* A pass that lapsed stays lapsed. In the code a request authenticated in the instant its pass becomes
  inactive may still refresh `last_seen_at`; the model does not revive the pass.

### Provisioning

One person with at most one Authentik account, and several memberships, each in a workspace of its own
with one Authentik group and one job (`tenant_membership_id` is unique, so a job and its membership are
one member of `Jobs`). The workers are the replicas of the backend: `drain` runs one `processNext` at a
time in each.

* `job` is the row of `authentik_provisioning_jobs`, its columns under short names: `required`, `sent`,
  `dispatch`, `resend` for the four `enrollment_*` columns, `wait` for `next_attempt_at` (none, waiting
  out a retry delay or a quiet period, due), `expired` for `lease_expires_at <= now()`. `member` is the
  membership's role and status, `user` the columns of `app_users` that concern the queue (`login`: there
  is an `authentik_subject`; `owner`: `authentik_enrollment_job_id`).
* The lease token is the worker's name, because a worker works on one claim at a time. `target_revision`
  is left out: every statement that advances it also takes the lease away or meets a job without one, so
  a worker whose token still matches has the right revision. `Holds` and `Current` are that fence.
* `account`, `grouped` are what Authentik knows; `flying` the group changes a worker gave up on or died
  in, which may still take effect (`Land`).
* `wk` is the place of each worker in `reconcile` and what it has read and not read again: whether an
  email is wanted, and whether the group held the account (`ensureUserInGroup` decides by the groups that
  `getUserById` returned, calls earlier).
* `credit` counts the emails that may be sent: the first, one per resend, one per retry that acknowledges
  an uncertain email. `NoUnaskedEmail` says that it never goes below zero.

A worker's action is one transaction of the store, or one call to Authentik: `IdentityCall`, `ChangeGroup`
and `Dispatch` send, `IdentityAnswer`, `GroupAnswer` and `EmailAnswer` are the answers: it took effect; it
was refused, for good or for now; there was no answer, and it may have taken effect or still will. The
checks of `external` before a call are in the action that sends, those after it in the action of the
answer: a change between the check and the call is the same to the queue as one during the call. Calls
that only read Authentik, the base group and the creation of the tenant group change nothing the
properties see; that they can fail is in `Refused` and `Lost`. A worker may die at any place (`Crash`) or
stall until its lease runs out (`LeaseRunsOut`) and go on afterwards.

`Timely` is what `docs/authentik-provisioning.md:104` asks of the operator: the lease is longer than the
calls it covers. A lease, or a quiet period of the same length, does not run out while a call made under
it may still take effect. Nothing else in the model depends on time.

Left out: `resolve-identity` and ambiguous or conflicting accounts (to the queue a refusal), the archival
of a tenant, memberships that never had a job, invitations of the older kind and the check for the last
administrator (both are in `Membership`), and a created account that appears after its call was given up
and the next one was made.

### Membership

One platoon. `member`, `job` and `invite` are the rows of `tenant_memberships`,
`authentik_provisioning_jobs` and `tenant_invitations`; `linked` are the users with an account bound to
them, `grouped` the group in Authentik.

* `requireTenantContext` finds the authority of a request before its transaction, and nothing reads it
  again: `Authorise` is a step of its own, and `req` holds the request until its handler acts.
* Removing an administrator is three steps, at its locks: `PatchLock` (the row), `PatchCount` (the tenant,
  then `assertMemberCanLoseAdminRole`), `PatchWrite`. `RowFree` and `TenantFree` are those locks.
* `Accept`, `CreateInvite`, `RevokeInvite`, `Cancel`, ... are one transaction each. `Late` lets an
  invitation expire.
* The worker is as coarse as `Provisioning` allows: what a job was told (`role`, `state`), its step, and
  `again` for the reconcile flag. `Provisioning` has the calls, leases and crashes.

Left out: the directory search, mails, the list of workspaces, the diagnosis of access.

### Identity

`rows` is `app_users`: email, subject, and the two UUID columns, one set by management (an invitation or
the worker), one by a token. A person of Authentik is one value, whether named by subject or UUID;
`Shaped` are those whose subject is written as their UUID.

* A sign-in (`ensureUser`) is `Token`, `Look` (which rows match), `Lock` (the rows, again found), then
  `Link`, `Create` or `Refuse`; `again` is the one retry after a unique violation.
* `Inspect` and `Invite` are the two steps of inviting: the account is found before the transaction.
  `Ask` and `Record` are the worker's. `Rename` is a person of Authentik changing the address.
* `Owned`, `Taken`, `Mismatch` are the trigger of `db/022`, the unique indexes and the CHECK.

Tokens are taken as verified. Rows with the same address in different letter case, which only data from
before the schema can have, are left out.

### Media

`row` is `media_uploads.state` as committed, `file` the disk, which no transaction covers. `upload`,
`take`, `discard` and `sweep` are the requests and the cleanup job, each at the place where it may be
overtaken, fail or crash: an upload writes its file, counts the quota of the pass under a lock, and
registers; a submission locks its photos one after the other in the order of their ids (`First` of those
in `todo`) and attaches them; a DELETE and the job lock, unlink the file, and delete the row. `stray` records
the files
a crash or a failed removal left, which nothing in the code collects.

Left out: a COMMIT whose answer is lost.

### Library

Every read of this component is computed, not stored; so most definitions are functions of the rows,
proof, items and links: `RowsMatch` and `Matches` (`inventory-history.js`, `scoreInventoryItemMatch`),
`Groups` (`buildEquipmentLibraryGroups`), `Disclosed` (what `GET session` shows a guest or member) and
`Serves` (what `authorizedMediaRecord` lets a photo URL serve). Actions are the handlers that write what
these read. Identifiers in a wording are given by `LineLins`, `LineNsns`, and the points words alone earn
by `Wording`: how text is cut into them is not modelled.

`GroupsAreExact` compares the groups built from the few rows the code loads (`Neighborhood`) with those of
all rows. `DisclosedIsReadable` is about guests; a contributor viewing an active session may be
shown history photos whose URL then refuses members, and no document says which of the two is meant.

### Newsletter, NewsletterDesk

`Publish` commits; `Mail` and `Record` then go through the addresses read once, and `Stop` ends the process
between any two. `Outcomes`: a mail is sent, fails, or e-mail is not configured. History: `inbox`, what each
address was mailed; `asked`, who has an approval that is later than the last request and the last withdrawal;
`approvedAt`, what `asked` was when the addresses of an issue were read. `MailedAreApproved` relates the first
to the last: the code decides who is mailed at that moment, and somebody who withdraws while the issue is
being mailed may still get it (`WithdrawnAreLeftOut` is false).

`NewsletterDesk` EXTENDS it with the page of one administrator: `load` is the latest load (earlier ones are
fenced and can no longer change anything), `action` the one change under way, `own` what the page was the
last to change and was told of. `Serve` is the handler of `Newsletter`, so the page runs against the real
routes; a publication is answered when its mailing has ended, and with an error when a row could not be
written (`Mailing`) or the API stopped (`Stopped`). `AnswerLost` is any other answer that does not arrive or
says 5xx, before or after the change took effect: the `catch` shows it and loads nothing, and `own` drops
what the page does not know of. A request that the page has given up and that lands later is a step of
`Elsewhere`, like what other administrators do.

### Workspaces

A platoon is a row (by id), a group and a directory (both by subdomain). `CreateTenant` and its first
administrator's job; the worker's steps at the group (`FindGroup`, `CreateGroup`, `ClaimSetup`,
`AddToGroup`); an upload's (`WriteFile`, `InsertRow`, `UndoFile`); the reset's (`CheckReset` asks
Authentik, `CommitReset` deletes the rows, `RemoveFiles`, `AuditReset`), which may crash in between.
`RemoveGroup` is the operator's script. `MaxCrashes` bounds the crashes. `overtaken` is history: the platoons
that were created with a subdomain while a committed reset had yet to remove its directory (`Clearing`). The
code has no guard there, and `RemoveFiles` takes their first files; `FilesAreKept` says that all other
photos with a row have their file.

### SessionToken

The provider issues access and refresh token with one number; only the last refresh token is good. `call`
is a request of `apiRequest`, `flight` the renewal it started or joined (`refreshAuthSessionOnce`), which
is per tab, while `stored` (localStorage) and `cookie` belong to all tabs. A flight is sent, waits at the
API, is rotated, rejected or unavailable, comes back or is lost.

Signing out forgets the session, waits for the renewal of the tab and asks the API to clear the cookie. The
request may fail (`SignOutFailed`): the page then says "Try signing out again.", and the cookie stays; a tab
that is out, or has failed to be, may be opened anew (`Reopen`), and what it does then is `Restore`. `over` is
history: signed out, not told that it failed, not signed in since. A page that failed to sign out may go on
using the token it holds in memory until that runs out, which changes nothing modelled here.

### SessionDesk, ReviewDesk, PeopleDesk, ProofForm

Four pages of `AdminConsole.jsx`. A page is: what it shows, the latest loads with what the API had read
for them, the actions under way with what their closures captured, the refs that say what is busy, and
the part of the database the page reads. React's effects run after the render that scheduled them (`due`,
`timer`).

* `SessionDesk`: `preferred` is the selector, `selected` the queue's inventory. Loads of the list and of
  the detail are fenced separately, one may be nested in the other. An action keeps the selection of the
  moment it was pressed (`slot`), and may be refused (409), be told that the inventory is gone (404), or lose
  its answer (`AnswerLost`); an assignment then loads the detail after a 409 alone, a withdrawal the list in
  any case, and nothing else loads anything. `own` and `left` are history: the latest change made here, and
  what was closed or deleted here, each only if its answer came; `crossed`, that since the last change of the selector a list or detail was loaded
  again past the chosen inventory (`Crosses`). Only the dashboard; the other uses of `SessionPanel` are not
  modelled.
* `ReviewDesk`: one action per proof (`act`), the form for a reason (`form`), the choice to save an item
  (`keep`), which a load must not overwrite. While the queue is open and without search; which photos are
  chosen is not modelled.
* `PeopleDesk`: `roster` is the list shown, `rosterLoad` the loads that fill it, which are not numbered here. `working` is `memberActionId`, `failures` the counter that
  delays the poll, capped at `FailureCap` (5 in the code). Resending mails, choosing an account and the
  older invitations are not modelled, nor the delay of a retry; of the loads nobody waits for, one is under
  way at a time.
* `ProofForm`: `known` is `uploadedPhotosRef`, `pending` the action, `request` its call; `copy` are the
  rows of `media_uploads`, `accepted` the stored proof. A request or its answer may be lost, an upload may
  be swept. `asked`, `intended` and `lost` are history. Only proof with photos.

In `ReviewDesk`, `PeopleDesk` and `ProofForm` a request that is lost before it reaches the API never lands
late. In `NewsletterDesk` and `SessionDesk` it may: there it is a step of others.

## Runs

| Run | Bounds | Question |
|---|---|---|
| `ledger` | 1 session, 2 rows, 2 submissions, 1 leader, 1 worker | do rows, proof, requests and claims fit together under every order of the handlers; is the life of a row that of `RowLifecycle` |
| `crew` | 2 sessions, 1 row, 1 submission, 2 passes, limit 1 | do passes and credentials agree, end with the session and leave nothing behind; does a late request change anything |
| `accounts` | Membership: 2 people, 1 platform administrator, 1 invitation, 3 requests; Identity: 2 people, 2 addresses, 2 users, 2 sign-ins, 4 moves; Provisioning: 1 job, 2 replicas, 2 roles, 2 attempts, 5 moves, no lost answers | do membership, invitation, job, group and account agree; does nobody gain a user or an access of somebody else's |
| `enrollment` | 2 jobs of one person, 2 replicas, 1 attempt, 3 moves, lost answers | exactly the emails asked for are sent; every job comes to an end |
| `records` | Library: 3 rows in 2 inventories, 3 proofs, 1 saved item; Workspaces: 2 platoons, 1 subdomain, 2 uploads, 1 crash | are shown photos readable, groups exact, saved photos proof; does each platoon keep its group and its files |
| `background` | Media: 3 photos, 1 packet, quota 2, 2 requests, batches of 2, 1 fault; Newsletter: 2 addresses, 1 issue, 1 update, 2 texts, 2 publications, 1 stop; SessionToken: 1 tab, 2 requests, 3 tokens, 2 losses | do registry and disk agree; is what is late swept; is an issue mailed once to everyone approved; is one session renewed without losing it; does signing out end it; does every request end |
| `newsletter_desk` | 1 address, 1 issue, 1 text, 1 publication, 1 renewal of the token, 1 lost answer or stop | is own work shown; does every action end |
| `dashboard` | 2 inventories, 2 actions at once, 3 presses, 1 event | do selector and queue agree and come to rest |
| `forms` | ProofForm: 2 forms, 2 photos, 2 copies, 1 loss, 1 expiry; PeopleDesk: 2 people, 2 actions, 2 losses, cap 2; ReviewDesk: 2 proofs, 3 presses, 2 events | is what was entered kept, and what is there shown |
| `selector_swaps` | 2 inventories, 1 action, 3 presses | violated: see Findings |
| `poll_goes_on` | 1 person, cap 5, 6 losses | violated: see Findings |
| `unrelated_stays_usable` | 2 proofs, 3 presses, 2 events | violated: see Findings |

All runs have `CHECK_DEADLOCK FALSE`: sessions, passes, tokens and platoons that are over are not reused,
and people need not do anything, so a bounded instance stops once its ids or its moves are used up. Where
something has to go on by itself, a liveness property says so instead.

Why the bounds are enough. The handlers relate a row to *its* session and *its* submissions, and a
submission to at most one other of the same row (supersession), so two rows and two submissions already
show a mix of settled and open rows and of old and new proof. Two passes with a limit of one meet it; two
sessions are needed to leave one's own. The constraint `OneOfEach` of `crew` explores two passes with one session, or
one pass with two sessions; the theorems about guests have no such limit. Two people and one platform
administrator are
needed to demote each other at once with a third looking on; two sign-ins, two users and two people are
needed to race for one address and to hand it on. Five moves in the queue are an invitation and four
more: enough for a change during a call, a crash of the worker that made it, a stall of the next one and
another change. `enrollment` needs two jobs, because the email is shared by the jobs of a person, and two
replicas to have both at once; two moves are the invitations, the third is a crash, a stall, a retry, a
resend or a change.

The wordings of `records` are chosen so that every way of matching occurs: by a LIN that two lines share,
by an NSN that only a catalogue item connects, by words alone, by a saved item, by a remembered link.
`LinesOf`, `Named`, `ReportsOf` and `Closable` say which row gets which, and keep the instance to minutes.
Two platoons with one subdomain are the reuse of it. Two requests of `background` list the same
photos in opposite orders. Its browser has one tab: with two the session is lost, see below; two losses (`Losses`)
are a sign-out that fails and a renewal that is lost, or two of either; three tokens are a renewal that the
first request starts and one more, or a new sign-in. `newsletter_desk` runs without SMTP
settings (`MCDesk`): what becomes of the mails is the question of `background`, the page only sees how the
mailing ends; `MaxFailures` bounds the answers that are lost and the stops together. `dashboard` and
`forms` bound what a person presses (`MaxDeskPresses`, `MaxPresses`, `MaxCommands`) and what happens
otherwise (`MaxDeskEvents`, `MaxEvents`, `MaxLosses`, `MaxSpoils`, `MaxExpiries`, `MaxRenewals`): three presses are a choice, an action and one that overtakes it. The cap of failed polls is
2 in `forms` with as many losses, so that the cap is reached and not passed; `poll_goes_on` passes it with
the code's 5.

`SYMMETRY` permutes ids that no definition tells apart (rows, passes, people, slots, replicas, proofs). No
run that checks liveness has it: `forms`, `crew`, `accounts` and `ledger` check invariants and action
properties only. The theorems below remove the bounds for the properties they cover.

What the properties are about is in the comment above each of them, and each property is also run against
a faulty variant of a definition (the sections *Faulty variants* of the modules), where TLC finds it
violated.

### Fairness

None in the ledger, the passes, memberships, users, the library, the platoons and the forms. Every action
there is a request some person may or may not make, or time passing; nothing happens by itself that the
properties need. A lapsed pass that nobody looks at keeps its claims, and that is how the code works.

* `Provisioning!FairSpec` (run `enrollment`): a worker that is somewhere in `processNext` goes on (weak
  fairness: every call has a timeout, and `drain` is started by a timer; a worker that dies leaves by
  `Crash`); a job that is due again and again is claimed (strong fairness: any worker may take it, another
  job may be taken first, and `claimNext` takes the one that has waited longest); delays end, the lease of
  a worker that is gone runs out, and a call that was given up settles. Nothing is assumed of leaders, the
  person, crashes or stalls; `MaxMoves` makes the disturbances finitely many, without which nothing has to
  settle.
* `MediaProgress` (run `background`): a handler that holds locks ends, and the cleanup job is started
  again and again (`docs/deployment-876en.md:145` installs it hourly) and finishes what it locked. The job
  skips locked rows, so its start is strongly fair: photos are locked for moments only.
* `NewsletterProgress`: the loop that mails goes on; that it may end with the process is `Stop`.
* `TokenProgress` (run `background`): a request that was sent is answered, the provider answers a
  renewal that waits, a tab that is leaving leaves. Pressing and expiring are free.
* `DeskProgress` and `SessionDeskSpec` (runs `newsletter_desk`, `dashboard`): loads and actions that were sent
  are answered, or the browser reports that they are not, mailing goes on, and React runs the effects it has
  scheduled. Losing an answer is never required.

## Findings

Shown by a run:

* **Another inventory's action blocks the chosen one** (`selector_swaps`).
  `qa/dashboard-actions.spec.js:654` says that "changing the dashboard selector should replace the queue
  without a second confirmation button". An action reloads the inventory it was pressed for
  (`AdminConsole.jsx:3125`). If another one is chosen meanwhile, the reload selects the old one again or
  takes the place of the load of the new one; nothing then loads what was chosen, and the queue stays at
  "Loading inventory...". The same comes of two closes or deletions that overlap: the first reload misses the
  chosen inventory and asks for it again, the second, for none in particular, overtakes that and selects
  whichever is open, since `missingPreferredRetryRef` says that the chosen one was asked for twice. Both are
  what `crossed` excepts from `ChosenIsShown`.
* **The poll of the team page stops at the sixth failure** (`poll_goes_on`).
  `qa/team-provisioning-poll.spec.js:95` tests that a failure is retried with backoff. The counter is capped
  at 5 (`AdminConsole.jsx:10933`), so the sixth failure sets it to the value it has, React runs no effect,
  and no timer is set.
* **A rejection being explained blocks the queue** (`unrelated_stays_usable`). `docs/ui-task-list.md:22`
  says that review controls "keep unrelated rows usable". When the proof leaves the queue, the form goes
  with it, but `proofRequestOpenRef` (`AdminConsole.jsx:5112`) still names it, and Reject is disabled in
  every row.

Further disagreements are kept as configurations to be run by hand:
`tlc -workers 1 -continue -config X.cfg Module.tla`, where every property listed is violated.

* `RacingRows` (`MCInventoryWorkflow`). *Rows can be added to a closed session*: `POST items`
  (`routes.js:7349`) and `POST items/bulk` (`routes.js:7489`) never read the session's status, while
  `docs/forkable-tasks.md:584` ticks off "Enforce closed-session read-only behavior in both UI controls and
  mutation routes". *A session that is not empty can be deleted*: the DELETE handler counts rows without a
  lock (`routes.js:7291`) and then deletes with a cascade, although it answers "Only empty sessions can be
  deleted" (`routes.js:7308`).
* `LostAnswers` (`MCProvisioning`), property `QuietBeforeOpposite`. When a change is made *during* a call that
  then gets no answer, `processNext` waits for a lease before it starts the opposite call
  (`provisioning.js:1486`; `backend/test/provisioning.test.mjs:1103`). When it is made just *after* the
  timeout, `enqueue` makes the waiting job pending at once (`provisioning.js:287-316`). An `add_user` still
  being worked on can then land after the `remove_user`, and the disabled member stays in the group although
  the job succeeded.
  Property `ResendIsKept`: after a resend with an uncertain answer the leader is told to "retry
  manually if another email is needed" (`provisioning-state.js:45`). The retry restores
  `enrollment_sent_at` from the earlier email (`provisioning.js:739`, `803`) and sends nothing.
* `SecondJobWaits` (`MCProvisioning`). `claimEnrollment` reports an uncertain delivery for any owner with a
  dispatch marker, also one that is running (`provisioning.js:1051-1058`), and the second job fails until a
  leader retries it; `backend/test/provisioning.test.mjs:650`: "a second active job waits while another job
  owns the global enrollment email".
* `LateAccess` (`Membership`). The role of an administrator is read in a query of its own before the
  transaction (`routes.js:3060`), so one who was demoted in between still changes a membership;
  `docs/authentik-provisioning.md:130`: "Confirm tenant API access stops immediately". And revoking an old
  invitation disables the membership without enqueueing a job (`routes.js:6224-6235`): the job puts, or
  leaves, the person in the group and nothing takes them out, although `:66` of the same document speaks
  of removing "disabled memberships from the tenant group".
* `FirstRequests` (`Identity`), property `RacesAreReread`. "A concurrent login may have inserted the subject
  or email [...] Re-read it under lock" (`auth.js:596`): the trigger of `db/022` raises before
  `ON CONFLICT DO NOTHING` can, so the second first request of a person is refused and the re-read is not
  reached.
  Property `NoMixedUser`: an invitation binds the account it found by address to the user with that
  address, without looking at the user's subject (`routes.js:917-933`). If the address has passed on,
  neither person can sign in any more; `docs/authentik-provisioning.md:15` says that addresses are "not safe
  identity keys".
* `TwoTabs` (`SessionToken`), properties `SignOutIsFinal` and `RenewalSurvives`. Signing out cancels a renewal through a variable of the tab
  (`lib/auth.js:246`), so a renewal of another tab stores the session, and sets the cookie, again. And the
  answer to a refused renewal clears the cookie whatever it holds by then (`routes.js:3362`).
  Property `FailedSignOutEnds`: "use [...] the app's sign-out flow when access must end immediately"
  (`docs/authentik-provisioning.md:29`). When its request fails the page forgets the access token and says so
  (`lib/auth.js:158-171`, `AdminConsole.jsx:10800-10816`), the cookie stays, and opening the app again restores
  the session from it (`App.jsx:744-747`).
* `ApprovedGetRows` (`Newsletter`), property of that name. If the process stops while it mails, the rest of the audience gets
  neither mail nor row, and publishing again delivers nothing (`routes.js:4128`); `docs/newsletter-delivery.md:38`
  says that published issues create rows for approved subscribers.
  Property `WithdrawnAreLeftOut`: the addresses are read once, before the first mail (`routes.js:3096-3112`), so
  one that has been told "You have been unsubscribed from the newsletter." (`App.jsx:1377`) while the issue is
  being mailed still gets it.
* `SavedIsShown` (`NewsletterDesk`). Saving starts no load, so a load that began before it is still the latest
  and puts the old text back into the list (`AdminConsole.jsx:5819`; `docs/forkable-tasks.md:970`).
  Property `ChangesAreShown`: a change whose answer is lost ends in a `catch` that shows the error and loads
  nothing (`AdminConsole.jsx:6055`), so the page rests on what was before until its next load.
* `CancelEnds` (`ProofForm`). "Try discard again before closing." (`AdminConsole.jsx:1710`): when a discard took
  effect and its answer was lost, or the upload was swept, every further one is refused, and Discard never
  closes the form.
  Property `DrawerIsStable`: a form that was closed while its request ran calls `closeProof` when it ends,
  whatever item is then in the drawer (`AdminConsole.jsx:3445`; `docs/ui-task-list.md:28`).
* `SlugIsReady` (`Workspaces`). The reset asks Authentik for the group before its transaction
  (`routes.js:4588`) and not again: a worker that had found no group creates it afterwards, tagged with the
  deleted platoon, and a new platoon with the subdomain never gets its own;
  `scripts/production-tenant-reset.mjs:82-92` reports "slug-ready-for-recreation".
  Property `RowsKeepFiles`: the reset "deletes the tenant upload directory" (`docs/deployment-876en.md:303`)
  after its commit and by subdomain (`routes.js:4661`), also the first files of a platoon that was created with
  the subdomain in between.
* `NoDuplicateTaps` (`MCPeopleDesk`). `memberActionId` holds one member: pressing a button of another enables
  those of the first, whose request is still under way (`AdminConsole.jsx:10671`; `docs/ui-task-list.md:266`).

## Proofs

Each theorem holds for every value of the constants, under the assumptions named.

**The ledger** (`LedgerProofs`; `RolesAreDisjoint`, `NoneIsNoId`: NULL is not an id). All
properties of the run `ledger`.

* `LedgerTypeCorrect`, `LedgerInvariant`: `LedgerInv` is the conjunction of all ten invariants. No part but
  a few is inductive alone: that approval leaves no row in the queue needs `OneActionable`; that a
  withdrawal does needs it too; that an approved row keeps its approved proof needs `ReviewQueueExact` (only
  undecided proof changes, and then the row is in the queue); that a close leaves no open request needs
  `RequestsAreLive`; all need `NoOrphans`, because deleting a session deletes through two references. There
  is one lemma per part, with one step per handler; `StepCases` and `QuietCases` first collect the handlers
  that cannot disturb a part. `RowsMatchProofCorrect`, `ReviewQueueCorrect` and `ClosedSettled` are the
  parts a reader will want, by name.
* `NothingReopensCorrect`: an action property, from the same invariant, by the handlers that may write a
  verdict or a row.
* `LedgerImplementsLifecycle`: the initial ledger maps to the initial lifecycle, and every handler to a
  step or a stutter under the mapping that reads the phase of a row off its proof. The invariant says that
  this mapping and the status columns agree.

**Guests** (`LedgerProofs`; also `CrewIsBounded`: finitely many passes, the limit a natural number).
All properties of the run `crew`.

* `CrewInvariant`: types, `CredentialMatchesGrant`, `ClosedHasNoPasses` and the strengthening
  `PassesHaveSession` are inductive together; `PassesAreLimited`, because passes are counted after the
  lapsed ones were ended and with the session locked.
* `CrewImplementsLedger`: every step with passes is a step of the ledger or leaves it alone, so
  `CrewKeepsLedgerInv` holds.
* `PassesLeaveNothingBehind` and `LateChangesNothing`: a claim of a guest is held by a pass that is good and
  of the row's session (`HoldInv`), because whatever ends a pass releases the claims in the same
  transaction; a request is checked again where it acts.

**Memberships** (`MembershipProofs`). `MembersInv` has six parts: `Kinds` (the types), `NamesExist` (who is
named by a request past its check, or by an invitation, is a person), `LocksHold` (a membership that a
request has locked is there until it lets go), `JobsAreBacked` (a job has a membership, and is past the
identity step only for a person with an account), `NoResidualAccess`, `SuccessIsTrue`. Deleting a
membership needs the first four to leave nothing behind; that a success is true needs that whoever
changes a membership either enqueues the job again or meets one that has not succeeded. `CountInv` adds,
for the request that has counted the administrators under the tenant's lock, that another one exists than
the one it removes; finiteness of the people is only used there. Hence `AccessIsTrueCorrect`,
`AlwaysAnAdminCorrect` and `NobodySlipsBackCorrect`.

**Users** (`IdentityProofs`; NULL is not an address). Every step writes at most one row, and a row that is
written claims nobody else's account (`OneRow`): for a sign-in because `Accepts` and the unique indexes
refuse, for the worker and an invitation because of the trigger. `OneOwnerCorrect` follows by induction
(`IdentityInv`), `IdentityIsForeverCorrect` from the same lemma and `Accepts`.

**Jobs** (`ProvisioningProofs`; `ProvisioningAssumption`: at least one attempt and one role, NULL is no job
and no replica). `QueueInv` has five parts: `Kinds` (the types); `Good`, which says of each row by itself
that the constraints of the database hold and that it asks for what its membership is or has the note;
`CallsAreLeased` (who is in a call holds the lease, which has not run out); `EmailOwed` (who is about to
send or to record the email of the job it holds does so for a job that requires one: without it
`recordEnrollmentSent`, which does not look again, could record an email that nobody required); and
`AccountFirst`. First come lemmas on what each statement makes of a row (`RestartedIsSane`,
`SatisfiedIsSane`, `FailedIsSane`, ...), then on the ways a step ends (`QuitIsSound`, `FailIsSound`,
`CallIsSound`, `CompleteIsSound`, ...), then one per action. The argument that replicas do not disturb each
other is in `Sound`: a step changes or gives up its own lease, or takes one that is free or has run out, and
the email passes to nobody or to the job in hand. A lease that runs out is the one step outside of it, and
needs `Timely`. Hence `TargetIsCurrentCorrect` and `JobsAreSoundCorrect`.

**Emails and groups** (`ProvisioningProofs`, from `QueueInv`).

* `EmailsAreAskedCorrect`: `MailInv` counts what may still be sent. `CreditCovers`: the credit is at least
  the resends asked for and not under way, and one more while no email was ever sent or is under way; so a
  worker that dispatches has credit for it. `InPlace` says what each worker in the email step knows,
  `DispatchIsOwned` that a job with a marker is the owner of the email, which is why two jobs of a
  person do not both count as the first.
* `SettledIsAppliedCorrect`, ASSUME `~Lossy`: while Authentik answers each call whose worker lives to hear it,
  a job that is complete has the account in the group just if the membership is active. `Applied` says what
  each step of a job says of the group; `Guided`, what its worker has read and not read again; `Adrift`, that a
  change whose worker died was the last thing done for its job, whose lease outlives it (`Timely`): the next
  worker starts after it has landed. With lost answers the property is false: see `LostAnswers`.

`AccountsProofs` carries these eight over to the specification of the run `accounts`.

**Media** (`BackgroundProofs`; `MediaAssumption`: ids are compared as numbers, a pass has finitely many
uploads, what requests list are photos). The safety properties of `Media`. `MediaInv` says of each upload how
far its request, its row and its file are (`Registered`), and that a lock is exclusive and on a staged row
(`Gripped`); of each submission that it locks in the order of the ids (`InOrder`), from which no two wait for
each other; and that of the uploads of a pass one at most has counted and there is room for it
(`RoomForOne`), without which `QuotaKept` is not inductive: counting and registering are two steps.
`UsedForGoodCorrect` follows because attaching, discarding and sweeping all need the lock of a staged row.

**Newsletter** (`BackgroundProofs`; `NewsletterAssumption`). `NewsletterInv`: the request that mails an issue
has the text the issue was published with, and has mailed nobody who is still to be served but the address
whose row it is about to write (`Addressed`, `Awaiting`); what was mailed is on record (`OnRecord`), up to a
stop between the mail and its row; who is active has an approval that nothing came after
(`ActiveWereAsked`), so everyone an issue is addressed to stood approved when it was published. Hence
`IssuesAreHonestCorrect`.

**The newsletter page** (`BackgroundProofs`; `DeskAssumption`: an issue is not an address).
`PageIsNewsletter`: whatever the page, the API and others do is a step of `Newsletter` or none, so
`NewsletterInv` holds there too. `PageInv`: what the page was the last to change is shown as it is, and what
a load has read and not yet shown agrees with it (`EmailShown`, `IssueShown`), unless its own action has
still to put it in. Every change but a saved text starts a load that supersedes the one under way; a saved
issue is still a draft or somebody else's work by then (`SavedIsDraft`), which is why `OwnWorkIsShownCorrect`
excepts drafts and `SavedIsShown` is false.

**Staying signed in** (`BrowserProofs`; `TokenAssumption`: a token may be issued). The types and
`NoNeedlessSignOutCorrect` hold for any number of tabs: a 401 drops the token it was for, and only where that
one is stored. `SignedInOrOutCorrect` is stated for one tab, because two renew past each other and sign each
other out (`TwoTabs`); the number of its requests is arbitrary. `SessionInv`: a tab has at most one renewal
under way (`OneFlight`), and by its phase the cookie holds the good token, or the answer on its way does
(`GoodIsKept`); who is signing out has cancelled the renewal and waits for it (`Cancelled`).

**The proof drawer** (`BrowserProofs`; `ProofFormAssumption`: a form has a number other than 0, the bound on
uploads is a natural number). `ProofFormInv` says of each form: its request belongs to its action
(`RequestFits`), and what is still to do is what it shows (`TodoFits`), because nothing can be chosen or
removed meanwhile; what an answer says has been done (`AnswerIsTrue`); every staged upload is known to the
form, or is in the answer on its way, or had its answer lost (`StagedIsTraced`), from which cancelling leaves
nothing else behind; a stored proof is whole and has its photos for itself (`StoredIsWhole`), because an
upload is attached once. Hence `PhotosAreKeptCorrect`, for any number of forms, photos, failures and sweeps.

**The list of people** (`BrowserProofs`; `PeopleAssumption`). `PeopleInv`: a timer is set only where the list has
somebody to wait for (`TimerFits`), a command that waits for a load has one (`CommandsWait`), and `PollOrCap`:
the poll goes on, or the counter of failures is at its cap and more requests than that have failed. Each step
is shown to set the timer, to leave it alone, to stop it with a command in hand, or to reach the cap; the
invariant follows from that alone. `PollGoesOnBelowCap` is true of every instance, `PollGoesOnCorrect` of
those where `MaxLosses <= FailureCap`, as in `forms`; without it the property is false (`poll_goes_on`).

**The review queue** (`BrowserProofs`; `ReviewDeskAssumption`: NULL is no proof). `ReviewInv`: one load is fresh
(`OneIsFresh`); what the page has shown and shows no more was decided or withdrawn (`SeenIsThere`), and so it
is in an answer that will be shown (`AnswerFits`): from these a decided proof does not come back
(`ResolvedStaysGoneCorrect`); the last choice for an item is in the form and in the request until the verdict
(`ChoiceIsKept`), hence `InputIsKeptCorrect`.

**The dashboard** (`BrowserProofs`; `SessionDeskAssumption`: the selector's "none" is no
inventory, and the page is opened on inventories that are not there, open or closed).
`DashboardAgrees` speaks of the page at rest; `DeskInv` says of every other moment who is going to make it
true. A shown or a read detail is as new as the last change made here, or an action that still has to settle,
a list load or a later detail will replace it (`ReadIsNew`, `ShownIsNew`); what was closed or deleted here is
in no list that is read as open, and selector and queue leave it with the next one (`LeftIsLeft`); a list load
asks for the chosen inventory, or is to ask for it again (`AsksForChosen`), so that the chosen one is selected
or will be (`ChosenIsSelected`), and shown or will be (`SelectedIsShown`). A failed load or a crossing reload
are the exceptions in each. Two lemmas carry most steps: a list load that starts makes everything that was
wrong something that will be put right (`StartKeeps`), and a step that leaves loads and detail alone keeps all
of it (`RestsKeep`). The proof found that `crossed` had to cover what it covers now: with two closes that
overlap, `ChosenIsShown` was false in instances larger than that of the run.

**Platoons** (`RecordsProofs`; `WorkspacesAssumption`). `WorkspacesInv`: who is in a group was put there by the
worker of the platoon it is tagged with (`StrangersKeepOut`, `InStep`); a file whose upload is over
has its row, or a reset that has yet to remove it (`Kept`); and, for the other direction, a photo that has its
row, or is about to get it, has its file unless its platoon was overtaken (`Safe`). That holds because a
directory about to be removed is that of no other living platoon (`Apart`): when a reset commits, its platoon
is the only one of the subdomain, and one that is created before the removal is what `overtaken` records.
Hence `NothingIsSharedCorrect`.

**Saved items and history** (`RecordsProofs`; `LibraryAssumption`: finitely many identifiers, every wording has
a sequence of them, NULL is no row).

* `SavedPhotosAreProofCorrect`: the property is its own invariant, with the types. What is approved stays
  approved and a row keeps the item it was linked to (`Standing`, which every handler but the saving one
  obeys), and saving takes only approved finds of rows linked to the item.
* `GroupsAreExactCorrect` is about the queries. `TargetsAreExact`: the groups of a few target rows, built from
  what the two hops around them load, are the groups of the whole approved history. Which group an
  observation is in depends on others only through the NSNs its LIN stands for (`SameIdentity`), and the hops
  reach every observation that has a say in that (`HopsReach`, `LinsAreRead`). That no group holds two NSNs,
  and that an unlinked line has no history, follow from how an identity is chosen.
* `DisclosedIsReadableCorrect`: each way a photo gets onto a page (a match, a saved item, a remembered link)
  is one of the ways `authorizedMediaRecord` looks for it: it matches rows from the other side
  (`MatchingIsMutual`), and rebuilds the group behind a remembered link for the one photo, which is in it
  whenever it is in that of the whole history (`AliasReaches`).

Only model-checked: all liveness (`EveryJobSettles`, `LateIsSwept`, `EveryoneIsServed`, `NothingHangs`,
`DeskSettles`), which is out of the prover's reach. Every invariant and every action property of a passing run
is proved: `PollGoesOn` and `SettledIsApplied` under the assumptions named above, `SignedInOrOut` for one tab.

## What is left

1. The codes of crew passes: reservations, PIN counters, rate buckets and their windows.
2. Locks: lock-level steps of the guest handlers, the close and the platoon reset, whose orders differ
   (`crew-auth.js:522`, `394`); here each handler is one step.
3. Settings and archival of a platoon; the guest's page; the import of a packet.

Not to be modelled: packet parsing, OCR and search (heuristics over text, which have no specification
short of themselves), rendering, mail formatting, the audit log (nothing reads it), the migration runner
(runs before the service, under a lock), the legacy static site, scripts and QA.
