----------------------------- MODULE Workspaces -----------------------------
(***************************************************************************)
(* Platoons: how a platform administrator creates one and resets           *)
(* (deletes) one (routes.js 4426-4696), while the provisioning worker      *)
(* handles the setup of its administrator and photos are uploaded to it.   *)
(*                                                                         *)
(* A platoon lives in three places that no transaction spans: the database *)
(* (by id), the Authentik group and the storage directory (both by         *)
(* subdomain, which a later platoon may use again).                        *)
(***************************************************************************)
EXTENDS Naturals, FiniteSets

CONSTANTS
  Tenants,    \* ids; each is used for one platoon
  Slugs,      \* subdomains
  Uploads,    \* photo uploads
  MaxCrashes  \* bound: crashes of the API during a reset

NoTenant == 0
ASSUME WorkspacesAssumption ==
  NoTenant \notin Tenants /\ Slugs # {} /\ MaxCrashes \in Nat

VARIABLES
  tenant,     \* tenants: "none", "live", "gone", and the subdomain
  group,      \* Authentik: by subdomain, the platoon in the group's tags, 0: no group
  holders,    \* Authentik: whose administrators are in the group
  setup,      \* provisioning_jobs: the job of the platoon's first administrator
  worker,     \* how far a worker is with that job, and the group it was given
  upload,     \* how far each upload is, and for which platoon
  stored,     \* media_uploads: the uploads that have a row
  disk,       \* the uploads whose file is in the storage directory
  reset,      \* how far the reset of a platoon is
  overtaken,  \* history: platoons created before the files of the last one were removed
  crashes

workspaceVars ==
  <<tenant, group, holders, setup, worker, upload, stored, disk, reset, overtaken, crashes>>

Live(t) == tenant[t].state = "live"
SlugOf(t) == tenant[t].slug

WorkspacesTypeOK ==
  /\ tenant \in [Tenants -> [state: {"none", "live", "gone"}, slug: Slugs]]
  /\ group \in [Slugs -> Tenants \cup {NoTenant}] /\ holders \in [Slugs -> SUBSET Tenants]
  /\ setup \in [Tenants -> {"none", "queued", "claimed", "done", "failed"}]
  /\ worker \in [Tenants -> [at: {"idle", "find", "create", "add", "finish"},
                            into: Tenants \cup {NoTenant}]]
  /\ upload \in [Uploads -> [at: {"none", "write", "insert", "undo", "done"},
                            of: Tenants \cup {NoTenant}]]
  /\ reset \in [Tenants -> {"none", "checked", "files", "audit", "done", "stopped"}]
  /\ \A t, u \in Tenants : Live(t) /\ Live(u) /\ SlugOf(u) = SlugOf(t) => u = t
  /\ stored \subseteq Uploads /\ disk \subseteq Uploads
  /\ overtaken \subseteq Tenants /\ crashes \in 0..MaxCrashes

WorkspacesInit ==
  /\ tenant = [t \in Tenants |-> [state |-> "none", slug |-> CHOOSE s \in Slugs : TRUE]]
  /\ group = [s \in Slugs |-> NoTenant] /\ holders = [s \in Slugs |-> {}]
  /\ setup = [t \in Tenants |-> "none"] /\ worker = [t \in Tenants |-> [at |-> "idle", into |-> NoTenant]]
  /\ upload = [u \in Uploads |-> [at |-> "none", of |-> NoTenant]]
  /\ stored = {} /\ disk = {}
  /\ reset = [t \in Tenants |-> "none"] /\ overtaken = {} /\ crashes = 0

-----------------------------------------------------------------------------
(***************************************************************************)
(* POST /api/platform/tenants: with or without a first administrator.      *)
(***************************************************************************)
SlugFree(s) == \A t \in Tenants : Live(t) => SlugOf(t) # s
\* A reset has committed and is yet to remove the directory of the subdomain.
Clearing(s) == \E v \in Tenants : reset[v] = "files" /\ SlugOf(v) = s
CreateTenant(t, s, withAdmin) ==
  /\ tenant[t].state = "none" /\ SlugFree(s)
  /\ tenant' = [tenant EXCEPT ![t] = [state |-> "live", slug |-> s]]
  /\ setup' = [setup EXCEPT ![t] = IF withAdmin THEN "queued" ELSE "none"]
  /\ overtaken' = IF Clearing(s) THEN overtaken \cup {t} ELSE overtaken
  /\ UNCHANGED <<group, holders, worker, upload, stored, disk, reset, crashes>>

-----------------------------------------------------------------------------
(***************************************************************************)
(* DELETE /api/platform/tenants/:tenantId.  The group must be gone; this is *)
(* asked of Authentik before the transaction.                              *)
(***************************************************************************)
\* Faulty: the files are removed before the transaction.
RemovesFirst(t) ==
  /\ tenant[t].state = "live" /\ reset[t] = "none" /\ group[tenant[t].slug] = NoTenant
  /\ disk' = {u \in disk : upload[u].of = NoTenant \/ tenant[upload[u].of].slug # tenant[t].slug}
  /\ reset' = [reset EXCEPT ![t] = "checked"]
  /\ UNCHANGED <<tenant, group, holders, setup, worker, upload, stored, overtaken, crashes>>
GroupRemoved(t) == group[SlugOf(t)] = NoTenant
CheckReset(t) ==
  /\ Live(t) /\ reset[t] = "none" /\ GroupRemoved(t)
  /\ reset' = [reset EXCEPT ![t] = "checked"]
  /\ UNCHANGED <<tenant, group, holders, setup, worker, upload, stored, disk, overtaken, crashes>>

RowsOf(t) == {u \in Uploads : upload[u].of = t}
\* The transaction: everything the platoon has in the database goes with it.
CommitReset(t) ==
  /\ reset[t] = "checked"
  /\ tenant' = [tenant EXCEPT ![t].state = "gone"]
  /\ setup' = [setup EXCEPT ![t] = "none"]
  /\ stored' = stored \ RowsOf(t)
  /\ reset' = [reset EXCEPT ![t] = "files"]
  /\ UNCHANGED <<group, holders, worker, upload, disk, overtaken, crashes>>

\* fs.rm of the directory of the subdomain; a failure is recorded only.
InDirectory(s) == {u \in disk : upload[u].of # NoTenant /\ SlugOf(upload[u].of) = s}
RemoveFiles(t) ==
  /\ reset[t] = "files" /\ disk' = disk \ InDirectory(SlugOf(t))
  /\ reset' = [reset EXCEPT ![t] = "audit"]
  /\ UNCHANGED <<tenant, group, holders, setup, worker, upload, stored, overtaken, crashes>>
AuditReset(t) ==
  /\ reset[t] = "audit" /\ reset' = [reset EXCEPT ![t] = "done"]
  /\ UNCHANGED <<tenant, group, holders, setup, worker, upload, stored, disk, overtaken, crashes>>
\* The API stops, or the directory cannot be removed.
StopReset(t) ==
  /\ reset[t] \in {"checked", "files", "audit"}
  /\ crashes < MaxCrashes /\ crashes' = crashes + 1
  /\ reset' = [reset EXCEPT ![t] = IF Live(t) THEN "none" ELSE "stopped"]
  /\ UNCHANGED <<tenant, group, holders, setup, worker, upload, stored, disk, overtaken>>

\* The operator's script removes the group first, if its tags name the platoon.
RemoveGroup(t) ==
  /\ Live(t) /\ group[SlugOf(t)] = t
  /\ group' = [group EXCEPT ![SlugOf(t)] = NoTenant]
  /\ holders' = [holders EXCEPT ![SlugOf(t)] = {}]
  /\ UNCHANGED <<tenant, setup, worker, upload, stored, disk, reset, overtaken, crashes>>

-----------------------------------------------------------------------------
(***************************************************************************)
(* The worker.  It keeps the subdomain it read with the job, renews the    *)
(* lease before every call, and stops when the job is gone.                *)
(***************************************************************************)
Claimed(t) == setup[t] = "claimed"
Step(t, at) == worker' = [worker EXCEPT ![t].at = at]
AddInto(t, g) == worker' = [worker EXCEPT ![t] = [at |-> "add", into |-> g]]
ClaimSetup(t) ==
  /\ setup[t] = "queued" /\ worker[t].at = "idle"
  /\ setup' = [setup EXCEPT ![t] = "claimed"] /\ Step(t, "find")
  /\ UNCHANGED <<tenant, group, holders, upload, stored, disk, reset, overtaken, crashes>>
LoseSetup(t) ==
  /\ worker[t].at # "idle" /\ ~Claimed(t) /\ Step(t, "idle")
  /\ UNCHANGED <<tenant, group, holders, setup, upload, stored, disk, reset, overtaken, crashes>>
\* ensureGroup: find, and create if there is none, under one renewed lease, so
\* that the second request may arrive after the job is gone; then the tags.
OwnGroup(t) == group[SlugOf(t)] = t
Fail(t) == Step(t, "idle") /\ setup' = [setup EXCEPT ![t] = IF Claimed(t) THEN "failed" ELSE @]
FindGroup(t) ==
  /\ worker[t].at = "find" /\ Claimed(t)
  /\ IF GroupRemoved(t) THEN Step(t, "create") /\ UNCHANGED setup
     ELSE IF OwnGroup(t) THEN AddInto(t, group[SlugOf(t)]) /\ UNCHANGED setup ELSE Fail(t)
  /\ UNCHANGED <<tenant, group, holders, upload, stored, disk, reset, overtaken, crashes>>
CreateGroup(t) ==
  /\ worker[t].at = "create"
  /\ IF GroupRemoved(t)
     THEN group' = [group EXCEPT ![SlugOf(t)] = t] /\ AddInto(t, t) /\ UNCHANGED setup
     ELSE /\ UNCHANGED group
          /\ IF OwnGroup(t) THEN AddInto(t, group[SlugOf(t)]) /\ UNCHANGED setup ELSE Fail(t)
  /\ UNCHANGED <<tenant, holders, upload, stored, disk, reset, overtaken, crashes>>
\* The group is addressed by its own id: one removed since is not found.
AddToGroup(t) ==
  /\ worker[t].at = "add"
  /\ IF group[SlugOf(t)] = worker[t].into
     THEN /\ holders' = [holders EXCEPT ![SlugOf(t)] = @ \cup {t}]
          /\ Step(t, "finish") /\ UNCHANGED setup
     ELSE /\ setup' = [setup EXCEPT ![t] = IF @ = "claimed" THEN "queued" ELSE @]
          /\ Step(t, "idle") /\ UNCHANGED holders
  /\ UNCHANGED <<tenant, group, upload, stored, disk, reset, overtaken, crashes>>
FinishSetup(t) ==
  /\ worker[t].at = "finish" /\ Claimed(t) /\ Step(t, "idle")
  /\ setup' = [setup EXCEPT ![t] = "done"]
  /\ UNCHANGED <<tenant, group, holders, upload, stored, disk, reset, overtaken, crashes>>

-----------------------------------------------------------------------------
(***************************************************************************)
(* POST /api/uploads/photos: the platoon is looked up, the file written,    *)
(* the row inserted; without a row the file is deleted again.              *)
(***************************************************************************)
At(u, at) == upload' = [upload EXCEPT ![u].at = at]
BeginUpload(u, t) ==
  /\ upload[u].at = "none" /\ Live(t)
  /\ upload' = [upload EXCEPT ![u] = [at |-> "write", of |-> t]]
  /\ UNCHANGED <<tenant, group, holders, setup, worker, stored, disk, reset, overtaken, crashes>>
WriteFile(u) ==
  /\ upload[u].at = "write" /\ disk' = disk \cup {u} /\ At(u, "insert")
  /\ UNCHANGED <<tenant, group, holders, setup, worker, stored, reset, overtaken, crashes>>
InsertRow(u) ==
  /\ upload[u].at = "insert"
  /\ IF Live(upload[u].of) THEN stored' = stored \cup {u} /\ At(u, "done")
     ELSE UNCHANGED stored /\ At(u, "undo")
  /\ UNCHANGED <<tenant, group, holders, setup, worker, disk, reset, overtaken, crashes>>
UndoFile(u) ==
  /\ upload[u].at = "undo" /\ disk' = disk \ {u} /\ At(u, "done")
  /\ UNCHANGED <<tenant, group, holders, setup, worker, stored, reset, overtaken, crashes>>

-----------------------------------------------------------------------------
WorkspacesNext ==
  \/ \E t \in Tenants, s \in Slugs, b \in BOOLEAN : CreateTenant(t, s, b)
  \/ \E t \in Tenants :
       \/ CheckReset(t) \/ CommitReset(t) \/ RemoveFiles(t) \/ AuditReset(t) \/ StopReset(t)
       \/ RemoveGroup(t) \/ ClaimSetup(t) \/ LoseSetup(t) \/ FindGroup(t) \/ CreateGroup(t)
       \/ AddToGroup(t) \/ FinishSetup(t)
       \/ \E u \in Uploads : BeginUpload(u, t)
  \/ \E u \in Uploads : WriteFile(u) \/ InsertRow(u) \/ UndoFile(u)
WorkspacesSpec == WorkspacesInit /\ [][WorkspacesNext]_workspaceVars

-----------------------------------------------------------------------------
(***************************************************************************)
(* Properties.                                                             *)
(***************************************************************************)

\* The administrators of a platoon never enter the group of another one, also
\* of one that used the same subdomain before (assertTenantGroup).
StrangersKeepOut == \A s \in Slugs : holders[s] \subseteq {group[s]}

\* When no upload and no reset is under way, a file is on disk only for a row
\* of a platoon that exists, unless a reset was stopped before it was removed.
NothingLeftBehind ==
  (\A u \in Uploads : upload[u].at \in {"none", "done"})
    /\ (\A t \in Tenants : reset[t] \in {"none", "done"})
  => disk \subseteq {u \in stored : Live(upload[u].of)}

\* Every photo with a row has its file, during uploads and resets as at rest:
\* the reset of one platoon takes no file from another.  The code keeps this
\* only while no platoon is created with the subdomain before the directory
\* of the last one is removed: its first files go with that directory.
FilesAreKept == \A u \in stored : upload[u].of \notin overtaken => u \in disk

\* What a platoon has is its own.  The administrators of another never enter
\* its group, files do not outlive its rows, and its rows do not outlive their
\* files, with the two exceptions stated above: a reset that was stopped
\* leaves files, a platoon created in the middle of a reset may lose some.
NothingIsShared == WorkspacesTypeOK /\ StrangersKeepOut /\ NothingLeftBehind /\ FilesAreKept

\* scripts/production-tenant-reset.mjs:82-91, "slug-ready-for-recreation": a
\* reset that succeeded leaves no group of the platoon behind.
SlugIsReady == \A t \in Tenants : reset[t] = "done" => group[SlugOf(t)] # t

\* "deletes the tenant upload directory" (docs/deployment-876en.md:303), and no
\* other: the directory is that of the subdomain, whoever has it by then.
RowsKeepFiles == stored \subseteq disk
=============================================================================
