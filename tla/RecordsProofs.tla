---------------------------- MODULE RecordsProofs ----------------------------
(***************************************************************************)
(* Proofs about what a platoon keeps: its group in Authentik and its files *)
(* (Workspaces), and its saved items, approved history and links           *)
(* (Library), for any platoons, uploads, rows, wordings and identifiers.   *)
(***************************************************************************)
EXTENDS Library, Workspaces, FiniteSetTheorems, TLAPS

-----------------------------------------------------------------------------
(***************************************************************************)
(* Platoons.  A worker adds its administrator to the group it was given    *)
(* only, and a reset deletes the rows before the files; the invariant says *)
(* what is known at each point in between.                                 *)
(***************************************************************************)

\* The worker of platoon t adds to a group of t; how far a reset is tells
\* whether the platoon still exists.
InStep(t) ==
  /\ worker[t].at = "add" => worker[t].into = t
  /\ reset[t] = "checked" => Live(t)
  /\ reset[t] \in {"files", "audit", "done", "stopped"} => tenant[t].state = "gone"

\* Only a platoon that was created in the middle of a reset can have its
\* directory removed: a reset that is about to remove one found no other
\* platoon of the subdomain when it committed.
Apart(t) == Live(t) /\ t \notin overtaken => ~Clearing(SlugOf(t))

\* Once written, the file of a platoon that was not overtaken stays.
Safe(u) ==
  u \in stored \/ (upload[u].at = "insert" /\ Live(upload[u].of)) =>
    upload[u].of \in overtaken \/ u \in disk

\* The file of upload u is on disk only once it has been written, and after the
\* end of the upload only with its row or when a reset has yet to remove it.
Kept(u) ==
  /\ upload[u].at \in {"none", "write"} => u \notin disk
  /\ upload[u].at # "none" =>
       upload[u].of \in Tenants /\ tenant[upload[u].of].state # "none"
  /\ u \in stored => upload[u].at = "done" /\ Live(upload[u].of)
  /\ upload[u].at = "done" /\ u \in disk /\ u \notin stored =>
       reset[upload[u].of] \in {"files", "stopped"}

WorkspacesInv ==
  /\ WorkspacesTypeOK /\ StrangersKeepOut
  /\ \A t \in Tenants : InStep(t) /\ Apart(t)
  /\ \A u \in Uploads : Kept(u) /\ Safe(u)

LEMMA WorkspacesInitially == WorkspacesInit => WorkspacesInv
<1> SUFFICES ASSUME WorkspacesInit PROVE WorkspacesInv
  OBVIOUS
<1> USE WorkspacesAssumption DEF WorkspacesInit
<1>1. WorkspacesTypeOK
  <2>1. (CHOOSE s \in Slugs : TRUE) \in Slugs
    OBVIOUS
  <2>2. tenant \in [Tenants -> [state: {"none", "live", "gone"}, slug: Slugs]]
    BY <2>1
  <2>3. \A t \in Tenants : ~Live(t)
    BY DEF Live
  <2> QED
    BY <2>2, <2>3 DEF WorkspacesTypeOK
<1>2. StrangersKeepOut
  BY DEF StrangersKeepOut
<1>3. \A t \in Tenants : InStep(t) /\ Apart(t)
  BY DEF InStep, Apart, Live
<1>4. \A u \in Uploads : Kept(u) /\ Safe(u)
  BY DEF Kept, Safe
<1> QED
  BY <1>1, <1>2, <1>3, <1>4 DEF WorkspacesInv

\* A platoon is created under an id and a subdomain of its own.
LEMMA CreateKeeps ==
  ASSUME WorkspacesInv, NEW t \in Tenants, NEW s \in Slugs, NEW b \in BOOLEAN,
         CreateTenant(t, s, b)
  PROVE  WorkspacesInv'
<1> USE DEF WorkspacesInv
<1>1. /\ tenant[t].state = "none" /\ \A v \in Tenants : Live(v) => SlugOf(v) # s
      /\ tenant' = [tenant EXCEPT ![t] = [state |-> "live", slug |-> s]]
      /\ overtaken' = IF Clearing(s) THEN overtaken \cup {t} ELSE overtaken
      /\ UNCHANGED <<group, holders, worker, upload, stored, disk, reset, crashes>>
  BY DEF CreateTenant, SlugFree
<1>2. /\ tenant' \in [Tenants -> [state: {"none", "live", "gone"}, slug: Slugs]]
      /\ tenant'[t] = [state |-> "live", slug |-> s]
      /\ \A v \in Tenants : v # t => tenant'[v] = tenant[v]
  BY <1>1 DEF WorkspacesTypeOK
<1>3. setup' \in [Tenants -> {"none", "queued", "claimed", "done", "failed"}]
  BY DEF CreateTenant, WorkspacesTypeOK
<1>4. \A v, w \in Tenants : Live(v)' /\ Live(w)' /\ SlugOf(w)' = SlugOf(v)' => w = v
  BY <1>1, <1>2 DEF WorkspacesTypeOK, Live, SlugOf
<1>5. WorkspacesTypeOK'
  BY <1>1, <1>2, <1>3, <1>4 DEF WorkspacesTypeOK
<1>6. StrangersKeepOut'
  BY <1>1 DEF StrangersKeepOut
<1>7. ASSUME NEW v \in Tenants PROVE InStep(v)' /\ Apart(v)'
  <2>1. InStep(v)'
    BY <1>1, <1>2 DEF InStep, Live
  <2>2. \A w \in Tenants : reset[w] = "files" => w # t
    BY <1>1 DEF InStep
  <2>3. \A r \in Slugs : Clearing(r)' => Clearing(r)
    BY <1>1, <1>2, <2>2 DEF Clearing, SlugOf
  <2>4. Apart(v)'
    BY <1>1, <1>2, <2>3 DEF Apart, Live, SlugOf, WorkspacesTypeOK
  <2> QED
    BY <2>1, <2>4
<1>8. ASSUME NEW u \in Uploads PROVE Kept(u)' /\ Safe(u)'
  BY <1>1, <1>2 DEF Kept, Safe, Live
<1> QED
  BY <1>5, <1>6, <1>7, <1>8

\* A reset deletes the rows with the platoon and the files after them.
LEMMA ResetKeeps ==
  ASSUME WorkspacesInv, NEW t \in Tenants,
         CheckReset(t) \/ CommitReset(t) \/ RemoveFiles(t) \/ AuditReset(t) \/ StopReset(t)
  PROVE  WorkspacesInv'
<1> USE DEF WorkspacesInv
<1>1. UNCHANGED <<group, holders, worker, upload, overtaken>>
  BY DEF CheckReset, CommitReset, RemoveFiles, AuditReset, StopReset
<1>2. StrangersKeepOut'
  BY <1>1 DEF StrangersKeepOut
<1>3. CASE CheckReset(t)
  <2>1. /\ Live(t) /\ reset[t] = "none" /\ reset' = [reset EXCEPT ![t] = "checked"]
        /\ UNCHANGED <<tenant, setup, stored, disk, crashes>>
    BY <1>3 DEF CheckReset
  <2>2. reset'[t] = "checked" /\ \A v \in Tenants : v # t => reset'[v] = reset[v]
    BY <2>1 DEF WorkspacesTypeOK
  <2>3. WorkspacesTypeOK'
    BY <1>1, <2>1 DEF WorkspacesTypeOK, Live, SlugOf
  <2>4. ASSUME NEW v \in Tenants PROVE InStep(v)' /\ Apart(v)'
    BY <1>1, <2>1, <2>2 DEF InStep, Apart, Clearing, SlugOf, Live
  <2>5. ASSUME NEW u \in Uploads PROVE Kept(u)' /\ Safe(u)'
    BY <1>1, <2>1, <2>2 DEF Kept, Safe, Live
  <2> QED
    BY <1>2, <2>3, <2>4, <2>5
<1>4. CASE CommitReset(t)
  <2>1. /\ reset[t] = "checked" /\ reset' = [reset EXCEPT ![t] = "files"]
        /\ tenant' = [tenant EXCEPT ![t].state = "gone"] /\ stored' = stored \ RowsOf(t)
        /\ setup' = [setup EXCEPT ![t] = "none"] /\ UNCHANGED <<disk, crashes>>
    BY <1>4 DEF CommitReset
  <2>2. /\ reset'[t] = "files" /\ tenant'[t].state = "gone"
        /\ \A v \in Tenants : v # t => reset'[v] = reset[v] /\ tenant'[v] = tenant[v]
    BY <2>1 DEF WorkspacesTypeOK
  <2>3. WorkspacesTypeOK'
    <3>1. tenant' \in [Tenants -> [state: {"none", "live", "gone"}, slug: Slugs]]
      BY <2>1 DEF WorkspacesTypeOK
    <3>2. \A v, w \in Tenants : Live(v)' /\ Live(w)' /\ SlugOf(w)' = SlugOf(v)' => w = v
      BY <2>2 DEF WorkspacesTypeOK, Live, SlugOf
    <3> QED
      BY <1>1, <2>1, <3>1, <3>2 DEF WorkspacesTypeOK
  <2>4. ASSUME NEW v \in Tenants PROVE InStep(v)' /\ Apart(v)'
    <3>1. InStep(v)'
      BY <1>1, <2>1, <2>2 DEF InStep, Live
    <3>2. ASSUME v # t, Live(v), v \notin overtaken PROVE ~Clearing(SlugOf(v))'
      <4>1. SlugOf(t) # SlugOf(v) /\ ~Clearing(SlugOf(v))
        BY <2>1, <3>2 DEF WorkspacesTypeOK, InStep, Apart
      <4>2. \A w \in Tenants : SlugOf(w)' = SlugOf(w)
        BY <2>1 DEF WorkspacesTypeOK, SlugOf
      <4> QED
        BY <2>2, <4>1, <4>2 DEF Clearing
    <3>3. Apart(v)'
      BY <1>1, <2>2, <3>2 DEF Apart, Live
    <3> QED
      BY <3>1, <3>3
  <2>5. ASSUME NEW u \in Uploads PROVE Kept(u)' /\ Safe(u)'
    <3>1. CASE upload[u].of = t
      <4>1. u \notin stored'
        BY <2>1, <3>1 DEF RowsOf
      <4> QED
        BY <1>1, <2>1, <2>2, <3>1, <4>1 DEF Kept, Safe, Live
    <3>2. CASE upload[u].of # t
      <4>1. u \in stored' <=> u \in stored
        BY <2>1, <3>2 DEF RowsOf
      <4> QED
        BY <1>1, <2>1, <2>2, <3>2, <4>1 DEF Kept, Safe, Live
    <3> QED
      BY <3>1, <3>2
  <2> QED
    BY <1>2, <2>3, <2>4, <2>5
<1>5. CASE RemoveFiles(t)
  <2>1. /\ reset[t] = "files" /\ reset' = [reset EXCEPT ![t] = "audit"]
        /\ disk' = disk \ InDirectory(SlugOf(t)) /\ UNCHANGED <<tenant, setup, stored, crashes>>
    BY <1>5 DEF RemoveFiles
  <2>2. reset'[t] = "audit" /\ \A v \in Tenants : v # t => reset'[v] = reset[v]
    BY <2>1 DEF WorkspacesTypeOK
  <2>3. WorkspacesTypeOK'
    BY <1>1, <2>1 DEF WorkspacesTypeOK, Live, SlugOf
  <2>4. ASSUME NEW v \in Tenants PROVE InStep(v)' /\ Apart(v)'
    BY <1>1, <2>1, <2>2 DEF InStep, Apart, Clearing, SlugOf, Live
  <2>5. ASSUME NEW u \in Uploads PROVE Kept(u)' /\ Safe(u)'
    <3>1. u \in disk' => u \in disk
      BY <2>1
    <3>2. upload[u].of = t /\ u \in disk => u \in InDirectory(SlugOf(t))
      BY WorkspacesAssumption DEF InDirectory
    <3>3. Kept(u)'
      BY <1>1, <2>1, <2>2, <3>1, <3>2 DEF Kept, Live
    <3>4. ASSUME Live(upload[u].of), upload[u].of \in Tenants, upload[u].of \notin overtaken, u \in disk
          PROVE  u \in disk'
      BY <2>1, <3>4 DEF Apart, Clearing, InDirectory
    <3>5. Safe(u)'
      BY <1>1, <2>1, <3>4 DEF Safe, Kept, Live
    <3> QED
      BY <3>3, <3>5
  <2> QED
    BY <1>2, <2>3, <2>4, <2>5
<1>6. CASE AuditReset(t)
  <2>1. /\ reset[t] = "audit" /\ reset' = [reset EXCEPT ![t] = "done"]
        /\ UNCHANGED <<tenant, setup, stored, disk, crashes>>
    BY <1>6 DEF AuditReset
  <2>2. reset'[t] = "done" /\ \A v \in Tenants : v # t => reset'[v] = reset[v]
    BY <2>1 DEF WorkspacesTypeOK
  <2>3. WorkspacesTypeOK'
    BY <1>1, <2>1 DEF WorkspacesTypeOK, Live, SlugOf
  <2>4. ASSUME NEW v \in Tenants PROVE InStep(v)' /\ Apart(v)'
    BY <1>1, <2>1, <2>2 DEF InStep, Apart, Clearing, SlugOf, Live
  <2>5. ASSUME NEW u \in Uploads PROVE Kept(u)' /\ Safe(u)'
    BY <1>1, <2>1, <2>2 DEF Kept, Safe, Live
  <2> QED
    BY <1>2, <2>3, <2>4, <2>5
<1>7. CASE StopReset(t)
  <2>1. /\ reset[t] \in {"checked", "files", "audit"}
        /\ reset' = [reset EXCEPT ![t] = IF Live(t) THEN "none" ELSE "stopped"]
        /\ crashes < MaxCrashes /\ crashes' = crashes + 1
        /\ UNCHANGED <<tenant, setup, stored, disk>>
    BY <1>7 DEF StopReset
  <2>2. /\ reset'[t] = IF Live(t) THEN "none" ELSE "stopped"
        /\ \A v \in Tenants : v # t => reset'[v] = reset[v]
    BY <2>1 DEF WorkspacesTypeOK
  <2>3. WorkspacesTypeOK'
    <3>1. crashes' \in 0..MaxCrashes
      BY <2>1, WorkspacesAssumption DEF WorkspacesTypeOK
    <3> QED
      BY <1>1, <2>1, <3>1 DEF WorkspacesTypeOK, Live, SlugOf
  <2>4. ASSUME NEW v \in Tenants PROVE InStep(v)' /\ Apart(v)'
    BY <1>1, <2>1, <2>2 DEF InStep, Apart, Clearing, SlugOf, Live
  <2>5. ASSUME NEW u \in Uploads PROVE Kept(u)' /\ Safe(u)'
    BY <1>1, <2>1, <2>2 DEF Kept, Safe, InStep, Live
  <2> QED
    BY <1>2, <2>3, <2>4, <2>5
<1> QED
  BY <1>3, <1>4, <1>5, <1>6, <1>7

\* The part of the invariant that is about the group and the worker.
GroupInOrder ==
  /\ group \in [Slugs -> Tenants \cup {NoTenant}] /\ holders \in [Slugs -> SUBSET Tenants]
  /\ setup \in [Tenants -> {"none", "queued", "claimed", "done", "failed"}]
  /\ worker \in [Tenants -> [at: {"idle", "find", "create", "add", "finish"},
                             into: Tenants \cup {NoTenant}]]
  /\ \A t \in Tenants : worker[t].at = "add" => worker[t].into = t
  /\ StrangersKeepOut

\* The administrators go with the group; a worker adds to its own group only.
LEMMA GroupKeeps ==
  ASSUME WorkspacesInv, NEW t \in Tenants,
         \/ RemoveGroup(t) \/ ClaimSetup(t) \/ LoseSetup(t) \/ FindGroup(t)
         \/ CreateGroup(t) \/ AddToGroup(t) \/ FinishSetup(t)
  PROVE  WorkspacesInv'
<1>1. UNCHANGED <<tenant, upload, stored, disk, reset, overtaken, crashes>>
  BY DEF RemoveGroup, ClaimSetup, LoseSetup, FindGroup, CreateGroup, AddToGroup, FinishSetup
<1>2. SlugOf(t) \in Slugs /\ GroupInOrder
  BY DEF WorkspacesInv, WorkspacesTypeOK, SlugOf, GroupInOrder, InStep
<1>3. ASSUME UNCHANGED <<group, holders>>, NEW to \in {"idle", "find", "create", "finish"},
             Step(t, to), setup' \in [Tenants -> {"none", "queued", "claimed", "done", "failed"}]
      PROVE  GroupInOrder'
  BY <1>2, <1>3 DEF Step, GroupInOrder, StrangersKeepOut
<1>4. ASSUME UNCHANGED <<holders, setup>>, AddInto(t, t),
             \/ UNCHANGED group
             \/ GroupRemoved(t) /\ group' = [group EXCEPT ![SlugOf(t)] = t]
      PROVE  GroupInOrder'
  <2>1. /\ worker' \in [Tenants -> [at: {"idle", "find", "create", "add", "finish"},
                                    into: Tenants \cup {NoTenant}]]
        /\ \A v \in Tenants : worker'[v].at = "add" => worker'[v].into = v
    BY <1>2, <1>4 DEF AddInto, GroupInOrder
  <2>2. StrangersKeepOut'
    BY <1>2, <1>4, WorkspacesAssumption DEF GroupRemoved, GroupInOrder, StrangersKeepOut
  <2> QED
    BY <1>2, <1>4, <2>1, <2>2 DEF GroupInOrder
<1>5. ASSUME UNCHANGED <<group, holders>>, Fail(t)
      PROVE  GroupInOrder'
  <2>1. setup' \in [Tenants -> {"none", "queued", "claimed", "done", "failed"}]
    BY <1>2, <1>5 DEF Fail, GroupInOrder
  <2> QED
    BY <1>3, <1>5, <2>1 DEF Fail
<1>6. GroupInOrder'
  <2>1. CASE RemoveGroup(t)
    <3>1. /\ group' = [group EXCEPT ![SlugOf(t)] = NoTenant]
          /\ holders' = [holders EXCEPT ![SlugOf(t)] = {}] /\ UNCHANGED <<setup, worker>>
      BY <2>1 DEF RemoveGroup
    <3>2. StrangersKeepOut'
      BY <1>2, <3>1 DEF StrangersKeepOut, GroupInOrder
    <3> QED
      BY <1>2, <3>1, <3>2 DEF GroupInOrder
  <2>2. CASE ClaimSetup(t)
    <3>1. setup' \in [Tenants -> {"none", "queued", "claimed", "done", "failed"}]
      BY <1>2, <2>2 DEF ClaimSetup, GroupInOrder
    <3> QED
      BY <1>3, <2>2, <3>1 DEF ClaimSetup
  <2>3. CASE LoseSetup(t)
    BY <1>2, <1>3, <2>3 DEF LoseSetup, GroupInOrder
  <2>4. CASE FindGroup(t)
    <3>1. /\ UNCHANGED <<group, holders>>
          /\ \/ Fail(t)
             \/ /\ UNCHANGED setup
                /\ Step(t, "create") \/ AddInto(t, t)
      BY <2>4 DEF FindGroup, OwnGroup, AddInto
    <3> QED
      BY <1>2, <1>3, <1>4, <1>5, <3>1 DEF GroupInOrder
  <2>5. CASE CreateGroup(t)
    <3>1. /\ UNCHANGED holders
          /\ \/ /\ GroupRemoved(t) /\ group' = [group EXCEPT ![SlugOf(t)] = t]
                /\ AddInto(t, t) /\ UNCHANGED setup
             \/ UNCHANGED group /\ Fail(t)
             \/ UNCHANGED group /\ UNCHANGED setup /\ AddInto(t, t)
      BY <2>5 DEF CreateGroup, OwnGroup, AddInto
    <3> QED
      BY <1>4, <1>5, <3>1
  <2>6. CASE AddToGroup(t)
    <3>1. worker[t].into = t /\ UNCHANGED group
      BY <1>2, <2>6 DEF AddToGroup, GroupInOrder
    <3>2. CASE group[SlugOf(t)] = t
      <4>1. /\ holders' = [holders EXCEPT ![SlugOf(t)] = @ \cup {t}]
            /\ worker' = [worker EXCEPT ![t].at = "finish"] /\ UNCHANGED setup
        BY <2>6, <3>1, <3>2 DEF AddToGroup, Step
      <4>2. StrangersKeepOut'
        BY <1>2, <3>1, <3>2, <4>1 DEF StrangersKeepOut, GroupInOrder
      <4> QED
        BY <1>2, <3>1, <4>1, <4>2 DEF GroupInOrder
    <3>3. CASE group[SlugOf(t)] # t
      <4>1. /\ setup' = [setup EXCEPT ![t] = IF @ = "claimed" THEN "queued" ELSE @]
            /\ Step(t, "idle") /\ UNCHANGED holders
        BY <2>6, <3>1, <3>3 DEF AddToGroup
      <4>2. setup' \in [Tenants -> {"none", "queued", "claimed", "done", "failed"}]
        BY <1>2, <4>1 DEF GroupInOrder
      <4> QED
        BY <1>3, <3>1, <4>1, <4>2
    <3> QED
      BY <3>2, <3>3
  <2>7. CASE FinishSetup(t)
    <3>1. setup' \in [Tenants -> {"none", "queued", "claimed", "done", "failed"}]
      BY <1>2, <2>7 DEF FinishSetup, GroupInOrder
    <3> QED
      BY <1>3, <2>7, <3>1 DEF FinishSetup
  <2> QED
    BY <2>1, <2>2, <2>3, <2>4, <2>5, <2>6, <2>7
<1>7. WorkspacesTypeOK' /\ StrangersKeepOut'
  BY <1>1, <1>6 DEF WorkspacesInv, WorkspacesTypeOK, GroupInOrder, Live, SlugOf
<1>8. ASSUME NEW v \in Tenants PROVE InStep(v)' /\ Apart(v)'
  BY <1>1, <1>6 DEF WorkspacesInv, GroupInOrder, InStep, Apart, Clearing, SlugOf, Live
<1>9. ASSUME NEW u \in Uploads PROVE Kept(u)' /\ Safe(u)'
  BY <1>1 DEF WorkspacesInv, Kept, Safe, Live
<1> QED
  BY <1>7, <1>8, <1>9 DEF WorkspacesInv

\* A file is written before its row and deleted when there can be no row.
LEMMA UploadKeeps ==
  ASSUME WorkspacesInv, NEW u \in Uploads,
         \/ \E t \in Tenants : BeginUpload(u, t)
         \/ WriteFile(u) \/ InsertRow(u) \/ UndoFile(u)
  PROVE  WorkspacesInv'
<1> USE DEF WorkspacesInv
<1>1. UNCHANGED <<tenant, group, holders, setup, worker, reset, overtaken, crashes>>
  BY DEF BeginUpload, WriteFile, InsertRow, UndoFile
<1>2. /\ upload' \in [Uploads -> [at: {"none", "write", "insert", "undo", "done"},
                                  of: Tenants \cup {NoTenant}]]
      /\ stored' \subseteq Uploads /\ disk' \subseteq Uploads
      /\ \A v \in Uploads : Kept(v)' /\ Safe(v)'
  <2>1. CASE \E t \in Tenants : BeginUpload(u, t)
    <3>1. PICK t \in Tenants : BeginUpload(u, t)
      BY <2>1
    <3>2. /\ upload[u].at = "none" /\ upload' = [upload EXCEPT ![u] = [at |-> "write", of |-> t]]
          /\ tenant[t].state = "live"
          /\ UNCHANGED <<stored, disk>>
      BY <3>1 DEF BeginUpload, Live
    <3>3. /\ upload'[u] = [at |-> "write", of |-> t]
          /\ \A v \in Uploads : v # u => upload'[v] = upload[v]
      BY <3>2 DEF WorkspacesTypeOK
    <3>4. ASSUME NEW v \in Uploads PROVE Kept(v)' /\ Safe(v)'
      BY <1>1, <3>2, <3>3 DEF Kept, Safe, Live
    <3> QED
      BY <3>2, <3>4 DEF WorkspacesTypeOK
  <2>2. CASE WriteFile(u)
    <3>1. /\ upload[u].at = "write" /\ upload' = [upload EXCEPT ![u].at = "insert"]
          /\ disk' = disk \cup {u} /\ UNCHANGED stored
      BY <2>2 DEF WriteFile, At
    <3>2. /\ upload'[u].at = "insert" /\ upload'[u].of = upload[u].of
          /\ \A v \in Uploads : v # u => upload'[v] = upload[v]
      BY <3>1 DEF WorkspacesTypeOK
    <3>3. ASSUME NEW v \in Uploads PROVE Kept(v)' /\ Safe(v)'
      BY <1>1, <3>1, <3>2 DEF Kept, Safe, Live
    <3> QED
      BY <3>1, <3>3 DEF WorkspacesTypeOK
  <2>3. CASE InsertRow(u) /\ Live(upload[u].of)
    <3>1. /\ upload[u].at = "insert" /\ upload' = [upload EXCEPT ![u].at = "done"]
          /\ stored' = stored \cup {u} /\ UNCHANGED disk
      BY <2>3 DEF InsertRow, At
    <3>2. /\ upload'[u].at = "done" /\ upload'[u].of = upload[u].of
          /\ \A v \in Uploads : v # u => upload'[v] = upload[v]
      BY <3>1 DEF WorkspacesTypeOK
    <3>3. ASSUME NEW v \in Uploads PROVE Kept(v)' /\ Safe(v)'
      BY <1>1, <2>3, <3>1, <3>2 DEF Kept, Safe, Live
    <3> QED
      BY <3>1, <3>3 DEF WorkspacesTypeOK
  <2>4. CASE InsertRow(u) /\ ~Live(upload[u].of)
    <3>1. /\ upload[u].at = "insert" /\ upload' = [upload EXCEPT ![u].at = "undo"]
          /\ UNCHANGED <<stored, disk>>
      BY <2>4 DEF InsertRow, At
    <3>2. /\ upload'[u].at = "undo" /\ upload'[u].of = upload[u].of
          /\ \A v \in Uploads : v # u => upload'[v] = upload[v]
      BY <3>1 DEF WorkspacesTypeOK
    <3>3. ASSUME NEW v \in Uploads PROVE Kept(v)' /\ Safe(v)'
      BY <1>1, <3>1, <3>2 DEF Kept, Safe, Live
    <3> QED
      BY <3>1, <3>3 DEF WorkspacesTypeOK
  <2>5. CASE UndoFile(u)
    <3>1. /\ upload[u].at = "undo" /\ upload' = [upload EXCEPT ![u].at = "done"]
          /\ disk' = disk \ {u} /\ UNCHANGED stored
      BY <2>5 DEF UndoFile, At
    <3>2. /\ upload'[u].at = "done" /\ upload'[u].of = upload[u].of
          /\ \A v \in Uploads : v # u => upload'[v] = upload[v]
      BY <3>1 DEF WorkspacesTypeOK
    <3>3. ASSUME NEW v \in Uploads PROVE Kept(v)' /\ Safe(v)'
      BY <1>1, <3>1, <3>2 DEF Kept, Safe, Live
    <3> QED
      BY <3>1, <3>3 DEF WorkspacesTypeOK
  <2> QED
    BY <2>1, <2>2, <2>3, <2>4, <2>5
<1>3. WorkspacesTypeOK'
  BY <1>1, <1>2 DEF WorkspacesTypeOK, Live, SlugOf
<1>4. StrangersKeepOut'
  BY <1>1 DEF StrangersKeepOut
<1>5. ASSUME NEW t \in Tenants PROVE InStep(t)' /\ Apart(t)'
  BY <1>1 DEF InStep, Apart, Clearing, SlugOf, Live
<1> QED
  BY <1>2, <1>3, <1>4, <1>5

LEMMA WorkspacesInvariant == WorkspacesSpec => []WorkspacesInv
<1>1. WorkspacesInv /\ [WorkspacesNext]_workspaceVars => WorkspacesInv'
  <2> SUFFICES ASSUME WorkspacesInv, [WorkspacesNext]_workspaceVars PROVE WorkspacesInv'
    OBVIOUS
  <2>1. CASE UNCHANGED workspaceVars
    BY <2>1 DEF workspaceVars, WorkspacesInv, WorkspacesTypeOK, StrangersKeepOut, InStep, Apart,
                Clearing, Kept, Safe, Live, SlugOf
  <2>2. CASE WorkspacesNext
    BY <2>2, CreateKeeps, ResetKeeps, GroupKeeps, UploadKeeps DEF WorkspacesNext
  <2> QED
    BY <2>1, <2>2
<1> QED
  BY <1>1, WorkspacesInitially, PTL DEF WorkspacesSpec

\* What a platoon has is its own, also when a worker, a reset and a new platoon
\* under the same subdomain interleave: the administrators of one never enter
\* the group of another; with no upload or reset under way the files on disk
\* are those of rows of platoons that exist; and every row has its file, but
\* for platoons that were created while a directory was still to be removed.
THEOREM NothingIsSharedCorrect == WorkspacesSpec => []NothingIsShared
<1>1. ASSUME WorkspacesInv PROVE NothingIsShared
  <2>1. NothingLeftBehind
    <3> SUFFICES ASSUME \A u \in Uploads : upload[u].at \in {"none", "done"},
                        \A t \in Tenants : reset[t] \in {"none", "done"},
                        NEW u \in disk
                 PROVE  u \in stored /\ Live(upload[u].of)
      BY DEF NothingLeftBehind, WorkspacesInv, WorkspacesTypeOK
    <3>1. u \in Uploads /\ Kept(u)
      BY <1>1 DEF WorkspacesInv, WorkspacesTypeOK
    <3> QED
      BY <3>1 DEF Kept
  <2>2. FilesAreKept
    BY <1>1 DEF FilesAreKept, WorkspacesInv, WorkspacesTypeOK, Safe
  <2> QED
    BY <1>1, <2>1, <2>2 DEF NothingIsShared, WorkspacesInv
<1> QED
  BY <1>1, WorkspacesInvariant, PTL

-----------------------------------------------------------------------------
(***************************************************************************)
(* Saved items and their photos.                                           *)
(***************************************************************************)

ItemRecords == [title: Lines, lin: SUBSET Lins, nsn: SUBSET Nsns, media: SUBSET (1..MaxProofs)]
ProofRecords == [row: Rows, found: BOOLEAN, photo: BOOLEAN,
                 state: {"pending", "dropped", "approved"}]

\* Steps that leave the saved items alone, never take a row's item away and
\* never take back an approval.
Standing ==
  /\ item' = item /\ Len(proof) <= Len(proof')
  /\ \A p \in Proofs :
       /\ proof'[p].row = proof[p].row /\ proof'[p].found = proof[p].found
       /\ proof[p].state = "approved" => proof'[p].state = "approved"
  /\ \A r \in Added : row[r].item # 0 => row'[r].item = row[r].item

LEMMA StandingKeeps ==
  ASSUME SavedPhotosAreProof, LibraryTypeOK', Standing
  PROVE  SavedPhotosAreProof'
<1> SUFFICES ASSUME NEW i \in SavedItems
             PROVE  /\ Cardinality(item[i].media) <= MaxSaved
                    /\ \A p \in item[i].media :
                         /\ p \in Proofs' /\ SavedAs(p)' = {i}
                         /\ proof'[p].state = "approved" /\ proof'[p].found
                         /\ row'[ProofRow(p)'].item = i
  BY DEF SavedPhotosAreProof, Standing, SavedItems
<1>1. SavedItems' = SavedItems /\ \A p : SavedAs(p)' = SavedAs(p)
  BY DEF Standing, SavedItems, SavedAs
<1>2. ASSUME NEW p \in item[i].media
      PROVE  /\ p \in Proofs' /\ SavedAs(p)' = {i}
             /\ proof'[p].state = "approved" /\ proof'[p].found
             /\ row'[ProofRow(p)'].item = i
  <2>1. /\ p \in Proofs /\ SavedAs(p) = {i} /\ proof[p].state = "approved" /\ proof[p].found
        /\ row[ProofRow(p)].item = i /\ ProofRow(p) \in Added
    BY <1>2 DEF SavedPhotosAreProof, LibraryTypeOK
  <2>2. Len(proof) \in Nat /\ Len(proof') \in Nat /\ i # 0
    BY DEF SavedPhotosAreProof, LibraryTypeOK, SavedItems
  <2>3. p \in Proofs' /\ ProofRow(p)' = ProofRow(p)
    BY <2>1, <2>2 DEF Standing, Proofs, ProofRow
  <2> QED
    BY <1>1, <2>1, <2>2, <2>3 DEF Standing
<1> QED
  BY <1>2 DEF SavedPhotosAreProof

LEMMA LibraryInitially == LibraryInit => SavedPhotosAreProof
<1> SUFFICES ASSUME LibraryInit PROVE SavedPhotosAreProof
  OBVIOUS
<1> USE LibraryAssumption DEF LibraryInit
<1>1. Len(item) = 0 /\ Len(proof) = 0 /\ SavedItems = {} /\ Proofs = {}
  BY DEF SavedItems, Proofs
<1>2. row \in [Rows -> [line: Lines, item: 0..Len(item), sugg: 0..Len(item),
                        status: {"absent", "open", "review", "done"}]]
  BY <1>1 DEF NoRow
<1>3. \A r \in Rows : row[r].item # 0 => row[r].sugg = 0
  BY DEF NoRow
<1>4. /\ item \in Seq([title: Lines, lin: SUBSET Lins, nsn: SUBSET Nsns,
                       media: SUBSET (1..MaxProofs)])
      /\ proof \in Seq([row: Rows, found: BOOLEAN, photo: BOOLEAN,
                        state: {"pending", "dropped", "approved"}])
  OBVIOUS
<1>5. LibraryTypeOK
  BY <1>1, <1>2, <1>3, <1>4 DEF LibraryTypeOK
<1> QED
  BY <1>1, <1>5 DEF SavedPhotosAreProof

\* What a suggestion or a confirmed match names is a saved item.
LEMMA SuggestionsAreSaved ==
  ASSUME LibraryTypeOK, NEW r \in Rows, NEW l \in Lines
  PROVE  /\ Suggestion(l) \in 0..Len(item)
         /\ Reusable(r, l) # {} => (CHOOSE i \in Reusable(r, l) : TRUE) \in 0..Len(item)
<1>1. Len(item) \in Nat
  BY DEF LibraryTypeOK
<1>2. Matches(l) \subseteq SavedItems
  BY DEF Matches
<1>3. Suggestion(l) = 0 \/ Suggestion(l) \in Matches(l)
  BY DEF Suggestion
<1>4. Reusable(r, l) \subseteq Matches(l)
  BY DEF Reusable
<1>5. Reusable(r, l) # {} => (CHOOSE i \in Reusable(r, l) : TRUE) \in Reusable(r, l)
  OBVIOUS
<1> QED
  BY <1>1, <1>2, <1>3, <1>4, <1>5 DEF SavedItems

\* A row is added under the wording it is given, with an item or a suggestion
\* and never with both.
LEMMA RowsKeep ==
  ASSUME SavedPhotosAreProof, NEW r \in Rows, NEW l \in Lines, NEW i \in 0..Len(item),
         NEW sugg \in 0..Len(item), i = 0 \/ sugg = 0, Inserted(r, l, i, sugg)
  PROVE  SavedPhotosAreProof'
<1> DEFINE new == [line |-> l, item |-> i, sugg |-> sugg, status |-> "open"]
<1>1. LibraryTypeOK
  BY DEF SavedPhotosAreProof
<1>2. /\ row[r].status = "absent" /\ row' = [row EXCEPT ![r] = new]
      /\ UNCHANGED <<inventory, proof, item, link>>
  BY DEF Inserted
<1>3. row'[r] = new /\ \A q \in Rows : q # r => row'[q] = row[q]
  BY <1>1, <1>2 DEF LibraryTypeOK
<1>4. Added \subseteq Added' /\ \A q \in Added : row'[q] = row[q]
  BY <1>2, <1>3 DEF Added
<1>5. LibraryTypeOK'
  <2>1. row' \in [Rows -> [line: Lines, item: 0..Len(item), sugg: 0..Len(item),
                           status: {"absent", "open", "review", "done"}]]
    BY <1>1, <1>2 DEF LibraryTypeOK
  <2>2. ASSUME NEW q \in Rows PROVE row'[q].item # 0 => row'[q].sugg = 0
    <3>1. CASE q = r
      <4>1. row'[q].item = i /\ row'[q].sugg = sugg
        BY <1>3, <3>1
      <4> QED
        BY <4>1
    <3>2. CASE q # r
      BY <1>1, <1>3, <3>2 DEF LibraryTypeOK
    <3> QED
      BY <3>1, <3>2
  <2>3. \A p \in Proofs' : ProofRow(p)' \in Added'
    BY <1>1, <1>2, <1>4 DEF LibraryTypeOK, Proofs, ProofRow
  <2> QED
    BY <1>1, <1>2, <2>1, <2>2, <2>3 DEF LibraryTypeOK
<1>6. Standing
  BY <1>1, <1>2, <1>4 DEF Standing, LibraryTypeOK
<1> QED
  BY <1>5, <1>6, StandingKeeps

\* A match that is resolved gives its row the item it suggested, or none.
LEMMA MatchesKeep ==
  ASSUME SavedPhotosAreProof, NEW r \in Rows, NEW confirm \in BOOLEAN, ResolveMatch(r, confirm)
  PROVE  SavedPhotosAreProof'
<1>1. LibraryTypeOK
  BY DEF SavedPhotosAreProof
<1>2. /\ row[r].sugg # 0 /\ UNCHANGED <<inventory, proof, item, link>>
      /\ row' = [row EXCEPT ![r].item = IF confirm THEN row[r].sugg ELSE @, ![r].sugg = 0]
  BY DEF ResolveMatch
<1> DEFINE it == IF confirm THEN row[r].sugg ELSE row[r].item
           one == [row EXCEPT ![r].item = it]
<1>3. row' = [one EXCEPT ![r].sugg = 0]
  BY <1>2
<1>4. /\ it \in 0..Len(item)
      /\ one \in [Rows -> [line: Lines, item: 0..Len(item), sugg: 0..Len(item),
                           status: {"absent", "open", "review", "done"}]]
      /\ one[r].item = it /\ one[r].status = row[r].status
      /\ \A q \in Rows : q # r => one[q] = row[q]
  BY <1>1 DEF LibraryTypeOK
<1> HIDE DEF one, it
<1>5. /\ row' \in [Rows -> [line: Lines, item: 0..Len(item), sugg: 0..Len(item),
                            status: {"absent", "open", "review", "done"}]]
      /\ row'[r].sugg = 0 /\ row'[r].status = row[r].status
      /\ \A q \in Rows : q # r => row'[q] = row[q]
  <2>1. 0 \in 0..Len(item)
    BY <1>1 DEF LibraryTypeOK
  <2> QED
    BY <1>3, <1>4, <2>1
<1>6. row[r].item = 0 /\ Added' = Added /\ \A q \in Added : row[q].item # 0 => row'[q].item = row[q].item
  BY <1>1, <1>2, <1>5 DEF LibraryTypeOK, Added
<1>7. LibraryTypeOK'
  BY <1>1, <1>2, <1>5, <1>6 DEF LibraryTypeOK, Proofs, ProofRow
<1>8. Standing
  BY <1>1, <1>2, <1>6 DEF Standing, LibraryTypeOK
<1> QED
  BY <1>7, <1>8, StandingKeeps

\* New proof drops what was undecided on its row and nothing else.
LEMMA SubmitsKeep ==
  ASSUME SavedPhotosAreProof, NEW r \in Rows, NEW report \in ReportsOf[r], Submit(r, report)
  PROVE  SavedPhotosAreProof'
<1>1. LibraryTypeOK
  BY DEF SavedPhotosAreProof
<1> DEFINE dropped == [p \in Proofs |-> IF p \in Actionable(r)
                                        THEN [proof[p] EXCEPT !.state = "dropped"] ELSE proof[p]]
           new == [row |-> r, found |-> report.found, photo |-> report.photo,
                   state |-> "pending"]
<1>2. /\ r \in Added /\ Len(proof) < MaxProofs /\ proof' = Append(dropped, new)
      /\ row' = [row EXCEPT ![r].status = "review"]
      /\ UNCHANGED <<inventory, item, link>>
  BY DEF Submit
<1>3. Len(proof) \in Nat /\ proof \in Seq(ProofRecords)
  BY <1>1 DEF LibraryTypeOK, ProofRecords
<1>4. new \in ProofRecords
  BY LibraryAssumption DEF ProofRecords
<1>5. /\ dropped \in Seq(ProofRecords) /\ Len(dropped) = Len(proof)
      /\ \A p \in Proofs :
           /\ dropped[p].row = proof[p].row /\ dropped[p].found = proof[p].found
           /\ proof[p].state = "approved" => dropped[p].state = "approved"
  <2>1. ASSUME NEW p \in Proofs
        PROVE  /\ dropped[p] \in ProofRecords
               /\ dropped[p].row = proof[p].row /\ dropped[p].found = proof[p].found
               /\ proof[p].state = "approved" => dropped[p].state = "approved"
    <3>1. proof[p] \in ProofRecords
      BY <1>3 DEF Proofs
    <3>2. CASE p \in Actionable(r)
      <4>1. dropped[p] = [proof[p] EXCEPT !.state = "dropped"] /\ proof[p].state = "pending"
        BY <3>2 DEF Actionable
      <4> QED
        BY <3>1, <4>1 DEF ProofRecords
    <3>3. CASE p \notin Actionable(r)
      <4>1. dropped[p] = proof[p]
        BY <3>3
      <4> QED
        BY <3>1, <4>1
    <3> QED
      BY <3>2, <3>3
  <2>2. dropped \in [1..Len(proof) -> ProofRecords]
    BY <2>1 DEF Proofs
  <2> HIDE DEF dropped
  <2>3. dropped \in Seq(ProofRecords) /\ Len(dropped) = Len(proof)
    BY <1>3, <2>2
  <2> QED
    BY <2>1, <2>3
<1> HIDE DEF dropped, new
<1>6. /\ proof' \in Seq(ProofRecords) /\ Len(proof') = Len(proof) + 1
      /\ \A p \in Proofs : proof'[p] = dropped[p]
      /\ proof'[Len(proof) + 1] = new
  BY <1>2, <1>3, <1>4, <1>5 DEF Proofs
<1>7. /\ row' \in [Rows -> [line: Lines, item: 0..Len(item), sugg: 0..Len(item),
                            status: {"absent", "open", "review", "done"}]]
      /\ \A q \in Rows : row'[q].item = row[q].item /\ row'[q].sugg = row[q].sugg
      /\ Added \subseteq Added' /\ r \in Added'
  BY <1>1, <1>2 DEF LibraryTypeOK, Added
<1>8. \A p \in Proofs' : proof'[p].row \in Added'
  <2>1. ASSUME NEW p \in Proofs' PROVE proof'[p].row \in Added'
    <3>1. CASE p \in Proofs
      BY <1>1, <1>5, <1>6, <1>7, <3>1 DEF LibraryTypeOK, ProofRow
    <3>2. CASE p \notin Proofs
      <4>1. p = Len(proof) + 1
        BY <1>3, <1>6, <3>2 DEF Proofs
      <4> QED
        BY <1>6, <1>7, <4>1 DEF new
    <3> QED
      BY <3>1, <3>2
  <2> QED
    BY <2>1
<1>9. LibraryTypeOK'
  <2>1. Len(proof') <= MaxProofs
    BY <1>2, <1>3, <1>6, LibraryAssumption
  <2> QED
    BY <1>1, <1>2, <1>6, <1>7, <1>8, <2>1 DEF LibraryTypeOK, ProofRow, ProofRecords
<1>10. Standing
  <2>1. Len(proof) <= Len(proof')
    BY <1>3, <1>6
  <2>2. \A q \in Added : row'[q].item = row[q].item
    BY <1>7 DEF Added
  <2>3. \A p \in Proofs :
          /\ proof'[p].row = proof[p].row /\ proof'[p].found = proof[p].found
          /\ proof[p].state = "approved" => proof'[p].state = "approved"
    BY <1>5, <1>6
  <2> QED
    BY <1>2, <2>1, <2>2, <2>3 DEF Standing
<1> QED
  BY <1>9, <1>10, StandingKeeps

\* A decision changes the state of pending proof and the status of its row.
LEMMA DecisionsKeep ==
  ASSUME SavedPhotosAreProof, NEW p \in Proofs, Reject(p) \/ Approve(p)
  PROVE  SavedPhotosAreProof'
<1>1. LibraryTypeOK
  BY DEF SavedPhotosAreProof
<1>2. PICK state \in {"dropped", "approved"}, status \in {"open", "done"} :
        /\ proof[p].state = "pending" /\ proof' = [proof EXCEPT ![p].state = state]
        /\ row' = [row EXCEPT ![ProofRow(p)].status = status]
        /\ UNCHANGED <<inventory, item, link>>
  BY DEF Reject, Approve, Decided
<1>3. /\ Len(proof) \in Nat /\ proof \in Seq(ProofRecords) /\ ProofRow(p) \in Rows
      /\ row[ProofRow(p)].status # "absent" /\ p \in 1..Len(proof)
  BY <1>1 DEF LibraryTypeOK, ProofRecords, Added, Proofs
<1>4. /\ proof' \in Seq(ProofRecords) /\ Len(proof') = Len(proof)
      /\ \A q \in Proofs :
           /\ proof'[q].row = proof[q].row /\ proof'[q].found = proof[q].found
           /\ proof[q].state = "approved" => proof'[q].state = "approved"
  <2>1. proof \in [1..Len(proof) -> ProofRecords]
    BY <1>3
  <2>2. /\ proof' \in [1..Len(proof) -> ProofRecords]
        /\ \A q \in Proofs :
             /\ proof'[q].row = proof[q].row /\ proof'[q].found = proof[q].found
             /\ proof[q].state = "approved" => proof'[q].state = "approved"
    BY <1>2, <1>3, <2>1 DEF ProofRecords, Proofs
  <2> QED
    BY <1>3, <2>2
<1>5. /\ row' \in [Rows -> [line: Lines, item: 0..Len(item), sugg: 0..Len(item),
                            status: {"absent", "open", "review", "done"}]]
      /\ \A q \in Rows : row'[q].item = row[q].item /\ row'[q].sugg = row[q].sugg
      /\ Added' = Added
  BY <1>1, <1>2, <1>3 DEF LibraryTypeOK, Added
<1>6. LibraryTypeOK'
  <2>1. \A q \in Proofs' : ProofRow(q)' \in Added'
    BY <1>1, <1>4, <1>5 DEF LibraryTypeOK, Proofs, ProofRow
  <2> QED
    BY <1>1, <1>2, <1>4, <1>5, <2>1 DEF LibraryTypeOK, ProofRecords
<1>7. Standing
  BY <1>1, <1>2, <1>3, <1>4, <1>5 DEF Standing, LibraryTypeOK, Added
<1> QED
  BY <1>6, <1>7, StandingKeeps

\* An item is created without photos of proof.
LEMMA ItemsKeep ==
  ASSUME SavedPhotosAreProof, NEW c \in Catalogue, CreateItem(c)
  PROVE  SavedPhotosAreProof'
<1> DEFINE new == [title |-> c.title, lin |-> c.lin, nsn |-> c.nsn, media |-> {}]
           n == Len(item) + 1
<1>1. LibraryTypeOK
  BY DEF SavedPhotosAreProof
<1>2. Len(item) < MaxItems /\ item' = Append(item, new) /\ UNCHANGED <<inventory, row, proof, link>>
  BY DEF CreateItem
<1>3. item \in Seq(ItemRecords) /\ Len(item) \in Nat
  BY <1>1 DEF LibraryTypeOK, ItemRecords
<1>4. new \in ItemRecords
  <2> DEFINE lins == {d.lin : d \in Catalogue}
             nsns == {d.nsn : d \in Catalogue}
  <2>1. c.lin \in lins /\ c.nsn \in nsns
    BY Zenon
  <2>2. UNION lins \subseteq Lins /\ UNION nsns \subseteq Nsns
    BY DEF Lins, Nsns
  <2> HIDE DEF lins, nsns
  <2>3. c.lin \subseteq Lins /\ c.nsn \subseteq Nsns
    BY <2>1, <2>2
  <2> QED
    BY <2>3, LibraryAssumption DEF ItemRecords
<1>5. new.media = {}
  OBVIOUS
<1> HIDE DEF new
<1>6. /\ item' \in Seq(ItemRecords) /\ Len(item') = n /\ item'[n] = new
      /\ \A i \in SavedItems : item'[i] = item[i]
      /\ SavedItems' = SavedItems \cup {n} /\ n \notin SavedItems
  BY <1>2, <1>3, <1>4 DEF SavedItems
<1>7. LibraryTypeOK'
  <2>1. \A r \in Rows : row[r].item \in 0..Len(item') /\ row[r].sugg \in 0..Len(item')
    BY <1>1, <1>3, <1>6 DEF LibraryTypeOK
  <2>2. row \in [Rows -> [line: Lines, item: 0..Len(item'), sugg: 0..Len(item'),
                          status: {"absent", "open", "review", "done"}]]
    BY <1>1, <2>1 DEF LibraryTypeOK
  <2>3. Len(item') <= MaxItems
    BY <1>2, <1>3, <1>6, LibraryAssumption
  <2>4. Proofs' = Proofs /\ Added' = Added /\ \A p : ProofRow(p)' = ProofRow(p)
    BY <1>2 DEF Proofs, Added, ProofRow
  <2> QED
    BY <1>1, <1>2, <1>6, <2>2, <2>3, <2>4 DEF LibraryTypeOK, ItemRecords
<1>8. \A p : SavedAs(p)' = SavedAs(p)
  BY <1>5, <1>6 DEF SavedAs
<1>9. ASSUME NEW i \in SavedItems'
      PROVE  /\ Cardinality(item'[i].media) <= MaxSaved
             /\ \A p \in item'[i].media :
                  /\ p \in Proofs' /\ SavedAs(p)' = {i}
                  /\ proof'[p].state = "approved" /\ proof'[p].found
                  /\ row'[ProofRow(p)'].item = i
  <2>1. CASE i = n
    <3>1. item'[i].media = {}
      BY <1>5, <1>6, <2>1
    <3>2. Cardinality({}) = 0
      BY FS_EmptySet
    <3> QED
      BY <3>1, <3>2, LibraryAssumption
  <2>2. CASE i \in SavedItems
    BY <1>2, <1>6, <1>8, <2>2 DEF SavedPhotosAreProof, Proofs, ProofRow
  <2> QED
    BY <1>6, <2>1, <2>2
<1> QED
  BY <1>7, <1>9 DEF SavedPhotosAreProof

\* The photos an approval keeps with the item are of this proof or were kept
\* with it before, and no other item keeps one of them.
LEMMA SavesKeep ==
  ASSUME SavedPhotosAreProof, NEW p \in Proofs, NEW keep \in SavePhotos(p), ApproveAndSave(p, keep)
  PROVE  SavedPhotosAreProof'
<1> DEFINE r == ProofRow(p)
           old == row[r].item
           i == IF old = 0 THEN Len(item) + 1 ELSE old
           new == SavedItem(r, keep)
<1>1. LibraryTypeOK
  BY DEF SavedPhotosAreProof
<1>2. /\ proof[p].found /\ i <= MaxItems /\ proof[p].state = "pending"
      /\ proof' = [proof EXCEPT ![p].state = "approved"] /\ UNCHANGED <<inventory, link>>
      /\ item' = IF old = 0 THEN Append(item, new) ELSE [item EXCEPT ![i] = new]
      /\ row' = [row EXCEPT ![r].item = i, ![r].sugg = 0, ![r].status = "done"]
  BY DEF ApproveAndSave, Decided
<1>3. /\ Len(proof) \in Nat /\ proof \in Seq(ProofRecords) /\ p \in 1..Len(proof)
      /\ item \in Seq(ItemRecords) /\ Len(item) \in Nat
      /\ r \in Rows /\ r \in Added /\ old \in 0..Len(item)
  BY <1>1 DEF LibraryTypeOK, ProofRecords, ItemRecords, Added, Proofs
<1>4. /\ keep \subseteq PhotoOf(p) \cup ItemPhotos(old) /\ Cardinality(keep) <= MaxSaved
      /\ \A x \in keep : SavedAs(x) \subseteq {old}
  BY DEF SavePhotos
<1>5. keep \subseteq 1..MaxProofs
  <2>1. PhotoOf(p) \subseteq 1..MaxProofs
    BY <1>1, <1>3, LibraryAssumption DEF PhotoOf, LibraryTypeOK
  <2>2. ItemPhotos(old) \subseteq 1..MaxProofs
    <3>1. CASE old = 0
      BY <3>1 DEF ItemPhotos
    <3>2. CASE old # 0
      <4>1. item[old] \in ItemRecords
        BY <1>3, <3>2
      <4> QED
        BY <3>2, <4>1 DEF ItemPhotos, ItemRecords
    <3> QED
      BY <3>1, <3>2
  <2> QED
    BY <1>4, <2>1, <2>2
<1>6. new \in ItemRecords /\ new.media = keep
  <2>1. CASE old = 0
    <3>1. new = [title |-> row[r].line, lin |-> FirstOf(LineLins[row[r].line]),
                 nsn |-> FirstOf(LineNsns[row[r].line]), media |-> keep]
      BY <2>1 DEF SavedItem
    <3>2. row[r].line \in Lines
      BY <1>1, <1>3 DEF LibraryTypeOK
    <3>3. FirstOf(LineLins[row[r].line]) \subseteq Lins
      BY <3>2, LibraryAssumption DEF FirstOf
    <3>4. FirstOf(LineNsns[row[r].line]) \subseteq Nsns
      BY <3>2, LibraryAssumption DEF FirstOf
    <3> QED
      BY <1>5, <3>1, <3>2, <3>3, <3>4 DEF ItemRecords
  <2>2. CASE old # 0
    <3>1. new = [item[old] EXCEPT !.media = keep] /\ item[old] \in ItemRecords
      BY <1>3, <2>2 DEF SavedItem
    <3> QED
      BY <1>5, <3>1 DEF ItemRecords
  <2> QED
    BY <2>1, <2>2
<1> HIDE DEF new
<1>7. /\ item' \in Seq(ItemRecords) /\ Len(item') \in Nat /\ Len(item) <= Len(item')
      /\ Len(item') <= MaxItems /\ i \in SavedItems' /\ item'[i] = new /\ i # 0
      /\ SavedItems' = SavedItems \cup {i}
      /\ \A j \in SavedItems : j # i => item'[j] = item[j]
  <2>1. CASE old = 0
    <3>1. /\ item' \in Seq(ItemRecords) /\ Len(item') = Len(item) + 1 /\ item'[Len(item) + 1] = new
          /\ \A j \in 1..Len(item) : item'[j] = item[j]
      BY <1>2, <1>3, <1>6, <2>1
    <3>2. i = Len(item) + 1
      BY <2>1
    <3> QED
      BY <1>2, <1>3, <3>1, <3>2 DEF SavedItems
  <2>2. CASE old # 0
    <3>1. item \in [1..Len(item) -> ItemRecords] /\ i = old /\ i \in 1..Len(item)
      BY <1>3, <2>2
    <3>2. item' \in [1..Len(item) -> ItemRecords] /\ item' = [item EXCEPT ![i] = new]
      BY <1>2, <1>6, <2>2, <3>1
    <3>3. item' \in Seq(ItemRecords) /\ Len(item') = Len(item)
      BY <1>3, <3>2
    <3> QED
      BY <1>1, <1>3, <3>1, <3>2, <3>3 DEF SavedItems, LibraryTypeOK
  <2> QED
    BY <2>1, <2>2
<1>8. i \in 1..Len(item')
  BY <1>7 DEF SavedItems
<1>9. /\ proof' \in Seq(ProofRecords) /\ Len(proof') = Len(proof)
      /\ proof'[p].state = "approved"
      /\ \A q \in Proofs :
           /\ proof'[q].row = proof[q].row /\ proof'[q].found = proof[q].found
           /\ proof[q].state = "approved" => proof'[q].state = "approved"
  <2>1. proof \in [1..Len(proof) -> ProofRecords]
    BY <1>3
  <2>2. /\ proof' \in [1..Len(proof) -> ProofRecords] /\ proof'[p].state = "approved"
        /\ \A q \in Proofs :
             /\ proof'[q].row = proof[q].row /\ proof'[q].found = proof[q].found
             /\ proof[q].state = "approved" => proof'[q].state = "approved"
    BY <1>2, <1>3, <2>1 DEF ProofRecords, Proofs
  <2> QED
    BY <1>3, <2>2
<1> DEFINE rows == [Rows -> [line: Lines, item: 0..Len(item'), sugg: 0..Len(item'),
                             status: {"absent", "open", "review", "done"}]]
           one == [row EXCEPT ![r].item = i]
           two == [one EXCEPT ![r].sugg = 0]
<1>10. row' = [two EXCEPT ![r].status = "done"]
  BY <1>2
<1> HIDE DEF i, old, r
<1>11. row \in rows /\ i \in 0..Len(item') /\ 0 \in 0..Len(item')
  <2>1. \A q \in Rows : row[q].item \in 0..Len(item') /\ row[q].sugg \in 0..Len(item')
    BY <1>1, <1>3, <1>7 DEF LibraryTypeOK
  <2> QED
    BY <1>1, <1>7, <1>8, <2>1 DEF LibraryTypeOK
<1>12. one \in rows /\ one[r].item = i /\ \A q \in Rows : q # r => one[q] = row[q]
  BY <1>3, <1>11
<1> HIDE DEF one
<1>13. /\ two \in rows /\ two[r].item = i /\ two[r].sugg = 0
       /\ \A q \in Rows : q # r => two[q] = row[q]
  BY <1>3, <1>11, <1>12
<1> HIDE DEF two
<1>14. /\ row' \in rows /\ row'[r].item = i /\ row'[r].sugg = 0 /\ row'[r].status = "done"
       /\ \A q \in Rows : q # r => row'[q] = row[q]
  BY <1>3, <1>10, <1>13
<1>15. Added \subseteq Added'
  BY <1>14 DEF Added
<1>16. LibraryTypeOK'
  <2>1. \A q \in Rows : row'[q].item # 0 => row'[q].sugg = 0
    BY <1>1, <1>14 DEF LibraryTypeOK
  <2>2. \A q \in Proofs' : ProofRow(q)' \in Added'
    BY <1>1, <1>9, <1>15 DEF LibraryTypeOK, Proofs, ProofRow
  <2> QED
    BY <1>1, <1>2, <1>7, <1>9, <1>14, <2>1, <2>2 DEF LibraryTypeOK, ProofRecords, ItemRecords
<1>17. \A x \in keep : x = p \/ (old \in SavedItems /\ x \in item[old].media)
  BY <1>3, <1>4 DEF PhotoOf, ItemPhotos, SavedItems
<1>18. ASSUME NEW x \in item'[i].media
       PROVE  /\ x \in Proofs' /\ SavedAs(x)' = {i}
              /\ proof'[x].state = "approved" /\ proof'[x].found
              /\ row'[ProofRow(x)'].item = i
  <2>1. x \in keep /\ SavedAs(x) \subseteq {old}
    BY <1>4, <1>6, <1>7
  <2>2. \A j \in SavedItems' : j # i => x \notin item'[j].media
    <3>1. ASSUME NEW j \in SavedItems, j # i PROVE j \notin SavedAs(x)
      BY <1>3, <2>1, <3>1 DEF SavedItems, i
    <3> QED
      BY <1>7, <3>1 DEF SavedAs
  <2>3. SavedAs(x)' = {i}
    BY <1>6, <1>7, <2>1, <2>2 DEF SavedAs
  <2>4. CASE x = p
    BY <1>2, <1>3, <1>9, <1>14, <2>3, <2>4 DEF Proofs, ProofRow, r
  <2>5. CASE old \in SavedItems /\ x \in item[old].media
    <3>1. /\ x \in Proofs /\ proof[x].state = "approved" /\ proof[x].found
          /\ row[ProofRow(x)].item = old /\ ProofRow(x) \in Rows
      BY <1>1, <2>5 DEF SavedPhotosAreProof, LibraryTypeOK, Added
    <3>2. i = old
      BY <2>5 DEF SavedItems, i
    <3> QED
      BY <1>9, <1>14, <2>3, <3>1, <3>2 DEF Proofs, ProofRow
  <2> QED
    BY <1>17, <2>1, <2>4, <2>5
<1>19. ASSUME NEW j \in SavedItems, j # i, NEW x \in item[j].media
       PROVE  /\ x \in Proofs' /\ SavedAs(x)' = {j}
              /\ proof'[x].state = "approved" /\ proof'[x].found
              /\ row'[ProofRow(x)'].item = j
  <2>1. /\ x \in Proofs /\ SavedAs(x) = {j} /\ proof[x].state = "approved" /\ proof[x].found
        /\ row[ProofRow(x)].item = j /\ ProofRow(x) \in Rows
    BY <1>1, <1>19 DEF SavedPhotosAreProof, LibraryTypeOK, Added
  <2>2. x \notin keep
    <3>1. old # j
      BY <1>3, <1>19 DEF SavedItems, i
    <3> QED
      BY <1>4, <2>1, <3>1
  <2>3. SavedAs(x)' = {j}
    BY <1>6, <1>7, <1>19, <2>1, <2>2 DEF SavedAs
  <2>4. ProofRow(x) # r
    BY <1>3, <1>19, <2>1 DEF SavedItems, i, old
  <2> QED
    BY <1>9, <1>14, <2>1, <2>3, <2>4 DEF Proofs, ProofRow
<1>20. ASSUME NEW j \in SavedItems'
       PROVE  /\ Cardinality(item'[j].media) <= MaxSaved
              /\ \A x \in item'[j].media :
                   /\ x \in Proofs' /\ SavedAs(x)' = {j}
                   /\ proof'[x].state = "approved" /\ proof'[x].found
                   /\ row'[ProofRow(x)'].item = j
  <2>1. CASE j = i
    BY <1>4, <1>6, <1>7, <1>18, <2>1
  <2>2. CASE j \in SavedItems /\ j # i
    BY <1>7, <1>19, <2>2 DEF SavedPhotosAreProof
  <2> QED
    BY <1>7, <2>1, <2>2
<1> QED
  BY <1>16, <1>20 DEF SavedPhotosAreProof

LEMMA LibraryKeeps ==
  SavedPhotosAreProof /\ [LibraryNext]_libraryVars => SavedPhotosAreProof'
<1> SUFFICES ASSUME SavedPhotosAreProof, [LibraryNext]_libraryVars PROVE SavedPhotosAreProof'
  OBVIOUS
<1>1. LibraryTypeOK
  BY DEF SavedPhotosAreProof
<1>2. ASSUME UNCHANGED <<row, proof, item>>,
             inventory' \in [Inventories -> {"active", "closed"}],
             link' \in [Lines -> Rows \cup {None}]
      PROVE  SavedPhotosAreProof'
  <2>1. LibraryTypeOK'
    BY <1>1, <1>2 DEF LibraryTypeOK, Proofs, Added, ProofRow
  <2>2. Standing
    BY <1>1, <1>2 DEF Standing, LibraryTypeOK
  <2> QED
    BY <2>1, <2>2, StandingKeeps
<1>3. CASE UNCHANGED libraryVars
  BY <1>1, <1>2, <1>3 DEF libraryVars, LibraryTypeOK
<1>4. ASSUME NEW s \in Closable, NEW to \in {"active", "closed"}, SetInventory(s, to)
      PROVE  SavedPhotosAreProof'
  BY <1>1, <1>2, <1>4 DEF SetInventory, LibraryTypeOK
<1>5. ASSUME NEW r \in Rows, RowStep(r)
      PROVE  SavedPhotosAreProof'
  <2>1. Len(item) \in Nat /\ LinesOf[r] \subseteq Lines
    BY <1>1, LibraryAssumption DEF LibraryTypeOK
  <2>2. ASSUME NEW l \in LinesOf[r], NEW i \in IF r \in Named THEN 0..Len(item) ELSE {0},
               AddRow(r, l, i)
        PROVE  SavedPhotosAreProof'
    <3>1. /\ i \in 0..Len(item) /\ l \in Lines
          /\ (IF i = 0 /\ l # Blank THEN Suggestion(l) ELSE 0) \in 0..Len(item)
      BY <1>1, <2>1, SuggestionsAreSaved
    <3> QED
      BY <2>2, <3>1, RowsKeep DEF AddRow
  <2>3. ASSUME NEW l \in LinesOf[r] \ {Blank}, ImportRow(r, l)
        PROVE  SavedPhotosAreProof'
    <3>1. PICK i \in 0..Len(item), sugg \in 0..Len(item) :
            (i = 0 \/ sugg = 0) /\ Inserted(r, l, i, sugg)
      BY <1>1, <2>1, <2>3, SuggestionsAreSaved DEF ImportRow
    <3> QED
      BY <2>1, <3>1, RowsKeep
  <2>4. ASSUME NEW g \in Groups(Approved), Remember(r, g)
        PROVE  SavedPhotosAreProof'
    <3> DEFINE t == Representative(g)
    <3>1. /\ ApprovedOf(t) # {} /\ link' = [link EXCEPT ![row[r].line] = t]
          /\ UNCHANGED <<inventory, row, proof, item>>
      BY <2>4 DEF Remember
    <3>2. t \in Rows
      BY <1>1, <3>1 DEF ApprovedOf, Approved, LibraryTypeOK, Added
    <3> HIDE DEF t
    <3>3. link' \in [Lines -> Rows \cup {None}]
      BY <1>1, <3>1, <3>2 DEF LibraryTypeOK
    <3> QED
      BY <1>1, <1>2, <3>1, <3>3 DEF LibraryTypeOK
  <2> QED
    BY <1>5, <2>2, <2>3, <2>4, MatchesKeep, SubmitsKeep DEF RowStep
<1>6. ASSUME NEW p \in Proofs, ReviewStep(p)
      PROVE  SavedPhotosAreProof'
  BY <1>6, DecisionsKeep, SavesKeep DEF ReviewStep
<1>7. ASSUME NEW l \in Lines, Forget(l)
      PROVE  SavedPhotosAreProof'
  BY <1>1, <1>2, <1>7 DEF Forget, LibraryTypeOK
<1> QED
  BY <1>3, <1>4, <1>5, <1>6, <1>7, ItemsKeep DEF LibraryNext

\* A photo kept with a saved item is an approved find of a row linked to that
\* item, no other item keeps it, and an item keeps no more than it may, for
\* whatever rows, wordings and items.  The property is its own invariant.
THEOREM SavedPhotosAreProofCorrect == LibrarySpec => []SavedPhotosAreProof
BY LibraryInitially, LibraryKeeps, PTL DEF LibrarySpec

-----------------------------------------------------------------------------
(***************************************************************************)
(* The identity of an observation, and the groups it makes.                *)
(***************************************************************************)

LinsAt(p) == Profile(ProofRow(p)).lins
NsnsAt(p) == Profile(ProofRow(p)).nsns
LineAt(p) == Profile(ProofRow(p)).line
Alone(S) == \E x \in S : S = {x}
OneOf(S) == CHOOSE x \in S : TRUE

\* The sizes the code asks for, and the member it takes.
LEMMA Sizes ==
  ASSUME NEW S, IsFiniteSet(S)
  PROVE  /\ Cardinality(S) \in Nat
         /\ Cardinality(S) = 1 <=> Alone(S)
         /\ Cardinality(S) > 1 <=> S # {} /\ ~Alone(S)
         /\ Alone(S) => S = {OneOf(S)}
<1>1. Cardinality(S) \in Nat /\ (Cardinality(S) = 0 <=> S = {})
  BY FS_CardinalityType, FS_EmptySet
<1>2. Cardinality(S) = 1 <=> \E x : S = {x}
  BY FS_Singleton
<1>3. (\E x : S = {x}) <=> Alone(S)
  BY DEF Alone
<1>4. Alone(S) => OneOf(S) \in S
  BY DEF Alone, OneOf
<1>5. Alone(S) => S = {OneOf(S)}
  BY <1>4 DEF Alone
<1> QED
  BY <1>1, <1>2, <1>3, <1>5 DEF Alone

\* Identifiers come from the wording of the row and from its item, and there
\* are finitely many.
LEMMA ProfilesAreFinite ==
  ASSUME LibraryTypeOK, NEW p \in Proofs
  PROVE  /\ IsFiniteSet(LinsAt(p)) /\ IsFiniteSet(NsnsAt(p))
         /\ LinsAt(p) \subseteq Lins /\ NsnsAt(p) \subseteq Nsns
<1>1. /\ row[ProofRow(p)].line \in Lines /\ row[ProofRow(p)].item \in 0..Len(item)
      /\ Len(item) \in Nat
  BY DEF LibraryTypeOK, Added
<1>2. /\ ToSet(LineLins[row[ProofRow(p)].line]) \subseteq Lins
      /\ ToSet(LineNsns[row[ProofRow(p)].line]) \subseteq Nsns
  BY <1>1, LibraryAssumption DEF ToSet
<1>3. ASSUME NEW i \in 0..Len(item) PROVE ItemLin(i) \subseteq Lins /\ ItemNsn(i) \subseteq Nsns
  <2>1. CASE i = 0
    BY <2>1 DEF ItemLin, ItemNsn
  <2>2. CASE i # 0
    <3>1. i \in 1..Len(item)
      BY <1>1, <2>2
    <3>2. item[i] \in ItemRecords
      <4>1. item \in Seq(ItemRecords)
        BY DEF LibraryTypeOK, ItemRecords
      <4> QED
        BY <3>1, <4>1
    <3>3. item[i].lin \subseteq Lins /\ item[i].nsn \subseteq Nsns
      BY <3>2 DEF ItemRecords
    <3> QED
      BY <2>2, <3>3 DEF ItemLin, ItemNsn
  <2> QED
    BY <2>1, <2>2
<1>4. LinsAt(p) \subseteq Lins /\ NsnsAt(p) \subseteq Nsns
  BY <1>1, <1>2, <1>3 DEF LinsAt, NsnsAt, Profile
<1> QED
  BY <1>4, LibraryAssumption, FS_Subset

LEMMA MappedAreFinite ==
  ASSUME LibraryTypeOK, NEW obs \in SUBSET Proofs, NEW lin
  PROVE  IsFiniteSet(NsnsOfLin(lin, obs))
<1>1. NsnsOfLin(lin, obs) \subseteq Nsns
  BY ProfilesAreFinite DEF NsnsOfLin, NsnsAt
<1> QED
  BY <1>1, LibraryAssumption, FS_Subset

\* What the identity of observation p can be among obs, and when.
IdentityFits(p, obs) ==
  \/ \E n : NsnsAt(p) = {n} /\ Identity(p, obs) = <<"nsn", n>>
  \/ \E lin : /\ NsnsAt(p) = {} /\ LinsAt(p) = {lin}
              /\ \/ /\ ~Alone(NsnsOfLin(lin, obs)) /\ Identity(p, obs) = <<"lin", lin>>
                 \/ \E n : NsnsOfLin(lin, obs) = {n} /\ Identity(p, obs) = <<"nsn", n>>
  \/ /\ NsnsAt(p) = {} /\ LinsAt(p) = {} /\ LineAt(p) # Blank
     /\ Identity(p, obs) = <<"line", LineAt(p)>>
  \/ /\ ~Alone(NsnsAt(p)) /\ ~(NsnsAt(p) = {} /\ Alone(LinsAt(p)))
     /\ ~(NsnsAt(p) = {} /\ LinsAt(p) = {} /\ LineAt(p) # Blank)
     /\ Identity(p, obs) = <<"isolated", p>>

LEMMA IdentityIs ==
  ASSUME LibraryTypeOK, NEW obs \in SUBSET Proofs, NEW p \in Proofs
  PROVE  IdentityFits(p, obs)
<1> DEFINE lin == OneOf(LinsAt(p))
           mapped == NsnsOfLin(lin, obs)
<1>1. Identity(p, obs) =
        CASE Cardinality(NsnsAt(p)) = 1 -> <<"nsn", OneOf(NsnsAt(p))>>
          [] Cardinality(NsnsAt(p)) > 1 -> <<"isolated", p>>
          [] NsnsAt(p) = {} /\ Cardinality(LinsAt(p)) = 1 ->
               IF Cardinality(mapped) = 1 THEN <<"nsn", OneOf(mapped)>> ELSE <<"lin", lin>>
          [] NsnsAt(p) = {} /\ Cardinality(LinsAt(p)) > 1 -> <<"isolated", p>>
          [] OTHER -> IF LineAt(p) # Blank THEN <<"line", LineAt(p)>> ELSE <<"isolated", p>>
  BY DEF Identity, OneOf, NsnsAt, LinsAt, LineAt
<1>2. /\ Cardinality(NsnsAt(p)) = 1 <=> Alone(NsnsAt(p))
      /\ Cardinality(NsnsAt(p)) > 1 <=> NsnsAt(p) # {} /\ ~Alone(NsnsAt(p))
      /\ Alone(NsnsAt(p)) => NsnsAt(p) = {OneOf(NsnsAt(p))}
  BY ProfilesAreFinite, Sizes
<1>3. /\ Cardinality(LinsAt(p)) = 1 <=> Alone(LinsAt(p))
      /\ Cardinality(LinsAt(p)) > 1 <=> LinsAt(p) # {} /\ ~Alone(LinsAt(p))
      /\ Alone(LinsAt(p)) => LinsAt(p) = {lin}
  BY ProfilesAreFinite, Sizes
<1>4. /\ Cardinality(mapped) = 1 <=> Alone(mapped)
      /\ Alone(mapped) => mapped = {OneOf(mapped)}
  BY MappedAreFinite, Sizes
<1>5. ~Alone({})
  BY DEF Alone
<1> HIDE DEF lin, mapped
<1>6. CASE Alone(NsnsAt(p))
  BY <1>1, <1>2, <1>6 DEF IdentityFits
<1>7. CASE NsnsAt(p) # {} /\ ~Alone(NsnsAt(p))
  BY <1>1, <1>2, <1>7 DEF IdentityFits
<1>8. CASE NsnsAt(p) = {} /\ Alone(LinsAt(p))
  <2>1. LinsAt(p) = {lin} /\ ~(Cardinality(NsnsAt(p)) = 1) /\ ~(Cardinality(NsnsAt(p)) > 1)
    BY <1>2, <1>3, <1>5, <1>8
  <2>2. Identity(p, obs) = IF Alone(mapped) THEN <<"nsn", OneOf(mapped)>> ELSE <<"lin", lin>>
    BY <1>1, <1>3, <1>4, <1>8, <2>1
  <2>3. mapped = NsnsOfLin(lin, obs)
    BY DEF mapped
  <2> QED
    BY <1>4, <1>8, <2>1, <2>2, <2>3 DEF IdentityFits
<1>9. CASE NsnsAt(p) = {} /\ LinsAt(p) # {} /\ ~Alone(LinsAt(p))
  BY <1>1, <1>2, <1>3, <1>5, <1>9 DEF IdentityFits
<1>10. CASE NsnsAt(p) = {} /\ LinsAt(p) = {}
  BY <1>1, <1>2, <1>3, <1>5, <1>10 DEF IdentityFits
<1> QED
  BY <1>6, <1>7, <1>8, <1>9, <1>10

\* Two sets of observations agree about an observation when they agree about
\* the NSNs its LIN stands for.
LEMMA SameIdentity ==
  ASSUME LibraryTypeOK, NEW A \in SUBSET Proofs, NEW B \in SUBSET Proofs, NEW p \in Proofs,
         \A lin : NsnsAt(p) = {} /\ LinsAt(p) = {lin} => NsnsOfLin(lin, A) = NsnsOfLin(lin, B)
  PROVE  Identity(p, A) = Identity(p, B)
<1>1. IdentityFits(p, A) /\ IdentityFits(p, B) /\ ~Alone({})
  BY IdentityIs DEF Alone
<1>2. CASE Alone(NsnsAt(p))
  <2>1. \A obs : IdentityFits(p, obs) => \E n : NsnsAt(p) = {n} /\ Identity(p, obs) = <<"nsn", n>>
    BY <1>1, <1>2 DEF IdentityFits
  <2> QED
    BY <1>1, <2>1
<1>3. CASE NsnsAt(p) = {} /\ Alone(LinsAt(p))
  <2>1. PICK lin : LinsAt(p) = {lin}
    BY <1>3 DEF Alone
  <2>2. NsnsOfLin(lin, A) = NsnsOfLin(lin, B)
    BY <1>3, <2>1
  <2>3. LinsAt(p) # {}
    BY <2>1
  <2>4. \A obs : IdentityFits(p, obs) =>
          \/ ~Alone(NsnsOfLin(lin, obs)) /\ Identity(p, obs) = <<"lin", lin>>
          \/ \E n : NsnsOfLin(lin, obs) = {n} /\ Identity(p, obs) = <<"nsn", n>>
    BY <1>3, <2>1, <2>3 DEF IdentityFits
  <2>5. \A n : Alone({n})
    BY DEF Alone
  <2> QED
    BY <1>1, <2>2, <2>4, <2>5
<1>4. CASE NsnsAt(p) = {} /\ LinsAt(p) = {} /\ LineAt(p) # Blank
  <2>1. \A obs : IdentityFits(p, obs) => Identity(p, obs) = <<"line", LineAt(p)>>
    BY <1>1, <1>4 DEF IdentityFits
  <2> QED
    BY <1>1, <2>1
<1>5. CASE /\ ~Alone(NsnsAt(p)) /\ ~(NsnsAt(p) = {} /\ Alone(LinsAt(p)))
           /\ ~(NsnsAt(p) = {} /\ LinsAt(p) = {} /\ LineAt(p) # Blank)
  <2>1. (\A n : NsnsAt(p) # {n}) /\ (\A lin : ~(NsnsAt(p) = {} /\ LinsAt(p) = {lin}))
    BY <1>5 DEF Alone
  <2>2. \A obs : IdentityFits(p, obs) => Identity(p, obs) = <<"isolated", p>>
    BY <1>5, <2>1 DEF IdentityFits
  <2> QED
    BY <1>1, <2>2
<1> QED
  BY <1>2, <1>3, <1>4, <1>5

-----------------------------------------------------------------------------
(***************************************************************************)
(* What the neighbourhood queries reach.                                   *)
(***************************************************************************)

\* Observations tell what a LIN stands for as the whole history does, once all
\* those with that LIN and one NSN are among them.
LEMMA LinsAreRead ==
  ASSUME NEW obs \in SUBSET Approved, NEW lin,
         \A q \in Approved : LinsAt(q) = {lin} /\ Cardinality(NsnsAt(q)) = 1 => q \in obs
  PROVE  NsnsOfLin(lin, obs) = NsnsOfLin(lin, Approved)
<1> DEFINE telling(O) == {q \in O : /\ Profile(ProofRow(q)).lins = {lin}
                                    /\ Cardinality(Profile(ProofRow(q)).nsns) = 1}
<1>1. telling(obs) = telling(Approved)
  BY DEF LinsAt, NsnsAt
<1>2. \A O : NsnsOfLin(lin, O) = UNION {Profile(ProofRow(q)).nsns : q \in telling(O)}
  BY DEF NsnsOfLin
<1> HIDE DEF telling
<1> QED
  BY <1>1, <1>2

\* What shares an identifier or a wording with an observation is a hop away.
LEMMA HopsReach ==
  ASSUME NEW S \in SUBSET Approved, NEW p \in S, NEW q \in Approved,
         \/ Overlap(LinsAt(p), LinsAt(q)) \/ Overlap(NsnsAt(p), NsnsAt(q))
         \/ LineAt(p) = LineAt(q) /\ LineAt(p) # Blank
  PROVE  q \in Neighborhood(KeysOf(S))
<1> DEFINE ws == {Profile(ProofRow(x)) : x \in S}
<1>1. /\ KeysOf(S).lines = {w.line : w \in ws} \ {Blank}
      /\ KeysOf(S).lins = UNION {w.lins : w \in ws}
      /\ KeysOf(S).nsns = UNION {w.nsns : w \in ws}
  BY DEF KeysOf
<1>2. Profile(ProofRow(p)) \in ws
  OBVIOUS
<1> HIDE DEF ws
<1>3. /\ LinsAt(p) \subseteq KeysOf(S).lins /\ NsnsAt(p) \subseteq KeysOf(S).nsns
      /\ LineAt(p) # Blank => LineAt(p) \in KeysOf(S).lines
  BY <1>1, <1>2 DEF LinsAt, NsnsAt, LineAt
<1>4. \/ LineAt(q) \in KeysOf(S).lines \/ Overlap(LinsAt(q), KeysOf(S).lins)
      \/ Overlap(NsnsAt(q), KeysOf(S).nsns)
  BY <1>3 DEF Overlap
<1> HIDE DEF KeysOf
<1> QED
  BY <1>4 DEF Neighborhood, LinsAt, NsnsAt, LineAt

\* One key at a time.
LEMMA KeysReach ==
  ASSUME NEW targets, NEW nsns, NEW lins, NEW q \in Approved
  PROVE  /\ q \in Neighborhood([NoKeys EXCEPT !.rows = targets]) <=> ProofRow(q) \in targets
         /\ q \in Neighborhood([NoKeys EXCEPT !.nsns = nsns]) <=> Overlap(NsnsAt(q), nsns)
         /\ q \in Neighborhood([NoKeys EXCEPT !.lins = lins]) <=> Overlap(LinsAt(q), lins)
<1>1. [NoKeys EXCEPT !.rows = targets] =
        [rows |-> targets, items |-> {}, lines |-> {}, lins |-> {}, nsns |-> {}]
  BY DEF NoKeys
<1>2. [NoKeys EXCEPT !.nsns = nsns] =
        [rows |-> {}, items |-> {}, lines |-> {}, lins |-> {}, nsns |-> nsns]
  BY DEF NoKeys
<1>3. [NoKeys EXCEPT !.lins = lins] =
        [rows |-> {}, items |-> {}, lines |-> {}, lins |-> lins, nsns |-> {}]
  BY DEF NoKeys
<1> QED
  BY <1>1, <1>2, <1>3 DEF Neighborhood, Overlap, LinsAt, NsnsAt

\* The parts of what is read around the target rows.
OwnOf(targets) == Neighborhood([NoKeys EXCEPT !.rows = targets])
DirectOf(targets) == OwnOf(targets) \cup Neighborhood(KeysOf(OwnOf(targets)))
NsnsNear(targets) ==
  {n \in KeysOf(DirectOf(targets)).nsns :
     \E p \in OwnOf(targets) : Identity(p, DirectOf(targets)) = <<"nsn", n>>}
ByNsnOf(targets) == Neighborhood([NoKeys EXCEPT !.nsns = NsnsNear(targets)])
ByLinOf(targets) == Neighborhood([NoKeys EXCEPT !.lins = KeysOf(ByNsnOf(targets)).lins])

LEMMA TargetParts ==
  ASSUME NEW targets
  PROVE  /\ TargetObservations(targets) =
              DirectOf(targets) \cup ByNsnOf(targets) \cup ByLinOf(targets)
         /\ TargetObservations(targets) \subseteq Approved
         /\ OwnOf(targets) = {p \in Approved : ProofRow(p) \in targets}
         /\ DirectOf(targets) \subseteq Approved /\ ByNsnOf(targets) \subseteq Approved
         /\ ByNsnOf(targets) = {q \in Approved : Overlap(NsnsAt(q), NsnsNear(targets))}
         /\ \A q \in Approved, c \in ByNsnOf(targets) :
              Overlap(LinsAt(c), LinsAt(q)) => q \in ByLinOf(targets)
<1>1. \A keys : Neighborhood(keys) \subseteq Approved
  BY DEF Neighborhood
<1>2. TargetObservations(targets) = DirectOf(targets) \cup ByNsnOf(targets) \cup ByLinOf(targets)
  BY DEF TargetObservations, OwnOf, DirectOf, NsnsNear, ByNsnOf, ByLinOf
<1>3. /\ OwnOf(targets) \subseteq Approved /\ DirectOf(targets) \subseteq Approved
      /\ ByNsnOf(targets) \subseteq Approved /\ ByLinOf(targets) \subseteq Approved
  BY <1>1 DEF OwnOf, DirectOf, ByNsnOf, ByLinOf
<1>4. OwnOf(targets) = {p \in Approved : ProofRow(p) \in targets}
  BY <1>3, KeysReach DEF OwnOf
<1>5. ByNsnOf(targets) = {q \in Approved : Overlap(NsnsAt(q), NsnsNear(targets))}
  BY <1>3, KeysReach DEF ByNsnOf
<1>6. ASSUME NEW q \in Approved, NEW c \in ByNsnOf(targets), Overlap(LinsAt(c), LinsAt(q))
      PROVE  q \in ByLinOf(targets)
  <2>1. KeysOf(ByNsnOf(targets)).lins =
          UNION {w.lins : w \in {Profile(ProofRow(x)) : x \in ByNsnOf(targets)}}
    BY DEF KeysOf
  <2>2. LinsAt(c) \subseteq KeysOf(ByNsnOf(targets)).lins
    BY <2>1 DEF LinsAt
  <2>3. Overlap(LinsAt(q), KeysOf(ByNsnOf(targets)).lins)
    BY <1>6, <2>2 DEF Overlap
  <2> QED
    BY <2>3, KeysReach DEF ByLinOf
<1> QED
  BY <1>2, <1>3, <1>4, <1>5, <1>6

\* What an identity says of its observation.
LEMMA NsnTells ==
  ASSUME LibraryTypeOK, NEW obs \in SUBSET Proofs, NEW p \in Proofs, NEW n,
         Identity(p, obs) = <<"nsn", n>>
  PROVE  \/ NsnsAt(p) = {n}
         \/ NsnsAt(p) = {} /\ \E lin : LinsAt(p) = {lin} /\ NsnsOfLin(lin, obs) = {n}
<1>1. IdentityFits(p, obs)
  BY IdentityIs
<1> QED
  BY <1>1 DEF IdentityFits

LEMMA LinTells ==
  ASSUME LibraryTypeOK, NEW obs \in SUBSET Proofs, NEW p \in Proofs, NEW lin,
         Identity(p, obs) = <<"lin", lin>>
  PROVE  NsnsAt(p) = {} /\ LinsAt(p) = {lin}
<1>1. IdentityFits(p, obs)
  BY IdentityIs
<1> QED
  BY <1>1 DEF IdentityFits

LEMMA LineTells ==
  ASSUME LibraryTypeOK, NEW obs \in SUBSET Proofs, NEW p \in Proofs, NEW l,
         Identity(p, obs) = <<"line", l>>
  PROVE  NsnsAt(p) = {} /\ LinsAt(p) = {} /\ LineAt(p) = l /\ l # Blank
<1>1. IdentityFits(p, obs)
  BY IdentityIs
<1> QED
  BY <1>1 DEF IdentityFits

LEMMA IsolatedTells ==
  ASSUME LibraryTypeOK, NEW obs \in SUBSET Proofs, NEW p \in Proofs, NEW q,
         Identity(p, obs) = <<"isolated", q>>
  PROVE  p = q /\ ~Alone(NsnsAt(p))
<1>1. IdentityFits(p, obs)
  BY IdentityIs
<1> QED
  BY <1>1 DEF IdentityFits

LEMMA IdentityKinds ==
  ASSUME LibraryTypeOK, NEW obs \in SUBSET Proofs, NEW p \in Proofs
  PROVE  \E x : Identity(p, obs) \in {<<"nsn", x>>, <<"lin", x>>, <<"line", x>>, <<"isolated", x>>}
<1>1. IdentityFits(p, obs)
  BY IdentityIs
<1> QED
  BY <1>1 DEF IdentityFits

\* Where an NSN that a LIN stands for comes from.
LEMMA MappedFrom ==
  ASSUME NEW obs, NEW lin, NEW n \in NsnsOfLin(lin, obs)
  PROVE  \E q \in obs : LinsAt(q) = {lin} /\ n \in NsnsAt(q)
BY DEF NsnsOfLin, LinsAt, NsnsAt

\* The group of an observation of a target row is that of the whole history.
LEMMA TargetsAreExact ==
  ASSUME LibraryTypeOK, NEW targets, NEW p \in Approved, ProofRow(p) \in targets
  PROVE  /\ p \in TargetObservations(targets)
         /\ GroupOf(p, TargetObservations(targets)) = GroupOf(p, Approved)
<1> DEFINE obs == TargetObservations(targets)
           own == OwnOf(targets)
           direct == DirectOf(targets)
<1>1. /\ Approved \subseteq Proofs /\ obs \subseteq Approved /\ direct \subseteq obs
      /\ own \subseteq direct /\ own \subseteq Approved /\ direct \subseteq Approved /\ p \in own
  <2>1. Approved \subseteq Proofs
    BY DEF Approved
  <2>2. own \subseteq direct
    BY DEF DirectOf
  <2> QED
    BY <2>1, <2>2, TargetParts
<1>2. ASSUME NEW q \in Approved,
             \/ Overlap(LinsAt(p), LinsAt(q)) \/ Overlap(NsnsAt(p), NsnsAt(q))
             \/ LineAt(p) = LineAt(q) /\ LineAt(p) # Blank
      PROVE  q \in direct
  BY <1>1, <1>2, HopsReach DEF DirectOf
<1>3. ASSUME NEW lin, LinsAt(p) = {lin}
      PROVE  /\ NsnsOfLin(lin, direct) = NsnsOfLin(lin, Approved)
             /\ NsnsOfLin(lin, obs) = NsnsOfLin(lin, Approved)
  <2>1. \A q \in Approved : LinsAt(q) = {lin} => q \in direct
    BY <1>2, <1>3 DEF Overlap
  <2> QED
    BY <1>1, <2>1, LinsAreRead
<1>4. Identity(p, direct) = Identity(p, Approved) /\ Identity(p, obs) = Identity(p, Approved)
  BY <1>1, <1>3, SameIdentity
<1> HIDE DEF obs, own, direct
<1>5. ASSUME NEW n, Identity(p, Approved) = <<"nsn", n>>, NEW q \in Approved, n \in NsnsAt(q)
      PROVE  q \in ByNsnOf(targets)
  <2>1. PICK c \in direct : n \in NsnsAt(c)
    <3>1. CASE NsnsAt(p) = {n}
      BY <1>1, <3>1
    <3>2. CASE \E lin : LinsAt(p) = {lin} /\ NsnsOfLin(lin, Approved) = {n}
      <4>1. PICK lin : LinsAt(p) = {lin} /\ NsnsOfLin(lin, Approved) = {n}
        BY <3>2
      <4>2. PICK c \in Approved : LinsAt(c) = {lin} /\ n \in NsnsAt(c)
        BY <4>1, MappedFrom
      <4> QED
        BY <1>2, <4>1, <4>2 DEF Overlap
    <3> QED
      BY <1>1, <1>5, <3>1, <3>2, NsnTells
  <2>2. KeysOf(direct).nsns = UNION {w.nsns : w \in {Profile(ProofRow(x)) : x \in direct}}
    BY DEF KeysOf
  <2>3. n \in KeysOf(direct).nsns
    BY <2>1, <2>2 DEF NsnsAt
  <2>4. n \in NsnsNear(targets)
    BY <1>1, <1>4, <1>5, <2>3 DEF NsnsNear, own, direct
  <2> QED
    BY <1>5, <2>4, TargetParts DEF Overlap
<1>6. ASSUME NEW n, Identity(p, Approved) = <<"nsn", n>>, NEW lin,
             NEW c \in Approved, LinsAt(c) = {lin}, n \in NsnsAt(c)
      PROVE  /\ NsnsOfLin(lin, obs) = NsnsOfLin(lin, Approved)
             /\ \A q \in Approved : LinsAt(q) = {lin} => q \in obs
  <2>1. c \in ByNsnOf(targets)
    BY <1>5, <1>6
  <2>2. \A q \in Approved : LinsAt(q) = {lin} => q \in obs
    BY <1>6, <2>1, TargetParts DEF Overlap, obs
  <2> QED
    BY <1>1, <2>2, LinsAreRead
<1>7. ASSUME NEW q \in Approved, Identity(q, Approved) = Identity(p, Approved)
      PROVE  q \in obs /\ Identity(q, obs) = Identity(q, Approved)
  <2>1. PICK x : Identity(p, Approved) \in
                   {<<"nsn", x>>, <<"lin", x>>, <<"line", x>>, <<"isolated", x>>}
    BY <1>1, IdentityKinds
  <2>2. CASE Identity(p, Approved) = <<"nsn", x>>
    <3>1. CASE NsnsAt(q) = {x}
      <4>1. q \in obs
        BY <1>5, <2>2, <3>1, TargetParts DEF obs
      <4>2. Identity(q, obs) = Identity(q, Approved)
        BY <1>1, <3>1, SameIdentity
      <4> QED
        BY <4>1, <4>2
    <3>2. CASE NsnsAt(q) = {} /\ \E lin : LinsAt(q) = {lin} /\ NsnsOfLin(lin, Approved) = {x}
      <4>1. PICK lin : LinsAt(q) = {lin} /\ NsnsOfLin(lin, Approved) = {x}
        BY <3>2
      <4>2. PICK c \in Approved : LinsAt(c) = {lin} /\ x \in NsnsAt(c)
        BY <4>1, MappedFrom
      <4>3. q \in obs /\ NsnsOfLin(lin, obs) = NsnsOfLin(lin, Approved)
        BY <1>6, <2>2, <4>1, <4>2
      <4> QED
        BY <1>1, <4>1, <4>3, SameIdentity
    <3> QED
      BY <1>1, <1>7, <2>2, <3>1, <3>2, NsnTells
  <2>3. CASE Identity(p, Approved) = <<"lin", x>>
    <3>1. LinsAt(p) = {x} /\ LinsAt(q) = {x}
      BY <1>1, <1>7, <2>3, LinTells
    <3>2. q \in obs
      BY <1>1, <1>2, <3>1 DEF Overlap
    <3> QED
      BY <1>1, <1>3, <3>1, <3>2, SameIdentity
  <2>4. CASE Identity(p, Approved) = <<"line", x>>
    <3>1. LineAt(p) = x /\ LineAt(q) = x /\ x # Blank /\ LinsAt(q) = {}
      BY <1>1, <1>7, <2>4, LineTells
    <3>2. q \in obs
      BY <1>1, <1>2, <3>1
    <3> QED
      BY <1>1, <3>1, <3>2, SameIdentity
  <2>5. CASE Identity(p, Approved) = <<"isolated", x>>
    <3>1. p = x /\ q = x
      BY <1>1, <1>7, <2>5, IsolatedTells
    <3> QED
      BY <1>1, <1>4, <3>1
  <2> QED
    BY <2>1, <2>2, <2>3, <2>4, <2>5
<1>8. ASSUME NEW q \in obs, Identity(q, obs) = Identity(p, obs)
      PROVE  Identity(q, Approved) = Identity(p, Approved)
  <2>1. PICK x : Identity(p, Approved) \in
                   {<<"nsn", x>>, <<"lin", x>>, <<"line", x>>, <<"isolated", x>>}
    BY <1>1, IdentityKinds
  <2>2. CASE Identity(p, Approved) = <<"nsn", x>>
    <3>1. CASE NsnsAt(q) = {x}
      <4>1. Identity(q, obs) = Identity(q, Approved)
        BY <1>1, <3>1, SameIdentity
      <4> QED
        BY <1>4, <1>8, <4>1
    <3>2. CASE NsnsAt(q) = {} /\ \E lin : LinsAt(q) = {lin} /\ NsnsOfLin(lin, obs) = {x}
      <4>1. PICK lin : LinsAt(q) = {lin} /\ NsnsOfLin(lin, obs) = {x}
        BY <3>2
      <4>2. PICK c \in obs : LinsAt(c) = {lin} /\ x \in NsnsAt(c)
        BY <4>1, MappedFrom
      <4>3. NsnsOfLin(lin, obs) = NsnsOfLin(lin, Approved)
        BY <1>1, <1>6, <2>2, <4>1, <4>2
      <4>4. Identity(q, obs) = Identity(q, Approved)
        BY <1>1, <4>1, <4>3, SameIdentity
      <4> QED
        BY <1>4, <1>8, <4>4
    <3> QED
      BY <1>1, <1>4, <1>8, <2>2, <3>1, <3>2, NsnTells
  <2>3. CASE Identity(p, Approved) = <<"lin", x>>
    <3>1. LinsAt(p) = {x} /\ LinsAt(q) = {x}
      BY <1>1, <1>4, <1>8, <2>3, LinTells
    <3>2. Identity(q, obs) = Identity(q, Approved)
      BY <1>1, <1>3, <3>1, SameIdentity
    <3> QED
      BY <1>4, <1>8, <3>2
  <2>4. CASE Identity(p, Approved) = <<"line", x>>
    <3>1. LinsAt(q) = {}
      BY <1>1, <1>4, <1>8, <2>4, LineTells
    <3>2. Identity(q, obs) = Identity(q, Approved)
      BY <1>1, <3>1, SameIdentity
    <3> QED
      BY <1>4, <1>8, <3>2
  <2>5. CASE Identity(p, Approved) = <<"isolated", x>>
    <3>1. p = x /\ q = x
      BY <1>1, <1>4, <1>8, <2>5, IsolatedTells
    <3> QED
      BY <3>1
  <2> QED
    BY <2>1, <2>2, <2>3, <2>4, <2>5
<1>9. GroupOf(p, obs) = GroupOf(p, Approved)
  <2>1. \A q : q \in GroupOf(p, obs) <=> q \in obs /\ Identity(q, obs) = Identity(p, obs)
    BY DEF GroupOf
  <2>2. \A q : q \in GroupOf(p, Approved) <=>
                 q \in Approved /\ Identity(q, Approved) = Identity(p, Approved)
    BY DEF GroupOf
  <2>3. GroupOf(p, obs) \subseteq obs /\ GroupOf(p, Approved) \subseteq Approved
    BY DEF GroupOf
  <2> QED
    BY <1>1, <1>4, <1>7, <1>8, <2>1, <2>2, <2>3
<1> QED
  BY <1>1, <1>9 DEF obs

\* A bounded set of numbers has a greatest member, and Max returns it.
LEMMA GreatestExists ==
  ASSUME NEW n \in Nat, NEW S \in SUBSET (0..n), S # {}
  PROVE  Max(S) \in S
<1> DEFINE T == {k \in Nat : n - k \in S}
           Less == {ss \in Nat \X Nat : ss[1] < ss[2]}
<1>1. T \in SUBSET Nat /\ T # {}
  <2>1. PICK x \in S : TRUE
    OBVIOUS
  <2>2. n - x \in Nat /\ n - (n - x) = x
    BY <2>1
  <2> QED
    BY <2>1, <2>2
<1>2. IsWellFoundedOn(Less, Nat)
  BY NatLessThanWellFounded DEF OpToRel
<1>3. PICK k \in T : \A j \in T : <<j, k>> \notin Less
  <2> HIDE DEF Less, T
  <2> QED
    BY <1>1, <1>2, WFMin
<1>4. ASSUME NEW y \in S PROVE n - k >= y
  <2>1. n - y \in T
    OBVIOUS
  <2>2. <<n - y, k>> \in Nat \X Nat /\ <<n - y, k>>[1] = n - y /\ <<n - y, k>>[2] = k
    BY <2>1, <1>3
  <2>3. ~(n - y < k)
    BY <1>3, <2>1, <2>2
  <2> QED
    BY <1>3, <2>3
<1>5. n - k \in S
  BY <1>3
<1> QED
  BY <1>4, <1>5 DEF Max

\* Two pieces with NSNs have the same identity only if they have the same NSN.
LEMMA ApartKept == LibraryTypeOK => NsnsStayApart
<1> SUFFICES ASSUME LibraryTypeOK, NEW g \in Groups(Approved), NEW p \in g, NEW q \in g,
                    NsnsAt(p) # {}, NsnsAt(q) # {}
             PROVE  NsnsAt(p) = NsnsAt(q)
  BY DEF NsnsStayApart, NsnsAt
<1>1. /\ p \in Approved /\ q \in Approved /\ Approved \subseteq Proofs
      /\ Identity(p, Approved) = Identity(q, Approved)
  BY DEF Groups, GroupOf, Approved
<1>2. PICK x : Identity(p, Approved) \in
                 {<<"nsn", x>>, <<"lin", x>>, <<"line", x>>, <<"isolated", x>>}
  BY <1>1, IdentityKinds
<1>3. CASE Identity(p, Approved) = <<"nsn", x>>
  <2>1. NsnsAt(p) = {x}
    BY <1>1, <1>3, NsnTells
  <2>2. NsnsAt(q) = {x}
    BY <1>1, <1>3, NsnTells
  <2> QED
    BY <2>1, <2>2
<1>4. CASE Identity(p, Approved) = <<"lin", x>>
  BY <1>1, <1>4, LinTells
<1>5. CASE Identity(p, Approved) = <<"line", x>>
  BY <1>1, <1>5, LineTells
<1>6. CASE Identity(p, Approved) = <<"isolated", x>>
  <2>1. p = x /\ q = x
    BY <1>1, <1>6, IsolatedTells
  <2> QED
    BY <2>1
<1> QED
  BY <1>2, <1>3, <1>4, <1>5, <1>6

\* A row without a link that shows anything has no group to recall.
LEMMA UnlinkedShowsNothing == LibraryTypeOK => UnlinkedHasNoHistory
<1> SUFFICES ASSUME LibraryTypeOK, NEW r \in Unlinked PROVE History(r) = {}
  BY DEF UnlinkedHasNoHistory
<1> DEFINE l == row[r].line
           s == SessionOf[r]
           targets == UNION {LinkTarget(k, s) : k \in Lines \ {Blank}}
           mine == {p \in TargetObservations(targets) : ProofRow(p) \in LinkTarget(l, s)}
<1>1. r \in Rows /\ l \in Lines /\ l \notin VisibleLinks /\ Matched(r, Approved) = {}
  BY DEF Unlinked, Added, LibraryTypeOK
<1>2. link[l] = None \/ ApprovedOf(link[l]) = {}
  BY <1>1 DEF VisibleLinks
<1>3. mine = {}
  <2>1. TargetObservations(targets) \subseteq Approved
    BY TargetParts
  <2>2. LinkTarget(l, s) \subseteq {link[l]} /\ (link[l] = None => LinkTarget(l, s) = {})
    BY DEF LinkTarget
  <2> QED
    BY <1>2, <2>1, <2>2 DEF ApprovedOf
<1>4. Recalled(l, s) = {}
  BY <1>3 DEF Recalled
<1>5. Matched(r, Elsewhere(Approved, s)) = {}
  BY <1>1 DEF Matched, Elsewhere
<1> QED
  BY <1>4, <1>5 DEF History

\* The groups an inventory recalls are those of the whole approved history,
\* although they are rebuilt from a few queries around the target rows; no
\* group holds two NSNs; and what is offered for a link has no history, for
\* whatever rows, wordings, identifiers and links.
THEOREM GroupsAreExactCorrect == LibrarySpec => []GroupsAreExact
<1>1. ASSUME LibraryTypeOK PROVE NeighborhoodExact
  BY <1>1, TargetsAreExact DEF NeighborhoodExact
<1>2. ASSUME SavedPhotosAreProof PROVE GroupsAreExact
  BY <1>1, <1>2, ApartKept, UnlinkedShowsNothing DEF SavedPhotosAreProof, GroupsAreExact
<1> QED
  BY <1>2, SavedPhotosAreProofCorrect, PTL

-----------------------------------------------------------------------------
(***************************************************************************)
(* What is shown can be opened.                                            *)
(***************************************************************************)

LEMMA MatchingIsMutual ==
  ASSUME NEW q, NEW r, RowsMatch(q, r)
  PROVE  RowsMatch(r, q)
<1>1. \A A, B : Overlap(A, B) <=> Overlap(B, A)
  BY DEF Overlap
<1> QED
  BY <1>1 DEF RowsMatch

\* The group of a link's target, rebuilt for one photo, has the photo when the
\* group of the whole history has.
LEMMA AliasReaches ==
  ASSUME LibraryTypeOK, NEW s \in Inventories, NEW p \in Found(Approved),
         NEW r \in ActiveRows(s), link[row[r].line] # None,
         NEW m \in Approved, ProofRow(m) = link[row[r].line],
         Identity(p, Approved) = Identity(m, Approved)
  PROVE  ByAlias(p, s)
<1> DEFINE targets == {link[row[x].line] : x \in ActiveRows(s)} \ {None}
           candidates == {q \in Approved : (q = p /\ proof[q].found)
                                             \/ (q # p /\ ProofRow(q) \in targets)}
           plain == {c \in candidates : /\ Profile(ProofRow(c)).nsns = {}
                                        /\ Cardinality(Profile(ProofRow(c)).lins) = 1}
           lins == UNION {Profile(ProofRow(q)).lins : q \in plain}
           mapping == {q \in Approved : /\ Cardinality(Profile(ProofRow(q)).lins) = 1
                                        /\ Cardinality(Profile(ProofRow(q)).nsns) = 1
                                        /\ Overlap(Profile(ProofRow(q)).lins, lins)}
           obs == candidates \cup mapping
<1>1. /\ p \in Approved /\ proof[p].found /\ Approved \subseteq Proofs
      /\ ProofRow(m) \in targets /\ p \in candidates /\ m \in candidates
      /\ candidates \subseteq Approved /\ obs \subseteq Approved
  BY DEF Found, Approved
<1>2. ASSUME NEW q \in candidates PROVE Identity(q, obs) = Identity(q, Approved)
  <2>1. ASSUME NEW lin, NsnsAt(q) = {}, LinsAt(q) = {lin}
        PROVE  NsnsOfLin(lin, obs) = NsnsOfLin(lin, Approved)
    <3>1. Cardinality({lin}) = 1
      BY FS_Singleton
    <3>2. q \in plain
      BY <2>1, <3>1 DEF NsnsAt, LinsAt
    <3>3. lin \in lins
      <4> HIDE DEF plain
      <4> QED
        BY <2>1, <3>2 DEF LinsAt
    <3> HIDE DEF lins
    <3>4. \A c \in Approved : LinsAt(c) = {lin} /\ Cardinality(NsnsAt(c)) = 1 => c \in obs
      BY <3>1, <3>3 DEF Overlap, LinsAt, NsnsAt
    <3> HIDE DEF obs
    <3> QED
      BY <1>1, <3>4, LinsAreRead
  <2> HIDE DEF obs
  <2> QED
    BY <1>1, <2>1, SameIdentity
<1>3. GroupOf(p, obs) \in Groups(obs) /\ p \in GroupOf(p, obs) /\ m \in GroupOf(p, obs)
  <2>1. Identity(p, obs) = Identity(m, obs)
    BY <1>1, <1>2
  <2> HIDE DEF candidates, mapping
  <2> QED
    BY <1>1, <2>1 DEF Groups, GroupOf
<1>4. ByAlias(p, s) <=> /\ p \in candidates
                        /\ \E g \in Groups(obs) : p \in g /\ \E q \in g : ProofRow(q) \in targets
  BY DEF ByAlias
<1> HIDE DEF candidates, mapping, targets
<1> QED
  BY <1>1, <1>3, <1>4

\* A guest can open every photo the page of the inventory shows, for whatever
\* rows, wordings, identifiers, saved items and links: the tables behind the
\* photo URL agree with the queries that write the page.
THEOREM DisclosedIsReadableCorrect == LibrarySpec => []DisclosedIsReadable
<1>1. ASSUME SavedPhotosAreProof, NEW s \in Inventories, NEW p \in Disclosed(s)
      PROVE  Serves(p, s)
  <2>1. PICK r \in ActiveRows(s) :
          p \in OwnPhotos(r) \cup ItemPhotos(row[r].item) \cup HistoryPhotos(r)
    BY <1>1 DEF Disclosed
  <2>2. /\ LibraryTypeOK /\ r \in Rows /\ SessionOf[r] = s /\ row[r].line \in Lines
        /\ row[r].item \in 0..Len(item) /\ Len(item) \in Nat /\ Len(proof) \in Nat
    BY <1>1, <2>1 DEF SavedPhotosAreProof, LibraryTypeOK, ActiveRows, Added
  <2>3. CASE p \in OwnPhotos(r)
    <3>1. p \in Proofs /\ ProofRow(p) = r
      BY <2>3 DEF OwnPhotos, PhotoOf
    <3>2. ASSUME SavedAs(p) # {} PROVE Overlap(SavedAs(p), UsedIn(s))
      <4>1. PICK i \in SavedItems : p \in item[i].media
        BY <3>2 DEF SavedAs
      <4>2. row[r].item = i /\ i # 0
        BY <1>1, <3>1, <4>1 DEF SavedPhotosAreProof, SavedItems
      <4> QED
        BY <2>1, <4>1, <4>2 DEF SavedAs, UsedIn, Overlap
    <3> QED
      BY <2>2, <3>1, <3>2 DEF Serves
  <2>4. CASE p \in ItemPhotos(row[r].item)
    <3>1. row[r].item \in SavedItems /\ row[r].item # 0 /\ p \in item[row[r].item].media
      BY <2>2, <2>4 DEF ItemPhotos, SavedItems
    <3> QED
      BY <2>1, <3>1 DEF SavedAs, UsedIn, Overlap, Serves
  <2>5. CASE p \in HistoryPhotos(r)
    <3> DEFINE l == row[r].line
               good == WithPhotos(History(r))
               targets == UNION {LinkTarget(k, s) : k \in Lines \ {Blank}}
               obs == TargetObservations(targets)
               mine == {q \in obs : ProofRow(q) \in LinkTarget(l, s)}
               m == Max(mine)
    <3>1. obs \subseteq Approved /\ Approved \subseteq Proofs /\ Proofs \subseteq 0..Len(proof)
      BY <2>2, TargetParts DEF Approved, Proofs
    <3>2. History(r) \subseteq Approved
      <4>1. Recalled(l, s) = {} \/ Recalled(l, s) = Elsewhere(GroupOf(m, obs), s)
        BY DEF Recalled
      <4>2. Elsewhere(GroupOf(m, obs), s) \subseteq obs
        BY DEF Elsewhere, GroupOf
      <4>3. Matched(r, Elsewhere(Approved, s)) \subseteq Approved
        BY DEF Matched, Elsewhere
      <4>4. History(r) = Recalled(l, s) \/ History(r) = Matched(r, Elsewhere(Approved, s))
        BY <2>2 DEF History
      <4> HIDE DEF obs, m
      <4> QED
        BY <3>1, <4>1, <4>2, <4>3, <4>4
    <3>3. good # {} /\ p \in PhotoOf(Max(good)) /\ good \subseteq History(r)
      BY <2>5 DEF HistoryPhotos, WithPhotos, Found
    <3>4. Max(good) \in good
      <4> HIDE DEF good
      <4> QED
        BY <2>2, <3>1, <3>2, <3>3, GreatestExists
    <3>5. p = Max(good) /\ p \in History(r) /\ p \in Found(Approved)
      BY <3>2, <3>3, <3>4 DEF PhotoOf, WithPhotos, Found
    <3>6. CASE Recalled(l, s) = {}
      <4>1. p \in Matched(r, Elsewhere(Approved, s))
        BY <2>2, <3>5, <3>6 DEF History
      <4>2. SessionOf[ProofRow(p)] # s /\ RowsMatch(ProofRow(p), r)
        BY <4>1, MatchingIsMutual DEF Matched, Elsewhere
      <4> QED
        BY <2>1, <3>5, <4>2 DEF Serves
    <3>7. CASE Recalled(l, s) # {}
      <4>1. /\ l # Blank /\ LinkTarget(l, s) # {} /\ mine # {}
            /\ p \in Elsewhere(GroupOf(m, obs), s)
        BY <2>2, <3>5, <3>7 DEF History, Recalled
      <4>2. m \in mine
        <5>1. mine \subseteq 0..Len(proof)
          BY <3>1
        <5> HIDE DEF mine
        <5> QED
          BY <2>2, <4>1, <5>1, GreatestExists
      <4>3. m \in Approved /\ link[l] # None /\ ProofRow(m) = link[l] /\ ProofRow(m) \in targets
        <5>1. ProofRow(m) \in LinkTarget(l, s) /\ m \in Approved
          BY <3>1, <4>2
        <5>2. LinkTarget(l, s) \subseteq targets
          BY <2>2, <4>1
        <5> QED
          BY <5>1, <5>2 DEF LinkTarget
      <4> HIDE DEF m
      <4>4. p \in GroupOf(m, Approved)
        <5> HIDE DEF targets
        <5>1. GroupOf(m, obs) = GroupOf(m, Approved)
          BY <2>2, <4>3, TargetsAreExact
        <5> QED
          BY <4>1, <5>1 DEF Elsewhere
      <4>5. Identity(p, Approved) = Identity(m, Approved)
        BY <4>4 DEF GroupOf
      <4> QED
        BY <2>1, <2>2, <3>5, <4>3, <4>5, AliasReaches DEF Serves
    <3> QED
      BY <3>6, <3>7
  <2> QED
    BY <2>1, <2>3, <2>4, <2>5
<1>2. ASSUME SavedPhotosAreProof PROVE DisclosedIsReadable
  BY <1>1, <1>2 DEF DisclosedIsReadable
<1> QED
  BY <1>2, SavedPhotosAreProofCorrect, PTL

=============================================================================
