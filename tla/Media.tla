------------------------------- MODULE Media -------------------------------
(***************************************************************************)
(* The registry of uploaded files: photos are stored and registered as     *)
(* staged, then attached to proof or to an item, discarded, or swept when  *)
(* nobody used them in time (routes.js, cleanup-media.js, db/011).         *)
(*                                                                         *)
(* The disk is not transactional: a request writes or removes its file     *)
(* before or after its transaction, and may stop between the two.          *)
(***************************************************************************)
EXTENDS Integers, FiniteSets, Sequences, SequencesExt, FiniteSetsExt

CONSTANTS
  Photos,     \* photo uploads: natural numbers, in the order of their ids
  Sources,    \* uploaded packets, attached by the import that stores them
  Guest,      \* photos uploaded with the pass of one guest
  Wanted,     \* for every submission, the photos it attaches, as listed
  Quota,      \* staged photos a pass may have
  Perishable, \* bound: the photos that may be left until they are late
  MaxBatch,   \* rows a sweep locks at once
  MaxFaults   \* bound: crashes and failed statements or file operations

Uploads == Photos \cup Sources
Takers == DOMAIN Wanted
WantedBy(t) == ToSet(Wanted[t])
Free == "free"

ASSUME MediaAssumption ==
  /\ Photos \subseteq Nat /\ Photos \cap Sources = {}
  /\ Guest \subseteq Photos /\ IsFiniteSet(Guest) /\ Quota \in Nat
  /\ \A t \in Takers : WantedBy(t) \subseteq Photos /\ t \notin {Free, "import"}
  /\ MaxFaults \in Nat

VARIABLES
  row,      \* media_uploads.state as committed, "none" where there is no row
  late,     \* uploads whose staged_expires_at has passed
  file,     \* the stored files
  upload,   \* where the request that stores each file is
  take,     \* submissions and new items: the photos to lock, and those locked
  discard,  \* DELETE requests: "idle", "locked", "unlinked"
  sweep,    \* the cleanup job: locked rows, those to do, those deleted, aborted
  usedBy,   \* what an attached upload belongs to: attached_to_id
  stray,    \* history: files a crash or a failed removal has left behind
  faults

mediaVars == <<row, late, file, upload, take, discard, sweep, usedBy, stray, faults>>

NoTake == [todo |-> {}, held |-> {}, on |-> FALSE]
NoSweep == [batch |-> {}, todo |-> {}, gone |-> {}, aborted |-> FALSE]
UnderWay == {"saved", "counted", "failed"}

MediaTypeOK ==
  /\ row \in [Uploads -> {"none", "staged", "attached"}]
  /\ late \subseteq Uploads /\ file \subseteq Uploads /\ stray \subseteq file
  /\ upload \in [Uploads -> {"new", "over"} \cup UnderWay]
  /\ take \in [Takers -> [todo: SUBSET Photos, held: SUBSET Photos, on: BOOLEAN]]
  /\ discard \in [Photos -> {"idle", "locked", "unlinked"}]
  /\ sweep \in [batch: SUBSET Uploads, todo: SUBSET Uploads, gone: SUBSET Uploads,
               aborted: BOOLEAN]
  /\ sweep.gone \cup sweep.todo \subseteq sweep.batch
  /\ usedBy \in [Uploads -> Takers \cup {Free, "import"}]
  /\ faults \in 0..MaxFaults

MediaInit ==
  /\ row = [u \in Uploads |-> "none"] /\ late = {} /\ file = {}
  /\ upload = [u \in Uploads |-> "new"] /\ take = [t \in Takers |-> NoTake]
  /\ discard = [u \in Photos |-> "idle"] /\ sweep = NoSweep
  /\ usedBy = [u \in Uploads |-> Free] /\ stray = {} /\ faults = 0

-----------------------------------------------------------------------------
(***************************************************************************)
(* Faulty variants.  No specification uses them.                           *)
(***************************************************************************)
PassUnlocked(u) == TRUE
MustExist(u) == u \in file
NotAttachedTo(u) == row[u] # "none"

-----------------------------------------------------------------------------
(***************************************************************************)
(* Row locks.  A lock is held until its transaction ends.                  *)
(***************************************************************************)
Locked(u) ==
  \/ \E t \in Takers : u \in take[t].held
  \/ u \in Photos /\ discard[u] # "idle"
  \/ u \in sweep.batch
\* A guest's upload locks the pass FOR UPDATE, the guest's other requests
\* lock it FOR SHARE.
PassFree(u) ==
  u \in Guest =>
    /\ \A v \in Guest \ {u} : upload[v] # "counted" /\ discard[v] # "unlinked"
    /\ \A t \in Takers : take[t].on => WantedBy(t) \cap Guest = {}
NobodyUploads(u) == u \in Guest => \A v \in Guest : upload[v] # "counted"

Fault == faults < MaxFaults /\ faults' = faults + 1

-----------------------------------------------------------------------------
(***************************************************************************)
(* Uploading: the file first, then the row.                                *)
(***************************************************************************)
Store(u) ==
  /\ upload[u] = "new"
  /\ upload' = [upload EXCEPT ![u] = "saved"] /\ file' = file \cup {u}
  /\ UNCHANGED <<row, late, take, discard, sweep, usedBy, stray, faults>>

\* assertCrewStagedUploadQuota: what is staged and in time counts.
StagedOf(u) == {v \in Guest : row[v] = "staged" /\ v \notin late}
Count(u) ==
  /\ upload[u] = "saved" /\ u \in Photos /\ PassFree(u)
  /\ upload' = [upload EXCEPT ![u] =
       IF u \in Guest /\ Cardinality(StagedOf(u)) >= Quota THEN "failed" ELSE "counted"]
  /\ UNCHANGED <<row, late, file, take, discard, sweep, usedBy, stray, faults>>

Register(u) ==
  /\ upload[u] = "counted"
  /\ upload' = [upload EXCEPT ![u] = "over"] /\ row' = [row EXCEPT ![u] = "staged"]
  /\ UNCHANGED <<late, file, take, discard, sweep, usedBy, stray, faults>>

\* The import of a packet stores its file inside its transaction and
\* registers it attached.
Import(u) ==
  /\ upload[u] = "saved" /\ u \in Sources
  /\ upload' = [upload EXCEPT ![u] = "over"] /\ row' = [row EXCEPT ![u] = "attached"]
  /\ usedBy' = [usedBy EXCEPT ![u] = "import"]
  /\ UNCHANGED <<late, file, take, discard, sweep, stray, faults>>

\* The transaction fails or the pass has ended: the request removes its file.
Refuse(u) ==
  /\ upload[u] \in {"saved", "counted"}
  /\ upload' = [upload EXCEPT ![u] = "failed"]
  /\ UNCHANGED <<row, late, file, take, discard, sweep, usedBy, stray, faults>>
Removed(u) == file \ {u}
RemoveFile(u) ==
  /\ upload[u] = "failed" /\ upload' = [upload EXCEPT ![u] = "over"]
  /\ \/ file' = Removed(u) /\ UNCHANGED <<stray, faults>>
     \/ Fault /\ stray' = stray \cup {u} /\ UNCHANGED file
  /\ UNCHANGED <<row, late, take, discard, sweep, usedBy>>

Expire(u) ==
  /\ u \in Perishable /\ row[u] = "staged" /\ late' = late \cup {u} /\ u \notin late
  /\ UNCHANGED <<row, file, upload, take, discard, sweep, usedBy, stray, faults>>

-----------------------------------------------------------------------------
(***************************************************************************)
(* Attaching: a submission (or a new item) locks its photos one after the  *)
(* other, sorted, and attaches them all in the same transaction.           *)
(***************************************************************************)
Begin(t) ==
  /\ ~take[t].on /\ \A u \in WantedBy(t) : NobodyUploads(u)
  /\ \A u \in Uploads : usedBy[u] # t
  /\ take' = [take EXCEPT ![t] = [todo |-> WantedBy(t), held |-> {}, on |-> TRUE]]
  /\ UNCHANGED <<row, late, file, upload, discard, sweep, usedBy, stray, faults>>

First(t) == Min(take[t].todo)

\* lockStagedMediaUpload, verifyRegisteredUploadFile; an upload that is not
\* staged, late or without its file ends the transaction.
Usable(u) == row[u] = "staged" /\ u \notin late /\ u \in file
Lock(t) ==
  /\ take[t].on /\ take[t].todo # {}
  /\ LET u == First(t) IN
       /\ ~Locked(u)
       /\ take' = [take EXCEPT ![t] =
            IF Usable(u) THEN [todo |-> @.todo \ {u}, held |-> @.held \cup {u}, on |-> TRUE]
            ELSE NoTake]
  /\ UNCHANGED <<row, late, file, upload, discard, sweep, usedBy, stray, faults>>

Attach(t) ==
  /\ take[t].on /\ take[t].todo = {}
  /\ row' = [u \in Uploads |-> IF u \in take[t].held THEN "attached" ELSE row[u]]
  /\ usedBy' = [u \in Uploads |-> IF u \in take[t].held THEN t ELSE usedBy[u]]
  /\ late' = late \ take[t].held
  /\ take' = [take EXCEPT ![t] = NoTake]
  /\ UNCHANGED <<file, upload, discard, sweep, stray, faults>>

\* Any other reason to roll back: the inventory is closed, the pass is over.
RollBack(t) ==
  /\ take[t].on /\ take' = [take EXCEPT ![t] = NoTake]
  /\ UNCHANGED <<row, late, file, upload, discard, sweep, usedBy, stray, faults>>

-----------------------------------------------------------------------------
(***************************************************************************)
(* Discarding a staged photo: lock, remove the file, delete the row.       *)
(***************************************************************************)
Discardable(u) == row[u] = "staged"
Discard(u) ==
  /\ discard[u] = "idle" /\ ~Locked(u) /\ Discardable(u)
  /\ discard' = [discard EXCEPT ![u] = "locked"]
  /\ UNCHANGED <<row, late, file, upload, take, sweep, usedBy, stray, faults>>
Unlink(u) ==
  /\ discard[u] = "locked" /\ NobodyUploads(u)
  /\ discard' = [discard EXCEPT ![u] = "unlinked"] /\ file' = file \ {u}
  /\ UNCHANGED <<row, late, upload, take, sweep, usedBy, stray, faults>>
\* The row is deleted, or the statement fails and the row outlives its file.
Delete(u) ==
  /\ discard[u] = "unlinked" /\ discard' = [discard EXCEPT ![u] = "idle"]
  /\ \/ row' = [row EXCEPT ![u] = "none"] /\ late' = late \ {u} /\ UNCHANGED faults
     \/ Fault /\ UNCHANGED <<row, late>>
  /\ UNCHANGED <<file, upload, take, sweep, usedBy, stray>>

-----------------------------------------------------------------------------
(***************************************************************************)
(* The cleanup job: cleanupBatch.  It locks late rows nobody has locked,   *)
(* and removes files and rows one by one in one transaction.               *)
(***************************************************************************)
Sweepable == {u \in Uploads : row[u] = "staged" /\ u \in late /\ ~Locked(u)}
Sweep ==
  /\ sweep.batch = {} /\ Sweepable # {}
  /\ \E batch \in kSubset(Min({MaxBatch, Cardinality(Sweepable)}), Sweepable) :
       sweep' = [NoSweep EXCEPT !.batch = batch, !.todo = batch]
  /\ UNCHANGED <<row, late, file, upload, take, discard, usedBy, stray, faults>>

\* A file that is already gone is no error.
Unlinkable(u) == TRUE
\* An unlink that fails skips the row.  A statement that fails aborts the
\* transaction, and the files of the rows after it are removed all the same.
SweepOne(u) ==
  /\ u \in sweep.todo
  /\ \/ /\ Unlinkable(u) /\ file' = file \ {u}
        /\ sweep' = [sweep EXCEPT !.todo = @ \ {u},
                                  !.gone = IF sweep.aborted THEN @ ELSE @ \cup {u}]
        /\ UNCHANGED faults
     \/ /\ ~Unlinkable(u) \/ faults < MaxFaults
        /\ faults' = IF Unlinkable(u) THEN faults + 1 ELSE faults
        /\ sweep' = [sweep EXCEPT !.todo = @ \ {u}] /\ UNCHANGED file
     \/ /\ Fault /\ file' = file \ {u}
        /\ sweep' = [sweep EXCEPT !.todo = @ \ {u}, !.aborted = TRUE]
  /\ UNCHANGED <<row, late, upload, take, discard, usedBy, stray>>
Swept == IF sweep.aborted THEN {} ELSE sweep.gone
SweepEnds ==
  /\ sweep.batch # {} /\ sweep.todo = {}
  /\ row' = [u \in Uploads |-> IF u \in Swept THEN "none" ELSE row[u]]
  /\ late' = late \ Swept /\ sweep' = NoSweep
  /\ UNCHANGED <<file, upload, take, discard, usedBy, stray, faults>>

-----------------------------------------------------------------------------
\* The API stops: transactions roll back, what was written to disk stays.
Crash ==
  /\ Fault
  /\ upload' = [u \in Uploads |-> IF upload[u] \in UnderWay THEN "over" ELSE upload[u]]
  /\ stray' = stray \cup {u \in file : upload[u] \in UnderWay}
  /\ take' = [t \in Takers |-> NoTake] /\ discard' = [u \in Photos |-> "idle"]
  /\ UNCHANGED <<row, late, file, sweep, usedBy>>
SweepCrash ==
  /\ Fault /\ sweep.batch # {} /\ sweep' = NoSweep
  /\ UNCHANGED <<row, late, file, upload, take, discard, usedBy, stray>>

UploadStep(u) == Store(u) \/ Count(u) \/ Register(u) \/ Import(u) \/ Refuse(u) \/ RemoveFile(u)
DiscardStep(u) == Discard(u) \/ Unlink(u) \/ Delete(u)
TakeStep(t) == Begin(t) \/ Lock(t) \/ Attach(t) \/ RollBack(t)
MediaNext ==
  \/ \E u \in Uploads : UploadStep(u) \/ Expire(u) \/ SweepOne(u)
  \/ \E u \in Photos : DiscardStep(u)
  \/ \E t \in Takers : TakeStep(t)
  \/ Sweep \/ SweepEnds \/ Crash \/ SweepCrash

\* A request that has begun goes on until it ends, and the job is run again
\* and again.
MediaProgress ==
  /\ WF_mediaVars(SweepEnds \/ \E u \in Uploads : SweepOne(u)) /\ SF_mediaVars(Sweep)
  /\ WF_mediaVars(\E u \in Photos : Unlink(u) \/ Delete(u) \/ Register(u))
  /\ \A t \in Takers : WF_mediaVars(Lock(t) \/ Attach(t) \/ RollBack(t))
MediaSpec == MediaInit /\ [][MediaNext]_mediaVars /\ MediaProgress

-----------------------------------------------------------------------------
(***************************************************************************)
(* Properties.                                                             *)
(***************************************************************************)

\* A pass never has more photos staged than its quota, however many uploads
\* arrive together; the photos that are late do not count.
QuotaKept == Cardinality({u \in Guest : row[u] = "staged" /\ u \notin late}) <= Quota

\* Disk and registry agree.  An attached upload has its file, whatever the
\* cleanup job, a DELETE that failed half way and a crash have removed
\* (docs/forkable-tasks.md:1274); and every file has a row, or a request that
\* will register or remove it, save what a crash or a failed removal left.
FilesMatchRows ==
  \A u \in Uploads :
    /\ row[u] = "attached" => u \in file /\ usedBy[u] # Free
    /\ u \in file \ stray => row[u] # "none" \/ upload[u] \in UnderWay

\* A photo is used once and for good: nothing attaches it again, discards it
\* or sweeps it afterwards.
UsedForGood ==
  [][\A u \in Uploads : row[u] = "attached" =>
       row'[u] = "attached" /\ usedBy'[u] = usedBy[u]]_mediaVars

\* Requests that lock the same photos never wait for each other in a circle.
NoWaitingCircle ==
  \A t, s \in Takers :
    ~(/\ take[t].todo # {} /\ First(t) \in take[s].held
      /\ take[s].todo # {} /\ First(s) \in take[t].held)

\* Registry, disk and locks stay in order: a pass keeps to its quota, an
\* attached upload has its file, no file is without a row or a request that
\* looks after it, and no two requests wait for each other's photos.
RegistryIsSound == MediaTypeOK /\ QuotaKept /\ FilesMatchRows /\ NoWaitingCircle

\* A photo nobody used in time does not stay registered, even if an earlier
\* sweep or DELETE has removed its file and failed to delete its row: again
\* and again there is none.
NoneIsLate == \A u \in late : row[u] # "staged"
LateIsSwept == []<>NoneIsLate
=============================================================================
