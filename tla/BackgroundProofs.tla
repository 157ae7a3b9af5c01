--------------------------- MODULE BackgroundProofs ---------------------------
(***************************************************************************)
(* Proofs about what goes on behind a request: the registry of uploaded    *)
(* media and the cleanup job (Media), the mailing of newsletter issues     *)
(* (Newsletter) and the page of an administrator (NewsletterDesk), for any *)
(* uploads, submissions, addresses and issues.                             *)
(***************************************************************************)
EXTENDS Media, NewsletterDesk, FiniteSetTheorems, TLAPS

-----------------------------------------------------------------------------
(***************************************************************************)
(* The least member of a set of numbers.                                   *)
(***************************************************************************)

\* A set of numbers has a least member, and Min returns it.
LEMMA MinExists ==
  ASSUME NEW S \in SUBSET Nat, S # {}
  PROVE  Min(S) \in S /\ \A x \in S : Min(S) <= x
<1> DEFINE Less == {ss \in Nat \X Nat : ss[1] < ss[2]}
<1>1. IsWellFoundedOn(Less, Nat)
  BY NatLessThanWellFounded DEF OpToRel
<1>2. PICK x \in S : \A y \in S : <<y, x>> \notin Less
  <2> HIDE DEF Less
  <2> QED
    BY <1>1, WFMin
<1>4. ASSUME NEW y \in S PROVE x <= y
  <2>1. x \in Nat /\ y \in Nat /\ <<y, x>> \in Nat \X Nat
    OBVIOUS
  <2>2. <<y, x>>[1] = y /\ <<y, x>>[2] = x
    OBVIOUS
  <2>3. ~(y < x)
    BY <1>2, <2>1, <2>2
  <2> QED
    BY <2>1, <2>3
<1>5. Min(S) = CHOOSE z \in S : \A y \in S : z <= y
  BY DEF Min
<1> QED
  BY <1>4, <1>5

-----------------------------------------------------------------------------
(***************************************************************************)
(* The registry of uploads: its inductive invariant.                       *)
(***************************************************************************)

\* Before its request is over an upload has no row, and a file once it is
\* stored; a file that is left behind has neither a row nor a request.
Registered(u) ==
  /\ upload[u] = "new" => u \notin file
  /\ upload[u] \in UnderWay => u \in file
  /\ upload[u] # "over" => row[u] = "none"
  /\ u \in stray => row[u] = "none" /\ upload[u] = "over"

\* Who holds the lock of an upload holds it alone, on a row that is staged;
\* a submission also knows its file is there, and a DELETE or a sweep that
\* has got further that it is not.
Gripped(u) ==
  /\ \A t \in Takers : u \in take[t].held =>
       /\ row[u] = "staged" /\ u \in file /\ u \notin sweep.batch
       /\ \A s \in Takers : u \in take[s].held => s = t
       /\ discard[u] = "idle"
  /\ u \in Photos /\ discard[u] # "idle" => row[u] = "staged" /\ u \notin sweep.batch
  /\ u \in Photos /\ discard[u] = "unlinked" => u \notin file
  /\ u \in sweep.batch => row[u] = "staged"
  /\ u \in sweep.gone => u \notin file

\* Submissions lock in the order of the ids.
InOrder(t) ==
  /\ take[t].todo # {} \/ take[t].held # {} => take[t].on
  /\ \A u \in take[t].held, v \in take[t].todo : u < v

\* Of the uploads of a pass one at most has counted and not registered yet,
\* and there is room for it.
InTime == {u \in Guest : row[u] = "staged" /\ u \notin late}
RoomForOne ==
  \A u \in Guest : upload[u] = "counted" =>
    /\ Cardinality(InTime) < Quota
    /\ \A v \in Guest : upload[v] = "counted" => v = u

\* The parts of the invariant that are about locks, rows and files.
Orderly ==
  /\ MediaTypeOK
  /\ \A u \in Uploads : Registered(u) /\ Gripped(u)
  /\ \A t \in Takers : InOrder(t)
  /\ FilesMatchRows

MediaInv == Orderly /\ RoomForOne /\ QuotaKept

\* When nothing is added to what a pass has staged in time, and no upload
\* counts, the quota is kept and there is room as before.
LEMMA QuotaStays ==
  ASSUME MediaTypeOK, RoomForOne, QuotaKept, InTime' \subseteq InTime,
         \A u \in Guest : upload'[u] = "counted" => upload[u] = "counted"
  PROVE  RoomForOne' /\ QuotaKept'
<1>1. IsFiniteSet(InTime)
  BY MediaAssumption, FS_Subset DEF InTime
<1>2. /\ IsFiniteSet(InTime') /\ Cardinality(InTime') <= Cardinality(InTime)
      /\ Cardinality(InTime') \in Nat /\ Cardinality(InTime) \in Nat
  BY <1>1, FS_Subset, FS_CardinalityType
<1>3. Cardinality(InTime) <= Quota
  BY DEF QuotaKept, InTime
<1>4. QuotaKept'
  BY <1>2, <1>3, MediaAssumption DEF QuotaKept, InTime
<1>5. RoomForOne'
  BY <1>2, MediaAssumption DEF RoomForOne
<1> QED
  BY <1>4, <1>5

LEMMA MediaInitially == MediaInit => MediaInv
<1> SUFFICES ASSUME MediaInit PROVE MediaInv
  OBVIOUS
<1> USE MediaAssumption
<1>1. MediaTypeOK
  BY DEF MediaInit, MediaTypeOK, NoTake, NoSweep, Takers, Uploads, UnderWay, Free
<1>2. \A u \in Uploads : Registered(u) /\ Gripped(u)
  BY DEF MediaInit, Registered, Gripped, NoTake, NoSweep, UnderWay
<1>3. \A t \in Takers : InOrder(t)
  BY DEF MediaInit, InOrder, NoTake
<1>4. InTime = {}
  BY DEF MediaInit, InTime, Uploads
<1>5. RoomForOne /\ QuotaKept
  <2>1. RoomForOne
    BY DEF MediaInit, RoomForOne, Uploads
  <2>2. Cardinality(InTime) = 0
    BY <1>4, FS_EmptySet
  <2> QED
    BY <2>1, <2>2 DEF QuotaKept, InTime
<1>6. FilesMatchRows
  BY DEF MediaInit, FilesMatchRows
<1> QED
  BY <1>1, <1>2, <1>3, <1>5, <1>6 DEF MediaInv, Orderly

\* Every step of a request that stores a file keeps locks, rows and files in
\* order.
LEMMA UploadsAreOrderly ==
  ASSUME Orderly, NEW w \in Uploads, UploadStep(w) \/ Expire(w)
  PROVE  Orderly'
<1> USE DEF Orderly
<1> USE MediaAssumption DEF Uploads
<1>1. CASE Store(w)
  <2>1. MediaTypeOK'
    BY <1>1 DEF Store, MediaTypeOK, UnderWay
  <2>2. \A u \in Uploads : Registered(u)' /\ Gripped(u)'
    BY <1>1 DEF Store, MediaTypeOK, Registered, Gripped, UnderWay
  <2>3. \A t \in Takers : InOrder(t)'
    BY <1>1 DEF Store, InOrder
  <2>4. FilesMatchRows'
    BY <1>1 DEF Store, MediaTypeOK, FilesMatchRows, UnderWay
  <2> QED
    BY <2>1, <2>2, <2>3, <2>4
<1>2. CASE Count(w)
  <2>1. MediaTypeOK'
    BY <1>2 DEF Count, MediaTypeOK, UnderWay
  <2>2. \A u \in Uploads : Registered(u)' /\ Gripped(u)'
    BY <1>2 DEF Count, MediaTypeOK, Registered, Gripped, UnderWay
  <2>3. \A t \in Takers : InOrder(t)'
    BY <1>2 DEF Count, InOrder
  <2>4. FilesMatchRows'
    BY <1>2 DEF Count, MediaTypeOK, FilesMatchRows, UnderWay
  <2> QED
    BY <2>1, <2>2, <2>3, <2>4
<1>3. CASE Register(w)
  <2>1. MediaTypeOK'
    BY <1>3 DEF Register, MediaTypeOK, UnderWay
  <2>2. \A u \in Uploads : Registered(u)' /\ Gripped(u)'
    BY <1>3 DEF Register, MediaTypeOK, Registered, Gripped, UnderWay
  <2>3. \A t \in Takers : InOrder(t)'
    BY <1>3 DEF Register, InOrder
  <2>4. FilesMatchRows'
    BY <1>3 DEF Register, MediaTypeOK, FilesMatchRows, UnderWay
  <2> QED
    BY <2>1, <2>2, <2>3, <2>4
<1>4. CASE Import(w)
  <2>1. MediaTypeOK'
    BY <1>4 DEF Import, MediaTypeOK, UnderWay
  <2>2. \A u \in Uploads : Registered(u)' /\ Gripped(u)'
    BY <1>4 DEF Import, MediaTypeOK, Registered, Gripped, UnderWay
  <2>3. \A t \in Takers : InOrder(t)'
    BY <1>4 DEF Import, InOrder
  <2>4. FilesMatchRows'
    BY <1>4 DEF Import, MediaTypeOK, FilesMatchRows, Registered, UnderWay, Free
  <2> QED
    BY <2>1, <2>2, <2>3, <2>4
<1>5. CASE Refuse(w)
  <2>1. MediaTypeOK'
    BY <1>5 DEF Refuse, MediaTypeOK, UnderWay
  <2>2. \A u \in Uploads : Registered(u)' /\ Gripped(u)'
    BY <1>5 DEF Refuse, MediaTypeOK, Registered, Gripped, UnderWay
  <2>3. \A t \in Takers : InOrder(t)'
    BY <1>5 DEF Refuse, InOrder
  <2>4. FilesMatchRows'
    BY <1>5 DEF Refuse, MediaTypeOK, FilesMatchRows, UnderWay
  <2> QED
    BY <2>1, <2>2, <2>3, <2>4
<1>6. CASE RemoveFile(w)
  <2>1. MediaTypeOK'
    <3>1. w \in file /\ w \notin stray
      BY <1>6 DEF RemoveFile, Registered, UnderWay
    <3>2. stray' \subseteq file' /\ file' \subseteq Uploads
      BY <1>6, <3>1 DEF RemoveFile, Removed, MediaTypeOK
    <3>3. faults' \in 0..MaxFaults
      BY <1>6 DEF RemoveFile, Fault, MediaTypeOK
    <3> QED
      BY <1>6, <3>2, <3>3 DEF RemoveFile, MediaTypeOK, UnderWay
  <2>2. \A u \in Uploads : Registered(u)' /\ Gripped(u)'
    BY <1>6 DEF RemoveFile, Removed, MediaTypeOK, Registered, Gripped, UnderWay
  <2>3. \A t \in Takers : InOrder(t)'
    BY <1>6 DEF RemoveFile, InOrder
  <2>4. FilesMatchRows'
    BY <1>6 DEF RemoveFile, Removed, MediaTypeOK, FilesMatchRows, Registered, UnderWay
  <2> QED
    BY <2>1, <2>2, <2>3, <2>4
<1>7. CASE Expire(w)
  <2>1. MediaTypeOK'
    BY <1>7 DEF Expire, MediaTypeOK
  <2>2. \A u \in Uploads : Registered(u)' /\ Gripped(u)'
    BY <1>7 DEF Expire, Registered, Gripped
  <2>3. \A t \in Takers : InOrder(t)'
    BY <1>7 DEF Expire, InOrder
  <2>4. FilesMatchRows'
    BY <1>7 DEF Expire, FilesMatchRows
  <2> QED
    BY <2>1, <2>2, <2>3, <2>4
<1> QED
  BY <1>1, <1>2, <1>3, <1>4, <1>5, <1>6, <1>7 DEF UploadStep

\* A DELETE of a staged photo keeps locks, rows and files in order: the lock
\* keeps submissions and sweeps away until the row is gone or stays staged.
LEMMA DiscardsAreOrderly ==
  ASSUME Orderly, NEW w \in Photos, DiscardStep(w)
  PROVE  Orderly'
<1> USE DEF Orderly
<1> USE MediaAssumption DEF Uploads
<1>1. CASE Discard(w)
  <2>1. MediaTypeOK'
    BY <1>1 DEF Discard, MediaTypeOK
  <2>2. \A u \in Uploads : Registered(u)' /\ Gripped(u)'
    BY <1>1 DEF Discard, Discardable, Locked, MediaTypeOK, Registered, Gripped
  <2>3. \A t \in Takers : InOrder(t)'
    BY <1>1 DEF Discard, InOrder
  <2>4. FilesMatchRows'
    BY <1>1 DEF Discard, FilesMatchRows
  <2> QED
    BY <2>1, <2>2, <2>3, <2>4
<1>2. CASE Unlink(w)
  <2>0. row[w] = "staged" /\ w \notin stray
    BY <1>2 DEF Unlink, Gripped, Registered
  <2>1. MediaTypeOK'
    BY <1>2, <2>0 DEF Unlink, MediaTypeOK
  <2>2. \A u \in Uploads : Registered(u)' /\ Gripped(u)'
    BY <1>2, <2>0 DEF Unlink, MediaTypeOK, Registered, Gripped, UnderWay
  <2>3. \A t \in Takers : InOrder(t)'
    BY <1>2 DEF Unlink, InOrder
  <2>4. FilesMatchRows'
    BY <1>2, <2>0 DEF Unlink, MediaTypeOK, FilesMatchRows
  <2> QED
    BY <2>1, <2>2, <2>3, <2>4
<1>3. CASE Delete(w)
  <2>0. row[w] = "staged" /\ w \notin file /\ w \notin sweep.batch
        /\ \A t \in Takers : w \notin take[t].held
    BY <1>3 DEF Delete, Gripped
  <2>1. MediaTypeOK'
    <3>1. row' \in [Uploads -> {"none", "staged", "attached"}] /\ late' \subseteq Uploads
      BY <1>3 DEF Delete, MediaTypeOK
    <3>2. faults' \in 0..MaxFaults
      BY <1>3 DEF Delete, Fault, MediaTypeOK
    <3> QED
      BY <1>3, <3>1, <3>2 DEF Delete, MediaTypeOK
  <2>2. \A u \in Uploads : Registered(u)' /\ Gripped(u)'
    BY <1>3, <2>0 DEF Delete, MediaTypeOK, Registered, Gripped, UnderWay
  <2>3. \A t \in Takers : InOrder(t)'
    BY <1>3 DEF Delete, InOrder
  <2>4. FilesMatchRows'
    BY <1>3, <2>0 DEF Delete, MediaTypeOK, FilesMatchRows
  <2> QED
    BY <2>1, <2>2, <2>3, <2>4
<1> QED
  BY <1>1, <1>2, <1>3 DEF DiscardStep

\* A submission keeps locks, rows and files in order: it locks the least id
\* it has left, and what it attaches is staged and has its file.
LEMMA TakesAreOrderly ==
  ASSUME Orderly, NEW s \in Takers, TakeStep(s)
  PROVE  Orderly'
<1> USE DEF Orderly
<1> USE MediaAssumption DEF Uploads
<1>1. CASE Begin(s)
  <2>1. MediaTypeOK'
    BY <1>1 DEF Begin, MediaTypeOK
  <2>0. take[s].held = {}
    BY <1>1 DEF Begin, InOrder
  <2>2. \A u \in Uploads : Registered(u)' /\ Gripped(u)'
    BY <1>1, <2>0 DEF Begin, MediaTypeOK, Registered, Gripped
  <2>3. \A t \in Takers : InOrder(t)'
    BY <1>1 DEF Begin, MediaTypeOK, InOrder
  <2>4. FilesMatchRows'
    BY <1>1 DEF Begin, FilesMatchRows
  <2> QED
    BY <2>1, <2>2, <2>3, <2>4
<1>2. CASE Lock(s)
  <2> DEFINE f == First(s)
  <2>1. take[s].todo \subseteq Photos /\ take[s].todo # {} /\ take[s].on
    BY <1>2 DEF Lock, MediaTypeOK
  <2>2. f \in take[s].todo /\ f \in Photos /\ \A v \in take[s].todo : f <= v
    BY <2>1, MinExists DEF First
  <2>3. /\ ~Locked(f)
        /\ take' = [take EXCEPT ![s] =
             IF Usable(f) THEN [todo |-> @.todo \ {f}, held |-> @.held \cup {f}, on |-> TRUE]
             ELSE NoTake]
        /\ UNCHANGED <<row, late, file, upload, discard, sweep, usedBy, stray, faults>>
    BY <1>2 DEF Lock
  <2> HIDE DEF f
  <2>4. CASE Usable(f)
    <3>1. /\ take' \in [Takers -> [todo: SUBSET Photos, held: SUBSET Photos, on: BOOLEAN]]
          /\ take'[s] = [todo |-> take[s].todo \ {f}, held |-> take[s].held \cup {f},
                         on |-> TRUE]
          /\ \A t \in Takers \ {s} : take'[t] = take[t]
      BY <2>2, <2>3, <2>4 DEF MediaTypeOK
    <3>2. MediaTypeOK'
      BY <2>3, <3>1 DEF MediaTypeOK
    <3>3. \A u \in Uploads : Registered(u)' /\ Gripped(u)'
      BY <2>2, <2>3, <2>4, <3>1 DEF Usable, Locked, Registered, Gripped, MediaTypeOK
    <3>4. \A t \in Takers : InOrder(t)'
      <4>1. \A u \in take[s].held \cup {f}, v \in take[s].todo \ {f} : u < v
        <5>1. \A u \in take[s].held, v \in take[s].todo : u < v
          BY DEF InOrder
        <5>2. ASSUME NEW v \in take[s].todo \ {f} PROVE f < v
          <6>1. f \in Nat /\ v \in Nat
            BY <2>1, <2>2
          <6>2. f <= v /\ f # v
            BY <2>2
          <6> QED
            BY <6>1, <6>2
        <5> QED
          BY <5>1, <5>2
      <4> QED
        BY <3>1, <4>1 DEF InOrder
    <3>5. FilesMatchRows'
      BY <2>3 DEF FilesMatchRows
    <3> QED
      BY <3>2, <3>3, <3>4, <3>5
  <2>5. CASE ~Usable(f)
    <3>1. /\ take' \in [Takers -> [todo: SUBSET Photos, held: SUBSET Photos, on: BOOLEAN]]
          /\ take'[s] = NoTake
          /\ \A t \in Takers \ {s} : take'[t] = take[t]
      BY <2>3, <2>5 DEF MediaTypeOK, NoTake
    <3>2. MediaTypeOK'
      BY <2>3, <3>1 DEF MediaTypeOK
    <3>3. \A u \in Uploads : Registered(u)' /\ Gripped(u)'
      BY <2>3, <3>1 DEF Registered, Gripped, NoTake
    <3>4. \A t \in Takers : InOrder(t)'
      BY <3>1 DEF InOrder, NoTake
    <3>5. FilesMatchRows'
      BY <2>3 DEF FilesMatchRows
    <3> QED
      BY <3>2, <3>3, <3>4, <3>5
  <2> QED
    BY <2>4, <2>5
<1>3. CASE Attach(s)
  <2>1. /\ take' \in [Takers -> [todo: SUBSET Photos, held: SUBSET Photos, on: BOOLEAN]]
        /\ take'[s] = NoTake
        /\ \A t \in Takers \ {s} : take'[t] = take[t]
    BY <1>3 DEF Attach, MediaTypeOK, NoTake
  <2>2. \A u \in take[s].held :
          /\ row[u] = "staged" /\ u \in file /\ u \in Uploads /\ discard[u] = "idle"
          /\ u \notin sweep.batch /\ \A t \in Takers : u \in take[t].held => t = s
    BY DEF Gripped, MediaTypeOK
  <2>3. MediaTypeOK'
    BY <1>3, <2>1 DEF Attach, MediaTypeOK
  <2>4. \A u \in Uploads : Registered(u)' /\ Gripped(u)'
    BY <1>3, <2>1, <2>2 DEF Attach, MediaTypeOK, Registered, Gripped, NoTake, UnderWay
  <2>5. \A t \in Takers : InOrder(t)'
    BY <2>1 DEF InOrder, NoTake
  <2>6. FilesMatchRows'
    BY <1>3, <2>2 DEF Attach, MediaTypeOK, FilesMatchRows
  <2> QED
    BY <2>3, <2>4, <2>5, <2>6
<1>4. CASE RollBack(s)
  <2>1. /\ take' \in [Takers -> [todo: SUBSET Photos, held: SUBSET Photos, on: BOOLEAN]]
        /\ take'[s] = NoTake
        /\ \A t \in Takers \ {s} : take'[t] = take[t]
    BY <1>4 DEF RollBack, MediaTypeOK, NoTake
  <2>2. MediaTypeOK'
    BY <1>4, <2>1 DEF RollBack, MediaTypeOK
  <2>3. \A u \in Uploads : Registered(u)' /\ Gripped(u)'
    <3>1. UNCHANGED <<row, late, file, upload, discard, sweep, usedBy, stray, faults>>
      BY <1>4 DEF RollBack
    <3>2. \A u \in Uploads : Registered(u)'
      BY <3>1 DEF Registered
    <3>3. \A u \in Uploads, t \in Takers : u \in take'[t].held => u \in take[t].held
      BY <2>1 DEF NoTake
    <3>4. \A u \in Uploads : Gripped(u)'
      BY <3>1, <3>3 DEF Gripped
    <3> QED
      BY <3>2, <3>4
  <2>4. \A t \in Takers : InOrder(t)'
    BY <2>1 DEF InOrder, NoTake
  <2>5. FilesMatchRows'
    BY <1>4 DEF RollBack, FilesMatchRows
  <2> QED
    BY <2>2, <2>3, <2>4, <2>5
<1> QED
  BY <1>1, <1>2, <1>3, <1>4 DEF TakeStep

\* A sweep keeps locks, rows and files in order: what it deletes it has
\* locked while it was staged, and its file is gone.
LEMMA SweepsAreOrderly ==
  ASSUME Orderly, Sweep \/ SweepEnds \/ SweepCrash \/ \E w \in Uploads : SweepOne(w)
  PROVE  Orderly'
<1> USE DEF Orderly
<1> USE MediaAssumption DEF Uploads
<1>1. CASE Sweep
  <2>1. PICK batch \in SUBSET Sweepable : sweep' = [NoSweep EXCEPT !.batch = batch, !.todo = batch]
    BY <1>1 DEF Sweep, kSubset
  <2>2. sweep' = [batch |-> batch, todo |-> batch, gone |-> {}, aborted |-> FALSE]
    BY <2>1 DEF NoSweep
  <2>3. UNCHANGED <<row, late, file, upload, take, discard, usedBy, stray, faults>>
    BY <1>1 DEF Sweep
  <2>4. \A u \in batch : u \in Uploads /\ row[u] = "staged" /\ ~Locked(u)
    BY <2>1 DEF Sweepable
  <2>5. MediaTypeOK'
    BY <2>2, <2>3, <2>4 DEF MediaTypeOK
  <2>6. \A u \in Uploads : Registered(u)' /\ Gripped(u)'
    BY <2>2, <2>3, <2>4 DEF Registered, Gripped, Locked
  <2>7. \A t \in Takers : InOrder(t)'
    BY <2>3 DEF InOrder
  <2>8. FilesMatchRows'
    BY <2>3 DEF FilesMatchRows
  <2> QED
    BY <2>5, <2>6, <2>7, <2>8
<1>2. ASSUME NEW w \in Uploads, SweepOne(w) PROVE Orderly'
  <2>1. /\ w \in sweep.batch /\ row[w] = "staged" /\ w \notin stray
        /\ \A t \in Takers : w \notin take[t].held
    BY <1>2 DEF SweepOne, MediaTypeOK, Registered, Gripped
  <2>2. /\ sweep' \in [batch: SUBSET Uploads, todo: SUBSET Uploads, gone: SUBSET Uploads,
                      aborted: BOOLEAN]
        /\ sweep'.batch = sweep.batch /\ sweep'.todo = sweep.todo \ {w}
        /\ sweep'.gone \subseteq sweep.gone \cup {w}
        /\ w \in sweep'.gone \ sweep.gone => w \notin file'
        /\ file' \subseteq file /\ file \ {w} \subseteq file'
        /\ faults' \in 0..MaxFaults
    <3>1. /\ sweep \in [batch: SUBSET Uploads, todo: SUBSET Uploads, gone: SUBSET Uploads,
                       aborted: BOOLEAN]
          /\ file \subseteq Uploads /\ faults \in 0..MaxFaults
      BY DEF MediaTypeOK
    <3>2. CASE /\ file' = file \ {w} /\ UNCHANGED faults
               /\ sweep' = [sweep EXCEPT !.todo = @ \ {w},
                                         !.gone = IF sweep.aborted THEN @ ELSE @ \cup {w}]
      <4>1. sweep' = [batch |-> sweep.batch, todo |-> sweep.todo \ {w},
                      gone |-> IF sweep.aborted THEN sweep.gone ELSE sweep.gone \cup {w},
                      aborted |-> sweep.aborted]
        BY <3>1, <3>2
      <4>2. file' \subseteq file /\ file \ {w} \subseteq file' /\ w \notin file'
        BY <3>2
      <4>3. /\ sweep' \in [batch: SUBSET Uploads, todo: SUBSET Uploads, gone: SUBSET Uploads,
                          aborted: BOOLEAN]
            /\ sweep'.batch = sweep.batch /\ sweep'.todo = sweep.todo \ {w}
            /\ sweep'.gone \subseteq sweep.gone \cup {w}
        BY <3>1, <4>1
      <4>4. faults' \in 0..MaxFaults
        BY <3>1, <3>2
      <4> QED
        BY <4>2, <4>3, <4>4
    <3>3. CASE /\ faults < MaxFaults /\ faults' = faults + 1
               /\ sweep' = [sweep EXCEPT !.todo = @ \ {w}] /\ UNCHANGED file
      <4>1. sweep' = [batch |-> sweep.batch, todo |-> sweep.todo \ {w},
                      gone |-> sweep.gone, aborted |-> sweep.aborted]
        BY <3>1, <3>3
      <4> QED
        BY <3>1, <3>3, <4>1
    <3>4. CASE /\ faults < MaxFaults /\ faults' = faults + 1 /\ file' = file \ {w}
               /\ sweep' = [sweep EXCEPT !.todo = @ \ {w}, !.aborted = TRUE]
      <4>1. sweep' = [batch |-> sweep.batch, todo |-> sweep.todo \ {w},
                      gone |-> sweep.gone, aborted |-> TRUE]
        BY <3>1, <3>4
      <4>2. file' \subseteq file /\ file \ {w} \subseteq file' /\ w \notin file'
        BY <3>4
      <4>3. /\ sweep' \in [batch: SUBSET Uploads, todo: SUBSET Uploads, gone: SUBSET Uploads,
                          aborted: BOOLEAN]
            /\ sweep'.batch = sweep.batch /\ sweep'.todo = sweep.todo \ {w}
            /\ sweep'.gone \subseteq sweep.gone \cup {w}
        BY <3>1, <4>1
      <4>4. faults' \in 0..MaxFaults
        BY <3>1, <3>4
      <4> QED
        BY <4>2, <4>3, <4>4
    <3> QED
      BY <1>2, <3>2, <3>3, <3>4 DEF SweepOne, Unlinkable, Fault
  <2>4. UNCHANGED <<row, late, upload, take, discard, usedBy, stray>>
    BY <1>2 DEF SweepOne
  <2>5. MediaTypeOK'
    <3>1. sweep'.gone \cup sweep'.todo \subseteq sweep'.batch
      BY <2>1, <2>2 DEF MediaTypeOK
    <3>2. stray' \subseteq file' /\ file' \subseteq Uploads
      BY <2>1, <2>2, <2>4 DEF MediaTypeOK
    <3> QED
      BY <2>2, <2>4, <3>1, <3>2 DEF MediaTypeOK
  <2>6. \A u \in Uploads : Registered(u)'
    BY <2>1, <2>2, <2>4 DEF Registered, UnderWay
  <2>7. \A u \in Uploads : Gripped(u)'
    BY <2>1, <2>2, <2>4 DEF Gripped
  <2>8. \A t \in Takers : InOrder(t)'
    BY <2>4 DEF InOrder
  <2>9. FilesMatchRows'
    BY <2>1, <2>2, <2>4 DEF FilesMatchRows
  <2> QED
    BY <2>5, <2>6, <2>7, <2>8, <2>9
<1>3. CASE SweepEnds
  <2>1. Swept \subseteq sweep.gone /\ sweep.gone \subseteq sweep.batch
    BY DEF Swept, MediaTypeOK
  <2>2. \A u \in Swept : /\ u \in Uploads /\ row[u] = "staged" /\ u \notin file
                         /\ \A t \in Takers : u \notin take[t].held
                         /\ u \in Photos => discard[u] = "idle"
    BY <2>1 DEF Gripped, MediaTypeOK
  <2>3. /\ row' = [u \in Uploads |-> IF u \in Swept THEN "none" ELSE row[u]]
        /\ late' = late \ Swept /\ sweep' = NoSweep
        /\ UNCHANGED <<file, upload, take, discard, usedBy, stray, faults>>
    BY <1>3 DEF SweepEnds
  <2> HIDE DEF Swept
  <2>4. MediaTypeOK'
    BY <2>3 DEF MediaTypeOK, NoSweep
  <2>5. \A u \in Uploads : Registered(u)'
    BY <2>2, <2>3 DEF Registered, MediaTypeOK
  <2>6. \A u \in Uploads : Gripped(u)'
    BY <2>2, <2>3 DEF Gripped, NoSweep
  <2>7. \A t \in Takers : InOrder(t)'
    BY <2>3 DEF InOrder
  <2>8. FilesMatchRows'
    BY <2>2, <2>3 DEF FilesMatchRows
  <2> QED
    BY <2>4, <2>5, <2>6, <2>7, <2>8
<1>4. CASE SweepCrash
  <2>1. /\ sweep' = NoSweep /\ faults' \in 0..MaxFaults
        /\ UNCHANGED <<row, late, file, upload, take, discard, usedBy, stray>>
    BY <1>4 DEF SweepCrash, Fault, MediaTypeOK
  <2>2. MediaTypeOK'
    BY <2>1 DEF MediaTypeOK, NoSweep
  <2>3. \A u \in Uploads : Registered(u)' /\ Gripped(u)'
    BY <2>1 DEF Registered, Gripped, NoSweep
  <2>4. \A t \in Takers : InOrder(t)'
    BY <2>1 DEF InOrder
  <2>5. FilesMatchRows'
    BY <2>1 DEF FilesMatchRows
  <2> QED
    BY <2>2, <2>3, <2>4, <2>5
<1> QED
  BY <1>1, <1>2, <1>3, <1>4

\* A crash keeps locks, rows and files in order: what a request has stored
\* and not registered is left behind.
LEMMA CrashesAreOrderly ==
  ASSUME Orderly, Crash
  PROVE  Orderly'
<1> USE DEF Orderly
<1> USE MediaAssumption DEF Uploads
<1>1. /\ upload' = [u \in Uploads |-> IF upload[u] \in UnderWay THEN "over" ELSE upload[u]]
      /\ stray' = stray \cup {u \in file : upload[u] \in UnderWay}
      /\ take' = [t \in Takers |-> NoTake] /\ discard' = [u \in Photos |-> "idle"]
      /\ faults' \in 0..MaxFaults
      /\ UNCHANGED <<row, late, file, sweep, usedBy>>
  BY DEF Crash, Fault, MediaTypeOK
<1>2. take' \in [Takers -> [todo: SUBSET Photos, held: SUBSET Photos, on: BOOLEAN]]
  BY <1>1 DEF NoTake
<1>3. MediaTypeOK'
  BY <1>1, <1>2 DEF MediaTypeOK, UnderWay
<1>4. \A u \in Uploads : Registered(u)'
  BY <1>1 DEF Registered, MediaTypeOK, UnderWay
<1>5. \A u \in Uploads : Gripped(u)'
  BY <1>1 DEF Gripped, NoTake
<1>6. \A t \in Takers : InOrder(t)'
  BY <1>1 DEF InOrder, NoTake
<1>7. FilesMatchRows'
  BY <1>1 DEF FilesMatchRows, MediaTypeOK
<1> QED
  BY <1>3, <1>4, <1>5, <1>6, <1>7

\* Every step of the registry keeps locks, rows and files in order.
LEMMA MediaStaysOrderly ==
  ASSUME Orderly, MediaNext
  PROVE  Orderly'
<1>1. ASSUME NEW u \in Uploads, UploadStep(u) \/ Expire(u) PROVE Orderly'
  BY <1>1, UploadsAreOrderly
<1>2. ASSUME NEW u \in Photos, DiscardStep(u) PROVE Orderly'
  BY <1>2, DiscardsAreOrderly
<1>3. ASSUME NEW t \in Takers, TakeStep(t) PROVE Orderly'
  BY <1>3, TakesAreOrderly
<1>4. ASSUME Sweep \/ SweepEnds \/ SweepCrash \/ \E u \in Uploads : SweepOne(u)
      PROVE  Orderly'
  BY <1>4, SweepsAreOrderly
<1>5. ASSUME Crash PROVE Orderly'
  BY <1>5, CrashesAreOrderly
<1> QED
  BY <1>1, <1>2, <1>3, <1>4, <1>5 DEF MediaNext

\* Nothing but registering adds to what a pass has staged in time, and only
\* what found room has counted.
LEMMA QuotaIsKept ==
  ASSUME MediaInv, MediaNext
  PROVE  RoomForOne' /\ QuotaKept'
<1> USE MediaAssumption DEF MediaInv, Orderly
<1>1. MediaTypeOK /\ \A u \in Guest : u \in Photos /\ u \in Uploads
  BY DEF Uploads
<1>2. ASSUME NEW w \in Uploads, Count(w) PROVE RoomForOne' /\ QuotaKept'
  <2>1. InTime' = InTime /\ StagedOf(w) = InTime
    BY <1>2 DEF Count, InTime, StagedOf
  <2>2. QuotaKept'
    BY <2>1 DEF QuotaKept, InTime
  <2>3. \A u \in Guest \ {w} : upload'[u] = upload[u]
    BY <1>1, <1>2 DEF Count, MediaTypeOK
  <2>4. CASE w \in Guest /\ upload'[w] = "counted"
    <3>1. Cardinality(InTime) < Quota
      <4>1. ~(Cardinality(InTime) >= Quota)
        BY <1>2, <2>1, <2>4 DEF Count, MediaTypeOK
      <4>2. Cardinality(InTime) \in Nat
        BY FS_Subset, FS_CardinalityType DEF InTime
      <4> QED
        BY <4>1, <4>2
    <3>2. \A v \in Guest \ {w} : upload[v] # "counted"
      BY <1>2, <2>4 DEF Count, PassFree
    <3> QED
      BY <2>1, <2>2, <2>3, <3>1, <3>2 DEF RoomForOne
  <2>5. CASE ~(w \in Guest /\ upload'[w] = "counted")
    BY <2>1, <2>2, <2>3, <2>5 DEF RoomForOne
  <2> QED
    BY <2>4, <2>5
<1>3. ASSUME NEW w \in Uploads, Register(w) PROVE RoomForOne' /\ QuotaKept'
  <2>1. /\ upload' = [upload EXCEPT ![w] = "over"] /\ row' = [row EXCEPT ![w] = "staged"]
        /\ upload[w] = "counted" /\ UNCHANGED late
    BY <1>3 DEF Register
  <2>2. CASE w \in Guest
    <3>1. /\ Cardinality(InTime) < Quota
          /\ \A u \in Guest : upload[u] = "counted" => u = w
      BY <2>1, <2>2 DEF RoomForOne
    <3>2. InTime' \subseteq InTime \cup {w}
      BY <1>1, <2>1 DEF InTime, MediaTypeOK
    <3>3. IsFiniteSet(InTime) /\ Cardinality(InTime) \in Nat
      BY FS_Subset, FS_CardinalityType DEF InTime
    <3>4. /\ IsFiniteSet(InTime \cup {w})
          /\ Cardinality(InTime \cup {w}) <= Cardinality(InTime) + 1
          /\ Cardinality(InTime \cup {w}) \in Nat
      <4>1. IsFiniteSet(InTime \cup {w})
        BY <3>3, FS_AddElement
      <4>2. Cardinality(InTime \cup {w}) \in {Cardinality(InTime), Cardinality(InTime) + 1}
        BY <3>3, FS_AddElement
      <4> QED
        BY <3>3, <4>1, <4>2, FS_CardinalityType
    <3>5. /\ Cardinality(InTime') <= Cardinality(InTime \cup {w})
          /\ Cardinality(InTime') \in Nat
      BY <3>2, <3>4, FS_Subset, FS_CardinalityType
    <3>6. Cardinality(InTime') <= Quota
      BY <3>1, <3>3, <3>4, <3>5
    <3>7. QuotaKept'
      BY <3>6 DEF QuotaKept, InTime
    <3>8. \A u \in Guest : upload'[u] # "counted"
      BY <1>1, <2>1, <3>1 DEF MediaTypeOK
    <3> QED
      BY <3>7, <3>8 DEF RoomForOne
  <2>3. CASE w \notin Guest
    <3>1. InTime' \subseteq InTime /\ \A u \in Guest : upload'[u] = upload[u]
      BY <1>1, <2>1, <2>3 DEF InTime, MediaTypeOK
    <3> QED
      BY <3>1, QuotaStays
  <2> QED
    BY <2>2, <2>3
<1>4. ASSUME NEW w \in Uploads, Store(w) \/ Import(w) \/ Refuse(w) \/ RemoveFile(w)
      PROVE  RoomForOne' /\ QuotaKept'
  <2>1. /\ InTime' \subseteq InTime
        /\ \A u \in Guest : upload'[u] = "counted" => upload[u] = "counted"
    BY <1>1, <1>4 DEF Store, Import, Refuse, RemoveFile, InTime, MediaTypeOK
  <2> QED
    BY <2>1, QuotaStays
<1>5. ASSUME NEW w \in Uploads, Expire(w) \/ SweepOne(w)
      PROVE  RoomForOne' /\ QuotaKept'
  <2>1. InTime' \subseteq InTime /\ UNCHANGED upload
    BY <1>5 DEF Expire, SweepOne, InTime
  <2> QED
    BY <2>1, QuotaStays
<1>6. ASSUME NEW w \in Photos, DiscardStep(w)
      PROVE  RoomForOne' /\ QuotaKept'
  <2>1. CASE Delete(w)
    <3>1. UNCHANGED upload /\ \A u \in InTime' : row[u] = "staged" /\ u \notin late
      BY <1>1, <2>1 DEF Delete, InTime, MediaTypeOK
    <3>2. InTime' \subseteq InTime
      BY <3>1 DEF InTime
    <3> QED
      BY <3>1, <3>2, QuotaStays
  <2>2. CASE Discard(w) \/ Unlink(w)
    <3>1. InTime' \subseteq InTime /\ UNCHANGED upload
      BY <2>2 DEF Discard, Unlink, InTime
    <3> QED
      BY <3>1, QuotaStays
  <2> QED
    BY <1>6, <2>1, <2>2 DEF DiscardStep
<1>7. ASSUME NEW s \in Takers, TakeStep(s)
      PROVE  RoomForOne' /\ QuotaKept'
  <2>1. UNCHANGED upload
    BY <1>7 DEF TakeStep, Begin, Lock, Attach, RollBack
  <2>2. CASE Attach(s)
    <3>1. InTime' \subseteq InTime
      BY <1>1, <2>2 DEF Attach, InTime, MediaTypeOK
    <3> QED
      BY <2>1, <3>1, QuotaStays
  <2>3. CASE Begin(s) \/ Lock(s) \/ RollBack(s)
    <3>1. InTime' \subseteq InTime
      BY <2>3 DEF Begin, Lock, RollBack, InTime
    <3> QED
      BY <2>1, <3>1, QuotaStays
  <2> QED
    BY <1>7, <2>2, <2>3 DEF TakeStep
<1>8. CASE Sweep \/ SweepEnds \/ SweepCrash
  <2>1. UNCHANGED upload
    BY <1>8 DEF Sweep, SweepEnds, SweepCrash
  <2>2. \A u \in Guest : row'[u] = "staged" /\ u \notin late' => row[u] = "staged" /\ u \notin late
    <3>1. CASE SweepEnds
      BY <1>1, <3>1 DEF SweepEnds, MediaTypeOK
    <3>2. CASE Sweep \/ SweepCrash
      BY <3>2 DEF Sweep, SweepCrash
    <3> QED
      BY <1>8, <3>1, <3>2
  <2>3. InTime' \subseteq InTime
    BY <2>2 DEF InTime
  <2> QED
    BY <2>1, <2>3, QuotaStays
<1>9. CASE Crash
  <2>1. /\ InTime' \subseteq InTime
        /\ \A u \in Guest : upload'[u] = "counted" => upload[u] = "counted"
    BY <1>1, <1>9 DEF Crash, InTime, MediaTypeOK
  <2> QED
    BY <2>1, QuotaStays
<1> QED
  BY <1>2, <1>3, <1>4, <1>5, <1>6, <1>7, <1>8, <1>9 DEF MediaNext, UploadStep

\* The invariant is preserved by every step.
LEMMA MediaInvariant == MediaSpec => []MediaInv
<1>1. MediaInit => MediaInv
  BY MediaInitially
<1>2. MediaInv /\ [MediaNext]_mediaVars => MediaInv'
  <2>1. ASSUME MediaInv, MediaNext PROVE MediaInv'
    BY <2>1, MediaStaysOrderly, QuotaIsKept DEF MediaInv
  <2>2. ASSUME MediaInv, UNCHANGED mediaVars PROVE MediaInv'
    BY <2>2 DEF MediaInv, Orderly, mediaVars, MediaTypeOK, Registered, Gripped, InOrder,
                RoomForOne, InTime, QuotaKept, FilesMatchRows
  <2> QED
    BY <2>1, <2>2
<1> QED
  BY <1>1, <1>2, PTL DEF MediaSpec

\* Two requests never wait for each other's photos: what the one waits for is
\* less than all the other has left, and the other way round.
LEMMA NobodyWaitsInACircle == MediaInv => NoWaitingCircle
<1> SUFFICES ASSUME MediaInv, NEW t \in Takers, NEW s \in Takers,
                    take[t].todo # {}, First(t) \in take[s].held,
                    take[s].todo # {}, First(s) \in take[t].held
             PROVE  FALSE
  BY DEF NoWaitingCircle
<1>1. /\ take[t].todo \in SUBSET Nat /\ take[s].todo \in SUBSET Nat
      /\ InOrder(t) /\ InOrder(s)
  BY MediaAssumption DEF MediaInv, Orderly, MediaTypeOK
<1>2. First(t) \in take[t].todo
  BY <1>1, MinExists DEF First
<1>3. First(s) \in take[s].todo
  BY <1>1, MinExists DEF First
<1>4. First(t) < First(s) /\ First(s) < First(t)
  BY <1>1, <1>2, <1>3 DEF InOrder
<1> QED
  BY <1>1, <1>2, <1>3, <1>4

\* Registry, disk and locks stay in order, whatever uploads, submissions,
\* DELETEs, sweeps and crashes do at the same time.
THEOREM RegistryIsSoundCorrect == MediaSpec => []RegistryIsSound
<1>1. MediaInv => RegistryIsSound
  BY NobodyWaitsInACircle DEF MediaInv, Orderly, RegistryIsSound
<1> QED
  BY <1>1, MediaInvariant, PTL

\* A photo is used once and for good: it takes the lock of a staged row to
\* attach, discard or sweep one.
THEOREM UsedForGoodCorrect == MediaSpec => UsedForGood
<1> DEFINE Kept == \A u \in Uploads : row[u] = "attached" =>
                     row'[u] = "attached" /\ usedBy'[u] = usedBy[u]
<1>1. MediaInv /\ [MediaNext]_mediaVars => [Kept]_mediaVars
  <2> SUFFICES ASSUME MediaInv, MediaNext, NEW u \in Uploads, row[u] = "attached"
               PROVE  row'[u] = "attached" /\ usedBy'[u] = usedBy[u]
    OBVIOUS
  <2> USE DEF MediaInv, Orderly, Registered, Gripped
  <2>1. MediaTypeOK /\ Registered(u) /\ Gripped(u)
    OBVIOUS
  <2>2. ASSUME NEW w \in Uploads, UploadStep(w) \/ Expire(w) \/ SweepOne(w)
        PROVE  row'[u] = "attached" /\ usedBy'[u] = usedBy[u]
    BY <2>1, <2>2 DEF UploadStep, Store, Count, Register, Import, Refuse, RemoveFile,
                      Expire, SweepOne, MediaTypeOK
  <2>3. ASSUME NEW w \in Photos, DiscardStep(w)
        PROVE  row'[u] = "attached" /\ usedBy'[u] = usedBy[u]
    BY <2>1, <2>3 DEF DiscardStep, Discard, Unlink, Delete, MediaTypeOK, Uploads
  <2>4. ASSUME NEW s \in Takers, TakeStep(s)
        PROVE  row'[u] = "attached" /\ usedBy'[u] = usedBy[u]
    BY <2>1, <2>4 DEF TakeStep, Begin, Lock, Attach, RollBack
  <2>5. CASE SweepEnds
    <3>1. u \notin Swept
      BY <2>1 DEF Swept, MediaTypeOK
    <3> QED
      BY <2>1, <2>5, <3>1 DEF SweepEnds
  <2>6. CASE Sweep \/ SweepCrash \/ Crash
    BY <2>1, <2>6 DEF Sweep, SweepCrash, Crash
  <2> QED
    BY <2>2, <2>3, <2>4, <2>5, <2>6 DEF MediaNext
<1> QED
  BY <1>1, MediaInvariant, PTL DEF MediaSpec, UsedForGood

-----------------------------------------------------------------------------
(***************************************************************************)
(* The newsletter: its inductive invariant.                                *)
(***************************************************************************)

\* A request that mails an issue is about an issue that was published, keeps
\* the text it was published with, and has mailed nobody who is left to be
\* served but the one whose row it is about to write.
Addressed(i) ==
  /\ ~posting[i].on => posting[i].todo = {} /\ posting[i].to = Nobody
  /\ issue[i].status \in {"none", "draft"} =>
       ~posting[i].on /\ \A e \in Emails : inbox[e][i] = <<>> /\ delivery[i][e] = NoRow
  /\ posting[i].on /\ Exists(i) => posting[i].text = issue[i].text
  /\ posting[i].to # Nobody => posting[i].to \in posting[i].todo

\* What the request for issue i says of address e, which had been approved
\* when the request read its addresses.
Awaiting(e, i) ==
  /\ e \in posting[i].todo => delivery[i][e] = NoRow
  /\ e \in posting[i].todo /\ e # posting[i].to => inbox[e][i] = <<>>
  /\ e = posting[i].to =>
       /\ posting[i].result \in {"sent", "skipped", "failed"}
       /\ posting[i].result = "sent" => inbox[e][i] # <<>>
       /\ inbox[e][i] # <<>> => posting[i].result # "skipped"
  /\ e \in posting[i].todo \/ inbox[e][i] # <<>> => e \in approvedAt[i]

\* What is on record of address e and issue i.
OnRecord(e, i) ==
  /\ Len(inbox[e][i]) <= 1
  /\ Exists(i) =>
       /\ \A n \in 1..Len(inbox[e][i]) : inbox[e][i][n] = issue[i].text
       /\ delivery[i][e] = "sent" => inbox[e][i] # <<>>
       /\ inbox[e][i] # <<>> /\ stops = 0 /\ posting[i].to # e
            => delivery[i][e] \in {"sent", "failed"}

ActiveWereAsked == \A e \in Emails : subscriber[e] = "active" <=> e \in asked

NewsletterInv ==
  /\ NewsletterTypeOK
  /\ \A i \in Issues : Addressed(i)
  /\ \A e \in Emails, i \in Issues : Awaiting(e, i) /\ OnRecord(e, i)
  /\ ActiveWereAsked

\* What mails and issues are about.
mailing == <<issue, delivery, posting, inbox, stops, approvedAt>>
InTheMail == \A i \in Issues : Addressed(i) /\ \A e \in Emails : Awaiting(e, i) /\ OnRecord(e, i)

LEMMA ServedRests == ASSUME InTheMail, UNCHANGED mailing PROVE InTheMail'
BY DEF InTheMail, mailing, Addressed, Awaiting, OnRecord, Exists

LEMMA NewsletterInitially == NewsletterInit => NewsletterInv
<1> SUFFICES ASSUME NewsletterInit PROVE NewsletterInv
  OBVIOUS
<1> USE NewsletterAssumption
<1>1. NewsletterTypeOK
  <2>1. /\ subscriber \in [Emails -> {"none", "pending", "active", "rejected", "unsubscribed"}]
        /\ delivery \in [Issues -> [Emails -> {NoRow, "sent", "skipped", "failed"}]]
        /\ clock \in 0..MaxClock /\ stops \in 0..MaxStops /\ configured \in BOOLEAN
        /\ asked \subseteq Emails /\ approvedAt \in [Issues -> SUBSET Emails]
    BY DEF NewsletterInit
  <2>2. /\ issue \in [Issues -> [status: {"none", "draft", "published", "deleted"},
                                 text: 0..MaxText, at: 0..clock]]
        /\ \A i \in Issues : issue[i].status = "published" <=> issue[i].at # 0
    BY DEF NewsletterInit, NoIssue
  <2>3. /\ block \in [Blocks -> [status: {"none", "draft", "published", "hidden"}, at: 0..clock]]
        /\ \A b \in Blocks : block[b].status = "published" <=> block[b].at # 0
    BY DEF NewsletterInit, NoBlock
  <2>4. posting \in [Issues -> [on: BOOLEAN, text: 0..MaxText, todo: SUBSET Emails,
                                to: Emails \cup {Nobody},
                                result: {"none", "sent", "skipped", "failed"}]]
    BY DEF NewsletterInit, NoPosting
  <2>5. inbox \in [Emails -> [Issues -> Seq(0..MaxText)]]
    BY DEF NewsletterInit
  <2> QED
    BY <2>1, <2>2, <2>3, <2>4, <2>5 DEF NewsletterTypeOK
<1>2. \A i \in Issues : Addressed(i)
  BY DEF NewsletterInit, Addressed, NoPosting
<1>3. \A e \in Emails, i \in Issues : Awaiting(e, i)
  BY DEF NewsletterInit, Awaiting, NoPosting
<1>4. \A e \in Emails, i \in Issues : OnRecord(e, i)
  BY DEF NewsletterInit, OnRecord, NoIssue, Exists
<1>5. ActiveWereAsked
  BY DEF NewsletterInit, ActiveWereAsked
<1> QED
  BY <1>1, <1>2, <1>3, <1>4, <1>5 DEF NewsletterInv

\* Signing up, withdrawing and reviewing change the subscriber and what was
\* asked of it together.
LEMMA SubscribersKeep ==
  ASSUME NewsletterInv, NEW e \in Emails, SubscriberStep(e)
  PROVE  NewsletterInv'
<1> USE DEF NewsletterInv
<1>1. UNCHANGED <<issue, block, delivery, posting, configured, clock, inbox, stops,
                  approvedAt>>
  BY DEF SubscriberStep, Subscribe, Unsubscribe, Review
<1>2. /\ subscriber' \in [Emails -> {"none", "pending", "active", "rejected", "unsubscribed"}]
      /\ asked' \subseteq Emails
  BY DEF SubscriberStep, Subscribe, Requested, Unsubscribe, Review, NewsletterTypeOK
<1>3. NewsletterTypeOK'
  BY <1>1, <1>2 DEF NewsletterTypeOK
<1>4. ActiveWereAsked'
  BY DEF SubscriberStep, Subscribe, Requested, Unsubscribe, Review, NewsletterTypeOK,
         ActiveWereAsked
<1>5. InTheMail'
  BY <1>1, ServedRests DEF InTheMail, mailing
<1> QED
  BY <1>3, <1>4, <1>5 DEF InTheMail

\* Updates on the public page carry a date exactly while they are published.
LEMMA BlocksKeep ==
  ASSUME NewsletterInv, NEW b \in Blocks, BlockStep(b)
  PROVE  NewsletterInv'
<1> USE NewsletterAssumption DEF NewsletterInv
<1>1. UNCHANGED <<subscriber, issue, delivery, posting, configured, inbox, asked, stops,
                  approvedAt>>
  BY DEF BlockStep, SaveBlock, DeleteBlock
<1>2. clock' \in 0..MaxClock /\ clock <= clock'
  BY DEF BlockStep, SaveBlock, DeleteBlock, NewsletterTypeOK
<1>3. /\ block' \in [Blocks -> [status: {"none", "draft", "published", "hidden"},
                                at: 0..clock']]
      /\ \A c \in Blocks : block'[c].status = "published" <=> block'[c].at # 0
  <2>1. CASE DeleteBlock(b)
    <3>1. clock' = clock /\ clock \in Nat /\ block' = [block EXCEPT ![b] = NoBlock]
      BY <2>1 DEF DeleteBlock, NewsletterTypeOK
    <3> QED
      BY <3>1 DEF NoBlock, NewsletterTypeOK
  <2>2. ASSUME NEW status \in {"draft", "published", "hidden"}, SaveBlock(b, status)
        PROVE  /\ block' \in [Blocks -> [status: {"none", "draft", "published", "hidden"},
                                       at: 0..clock']]
               /\ \A c \in Blocks : block'[c].status = "published" <=> block'[c].at # 0
    <3>1. clock' = clock + 1 /\ clock \in Nat
          /\ block' = [block EXCEPT ![b] = [status |-> status, at |-> DatedBy(b, status)]]
      BY <2>2 DEF SaveBlock, NewsletterTypeOK
    <3>2. /\ DatedBy(b, status) \in 0..clock'
          /\ status = "published" <=> DatedBy(b, status) # 0
      BY <3>1 DEF DatedBy, NewsletterTypeOK
    <3> QED
      BY <3>1, <3>2 DEF NewsletterTypeOK
  <2> QED
    BY <2>1, <2>2 DEF BlockStep
<1>4. issue' \in [Issues -> [status: {"none", "draft", "published", "deleted"},
                             text: 0..MaxText, at: 0..clock']]
  BY <1>1, <1>2 DEF NewsletterTypeOK
<1>5. NewsletterTypeOK'
  BY <1>1, <1>2, <1>3, <1>4 DEF NewsletterTypeOK
<1>6. InTheMail'
  BY <1>1, ServedRests DEF InTheMail, mailing
<1> QED
  BY <1>1, <1>5, <1>6 DEF InTheMail, ActiveWereAsked

\* Issues: nobody has been mailed one before it is published, and afterwards
\* its text stays.
LEMMA IssuesKeep ==
  ASSUME NewsletterInv, NEW i \in Issues, IssueStep(i)
  PROVE  NewsletterInv'
<1> USE NewsletterAssumption DEF NewsletterInv
<1>1. ASSUME NEW text \in 1..MaxText, CreateIssue(i, text) \/ EditIssue(i, text)
      PROVE  NewsletterInv'
  <2>1. /\ issue[i].status \in {"none", "draft"}
        /\ UNCHANGED <<subscriber, block, delivery, posting, configured, clock, inbox, asked,
                       approvedAt, stops>>
    BY <1>1 DEF CreateIssue, EditIssue, Editable
  <2>2. /\ issue' = [issue EXCEPT ![i] = [status |-> "draft", text |-> text, at |-> 0]]
        /\ issue'[i] = [status |-> "draft", text |-> text, at |-> 0]
    <3>1. CASE CreateIssue(i, text)
      BY <3>1 DEF CreateIssue, NewsletterTypeOK
    <3>2. CASE EditIssue(i, text)
      <4>1. /\ issue[i] \in [status: {"none", "draft", "published", "deleted"},
                             text: 0..MaxText, at: 0..clock]
            /\ issue[i].status = "draft" /\ issue[i].at = 0
            /\ issue' = [issue EXCEPT ![i].text = text]
        BY <3>2 DEF EditIssue, Editable, NewsletterTypeOK
      <4>2. [issue[i] EXCEPT !.text = text] = [status |-> "draft", text |-> text, at |-> 0]
        BY <4>1
      <4> QED
        BY <4>1, <4>2 DEF NewsletterTypeOK
    <3> QED
      BY <1>1, <3>1, <3>2
  <2>3. text \in 0..MaxText /\ clock \in Nat
    BY DEF NewsletterTypeOK
  <2>4. NewsletterTypeOK'
    <3>1. /\ issue' \in [Issues -> [status: {"none", "draft", "published", "deleted"},
                                    text: 0..MaxText, at: 0..clock]]
          /\ \A j \in Issues : issue'[j].status = "published" <=> issue'[j].at # 0
      <4>1. issue'[i] \in [status: {"none", "draft", "published", "deleted"},
                           text: 0..MaxText, at: 0..clock]
        BY <2>2, <2>3
      <4> QED
        BY <2>2, <4>1 DEF NewsletterTypeOK
    <3> QED
      BY <2>1, <3>1 DEF NewsletterTypeOK
  <2>5. ASSUME NEW j \in Issues, j # i
        PROVE  Addressed(j)' /\ \A e \in Emails : Awaiting(e, j)' /\ OnRecord(e, j)'
    <3>1. issue'[j] = issue[j]
      BY <2>2, <2>5 DEF NewsletterTypeOK
    <3> QED
      BY <2>1, <2>5, <3>1 DEF Addressed, Awaiting, OnRecord, Exists
  <2>6. Addressed(i)' /\ \A e \in Emails : Awaiting(e, i)' /\ OnRecord(e, i)'
    <3>1. ~posting[i].on /\ posting[i].todo = {} /\ posting[i].to = Nobody
          /\ \A e \in Emails : inbox[e][i] = <<>> /\ delivery[i][e] = NoRow
      BY <2>1 DEF Addressed
    <3>2. Addressed(i)'
      BY <2>1, <2>2, <3>1 DEF Addressed
    <3>3. ASSUME NEW e \in Emails PROVE Awaiting(e, i)'
      BY <2>1, <3>1 DEF Awaiting
    <3>4. ASSUME NEW e \in Emails PROVE OnRecord(e, i)'
      BY <2>1, <2>2, <3>1 DEF OnRecord, NoRow
    <3> QED
      BY <3>2, <3>3, <3>4
  <2> QED
    BY <2>1, <2>4, <2>5, <2>6 DEF ActiveWereAsked
<1>2. CASE DeleteIssue(i)
  <2>1. /\ issue' = [issue EXCEPT ![i] = Deleted]
        /\ delivery' = [delivery EXCEPT ![i] = [e \in Emails |-> NoRow]]
        /\ Exists(i)
        /\ UNCHANGED <<subscriber, block, posting, configured, clock, inbox, asked, approvedAt,
                       stops>>
    BY <1>2 DEF DeleteIssue
  <2>2. Deleted = [status |-> "deleted", text |-> 0, at |-> 0]
    BY DEF Deleted, NoIssue
  <2>3. NewsletterTypeOK'
    <3>1. /\ issue' \in [Issues -> [status: {"none", "draft", "published", "deleted"},
                                    text: 0..MaxText, at: 0..clock]]
          /\ \A j \in Issues : issue'[j].status = "published" <=> issue'[j].at # 0
      BY <2>1, <2>2 DEF NewsletterTypeOK
    <3>2. delivery' \in [Issues -> [Emails -> {NoRow, "sent", "skipped", "failed"}]]
      BY <2>1 DEF NewsletterTypeOK
    <3> QED
      BY <2>1, <3>1, <3>2 DEF NewsletterTypeOK
  <2>4. ASSUME NEW j \in Issues, j # i
        PROVE  Addressed(j)' /\ \A e \in Emails : Awaiting(e, j)' /\ OnRecord(e, j)'
    <3>1. issue'[j] = issue[j] /\ delivery'[j] = delivery[j]
      BY <2>1, <2>4 DEF NewsletterTypeOK
    <3> QED
      BY <2>1, <3>1 DEF Addressed, Awaiting, OnRecord, Exists
  <2>5. Addressed(i)' /\ \A e \in Emails : Awaiting(e, i)' /\ OnRecord(e, i)'
    <3>1. issue'[i].status = "deleted" /\ \A e \in Emails : delivery'[i][e] = NoRow
      BY <2>1, <2>2 DEF NewsletterTypeOK
    <3>2. ~Exists(i)'
      BY <3>1 DEF Exists
    <3> QED
      BY <2>1, <3>1, <3>2 DEF Addressed, Awaiting, OnRecord
  <2> QED
    BY <2>1, <2>3, <2>4, <2>5 DEF ActiveWereAsked
<1>3. CASE Publish(i)
  <2>1. /\ issue[i].status = "draft" /\ clock' = clock + 1 /\ clock < MaxClock
        /\ issue' = [issue EXCEPT ![i] =
                       [status |-> "published", text |-> issue[i].text, at |-> clock']]
        /\ approvedAt' = [approvedAt EXCEPT ![i] = asked]
        /\ UNCHANGED <<subscriber, block, delivery, configured, inbox, asked, stops>>
    BY <1>3 DEF Publish, Publishable
  <2>2. posting' = [posting EXCEPT ![i] = [on |-> TRUE, text |-> issue[i].text,
                      todo |-> Audience(i), to |-> Nobody, result |-> "none"]]
    BY <1>3 DEF Publish
  <2>3. clock \in Nat /\ clock' \in 0..MaxClock /\ clock' # 0 /\ 0..clock \subseteq 0..clock'
    BY <2>1 DEF NewsletterTypeOK
  <2>4. /\ issue'[i] = [status |-> "published", text |-> issue[i].text, at |-> clock']
        /\ \A j \in Issues \ {i} : issue'[j] = issue[j]
    BY <2>1 DEF NewsletterTypeOK
  <2>5. /\ Audience(i) \subseteq Emails /\ \A e \in Audience(i) : delivery[i][e] = NoRow
        /\ Audience(i) \subseteq approvedAt'[i]
        /\ \A j \in Issues \ {i} : approvedAt'[j] = approvedAt[j]
        /\ approvedAt' \in [Issues -> SUBSET Emails]
    BY <2>1 DEF Audience, ActiveWereAsked, NewsletterTypeOK
  <2>6. NewsletterTypeOK'
    <3>1. /\ issue' \in [Issues -> [status: {"none", "draft", "published", "deleted"},
                                    text: 0..MaxText, at: 0..clock']]
          /\ \A j \in Issues : issue'[j].status = "published" <=> issue'[j].at # 0
      <4>1. issue \in [Issues -> [status: {"none", "draft", "published", "deleted"},
                                  text: 0..MaxText, at: 0..clock']]
        BY <2>3 DEF NewsletterTypeOK
      <4>2. clock' \in 0..clock' /\ issue[i].text \in 0..MaxText
        BY <2>3 DEF NewsletterTypeOK
      <4>3. [status |-> "published", text |-> issue[i].text, at |-> clock']
              \in [status: {"none", "draft", "published", "deleted"},
                   text: 0..MaxText, at: 0..clock']
        BY <4>2
      <4>4. issue' \in [Issues -> [status: {"none", "draft", "published", "deleted"},
                                  text: 0..MaxText, at: 0..clock']]
        BY <2>1, <4>1, <4>3
      <4>5. \A j \in Issues : issue[j].status = "published" <=> issue[j].at # 0
        BY DEF NewsletterTypeOK
      <4>6. \A j \in Issues : issue'[j].status = "published" <=> issue'[j].at # 0
        BY <2>3, <2>4, <4>5
      <4> QED
        BY <4>4, <4>6
    <3>2. posting' \in [Issues -> [on: BOOLEAN, text: 0..MaxText, todo: SUBSET Emails,
                                  to: Emails \cup {Nobody},
                                  result: {"none", "sent", "skipped", "failed"}]]
      BY <2>2, <2>5 DEF NewsletterTypeOK
    <3>3. block' \in [Blocks -> [status: {"none", "draft", "published", "hidden"},
                                at: 0..clock']]
      BY <2>1, <2>3 DEF NewsletterTypeOK
    <3> QED
      BY <2>1, <2>3, <2>5, <3>1, <3>2, <3>3 DEF NewsletterTypeOK
  <2>7. ASSUME NEW j \in Issues, j # i
        PROVE  Addressed(j)' /\ \A e \in Emails : Awaiting(e, j)' /\ OnRecord(e, j)'
    <3>1. issue'[j] = issue[j] /\ posting'[j] = posting[j] /\ approvedAt'[j] = approvedAt[j]
      BY <2>2, <2>4, <2>5, <2>7 DEF NewsletterTypeOK
    <3>2. Addressed(j)'
      BY <2>1, <3>1 DEF Addressed, Exists
    <3>3. ASSUME NEW e \in Emails PROVE Awaiting(e, j)'
      BY <2>1, <3>1 DEF Awaiting
    <3>4. ASSUME NEW e \in Emails PROVE OnRecord(e, j)'
      BY <2>1, <3>1 DEF OnRecord, Exists
    <3> QED
      BY <3>2, <3>3, <3>4
  <2>8. Addressed(i)' /\ \A e \in Emails : Awaiting(e, i)' /\ OnRecord(e, i)'
    <3>1. posting'[i] = [on |-> TRUE, text |-> issue[i].text,
                         todo |-> Audience(i), to |-> Nobody, result |-> "none"]
      BY <2>2 DEF NewsletterTypeOK
    <3>2. \A e \in Emails : inbox[e][i] = <<>> /\ delivery[i][e] = NoRow /\ e # Nobody
      BY <2>1 DEF Addressed
    <3>3. Addressed(i)'
      BY <2>4, <3>1 DEF Addressed
    <3>4. \A e \in Emails : Awaiting(e, i)'
      BY <2>1, <2>5, <3>1, <3>2 DEF Awaiting
    <3>5. \A e \in Emails : OnRecord(e, i)'
      BY <2>1, <2>4, <3>2 DEF OnRecord, NoRow
    <3> QED
      BY <3>3, <3>4, <3>5
  <2> QED
    BY <2>1, <2>6, <2>7, <2>8 DEF ActiveWereAsked
<1> QED
  BY <1>1, <1>2, <1>3 DEF IssueStep

\* Mailing an issue: the address in hand gets its one copy before its row is
\* written, and leaves the list with it.
LEMMA PostsKeep ==
  ASSUME NewsletterInv, NEW i \in Issues, Post(i)
  PROVE  NewsletterInv'
<1> USE NewsletterAssumption DEF NewsletterInv
<1>1. /\ Addressed(i) /\ posting[i].text \in 0..MaxText
      /\ posting[i] \in [on: BOOLEAN, text: 0..MaxText, todo: SUBSET Emails,
                         to: Emails \cup {Nobody},
                         result: {"none", "sent", "skipped", "failed"}]
  BY DEF NewsletterTypeOK
<1>2. CASE Mail(i)
  <2>1. PICK e \in posting[i].todo, result \in Outcomes :
          /\ posting' = [posting EXCEPT ![i].to = e, ![i].result = result]
          /\ \/ /\ result # "skipped"
                /\ inbox' = [inbox EXCEPT ![e][i] = Append(@, posting[i].text)]
             \/ result # "sent" /\ UNCHANGED inbox
    BY <1>2 DEF Mail
  <2>2. /\ UNCHANGED <<subscriber, issue, block, delivery, configured, clock, asked,
                       approvedAt, stops>>
        /\ posting[i].on /\ posting[i].to = Nobody /\ e \in Emails /\ e # Nobody
        /\ result \in {"sent", "skipped", "failed"}
    BY <1>1, <1>2 DEF Mail, Outcomes
  <2>3. /\ posting'[i] = [on |-> TRUE, text |-> posting[i].text, todo |-> posting[i].todo,
                          to |-> e, result |-> result]
        /\ posting' = [posting EXCEPT ![i] = [on |-> TRUE, text |-> posting[i].text,
                         todo |-> posting[i].todo, to |-> e, result |-> result]]
    <3>1. posting'[i] = [posting[i] EXCEPT !.to = e, !.result = result]
      BY <2>1 DEF NewsletterTypeOK
    <3>2. posting' = [posting EXCEPT ![i] = posting'[i]]
      BY <2>1 DEF NewsletterTypeOK
    <3> QED
      BY <1>1, <2>2, <3>1, <3>2
  <2>4. /\ inbox' \in [Emails -> [Issues -> Seq(0..MaxText)]]
        /\ \A f \in Emails, j \in Issues : f # e \/ j # i => inbox'[f][j] = inbox[f][j]
        /\ \/ inbox'[e][i] = <<posting[i].text>> /\ result # "skipped"
           \/ inbox'[e][i] = <<>> /\ result # "sent"
    <3>1. inbox[e][i] = <<>> /\ inbox \in [Emails -> [Issues -> Seq(0..MaxText)]]
      BY <2>1, <2>2 DEF Awaiting, NewsletterTypeOK
    <3>2. CASE result # "skipped" /\ inbox' = [inbox EXCEPT ![e][i] = Append(@, posting[i].text)]
      <4>1. Append(inbox[e][i], posting[i].text) = <<posting[i].text>>
        BY <3>1
      <4>2. <<posting[i].text>> \in Seq(0..MaxText)
        BY <1>1
      <4>3. inbox' = [inbox EXCEPT ![e][i] = <<posting[i].text>>]
        BY <2>2, <3>1, <3>2, <4>1
      <4> HIDE <3>2, <4>1
      <4> QED
        BY <2>2, <3>1, <3>2, <4>2, <4>3
    <3>3. CASE result # "sent" /\ UNCHANGED inbox
      BY <3>1, <3>3
    <3> QED
      BY <2>1, <3>2, <3>3
  <2>5. /\ Len(inbox'[e][i]) <= 1
        /\ \A n \in 1..Len(inbox'[e][i]) : inbox'[e][i][n] = posting[i].text
        /\ result = "sent" => inbox'[e][i] # <<>>
        /\ inbox'[e][i] # <<>> => result # "skipped"
    <3>1. CASE inbox'[e][i] = <<posting[i].text>> /\ result # "skipped"
      <4>1. Len(inbox'[e][i]) = 1 /\ inbox'[e][i][1] = posting[i].text
        BY <3>1
      <4> QED
        BY <3>1, <4>1
    <3>2. CASE inbox'[e][i] = <<>> /\ result # "sent"
      <4>1. Len(inbox'[e][i]) = 0
        BY <3>2
      <4> QED
        BY <3>2, <4>1
    <3> QED
      BY <2>4, <3>1, <3>2
  <2>6. NewsletterTypeOK'
    <3>1. posting' \in [Issues -> [on: BOOLEAN, text: 0..MaxText, todo: SUBSET Emails,
                                  to: Emails \cup {Nobody},
                                  result: {"none", "sent", "skipped", "failed"}]]
      BY <1>1, <2>2, <2>3 DEF NewsletterTypeOK
    <3> QED
      BY <2>2, <2>4, <3>1 DEF NewsletterTypeOK
  <2>7. ASSUME NEW j \in Issues, j # i
        PROVE  Addressed(j)' /\ \A f \in Emails : Awaiting(f, j)' /\ OnRecord(f, j)'
    <3>1. posting'[j] = posting[j] /\ \A f \in Emails : inbox'[f][j] = inbox[f][j]
      BY <2>3, <2>4, <2>7 DEF NewsletterTypeOK
    <3>2. Addressed(j)'
      BY <2>2, <3>1 DEF Addressed, Exists
    <3>3. ASSUME NEW f \in Emails PROVE Awaiting(f, j)'
      BY <2>2, <3>1 DEF Awaiting
    <3>4. ASSUME NEW f \in Emails PROVE OnRecord(f, j)'
      BY <2>2, <3>1 DEF OnRecord, Exists
    <3> QED
      BY <3>2, <3>3, <3>4
  <2>8. Addressed(i)'
    BY <1>1, <2>1, <2>2, <2>3 DEF Addressed, Exists
  <2>9. ASSUME NEW f \in Emails PROVE Awaiting(f, i)' /\ OnRecord(f, i)'
    <3>1. CASE f = e
      <4>1. Awaiting(e, i)'
        BY <2>1, <2>2, <2>3, <2>5 DEF Awaiting
      <4>2. delivery'[i][e] = NoRow /\ issue'[i] = issue[i] /\ posting'[i].to = e
        BY <2>1, <2>2, <2>3 DEF Awaiting
      <4>3. Exists(i) => posting[i].text = issue[i].text
        BY <2>1, <2>2 DEF Addressed
      <4>4. OnRecord(e, i)'
        BY <2>5, <4>2, <4>3 DEF OnRecord, Exists, NoRow
      <4> QED
        BY <3>1, <4>1, <4>4
    <3>2. CASE f # e
      <4>1. inbox'[f][i] = inbox[f][i] /\ f # posting[i].to /\ f # posting'[i].to
        BY <2>2, <2>3, <2>4, <3>2
      <4>2. Awaiting(f, i)'
        BY <2>2, <2>3, <4>1 DEF Awaiting
      <4>3. OnRecord(f, i)'
        BY <2>2, <2>3, <4>1 DEF OnRecord, Exists
      <4> QED
        BY <4>2, <4>3
    <3> QED
      BY <3>1, <3>2
  <2> QED
    BY <2>2, <2>6, <2>7, <2>8, <2>9 DEF ActiveWereAsked
<1>3. CASE Record(i)
  <2> DEFINE e == posting[i].to
  <2>1. /\ posting[i].on /\ e # Nobody /\ e \in posting[i].todo /\ e \in Emails
        /\ UNCHANGED <<subscriber, issue, block, configured, clock, inbox, asked, approvedAt,
                       stops>>
    BY <1>1, <1>3 DEF Record, Addressed
  <2>2. /\ posting[i].result \in {"sent", "skipped", "failed"} /\ delivery[i][e] = NoRow
        /\ posting[i].result = "sent" => inbox[e][i] # <<>>
        /\ inbox[e][i] # <<>> => posting[i].result # "skipped"
    BY <2>1 DEF Awaiting
  <2>3. /\ posting'[i].to = Nobody /\ posting'[i].todo \subseteq posting[i].todo \ {e}
        /\ posting'[i].text \in 0..MaxText
        /\ posting'[i].on /\ Exists(i) => posting'[i].text = posting[i].text
        /\ ~posting'[i].on => posting'[i].todo = {}
        /\ posting'[i] \in [on: BOOLEAN, text: 0..MaxText, todo: SUBSET Emails,
                            to: Emails \cup {Nobody},
                            result: {"none", "sent", "skipped", "failed"}]
        /\ posting' = [posting EXCEPT ![i] = posting'[i]]
    <3>1. CASE Exists(i)
      <4>1. posting' = [posting EXCEPT ![i] = Continued(i)]
        BY <1>3, <3>1 DEF Record
      <4>2. Continued(i) = [on |-> posting[i].on, text |-> posting[i].text,
                            todo |-> posting[i].todo \ {e}, to |-> Nobody, result |-> "none"]
        BY DEF Continued
      <4>3. posting'[i] = Continued(i) /\ posting' = [posting EXCEPT ![i] = posting'[i]]
        BY <4>1 DEF NewsletterTypeOK
      <4> QED
        BY <1>1, <2>1, <4>2, <4>3
    <3>2. CASE ~Exists(i)
      <4>1. posting' = [posting EXCEPT ![i] = NoPosting]
        BY <1>3, <3>2 DEF Record
      <4>2. posting'[i] = NoPosting /\ posting' = [posting EXCEPT ![i] = posting'[i]]
        BY <4>1 DEF NewsletterTypeOK
      <4> QED
        BY <3>2, <4>2 DEF NoPosting
    <3> QED
      BY <3>1, <3>2
  <2>4. /\ delivery' \in [Issues -> [Emails -> {NoRow, "sent", "skipped", "failed"}]]
        /\ \A f \in Emails, j \in Issues : f # e \/ j # i => delivery'[j][f] = delivery[j][f]
        /\ Exists(i) => delivery'[i][e] = posting[i].result
        /\ issue[i].status \in {"none", "draft"} => delivery' = delivery
    <3>1. CASE Exists(i)
      <4>1. delivery' = [delivery EXCEPT ![i][e] = posting[i].result]
        BY <1>3, <2>2, <3>1 DEF Record
      <4> QED
        BY <2>1, <2>2, <4>1 DEF NewsletterTypeOK, Addressed
    <3>2. CASE ~Exists(i)
      <4>1. delivery' = delivery
        BY <1>3, <3>2 DEF Record
      <4> QED
        BY <3>2, <4>1 DEF NewsletterTypeOK
    <3> QED
      BY <3>1, <3>2
  <2> HIDE DEF e
  <2>5. NewsletterTypeOK'
    <3>1. posting' \in [Issues -> [on: BOOLEAN, text: 0..MaxText, todo: SUBSET Emails,
                                  to: Emails \cup {Nobody},
                                  result: {"none", "sent", "skipped", "failed"}]]
      BY <2>3 DEF NewsletterTypeOK
    <3> QED
      BY <2>1, <2>4, <3>1 DEF NewsletterTypeOK
  <2>6. ASSUME NEW j \in Issues, j # i
        PROVE  Addressed(j)' /\ \A f \in Emails : Awaiting(f, j)' /\ OnRecord(f, j)'
    <3>1. posting'[j] = posting[j] /\ \A f \in Emails : delivery'[j][f] = delivery[j][f]
      BY <2>3, <2>4, <2>6 DEF NewsletterTypeOK
    <3>2. Addressed(j)'
      BY <2>1, <3>1 DEF Addressed, Exists
    <3>3. ASSUME NEW f \in Emails PROVE Awaiting(f, j)'
      BY <2>1, <3>1 DEF Awaiting
    <3>4. ASSUME NEW f \in Emails PROVE OnRecord(f, j)'
      BY <2>1, <3>1 DEF OnRecord, Exists
    <3> QED
      BY <3>2, <3>3, <3>4
  <2>7. Addressed(i)'
    BY <1>1, <2>1, <2>3, <2>4 DEF Addressed, Exists
  <2>8. ASSUME NEW f \in Emails PROVE Awaiting(f, i)' /\ OnRecord(f, i)'
    <3>1. f # posting'[i].to
      BY <2>3
    <3>2. Awaiting(f, i)'
      BY <2>1, <2>3, <2>4, <3>1 DEF Awaiting, e
    <3>3. OnRecord(f, i)'
      <4>1. CASE f = e
        BY <2>1, <2>2, <2>4, <3>1, <4>1 DEF OnRecord, Exists
      <4>2. CASE f # e
        BY <2>1, <2>4, <3>1, <4>2 DEF OnRecord, Exists, e
      <4> QED
        BY <4>1, <4>2
    <3> QED
      BY <3>2, <3>3
  <2> QED
    BY <2>1, <2>5, <2>6, <2>7, <2>8 DEF ActiveWereAsked
<1>4. CASE Delivered(i)
  <2>1. /\ posting[i].todo = {} /\ posting[i].to = Nobody
        /\ posting' = [posting EXCEPT ![i] = NoPosting]
        /\ UNCHANGED <<subscriber, issue, block, delivery, configured, clock, inbox, asked,
                       approvedAt, stops>>
    BY <1>4 DEF Delivered
  <2>2. NewsletterTypeOK'
    BY <2>1 DEF NewsletterTypeOK, NoPosting
  <2>3. \A j \in Issues : Addressed(j)'
    BY <2>1 DEF NewsletterTypeOK, Addressed, Exists, NoPosting
  <2>4. \A e \in Emails, j \in Issues : Awaiting(e, j)'
    BY <2>1 DEF NewsletterTypeOK, Awaiting, NoPosting
  <2>5. \A e \in Emails, j \in Issues : OnRecord(e, j)'
    BY <2>1 DEF NewsletterTypeOK, OnRecord, Exists, NoPosting
  <2> QED
    BY <2>1, <2>2, <2>3, <2>4, <2>5 DEF ActiveWereAsked
<1> QED
  BY <1>2, <1>3, <1>4 DEF Post

\* When the API stops, requests that were mailing are gone.
LEMMA StopsKeep ==
  ASSUME NewsletterInv, Stop
  PROVE  NewsletterInv'
<1> USE NewsletterAssumption DEF NewsletterInv
<1>1. /\ posting' = [i \in Issues |-> NoPosting] /\ stops' \in 0..MaxStops /\ stops' # 0
      /\ UNCHANGED <<subscriber, issue, block, delivery, configured, clock, inbox, asked,
                     approvedAt>>
  BY DEF Stop, NewsletterTypeOK
<1>2. NewsletterTypeOK'
  BY <1>1 DEF NewsletterTypeOK, NoPosting
<1>3. \A i \in Issues : Addressed(i)'
  BY <1>1 DEF Addressed, NoPosting
<1>4. \A e \in Emails, i \in Issues : Awaiting(e, i)'
  BY <1>1 DEF Awaiting, NoPosting
<1>5. \A e \in Emails, i \in Issues : OnRecord(e, i)'
  BY <1>1 DEF OnRecord, Exists
<1> QED
  BY <1>1, <1>2, <1>3, <1>4, <1>5 DEF ActiveWereAsked

LEMMA NewsletterInvariant == NewsletterSpec => []NewsletterInv
<1>1. NewsletterInit => NewsletterInv
  BY NewsletterInitially
<1>2. NewsletterInv /\ [NewsletterNext]_newsletterVars => NewsletterInv'
  <2>1. ASSUME NewsletterInv, NewsletterNext PROVE NewsletterInv'
    BY <2>1, SubscribersKeep, BlocksKeep, IssuesKeep, PostsKeep, StopsKeep DEF NewsletterNext
  <2>2. ASSUME NewsletterInv, UNCHANGED newsletterVars PROVE NewsletterInv'
    <3>1. NewsletterTypeOK' /\ ActiveWereAsked'
      BY <2>2 DEF NewsletterInv, newsletterVars, NewsletterTypeOK, ActiveWereAsked
    <3>2. InTheMail'
      BY <2>2, ServedRests DEF NewsletterInv, InTheMail, newsletterVars, mailing
    <3> QED
      BY <3>1, <3>2 DEF NewsletterInv, InTheMail
  <2> QED
    BY <2>1, <2>2
<1> QED
  BY <1>1, <1>2, PTL DEF NewsletterSpec

\* An issue is mailed once, as it stands on record, and only to addresses that
\* had an approval after their last request and withdrawal when it was
\* published, whoever publishes, edits, withdraws or stops meanwhile.
THEOREM IssuesAreHonestCorrect == NewsletterSpec => []IssuesAreHonest
<1>1. NewsletterInv => IssuesAreHonest
  <2> SUFFICES ASSUME NewsletterInv PROVE IssuesAreHonest
    OBVIOUS
  <2>1. OneCopyEach
    BY DEF NewsletterInv, OneCopyEach, OnRecord
  <2>2. RecordIsWhatWasMailed
    BY DEF NewsletterInv, RecordIsWhatWasMailed, OnRecord
  <2>3. MailedAreApproved
    <3>1. ASSUME NEW e \in Emails, NEW i \in Issues, inbox[e][i] # <<>>
          PROVE  /\ e \in approvedAt[i]
                 /\ issue[i].status \in {"none", "draft", "published", "deleted"}
                 /\ issue[i].status \notin {"none", "draft"}
      BY <3>1 DEF NewsletterInv, NewsletterTypeOK, Awaiting, Addressed
    <3> QED
      BY <3>1 DEF MailedAreApproved
  <2> QED
    BY <2>1, <2>2, <2>3 DEF NewsletterInv, IssuesAreHonest
<1> QED
  BY <1>1, NewsletterInvariant, PTL

-----------------------------------------------------------------------------
(***************************************************************************)
(* The newsletter page drives the API of Newsletter: what it does, and     *)
(* what others do meanwhile, are steps of that specification.              *)
(***************************************************************************)
LEMMA PageIsNewsletter ==
  DeskTypeOK /\ [DeskNext]_allVars => [NewsletterNext]_newsletterVars
<1> SUFFICES ASSUME DeskTypeOK, [DeskNext]_allVars
             PROVE  NewsletterNext \/ UNCHANGED newsletterVars
  OBVIOUS
<1>1. CASE Serve
  <2>1. ASSUME NEW i \in Issues, action.kind = "save",
               CreateIssue(i, action.text) \/ EditIssue(i, action.text)
        PROVE  NewsletterNext
    <3>1. action.text \in 1..MaxText
      BY <1>1, <2>1 DEF DeskTypeOK, Serve
    <3> QED
      BY <2>1, <3>1 DEF NewsletterNext, IssueStep
  <2>2. ASSUME action.kind \in {"publish", "delete"}
        PROVE  action.on \in Issues
    BY <1>1, <2>2 DEF DeskTypeOK, Serve, OnEmails
  <2>3. ASSUME action.kind \in OnEmails
        PROVE  action.on \in Emails
    BY <1>1, <2>3 DEF DeskTypeOK, Serve, OnEmails, OnIssues
  <2>4. ASSUME \/ action.kind = "delete" /\ DeleteIssue(action.on)
               \/ action.kind = "publish" /\ Publish(action.on)
        PROVE  NewsletterNext
    BY <2>2, <2>4 DEF NewsletterNext, IssueStep
  <2>5. ASSUME \/ action.kind \in {"approved", "rejected"} /\ Review(action.on, action.kind)
               \/ action.kind = "remove" /\ Unsubscribe(action.on)
        PROVE  NewsletterNext
    <3>1. action.on \in Emails
      BY <2>3, <2>5 DEF OnEmails
    <3> QED
      BY <2>5, <3>1 DEF NewsletterNext, SubscriberStep
  <2> QED
    BY <1>1, <2>1, <2>4, <2>5 DEF Serve, Served
<1>2. CASE Elsewhere
  BY <1>2 DEF Elsewhere, NewsletterNext
<1>3. CASE UNCHANGED newsletterVars
  BY <1>3
<1>4. CASE Stopped \/ \E i \in Issues : Mailing(i)
  BY <1>4 DEF Stopped, Mailing, NewsletterNext, Post
<1>5. \/ Serve \/ Elsewhere \/ UNCHANGED newsletterVars
      \/ Stopped \/ \E i \in Issues : Mailing(i)
  BY DEF DeskNext, allVars, LoadRead, LoadShown, LoadFailed, RenewToken, LoadStale, NewDraft,
         CloseEditor, Select, PressSave, PressPublish, PressDelete, Refresh, PressReview,
         Press, Refused, AnswerLost, Settle
<1> QED
  BY <1>1, <1>2, <1>3, <1>4, <1>5

LEMMA NewsletterInvKept ==
  NewsletterInv /\ [NewsletterNext]_newsletterVars => NewsletterInv'
<1>1. ASSUME NewsletterInv, NewsletterNext PROVE NewsletterInv'
  BY <1>1, SubscribersKeep, BlocksKeep, IssuesKeep, PostsKeep, StopsKeep DEF NewsletterNext
<1>2. ASSUME NewsletterInv, UNCHANGED newsletterVars PROVE NewsletterInv'
  <2>1. NewsletterTypeOK' /\ ActiveWereAsked'
    BY <1>2 DEF NewsletterInv, newsletterVars, NewsletterTypeOK, ActiveWereAsked
  <2>2. InTheMail'
    BY <1>2, ServedRests DEF NewsletterInv, InTheMail, newsletterVars, mailing
  <2> QED
    BY <2>1, <2>2 DEF NewsletterInv, InTheMail
<1> QED
  BY <1>1, <1>2

-----------------------------------------------------------------------------
(***************************************************************************)
(* What the page was the last to change is shown, will be shown by the     *)
(* load under way, or is in the answer to the action under way.            *)
(***************************************************************************)
EmailShown(e) ==
  e \in own /\ ~(action.at = "answered" /\ action.on = e) =>
    /\ shown.subscribers[e] = subscriber[e]
    /\ load.at = "read" => load.subscribers[e] = subscriber[e]
InAction(i) == action.at \in {"posting", "answered", "failed"} /\ action.on = i
IssueShown(i) ==
  i \in own /\ issue[i].status # "draft" /\ ~InAction(i) =>
    /\ shown.issues[i].status = issue[i].status
    /\ load.at = "read" => load.issues[i].status = issue[i].status

\* A saved issue causes no load; but it is a draft, or somebody else's work.
SavedIsDraft ==
  action.at = "answered" /\ action.kind = "save" /\ action.on \in own =>
    issue[action.on].status = "draft"

PageInv ==
  /\ DeskTypeOK /\ SavedIsDraft
  /\ \A e \in Emails : EmailShown(e)
  /\ \A i \in Issues : IssueShown(i)

USE DEF Pages, Loads, Editors, Actions

LEMMA ListsAreTyped ==
  NewsletterTypeOK => issue \in IssueLists /\ subscriber \in SubscriberLists
<1> SUFFICES ASSUME NewsletterTypeOK PROVE issue \in IssueLists /\ subscriber \in SubscriberLists
  OBVIOUS
<1>1. clock <= MaxClock /\ clock \in Nat /\ MaxClock \in Nat
  BY NewsletterAssumption DEF NewsletterTypeOK
<1>2. \A n \in 0..clock : n \in 0..MaxClock
  BY <1>1
<1> QED
  BY <1>2 DEF NewsletterTypeOK, IssueLists, SubscriberLists

LEMMA PageInitially == DeskInit => PageInv
<1> SUFFICES ASSUME DeskInit PROVE PageInv
  OBVIOUS
<1> USE NewsletterAssumption, DeskAssumption
<1>1. NewsletterTypeOK
  BY NewsletterInitially DEF DeskInit, NewsletterInv
<1>2. issue \in IssueLists /\ subscriber \in SubscriberLists
  BY <1>1, ListsAreTyped
<1>3. NoLoad \in Loads
  BY DEF NoLoad, NoIssue, IssueLists, SubscriberLists
<1>4. DeskTypeOK
  BY <1>1, <1>2, <1>3 DEF DeskInit, DeskTypeOK, ClosedEditor, NoAction
<1>5. SavedIsDraft /\ (\A e \in Emails : EmailShown(e)) /\ \A i \in Issues : IssueShown(i)
  BY DEF DeskInit, SavedIsDraft, EmailShown, IssueShown
<1> QED
  BY <1>4, <1>5 DEF PageInv
\* Loading: what is read is the present state, and what is shown was read.
LEMMA LoadsKeepThePage ==
  ASSUME PageInv, NewsletterTypeOK',
         LoadRead \/ LoadShown \/ LoadFailed \/ RenewToken \/ LoadStale
  PROVE  PageInv'
<1> USE NewsletterAssumption, DeskAssumption
<1>1. UNCHANGED newsletterVars /\ UNCHANGED <<editor, own, failures>>
  BY DEF LoadRead, LoadShown, LoadFailed, RenewToken, LoadStale
<1>2. UNCHANGED <<subscriber, issue>>
  BY <1>1 DEF newsletterVars
<1>3. \/ action' = action
      \/ action.at \in {"reload", "stale"} /\ action' = NoAction
      \/ action.at = "reload" /\ action' = [action EXCEPT !.at = "stale"] /\ load'.at # "none"
  BY DEF LoadRead, LoadShown, LoadFailed, RenewToken, LoadStale, Finished, NewLoad, NoLoad
<1>4. action.at = "reload" /\ action' = action => load'.at # "none"
  BY DEF LoadRead, LoadShown, LoadFailed, RenewToken, LoadStale, Finished, NewLoad, NoLoad,
         NoAction, PageInv, DeskTypeOK
<1>5. /\ (action'.at = "answered") <=> (action.at = "answered")
      /\ (action'.at = "posting") <=> (action.at = "posting")
      /\ (action'.at = "failed") <=> (action.at = "failed")
      /\ action'.at \in {"answered", "posting", "failed"} => action' = action
  BY <1>3 DEF NoAction, PageInv, DeskTypeOK
<1>6. NoLoad \in Loads
  BY DEF NoLoad, NoIssue, IssueLists, SubscriberLists
<1>7. DeskTypeOK'
  <2>1. load' \in Loads
    <3>1. issue \in IssueLists /\ subscriber \in SubscriberLists
      BY ListsAreTyped DEF PageInv, DeskTypeOK
    <3>2. load' \in {load, NoLoad, NewLoad,
                     [at |-> "read", issues |-> issue, subscribers |-> subscriber]}
      BY DEF LoadRead, LoadShown, LoadFailed, RenewToken, LoadStale
    <3> QED
      BY <1>6, <3>1, <3>2 DEF NewLoad, PageInv, DeskTypeOK
  <2>2. shown' \in Pages
    <3>1. shown' \in {shown, [ready |-> TRUE, issues |-> load.issues,
                              subscribers |-> load.subscribers]}
      BY DEF LoadRead, LoadShown, LoadFailed, RenewToken, LoadStale
    <3>2. /\ shown \in Pages
          /\ load.issues \in IssueLists /\ load.subscribers \in SubscriberLists
      BY DEF PageInv, DeskTypeOK
    <3>3. [ready |-> TRUE, issues |-> load.issues, subscribers |-> load.subscribers] \in Pages
      BY <3>2
    <3> HIDE DEF Pages
    <3> QED
      BY <3>1, <3>2, <3>3
  <2>3. action' \in Actions
    BY <1>3 DEF NoAction, PageInv, DeskTypeOK
  <2>4. /\ action'.at = "sent" => action' = action
        /\ action'.at = "reload" => load'.at # "none"
    BY <1>3, <1>4 DEF NoAction, PageInv, DeskTypeOK
  <2>5. renewals' \in 0..MaxLoads
    BY DEF LoadRead, LoadShown, LoadFailed, RenewToken, LoadStale, PageInv, DeskTypeOK
  <2> QED
    BY <1>1, <1>5, <2>1, <2>2, <2>3, <2>4, <2>5 DEF PageInv, DeskTypeOK
<1>8. SavedIsDraft'
  BY <1>1, <1>2, <1>5 DEF PageInv, SavedIsDraft
<1>9. \/ load'.at # "read" /\ shown' = shown
      \/ load' = [at |-> "read", issues |-> issue, subscribers |-> subscriber] /\ shown' = shown
      \/ UNCHANGED <<load, shown>>
      \/ /\ load.at = "read" /\ load'.at # "read"
         /\ shown'.issues = load.issues /\ shown'.subscribers = load.subscribers
  BY DEF LoadRead, LoadShown, LoadFailed, RenewToken, LoadStale, NewLoad, NoLoad
<1>10. ASSUME NEW e \in Emails PROVE EmailShown(e)'
  <2>1. EmailShown(e)
    BY DEF PageInv
  <2> QED
    BY <1>1, <1>2, <1>5, <1>9, <2>1 DEF EmailShown
<1>11. ASSUME NEW i \in Issues PROVE IssueShown(i)'
  <2>1. IssueShown(i)
    BY DEF PageInv
  <2> QED
    BY <1>1, <1>2, <1>5, <1>9, <2>1 DEF IssueShown, InAction
<1> QED
  BY <1>7, <1>8, <1>10, <1>11 DEF PageInv

\* Pressing a button sends the request; the lists stay.
LEMMA PressesKeepThePage ==
  ASSUME PageInv, NewsletterTypeOK',
         \/ NewDraft \/ CloseEditor \/ \E i \in Issues : Select(i)
         \/ \E text \in 1..MaxText : PressSave(text)
         \/ PressPublish \/ PressDelete \/ Refresh
         \/ \E e \in Emails, kind \in {"approved", "rejected", "remove"} : PressReview(e, kind)
  PROVE  PageInv'
<1> USE NewsletterAssumption, DeskAssumption
<1> USE DEF NewDraft, CloseEditor, Select, PressSave, PressPublish, PressDelete, Refresh,
            PressReview, Press
<1>1. UNCHANGED newsletterVars /\ UNCHANGED <<shown, own, renewals, failures>>
  OBVIOUS
<1>2. UNCHANGED <<subscriber, issue>>
  BY <1>1 DEF newsletterVars
<1>3. Pressable
  OBVIOUS
<1>4. load' = load \/ load' = NewLoad
  OBVIOUS
<1>5. load'.at = "read" => load' = load
  BY <1>4 DEF NewLoad, NoLoad
<1>6. \/ action' = action
      \/ /\ action' = [kind |-> "refresh", on |-> Nobody, at |-> "reload", text |-> 0]
         /\ load' = NewLoad
      \/ \E text \in 1..MaxText :
           action' = [kind |-> "save", on |-> editor.on, at |-> "sent", text |-> text]
      \/ \E kind \in {"publish", "delete"} :
           /\ editor.on # Nobody
           /\ action' = [kind |-> kind, on |-> editor.on, at |-> "sent", text |-> 0]
      \/ \E e \in Emails, kind \in {"approved", "rejected", "remove"} :
           action' = [kind |-> kind, on |-> e, at |-> "sent", text |-> 0]
  OBVIOUS
<1>7. editor.on \in Issues \cup {Nobody}
  BY DEF PageInv, DeskTypeOK
<1>8. action'.at \in {"none", "reload", "sent"}
  BY <1>3, <1>6 DEF NoAction, Pressable
<1>9. DeskTypeOK'
  <2>1. load' \in Loads
    <3>1. NoLoad \in Loads
      BY DEF NoLoad, NoIssue, IssueLists, SubscriberLists
    <3> QED
      BY <1>4, <3>1 DEF NewLoad, PageInv, DeskTypeOK
  <2>2. editor' \in Editors
    <3>1. ASSUME NEW i \in Issues PROVE shown.issues[i].text \in 0..MaxText
      BY DEF PageInv, DeskTypeOK, IssueLists
    <3>2. ClosedEditor \in Editors
      BY DEF ClosedEditor
    <3>3. [open |-> TRUE, on |-> Nobody, text |-> 0] \in Editors
      OBVIOUS
    <3>4. \/ editor' \in {editor, ClosedEditor, [open |-> TRUE, on |-> Nobody, text |-> 0]}
          \/ \E i \in Issues :
               editor' = [open |-> TRUE, on |-> i, text |-> shown.issues[i].text]
      OBVIOUS
    <3>5. editor \in Editors
      BY DEF PageInv, DeskTypeOK
    <3> HIDE DEF NewDraft, CloseEditor, Select, PressSave, PressPublish, PressDelete, Refresh,
                 PressReview, Press
    <3>6. \A i \in Issues :
            [open |-> TRUE, on |-> i, text |-> shown.issues[i].text] \in Editors
      BY <3>1
    <3> HIDE DEF Editors
    <3> QED
      BY <3>2, <3>3, <3>4, <3>5, <3>6
  <2>3. action' \in Actions
    <3> HIDE DEF NewDraft, CloseEditor, Select, PressSave, PressPublish, PressDelete, Refresh,
                 PressReview, Press
    <3>1. action \in Actions
      BY DEF PageInv, DeskTypeOK
    <3> QED
      BY <1>6, <1>7, <3>1 DEF NoAction, OnIssues, OnEmails
  <2>4. action'.at = "sent" =>
          /\ \/ action'.kind \in OnIssues /\ action'.on \in Issues
             \/ action'.kind \in OnEmails /\ action'.on \in Emails
             \/ action'.kind = "save" /\ action'.on = Nobody
          /\ action'.kind = "save" => action'.text \in 1..MaxText
    <3> HIDE DEF NewDraft, CloseEditor, Select, PressSave, PressPublish, PressDelete, Refresh,
                 PressReview, Press
    <3> QED
      BY <1>3, <1>6, <1>7 DEF Pressable, NoAction, OnIssues, OnEmails
  <2>5. action'.at = "reload" => load'.at # "none"
    BY <1>3, <1>6 DEF Pressable, NewLoad, NoLoad
  <2> HIDE DEF NewDraft, CloseEditor, Select, PressSave, PressPublish, PressDelete, Refresh,
               PressReview, Press
  <2> QED
    BY <1>1, <1>8, <2>1, <2>2, <2>3, <2>4, <2>5 DEF PageInv, DeskTypeOK
<1> HIDE DEF NewDraft, CloseEditor, Select, PressSave, PressPublish, PressDelete, Refresh,
             PressReview, Press
<1>10. SavedIsDraft'
  BY <1>8 DEF SavedIsDraft
<1>11. ASSUME NEW e \in Emails PROVE EmailShown(e)'
  <2>1. EmailShown(e)
    BY DEF PageInv
  <2> QED
    BY <1>1, <1>2, <1>3, <1>5, <1>8, <2>1 DEF EmailShown, Pressable
<1>12. ASSUME NEW i \in Issues PROVE IssueShown(i)'
  <2>1. IssueShown(i)
    BY DEF PageInv
  <2> QED
    BY <1>1, <1>2, <1>3, <1>5, <1>8, <2>1 DEF IssueShown, InAction, Pressable
<1> QED
  BY <1>9, <1>10, <1>11, <1>12 DEF PageInv
\* The API answers: what it changed counts as the page's own from here on.
LEMMA ServesKeepThePage ==
  ASSUME PageInv, NewsletterTypeOK', Serve PROVE PageInv'
<1> USE NewsletterAssumption, DeskAssumption
<1>1. UNCHANGED <<shown, editor, load, renewals, failures>> /\ action.at = "sent"
  BY DEF Serve
<1>2. /\ \/ action.kind \in OnIssues /\ action.on \in Issues
         \/ action.kind \in OnEmails /\ action.on \in Emails
         \/ action.kind = "save" /\ action.on = Nobody
      /\ action \in Actions
      /\ own \subseteq Issues \cup Emails
  BY <1>1 DEF PageInv, DeskTypeOK
\* What a request does: to one issue or one subscriber.
<1> DEFINE OnIssue(i) ==
      /\ action' \in Actions
      /\ action'.kind = action.kind /\ action'.text = action.text /\ action'.on = i
      /\ action.kind \in OnIssues /\ own' \in {own, own \cup {i}}
      /\ action'.at \in {"posting", "answered"}
      /\ action'.at = "posting" => action.kind = "publish"
      /\ subscriber' = subscriber /\ \A j \in Issues \ {i} : issue'[j] = issue[j]
      /\ action.kind = "save" => issue'[i].status = "draft"
    OnEmail(e) ==
      /\ action' \in Actions
      /\ action'.kind = action.kind /\ action'.text = action.text /\ action'.on = e
      /\ action.kind \in OnEmails /\ own' = own \cup {e} /\ action'.at = "answered"
      /\ issue' = issue /\ \A d \in Emails \ {e} : subscriber'[d] = subscriber[d]
<1>3. (\E i \in Issues : OnIssue(i)) \/ (\E e \in Emails : OnEmail(e))
  <2>1. issue \in [Issues -> [status: {"none", "draft", "published", "deleted"},
                              text: 0..MaxText, at: 0..clock]]
        /\ subscriber \in SubscriberLists
    BY ListsAreTyped DEF PageInv, DeskTypeOK, NewsletterTypeOK
  <2>2. ASSUME NEW i \in Issues, action.kind = "save",
               CreateIssue(i, action.text) \/ EditIssue(i, action.text),
               own' = own \cup {i}, action' = [action EXCEPT !.at = "answered", !.on = i]
        PROVE  OnIssue(i)
    <3>1. subscriber' = subscriber /\ \A j \in Issues \ {i} : issue'[j] = issue[j]
      BY <2>1, <2>2 DEF CreateIssue, EditIssue
    <3>2. issue'[i].status = "draft"
      BY <2>1, <2>2 DEF CreateIssue, EditIssue, Editable
    <3>3. /\ action' \in Actions
          /\ action'.kind = action.kind /\ action'.text = action.text /\ action'.on = i
          /\ action'.at = "answered"
      BY <1>2, <2>2
    <3> QED
      BY <2>2, <3>1, <3>2, <3>3 DEF OnIssues
  <2>3. ASSUME action.kind = "delete", DeleteIssue(action.on), own' = own \cup {action.on},
               action' = [action EXCEPT !.at = "answered"]
        PROVE  \E i \in Issues : OnIssue(i)
    <3>1. action.on \in Issues
      BY <1>2, <2>3 DEF OnEmails
    <3>2. subscriber' = subscriber /\ \A j \in Issues \ {action.on} : issue'[j] = issue[j]
      BY <2>1, <2>3 DEF DeleteIssue
    <3>3. /\ action' \in Actions
          /\ action'.kind = action.kind /\ action'.text = action.text
          /\ action'.on = action.on /\ action'.at = "answered"
      BY <1>2, <2>3
    <3>4. OnIssue(action.on)
      BY <2>3, <3>2, <3>3 DEF OnIssues
    <3> QED
      BY <3>1, <3>4
  <2>4. ASSUME action.kind = "publish",
               \/ /\ Publish(action.on) /\ own' = own \cup {action.on}
                  /\ action' = [action EXCEPT !.at = "posting"]
               \/ /\ action' = [action EXCEPT !.at = "answered"]
                  /\ UNCHANGED <<newsletterVars, own>>
        PROVE  \E i \in Issues : OnIssue(i)
    <3>1. action.on \in Issues
      BY <1>2, <2>4 DEF OnEmails
    <3>2. subscriber' = subscriber /\ \A j \in Issues \ {action.on} : issue'[j] = issue[j]
      BY <2>1, <2>4 DEF Publish, newsletterVars
    <3>3. /\ action' \in Actions
          /\ action'.kind = action.kind /\ action'.text = action.text
          /\ action'.on = action.on /\ action'.at \in {"posting", "answered"}
          /\ own' \in {own, own \cup {action.on}}
      BY <1>2, <2>4
    <3>4. OnIssue(action.on)
      BY <2>4, <3>2, <3>3 DEF OnIssues
    <3> QED
      BY <3>1, <3>4
  <2>5. ASSUME \/ action.kind \in {"approved", "rejected"} /\ Review(action.on, action.kind)
               \/ action.kind = "remove" /\ Unsubscribe(action.on),
               own' = own \cup {action.on}, action' = [action EXCEPT !.at = "answered"]
        PROVE  \E e \in Emails : OnEmail(e)
    <3>1. action.on \in Emails /\ action.kind \in OnEmails
      BY <1>2, <2>5 DEF OnIssues, OnEmails
    <3>2. issue' = issue /\ \A d \in Emails \ {action.on} : subscriber'[d] = subscriber[d]
      BY <2>1, <2>5 DEF Review, Unsubscribe, SubscriberLists
    <3>3. /\ action' \in Actions
          /\ action'.kind = action.kind /\ action'.text = action.text
          /\ action'.on = action.on /\ action'.at = "answered"
      BY <1>2, <2>5
    <3>4. OnEmail(action.on)
      BY <2>5, <3>1, <3>2, <3>3
    <3> QED
      BY <3>1, <3>4
  <2> HIDE DEF OnIssue, OnEmail
  <2> QED
    BY <2>2, <2>3, <2>4, <2>5 DEF Serve, Served
<1>4. DeskTypeOK'
  <2>1. action' \in Actions
    BY <1>3
  <2>2. /\ action'.at \in {"posting", "answered"}
        /\ \/ action'.kind \in OnIssues /\ action'.on \in Issues
           \/ action'.kind \in OnEmails /\ action'.on \in Emails
        /\ action'.at = "posting" => action'.kind = "publish"
        /\ own' \subseteq Issues \cup Emails
    BY <1>2, <1>3
  <2> QED
    BY <1>1, <2>1, <2>2 DEF PageInv, DeskTypeOK
<1>5. SavedIsDraft'
  BY <1>3 DEF SavedIsDraft, OnEmails
<1>6. ASSUME NEW e \in Emails PROVE EmailShown(e)'
  <2>1. EmailShown(e)
    BY DEF PageInv
  <2>2. e \in own' /\ ~(action'.at = "answered" /\ action'.on = e)
          => e \in own /\ subscriber'[e] = subscriber[e]
    BY <1>3
  <2> QED
    BY <1>1, <2>1, <2>2 DEF EmailShown
<1>7. ASSUME NEW i \in Issues PROVE IssueShown(i)'
  <2>1. IssueShown(i)
    BY DEF PageInv
  <2>2. i \in own' /\ ~(action'.at \in {"posting", "answered", "failed"} /\ action'.on = i)
          => i \in own /\ issue'[i] = issue[i]
    BY <1>3
  <2> QED
    BY <1>1, <2>1, <2>2 DEF IssueShown, InAction
<1> QED
  BY <1>4, <1>5, <1>6, <1>7 DEF PageInv

\* The page gives the request up: it is refused, or its answer is lost.  What
\* it was about is the page's own no more, if it may have taken effect.
LEMMA RepliesKeepThePage ==
  ASSUME PageInv, NewsletterTypeOK', Refused \/ AnswerLost PROVE PageInv'
<1> USE NewsletterAssumption, DeskAssumption
<1>1. /\ UNCHANGED newsletterVars /\ UNCHANGED <<shown, editor, load, renewals>>
      /\ action' = NoAction /\ own' = Told
      /\ action.at \in {"sent", "posting", "answered", "failed"}
  BY DEF Refused, AnswerLost
<1>2. UNCHANGED <<subscriber, issue>>
  BY <1>1 DEF newsletterVars
<1>3. failures' \in 0..MaxFailures
  <2>1. CASE Refused
    BY <2>1 DEF Refused, PageInv, DeskTypeOK
  <2>2. CASE AnswerLost
    BY <2>2 DEF AnswerLost, PageInv, DeskTypeOK, NewsletterTypeOK
  <2> QED
    BY <2>1, <2>2
<1>4. own' \subseteq own /\ (action.at # "sent" => action.on \notin own')
  BY <1>1 DEF Told
<1>5. DeskTypeOK'
  BY <1>1, <1>3, <1>4 DEF PageInv, DeskTypeOK, NoAction
<1>6. SavedIsDraft'
  BY <1>1 DEF SavedIsDraft, NoAction
<1>7. ASSUME NEW e \in Emails PROVE EmailShown(e)'
  <2>1. EmailShown(e)
    BY DEF PageInv
  <2> QED
    BY <1>1, <1>2, <1>4, <2>1 DEF EmailShown, NoAction
<1>8. ASSUME NEW i \in Issues PROVE IssueShown(i)'
  <2>1. IssueShown(i)
    BY DEF PageInv
  <2> QED
    BY <1>1, <1>2, <1>4, <2>1 DEF IssueShown, InAction, NoAction
<1> QED
  BY <1>5, <1>6, <1>7, <1>8 DEF PageInv

\* Mailing goes on, or is cut off: the request that publishes may end with it.
LEMMA MailsKeepThePage ==
  ASSUME PageInv, NewsletterTypeOK', Stopped \/ \E i \in Issues : Mailing(i) PROVE PageInv'
<1> USE NewsletterAssumption, DeskAssumption
<1>1. UNCHANGED <<issue, subscriber, shown, editor, load, own, renewals, failures>>
  BY DEF Stopped, Mailing, Mail, Record, Delivered, Stop
<1>2. action \in Actions
  BY DEF PageInv, DeskTypeOK
<1>3. ASSUME NEW i, NEW how \in {"answered", "failed"}, Ends(i, how)
      PROVE  \/ action' = action
             \/ /\ action.at = "posting" /\ action'.at = how
                /\ action'.kind = action.kind /\ action'.on = action.on
                /\ action' \in Actions
  BY <1>2, <1>3 DEF Ends
<1>4. \/ action' = action
      \/ /\ action.at = "posting" /\ action'.at \in {"answered", "failed"}
         /\ action'.kind = action.kind /\ action'.on = action.on
         /\ action' \in Actions
  <2>1. CASE Stopped
    BY <1>3, <2>1 DEF Stopped
  <2>2. ASSUME NEW i \in Issues, Mailing(i)
        PROVE  \/ action' = action \/ Ends(i, "answered") \/ Ends(i, "failed")
    BY <2>2 DEF Mailing
  <2> QED
    BY <1>3, <2>1, <2>2
<1>5. action.at = "posting" => action.kind = "publish" /\ action.on \in Issues
  BY DEF PageInv, DeskTypeOK, OnEmails
<1>6. DeskTypeOK'
  <2>1. CASE action' = action
    BY <1>1, <2>1 DEF PageInv, DeskTypeOK
  <2>2. CASE /\ action.at = "posting" /\ action'.at \in {"answered", "failed"}
             /\ action'.kind = action.kind /\ action'.on = action.on
             /\ action' \in Actions
    BY <1>1, <1>5, <2>2 DEF PageInv, DeskTypeOK, OnIssues
  <2> QED
    BY <1>4, <2>1, <2>2
<1>7. SavedIsDraft'
  BY <1>1, <1>4, <1>5 DEF PageInv, SavedIsDraft
<1>8. ASSUME NEW e \in Emails PROVE EmailShown(e)'
  <2>1. EmailShown(e)
    BY DEF PageInv
  <2> QED
    BY <1>1, <1>4, <1>5, <2>1 DEF EmailShown
<1>9. ASSUME NEW i \in Issues PROVE IssueShown(i)'
  <2>1. IssueShown(i)
    BY DEF PageInv
  <2> QED
    BY <1>1, <1>4, <2>1 DEF IssueShown, InAction
<1> QED
  BY <1>6, <1>7, <1>8, <1>9 DEF PageInv

\* The answer goes into the lists, and the load that was under way counts no
\* more: it may have been read before.
LEMMA SettlesKeepThePage ==
  ASSUME PageInv, NewsletterTypeOK', Settle PROVE PageInv'
<1> USE NewsletterAssumption, DeskAssumption
<1>1. /\ UNCHANGED newsletterVars /\ UNCHANGED <<own, renewals, failures>>
      /\ action.at = "answered" /\ shown' = Answer
  BY DEF Settle
<1>2. UNCHANGED <<subscriber, issue>>
  BY <1>1 DEF newsletterVars
<1>3. /\ \/ action.kind \in OnIssues /\ action.on \in Issues
         \/ action.kind \in OnEmails /\ action.on \in Emails
      /\ action \in Actions /\ shown \in Pages
      /\ issue \in IssueLists /\ subscriber \in SubscriberLists
  BY <1>1, ListsAreTyped DEF PageInv, DeskTypeOK
<1>4. \/ action.kind = "save" /\ action' = NoAction /\ load' = load
      \/ /\ action.kind # "save" /\ load' = NewLoad
         /\ action' = [action EXCEPT !.at = "reload"]
  BY DEF Settle, Superseding
<1>5. action'.at \in {"none", "reload"} /\ action' \in Actions
  BY <1>3, <1>4 DEF NoAction
<1>6. /\ shown' \in Pages
      /\ \A e \in Emails : shown'.subscribers[e] =
           IF action.on = e THEN subscriber[e] ELSE shown.subscribers[e]
      /\ \A i \in Issues : shown'.issues[i] =
           IF action.on = i THEN issue[i] ELSE shown.issues[i]
  <2>1. CASE action.on \in Issues
    <3>1. shown' = [shown EXCEPT !.issues[action.on] = issue[action.on]]
      BY <1>1, <2>1 DEF Answer
    <3>2. shown' = [ready |-> shown.ready, subscribers |-> shown.subscribers,
                    issues |-> [shown.issues EXCEPT ![action.on] = issue[action.on]]]
      BY <1>3, <3>1
    <3>3. [shown.issues EXCEPT ![action.on] = issue[action.on]] \in IssueLists
      BY <1>3, <2>1 DEF IssueLists
    <3>4. action.on \notin Emails
      BY <2>1
    <3>5. \A i \in Issues : shown'.issues[i] =
            IF action.on = i THEN issue[i] ELSE shown.issues[i]
      BY <1>3, <2>1, <3>2 DEF IssueLists
    <3> QED
      BY <1>3, <3>2, <3>3, <3>4, <3>5
  <2>2. CASE action.on \in Emails
    <3>1. shown' = [shown EXCEPT !.subscribers[action.on] = subscriber[action.on]]
      BY <1>1, <2>2 DEF Answer
    <3>2. shown' = [ready |-> shown.ready, issues |-> shown.issues,
                    subscribers |->
                      [shown.subscribers EXCEPT ![action.on] = subscriber[action.on]]]
      BY <1>3, <3>1
    <3>3. [shown.subscribers EXCEPT ![action.on] = subscriber[action.on]] \in SubscriberLists
      BY <1>3, <2>2 DEF SubscriberLists
    <3>4. action.on \notin Issues
      BY <2>2
    <3>5. \A e \in Emails : shown'.subscribers[e] =
            IF action.on = e THEN subscriber[e] ELSE shown.subscribers[e]
      BY <1>3, <2>2, <3>2 DEF SubscriberLists
    <3> QED
      BY <1>3, <3>2, <3>3, <3>4, <3>5
  <2> QED
    BY <1>3, <2>1, <2>2
<1>7. DeskTypeOK'
  <2>1. load' \in Loads
    <3>1. NoLoad \in Loads
      BY DEF NoLoad, NoIssue, IssueLists, SubscriberLists
    <3>2. load' \in {load, NewLoad}
      BY <1>4
    <3> QED
      BY <3>1, <3>2 DEF NewLoad, PageInv, DeskTypeOK
  <2>2. editor' \in Editors
    <3>1. ASSUME action.on \in Issues
          PROVE  [open |-> TRUE, on |-> action.on, text |-> issue[action.on].text] \in Editors
      BY <1>3, <3>1 DEF IssueLists
    <3>2. action.kind \in {"save", "publish"} => action.on \in Issues
      BY <1>3 DEF OnEmails
    <3>3. ClosedEditor \in Editors
      BY DEF ClosedEditor
    <3>4. \/ editor' \in {editor, ClosedEditor}
          \/ /\ action.kind \in {"save", "publish"}
             /\ editor' = [open |-> TRUE, on |-> action.on, text |-> issue[action.on].text]
      BY DEF Settle
    <3>5. editor \in Editors
      BY DEF PageInv, DeskTypeOK
    <3> HIDE DEF Editors
    <3> QED
      BY <3>1, <3>2, <3>3, <3>4, <3>5
  <2>3. action'.at = "reload" => load'.at # "none"
    BY <1>4 DEF NewLoad, NoLoad, NoAction
  <2> QED
    BY <1>1, <1>5, <1>6, <2>1, <2>2, <2>3 DEF PageInv, DeskTypeOK
<1>8. SavedIsDraft'
  BY <1>5 DEF SavedIsDraft
<1>9. ASSUME NEW e \in Emails PROVE EmailShown(e)'
  <2>1. EmailShown(e)
    BY DEF PageInv
  <2>2. load'.at = "read" => load' = load /\ action.on # e
    BY <1>3, <1>4 DEF NewLoad, NoLoad, OnEmails
  <2> QED
    BY <1>1, <1>2, <1>5, <1>6, <2>1, <2>2 DEF EmailShown
<1>10. ASSUME NEW i \in Issues PROVE IssueShown(i)'
  <2>1. IssueShown(i)
    BY DEF PageInv
  <2>2. load'.at = "read" => load' = load /\ action.kind = "save"
    BY <1>4 DEF NewLoad, NoLoad
  <2>3. action.kind = "save" /\ action.on = i /\ i \in own => issue[i].status = "draft"
    BY <1>1 DEF PageInv, SavedIsDraft
  <2> QED
    BY <1>1, <1>2, <1>5, <1>6, <2>1, <2>2, <2>3 DEF IssueShown, InAction
<1> QED
  BY <1>7, <1>8, <1>9, <1>10 DEF PageInv

\* What others change is the page's own work no more.
LEMMA OthersKeepThePage ==
  ASSUME PageInv, NewsletterTypeOK', Elsewhere PROVE PageInv'
<1>1. UNCHANGED <<shown, editor, action, load, renewals, failures>>
  BY DEF Elsewhere
<1>2. /\ own' \subseteq own
      /\ \A i \in own' \cap Issues : issue'[i] = issue[i]
      /\ \A e \in own' \cap Emails : subscriber'[e] = subscriber[e]
  <2>1. issue \in IssueLists /\ subscriber \in SubscriberLists
    BY ListsAreTyped DEF PageInv, DeskTypeOK
  <2>2. ASSUME NEW i \in Issues, IssueStep(i), own' = own \ {i}
        PROVE  subscriber' = subscriber /\ \A j \in Issues \ {i} : issue'[j] = issue[j]
    BY <2>1, <2>2 DEF IssueStep, CreateIssue, EditIssue, DeleteIssue, Publish, IssueLists
  <2>3. ASSUME NEW e \in Emails, SubscriberStep(e), own' = own \ {e}
        PROVE  issue' = issue /\ \A d \in Emails \ {e} : subscriber'[d] = subscriber[d]
    BY <2>1, <2>3 DEF SubscriberStep, Subscribe, Unsubscribe, Review, SubscriberLists
  <2>4. \/ \E i \in Issues : /\ own' = own \ {i} /\ subscriber' = subscriber
                             /\ \A j \in Issues \ {i} : issue'[j] = issue[j]
        \/ \E e \in Emails : /\ own' = own \ {e} /\ issue' = issue
                             /\ \A d \in Emails \ {e} : subscriber'[d] = subscriber[d]
    BY <2>2, <2>3 DEF Elsewhere
  <2> QED
    BY <2>4
<1>3. DeskTypeOK'
  BY <1>1, <1>2 DEF PageInv, DeskTypeOK
<1>4. SavedIsDraft'
  <2>1. own \subseteq Issues \cup Emails
    BY DEF PageInv, DeskTypeOK
  <2>2. action.at = "answered" /\ action.kind = "save" => action.on \in Issues
    BY DEF PageInv, DeskTypeOK, OnEmails
  <2> QED
    BY <1>1, <1>2, <2>2 DEF PageInv, SavedIsDraft
<1>5. ASSUME NEW e \in Emails PROVE EmailShown(e)'
  <2>1. EmailShown(e)
    BY DEF PageInv
  <2> QED
    BY <1>1, <1>2, <2>1 DEF EmailShown
<1>6. ASSUME NEW i \in Issues PROVE IssueShown(i)'
  <2>1. IssueShown(i)
    BY DEF PageInv
  <2> QED
    BY <1>1, <1>2, <2>1 DEF IssueShown, InAction
<1> QED
  BY <1>3, <1>4, <1>5, <1>6 DEF PageInv

LEMMA PageIsKept ==
  ASSUME PageInv, NewsletterTypeOK', [DeskNext]_allVars PROVE PageInv'
<1>1. CASE LoadRead \/ LoadShown \/ LoadFailed \/ RenewToken \/ LoadStale
  BY <1>1, LoadsKeepThePage
<1>2. CASE \/ NewDraft \/ CloseEditor \/ \E i \in Issues : Select(i)
           \/ \E text \in 1..MaxText : PressSave(text)
           \/ PressPublish \/ PressDelete \/ Refresh
           \/ \E e \in Emails, kind \in {"approved", "rejected", "remove"} : PressReview(e, kind)
  BY <1>2, PressesKeepThePage
<1>3. CASE Serve
  BY <1>3, ServesKeepThePage
<1>4. CASE Refused \/ AnswerLost
  BY <1>4, RepliesKeepThePage
<1>5. CASE Settle
  BY <1>5, SettlesKeepThePage
<1>6. CASE Elsewhere
  BY <1>6, OthersKeepThePage
<1>7. CASE Stopped \/ \E i \in Issues : Mailing(i)
  BY <1>7, MailsKeepThePage
<1>8. CASE UNCHANGED allVars
  <2>1. UNCHANGED <<issue, subscriber, shown, editor, action, load, own, renewals, failures>>
    BY <1>8 DEF allVars, deskVars, newsletterVars
  <2>2. DeskTypeOK' /\ SavedIsDraft'
    BY <2>1 DEF PageInv, DeskTypeOK, SavedIsDraft
  <2>3. (\A e \in Emails : EmailShown(e)') /\ \A i \in Issues : IssueShown(i)'
    BY <2>1 DEF PageInv, EmailShown, IssueShown, InAction
  <2> QED
    BY <2>2, <2>3 DEF PageInv
<1> QED
  BY <1>1, <1>2, <1>3, <1>4, <1>5, <1>6, <1>7, <1>8 DEF DeskNext

\* At rest, the newsletter page shows what it was the last to publish, delete
\* or review, and was told of, as it is: useEffect on the token and the loads
\* after an action never bring back what an older load has read.  For any
\* issues, addresses, renewals, lost answers and stops of the API, and whatever
\* others do meanwhile.
THEOREM OwnWorkIsShownCorrect == DeskSpec => []OwnWorkIsShown
<1>1. DeskInit => NewsletterInv /\ PageInv
  BY NewsletterInitially, PageInitially DEF DeskInit
<1>2. NewsletterInv /\ PageInv /\ [DeskNext]_allVars => (NewsletterInv /\ PageInv)'
  <2> SUFFICES ASSUME NewsletterInv, PageInv, [DeskNext]_allVars
               PROVE  NewsletterInv' /\ PageInv'
    OBVIOUS
  <2>1. NewsletterInv'
    BY PageIsNewsletter, NewsletterInvKept DEF PageInv
  <2>2. PageInv'
    BY <2>1, PageIsKept DEF NewsletterInv
  <2> QED
    BY <2>1, <2>2
<1>3. PageInv => OwnWorkIsShown
  BY DEF PageInv, OwnWorkIsShown, EmailShown, IssueShown, InAction
<1> QED
  BY <1>1, <1>2, <1>3, PTL DEF DeskSpec
=============================================================================
