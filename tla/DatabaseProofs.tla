--------------------------- MODULE DatabaseProofs ---------------------------
(***************************************************************************)
(* Theorems about Database for any number of processes, versions, expiries *)
(* and kills, and about Loading for any archives.                          *)
(***************************************************************************)
EXTENDS Database, Loading, FiniteSetTheorems, TLAPS

\* The records the disk can hold are of their types.
LEMMA RecordsTyped ==
    /\ Gone \in Archive /\ NoMeta \in Meta
    /\ [ver |-> 1, ok |-> TRUE, stamp |-> 1] \in Archive
    /\ \A m \in Meta, b \in BOOLEAN : [m EXCEPT !.fresh = b] \in Meta
    /\ \A v \in Nat, b \in BOOLEAN : [etag |-> v, fresh |-> b] \in Meta
<1>1. Gone \in Archive /\ [ver |-> 1, ok |-> TRUE, stamp |-> 1] \in Archive
  BY DEF Gone, Archive
<1>2. NoMeta \in Meta
  BY DEF NoMeta, Meta
<1>3. ASSUME NEW m \in Meta, NEW b \in BOOLEAN PROVE [m EXCEPT !.fresh = b] \in Meta
  BY DEF Meta
<1>4. ASSUME NEW v \in Nat, NEW b \in BOOLEAN PROVE [etag |-> v, fresh |-> b] \in Meta
  BY DEF Meta
<1>5. QED
  BY <1>1, <1>2, <1>3, <1>4

\* A process moves only along its steps.
LEMMA GoesTyped ==
    ASSUME at \in [Processes -> Steps], NEW p \in Processes, NEW from, NEW to \in Steps,
           Goes(p, from, to)
    PROVE  at' \in [Processes -> Steps]
BY DEF Goes

\* A return is typed, and leaves every other process and its lock alone.
LEMMA ReturnsTyped ==
    ASSUME DbTypeOK, NEW p \in Processes, NEW from, NEW r \in {"ok", "failed"},
           Returns(p, from, r)
    PROVE  /\ at' \in [Processes -> Steps]
           /\ result' \in [Processes -> {"none", "ok", "failed"}]
           /\ lock' \in Processes \cup {Nobody}
BY DEF DbTypeOK, Returns, Goes, Steps

\* Every variable keeps its type.
THEOREM DbTypeCorrect == Spec => []DbTypeOK
<1>1. ASSUME Init PROVE DbTypeOK
  <2>1. archive \in Archive /\ meta \in Meta
    BY <1>1, RecordsTyped DEF Init
  <2>2. QED
    BY <1>1, <2>1 DEF Init, DbTypeOK, Steps
<1>2. ASSUME DbTypeOK, [Next]_vars PROVE DbTypeOK'
  <2>1. ASSUME NEW p \in Processes, Ensures(p) PROVE DbTypeOK'
    BY <1>2, <2>1 DEF DbTypeOK, Ensures, Goes, Steps, disk, locals, bounds
  <2>2. ASSUME NEW p \in Processes, HealStats(p) PROVE DbTypeOK'
    <3>1. at' \in [Processes -> Steps]
      BY <1>2, <2>2 DEF DbTypeOK, HealStats, Goes, Steps
    <3>2. modified' \in [Processes -> Nat]
      BY <1>2, <2>2 DEF DbTypeOK, HealStats, Archive
    <3>3. QED
      BY <1>2, <2>2, <3>1, <3>2 DEF DbTypeOK, HealStats, disk, bounds
  <2>3. ASSUME NEW p \in Processes, HealValidates(p) PROVE DbTypeOK'
    BY <1>2, <2>3 DEF DbTypeOK, HealValidates, Goes, Steps, disk, bounds
  <2>4. ASSUME NEW p \in Processes, HealRemoves(p) PROVE DbTypeOK'
    BY <1>2, <2>4, RecordsTyped DEF DbTypeOK, HealRemoves, Goes, Steps, locals, bounds
  <2>5. ASSUME NEW p \in Processes, HealForgets(p) PROVE DbTypeOK'
    BY <1>2, <2>5, RecordsTyped DEF DbTypeOK, HealForgets, Goes, Steps, locals, bounds
  <2>6. ASSUME NEW p \in Processes, NEW from, NEW r \in {"ok", "failed"},
               Returns(p, from, r), UNCHANGED <<disk, bucket, locals, bounds>>
        PROVE  DbTypeOK'
    BY <1>2, <2>6, ReturnsTyped DEF DbTypeOK, disk, locals, bounds
  <2>7. ASSUME NEW p \in Processes,
               ChecksStale(p) \/ ChecksAge(p) \/ Rechecks(p) \/ RechecksAge(p)
        PROVE  DbTypeOK'
    <3>1. ASSUME NEW from, NEW to \in Steps, Goes(p, from, to),
                 UNCHANGED <<disk, bucket, lock, locals, result, bounds>>
          PROVE  DbTypeOK'
      BY <1>2, <3>1, GoesTyped DEF DbTypeOK, disk, locals, bounds
    <3>2. CASE ChecksStale(p) \/ Rechecks(p)
      BY <3>1, <3>2 DEF ChecksStale, Rechecks, Steps
    <3>3. CASE ChecksAge(p) \/ RechecksAge(p)
      BY <2>6, <3>1, <3>3 DEF ChecksAge, RechecksAge, Steps
    <3>4. QED
      BY <2>7, <3>2, <3>3
  <2>8. ASSUME NEW p \in Processes, TriesLock(p) PROVE DbTypeOK'
    BY <1>2, <2>8, GoesTyped DEF DbTypeOK, TriesLock, Steps, disk, locals, bounds
  <2>9. ASSUME NEW p \in Processes,
               OpenFails(p) \/ SeesLockFree(p) \/ GivesUpWaiting(p) \/ FetchFails(p)
        PROVE  DbTypeOK'
    BY <2>6, <2>9 DEF OpenFails, SeesLockFree, GivesUpWaiting, FetchFails
  <2>10. ASSUME NEW p \in Processes, Requests(p) \/ Offers(p) PROVE DbTypeOK'
    <3>1. sent' \in [Processes -> Nat]
      BY <1>2, <2>10 DEF DbTypeOK, Requests, Offers, Meta
    <3>2. QED
      BY <1>2, <2>10, <3>1, GoesTyped DEF DbTypeOK, Requests, Offers, Steps, disk, bounds
  <2>11. ASSUME NEW p \in Processes, NotModified(p) \/ Receives(p) PROVE DbTypeOK'
    BY <1>2, <2>11, GoesTyped
       DEF DbTypeOK, NotModified, Receives, Steps, disk, locals, bounds
  <2>12. ASSUME NEW p \in Processes, Renames(p) PROVE DbTypeOK'
    <3>1. archive' \in Archive /\ stamp' \in Nat
      BY <1>2, <2>12 DEF DbTypeOK, Renames, Archive
    <3>2. QED
      BY <1>2, <2>12, <3>1, GoesTyped DEF DbTypeOK, Renames, Steps, locals
  <2>13. ASSUME NEW p \in Processes, StatsPublished(p) PROVE DbTypeOK'
    <3>1. validated' \in [Processes -> Nat]
      BY <1>2, <2>13 DEF DbTypeOK, StatsPublished, Archive
    <3>2. QED
      BY <1>2, <2>13, <3>1, GoesTyped DEF DbTypeOK, StatsPublished, Steps, disk, bounds
  <2>14. ASSUME NEW p \in Processes, WritesMeta(p) \/ RenewsMeta(p) PROVE DbTypeOK'
    <3>1. meta' \in Meta
      BY <1>2, <2>14, RecordsTyped DEF DbTypeOK, WritesMeta, RenewsMeta
    <3>2. QED
      BY <1>2, <2>14, <3>1, ReturnsTyped DEF DbTypeOK, WritesMeta, RenewsMeta, locals
  <2>15. ASSUME NEW p \in Processes, MetaWriteFails(p) PROVE DbTypeOK'
    BY <1>2, <2>15, ReturnsTyped DEF DbTypeOK, MetaWriteFails, disk, locals
  <2>16. ASSUME NEW p \in Processes, Killed(p) PROVE DbTypeOK'
    BY <1>2, <2>16 DEF DbTypeOK, Killed, Steps, disk
  <2>17. CASE BucketUpdates
    BY <1>2, <2>17 DEF DbTypeOK, BucketUpdates, disk, locals, bounds
  <2>18. CASE WindowEnds
    <3>1. meta' \in Meta
      BY <1>2, <2>18, RecordsTyped DEF DbTypeOK, WindowEnds
    <3>2. QED
      BY <1>2, <2>18, <3>1 DEF DbTypeOK, WindowEnds, locals
  <2>19. ASSUME NEW how, NEW new \in Archive, OutsideChange(how, new) PROVE DbTypeOK'
    BY <1>2, <2>19 DEF DbTypeOK, OutsideChange, locals
  <2>20. CASE Tears \/ Deletes \/ Replaces
    <3>1. [ver |-> archive.ver, ok |-> FALSE, stamp |-> stamp + 1] \in Archive
      BY <1>2 DEF DbTypeOK, Archive
    <3>2. \A v \in 1..bucket : [ver |-> v, ok |-> TRUE, stamp |-> stamp + 1] \in Archive
      BY <1>2 DEF DbTypeOK, Archive
    <3>3. QED
      BY <2>19, <2>20, <3>1, <3>2, RecordsTyped DEF Tears, Deletes, Replaces
  <2>21. CASE UNCHANGED vars
    BY <1>2, <2>21 DEF DbTypeOK, vars, disk, locals, bounds
  <2>22. QED
    BY <1>2, <2>1, <2>2, <2>3, <2>4, <2>5, <2>7, <2>8, <2>9, <2>10, <2>11, <2>12, <2>13,
       <2>14, <2>15, <2>16, <2>17, <2>18, <2>20, <2>21 DEF Next, EnsureStep
<1>3. QED
  BY <1>1, <1>2, PTL DEF Spec

-----------------------------------------------------------------------------
(* Who is past the lock.                                                   *)

Critical ==
    {"recheck", "reage", "request", "offer", "response", "rename", "stat", "write", "renew"}

\* The lock is held by the process between try_lock and its return, and by
\* nobody else.
LockInv == \A p \in Processes : at[p] \in Critical <=> lock = p

\* What a step of p leaves alone: every other process, and the sidecar and the
\* archive unless p removes them or is past the lock.
LEMMA LockStep == DbTypeOK /\ LockInv /\ [Next]_vars => LockInv'
<1> SUFFICES ASSUME DbTypeOK, LockInv, [Next]_vars PROVE LockInv'
  OBVIOUS
<1>1. ASSUME NEW p \in Processes, NEW from, NEW to, Goes(p, from, to),
             from \in Critical <=> to \in Critical, UNCHANGED lock
      PROVE  LockInv'
  BY <1>1 DEF DbTypeOK, LockInv, Goes
<1>2. ASSUME NEW p \in Processes, NEW from, NEW r, Returns(p, from, r) PROVE LockInv'
  BY <1>2, NobodyAssumption DEF DbTypeOK, LockInv, Returns, Goes, Critical
<1>3. ASSUME NEW p \in Processes,
             \/ Ensures(p) \/ HealStats(p) \/ HealValidates(p) \/ HealRemoves(p)
             \/ HealForgets(p)
      PROVE  LockInv'
  BY <1>1, <1>3 DEF Ensures, HealStats, HealValidates, HealRemoves, HealForgets, Critical
<1>4. ASSUME NEW p \in Processes,
             ChecksStale(p) \/ ChecksAge(p) \/ Rechecks(p) \/ RechecksAge(p)
      PROVE  LockInv'
  BY <1>1, <1>2, <1>4 DEF ChecksStale, ChecksAge, Rechecks, RechecksAge, Critical
<1>5. ASSUME NEW p \in Processes, TriesLock(p) PROVE LockInv'
  BY <1>5, NobodyAssumption DEF DbTypeOK, LockInv, TriesLock, Goes, Critical
<1>6. ASSUME NEW p \in Processes,
             \/ OpenFails(p) \/ SeesLockFree(p) \/ GivesUpWaiting(p) \/ FetchFails(p)
             \/ WritesMeta(p) \/ RenewsMeta(p) \/ MetaWriteFails(p)
      PROVE  LockInv'
  BY <1>2, <1>6 DEF OpenFails, SeesLockFree, GivesUpWaiting, FetchFails, WritesMeta, RenewsMeta,
                    MetaWriteFails
<1>7. ASSUME NEW p \in Processes,
             \/ Requests(p) \/ Offers(p) \/ NotModified(p) \/ Receives(p) \/ Renames(p)
             \/ StatsPublished(p)
      PROVE  LockInv'
  BY <1>1, <1>7 DEF Requests, Offers, NotModified, Receives, Renames, StatsPublished, Critical
<1>8. ASSUME NEW p \in Processes, Killed(p) PROVE LockInv'
  BY <1>8, NobodyAssumption DEF DbTypeOK, LockInv, Killed, Critical
<1>9. CASE BucketUpdates \/ WindowEnds \/ Tears \/ Deletes \/ Replaces \/ UNCHANGED vars
  BY <1>9 DEF LockInv, BucketUpdates, WindowEnds, Tears, Deletes, Replaces, OutsideChange,
              vars
<1>10. ASSUME NEW p \in Processes, EnsureStep(p) PROVE LockInv'
  BY <1>3, <1>4, <1>5, <1>6, <1>7, <1>10 DEF EnsureStep
<1>11. QED
  BY <1>3, <1>8, <1>9, <1>10 DEF Next

\* At most one process is past the lock.
LEMMA LockHolds == Spec => []LockInv
<1>1. ASSUME Init PROVE LockInv
  <2>1. \A p \in Processes : at[p] = "idle" /\ lock # p
    BY <1>1, NobodyAssumption DEF Init
  <2>2. QED
    BY <2>1 DEF LockInv, Critical
<1>2. QED
  BY <1>1, LockStep, DbTypeCorrect, PTL DEF Spec

-----------------------------------------------------------------------------
(* The sidecar and the archive it describes.                               *)

\* Nothing on disk is newer than what the bucket has served, and a download
\* that is past its request is at least as new as everything on disk: nobody
\* else can have got past the lock since.
DiskBehind ==
    /\ archive.ver <= bucket
    /\ meta.etag <= bucket
    /\ \A p \in Processes :
         /\ at[p] \in {"rename", "stat", "write"} =>
               archive.ver <= body[p] /\ meta.etag <= body[p] /\ body[p] <= bucket
         /\ (at[p] \in {"stat", "write"} /\ Present) => archive.ver = body[p]

AccountInv == DiskBehind /\ MetaNeverAhead

\* One step keeps the account, as long as nobody outside puts archives there.
LEMMA AccountStep ==
    ASSUME "replace" \notin Outside, DbTypeOK, LockInv, AccountInv, [Next]_vars
    PROVE  AccountInv'
<1>0. /\ archive.ver \in Nat /\ meta.etag \in Nat /\ bucket \in Nat
      /\ \A p \in Processes : body[p] \in Nat
      /\ at \in [Processes -> Steps] /\ body \in [Processes -> Nat]
      /\ Gone.ver = 0 /\ NoMeta.etag = 0
  BY DEF DbTypeOK, Archive, Meta, Gone, NoMeta
<1>1. ASSUME NEW p \in Processes, NEW from, NEW to, Goes(p, from, to),
             to \in {"stat", "write"} => from = "stat",
             to # "rename",
             UNCHANGED <<disk, bucket, body>>
      PROVE  AccountInv'
  BY <1>0, <1>1 DEF AccountInv, DiskBehind, MetaNeverAhead, Present, Goes, disk
<1>2. ASSUME NEW p \in Processes, NEW from, NEW r, Returns(p, from, r),
             UNCHANGED <<disk, bucket, body>>
      PROVE  AccountInv'
  BY <1>1, <1>2 DEF Returns
<1>3. ASSUME NEW p \in Processes, Ensures(p) \/ HealStats(p) \/ HealValidates(p)
      PROVE  AccountInv'
  BY <1>1, <1>3 DEF Ensures, HealStats, HealValidates, locals
<1>4. ASSUME NEW p \in Processes, HealRemoves(p) PROVE AccountInv'
  BY <1>0, <1>4 DEF HealRemoves, AccountInv, DiskBehind, MetaNeverAhead, Present, Goes,
                    locals
<1>5. ASSUME NEW p \in Processes, HealForgets(p) PROVE AccountInv'
  BY <1>0, <1>5 DEF HealForgets, AccountInv, DiskBehind, MetaNeverAhead, Present, Goes,
                    locals
<1>6. ASSUME NEW p \in Processes,
             \/ OpenFails(p) \/ ChecksStale(p) \/ ChecksAge(p) \/ Rechecks(p)
             \/ RechecksAge(p) \/ TriesLock(p) \/ SeesLockFree(p) \/ GivesUpWaiting(p)
             \/ FetchFails(p) \/ MetaWriteFails(p)
      PROVE  AccountInv'
  BY <1>1, <1>2, <1>6 DEF OpenFails, ChecksStale, ChecksAge, Rechecks, RechecksAge, TriesLock,
                          SeesLockFree, GivesUpWaiting, FetchFails, MetaWriteFails, locals
<1>7. ASSUME NEW p \in Processes,
             Requests(p) \/ Offers(p) \/ NotModified(p) \/ StatsPublished(p)
      PROVE  AccountInv'
  BY <1>1, <1>7 DEF Requests, Offers, NotModified, StatsPublished, locals
<1>8. ASSUME NEW p \in Processes, Receives(p) PROVE AccountInv'
  BY <1>0, <1>8 DEF Receives, AccountInv, DiskBehind, MetaNeverAhead, Present, Goes, disk
<1>9. ASSUME NEW p \in Processes, Renames(p) PROVE AccountInv'
  <2>1. \A q \in Processes : q # p => at[q] \notin {"rename", "stat", "write"}
    BY <1>9 DEF Renames, Goes, LockInv, Critical
  <2>2. archive'.ver = body[p] /\ UNCHANGED <<meta, bucket, body>>
    BY <1>9 DEF Renames, locals
  <2>3. meta.etag <= body[p] /\ body[p] <= bucket
    BY <1>9 DEF Renames, Goes, AccountInv, DiskBehind
  <2>4. /\ \A q \in Processes : q # p => at'[q] \notin {"rename", "stat", "write"}
        /\ at'[p] = "stat"
    BY <1>0, <1>9, <2>1 DEF Renames, Goes
  <2>5. QED
    BY <1>0, <2>2, <2>3, <2>4 DEF AccountInv, DiskBehind, MetaNeverAhead
<1>10. ASSUME NEW p \in Processes, WritesMeta(p) PROVE AccountInv'
  <2>1. \A q \in Processes : at'[q] \notin {"rename", "stat", "write"}
    BY <1>0, <1>10 DEF WritesMeta, Returns, Goes, LockInv, Critical
  <2>2. meta'.etag = body[p] /\ UNCHANGED <<archive, bucket, body>>
    BY <1>10 DEF WritesMeta, locals
  <2>3. body[p] <= bucket /\ archive.ver <= bucket /\ (Present => archive.ver = body[p])
    BY <1>10 DEF WritesMeta, Returns, Goes, AccountInv, DiskBehind
  <2>4. QED
    BY <1>0, <2>1, <2>2, <2>3 DEF AccountInv, DiskBehind, MetaNeverAhead, Present
<1>11. ASSUME NEW p \in Processes, RenewsMeta(p) PROVE AccountInv'
  <2>1. meta'.etag = meta.etag /\ UNCHANGED <<archive, bucket, body>>
    BY <1>11 DEF RenewsMeta, locals, DbTypeOK, Meta
  <2>2. \A q \in Processes :
            at'[q] \in {"rename", "stat", "write"} => at'[q] = at[q]
    BY <1>0, <1>11 DEF RenewsMeta, Returns, Goes
  <2>3. QED
    BY <1>0, <2>1, <2>2 DEF AccountInv, DiskBehind, MetaNeverAhead, Present
<1>12. ASSUME NEW p \in Processes, Killed(p) PROVE AccountInv'
  BY <1>0, <1>12 DEF Killed, AccountInv, DiskBehind, MetaNeverAhead, Present, disk
<1>13. CASE BucketUpdates
  BY <1>0, <1>13 DEF BucketUpdates, AccountInv, DiskBehind, MetaNeverAhead, Present, disk,
                     locals
<1>14. CASE WindowEnds
  <2>1. meta'.etag = meta.etag /\ UNCHANGED <<archive, bucket, at, body>>
    BY <1>14 DEF WindowEnds, locals, DbTypeOK, Meta
  <2>2. QED
    BY <1>0, <2>1 DEF AccountInv, DiskBehind, MetaNeverAhead, Present
<1>15. CASE Tears \/ Deletes \/ Replaces
  <2>1. (archive'.ver = archive.ver /\ Present) \/ archive' = Gone
    BY <1>15 DEF Tears, Deletes, Replaces, OutsideChange
  <2>2. UNCHANGED <<meta, bucket, at, body>>
    BY <1>15 DEF Tears, Deletes, Replaces, OutsideChange, locals
  <2>3. QED
    BY <1>0, <2>1, <2>2 DEF AccountInv, DiskBehind, MetaNeverAhead, Present
<1>16. CASE UNCHANGED vars
  BY <1>0, <1>16 DEF vars, AccountInv, DiskBehind, MetaNeverAhead, Present, disk, locals
<1>17. QED
  BY <1>3, <1>4, <1>5, <1>6, <1>7, <1>8, <1>9, <1>10, <1>11, <1>12, <1>13, <1>14, <1>15,
     <1>16 DEF Next, EnsureStep

\* It holds at every moment.
LEMMA AccountHolds == "replace" \notin Outside => (Spec => []AccountInv)
<1> SUFFICES ASSUME "replace" \notin Outside PROVE Spec => []AccountInv
  OBVIOUS
<1>1. Init => AccountInv
  BY DEF Init, AccountInv, DiskBehind, MetaNeverAhead, Present, Gone, NoMeta
<1>2. DbTypeOK /\ LockInv /\ AccountInv /\ [Next]_vars => AccountInv'
  BY AccountStep
<1>3. QED
  BY <1>1, <1>2, DbTypeCorrect, LockHolds, PTL DEF Spec

\* A 304 never confirms an archive older than the one the etag was given for,
\* wherever processes are killed and whatever heal() removes meanwhile: unless
\* another tool puts archives there.
THEOREM MetaNeverAheadHolds == "replace" \notin Outside => (Spec => []MetaNeverAhead)
BY AccountHolds, PTL DEF AccountInv

\* Processes never put an older archive over a newer one.
THEOREM NeverOlderHolds == "replace" \notin Outside => (Spec => NeverOlder)
<1> SUFFICES ASSUME "replace" \notin Outside PROVE Spec => NeverOlder
  OBVIOUS
<1>1. ASSUME DbTypeOK, AccountInv, [Next]_vars
      PROVE  [Present /\ archive' # Gone => archive'.ver >= archive.ver]_vars
  <2>0. archive.ver \in Nat /\ \A p \in Processes : body[p] \in Nat
    BY <1>1 DEF DbTypeOK, Archive
  <2>1. ASSUME NEW p \in Processes, Renames(p)
        PROVE  archive'.ver >= archive.ver
    BY <1>1, <2>0, <2>1 DEF Renames, Goes, AccountInv, DiskBehind
  <2>2. CASE Tears \/ Deletes \/ Replaces
    BY <1>1, <2>0, <2>2 DEF Tears, Deletes, Replaces, OutsideChange
  <2>3. ASSUME NEW p \in Processes, HealRemoves(p) PROVE archive' \in {Gone, archive}
    BY <2>3 DEF HealRemoves
  <2>4. CASE UNCHANGED archive
    BY <2>0, <2>4
  <2>5. QED
    BY <1>1, <2>1, <2>2, <2>3, <2>4
       DEF Next, EnsureStep, Ensures, HealStats, HealValidates, HealForgets, OpenFails,
           ChecksStale, ChecksAge, TriesLock, SeesLockFree, GivesUpWaiting, Rechecks,
           RechecksAge, Requests, Offers, NotModified, Receives, FetchFails, StatsPublished, WritesMeta, RenewsMeta, MetaWriteFails,
           Killed, BucketUpdates, WindowEnds, vars, disk
<1>2. QED
  BY <1>1, DbTypeCorrect, AccountHolds, PTL DEF Spec, NeverOlder

-----------------------------------------------------------------------------
(* What ensure_one promises, while others only delete, between calls.      *)

PoliteOutside == Outside \subseteq {"delete"} /\ ~OutsideAnytime

\* The archive is there wherever a process counts on it.
Counted ==
    /\ bucket # 0
    /\ \A p \in Processes :
         /\ at[p] \notin {"remove", "forget"}
         /\ at[p] \in {"validate", "age", "reage", "stat", "write", "renew"} => Present
         /\ at[p] = "response" /\ sent[p] # 0 => Present

\* Where a process past the lock has found the archive stale.
Found == Critical \ {"recheck", "reage"}

\* No sidecar has been written since a process past the lock found it stale.
Once ==
    /\ refreshes <= 1
    /\ refreshes # 0 => Present /\ meta.fresh
    /\ \A p \in Processes : at[p] \in Found => refreshes = 0

PromiseInv == PresentIsReadable /\ Counted /\ EnsuredIsReadable /\ Once

\* One step keeps the promise.
LEMMA PromiseStep ==
    ASSUME PoliteOutside, DbTypeOK, LockInv, PromiseInv, [Next]_vars
    PROVE  PromiseInv'
<1>0. /\ at \in [Processes -> Steps] /\ sent \in [Processes -> Nat]
      /\ result \in [Processes -> {"none", "ok", "failed"}]
      /\ bucket \in Nat /\ refreshes \in Nat /\ archive \in Archive /\ meta \in Meta
      /\ refreshes = 0 \/ refreshes = 1
  BY DEF DbTypeOK, PromiseInv, Once
<1>1. ASSUME NEW p \in Processes, NEW from, NEW to, Goes(p, from, to),
             to \notin {"remove", "forget", "response"},
             to \in {"validate", "age", "reage", "stat", "write", "renew"} => Present,
             to \in Found => from \in Found \/ refreshes = 0,
             result' \in [Processes -> {"none", "ok", "failed"}],
             \A q \in Processes : result'[q] = "ok" => result[q] = "ok",
             UNCHANGED <<disk, bucket, sent, refreshes>>
      PROVE  PromiseInv'
  <2>1. UNCHANGED <<archive, meta, bucket, sent, refreshes>>
    BY <1>1 DEF disk
  <2>2. PresentIsReadable' /\ EnsuredIsReadable'
    BY <1>1, <2>1 DEF PromiseInv, PresentIsReadable, EnsuredIsReadable, Present
  <2>3. Counted'
    BY <1>0, <1>1, <2>1 DEF PromiseInv, Counted, Present, Goes
  <2>4. Once'
    BY <1>0, <1>1, <2>1 DEF PromiseInv, Once, Present, Goes
  <2>5. QED
    BY <2>2, <2>3, <2>4 DEF PromiseInv
<1>2. ASSUME NEW p \in Processes, NEW from, NEW r \in {"ok", "failed"},
             Returns(p, from, r), r = "ok" => Present,
             UNCHANGED <<archive, bucket, sent>>,
             \/ UNCHANGED <<meta, refreshes>>
             \/ refreshes' = 0
             \/ /\ from \in Found /\ refreshes' = refreshes + 1
                /\ Present' /\ meta'.fresh
      PROVE  PromiseInv'
  <2>1. PresentIsReadable'
    BY <1>2 DEF PromiseInv, PresentIsReadable, Present
  <2>2. EnsuredIsReadable'
    BY <1>0, <1>2 DEF PromiseInv, PresentIsReadable, EnsuredIsReadable, Present, Returns
  <2>3. Counted'
    BY <1>0, <1>2 DEF PromiseInv, Counted, Present, Returns, Goes
  <2>4. Once'
    <3>1. CASE UNCHANGED <<meta, refreshes>>
      BY <1>0, <1>2, <3>1
         DEF PromiseInv, Once, Present, Returns, Goes, Found, Critical
    <3>2. CASE refreshes' = 0
      BY <3>2 DEF Once
    <3>3. CASE /\ from \in Found /\ refreshes' = refreshes + 1
               /\ Present' /\ meta'.fresh
      <4>1. \A q \in Processes : at'[q] \notin Critical
        BY <1>0, <1>2, <3>3 DEF LockInv, Returns, Goes, Found, Critical
      <4>2. refreshes = 0
        BY <1>2, <3>3 DEF PromiseInv, Once, Returns, Goes
      <4>3. QED
        BY <3>3, <4>1, <4>2 DEF Once, Found
    <3>4. QED
      BY <1>2, <3>1, <3>2, <3>3
  <2>5. QED
    BY <2>1, <2>2, <2>3, <2>4 DEF PromiseInv
<1>3. ASSUME NEW p \in Processes, Ensures(p) PROVE PromiseInv'
  BY <1>0, <1>1, <1>3 DEF Ensures, locals, bounds, Found, Critical
<1>4. ASSUME NEW p \in Processes, HealStats(p) PROVE PromiseInv'
  BY <1>0, <1>1, <1>4 DEF HealStats, bounds, Found, Critical
<1>5. ASSUME NEW p \in Processes, HealValidates(p) PROVE PromiseInv'
  <2>1. archive.ok
    BY <1>5 DEF HealValidates, Goes, PromiseInv, Counted, PresentIsReadable
  <2>2. QED
    BY <1>0, <1>1, <1>5, <2>1 DEF HealValidates, bounds, Found, Critical
<1>6. ASSUME NEW p \in Processes, HealRemoves(p) \/ HealForgets(p) PROVE PromiseInv'
  BY <1>6 DEF HealRemoves, HealForgets, Goes, PromiseInv, Counted
<1>7. ASSUME NEW p \in Processes,
             ChecksStale(p) \/ ChecksAge(p) \/ Rechecks(p) \/ RechecksAge(p)
      PROVE  PromiseInv'
  <2>1. ~Present \/ ~meta.fresh => refreshes = 0
    BY DEF PromiseInv, Once
  <2>2. CASE ChecksStale(p) \/ Rechecks(p)
    BY <1>0, <1>1, <2>1, <2>2 DEF ChecksStale, Rechecks, locals, bounds, Found, Critical
  <2>3. CASE ChecksAge(p) \/ RechecksAge(p)
    <3>1. Present
      BY <2>3 DEF ChecksAge, RechecksAge, Returns, Goes, PromiseInv, Counted
    <3>2. CASE meta.fresh
      BY <1>2, <2>3, <3>1, <3>2 DEF ChecksAge, RechecksAge, disk, locals, bounds
    <3>3. CASE ~meta.fresh
      BY <1>0, <1>1, <2>1, <2>3, <3>1, <3>3
         DEF ChecksAge, RechecksAge, locals, bounds, Found, Critical
    <3>4. QED
      BY <3>2, <3>3
  <2>4. QED
    BY <1>7, <2>2, <2>3
<1>8. ASSUME NEW p \in Processes, TriesLock(p) PROVE PromiseInv'
  BY <1>0, <1>1, <1>8 DEF TriesLock, locals, bounds, Found, Critical
<1>9. ASSUME NEW p \in Processes,
             OpenFails(p) \/ SeesLockFree(p) \/ GivesUpWaiting(p) \/ FetchFails(p)
      PROVE  PromiseInv'
  BY <1>2, <1>9 DEF OpenFails, SeesLockFree, GivesUpWaiting, FetchFails, disk, locals, bounds
<1>10. ASSUME NEW p \in Processes, Requests(p) \/ Offers(p) PROVE PromiseInv'
  <2>1. UNCHANGED <<archive, meta, bucket, refreshes, result>>
    BY <1>10 DEF Requests, Offers, disk, bounds
  <2>2. at'[p] = "response" /\ sent'[p] # 0 => Present
    BY <1>0, <1>10 DEF Requests, Offers, Goes
  <2>3. PresentIsReadable' /\ EnsuredIsReadable'
    BY <2>1 DEF PromiseInv, PresentIsReadable, EnsuredIsReadable, Present
  <2>4. Counted'
    BY <1>0, <1>10, <2>1, <2>2 DEF Requests, Offers, Goes, PromiseInv, Counted, Present
  <2>5. Once'
    BY <1>0, <1>10, <2>1
       DEF Requests, Offers, Goes, PromiseInv, Once, Present, Found, Critical
  <2>6. QED
    BY <2>3, <2>4, <2>5 DEF PromiseInv
<1>11. ASSUME NEW p \in Processes, NotModified(p) PROVE PromiseInv'
  <2>1. Present
    BY <1>11 DEF NotModified, Goes, PromiseInv, Counted
  <2>2. QED
    BY <1>0, <1>1, <1>11, <2>1 DEF NotModified, locals, bounds, Found, Critical
<1>12. ASSUME NEW p \in Processes, Receives(p) PROVE PromiseInv'
  BY <1>0, <1>1, <1>12 DEF Receives, bounds, Found, Critical
<1>13. ASSUME NEW p \in Processes, Renames(p) PROVE PromiseInv'
  <2>1. archive'.ok /\ archive' # Gone /\ UNCHANGED <<meta, bucket, sent, result, refreshes>>
    BY <1>13 DEF Renames, Gone, locals
  <2>2. refreshes = 0
    BY <1>13 DEF Renames, Goes, PromiseInv, Once, Found, Critical
  <2>3. PresentIsReadable' /\ EnsuredIsReadable'
    BY <2>1 DEF PresentIsReadable, EnsuredIsReadable, Present
  <2>4. Counted'
    BY <1>0, <1>13, <2>1 DEF Renames, Goes, PromiseInv, Counted, Present
  <2>5. Once'
    BY <2>1, <2>2 DEF Once
  <2>6. QED
    BY <2>3, <2>4, <2>5 DEF PromiseInv
<1>14. ASSUME NEW p \in Processes, StatsPublished(p) PROVE PromiseInv'
  <2>1. Present
    BY <1>14 DEF StatsPublished, Goes, PromiseInv, Counted
  <2>2. QED
    BY <1>0, <1>1, <1>14, <2>1 DEF StatsPublished, bounds, Found, Critical
<1>15. ASSUME NEW p \in Processes, WritesMeta(p) PROVE PromiseInv'
  <2>1. Present
    BY <1>15 DEF WritesMeta, Returns, Goes, PromiseInv, Counted
  <2>2. Present' /\ meta'.fresh
    BY <1>15, <2>1 DEF WritesMeta, Present
  <2>3. QED
    BY <1>2, <1>15, <2>1, <2>2 DEF WritesMeta, locals, Found, Critical
<1>16. ASSUME NEW p \in Processes, RenewsMeta(p) PROVE PromiseInv'
  <2>1. Present
    BY <1>16 DEF RenewsMeta, Returns, Goes, PromiseInv, Counted
  <2>2. meta'.fresh
    BY <1>0, <1>16 DEF RenewsMeta, Meta
  <2>3. Present' /\ meta'.fresh
    BY <1>16, <2>1, <2>2 DEF RenewsMeta, Present
  <2>4. QED
    BY <1>2, <1>16, <2>1, <2>3 DEF RenewsMeta, locals, Found, Critical
<1>17. ASSUME NEW p \in Processes, MetaWriteFails(p) PROVE PromiseInv'
  BY <1>2, <1>17 DEF MetaWriteFails, disk, locals
<1>18. ASSUME NEW p \in Processes, Killed(p) PROVE PromiseInv'
  <2>1. UNCHANGED <<archive, meta, bucket, sent>> /\ refreshes' = 0
    BY <1>18 DEF Killed, disk
  <2>2. PresentIsReadable' /\ EnsuredIsReadable'
    BY <1>0, <1>18, <2>1 DEF Killed, PromiseInv, PresentIsReadable, EnsuredIsReadable,
                             Present
  <2>3. Counted'
    BY <1>0, <1>18, <2>1 DEF Killed, PromiseInv, Counted, Present
  <2>4. QED
    BY <2>1, <2>2, <2>3 DEF PromiseInv, Once
<1>19. CASE BucketUpdates
  <2>1. bucket' # 0 /\ UNCHANGED <<archive, meta, at, sent, result, refreshes>>
    BY <1>0, <1>19 DEF BucketUpdates, disk, locals, bounds
  <2>2. QED
    BY <2>1 DEF PromiseInv, PresentIsReadable, Counted, EnsuredIsReadable, Once, Present
<1>20. CASE WindowEnds
  <2>1. UNCHANGED <<archive, bucket, at, sent, result>> /\ refreshes' = 0
    BY <1>20 DEF WindowEnds, locals
  <2>2. QED
    BY <2>1 DEF PromiseInv, PresentIsReadable, Counted, EnsuredIsReadable, Once, Present
<1>21. CASE Tears \/ Deletes \/ Replaces
  <2>1. /\ archive' = Gone /\ refreshes' = 0 /\ UNCHANGED <<bucket, at, sent>>
        /\ \A p \in Processes : at[p] = "idle" /\ result'[p] = "none"
    BY <1>21 DEF PoliteOutside, Tears, Deletes, Replaces, OutsideChange, locals
  <2>2. QED
    BY <2>1 DEF PromiseInv, PresentIsReadable, Counted, EnsuredIsReadable, Once, Present,
                Found, Critical
<1>22. CASE UNCHANGED vars
  BY <1>22 DEF vars, disk, locals, bounds, PromiseInv, PresentIsReadable, Counted,
               EnsuredIsReadable, Once, Present
<1>23. QED
  BY <1>3, <1>4, <1>5, <1>6, <1>7, <1>8, <1>9, <1>10, <1>11, <1>12, <1>13, <1>14, <1>15,
     <1>16, <1>17, <1>18, <1>19, <1>20, <1>21, <1>22 DEF Next, EnsureStep

\* It holds at every moment.
LEMMA PromiseHolds == PoliteOutside => (Spec => []PromiseInv)
<1> SUFFICES ASSUME PoliteOutside PROVE Spec => []PromiseInv
  OBVIOUS
<1>1. Init => PromiseInv
  BY DEF Init, PromiseInv, PresentIsReadable, Counted, EnsuredIsReadable, Once, Present
<1>2. DbTypeOK /\ LockInv /\ PromiseInv /\ [Next]_vars => PromiseInv'
  BY PromiseStep
<1>3. QED
  BY <1>1, <1>2, DbTypeCorrect, LockHolds, PTL DEF Spec

\* An archive that is present is complete and verified, wherever downloads stop
\* and processes are killed.
THEOREM PresentIsReadableHolds == PoliteOutside => (Spec => []PresentIsReadable)
BY PromiseHolds, PTL DEF PromiseInv

\* After ensure_one returned Ok, by whichever of its branches, there is an
\* archive and it opens.
THEOREM EnsuredIsReadableHolds == PoliteOutside => (Spec => []EnsuredIsReadable)
BY PromiseHolds, PTL DEF PromiseInv

\* However many processes find the archive stale, one refreshes it.
THEOREM RefreshedOnceHolds == PoliteOutside => (Spec => []RefreshedOnce)
<1>1. PromiseInv => RefreshedOnce
  BY DEF PromiseInv, Once, RefreshedOnce
<1>2. QED
  BY <1>1, PromiseHolds, PTL

-----------------------------------------------------------------------------
(* What a process takes for validated, whatever others do between calls.   *)

\* Modification times only grow, so that nothing written later can have one
\* that was read or validated before.
StampsGrow ==
    /\ archive.stamp <= stamp /\ (Present => archive.stamp # 0)
    /\ \A p \in Processes : validated[p] <= stamp /\ modified[p] <= stamp

\* What is at the path between the rename and the stat is what was renamed
\* there, or nothing.
Published == \A p \in Processes : at[p] = "stat" /\ Present => archive.ok

ValidInv == StampsGrow /\ Published /\ ValidatedIsReadable

\* One step keeps them.
LEMMA ValidStep ==
    ASSUME ~OutsideAnytime, DbTypeOK, ValidInv, [Next]_vars
    PROVE  ValidInv'
<1>0. /\ at \in [Processes -> Steps]
      /\ validated \in [Processes -> Nat] /\ modified \in [Processes -> Nat]
      /\ archive \in Archive /\ archive.stamp \in Nat /\ stamp \in Nat
      /\ Gone.stamp = 0
  BY DEF DbTypeOK, Archive, Gone
<1>1. ASSUME NEW p \in Processes, NEW from, NEW to, Goes(p, from, to), to # "stat",
             UNCHANGED <<archive, validated, modified, stamp>>
      PROVE  ValidInv'
  BY <1>0, <1>1 DEF ValidInv, StampsGrow, Published, ValidatedIsReadable, Present, Goes
<1>2. ASSUME NEW p \in Processes,
             \/ Ensures(p) \/ HealForgets(p) \/ OpenFails(p) \/ ChecksStale(p)
             \/ ChecksAge(p) \/ TriesLock(p) \/ SeesLockFree(p) \/ GivesUpWaiting(p)
             \/ Rechecks(p) \/ RechecksAge(p) \/ Requests(p) \/ Offers(p)
             \/ NotModified(p) \/ Receives(p) \/ FetchFails(p) \/ WritesMeta(p)
             \/ RenewsMeta(p) \/ MetaWriteFails(p)
      PROVE  ValidInv'
  BY <1>1, <1>2 DEF Ensures, HealForgets, OpenFails, ChecksStale, ChecksAge, TriesLock,
                    SeesLockFree, GivesUpWaiting, Rechecks, RechecksAge, Requests, Offers,
                    NotModified, Receives, FetchFails,
                    WritesMeta, RenewsMeta, MetaWriteFails, Returns, disk, locals, bounds
<1>3. ASSUME NEW p \in Processes, HealStats(p) PROVE ValidInv'
  BY <1>0, <1>3 DEF HealStats, Goes, ValidInv, StampsGrow, Published, ValidatedIsReadable,
                    Present, disk, bounds
<1>4. ASSUME NEW p \in Processes, HealValidates(p) PROVE ValidInv'
  BY <1>0, <1>4 DEF HealValidates, Goes, ValidInv, StampsGrow, Published,
                    ValidatedIsReadable, Present, disk, bounds
<1>5. ASSUME NEW p \in Processes, HealRemoves(p) PROVE ValidInv'
  BY <1>0, <1>5 DEF HealRemoves, Goes, ValidInv, StampsGrow, Published,
                    ValidatedIsReadable, Present, locals, bounds
<1>6. ASSUME NEW p \in Processes, Renames(p) PROVE ValidInv'
  <2>1. archive'.ok /\ archive'.stamp = stamp' /\ stamp' = stamp + 1
    BY <1>6 DEF Renames
  <2>2. UNCHANGED <<validated, modified>>
    BY <1>6 DEF Renames, locals
  <2>3. QED
    BY <1>0, <2>1, <2>2 DEF ValidInv, StampsGrow, Published, ValidatedIsReadable, Present
<1>7. ASSUME NEW p \in Processes, StatsPublished(p) PROVE ValidInv'
  BY <1>0, <1>7 DEF StatsPublished, Goes, ValidInv, StampsGrow, Published,
                    ValidatedIsReadable, Present, disk, bounds
<1>8. ASSUME NEW p \in Processes, Killed(p) PROVE ValidInv'
  <2>1. validated' = [validated EXCEPT ![p] = 0] /\ at' = [at EXCEPT ![p] = "idle"]
    BY <1>8 DEF Killed
  <2>2. UNCHANGED <<archive, modified, stamp>>
    BY <1>8 DEF Killed, disk
  <2>3. StampsGrow' /\ Published'
    BY <1>0, <2>1, <2>2 DEF ValidInv, StampsGrow, Published, Present
  <2>4. QED
    BY <1>0, <2>1, <2>2, <2>3 DEF ValidInv, StampsGrow, ValidatedIsReadable, Present
<1>9. CASE Tears \/ Deletes \/ Replaces
  <2>1. /\ archive' = Gone \/ archive'.stamp = stamp'
        /\ stamp' = stamp + 1 /\ UNCHANGED <<at, validated, modified>>
        /\ \A p \in Processes : at[p] = "idle"
    BY <1>9 DEF Tears, Deletes, Replaces, OutsideChange, locals
  <2>2. QED
    BY <1>0, <2>1 DEF ValidInv, StampsGrow, Published, ValidatedIsReadable, Present
<1>10. CASE BucketUpdates \/ WindowEnds \/ UNCHANGED vars
  BY <1>0, <1>10 DEF BucketUpdates, WindowEnds, vars, ValidInv, StampsGrow, Published,
                     ValidatedIsReadable, Present, disk, locals, bounds
<1>11. QED
  BY <1>2, <1>3, <1>4, <1>5, <1>6, <1>7, <1>8, <1>9, <1>10 DEF Next, EnsureStep

\* What a process takes for validated opens, whatever is torn, deleted or
\* replaced between calls and by however many servers it is healed.
THEOREM ValidatedIsReadableHolds == ~OutsideAnytime => (Spec => []ValidatedIsReadable)
<1> SUFFICES ASSUME ~OutsideAnytime PROVE Spec => []ValidatedIsReadable
  OBVIOUS
<1>1. Init => ValidInv
  BY DEF Init, ValidInv, StampsGrow, Published, ValidatedIsReadable, Present, Gone
<1>2. DbTypeOK /\ ValidInv /\ [Next]_vars => ValidInv'
  BY ValidStep
<1>3. ValidInv => ValidatedIsReadable
  BY DEF ValidInv
<1>4. QED
  BY <1>1, <1>2, <1>3, DbTypeCorrect, PTL DEF Spec

-----------------------------------------------------------------------------
(* What ensure_one is to its callers.                                      *)

\* Version 0 is no version.
RealInv ==
    /\ Present => archive.ver # 0
    /\ \A p \in Processes : at[p] = "rename" => body[p] # 0

\* It stays that way, since the bucket always serves one.
LEMMA RealHolds == PoliteOutside => (Spec => []RealInv)
<1> SUFFICES ASSUME PoliteOutside PROVE Spec => []RealInv
  OBVIOUS
<1>1. Init => RealInv
  BY DEF Init, RealInv, Present
<1>2. ASSUME DbTypeOK, PromiseInv, RealInv, [Next]_vars PROVE RealInv'
  <2>0. at \in [Processes -> Steps] /\ body \in [Processes -> Nat] /\ bucket # 0
    BY <1>2 DEF DbTypeOK, PromiseInv, Counted
  <2>1. ASSUME NEW p \in Processes, NEW from, NEW to, Goes(p, from, to), to # "rename",
               UNCHANGED <<archive, body>>
        PROVE  RealInv'
    BY <1>2, <2>0, <2>1 DEF RealInv, Goes, Present
  <2>2. ASSUME NEW p \in Processes, NEW from, NEW r, Returns(p, from, r),
               UNCHANGED <<archive, body>>
        PROVE  RealInv'
    BY <2>1, <2>2 DEF Returns
  <2>3. ASSUME NEW p \in Processes, Receives(p) PROVE RealInv'
    BY <1>2, <2>0, <2>3 DEF RealInv, Receives, Goes, Present, disk
  <2>4. ASSUME NEW p \in Processes, Renames(p) PROVE RealInv'
    <3>1. archive'.ver # 0
      BY <1>2, <2>4 DEF RealInv, Renames, Goes
    <3> QED
      BY <1>2, <2>0, <2>4, <3>1 DEF RealInv, Renames, Goes, locals
  <2>5. ASSUME NEW p \in Processes, HealRemoves(p) PROVE RealInv'
    BY <1>2, <2>0, <2>5 DEF RealInv, HealRemoves, Goes, Present, locals
  <2>6. ASSUME NEW p \in Processes, Killed(p) PROVE RealInv'
    BY <1>2, <2>0, <2>6 DEF RealInv, Killed, Present, disk
  <2>7. CASE Tears \/ Deletes \/ Replaces
    BY <1>2, <2>7 DEF RealInv, Tears, Deletes, Replaces, OutsideChange, PoliteOutside,
                      Present, locals
  <2>8. CASE BucketUpdates \/ WindowEnds \/ UNCHANGED vars
    BY <1>2, <2>8 DEF RealInv, BucketUpdates, WindowEnds, Present, vars, disk, locals
  <2>9. ASSUME NEW p \in Processes, EnsureStep(p), ~Receives(p), ~Renames(p), ~HealRemoves(p)
        PROVE  RealInv'
    BY <2>1, <2>2, <2>9
       DEF EnsureStep, HealStats, HealValidates, HealForgets, OpenFails, ChecksStale,
           ChecksAge, TriesLock, SeesLockFree, GivesUpWaiting, Rechecks, RechecksAge,
           Requests, Offers, NotModified, FetchFails,
           StatsPublished, WritesMeta, RenewsMeta, MetaWriteFails, disk, locals
  <2>10. ASSUME NEW p \in Processes, Ensures(p) PROVE RealInv'
    BY <2>1, <2>10 DEF Ensures, disk, locals
  <2> QED
    BY <1>2, <2>3, <2>4, <2>5, <2>6, <2>7, <2>8, <2>9, <2>10 DEF Next
<1> QED
  BY <1>1, <1>2, DbTypeCorrect, PromiseHolds, PTL DEF Spec

\* How a step of one process looks from outside.
LEMMA CallsMove ==
    ASSUME DbTypeOK, DbTypeOK', NEW p \in Processes,
           \A q \in Processes \ {p} : at'[q] = at[q] /\ result'[q] = result[q]
    PROVE  Calls' = [Calls EXCEPT ![p] = IF at'[p] = "idle" THEN Outcome[result'[p]]
                                                            ELSE "in"]
BY DEF Calls

\* Every step of the implementation is one of the promise, or none.
LEMMA EnsuringStep ==
    ASSUME PoliteOutside, DbTypeOK, DbTypeOK', AccountInv, PromiseInv, PromiseInv', RealInv,
           [Next]_vars
    PROVE  [E!Next]_E!vars
<1>0. /\ at \in [Processes -> Steps] /\ bucket \in Nat /\ archive \in Archive
      /\ result \in [Processes -> {"none", "ok", "failed"}]
      /\ body \in [Processes -> Nat]
  BY DEF DbTypeOK
<1>1. Readable = archive.ver /\ Readable' = archive'.ver
  BY DEF Readable, PromiseInv, PresentIsReadable, Present, Gone
<1>2. \A p \in Processes : at[p] = "idle" <=> Calls[p] # "in"
  BY <1>0 DEF Calls, Outcome
<1>3. Present => Readable # 0
  BY <1>1 DEF RealInv
<1>4. ASSUME NEW p \in Processes, NEW from, NEW to, Goes(p, from, to),
             from # "idle", to # "idle", UNCHANGED <<archive, bucket, result>>
      PROVE  UNCHANGED E!vars
  <2>1. Calls' = Calls
    BY <1>0, <1>4 DEF Goes, Calls
  <2> QED
    BY <1>1, <1>4, <2>1 DEF E!vars
<1>5. ASSUME NEW p \in Processes, NEW from, NEW r, Returns(p, from, r), from # "idle",
             r = "failed" \/ (r = "ok" /\ Present), UNCHANGED <<archive, bucket>>
      PROVE  E!Next
  <2>1. Calls' = [Calls EXCEPT ![p] = Outcome[r]]
    <3>1. /\ at' = [at EXCEPT ![p] = "idle"] /\ result' = [result EXCEPT ![p] = r]
      BY <1>5 DEF Returns, Goes
    <3> QED
      BY <1>0, <3>1, CallsMove
  <2>2. Calls[p] = "in" /\ UNCHANGED <<Readable, bucket>>
    BY <1>1, <1>2, <1>5 DEF Returns, Goes
  <2>3. CASE r = "ok"
    <3>1. E!Lands(p)
      BY <1>3, <1>5, <2>1, <2>2, <2>3 DEF E!Lands, E!Becomes, Outcome
    <3> QED
      BY <3>1 DEF E!Next
  <2>4. CASE r = "failed"
    <3>1. E!Fails(p)
      BY <2>1, <2>2, <2>4 DEF E!Fails, E!Becomes, Outcome
    <3> QED
      BY <3>1 DEF E!Next
  <2> QED
    BY <1>5, <2>3, <2>4
<1>6. ASSUME NEW p \in Processes, Ensures(p) PROVE E!Next
  <2>1. Calls' = [Calls EXCEPT ![p] = "in"]
    <3>1. /\ at' = [at EXCEPT ![p] = "heal"] /\ result' = [result EXCEPT ![p] = "none"]
      BY <1>6 DEF Ensures, Goes
    <3> QED
      BY <1>0, <3>1, CallsMove
  <2>2. Calls[p] # "in" /\ UNCHANGED <<Readable, bucket>>
    BY <1>1, <1>2, <1>6 DEF Ensures, Goes, disk
  <2>3. E!Begins(p)
    BY <2>1, <2>2 DEF E!Begins, E!Becomes
  <2> QED
    BY <2>3 DEF E!Next
<1>7. ASSUME NEW p \in Processes,
             \/ HealStats(p) \/ HealValidates(p) \/ HealForgets(p) \/ TriesLock(p)
             \/ ChecksStale(p) \/ Rechecks(p) \/ Requests(p) \/ Offers(p)
             \/ NotModified(p) \/ Receives(p) \/ StatsPublished(p)
      PROVE  UNCHANGED E!vars
  BY <1>4, <1>7 DEF HealStats, HealValidates, HealForgets, TriesLock, ChecksStale, Rechecks,
                    Requests, Offers, NotModified, Receives, StatsPublished, disk
<1>8. ASSUME NEW p \in Processes, HealRemoves(p) PROVE FALSE
  BY <1>8 DEF HealRemoves, Goes, PromiseInv, Counted
<1>9. ASSUME NEW p \in Processes, ChecksAge(p) \/ RechecksAge(p) PROVE [E!Next]_E!vars
  <2>1. Present
    BY <1>9 DEF ChecksAge, RechecksAge, Returns, Goes, PromiseInv, Counted
  <2> QED
    BY <1>4, <1>5, <1>9, <2>1 DEF ChecksAge, RechecksAge, disk
<1>10. ASSUME NEW p \in Processes,
              OpenFails(p) \/ SeesLockFree(p) \/ GivesUpWaiting(p) \/ FetchFails(p)
       PROVE  E!Next
  BY <1>5, <1>10 DEF OpenFails, SeesLockFree, GivesUpWaiting, FetchFails, disk
<1>11. ASSUME NEW p \in Processes, WritesMeta(p) \/ RenewsMeta(p) PROVE E!Next
  <2>1. Present
    BY <1>11 DEF WritesMeta, RenewsMeta, Returns, Goes, PromiseInv, Counted
  <2> QED
    BY <1>5, <1>11, <2>1 DEF WritesMeta, RenewsMeta
<1>12. ASSUME NEW p \in Processes, MetaWriteFails(p) PROVE E!Next
  BY <1>5, <1>12 DEF MetaWriteFails, disk
<1>13. ASSUME NEW p \in Processes, Renames(p) PROVE E!Next
  <2>1. Readable' = body[p] /\ Readable = archive.ver /\ UNCHANGED bucket
    BY <1>1, <1>13 DEF Renames
  <2>2. body[p] \in 1..bucket /\ body[p] >= archive.ver
    BY <1>0, <1>13 DEF Renames, Goes, AccountInv, DiskBehind, RealInv, Archive
  <2>3. UNCHANGED Calls /\ Calls[p] = "in"
    BY <1>0, <1>2, <1>13 DEF Renames, Goes, Calls
  <2>4. E!Publishes
    BY <2>1, <2>2, <2>3 DEF E!Publishes
  <2> QED
    BY <2>4 DEF E!Next
<1>14. ASSUME NEW p \in Processes, Killed(p) PROVE E!Next
  <2>1. Calls' = [Calls EXCEPT ![p] = "out"]
    <3>1. /\ at' = [at EXCEPT ![p] = "idle"] /\ result' = [result EXCEPT ![p] = "none"]
      BY <1>14 DEF Killed
    <3> QED
      BY <1>0, <3>1, CallsMove DEF Outcome
  <2>2. Calls[p] = "in" /\ UNCHANGED <<Readable, bucket>>
    BY <1>1, <1>2, <1>14 DEF Killed, disk
  <2>3. E!Fails(p)
    BY <2>1, <2>2 DEF E!Fails, E!Becomes
  <2> QED
    BY <2>3 DEF E!Next
<1>15. CASE BucketUpdates
  <2>1. E!Offers
    BY <1>1, <1>15 DEF BucketUpdates, E!Offers, Calls, disk
  <2> QED
    BY <2>1 DEF E!Next
<1>16. CASE WindowEnds \/ UNCHANGED vars
  BY <1>1, <1>16 DEF WindowEnds, E!vars, Calls, vars, disk
<1>17. CASE Tears \/ Deletes \/ Replaces
  <2>1. archive' = Gone /\ UNCHANGED <<bucket, at>> /\ result' = [p \in Processes |-> "none"]
        /\ \A p \in Processes : at[p] = "idle"
    BY <1>17 DEF Tears, Deletes, Replaces, OutsideChange, PoliteOutside
  <2>2. Calls' = [p \in Processes |-> "out"]
    BY <2>1 DEF Calls, Outcome
  <2>3. E!Deleted
    BY <1>1, <1>2, <2>1, <2>2 DEF E!Deleted, Gone
  <2> QED
    BY <2>3 DEF E!Next
<1> QED
  BY <1>6, <1>7, <1>8, <1>9, <1>10, <1>11, <1>12, <1>13, <1>14, <1>15, <1>16, <1>17
     DEF Next, EnsureStep

\* Lock, sidecar, conditional request, and servers killed anywhere, amount to
\* Ensuring, as long as others only delete archives, between calls.
THEOREM DatabaseImplementsEnsuring == PoliteOutside => (Spec => ImplementsEnsuring)
<1> SUFFICES ASSUME PoliteOutside PROVE Spec => ImplementsEnsuring
  OBVIOUS
<1>1. Init => E!Init
  BY DEF Init, E!Init, Readable, Calls, Outcome, Present, Gone
<1>2. "replace" \notin Outside
  BY DEF PoliteOutside
<1>3. Spec => [](DbTypeOK /\ AccountInv /\ PromiseInv /\ RealInv)
  BY <1>2, DbTypeCorrect, AccountHolds, PromiseHolds, RealHolds, PTL
<1>4. DbTypeOK /\ DbTypeOK' /\ AccountInv /\ PromiseInv /\ PromiseInv' /\ RealInv /\ [Next]_vars
        => [E!Next]_E!vars
  BY EnsuringStep
<1>5. QED
  BY <1>1, <1>3, <1>4, PTL DEF Spec, ImplementsEnsuring, E!Spec

-----------------------------------------------------------------------------
(* Archives read and laid out as one index: what is in memory when a       *)
(* lookup is answered is, in archive order, what the archives say.         *)

\* The records that name something of their archive's ecosystem.
RecordOf(s) == Kept(archives[s[1]].entries[s[2]].record, archives[s[1]].ecosystem)
Sources ==
    {s \in Nat \X Nat :
        s[1] \in DOMAIN archives /\ s[2] \in Recorded(s[1]) /\ DOMAIN RecordOf(s) # {}}

Earlier(s, t) == s[1] < t[1] \/ (s[1] = t[1] /\ s[2] < t[2])

\* The advisories of some sources, one each, in archive order.
Holds(list, sources) ==
    /\ list \in Seq(Range(list))
    /\ \A p \in DOMAIN list : list[p].source \in sources /\ list[p].affected = RecordOf(list[p].source)
    /\ \A s \in sources : \E p \in DOMAIN list : list[p].source = s
    /\ \A p, q \in DOMAIN list : p < q => Earlier(list[p].source, list[q].source)

\* The archives before the present one are read, and what is taken of that.
ReadInv ==
    /\ archives \in Libraries
    /\ nth \in Nat /\ nth >= 1 /\ taken \in Nat
    /\ Holds(advisories, {s \in Sources : s[1] < nth})
    /\ Holds(out, {s \in Sources : s[1] = nth /\ s[2] <= taken})
    /\ loading \in {"slots", "postings", "ready"} => nth > Len(archives)
    /\ loading \in {"archives", "failed", "slots", "postings", "ready"}

\* An archive is a sequence of entries.
LEMMA LibraryIs ==
    ASSUME archives \in Libraries
    PROVE  /\ Len(archives) \in Nat /\ DOMAIN archives = 1..Len(archives)
           /\ \A a \in DOMAIN archives :
                /\ archives[a].entries \in Seq(Entry)
                /\ Len(archives[a].entries) \in Nat
                /\ DOMAIN archives[a].entries = 1..Len(archives[a].entries)
                /\ Recorded(a) \subseteq 1..Len(archives[a].entries)
                /\ \A i \in Recorded(a) : archives[a].entries[i].record \in Record
<1>1. archives \in Seq(Range(archives)) /\ \A a \in DOMAIN archives : archives[a].entries \in Seq(Entry)
    BY LoadingAssumption
<1>2. Len(archives) \in Nat /\ DOMAIN archives = 1..Len(archives)
    BY <1>1
<1>3. ASSUME NEW a \in DOMAIN archives
      PROVE  /\ Len(archives[a].entries) \in Nat
             /\ DOMAIN archives[a].entries = 1..Len(archives[a].entries)
             /\ Recorded(a) \subseteq 1..Len(archives[a].entries)
             /\ \A i \in Recorded(a) : archives[a].entries[i].record \in Record
    <2>1. archives[a].entries \in Seq(Entry)
        BY <1>1
    <2>2. Len(archives[a].entries) \in Nat /\ DOMAIN archives[a].entries = 1..Len(archives[a].entries)
          /\ \A i \in 1..Len(archives[a].entries) : archives[a].entries[i] \in Entry
        BY <2>1
    <2>3. \A e \in Entry : e.kind = "record" => e.record \in Record
        <3> TAKE e \in Entry
        <3>1. CASE e \in [kind : {"closed", "text", "torn", "malformed"}]
            BY <3>1
        <3>2. CASE e \in [kind : {"record"}, record : Record]
            BY <3>2
        <3> QED BY <3>1, <3>2 DEF Entry
    <2> QED BY <2>2, <2>3 DEF Recorded
<1> QED BY <1>1, <1>2, <1>3

\* The order is that of two numbers.
LEMMA EarlierIs ==
    ASSUME NEW s \in Nat \X Nat, NEW t \in Nat \X Nat
    PROVE  /\ s[1] < t[1] => Earlier(s, t)
           /\ s[1] = t[1] /\ s[2] < t[2] => Earlier(s, t)
           /\ Earlier(s, t) => ArchiveOrder(s, t) /\ s # t
BY DEF Earlier, ArchiveOrder

\* A list goes on with what comes after all of it.
LEMMA HoldsMore ==
    ASSUME NEW list, NEW S, Holds(list, S), S \subseteq Nat \X Nat,
           NEW more, NEW T, Holds(more, T), T \subseteq Nat \X Nat,
           \A s \in S, t \in T : Earlier(s, t)
    PROVE  Holds(list \o more, S \cup T)
<1> DEFINE n == Len(list)  m == Len(more)  all == list \o more
<1>1. list \in Seq(Range(list)) /\ more \in Seq(Range(more))
    BY DEF Holds
<1>2. n \in Nat /\ m \in Nat /\ DOMAIN list = 1..n /\ DOMAIN more = 1..m
    BY <1>1
<1>3. /\ DOMAIN all = 1..n + m /\ Len(all) = n + m
      /\ \A p \in 1..n : all[p] = list[p]
      /\ \A p \in 1..m : all[n + p] = more[p]
    BY <1>1
<1>4. \A p \in 1..n + m : p \in 1..n \/ (p - n \in 1..m /\ p = n + (p - n))
    BY <1>2
<1>5. \A p \in 1..n + m : (p \in 1..n /\ all[p] = list[p]) \/ (p - n \in 1..m /\ all[p] = more[p - n])
    <2> TAKE p \in 1..n + m
    <2>1. CASE p \in 1..n
        BY <1>3, <2>1
    <2>2. CASE p \notin 1..n
        <3>1. p - n \in 1..m /\ p = n + (p - n)
            BY <1>4, <2>2
        <3>2. all[n + (p - n)] = more[p - n]
            BY <1>3, <3>1
        <3> QED BY <3>1, <3>2
    <2> QED BY <2>1, <2>2
<1> HIDE DEF all, n, m
<1>6. all \in Seq(Range(all))
    <2>1. all \in Seq(Range(list) \cup Range(more))
        <3>1. list \in Seq(Range(list) \cup Range(more)) /\ more \in Seq(Range(list) \cup Range(more))
            BY <1>1
        <3> QED BY <3>1 DEF all
    <2>2. \A p \in 1..Len(all) : all[p] \in Range(all)
        BY <1>3 DEF Range
    <2> QED BY <2>1, <2>2
<1>7. ASSUME NEW p \in DOMAIN all
      PROVE  all[p].source \in S \cup T /\ all[p].affected = RecordOf(all[p].source)
    <2>1. CASE p \in 1..n /\ all[p] = list[p]
        <3>1. list[p].source \in S /\ list[p].affected = RecordOf(list[p].source)
            BY <1>2, <2>1 DEF Holds
        <3> QED BY <2>1, <3>1
    <2>2. CASE p - n \in 1..m /\ all[p] = more[p - n]
        <3>1. more[p - n].source \in T /\ more[p - n].affected = RecordOf(more[p - n].source)
            BY <1>2, <2>2 DEF Holds
        <3> QED BY <2>2, <3>1
    <2> QED BY <1>3, <1>5, <2>1, <2>2
<1>8. ASSUME NEW s \in S \cup T
      PROVE  \E p \in DOMAIN all : all[p].source = s
    <2>1. CASE s \in S
        <3>1. PICK p \in 1..n : list[p].source = s
            BY <1>2, <2>1 DEF Holds
        <3> QED BY <1>2, <1>3, <3>1
    <2>2. CASE s \in T
        <3>1. PICK p \in 1..m : more[p].source = s
            BY <1>2, <2>2 DEF Holds
        <3>2. n + p \in 1..n + m /\ all[n + p] = more[p]
            BY <1>2, <1>3
        <3> QED BY <1>3, <3>1, <3>2
    <2> QED BY <2>1, <2>2
<1>9. ASSUME NEW p \in DOMAIN all, NEW q \in DOMAIN all, p < q
      PROVE  Earlier(all[p].source, all[q].source)
    <2>1. p \in 1..n + m /\ q \in 1..n + m
        BY <1>3
    <2>2. CASE q \in 1..n
        <3>1. p \in 1..n
            BY <1>2, <1>9, <2>1, <2>2
        <3> QED BY <1>2, <1>3, <1>9, <2>2, <3>1 DEF Holds
    <2>3. CASE q \notin 1..n
        <3>1. q - n \in 1..m /\ all[q] = more[q - n]
            BY <1>5, <2>1, <2>3
        <3>2. all[q].source \in T
            BY <1>2, <3>1 DEF Holds
        <3>3. CASE p \in 1..n
            <4>1. all[p].source \in S
                BY <1>2, <1>3, <3>3 DEF Holds
            <4> QED BY <3>2, <4>1
        <3>4. CASE p \notin 1..n
            <4>1. p - n \in 1..m /\ all[p] = more[p - n]
                BY <1>5, <2>1, <3>4
            <4>2. p - n < q - n
                BY <1>2, <1>9, <2>1
            <4> QED BY <1>2, <3>1, <4>1, <4>2 DEF Holds
        <3> QED BY <3>3, <3>4
    <2> QED BY <2>2, <2>3
<1>10. Holds(all, S \cup T)
    BY <1>6, <1>7, <1>8, <1>9 DEF Holds
<1> QED BY <1>10 DEF all

\* Nothing is written to the archives while they are read.
LEMMA SameArchives ==
    ASSUME archives' = archives
    PROVE  /\ Sources' = Sources
           /\ \A list, S : Holds(list, S)' <=> Holds(list, S)
           /\ \A key : Naming(key)' = Naming(key)
           /\ Mentioned' = Mentioned
<1>1. \A s : RecordOf(s)' = RecordOf(s)
    BY DEF RecordOf
<1>2. \A a : Recorded(a)' = Recorded(a)
    BY DEF Recorded
<1> QED BY <1>1, <1>2 DEF Sources, Holds, Naming, Mentioned

\* A record stands for its place in the archives.
LEMMA IndexedIs ==
    ASSUME ReadInv, nth <= Len(archives), NEW i \in 1..Len(Opened.entries)
    PROVE  /\ Indexed(i) <=> <<nth, i>> \in Sources
           /\ Mentions(i) = RecordOf(<<nth, i>>)
<1>1. nth \in DOMAIN archives /\ DOMAIN archives[nth].entries = 1..Len(archives[nth].entries)
    BY LibraryIs DEF ReadInv
<1>2. Mentions(i) = RecordOf(<<nth, i>>)
    BY DEF Mentions, RecordOf, Opened
<1>3. i \in Recorded(nth) <=> archives[nth].entries[i].kind = "record"
    BY <1>1 DEF Recorded, Opened
<1>4. <<nth, i>> \in Nat \X Nat /\ <<nth, i>>[1] = nth /\ <<nth, i>>[2] = i
    BY DEF ReadInv
<1> QED BY <1>1, <1>2, <1>3, <1>4 DEF Indexed, Sources, Opened

\* A result is taken after all that come before it.
LEMMA TakesReads ==
    ASSUME ReadInv, Takes
    PROVE  ReadInv'
<1> DEFINE i == taken + 1
           Old == {s \in Sources : s[1] = nth /\ s[2] <= taken}
           New == {s \in Sources : s[1] = nth /\ s[2] <= taken + 1}
           posted == [source |-> <<nth, i>>, affected |-> Mentions(i)]
<1>1. /\ nth \in Nat /\ taken \in Nat /\ Opened.entries \in Seq(Entry)
      /\ Len(Opened.entries) \in Nat /\ DOMAIN Opened.entries = 1..Len(Opened.entries)
      /\ nth \in DOMAIN archives
    <2>1. nth \in DOMAIN archives
        BY LibraryIs DEF Takes, ReadInv
    <2> QED BY <2>1, LibraryIs DEF ReadInv, Opened
<1>2. i \in 1..Len(Opened.entries) /\ Collected[i] = i
    BY <1>1 DEF Takes, Collected
<1>3. out' = IF Indexed(i) THEN Append(out, posted) ELSE out
    BY <1>2 DEF Takes
<1>4. (Indexed(i) <=> <<nth, i>> \in Sources) /\ Mentions(i) = RecordOf(<<nth, i>>)
    BY <1>2, IndexedIs DEF Takes
<1>5. \A s \in New : s \in Old \/ s = <<nth, i>>
    <2> TAKE s \in New
    <2>1. s \in Nat \X Nat /\ s[1] = nth /\ s[2] <= taken + 1 /\ s \in Sources
        BY DEF Sources
    <2>2. CASE s[2] <= taken
        BY <2>1, <2>2
    <2>3. CASE ~(s[2] <= taken)
        <3>1. s[2] = taken + 1
            BY <2>1, <2>3, <1>1
        <3> QED BY <2>1, <3>1
    <2> QED BY <2>2, <2>3
<1>6. Old \subseteq New /\ (<<nth, i>> \in Sources => <<nth, i>> \in New)
    BY <1>1 DEF Sources
<1>7. Old \subseteq Nat \X Nat /\ \A s \in Old : s[1] = nth /\ s[2] < i
    BY <1>1 DEF Sources
<1>8. Holds(out', New)
    <2>1. CASE Indexed(i)
        <3>1. Holds(<<posted>>, {<<nth, i>>})
            <4>1. DOMAIN <<posted>> = {1} /\ <<posted>>[1] = posted /\ <<posted>> \in Seq(Range(<<posted>>))
                BY DEF Range
            <4>2. posted.source = <<nth, i>> /\ posted.affected = RecordOf(<<nth, i>>)
                BY <1>4
            <4> HIDE DEF posted
            <4> QED BY <4>1, <4>2 DEF Holds
        <3>2. \A s \in Old, t \in {<<nth, i>>} : Earlier(s, t)
            BY <1>7 DEF Earlier
        <3>3. {<<nth, i>>} \subseteq Nat \X Nat
            BY <1>1
        <3>4. New = Old \cup {<<nth, i>>}
            BY <1>4, <1>5, <1>6, <2>1
        <3>5. Holds(out, Old)
            BY DEF ReadInv
        <3> HIDE DEF Old, New, posted, i
        <3>6. Holds(out \o <<posted>>, Old \cup {<<nth, i>>})
            BY <1>7, <3>1, <3>2, <3>3, <3>5, HoldsMore
        <3>7. out' = out \o <<posted>>
            <4>1. out \in Seq(Range(out))
                BY <3>5 DEF Holds
            <4> QED BY <1>3, <2>1, <4>1
        <3> QED BY <3>4, <3>6, <3>7
    <2>2. CASE ~Indexed(i)
        <3>1. New = Old
            BY <1>4, <1>5, <1>6, <2>2
        <3> QED BY <1>3, <2>2, <3>1 DEF ReadInv
    <2> QED BY <2>1, <2>2
<1>9. archives' = archives /\ nth' = nth /\ taken' = taken + 1 /\ advisories' = advisories /\ loading' = loading
    BY DEF Takes, building
<1>10. Holds(out', {s \in Sources : s[1] = nth' /\ s[2] <= taken'})
    BY <1>8, <1>9
<1>11. Holds(advisories', {s \in Sources : s[1] < nth'})
    BY <1>9 DEF ReadInv
<1> HIDE DEF New, Old, posted, i
<1> QED BY <1>9, <1>10, <1>11, <1>1, SameArchives DEF ReadInv

\* An archive is read when all its results are taken.
LEMMA ExtendReads ==
    ASSUME ReadInv, Extend
    PROVE  ReadInv'
<1>1. CASE loading' = "failed" /\ UNCHANGED readingArchives
    <2>1. UNCHANGED <<archives, nth, taken, out, advisories>>
        BY <1>1 DEF readingArchives
    <2> QED BY <1>1, <2>1, SameArchives DEF ReadInv
<1>2. CASE /\ taken = Len(Opened.entries)
           /\ advisories' = advisories \o out /\ nth' = nth + 1
           /\ taken' = 0 /\ out' = <<>> /\ archives' = archives /\ loading' = loading
    <2> DEFINE Old == {s \in Sources : s[1] < nth}
               More == {s \in Sources : s[1] = nth /\ s[2] <= taken}
               New == {s \in Sources : s[1] < nth + 1}
    <2>1. nth \in Nat /\ nth \in DOMAIN archives /\ taken \in Nat /\ loading = "archives"
        BY LibraryIs DEF Extend, ReadInv
    <2>2. Recorded(nth) \subseteq 1..taken
        BY <1>2, <2>1, LibraryIs DEF ReadInv, Opened
    <2>3. New = Old \cup More
        <3>1. \A s \in Sources : s \in Nat \X Nat /\ s[2] \in Recorded(s[1])
            BY DEF Sources
        <3>2. \A s \in Sources : s[1] < nth + 1 <=> s[1] < nth \/ s[1] = nth
            BY <2>1, <3>1
        <3>3. \A s \in Sources : s[1] = nth => s[2] <= taken
            BY <2>1, <2>2, <3>1
        <3> QED BY <3>2, <3>3
    <2>4. Old \subseteq Nat \X Nat /\ More \subseteq Nat \X Nat /\ \A s \in Old, t \in More : Earlier(s, t)
        BY DEF Sources, Earlier
    <2>5. Holds(advisories, Old) /\ Holds(out, More)
        BY DEF ReadInv
    <2> HIDE DEF Old, More
    <2>6. Holds(advisories', New)
        BY <1>2, <2>3, <2>4, <2>5, HoldsMore
    <2>7. {s \in Sources : s[1] = nth' /\ s[2] <= taken'} = {}
        <3>1. \A s \in Sources : s[2] \in Nat /\ s[1] \in DOMAIN archives /\ s[2] \in Recorded(s[1])
            BY DEF Sources
        <3>2. \A s \in Sources : s[2] >= 1
            BY <3>1, LibraryIs DEF ReadInv
        <3> QED BY <1>2, <3>1, <3>2
    <2>8. Holds(out', {})
        BY <1>2 DEF Holds
    <2>9. Holds(advisories', {s \in Sources : s[1] < nth'})
        BY <1>2, <2>6
    <2>10. Holds(out', {s \in Sources : s[1] = nth' /\ s[2] <= taken'})
        BY <2>7, <2>8
    <2>11. nth' \in Nat /\ nth' >= 1 /\ taken' \in Nat /\ archives' \in Libraries /\ loading' = "archives"
        BY <1>2, <2>1 DEF ReadInv
    <2>12. Sources' = Sources /\ \A list, S : Holds(list, S)' <=> Holds(list, S)
        BY <1>2, SameArchives
    <2> HIDE DEF New
    <2> QED BY <2>9, <2>10, <2>11, <2>12 DEF ReadInv
<1> QED BY <1>1, <1>2 DEF Extend

\* Reading finds the records of the archives so far.
LEMMA ReadHolds == LoadSpec => []ReadInv
<1>1. LoadInit => ReadInv
    <2> SUFFICES ASSUME LoadInit PROVE ReadInv
        OBVIOUS
    <2>1. archives \in Libraries /\ nth = 1 /\ taken = 0 /\ out = <<>> /\ advisories = <<>> /\ loading = "archives"
        BY DEF LoadInit, Unread
    <2>2. \A s \in Sources : s[1] \in Nat /\ s[1] >= 1 /\ s[2] \in Nat /\ s[2] >= 1
        <3>1. \A s \in Sources : s \in Nat \X Nat /\ s[1] \in DOMAIN archives /\ s[2] \in Recorded(s[1])
            BY DEF Sources
        <3> QED BY <2>1, <3>1, LibraryIs
    <2>3. {s \in Sources : s[1] < nth} = {} /\ {s \in Sources : s[1] = nth /\ s[2] <= taken} = {}
        BY <2>1, <2>2
    <2>4. Holds(<<>>, {})
        BY DEF Holds
    <2>5. Holds(advisories, {s \in Sources : s[1] < nth})
        BY <2>1, <2>3, <2>4
    <2>6. Holds(out, {s \in Sources : s[1] = nth /\ s[2] <= taken})
        BY <2>1, <2>3, <2>4
    <2> QED BY <2>1, <2>5, <2>6 DEF ReadInv
<1>2. ReadInv /\ [LoadNext]_loadVars => ReadInv'
    <2> SUFFICES ASSUME ReadInv, [LoadNext]_loadVars PROVE ReadInv'
        OBVIOUS
    <2>1. CASE Takes
        BY <2>1, TakesReads
    <2>2. CASE Extend
        BY <2>2, ExtendReads
    <2>3. ASSUME UNCHANGED <<archives, nth, taken, out, advisories>>,
                 loading' \in {loading, "slots", "postings", "ready"},
                 loading' # loading => nth > Len(archives) \/ loading \in {"slots", "postings"}
          PROVE  ReadInv'
        BY <2>3, SameArchives DEF ReadInv
    <2>4. CASE Decodes
        BY <2>3, <2>4 DEF Decodes
    <2>5. CASE Counts
        BY <2>3, <2>5 DEF Counts, readingArchives
    <2>6. CASE Lays
        BY <2>3, <2>6 DEF Lays, readingArchives
    <2>7. CASE Places
        BY <2>3, <2>7 DEF Places, readingArchives
    <2>8. CASE Built
        BY <2>3, <2>8 DEF Built, readingArchives
    <2>9. CASE UNCHANGED loadVars
        BY <2>3, <2>9 DEF loadVars, readingArchives
    <2> QED BY <2>1, <2>2, <2>4, <2>5, <2>6, <2>7, <2>8, <2>9 DEF LoadNext
<1> QED BY <1>1, <1>2, PTL DEF LoadSpec

-----------------------------------------------------------------------------
(* The layout: every package has room for its postings, apart from others'. *)

Of(key) == {m \in AllMentions : KeyOf(m) = key}

\* Those that are placed.
Done(key) ==
    {m \in Of(key) : m[1] <= placed \/ (m[1] = placed + 1 /\ m[2] <= mention)}

LaidOut ==
    /\ cursor \in Nat
    /\ DOMAIN slots \subseteq Named
    /\ \A k \in DOMAIN slots :
         /\ slots[k] \in [start : Nat, len : Nat]
         /\ slots[k].start + Count(k) <= cursor
    /\ \A k, l \in DOMAIN slots :
         k # l => \/ slots[k].start + Count(k) <= slots[l].start
                  \/ slots[l].start + Count(l) <= slots[k].start

\* The advisory that a package's p-th posting names.
Posting(k, p) == postings[slots[k].start + p]

\* A package's postings are its mentions so far, in order.
Filled(k) ==
    /\ slots[k].len = Cardinality(Done(k))
    /\ \A p \in 1..slots[k].len : \E m \in Done(k) : Posting(k, p) = m[1]
    /\ \A m \in Done(k) : \E p \in 1..slots[k].len : Posting(k, p) = m[1]
    /\ \A p, q \in 1..slots[k].len : p < q => Posting(k, p) <= Posting(k, q)

BuildInv ==
    /\ loading \in {"archives", "failed"} => slots = <<>> /\ cursor = 0 /\ placed = 0 /\ mention = 0
    /\ loading = "slots" =>
         LaidOut /\ placed = 0 /\ mention = 0 /\ \A k \in DOMAIN slots : slots[k].len = 0
    /\ loading \in {"postings", "ready"} =>
         /\ LaidOut /\ DOMAIN slots = Named
         /\ postings \in [1..cursor -> Nat]
         /\ placed \in 0..Len(advisories) /\ mention \in Nat
         /\ \A k \in Named : Filled(k)
    /\ loading = "ready" => placed = Len(advisories)

\* Mentions are finitely many, and are pairs of positive numbers.
LEMMA MentionsAre ==
    ASSUME ReadInv
    PROVE  /\ IsFiniteSet(AllMentions)
           /\ Len(advisories) \in Nat /\ DOMAIN advisories = 1..Len(advisories)
           /\ \A m \in AllMentions :
                /\ m[1] \in 1..Len(advisories) /\ m[2] \in Nat /\ m[2] >= 1 /\ m = <<m[1], m[2]>>
                /\ m[2] \in DOMAIN advisories[m[1]].affected
           /\ \A i \in DOMAIN advisories : \A j \in DOMAIN advisories[i].affected :
                <<i, j>> \in AllMentions /\ j \in Nat /\ j >= 1
<1> DEFINE n == Len(advisories)
           Row(i) == {i} \X DOMAIN advisories[i].affected
           rows == [i \in 1..n |-> Row(i)]
           Rows == {Row(i) : i \in 1..n}
<1>1. n \in Nat /\ DOMAIN advisories = 1..n
    BY DEF ReadInv, Holds
<1>2. ASSUME NEW i \in 1..n
      PROVE  /\ IsFiniteSet(DOMAIN advisories[i].affected)
             /\ \A j \in DOMAIN advisories[i].affected : j \in Nat /\ j >= 1
    <2> DEFINE s == advisories[i].source
               record == archives[s[1]].entries[s[2]].record
    <2>1. s \in Sources /\ advisories[i].affected = RecordOf(s)
        BY <1>1 DEF ReadInv, Holds
    <2>2. record \in Record
        BY <2>1, LibraryIs DEF Sources, ReadInv
    <2>3. record.affected \in Seq(Packages)
        BY <2>2 DEF Record
    <2>4. Len(record.affected) \in Nat /\ DOMAIN record.affected = 1..Len(record.affected)
        <3> HIDE DEF record
        <3> QED BY <2>3
    <2>5. DOMAIN RecordOf(s) \subseteq 1..Len(record.affected)
        BY <2>4 DEF RecordOf, Kept, Restrict
    <2> HIDE DEF record, s
    <2>6. IsFiniteSet(1..Len(record.affected))
        BY <2>4, FS_Interval
    <2>7. IsFiniteSet(DOMAIN RecordOf(s))
        BY <2>5, <2>6, FS_Subset
    <2> QED BY <2>1, <2>4, <2>5, <2>7
<1>3. AllMentions = UNION Rows
    BY <1>1 DEF AllMentions
<1>4. IsFiniteSet(AllMentions)
    <2>1. rows \in Surjection(1..n, Rows)
        BY DEF Surjection
    <2>2. IsFiniteSet(1..n)
        BY <1>1, FS_Interval
    <2>3. IsFiniteSet(Rows)
        <3> HIDE DEF rows, Rows
        <3> QED BY <2>1, <2>2, FS_Surjection
    <2>4. \A i \in 1..n : IsFiniteSet(Row(i))
        <3> TAKE i \in 1..n
        <3>1. IsFiniteSet({i})
            <4>1. IsFiniteSet({} \cup {i})
                BY FS_EmptySet, FS_AddElement
            <4> QED BY <4>1
        <3> QED BY <1>2, <3>1, FS_Product
    <2>5. \A T \in Rows : IsFiniteSet(T)
        BY <2>4
    <2> HIDE DEF Rows
    <2> QED BY <1>3, <2>3, <2>5, FS_UNION
<1>5. ASSUME NEW m \in AllMentions
      PROVE  /\ m[1] \in 1..n /\ m[2] \in Nat /\ m[2] >= 1 /\ m = <<m[1], m[2]>>
             /\ m[2] \in DOMAIN advisories[m[1]].affected
    <2>1. PICK i \in 1..n : m \in {i} \X DOMAIN advisories[i].affected
        BY <1>3
    <2> QED BY <1>2, <2>1
<1>6. ASSUME NEW i \in 1..n, NEW j \in DOMAIN advisories[i].affected
      PROVE  <<i, j>> \in AllMentions
    BY <1>3
<1> QED BY <1>1, <1>2, <1>4, <1>5, <1>6

\* What is counted is a number, and no package has more placed than counted.
LEMMA CountIs ==
    ASSUME ReadInv, NEW key
    PROVE  /\ IsFiniteSet(Of(key)) /\ Count(key) \in Nat /\ Count(key) = Cardinality(Of(key))
           /\ Done(key) \subseteq Of(key)
           /\ \A S \in SUBSET Of(key) : IsFiniteSet(S) /\ Cardinality(S) \in Nat /\ Cardinality(S) <= Count(key)
<1>1. IsFiniteSet(Of(key))
    BY MentionsAre, FS_Subset DEF Of
<1>2. Count(key) = Cardinality(Of(key)) /\ Cardinality(Of(key)) \in Nat
    BY <1>1, FS_CardinalityType DEF Count, Of
<1>3. \A S \in SUBSET Of(key) : IsFiniteSet(S) /\ Cardinality(S) \in Nat /\ Cardinality(S) <= Cardinality(Of(key))
    BY <1>1, FS_Subset, FS_CardinalityType
<1> QED BY <1>1, <1>2, <1>3 DEF Done

\* Building leaves the advisories as they were read.
LEMMA SameAdvisories ==
    ASSUME advisories' = advisories
    PROVE  /\ AllMentions' = AllMentions /\ Named' = Named
           /\ \A m : KeyOf(m)' = KeyOf(m)
           /\ \A k : Of(k)' = Of(k) /\ Count(k)' = Count(k)
<1>1. AllMentions' = AllMentions
    BY DEF AllMentions
<1>2. \A m : KeyOf(m)' = KeyOf(m)
    BY DEF KeyOf
<1> QED BY <1>1, <1>2 DEF Named, Of, Count

\* A step that changes none of what the layout is made of keeps it.
LEMMA SameLayout ==
    ASSUME UNCHANGED <<advisories, slots, cursor, postings, placed, mention>>
    PROVE  /\ LaidOut' <=> LaidOut
           /\ \A k : Filled(k)' <=> Filled(k)
           /\ Named' = Named
<1>1. \A k : Done(k)' = Done(k)
    BY SameAdvisories DEF Done
<1>2. \A k, p : Posting(k, p)' = Posting(k, p)
    BY DEF Posting
<1>3. \A k : Filled(k)' <=> Filled(k)
    BY <1>1, <1>2 DEF Filled
<1> QED BY <1>3, SameAdvisories DEF LaidOut

\* A package is laid out after those that are.
LEMMA LaysBuilds ==
    ASSUME ReadInv, BuildInv, Lays
    PROVE  BuildInv'
<1>0. /\ LaidOut /\ placed = 0 /\ mention = 0 /\ \A k \in DOMAIN slots : slots[k].len = 0
      /\ loading = "slots" /\ advisories' = advisories /\ placed' = 0 /\ mention' = 0
    BY DEF BuildInv, Lays, readingArchives
<1>1. ASSUME NEW key \in Named \ DOMAIN slots,
             slots' = [k \in DOMAIN slots \cup {key} |->
                         IF k = key THEN [start |-> cursor, len |-> 0] ELSE slots[k]],
             cursor' = cursor + Count(key), loading' = loading
      PROVE  BuildInv'
    <2>1. Count(key) \in Nat /\ cursor \in Nat /\ Named' = Named /\ \A k : Count(k)' = Count(k)
        BY <1>0, CountIs, SameAdvisories DEF LaidOut
    <2>2. /\ DOMAIN slots' = DOMAIN slots \cup {key} /\ slots'[key] = [start |-> cursor, len |-> 0]
          /\ \A k \in DOMAIN slots : k # key /\ slots'[k] = slots[k]
        BY <1>1
    <2>3. slots'[key].start = cursor /\ slots'[key].len = 0 /\ slots'[key] \in [start : Nat, len : Nat]
        BY <2>1, <2>2
    <2>4. \A k \in DOMAIN slots' : k = key \/ (k \in DOMAIN slots /\ slots'[k] = slots[k])
        BY <2>2
    <2>5. \A k \in DOMAIN slots' : slots'[k] \in [start : Nat, len : Nat] /\ slots'[k].len = 0
        BY <1>0, <2>3, <2>4 DEF LaidOut
    <2>6. \A k \in DOMAIN slots : slots[k].start \in Nat /\ Count(k) \in Nat /\ slots[k].start + Count(k) <= cursor
        BY <1>0, CountIs DEF LaidOut
    <2>7. \A k \in DOMAIN slots' : slots'[k].start + Count(k) <= cursor'
        <3> TAKE k \in DOMAIN slots'
        <3>1. CASE k = key
            BY <1>1, <2>1, <2>3, <3>1
        <3>2. CASE k \in DOMAIN slots /\ slots'[k] = slots[k]
            BY <1>1, <2>1, <2>6, <3>2
        <3> QED BY <2>4, <3>1, <3>2
    <2>8. ASSUME NEW k \in DOMAIN slots', NEW l \in DOMAIN slots', k # l
          PROVE  \/ slots'[k].start + Count(k) <= slots'[l].start
                 \/ slots'[l].start + Count(l) <= slots'[k].start
        <3>1. CASE k = key
            BY <2>3, <2>4, <2>6, <2>8, <3>1
        <3>2. CASE l = key
            BY <2>3, <2>4, <2>6, <2>8, <3>2
        <3>3. CASE k # key /\ l # key
            BY <1>0, <2>4, <2>8, <3>3 DEF LaidOut
        <3> QED BY <3>1, <3>2, <3>3
    <2>9. cursor' \in Nat /\ DOMAIN slots' \subseteq Named
        BY <1>0, <1>1, <2>1, <2>2 DEF LaidOut
    <2>10. LaidOut'
        BY <2>1, <2>5, <2>7, <2>8, <2>9 DEF LaidOut
    <2> QED BY <1>0, <1>1, <2>5, <2>10 DEF BuildInv
<1>2. ASSUME Named = DOMAIN slots, postings' = [p \in 1..cursor |-> 1], loading' = "postings",
             UNCHANGED <<slots, cursor>>
      PROVE  BuildInv'
    <2>1. LaidOut'
        BY <1>0, <1>2, SameAdvisories DEF LaidOut
    <2>2. postings' \in [1..cursor' -> Nat] /\ Named' = DOMAIN slots'
        BY <1>0, <1>2, SameAdvisories
    <2>3. Len(advisories') \in Nat /\ placed' \in 0..Len(advisories')
        BY <1>0, MentionsAre
    <2>4. ASSUME NEW k \in Named
          PROVE  Filled(k)'
        <3>1. Of(k)' = Of(k) /\ \A m \in Of(k) : m[1] \in Nat /\ m[1] >= 1 /\ m[2] \in Nat /\ m[2] >= 1
            BY <1>0, SameAdvisories, MentionsAre DEF Of
        <3>2. Done(k)' = {}
            BY <1>0, <3>1 DEF Done
        <3>3. slots'[k].len = 0
            BY <1>0, <1>2
        <3>4. Cardinality({}) = 0
            BY FS_EmptySet
        <3>5. slots'[k].len = Cardinality(Done(k)')
            BY <3>2, <3>3, <3>4
        <3>6. \A p \in 1..slots'[k].len : FALSE
            BY <3>3
        <3> QED BY <3>2, <3>5, <3>6 DEF Filled
    <2>5. mention' \in Nat
        BY <1>0
    <2>6. Named' = Named
        BY <1>0, SameAdvisories
    <2> QED BY <1>2, <2>1, <2>2, <2>3, <2>4, <2>5, <2>6 DEF BuildInv
<1> QED BY <1>1, <1>2 DEF Lays

\* A mention goes where its package's postings end, and disturbs no other's.
LEMMA PlacesBuilds ==
    ASSUME ReadInv, BuildInv, Places
    PROVE  BuildInv'
<1> DEFINE n == Len(advisories)
<1>0. /\ LaidOut /\ DOMAIN slots = Named /\ postings \in [1..cursor -> Nat]
      /\ placed \in 0..n /\ mention \in Nat /\ \A k \in Named : Filled(k)
      /\ loading = "postings" /\ loading' = "postings" /\ placed < n
      /\ advisories' = advisories /\ cursor' = cursor
    BY DEF BuildInv, Places, readingArchives
<1>1. n \in Nat /\ DOMAIN advisories = 1..n /\ placed \in Nat /\ placed + 1 \in 1..n
    BY <1>0, MentionsAre
<1>2. /\ Named' = Named /\ \A k : Of(k)' = Of(k) /\ Count(k)' = Count(k)
      /\ \A m : KeyOf(m)' = KeyOf(m)
    BY <1>0, SameAdvisories
<1>3. \A k : \A m \in Of(k) : /\ m \in AllMentions /\ KeyOf(m) = k /\ m[1] \in Nat /\ m[2] \in Nat
                              /\ m[2] >= 1 /\ m = <<m[1], m[2]>>
                              /\ m[2] \in DOMAIN advisories[m[1]].affected
    BY <1>1, MentionsAre DEF Of
<1>4. ASSUME Unplaced = {}, placed' = placed + 1, mention' = 0, UNCHANGED <<slots, postings>>
      PROVE  BuildInv'
    <2>1. ASSUME NEW k
          PROVE  Done(k)' = Done(k)
        <3>1. \A m \in Of(k) : m[1] = placed + 1 => m[2] <= mention
            BY <1>0, <1>3, <1>4 DEF Unplaced
        <3>2. \A m \in Of(k) : (m[1] <= placed + 1 \/ (m[1] = placed + 1 + 1 /\ m[2] <= 0))
                                 <=> (m[1] <= placed \/ (m[1] = placed + 1 /\ m[2] <= mention))
            BY <1>1, <1>3, <3>1
        <3> QED BY <1>2, <1>4, <3>2 DEF Done
    <2>2. \A k : Filled(k)' <=> Filled(k)
        BY <1>4, <2>1 DEF Filled, Posting
    <2>3. LaidOut'
        BY <1>0, <1>2, <1>4 DEF LaidOut
    <2>4. placed' \in 0..Len(advisories') /\ mention' \in Nat
        BY <1>0, <1>1, <1>4
    <2> QED BY <1>0, <1>2, <1>4, <2>2, <2>3, <2>4 DEF BuildInv
<1>5. ASSUME NEW m \in Unplaced, \A later \in Unplaced : m <= later,
             NEW key, key = KeyOf(<<placed + 1, m>>),
             postings' = [postings EXCEPT ![slots[key].start + slots[key].len + 1] = placed + 1],
             slots' = [slots EXCEPT ![key].len = @ + 1], mention' = m, placed' = placed
      PROVE  BuildInv'
    <2> DEFINE here == <<placed + 1, m>>
    <2>1. /\ here \in AllMentions /\ m \in Nat /\ m >= 1 /\ m > mention
          /\ key \in Named /\ here \in Of(key)
        BY <1>1, <1>5, MentionsAre DEF Unplaced, Named, Of
    <2>2. here[1] = placed + 1 /\ here[2] = m
        OBVIOUS
    <2>3. \A k \in Named : slots[k] \in [start : Nat, len : Nat]
        BY <1>0 DEF LaidOut
    <2>4. \A k \in Named : slots[k].start \in Nat /\ slots[k].len \in Nat
        BY <2>3
    <2> PICK old \in Nat : old = slots[key].len
        BY <2>1, <2>4
    <2> PICK end \in Nat : end = slots[key].start + old + 1
        BY <2>1, <2>4
    <2>5. /\ DOMAIN slots' = Named
          /\ slots'[key].start = slots[key].start /\ slots'[key].len = old + 1
          /\ slots'[key] \in [start : Nat, len : Nat]
          /\ \A k \in Named : k # key => slots'[k] = slots[k]
        <3>1. slots' = [slots EXCEPT ![key].len = @ + 1]
            BY <1>5
        <3>2. slots'[key] = [slots[key] EXCEPT !.len = @ + 1] /\ DOMAIN slots' = Named
              /\ \A k \in Named : k # key => slots'[k] = slots[k]
            BY <1>0, <2>1, <3>1
        <3>3. slots[key] \in [start : Nat, len : Nat]
            BY <2>1, <2>3
        <3> QED BY <3>2, <3>3
    <2>6. \A k \in Named : slots'[k].start = slots[k].start /\ slots'[k] \in [start : Nat, len : Nat]
        BY <2>3, <2>5
    <2>7. LaidOut'
        BY <1>0, <1>2, <2>5, <2>6 DEF LaidOut
    <2>8. Done(key)' = Done(key) \cup {here} /\ here \notin Done(key)
        <3>1. \A x \in Of(key) : x[1] = placed + 1 => x[2] <= mention \/ (x[2] > mention /\ x[2] >= m)
            BY <1>0, <1>3, <1>5 DEF Unplaced
        <3>2. \A x \in Of(key) : (x[1] <= placed \/ (x[1] = placed + 1 /\ x[2] <= m))
                                   <=> (x[1] <= placed \/ (x[1] = placed + 1 /\ x[2] <= mention) \/ x = here)
            <4> TAKE x \in Of(key)
            <4>1. x[1] \in Nat /\ x[2] \in Nat /\ x = <<x[1], x[2]>>
                BY <1>3
            <4>2. x[1] = placed + 1 /\ x[2] = m <=> x = here
                BY <4>1
            <4>3. x[1] = placed + 1 => (x[2] <= m <=> x[2] <= mention \/ x[2] = m)
                BY <1>0, <2>1, <3>1, <4>1
            <4> HIDE DEF here
            <4> QED BY <4>2, <4>3
        <3>3. Done(key)' = {x \in Of(key) : x[1] <= placed \/ (x[1] = placed + 1 /\ x[2] <= m)}
            BY <1>2, <1>5 DEF Done
        <3> QED BY <1>0, <1>1, <2>1, <2>2, <3>2, <3>3 DEF Done
    <2>9. ASSUME NEW k \in Named, k # key
          PROVE  Done(k)' = Done(k)
        <3>1. \A x \in Of(k) : x # here
            BY <1>3, <1>5, <2>9
        <3>2. \A x \in Of(k) : x[1] = placed + 1 => x[2] <= mention \/ (x[2] > mention /\ x[2] >= m)
            BY <1>0, <1>3, <1>5 DEF Unplaced
        <3>3. \A x \in Of(k) : (x[1] <= placed \/ (x[1] = placed + 1 /\ x[2] <= m))
                                 <=> (x[1] <= placed \/ (x[1] = placed + 1 /\ x[2] <= mention))
            <4> TAKE x \in Of(k)
            <4>1. x[1] \in Nat /\ x[2] \in Nat /\ x = <<x[1], x[2]>> /\ x # here
                BY <1>3, <3>1
            <4>2. ~(x[1] = placed + 1 /\ x[2] = m)
                BY <4>1
            <4> HIDE DEF here
            <4> QED BY <1>0, <1>1, <2>1, <3>2, <4>1, <4>2
        <3> QED BY <1>2, <1>5, <3>3 DEF Done
    <2>10. /\ old = Cardinality(Done(key)) /\ old \in Nat /\ Count(key) \in Nat
           /\ Cardinality(Done(key)') = old + 1 /\ old + 1 <= Count(key)
        <3>1. old = Cardinality(Done(key)) /\ IsFiniteSet(Done(key))
            BY <1>0, <2>1, CountIs DEF Filled
        <3>2. Cardinality(Done(key) \cup {here}) = old + 1
            <4> HIDE DEF here
            <4> QED BY <2>8, <3>1, FS_AddElement
        <3>3. Done(key)' \subseteq Of(key)
            BY <2>1, <2>8, CountIs
        <3>4. Cardinality(Done(key)') <= Count(key)
            BY <3>3, CountIs
        <3>5. Count(key) \in Nat /\ old \in Nat
            BY <2>1, <2>4, CountIs
        <3> HIDE DEF here
        <3> QED BY <2>8, <3>1, <3>2, <3>4, <3>5
    <2>11. cursor \in Nat /\ \A k \in Named : slots[k].start + Count(k) <= cursor
        BY <1>0 DEF LaidOut
    <2>12. end \in 1..cursor
        <3>1. slots[key].start + Count(key) <= cursor /\ slots[key].start \in Nat
            BY <2>1, <2>4, <2>11
        <3> QED BY <2>10, <2>11, <3>1
    <2>13. /\ postings' \in [1..cursor -> Nat] /\ postings'[end] = placed + 1
           /\ \A p \in 1..cursor : p # end => postings'[p] = postings[p]
        <3>1. postings' = [postings EXCEPT ![end] = placed + 1]
            BY <1>5
        <3> QED BY <1>0, <1>1, <2>12, <3>1
    <2>14. ASSUME NEW k \in Named, NEW p \in 1..slots[k].len
           PROVE  Posting(k, p)' = Posting(k, p)
        <3>1. slots[k].len <= Count(k) /\ Count(k) \in Nat
            BY <1>0, CountIs DEF Filled
        <3>2. slots[k].start + p \in 1..cursor
            <4>1. slots[k].start + Count(k) <= cursor /\ slots[k].start \in Nat /\ slots[k].len \in Nat
                BY <2>4, <2>11
            <4> QED BY <2>11, <3>1, <4>1
        <3>3. slots[k].start + p # end
            <4>1. CASE k = key
                BY <2>4, <4>1
            <4>2. CASE k # key
                <5>1. \/ slots[k].start + Count(k) <= slots[key].start
                      \/ slots[key].start + Count(key) <= slots[k].start
                    BY <1>0, <2>1, <4>2 DEF LaidOut
                <5> QED BY <2>1, <2>4, <2>10, <3>1, <5>1
            <4> QED BY <4>1, <4>2
        <3>4. postings'[slots[k].start + p] = postings[slots[k].start + p]
            BY <2>13, <3>2, <3>3
        <3> QED BY <2>6, <3>4 DEF Posting
    <2>15. ASSUME NEW k \in Named, k # key
           PROVE  Filled(k)'
        <3>1. slots'[k].len = slots[k].len /\ Done(k)' = Done(k)
            BY <2>5, <2>9, <2>15
        <3>2. Filled(k)
            BY <1>0
        <3> QED BY <2>14, <3>1, <3>2 DEF Filled
    <2>16. Filled(key)'
        <3>1. Filled(key) /\ slots'[key].len = old + 1 /\ old \in Nat
            BY <1>0, <2>1, <2>5, <2>10
        <3>2. Posting(key, old + 1)' = placed + 1
            <4>1. slots[key].start + (old + 1) = end
                BY <2>1, <2>4
            <4> QED BY <2>1, <2>6, <2>13, <4>1 DEF Posting
        <3>3. \A p \in 1..old : Posting(key, p)' = Posting(key, p)
            BY <2>1, <2>14
        <3>4. \A p \in 1..old + 1 : p \in 1..old \/ p = old + 1
            BY <3>1
        <3>5. \A p \in 1..old : p \in 1..old + 1
            BY <3>1
        <3>6. old + 1 \in 1..old + 1
            BY <3>1
        <3>7. \A p \in 1..old : Posting(key, p) \in Nat /\ Posting(key, p) <= placed + 1
            <4> TAKE p \in 1..old
            <4>1. PICK x \in Done(key) : Posting(key, p) = x[1]
                BY <3>1 DEF Filled
            <4>2. x \in Of(key) /\ (x[1] <= placed \/ x[1] = placed + 1)
                BY <4>1 DEF Done
            <4> QED BY <1>1, <1>3, <4>1, <4>2
        <3>8. \A p \in 1..old + 1 : \E x \in Done(key)' : Posting(key, p)' = x[1]
            <4> TAKE p \in 1..old + 1
            <4>1. CASE p \in 1..old
                BY <2>8, <3>1, <3>3, <4>1 DEF Filled
            <4>2. CASE p = old + 1
                BY <2>2, <2>8, <3>2, <4>2
            <4> QED BY <3>4, <4>1, <4>2
        <3>9. \A x \in Done(key)' : \E p \in 1..old + 1 : Posting(key, p)' = x[1]
            <4> TAKE x \in Done(key)'
            <4>1. CASE x \in Done(key)
                <5>1. PICK p \in 1..old : Posting(key, p) = x[1]
                    BY <3>1, <4>1 DEF Filled
                <5> QED BY <3>3, <3>5, <5>1
            <4>2. CASE x = here
                BY <2>2, <3>2, <3>6, <4>2
            <4> QED BY <2>8, <4>1, <4>2
        <3>10. \A p, q \in 1..old + 1 : p < q => Posting(key, p)' <= Posting(key, q)'
            <4> SUFFICES ASSUME NEW p \in 1..old + 1, NEW q \in 1..old + 1, p < q
                         PROVE  Posting(key, p)' <= Posting(key, q)'
                OBVIOUS
            <4>1. p \in 1..old
                BY <3>1
            <4>2. CASE q \in 1..old
                BY <3>1, <3>3, <4>1, <4>2 DEF Filled
            <4>3. CASE q = old + 1
                BY <3>2, <3>3, <3>7, <4>1, <4>3
            <4> QED BY <3>4, <4>2, <4>3
        <3> QED BY <2>8, <2>10, <3>1, <3>8, <3>9, <3>10 DEF Filled
    <2> QED BY <1>0, <1>1, <1>2, <1>5, <2>1, <2>5, <2>7, <2>13, <2>15, <2>16 DEF BuildInv
<1> QED BY <1>4, <1>5 DEF Places

\* The index is laid out and filled as BuildInv says.
LEMMA BuildHolds == LoadSpec => [](ReadInv /\ BuildInv)
<1>1. LoadInit => BuildInv
    BY DEF LoadInit, Unread, BuildInv
<1>2. ReadInv /\ BuildInv /\ [LoadNext]_loadVars => BuildInv'
    <2> SUFFICES ASSUME ReadInv, BuildInv, [LoadNext]_loadVars PROVE BuildInv'
        OBVIOUS
    <2>1. CASE Lays
        BY <2>1, LaysBuilds
    <2>2. CASE Places
        BY <2>2, PlacesBuilds
    <2>3. ASSUME loading = "archives", loading' \in {"archives", "failed"}, UNCHANGED building
          PROVE  BuildInv'
        BY <2>3 DEF BuildInv, building
    <2>4. CASE Decodes
        BY <2>3, <2>4 DEF Decodes
    <2>5. CASE Takes
        BY <2>3, <2>5 DEF Takes
    <2>6. CASE Extend
        BY <2>3, <2>6 DEF Extend
    <2>7. CASE Counts
        <3>1. /\ loading' = "slots" /\ slots' = <<>> /\ cursor' = 0 /\ placed' = 0 /\ mention' = 0
            BY <2>7 DEF Counts, building, BuildInv
        <3>2. DOMAIN slots' = {}
            BY <3>1
        <3> QED BY <3>1, <3>2 DEF BuildInv, LaidOut
    <2>8. ASSUME UNCHANGED <<advisories, slots, cursor, postings, placed, mention>>,
                 loading' = loading \/ (loading = "postings" /\ loading' = "ready" /\ placed = Len(advisories))
          PROVE  BuildInv'
        BY <2>8, SameLayout DEF BuildInv
    <2>9. CASE Built
        BY <2>8, <2>9 DEF Built, readingArchives, building
    <2>10. CASE UNCHANGED loadVars
        BY <2>8, <2>10 DEF loadVars, readingArchives, building
    <2> QED BY <2>1, <2>2, <2>4, <2>5, <2>6, <2>7, <2>9, <2>10 DEF LoadNext
<1> QED BY <1>1, <1>2, ReadHolds, PTL DEF LoadSpec

\* The records that name a package are among those that are kept.
LEMMA NamingIs ==
    ASSUME archives \in Libraries, NEW key
    PROVE  Naming(key) = {s \in Sources : key \in Range(RecordOf(s))}
<1>1. ASSUME NEW s \in Naming(key)
      PROVE  s \in Sources /\ key \in Range(RecordOf(s))
    <2>0. PICK a \in DOMAIN archives : \E i \in Recorded(a) :
            s = <<a, i>> /\ key \in Range(Kept(archives[a].entries[i].record, archives[a].ecosystem))
        BY <1>1 DEF Naming
    <2>1. PICK i \in Recorded(a) :
            s = <<a, i>> /\ key \in Range(Kept(archives[a].entries[i].record, archives[a].ecosystem))
        BY <2>0
    <2>2. s[1] = a /\ s[2] = i /\ s \in Nat \X Nat
        BY <2>1, LibraryIs
    <2>3. key \in Range(RecordOf(s))
        BY <2>1, <2>2 DEF RecordOf
    <2> QED BY <2>1, <2>2, <2>3 DEF Sources, Range
<1>2. ASSUME NEW s \in Sources, key \in Range(RecordOf(s))
      PROVE  s \in Naming(key)
    <2>1. s = <<s[1], s[2]>> /\ s[1] \in DOMAIN archives /\ s[2] \in Recorded(s[1])
        BY DEF Sources
    <2> QED BY <1>2, <2>1 DEF Naming, RecordOf
<1> QED BY <1>1, <1>2

\* Whatever archives are read, in whichever order their entries are decoded and
\* their packages laid out, a lookup finds every advisory that names its package,
\* no other and none that is withdrawn, in archive order (index.rs, lookup).
THEOREM LookupsAreExact == LoadSpec => []LookupExact
<1>1. ReadInv /\ BuildInv => LookupExact
    <2> SUFFICES ASSUME ReadInv, BuildInv, loading = "ready", NEW key \in Mentioned
                 PROVE  LET found == Posted(key) IN
                        /\ Range(found) = Naming(key)
                        /\ \A p, q \in DOMAIN found : p < q => ArchiveOrder(found[p], found[q])
        BY DEF LookupExact
    <2> DEFINE found == Posted(key)
               n == Len(advisories)
    <2>1. /\ LaidOut /\ DOMAIN slots = Named /\ \A k \in Named : Filled(k)
          /\ placed = n /\ n \in Nat /\ DOMAIN advisories = 1..n
        BY MentionsAre DEF BuildInv
    <2>2. {s \in Sources : s[1] < nth} = Sources
        <3>1. \A s \in Sources : s[1] \in 1..Len(archives)
            BY LibraryIs DEF Sources, ReadInv
        <3>2. nth \in Nat /\ Len(archives) \in Nat /\ nth > Len(archives)
            BY LibraryIs DEF ReadInv
        <3> QED BY <3>1, <3>2
    <2>3. Holds(advisories, Sources)
        BY <2>2 DEF ReadInv
    <2>4. Naming(key) = {s \in Sources : key \in Range(RecordOf(s))}
        BY NamingIs DEF ReadInv
    <2>5. \A s \in Naming(key) : \E i \in 1..n : advisories[i].source = s
                                   /\ \E j \in DOMAIN advisories[i].affected : <<i, j>> \in Of(key)
        <3> TAKE s \in Naming(key)
        <3>1. PICK i \in 1..n : advisories[i].source = s
            BY <2>1, <2>3, <2>4 DEF Holds
        <3>2. advisories[i].affected = RecordOf(s)
            BY <2>1, <2>3, <3>1 DEF Holds
        <3>3. PICK j \in DOMAIN advisories[i].affected : advisories[i].affected[j] = key
            BY <2>4, <3>2 DEF Range
        <3>4. <<i, j>> \in AllMentions /\ <<i, j>>[1] = i /\ <<i, j>>[2] = j
            BY <2>1, MentionsAre
        <3> QED BY <3>1, <3>3, <3>4 DEF Of, KeyOf
    <2>6. \A m \in Of(key) : m[1] \in 1..n /\ advisories[m[1]].source \in Naming(key)
        <3> TAKE m \in Of(key)
        <3>1. m \in AllMentions /\ KeyOf(m) = key
            BY DEF Of
        <3>2. m[1] \in 1..n /\ m[2] \in DOMAIN advisories[m[1]].affected
            BY <3>1, MentionsAre
        <3>3. advisories[m[1]].source \in Sources
              /\ advisories[m[1]].affected = RecordOf(advisories[m[1]].source)
            BY <2>1, <2>3, <3>2 DEF Holds
        <3>4. key \in Range(RecordOf(advisories[m[1]].source))
            BY <3>1, <3>2, <3>3 DEF KeyOf, Range
        <3> QED BY <2>4, <3>2, <3>3, <3>4
    <2>7. CASE key \notin Named
        <3>1. Of(key) = {}
            BY <2>7 DEF Of, Named
        <3>2. Naming(key) = {} /\ found = <<>>
            BY <2>1, <2>5, <2>7, <3>1 DEF Posted
        <3>3. DOMAIN found = {} /\ Range(found) = {}
            BY <3>2 DEF Range
        <3> QED BY <3>2, <3>3
    <2>8. CASE key \in Named
        <3> DEFINE len == slots[key].len
        <3>1. found = [p \in 1..len |-> advisories[Posting(key, p)].source] /\ Filled(key)
            BY <2>1, <2>8 DEF Posted, Posting
        <3>2. DOMAIN found = 1..len /\ \A p \in 1..len : found[p] = advisories[Posting(key, p)].source
            BY <3>1
        <3>3. Done(key) = Of(key)
            <4>1. \A m \in Of(key) : m[1] <= placed
                BY <2>1, <2>6
            <4> QED BY <4>1 DEF Done
        <3> HIDE DEF found, len
        <3>4. \A p \in 1..len : Posting(key, p) \in 1..n /\ found[p] \in Naming(key)
            <4> TAKE p \in 1..len
            <4>1. PICK m \in Of(key) : Posting(key, p) = m[1]
                BY <3>1, <3>3 DEF Filled, len
            <4> QED BY <2>6, <3>2, <4>1
        <3>5. \A s \in Naming(key) : \E p \in 1..len : found[p] = s
            <4> TAKE s \in Naming(key)
            <4>1. PICK i \in 1..n : /\ advisories[i].source = s
                                   /\ \E j \in DOMAIN advisories[i].affected : <<i, j>> \in Of(key)
                BY <2>5
            <4>2. PICK j \in DOMAIN advisories[i].affected : <<i, j>> \in Of(key)
                BY <4>1
            <4>3. PICK p \in 1..len : Posting(key, p) = <<i, j>>[1]
                BY <3>1, <3>3, <4>2 DEF Filled, len
            <4> QED BY <3>2, <4>1, <4>3
        <3>6. Range(found) = Naming(key)
            BY <3>2, <3>4, <3>5 DEF Range
        <3>7. ASSUME NEW p \in 1..len, NEW q \in 1..len, p < q
              PROVE  ArchiveOrder(found[p], found[q])
            <4> DEFINE i == Posting(key, p)  j == Posting(key, q)
            <4>1. i \in 1..n /\ j \in 1..n /\ i <= j
                BY <3>1, <3>4, <3>7 DEF Filled, len
            <4>2. /\ advisories[i].source \in Sources /\ advisories[j].source \in Sources
                  /\ i < j => Earlier(advisories[i].source, advisories[j].source)
                BY <2>1, <2>3, <4>1 DEF Holds
            <4>3. /\ advisories[i].source \in Nat \X Nat /\ advisories[j].source \in Nat \X Nat
                BY <4>2 DEF Sources
            <4>4. found[p] = advisories[i].source /\ found[q] = advisories[j].source
                BY <3>2
            <4> HIDE DEF i, j
            <4>5. CASE i < j
                BY <4>2, <4>3, <4>4, <4>5, EarlierIs
            <4>6. CASE i = j
                BY <4>3, <4>4, <4>6 DEF ArchiveOrder
            <4> QED BY <4>1, <4>5, <4>6
        <3> QED BY <3>2, <3>6, <3>7 DEF found
    <2> QED BY <2>7, <2>8
<1> QED BY <1>1, BuildHolds, PTL
=============================================================================
