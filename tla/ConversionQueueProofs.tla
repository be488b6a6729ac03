------------------------ MODULE ConversionQueueProofs ------------------------
(***************************************************************************)
(* The rendition queue for any number of versions, contents and workers    *)
(* and any limit on attempts: what stale workers, lost leases and purges   *)
(* cannot do.                                                              *)
(***************************************************************************)
EXTENDS ConversionQueue, TLAPS

VersionRow == [state : {"unborn", "row", "purged"}, hash : Hashes \cup {NoHash},
               trashed : BOOLEAN]

JobRow == [state : {"none", "PENDING", "RUNNING", "COMPLETED", "FAILED"},
           attempt : 0..MaxAttempts, leased : BOOLEAN]

PassOf == [pc : {"idle", "convert", "upload", "complete", "fail", "refuse"},
           job : Versions \cup {NoVersion}, attempt : 0..MaxAttempts,
           hash : Hashes \cup {NoHash}]

Busy(w) == worker[w].pc # "idle"

\* A job has a version: a purge takes both, and no version comes back.
JobHasVersion ==
  \A v \in Versions : /\ job[v].state # "none" => version[v].state = "row"
                      /\ version[v].state = "row" => version[v].hash \in Hashes

\* A worker's job is there, unless its version was purged meanwhile.
PassHasJob ==
  \A w \in Workers : Busy(w) =>
    job[worker[w].job].state # "none" \/ version[worker[w].job].state = "purged"

\* A worker's attempt is one the job has reached, of the job's own content.
AttemptReached ==
  \A w \in Workers : (Busy(w) /\ job[worker[w].job].state # "none") =>
    /\ worker[w].attempt <= job[worker[w].job].attempt
    /\ worker[w].hash = version[worker[w].job].hash

\* No attempt of a job was given to two workers that are still at it.
AttemptsDiffer ==
  \A w, x \in Workers :
    (Busy(w) /\ Busy(x) /\ worker[w].job = worker[x].job /\ w # x) =>
      worker[w].attempt # worker[x].attempt

\* A worker that is about to record a rendition has stored it.
StoredFirst == \A w \in Workers : worker[w].pc = "complete" => worker[w].hash \in rendered

\* The strengthening that makes RenditionBacked and OneOwner inductive.
QueueInv ==
  /\ TypeOK
  /\ JobHasVersion
  /\ PassHasJob
  /\ AttemptReached
  /\ AttemptsDiffer
  /\ StoredFirst
  /\ RenditionBacked

-----------------------------------------------------------------------------
(* Rows.                                                                   *)

LEMMA RowsTyped ==
  ASSUME QueueInv
  PROVE  /\ version \in [Versions -> VersionRow] /\ job \in [Versions -> JobRow]
         /\ worker \in [Workers -> PassOf]
         /\ bucket \subseteq Hashes /\ renditions \subseteq Versions /\ rendered \subseteq Hashes
         /\ \A w \in Workers : Busy(w) =>
              worker[w].job \in Versions /\ worker[w].hash \in Hashes /\ worker[w].attempt > 0
BY DEF QueueInv, TypeOK, VersionRow, JobRow, PassOf, Busy

\* One job row changes.
LEMMA JobUpdate ==
  ASSUME job \in [Versions -> JobRow], NEW v \in Versions, NEW row \in JobRow,
         job' = [job EXCEPT ![v] = row]
  PROVE  /\ job' \in [Versions -> JobRow] /\ job'[v] = row
         /\ \A u \in Versions : u # v => job'[u] = job[u]
OBVIOUS

\* One worker moves.
LEMMA WorkerUpdate ==
  ASSUME worker \in [Workers -> PassOf], NEW w \in Workers, NEW row \in PassOf,
         worker' = [worker EXCEPT ![w] = row]
  PROVE  /\ worker' \in [Workers -> PassOf] /\ worker'[w] = row
         /\ \A x \in Workers : x # w => worker'[x] = worker[x]
OBVIOUS

\* The rows the actions write.
LEMMA RowsWritten ==
  /\ NoJob \in JobRow /\ NoJob.state = "none"
  /\ Waiting \in PassOf /\ Waiting.pc = "idle"
  /\ Unborn \in VersionRow
BY QueueAssumption DEF NoJob, JobRow, Waiting, PassOf, Unborn, VersionRow

\* The type invariant from its parts.
LEMMA TypesMake ==
  ASSUME version' \in [Versions -> VersionRow], job' \in [Versions -> JobRow],
         worker' \in [Workers -> PassOf],
         bucket' \subseteq Hashes, renditions' \subseteq Versions, rendered' \subseteq Hashes,
         \A w \in Workers : worker'[w].pc # "idle" =>
           worker'[w].job \in Versions /\ worker'[w].hash \in Hashes /\ worker'[w].attempt > 0
  PROVE  TypeOK'
BY Zenon DEF TypeOK, VersionRow, JobRow, PassOf

-----------------------------------------------------------------------------
(* The library.                                                            *)

LEMMA VersionAppearsKeeps ==
  ASSUME QueueInv, NEW v \in Versions, NEW h \in Hashes, VersionAppears(v, h)
  PROVE  QueueInv'
<1> DEFINE row == [state |-> "row", hash |-> h, trashed |-> FALSE]
<1>1. /\ version' = [version EXCEPT ![v] = row] /\ version[v].state = "unborn"
      /\ UNCHANGED <<bucket, job, renditions, rendered, worker>>
  BY DEF VersionAppears
<1>2. row \in VersionRow /\ row.hash \in Hashes
  BY DEF VersionRow
<1> HIDE DEF row
<1>3. /\ version' \in [Versions -> VersionRow] /\ version'[v].hash \in Hashes
      /\ \A u \in Versions : u # v => version'[u] = version[u]
  BY <1>1, <1>2, RowsTyped
<1>4. job[v].state = "none"
  <2>1. version[v].state # "row"
    BY <1>1
  <2> QED
    BY <2>1, Zenon DEF QueueInv, JobHasVersion
<1>5. TypeOK'
  BY <1>1, <1>3, RowsTyped, TypesMake, Zenon DEF Busy
<1>6. JobHasVersion'
  BY <1>1, <1>3, <1>4 DEF QueueInv, JobHasVersion
<1>7. AttemptReached'
  BY <1>1, <1>3, <1>4, RowsTyped DEF QueueInv, AttemptReached, Busy
<1>8. AttemptsDiffer' /\ StoredFirst'
  BY <1>1 DEF QueueInv, AttemptsDiffer, StoredFirst, Busy
<1>9. RenditionBacked'
  BY <1>1, <1>3, <1>4 DEF QueueInv, RenditionBacked
<1>10. PassHasJob'
  BY <1>1, <1>3, <1>4, RowsTyped DEF QueueInv, PassHasJob, Busy
<1> QED
  BY <1>5, <1>6, <1>7, <1>8, <1>9, <1>10 DEF QueueInv

LEMMA BytesArriveKeeps ==
  ASSUME QueueInv, NEW h \in Hashes, BytesArrive(h)
  PROVE  QueueInv'
<1>1. /\ bucket' = bucket \cup {h}
      /\ UNCHANGED <<version, job, renditions, rendered, worker>>
  BY DEF BytesArrive
<1>2. TypeOK'
  BY <1>1, RowsTyped, TypesMake DEF Busy
<1>3. /\ JobHasVersion' /\ PassHasJob' /\ AttemptReached' /\ AttemptsDiffer'
      /\ StoredFirst' /\ RenditionBacked'
  BY <1>1, Zenon DEF QueueInv, JobHasVersion, PassHasJob, AttemptReached, AttemptsDiffer,
     StoredFirst, RenditionBacked, Busy
<1> QED
  BY <1>2, <1>3 DEF QueueInv

LEMMA SetTrashStateKeeps ==
  ASSUME QueueInv, NEW v \in Versions, SetTrashState(v)
  PROVE  QueueInv'
<1>1. /\ version' = [version EXCEPT ![v].trashed = ~@]
      /\ UNCHANGED <<bucket, job, renditions, rendered, worker>>
  BY DEF SetTrashState
<1>2. /\ version' \in [Versions -> VersionRow]
      /\ \A u \in Versions : version'[u].state = version[u].state
                             /\ version'[u].hash = version[u].hash
  BY <1>1, RowsTyped DEF VersionRow
<1>3. TypeOK'
  BY <1>1, <1>2, RowsTyped, TypesMake, Zenon DEF Busy
<1>4. JobHasVersion' /\ RenditionBacked'
  BY <1>1, <1>2 DEF QueueInv, JobHasVersion, RenditionBacked
<1>5. PassHasJob' /\ AttemptReached'
  BY <1>1, <1>2, RowsTyped DEF QueueInv, PassHasJob, AttemptReached, Busy
<1>6. AttemptsDiffer' /\ StoredFirst'
  BY <1>1 DEF QueueInv, AttemptsDiffer, StoredFirst, Busy
<1> QED
  BY <1>3, <1>4, <1>5, <1>6 DEF QueueInv

LEMMA PurgeKeeps ==
  ASSUME QueueInv, NEW v \in Versions, Purge(v)
  PROVE  QueueInv'
<1>1. /\ version' = [version EXCEPT ![v] = [Unborn EXCEPT !.state = "purged"]]
      /\ job' = [job EXCEPT ![v] = NoJob] /\ renditions' = renditions \ {v}
      /\ UNCHANGED <<bucket, rendered, worker>>
  BY DEF Purge
<1>2. [Unborn EXCEPT !.state = "purged"] \in VersionRow
  BY DEF Unborn, VersionRow
<1>3. /\ version' \in [Versions -> VersionRow]
      /\ \A u \in Versions : u # v => version'[u] = version[u]
      /\ version'[v].state = "purged"
  BY <1>1, <1>2, RowsTyped DEF Unborn
<1>4. /\ job' \in [Versions -> JobRow] /\ job'[v].state = "none"
      /\ \A u \in Versions : u # v => job'[u] = job[u]
  BY <1>1, RowsTyped, RowsWritten, JobUpdate
<1>5. TypeOK'
  BY <1>1, <1>3, <1>4, RowsTyped, TypesMake DEF Busy
<1>6. JobHasVersion' /\ RenditionBacked'
  BY <1>1, <1>3, <1>4 DEF QueueInv, JobHasVersion, RenditionBacked
<1>7. PassHasJob'
  BY <1>1, <1>3, <1>4, RowsTyped DEF QueueInv, PassHasJob, Busy
<1>8. AttemptReached' /\ AttemptsDiffer' /\ StoredFirst'
  BY <1>1, <1>3, <1>4, RowsTyped
     DEF QueueInv, AttemptReached, AttemptsDiffer, StoredFirst, Busy
<1> QED
  BY <1>5, <1>6, <1>7, <1>8 DEF QueueInv

-----------------------------------------------------------------------------
(* The queue.                                                              *)

\* A step that leaves the workers alone and gives back no attempt.
LEMMA JobStepKeeps ==
  ASSUME QueueInv, UNCHANGED <<version, bucket, renditions, rendered, worker>>,
         job' \in [Versions -> JobRow],
         \A v \in Versions : job[v].state # "none" =>
           job'[v].state = job[v].state /\ job'[v].attempt = job[v].attempt,
         \A v \in Versions : (job[v].state = "none" /\ job'[v].state # "none") =>
           job'[v].state = "PENDING" /\ version[v].state = "row"
  PROVE  QueueInv'
<1>1. TypeOK'
  BY RowsTyped, TypesMake DEF Busy
<1>2. JobHasVersion'
  BY Zenon DEF QueueInv, JobHasVersion
<1>3. PassHasJob' /\ AttemptReached'
  BY RowsTyped DEF QueueInv, PassHasJob, AttemptReached, Busy
<1>4. AttemptsDiffer' /\ StoredFirst'
  BY DEF QueueInv, AttemptsDiffer, StoredFirst, Busy
<1>5. RenditionBacked'
  <2>1. \A v \in Versions : job'[v].state = "COMPLETED" <=> job[v].state = "COMPLETED"
    OBVIOUS
  <2> QED
    BY <2>1, Zenon DEF QueueInv, RenditionBacked
<1> QED
  BY <1>1, <1>2, <1>3, <1>4, <1>5 DEF QueueInv

LEMMA EnqueueKeeps ==
  ASSUME QueueInv, NEW v \in Versions, EnqueueRenditions(v)
  PROVE  QueueInv'
<1>1. /\ UNCHANGED <<version, bucket, renditions, rendered, worker>>
      /\ version[v].state = "row" /\ job' = Queued(v)
  BY DEF EnqueueRenditions, Target, sources
<1>2. CASE job[v].state # "none"
  BY <1>1, <1>2, RowsTyped, JobStepKeeps DEF Queued
<1>3. CASE job[v].state = "none"
  <2>1. job' = [job EXCEPT ![v].state = "PENDING"]
    BY <1>1, <1>3 DEF Queued
  <2>2. /\ job' \in [Versions -> JobRow] /\ job'[v].state = "PENDING"
        /\ \A u \in Versions : u # v => job'[u] = job[u]
    BY <2>1, RowsTyped DEF JobRow
  <2> QED
    BY <1>1, <1>3, <2>2, JobStepKeeps
<1> QED
  BY <1>2, <1>3

LEMMA ExpireLeaseKeeps ==
  ASSUME QueueInv, NEW v \in Versions, ExpireLease(v)
  PROVE  QueueInv'
<1>1. /\ UNCHANGED <<version, bucket, renditions, rendered, worker>>
      /\ job' = [job EXCEPT ![v].leased = FALSE]
  BY DEF ExpireLease, sources
<1>2. /\ job' \in [Versions -> JobRow]
      /\ \A u \in Versions : job'[u].state = job[u].state /\ job'[u].attempt = job[u].attempt
  BY <1>1, RowsTyped DEF JobRow
<1> QED
  BY <1>1, <1>2, JobStepKeeps

\* A claim is a new attempt: no worker has it yet.
LEMMA ClaimKeeps ==
  ASSUME QueueInv, NEW w \in Workers, NEW v \in Versions, ClaimNextJob(w, v)
  PROVE  QueueInv'
<1> DEFINE attempt == job[v].attempt + 1
           row == [state |-> "RUNNING", attempt |-> attempt, leased |-> TRUE]
           pass == [pc |-> "convert", job |-> v, attempt |-> attempt, hash |-> version[v].hash]
<1>1. /\ UNCHANGED <<version, bucket, renditions, rendered>> /\ ~Busy(w)
      /\ version[v].state = "row" /\ job[v].state \in {"PENDING", "RUNNING"}
      /\ job[v].attempt < MaxAttempts
  BY DEF ClaimNextJob, Claimable, Target, sources, Busy
<1>2. job' = [job EXCEPT ![v] = row] /\ worker' = [worker EXCEPT ![w] = pass]
  BY DEF ClaimNextJob, Claimed
<1>3. attempt \in 0..MaxAttempts /\ attempt > 0 /\ attempt > job[v].attempt
  BY <1>1, RowsTyped, QueueAssumption DEF JobRow
<1>4. version[v].hash \in Hashes
  BY <1>1 DEF QueueInv, JobHasVersion
<1> HIDE DEF attempt
<1>5. row \in JobRow /\ row.state = "RUNNING" /\ row.attempt = attempt
  BY <1>3 DEF JobRow
<1>6. /\ pass \in PassOf /\ pass.pc = "convert" /\ pass.job = v /\ pass.attempt = attempt
      /\ pass.hash = version[v].hash
  BY <1>3, <1>4 DEF PassOf
<1> HIDE DEF row, pass
<1>7. /\ job' \in [Versions -> JobRow] /\ job'[v].state = "RUNNING" /\ job'[v].attempt = attempt
      /\ \A u \in Versions : u # v => job'[u] = job[u]
  BY <1>2, <1>5, RowsTyped, JobUpdate
<1>8. /\ worker' \in [Workers -> PassOf] /\ worker'[w] = pass
      /\ \A x \in Workers : x # w => worker'[x] = worker[x]
  BY <1>2, <1>6, RowsTyped, WorkerUpdate
<1>9. TypeOK'
  <2>1. \A x \in Workers : worker'[x].pc # "idle" =>
          worker'[x].job \in Versions /\ worker'[x].hash \in Hashes /\ worker'[x].attempt > 0
    BY <1>3, <1>4, <1>6, <1>8, RowsTyped DEF Busy
  <2> QED
    BY <1>1, <1>7, <1>8, <2>1, RowsTyped, TypesMake
<1>10. JobHasVersion' /\ RenditionBacked'
  BY <1>1, <1>7 DEF QueueInv, JobHasVersion, RenditionBacked
<1>11. PassHasJob'
  BY <1>1, <1>6, <1>7, <1>8, RowsTyped DEF QueueInv, PassHasJob, Busy
<1>12. \A x \in Workers : (x # w /\ Busy(x) /\ worker[x].job = v) => worker[x].attempt < attempt
  <2> SUFFICES ASSUME NEW x \in Workers, Busy(x), worker[x].job = v
               PROVE  worker[x].attempt < attempt
    OBVIOUS
  <2>1. worker[x].attempt <= job[v].attempt
    BY <1>1 DEF QueueInv, AttemptReached
  <2>2. worker[x].attempt \in Nat /\ job[v].attempt \in Nat /\ attempt \in Nat
    BY <1>3, RowsTyped, QueueAssumption DEF PassOf, JobRow
  <2> QED
    BY <1>3, <2>1, <2>2
<1>13. AttemptReached'
  <2> SUFFICES ASSUME NEW x \in Workers, Busy(x)', (job[worker[x].job].state # "none")'
               PROVE  /\ (worker[x].attempt <= job[worker[x].job].attempt)'
                      /\ (worker[x].hash = version[worker[x].job].hash)'
    BY DEF AttemptReached
  <2>1. CASE x = w
    BY <1>1, <1>3, <1>6, <1>7, <1>8, <2>1
  <2>2. CASE x # w /\ worker[x].job = v
    <3>1. worker[x].attempt < attempt /\ worker[x].hash = version[v].hash
      BY <1>1, <1>8, <1>12, <2>2 DEF QueueInv, AttemptReached, Busy
    <3>2. worker[x].attempt \in Nat /\ attempt \in Nat
      BY <1>3, RowsTyped, QueueAssumption DEF PassOf
    <3> QED
      BY <1>1, <1>7, <1>8, <2>2, <3>1, <3>2
  <2>3. CASE x # w /\ worker[x].job # v
    BY <1>1, <1>7, <1>8, <2>3, RowsTyped DEF QueueInv, AttemptReached, Busy
  <2> QED
    BY <2>1, <2>2, <2>3
<1>14. AttemptsDiffer'
  <2> SUFFICES ASSUME NEW x \in Workers, NEW y \in Workers, Busy(x)', Busy(y)',
                      (worker[x].job = worker[y].job)', x # y
               PROVE  (worker[x].attempt # worker[y].attempt)'
    BY DEF AttemptsDiffer
  <2>1. \A z \in Workers : (z # w /\ Busy(z)' /\ worker[z].job = v) => worker[z].attempt # attempt
    <3> SUFFICES ASSUME NEW z \in Workers, z # w, Busy(z)', worker[z].job = v
                 PROVE  worker[z].attempt # attempt
      OBVIOUS
    <3>1. worker[z].attempt < attempt
      BY <1>8, <1>12 DEF Busy
    <3>2. worker[z].attempt \in Nat /\ attempt \in Nat
      BY <1>3, RowsTyped, QueueAssumption DEF PassOf
    <3> QED
      BY <3>1, <3>2
  <2>2. CASE x # w /\ y # w
    BY <1>8, <2>2 DEF QueueInv, AttemptsDiffer, Busy
  <2>3. CASE x = w
    BY <1>6, <1>8, <2>1, <2>3
  <2>4. CASE y = w
    BY <1>6, <1>8, <2>1, <2>4
  <2> QED
    BY <2>2, <2>3, <2>4
<1>15. StoredFirst'
  BY <1>1, <1>6, <1>8 DEF QueueInv, StoredFirst
<1> QED
  BY <1>9, <1>10, <1>11, <1>13, <1>14, <1>15 DEF QueueInv

-----------------------------------------------------------------------------
(* The rest of a pass: the worker keeps its claim or is done with it.      *)

LEMMA PassStepKeeps ==
  ASSUME QueueInv, NEW w \in Workers, NEW row \in PassOf, Busy(w),
         worker' = [worker EXCEPT ![w] = row],
         row.pc = "idle" \/ (row.job = worker[w].job /\ row.attempt = worker[w].attempt
                              /\ row.hash = worker[w].hash),
         UNCHANGED <<version, bucket>>,
         rendered \subseteq rendered', rendered' \subseteq Hashes,
         row.pc = "complete" => row.hash \in rendered',
         renditions' \subseteq Versions, job' \in [Versions -> JobRow],
         \A v \in Versions : job'[v].attempt = job[v].attempt
                              /\ (job'[v].state = "none" <=> job[v].state = "none"),
         RenditionBacked'
  PROVE  QueueInv'
<1>1. /\ worker' \in [Workers -> PassOf] /\ worker'[w] = row
      /\ \A x \in Workers : x # w => worker'[x] = worker[x]
  BY RowsTyped, WorkerUpdate
<1>2. \A x \in Workers : Busy(x)' =>
        /\ Busy(x) /\ worker'[x].job = worker[x].job /\ worker'[x].hash = worker[x].hash
        /\ worker'[x].attempt = worker[x].attempt /\ worker[x].job \in Versions
  BY <1>1, RowsTyped DEF Busy
<1>3. TypeOK'
  BY <1>1, <1>2, RowsTyped, TypesMake DEF Busy
<1>4. JobHasVersion'
  BY DEF QueueInv, JobHasVersion
<1>5. PassHasJob' /\ AttemptReached'
  BY <1>2 DEF QueueInv, PassHasJob, AttemptReached
<1>6. AttemptsDiffer'
  BY <1>2 DEF QueueInv, AttemptsDiffer
<1>7. StoredFirst'
  BY <1>1 DEF QueueInv, StoredFirst
<1> QED
  BY <1>3, <1>4, <1>5, <1>6, <1>7 DEF QueueInv

LEMMA LosePassKeeps ==
  ASSUME QueueInv, NEW w \in Workers, LosePass(w)
  PROVE  QueueInv'
<1>1. /\ worker' = [worker EXCEPT ![w] = Waiting] /\ Busy(w)
      /\ UNCHANGED <<version, bucket, job, renditions, rendered>>
  BY DEF LosePass, Busy, sources
<1>2. RenditionBacked'
  BY <1>1 DEF QueueInv, RenditionBacked
<1> QED
  BY <1>1, <1>2, RowsTyped, RowsWritten, PassStepKeeps

LEMMA ConvertKeeps ==
  ASSUME QueueInv, NEW w \in Workers, Convert(w)
  PROVE  QueueInv'
<1>1. /\ UNCHANGED <<version, bucket, job, renditions, rendered>> /\ Busy(w)
      /\ \E pc \in {"upload", "fail", "refuse"} : worker' = [worker EXCEPT ![w].pc = pc]
  BY DEF Convert, sources, Busy
<1>2. PICK pc \in {"upload", "fail", "refuse"} : worker' = [worker EXCEPT ![w].pc = pc]
  BY <1>1
<1>3. PICK row : row = [worker[w] EXCEPT !.pc = pc] /\ worker' = [worker EXCEPT ![w] = row]
  BY <1>2
<1>4. /\ row \in PassOf /\ row.pc = pc /\ row.job = worker[w].job
      /\ row.attempt = worker[w].attempt /\ row.hash = worker[w].hash
  <2>1. worker[w] \in PassOf
    BY RowsTyped
  <2> QED
    BY <1>3, <2>1 DEF PassOf
<1>5. RenditionBacked'
  BY <1>1 DEF QueueInv, RenditionBacked
<1> QED
  BY <1>1, <1>3, <1>4, <1>5, RowsTyped, PassStepKeeps

LEMMA UploadKeeps ==
  ASSUME QueueInv, NEW w \in Workers, UploadRendition(w)
  PROVE  QueueInv'
<1>1. UNCHANGED <<version, bucket, job, renditions>> /\ Busy(w)
  BY DEF UploadRendition, sources, Busy
<1>2. PICK pc \in {"complete", "fail"} :
        /\ worker' = [worker EXCEPT ![w].pc = pc]
        /\ rendered' = IF pc = "complete" THEN rendered \cup {worker[w].hash} ELSE rendered
  BY DEF UploadRendition
<1>3. PICK row : row = [worker[w] EXCEPT !.pc = pc] /\ worker' = [worker EXCEPT ![w] = row]
  BY <1>2
<1>4. /\ row \in PassOf /\ row.pc = pc /\ row.job = worker[w].job
      /\ row.attempt = worker[w].attempt /\ row.hash = worker[w].hash
  <2>1. worker[w] \in PassOf
    BY RowsTyped
  <2> QED
    BY <1>3, <2>1 DEF PassOf
<1>5. rendered \subseteq rendered' /\ rendered' \subseteq Hashes
      /\ (row.pc = "complete" => row.hash \in rendered')
  BY <1>1, <1>2, <1>4, RowsTyped
<1>6. RenditionBacked'
  BY <1>1, <1>5 DEF QueueInv, RenditionBacked
<1> QED
  BY <1>1, <1>3, <1>4, <1>5, <1>6, RowsTyped, PassStepKeeps

\* A locked job has the worker's content, and its version.
LEMMA LockedIsOwn ==
  ASSUME QueueInv, NEW w \in Workers, Busy(w), LockedJob(w)
  PROVE  /\ worker[w].job \in Versions /\ job[worker[w].job] \in JobRow
         /\ job[worker[w].job].state = "RUNNING"
         /\ worker[w].hash = version[worker[w].job].hash
         /\ worker[w].job \notin renditions
<1>1. worker[w].job \in Versions /\ job[worker[w].job] \in JobRow
  BY RowsTyped
<1>2. job[worker[w].job].state = "RUNNING"
  BY DEF LockedJob
<1>3. worker[w].hash = version[worker[w].job].hash
  BY <1>2 DEF QueueInv, AttemptReached
<1>4. worker[w].job \notin renditions
  BY <1>1, <1>2 DEF QueueInv, RenditionBacked
<1> QED
  BY <1>1, <1>2, <1>3, <1>4

\* A locked job gets another state; its attempt stays.
LEMMA LockedUpdate ==
  ASSUME QueueInv, NEW v \in Versions, job[v] \in JobRow, job[v].state = "RUNNING",
         NEW state \in {"PENDING", "COMPLETED", "FAILED"},
         job' = [job EXCEPT ![v] = [@ EXCEPT !.state = state, !.leased = FALSE]]
  PROVE  /\ job' \in [Versions -> JobRow] /\ job'[v].state = state
         /\ \A u \in Versions : u # v => job'[u] = job[u]
         /\ \A u \in Versions : job'[u].attempt = job[u].attempt
                                 /\ (job'[u].state = "none" <=> job[u].state = "none")
<1>1. PICK row : row = [job[v] EXCEPT !.state = state, !.leased = FALSE]
                 /\ job' = [job EXCEPT ![v] = row]
  OBVIOUS
<1>2. row \in JobRow /\ row.state = state /\ row.attempt = job[v].attempt
  BY <1>1 DEF JobRow
<1>3. /\ job' \in [Versions -> JobRow] /\ job'[v] = row
      /\ \A u \in Versions : u # v => job'[u] = job[u]
  BY <1>1, <1>2, RowsTyped, JobUpdate
<1> QED
  BY <1>2, <1>3

\* The rendition row and the end of the job are one statement, whatever
\* becomes of its answer.
LEMMA CompleteKeeps ==
  ASSUME QueueInv, NEW w \in Workers, CompleteJob(w)
  PROVE  QueueInv'
<1>1. /\ UNCHANGED <<version, bucket, rendered>> /\ Busy(w)
      /\ worker[w].pc = "complete" /\ worker[w].hash \in rendered
  BY DEF CompleteJob, sources, Busy, QueueInv, StoredFirst
<1>2. PICK row \in PassOf :
        /\ worker' = [worker EXCEPT ![w] = row]
        /\ row.pc = "idle" \/ (row.pc = "fail" /\ row.job = worker[w].job
             /\ row.attempt = worker[w].attempt /\ row.hash = worker[w].hash)
  <2>1. \/ worker' = [worker EXCEPT ![w] = [worker[w] EXCEPT !.pc = "fail"]]
        \/ worker' = [worker EXCEPT ![w] = Waiting]
    BY DEF CompleteJob
  <2>2. PICK row : row = [worker[w] EXCEPT !.pc = "fail"]
    OBVIOUS
  <2>3. worker[w] \in PassOf
    BY RowsTyped
  <2>4. /\ row \in PassOf /\ row.pc = "fail" /\ row.job = worker[w].job
        /\ row.attempt = worker[w].attempt /\ row.hash = worker[w].hash
    BY <2>2, <2>3 DEF PassOf
  <2> QED
    BY <2>1, <2>2, <2>4, RowsWritten
<1>3. CASE UNCHANGED <<job, renditions>>
  <2>1. RenditionBacked'
    BY <1>1, <1>3 DEF QueueInv, RenditionBacked
  <2> QED
    BY <1>1, <1>2, <1>3, <2>1, RowsTyped, PassStepKeeps
<1>4. CASE /\ LockedJob(w)
           /\ job' = [job EXCEPT ![worker[w].job] =
                        [@ EXCEPT !.state = "COMPLETED", !.leased = FALSE]]
           /\ renditions' = renditions \cup {worker[w].job}
  <2>1. PICK v \in Versions : v = worker[w].job
    BY <1>1, <1>4, LockedIsOwn
  <2>2. /\ job[v] \in JobRow /\ job[v].state = "RUNNING" /\ worker[w].hash = version[v].hash
    BY <1>1, <1>4, <2>1, LockedIsOwn
  <2>3. /\ job' \in [Versions -> JobRow] /\ job'[v].state = "COMPLETED"
        /\ \A u \in Versions : u # v => job'[u] = job[u]
        /\ \A u \in Versions : job'[u].attempt = job[u].attempt
                                /\ (job'[u].state = "none" <=> job[u].state = "none")
    BY <1>4, <2>1, <2>2, LockedUpdate
  <2>4. RenditionBacked'
    BY <1>1, <1>4, <2>1, <2>2, <2>3 DEF QueueInv, RenditionBacked
  <2>5. renditions' \subseteq Versions
    BY <1>4, <2>1, RowsTyped
  <2> QED
    BY <1>1, <1>2, <2>3, <2>4, <2>5, RowsTyped, PassStepKeeps
<1> QED
  BY <1>3, <1>4 DEF CompleteJob

LEMMA FailKeeps ==
  ASSUME QueueInv, NEW w \in Workers, FailJob(w)
  PROVE  QueueInv'
<1>1. /\ UNCHANGED <<version, bucket, renditions, rendered>> /\ Busy(w)
      /\ worker' = [worker EXCEPT ![w] = Waiting]
  BY DEF FailJob, sources, Busy
<1>2. CASE ~LockedJob(w)
  <2>1. job' = job
    BY <1>2 DEF FailJob
  <2>2. RenditionBacked'
    BY <1>1, <2>1 DEF QueueInv, RenditionBacked
  <2> QED
    BY <1>1, <2>1, <2>2, RowsTyped, RowsWritten, PassStepKeeps
<1>3. CASE LockedJob(w)
  <2>1. PICK v \in Versions : v = worker[w].job
    BY <1>1, <1>3, LockedIsOwn
  <2>2. job[v] \in JobRow /\ job[v].state = "RUNNING" /\ v \notin renditions
    BY <1>1, <1>3, <2>1, LockedIsOwn
  <2>3. PICK state \in {"PENDING", "FAILED"} :
          job' = [job EXCEPT ![v] = [@ EXCEPT !.state = state, !.leased = FALSE]]
    BY <1>3, <2>1 DEF FailJob, AfterFailure
  <2>4. /\ job' \in [Versions -> JobRow] /\ job'[v].state = state
        /\ \A u \in Versions : u # v => job'[u] = job[u]
        /\ \A u \in Versions : job'[u].attempt = job[u].attempt
                                /\ (job'[u].state = "none" <=> job[u].state = "none")
    BY <2>2, <2>3, LockedUpdate
  <2>5. RenditionBacked'
    BY <1>1, <2>2, <2>4 DEF QueueInv, RenditionBacked
  <2> QED
    BY <1>1, <2>4, <2>5, RowsTyped, RowsWritten, PassStepKeeps
<1> QED
  BY <1>2, <1>3

-----------------------------------------------------------------------------
\* The strengthened invariant holds of every reachable state of the queue.
LEMMA QueueInvariant == Spec => []QueueInv
<1>1. Init => QueueInv
  <2> SUFFICES ASSUME Init PROVE QueueInv
    OBVIOUS
  <2>1. /\ version \in [Versions -> VersionRow] /\ job \in [Versions -> JobRow]
        /\ worker \in [Workers -> PassOf]
    BY RowsWritten DEF Init
  <2>2. /\ bucket = {} /\ renditions = {} /\ rendered = {}
        /\ \A w \in Workers : worker[w].pc = "idle"
        /\ \A v \in Versions : job[v].state = "none" /\ version[v].state = "unborn"
    BY DEF Init, Waiting, NoJob, Unborn
  <2>3. TypeOK
    BY <2>1, <2>2 DEF TypeOK, VersionRow, JobRow, PassOf
  <2>4. JobHasVersion /\ PassHasJob /\ AttemptReached /\ AttemptsDiffer /\ StoredFirst
        /\ RenditionBacked
    BY <2>2 DEF JobHasVersion, PassHasJob, AttemptReached, AttemptsDiffer, StoredFirst,
       RenditionBacked, Busy
  <2> QED
    BY <2>3, <2>4 DEF QueueInv
<1>2. QueueInv /\ [Next]_vars => QueueInv'
  <2> SUFFICES ASSUME QueueInv, [Next]_vars PROVE QueueInv'
    OBVIOUS
  <2>1. ASSUME NEW v \in Versions, NEW h \in Hashes, VersionAppears(v, h) PROVE QueueInv'
    BY <2>1, VersionAppearsKeeps
  <2>2. ASSUME NEW v \in Versions, SetTrashState(v) PROVE QueueInv'
    BY <2>2, SetTrashStateKeeps
  <2>3. ASSUME NEW v \in Versions, Purge(v) PROVE QueueInv'
    BY <2>3, PurgeKeeps
  <2>4. ASSUME NEW h \in Hashes, BytesArrive(h) PROVE QueueInv'
    BY <2>4, BytesArriveKeeps
  <2>5. ASSUME NEW v \in Versions, EnqueueRenditions(v) PROVE QueueInv'
    BY <2>5, EnqueueKeeps
  <2>6. ASSUME NEW v \in Versions, ExpireLease(v) PROVE QueueInv'
    BY <2>6, ExpireLeaseKeeps
  <2>7. ASSUME NEW w \in Workers, NEW v \in Versions, ClaimNextJob(w, v) PROVE QueueInv'
    BY <2>7, ClaimKeeps
  <2>8. ASSUME NEW w \in Workers, Convert(w) PROVE QueueInv'
    BY <2>8, ConvertKeeps
  <2>9. ASSUME NEW w \in Workers, UploadRendition(w) PROVE QueueInv'
    BY <2>9, UploadKeeps
  <2>10. ASSUME NEW w \in Workers, CompleteJob(w) PROVE QueueInv'
    BY <2>10, CompleteKeeps
  <2>11. ASSUME NEW w \in Workers, FailJob(w) PROVE QueueInv'
    BY <2>11, FailKeeps
  <2>12. ASSUME NEW w \in Workers, LosePass(w) PROVE QueueInv'
    BY <2>12, LosePassKeeps
  <2>13. CASE UNCHANGED vars
    BY <2>13, RowsTyped, JobStepKeeps DEF vars
  <2> QED
    BY <2>1, <2>2, <2>3, <2>4, <2>5, <2>6, <2>7, <2>8, <2>9, <2>10, <2>11, <2>12, <2>13
       DEF Next, Library, Pass
<1> QED
  BY <1>1, <1>2, PTL DEF Spec

\* Every reachable state of the queue is well typed, no attempt passes the limit
\* and a worker in a pass holds a job (conversion/store.ts, claimNextJob).
THEOREM TypeCorrect == Spec => []TypeOK
BY QueueInvariant, PTL DEF QueueInv

\* Whatever workers stall, die or come late, a rendition row and the end of its
\* job come together, over bytes that are stored (completeJob, uploadObject).
THEOREM RenditionsBacked == Spec => []RenditionBacked
BY QueueInvariant, PTL DEF QueueInv

\* Of all the workers that ever took a job one at most can still end it: the
\* attempt number fences the others off (completeJob's and failJob's locked_job).
THEOREM AttemptFences == Spec => []OneOwner
<1>1. QueueInv => OneOwner
  BY Zenon DEF QueueInv, AttemptsDiffer, OneOwner, LockedJob, Busy
<1> QED
  BY <1>1, QueueInvariant, PTL

\* What ended stays ended: neither a stale worker nor a producer that asks for
\* the rendition again moves a COMPLETED or FAILED job (enqueueRenditions).
THEOREM JobsEndOnce == Spec => EndsOnce
<1>1. QueueInv /\ [Next]_vars =>
        [\A v \in Versions : job[v].state \in {"COMPLETED", "FAILED"} =>
           job'[v].state \in {job[v].state, "none"}]_vars
  <2> SUFFICES ASSUME QueueInv, Next, NEW v \in Versions, job[v].state \in {"COMPLETED", "FAILED"}
               PROVE  job'[v].state \in {job[v].state, "none"}
    BY DEF vars
  <2>1. job \in [Versions -> JobRow]
    BY RowsTyped
  <2>2. CASE UNCHANGED job
    BY <2>2
  <2>3. ASSUME NEW u \in Versions, Purge(u) PROVE job'[v].state \in {job[v].state, "none"}
    BY <2>1, <2>3 DEF Purge, NoJob
  <2>4. ASSUME NEW u \in Versions, EnqueueRenditions(u)
        PROVE  job'[v].state \in {job[v].state, "none"}
    BY <2>1, <2>4 DEF EnqueueRenditions, Queued
  <2>5. ASSUME NEW u \in Versions, ExpireLease(u) PROVE job'[v].state \in {job[v].state, "none"}
    BY <2>1, <2>5 DEF ExpireLease, JobRow
  <2>6. ASSUME NEW w \in Workers, NEW u \in Versions, ClaimNextJob(w, u)
        PROVE  job'[v].state \in {job[v].state, "none"}
    BY <2>1, <2>6 DEF ClaimNextJob, Claimable
  <2>7. ASSUME NEW w \in Workers, CompleteJob(w) PROVE job'[v].state \in {job[v].state, "none"}
    BY <2>1, <2>7 DEF CompleteJob, LockedJob
  <2>8. ASSUME NEW w \in Workers, FailJob(w) PROVE job'[v].state \in {job[v].state, "none"}
    BY <2>1, <2>8 DEF FailJob, LockedJob
  <2>9. ASSUME NEW w \in Workers, Convert(w) \/ UploadRendition(w) \/ LosePass(w)
        PROVE  UNCHANGED job
    BY <2>9 DEF Convert, UploadRendition, LosePass
  <2>10. ASSUME NEW u \in Versions, SetTrashState(u) PROVE UNCHANGED job
    BY <2>10 DEF SetTrashState
  <2>11. ASSUME NEW h \in Hashes, BytesArrive(h) PROVE UNCHANGED job
    BY <2>11 DEF BytesArrive
  <2>12. ASSUME NEW u \in Versions, NEW h \in Hashes, VersionAppears(u, h) PROVE UNCHANGED job
    BY <2>12 DEF VersionAppears
  <2> QED
    BY <2>2, <2>3, <2>4, <2>5, <2>6, <2>7, <2>8, <2>9, <2>10, <2>11, <2>12
       DEF Next, Library, Pass
<1> QED
  BY <1>1, QueueInvariant, PTL DEF Spec, EndsOnce
=============================================================================
