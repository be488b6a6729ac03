--------------------------- MODULE ConversionQueue ---------------------------
(***************************************************************************)
(* The rendition queue (conversion/store.ts) and the workers that drain it *)
(* (conversion/worker.ts).                                                 *)
(*                                                                         *)
(* A job is one row per version and rung; the rungs of a version never     *)
(* meet, so one of them is modelled and a job is named by its version.  A  *)
(* worker's pass is its claim, the download and render, the upload of the  *)
(* result and the statement that records it.  A lease may run out while    *)
(* its worker is only slow: a render may take twice as long as a lease.    *)
(* Of the library the queue sees the rows its statements join: versions    *)
(* that appear (before their bytes do or after), are trashed and restored  *)
(* with their material, and are purged with it; MaterialLibrary says when. *)
(***************************************************************************)
EXTENDS Naturals

CONSTANTS
  Versions,     \* material versions
  NoVersion,
  Hashes,       \* contents
  NoHash,
  Workers,      \* conversion workers, in one process or several
  MaxAttempts   \* attempts before a job is FAILED

ASSUME QueueAssumption ==
  /\ NoVersion \notin Versions
  /\ NoHash \notin Hashes
  /\ MaxAttempts \in Nat \ {0}

VARIABLES
  version,    \* the version rows with their object row: hash, and trashed
  bucket,     \* contents with an object behind their key
  job,        \* conversion_jobs; state "none" is no row
  renditions, \* versions with a material_renditions row
  rendered,   \* rendition keys with an object behind them, by content
  worker      \* the pass each worker is in

sources == <<version, bucket>>
vars == <<version, bucket, job, renditions, rendered, worker>>

Unborn == [state |-> "unborn", hash |-> NoHash, trashed |-> FALSE]
NoJob == [state |-> "none", attempt |-> 0, leased |-> FALSE]
Waiting == [pc |-> "idle", job |-> NoVersion, attempt |-> 0, hash |-> NoHash]

Init ==
  /\ version = [v \in Versions |-> Unborn]
  /\ bucket = {}
  /\ job = [v \in Versions |-> NoJob]
  /\ renditions = {}
  /\ rendered = {}
  /\ worker = [w \in Workers |-> Waiting]

-----------------------------------------------------------------------------
(* The library.                                                            *)

\* createMaterialVersion, beginUpload's deduplication or completeUpload: the
\* version row and its object row exist.
VersionAppears(v, h) ==
  /\ version[v].state = "unborn"
  /\ version' = [version EXCEPT ![v] = [state |-> "row", hash |-> h, trashed |-> FALSE]]
  /\ UNCHANGED <<bucket, job, renditions, rendered, worker>>

\* An upload's bytes are assembled under their key.
BytesArrive(h) ==
  /\ h \notin bucket
  /\ bucket' = bucket \cup {h}
  /\ UNCHANGED <<version, job, renditions, rendered, worker>>

\* setTrashState
SetTrashState(v) ==
  /\ version[v].state = "row"
  /\ version' = [version EXCEPT ![v].trashed = ~@]
  /\ UNCHANGED <<bucket, job, renditions, rendered, worker>>

\* purgeMaterial: the job and the rendition go with the version's row.
Purge(v) ==
  /\ version[v].state = "row" /\ version[v].trashed
  /\ version' = [version EXCEPT ![v] = [Unborn EXCEPT !.state = "purged"]]
  /\ job' = [job EXCEPT ![v] = NoJob]
  /\ renditions' = renditions \ {v}
  /\ UNCHANGED <<bucket, rendered, worker>>

-----------------------------------------------------------------------------
(* The producers.                                                          *)

\* Mutant: a producer puts an existing job back into the queue.
Requeued(v) == [job EXCEPT ![v] = [NoJob EXCEPT !.state = "PENDING"]]

\* The insert of enqueueRenditions, ON CONFLICT DO NOTHING.
Queued(v) ==
  IF job[v].state = "none" THEN [job EXCEPT ![v].state = "PENDING"] ELSE job

\* enqueueRenditions' target: a version of a material that is not trashed.
Target(v) == version[v].state = "row" /\ ~version[v].trashed

\* queueRenditionLadder after a completed upload, best effort, or a preview
\* grant of a version that has no rendition (of any version, its bytes stored
\* or not).
EnqueueRenditions(v) ==
  /\ Target(v) /\ v \notin renditions
  /\ job' = Queued(v)
  /\ UNCHANGED sources /\ UNCHANGED <<renditions, rendered, worker>>

-----------------------------------------------------------------------------
(* The worker.                                                             *)

\* Mutant: only a pending job is claimable.
ClaimablePending(v) ==
  /\ Target(v)
  /\ job[v].attempt < MaxAttempts
  /\ job[v].state = "PENDING"

\* claimable: the joins and the state of the job, in one statement.
Claimable(v) ==
  /\ Target(v)
  /\ job[v].attempt < MaxAttempts
  /\ job[v].state = "PENDING" \/ (job[v].state = "RUNNING" /\ ~job[v].leased)

\* Mutant: a claim is not a new attempt.
ClaimedUnfenced(v) == [job[v] EXCEPT !.state = "RUNNING", !.leased = TRUE]

\* claimed
Claimed(v) == [state |-> "RUNNING", attempt |-> job[v].attempt + 1, leased |-> TRUE]

\* claimNextJob.  The oldest job is taken first, and a row another claim has
\* locked is skipped: any claimable job may be the one.
ClaimNextJob(w, v) ==
  /\ worker[w].pc = "idle" /\ Claimable(v)
  /\ job' = [job EXCEPT ![v] = Claimed(v)]
  /\ worker' = [worker EXCEPT ![w] = [pc |-> "convert", job |-> v,
                                      attempt |-> Claimed(v).attempt,
                                      hash |-> version[v].hash]]
  /\ UNCHANGED sources /\ UNCHANGED <<renditions, rendered>>

\* downloadObject and render.  Either may throw, a missing source always does;
\* a rung the ladder no longer has and a source too large are refused for good.
Convert(w) ==
  /\ worker[w].pc = "convert"
  /\ \/ /\ worker[w].hash \in bucket
        /\ worker' = [worker EXCEPT ![w].pc = "upload"]
     \/ \E pc \in {"fail", "refuse"} : worker' = [worker EXCEPT ![w].pc = pc]
  /\ UNCHANGED sources /\ UNCHANGED <<job, renditions, rendered>>

\* Mutant: an upload that threw is taken for one that succeeded.
UploadSwallowed(w) ==
  /\ worker[w].pc = "upload"
  /\ rendered' \in {rendered, rendered \cup {worker[w].hash}}
  /\ worker' = [worker EXCEPT ![w].pc = "complete"]
  /\ UNCHANGED sources /\ UNCHANGED <<job, renditions>>

\* uploadObject, to the key derived from the content and the rung.
UploadRendition(w) ==
  /\ worker[w].pc = "upload"
  /\ \/ /\ rendered' = rendered \cup {worker[w].hash}
        /\ worker' = [worker EXCEPT ![w].pc = "complete"]
     \/ /\ worker' = [worker EXCEPT ![w].pc = "fail"]
        /\ UNCHANGED rendered
  /\ UNCHANGED sources /\ UNCHANGED <<job, renditions>>

\* locked_job: the row is still running the attempt this worker claimed.
LockedJob(w) ==
  /\ job[worker[w].job].state = "RUNNING"
  /\ job[worker[w].job].attempt = worker[w].attempt

\* completeJob: the rendition row and the job's end are one statement, and a
\* stale claim records nothing.  When the call throws, before the statement ran
\* or after, the pass ends in failJob.
CompleteJob(w) ==
  LET v == worker[w].job
  IN  /\ worker[w].pc = "complete"
      /\ \/ /\ LockedJob(w)
            /\ job' = [job EXCEPT ![v] = [@ EXCEPT !.state = "COMPLETED", !.leased = FALSE]]
            /\ renditions' = renditions \cup {v}
         \/ UNCHANGED <<job, renditions>>
      /\ \/ worker' = [worker EXCEPT ![w].pc = "fail"]
         \/ /\ LockedJob(w) => job' # job
            /\ worker' = [worker EXCEPT ![w] = Waiting]
      /\ UNCHANGED sources /\ UNCHANGED rendered

\* The CASE of failJob; a refusal lowers the ceiling to one attempt.
AfterFailure(w) ==
  IF worker[w].attempt >= (IF worker[w].pc = "refuse" THEN 1 ELSE MaxAttempts)
  THEN "FAILED" ELSE "PENDING"

\* failJob, fenced like completeJob.
FailJob(w) ==
  /\ worker[w].pc \in {"fail", "refuse"}
  /\ job' = IF LockedJob(w)
            THEN [job EXCEPT ![worker[w].job] =
                    [@ EXCEPT !.state = AfterFailure(w), !.leased = FALSE]]
            ELSE job
  /\ worker' = [worker EXCEPT ![w] = Waiting]
  /\ UNCHANGED sources /\ UNCHANGED <<renditions, rendered>>

\* The process dies, or the database is out of reach when the pass would
\* record its end; either way the loop goes on with the next tick.
LosePass(w) ==
  /\ worker[w].pc # "idle"
  /\ worker' = [worker EXCEPT ![w] = Waiting]
  /\ UNCHANGED sources /\ UNCHANGED <<job, renditions, rendered>>

\* lease_expires_at passes.
ExpireLease(v) ==
  /\ job[v].leased
  /\ job' = [job EXCEPT ![v].leased = FALSE]
  /\ UNCHANGED sources /\ UNCHANGED <<renditions, rendered, worker>>

-----------------------------------------------------------------------------
Library == \/ \E v \in Versions : \/ \E h \in Hashes : VersionAppears(v, h)
                                  \/ SetTrashState(v)
                                  \/ Purge(v)
           \/ \E h \in Hashes : BytesArrive(h)

Pass(w) == \/ \E v \in Versions : ClaimNextJob(w, v)
           \/ Convert(w) \/ UploadRendition(w) \/ CompleteJob(w) \/ FailJob(w)

Next == \/ Library
        \/ \E v \in Versions : EnqueueRenditions(v) \/ ExpireLease(v)
        \/ \E w \in Workers : Pass(w) \/ LosePass(w)

Spec == Init /\ [][Next]_vars

\* Every worker polls (start's interval) and its calls return or throw, and
\* leases run out.  Nothing is assumed of the clients.
Fairness == /\ \A w \in Workers : WF_vars(Pass(w))
            /\ \A v \in Versions : WF_vars(ExpireLease(v))

FairSpec == Spec /\ Fairness

-----------------------------------------------------------------------------
\* Type correctness; no attempt passes the limit, and a worker in a pass holds
\* a job.
TypeOK ==
  /\ version \in [Versions -> [state : {"unborn", "row", "purged"},
                               hash : Hashes \cup {NoHash}, trashed : BOOLEAN]]
  /\ bucket \subseteq Hashes
  /\ job \in [Versions -> [state : {"none", "PENDING", "RUNNING", "COMPLETED", "FAILED"},
                           attempt : 0..MaxAttempts, leased : BOOLEAN]]
  /\ renditions \subseteq Versions
  /\ rendered \subseteq Hashes
  /\ worker \in [Workers -> [pc : {"idle", "convert", "upload", "complete", "fail", "refuse"},
                             job : Versions \cup {NoVersion}, attempt : 0..MaxAttempts,
                             hash : Hashes \cup {NoHash}]]
  /\ \A w \in Workers : worker[w].pc # "idle" =>
       worker[w].job \in Versions /\ worker[w].hash \in Hashes /\ worker[w].attempt > 0

\* A rendition row and the end of its job come together, and the object the
\* row names was stored before it: the menu offers nothing that is not served.
RenditionBacked ==
  \A v \in Versions :
    /\ v \in renditions <=> job[v].state = "COMPLETED"
    /\ v \in renditions => version[v].hash \in rendered

\* The attempt is the fence: of all the workers that took a job, however slow,
\* one at most can still end it.
OneOwner ==
  \A w, x \in Workers :
    (worker[w].pc # "idle" /\ worker[x].pc # "idle" /\ worker[w].job = worker[x].job
       /\ LockedJob(w) /\ LockedJob(x)) => w = x

\* A job that ended stays as it ended until its version goes, although stale
\* workers and both producers still reach for it.
EndsOnce ==
  [][\A v \in Versions :
       job[v].state \in {"COMPLETED", "FAILED"} => job'[v].state \in {job[v].state, "none"}]_vars

\* A pass was lost on the last attempt: no claim takes the job again.
Stranded(v) ==
  /\ job[v].state = "RUNNING" /\ job[v].attempt = MaxAttempts
  /\ \A w \in Workers : worker[w].pc = "idle" \/ worker[w].job # v

\* Every queued job ends, unless its material is trashed or purged or its last
\* attempt was lost: whichever workers die or stall, another takes over.
JobsEnd ==
  \A v \in Versions :
    job[v].state \in {"PENDING", "RUNNING"} ~>
      \/ job[v].state \in {"none", "COMPLETED", "FAILED"}
      \/ ~Target(v)
      \/ Stranded(v)
=============================================================================
