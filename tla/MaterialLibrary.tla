--------------------------- MODULE MaterialLibrary ---------------------------
(***************************************************************************)
(* The material library of one group: DurableMaterialStore, the RPCs of    *)
(* material/service.ts that drive it, and the bucket behind them.          *)
(*                                                                         *)
(* A mutation is one statement and takes effect in one step, on the latest *)
(* state of the rows it locks.  What it reads unlocked comes from the      *)
(* snapshot it took before it waited for those locks, which may be older:  *)
(* the object row of a beginUpload, the version rows of a purge.           *)
(*                                                                         *)
(* The RPCs that touch the bucket as well take several steps: opening an   *)
(* upload, completing one (read the session and the material, assemble the *)
(* object, verify it, record the version) and cancelling one (read, cancel,*)
(* abort).  Between two of them anything else may happen, and a handler    *)
(* may stop for good.  Clients may send bytes that are not the content     *)
(* they declared.                                                          *)
(*                                                                         *)
(* An upload session and the version it produces share an identifier here: *)
(* each session makes one version at most.  Callers are active editors and *)
(* repeat a request only under its receipt, which are GroupPublication's   *)
(* and Receipts' subject.                                                  *)
(***************************************************************************)
EXTENDS Naturals, FiniteSets

CONSTANTS
  Materials,    \* material ids
  NoMaterial,   \* NULL
  Sessions,     \* upload session ids, and the version ids that go with them
  NoVersion,    \* NULL in current_version_id
  Hashes,       \* content hashes
  NoHash,       \* no content
  Garbage,      \* bytes that are no material's content
  Issuers,      \* subset of {"multipart", "whole"}: S3 and Vercel Blob
  MaxRevision   \* bound on material revisions

ASSUME LibraryAssumption ==
  /\ NoMaterial \notin Materials
  /\ NoVersion \notin Sessions
  /\ NoHash \notin Hashes /\ Garbage \notin Hashes \cup {NoHash}
  /\ IsFiniteSet(Sessions)
  /\ Issuers \subseteq {"multipart", "whole"}
  /\ MaxRevision \in Nat \ {0}

VARIABLES
  issuer,     \* the storage the deployment is configured with
  material,   \* materials; status "none" is no row
  session,    \* upload_sessions; state "none" is a fresh id
  version,    \* material_versions; sequence 0 is no row
  references, \* material_objects.reference_count; 0 is no row
  bucket,     \* the bytes stored under each content key, NoHash where there is no object
  completing, \* the completeUpload handler of each session
  cancelling  \* the cancelUpload handler of each session

rows == <<material, session, version, references>>
vars == <<issuer, material, session, version, references, bucket, completing, cancelling>>

NoRow == [status |-> "none", hash |-> NoHash, current |-> NoVersion,
          trashed |-> FALSE, revision |-> 0]
\* An upload session: besides its row, what became of the upload its
\* storage_upload_id names (remote), the key that upload was opened under
\* (target), the bytes its assembly stored there, and the content whose bytes
\* the completion that recorded the session had verified (checked).
Fresh == [state |-> "none", material |-> NoMaterial, hash |-> NoHash,
          remote |-> "none", target |-> NoHash, stored |-> NoHash, checked |-> NoHash]
Unversioned == [material |-> NoMaterial, hash |-> NoHash, sequence |-> 0]
Resting == [pc |-> "idle", key |-> NoHash]

Init ==
  /\ issuer \in Issuers
  /\ material = [m \in Materials |-> NoRow]
  /\ session = [s \in Sessions |-> Fresh]
  /\ version = [s \in Sessions |-> Unversioned]
  /\ references = [h \in Hashes |-> 0]
  /\ bucket = [h \in Hashes |-> NoHash]
  /\ completing = [s \in Sessions |-> Resting]
  /\ cancelling = [s \in Sessions |-> Resting]

Exists(m) == m \in Materials /\ material[m].status # "none"
Open(s) == session[s].state = "PENDING"

\* Every mutation of a material takes the next revision.
Touch(m, row) == [material EXCEPT ![m] = [row EXCEPT !.revision = material[m].revision + 1]]

Opened(m, h, state) == [Fresh EXCEPT !.state = state, !.material = m, !.hash = h]

-----------------------------------------------------------------------------
(* The statements.                                                         *)

\* beginUpload.  The presence of an object row is the deduplication decision:
\* with one, the material is READY with a version and the session is over.  A
\* row it sees is locked and there; one inserted since its snapshot it does not
\* see, and then claims it like a new one.
BeginUpload(m, h, s) ==
  \E deduplicated \in BOOLEAN :
    /\ ~Exists(m) /\ session[s].state = "none"
    /\ deduplicated => references[h] > 0
    /\ references' = [references EXCEPT ![h] = @ + 1]
    /\ material' = [material EXCEPT ![m] =
         [status |-> IF deduplicated THEN "READY" ELSE "UPLOADING", hash |-> h,
          current |-> IF deduplicated THEN s ELSE NoVersion,
          trashed |-> FALSE, revision |-> 1]]
    /\ version' = IF deduplicated
                  THEN [version EXCEPT ![s] = [material |-> m, hash |-> h, sequence |-> 1]]
                  ELSE version
    /\ session' = [session EXCEPT ![s] =
                     Opened(m, h, IF deduplicated THEN "COMPLETED" ELSE "PENDING")]
    /\ UNCHANGED <<bucket, completing, cancelling>>

\* claimed_object of a new version: always one more reference.
ClaimedObject(m, h) == [references EXCEPT ![h] = @ + 1]

\* createMaterialVersion: the version row is written and made current before
\* its bytes exist.
CreateMaterialVersion(m, h, s) ==
  /\ Exists(m) /\ ~material[m].trashed /\ session[s].state = "none"
  /\ material[m].revision < MaxRevision
  /\ references' = ClaimedObject(m, h)
  /\ material' = Touch(m, [material[m] EXCEPT !.status = "UPLOADING", !.hash = h,
                                              !.current = s])
  /\ version' = [version EXCEPT ![s] = [material |-> m, hash |-> h,
                                        sequence |-> material[m].revision + 1]]
  /\ session' = [session EXCEPT ![s] = Opened(m, h, "PENDING")]
  /\ UNCHANGED <<bucket, completing, cancelling>>

UpdateMaterialMetadata(m) ==
  /\ Exists(m) /\ material[m].revision < MaxRevision
  /\ material' = Touch(m, material[m])
  /\ UNCHANGED <<session, version, references, bucket, completing, cancelling>>

\* setTrashState, trashing.
MoveToTrash(m) ==
  /\ Exists(m) /\ ~material[m].trashed
  /\ material[m].revision < MaxRevision
  /\ material' = Touch(m, [material[m] EXCEPT !.trashed = TRUE, !.status = "TRASHED"])
  /\ UNCHANGED <<session, version, references, bucket, completing, cancelling>>

\* setTrashState, restoring.
RestoreMaterial(m) ==
  /\ Exists(m) /\ material[m].trashed
  /\ material[m].revision < MaxRevision
  /\ material' = Touch(m, [material[m] EXCEPT
       !.trashed = FALSE,
       !.status = IF material[m].current = NoVersion THEN "UPLOADING" ELSE "READY"])
  /\ UNCHANGED <<session, version, references, bucket, completing, cancelling>>

VersionRows(m) == {s \in Sessions : version[s].sequence > 0 /\ version[s].material = m}
OfContent(seen, h) == {s \in seen : version[s].hash = h}

\* The version rows of a material that a statement may see which took its
\* snapshot before it waited for the material's lock: the oldest ones.  Rows of
\* a material are only added while it exists.
SnapshotsOf(m) ==
  {seen \in SUBSET VersionRows(m) :
     \A s \in seen, r \in VersionRows(m) :
       version[r].sequence < version[s].sequence => r \in seen}

\* The object rows such a statement finds.  The object of a version it sees is
\* older than that version, and the claim of a first upload is as old as the
\* material; another object may have been inserted since.
Finds(m, seen, found) ==
  /\ {version[s].hash : s \in seen} \subseteq found
  /\ OfContent(VersionRows(m), material[m].hash) = {} => material[m].hash \in found

\* Mutant: the material also releases a hold for content its versions cover.
HeldTwice(m, h, seen) ==
  Cardinality(OfContent(seen, h)) + (IF material[m].hash = h THEN 1 ELSE 0)

\* held_references: the version rows it sees, and the claim of a first upload
\* that has no version row yet.
Held(m, h, seen) ==
  Cardinality(OfContent(seen, h))
    + (IF material[m].hash = h /\ OfContent(seen, h) = {} THEN 1 ELSE 0)

\* released_object where others still hold the object, dropped_object where
\* the count does not exceed what this material is seen to hold.
Released(m, seen, found) ==
  [h \in Hashes |->
     IF h \notin found THEN references[h]
     ELSE IF references[h] > Held(m, h, seen) THEN references[h] - Held(m, h, seen)
     ELSE 0]

\* purgeMaterial.  All version rows go with the material, those it did not see
\* too, and the sessions lose their reference to it; the bucket is not touched.
\* Of two purges of one material the second finds no row to lock.
PurgeMaterial(m) ==
  \E seen \in SnapshotsOf(m), found \in SUBSET Hashes :
    /\ Exists(m) /\ material[m].trashed
    /\ Finds(m, seen, found)
    /\ references' = Released(m, seen, found)
    /\ material' = [material EXCEPT ![m] = NoRow]
    /\ version' = [s \in Sessions |-> IF version[s].material = m THEN Unversioned
                                      ELSE version[s]]
    /\ session' = [s \in Sessions |->
         IF session[s].material = m THEN [session[s] EXCEPT !.material = NoMaterial]
         ELSE session[s]]
    /\ UNCHANGED <<bucket, completing, cancelling>>

-----------------------------------------------------------------------------
(* Uploads.                                                                *)

\* The keys an answer to beginUpload or createMaterialVersion names: that of the
\* session's content, and, in replayBeginUpload, that of the content the
\* material has by then.
AnsweredKeys(s) ==
  {session[s].hash} \cup
    {material[m].hash : m \in {o \in Materials : /\ o = session[s].material /\ Exists(o)
                                                 /\ version[s].sequence = 0}}

\* openMultipartAndIssueParts: the upload is opened in the bucket and its id
\* attached to the session, unless the session has closed meanwhile (the
\* bucket reclaims an upload no session names).  A replayed call comes back
\* here while the session has no id.
OpenMultipart(s) ==
  /\ Open(s) /\ session[s].remote = "none"
  /\ \E key \in AnsweredKeys(s) :
       session' = [session EXCEPT ![s].remote = "open", ![s].target = key]
  /\ UNCHANGED <<material, version, references, bucket, completing, cancelling>>

\* What a client sends, which may not be the content it declared.
Sendable(s) == {session[s].hash, Garbage}

\* Where the issuer signs whole objects the bytes arrive under a content key as
\* the client sends them.  Parts of a multipart upload show when it is assembled.
SendBytes(s) ==
  /\ issuer = "whole" /\ session[s].remote = "open"
  /\ \E key \in {session[s].target} \cup AnsweredKeys(s), bytes \in Sendable(s) :
       bucket' = [bucket EXCEPT ![key] = bytes]
  /\ UNCHANGED rows /\ UNCHANGED <<completing, cancelling>>

\* completeUpload and assembleAndVerifyStoredObject's reads.  A session without
\* an upload id goes to the statement unverified.  For one with an id the key is
\* that of the content the material has when it is read; the session was read
\* before that, at a moment when it was open, and may have closed since.
ReadForCompletion(s) ==
  /\ completing[s].pc = "idle"
  /\ \/ /\ Open(s) /\ session[s].remote = "none"
        /\ completing' = [completing EXCEPT ![s] = [pc |-> "record", key |-> NoHash]]
     \/ /\ session[s].remote # "none" /\ Exists(session[s].material)
        /\ completing' = [completing EXCEPT ![s] =
             [pc |-> "assemble", key |-> material[session[s].material].hash]]
  /\ UNCHANGED rows /\ UNCHANGED <<bucket, cancelling>>

\* The bucket has this upload under this key.
HasUpload(s) ==
  /\ issuer = "multipart" /\ session[s].remote = "open"
  /\ completing[s].key = session[s].target

\* completeMultipartUpload.  An S3 bucket puts the parts that were sent under the
\* key, whatever was there; an upload it does not have there counts as assembled
\* when there is an object; parts it lacks are an error.  A whole-object issuer
\* has nothing to assemble.
Assemble(s) ==
  /\ completing[s].pc = "assemble"
  /\ \/ /\ HasUpload(s)
        /\ \E bytes \in Sendable(s) :
             /\ bucket' = [bucket EXCEPT ![completing[s].key] = bytes]
             /\ session' = [session EXCEPT ![s].remote = "assembled", ![s].stored = bytes]
        /\ completing' = [completing EXCEPT ![s].pc = "verify"]
     \/ /\ ~HasUpload(s)
        /\ issuer = "whole" \/ bucket[completing[s].key] # NoHash
        /\ completing' = [completing EXCEPT ![s].pc = "verify"]
        /\ UNCHANGED <<bucket, session>>
  /\ UNCHANGED <<material, version, references, cancelling>>

\* Mutant: an object of the right size is taken for the content.
SizeVerified(s) == bucket[completing[s].key] # NoHash

\* verifyObject re-derives the digest of the bytes under the key.
Verified(s) == bucket[completing[s].key] = completing[s].key

\* verifyObject and assertObjectVerified.  A missing object, another digest and
\* another size than the session declared are refused, and the object stays.  The
\* sizes of two contents may agree or not.
Verify(s) ==
  /\ completing[s].pc = "verify"
  /\ \/ /\ Verified(s)
        /\ completing' = [completing EXCEPT ![s].pc = "record"]
     \/ /\ ~Verified(s) \/ completing[s].key # session[s].hash
        /\ completing' = [completing EXCEPT ![s] = Resting]
  /\ UNCHANGED rows /\ UNCHANGED <<bucket, cancelling>>

\* Mutant: the content the caller uploaded is not compared.
CompletableAny(s) == Open(s) /\ Exists(session[s].material)

\* completable_session and verified_material: the session is open, and the
\* material still reserves the content the caller uploaded.
Completable(s) ==
  /\ Open(s)
  /\ Exists(session[s].material)
  /\ material[session[s].material].hash = session[s].hash

\* Mutant: the version takes a revision the material has not reached.
SequenceAhead(m) == material[m].revision + 2

\* inserted_version's sequence.
NextSequence(m) == material[m].revision + 1

\* completeUpload's statement.  It does not ask whether the material is in the
\* trash.
CompleteUpload(s) ==
  LET m == session[s].material
  IN  /\ completing[s].pc = "record"
      /\ \/ /\ Completable(s) /\ material[m].revision < MaxRevision
            /\ session' = [session EXCEPT ![s].state = "COMPLETED",
                                          ![s].checked = completing[s].key]
            /\ version' = IF version[s].sequence > 0 THEN version
                          ELSE [version EXCEPT ![s] = [material |-> m, hash |-> session[s].hash,
                                                       sequence |-> NextSequence(m)]]
            /\ material' = Touch(m, [material[m] EXCEPT !.status = "READY", !.current = s])
            /\ completing' = [completing EXCEPT ![s] = Resting]
         \/ /\ ~Completable(s)
            /\ completing' = [completing EXCEPT ![s] = Resting]
            /\ UNCHANGED <<material, session, version>>
      /\ UNCHANGED <<references, bucket, cancelling>>

\* resolveStorageAbort: again the key of the content the material has now.
\* Without an upload id, or a material, there is nothing in the bucket to abort.
ReadForCancel(s) ==
  /\ cancelling[s].pc = "idle" /\ Open(s)
  /\ cancelling' = [cancelling EXCEPT ![s] =
       [pc |-> "cancel",
        key |-> IF session[s].remote # "none" /\ Exists(session[s].material)
                THEN material[session[s].material].hash ELSE NoHash]]
  /\ UNCHANGED rows /\ UNCHANGED <<bucket, completing>>

\* cancelUpload's statement: the session alone changes.
CancelUpload(s) ==
  /\ cancelling[s].pc = "cancel"
  /\ \/ /\ Open(s)
        /\ session' = [session EXCEPT ![s].state = "CANCELLED"]
        /\ cancelling' = [cancelling EXCEPT ![s].pc = "abort"]
     \/ /\ ~Open(s)
        /\ cancelling' = [cancelling EXCEPT ![s] = Resting]
        /\ UNCHANGED session
  /\ UNCHANGED <<material, version, references, bucket, completing>>

\* abortMultipartUpload, best effort.  An S3 bucket drops the parts of that
\* upload under that key; a whole-object issuer deletes the object itself.
Abort(s) ==
  /\ cancelling[s].pc = "abort"
  /\ cancelling' = [cancelling EXCEPT ![s] = Resting]
  /\ \/ /\ issuer = "multipart"
        /\ session' = IF session[s].remote = "open" /\ cancelling[s].key = session[s].target
                      THEN [session EXCEPT ![s].remote = "aborted"] ELSE session
        /\ UNCHANGED bucket
     \/ /\ issuer = "whole"
        /\ bucket' = [h \in Hashes |-> IF h = cancelling[s].key THEN NoHash ELSE bucket[h]]
        /\ UNCHANGED session
     \/ UNCHANGED <<session, bucket>>
  /\ UNCHANGED <<material, version, references, completing>>

\* The process dies, or a call fails: a completion in progress is gone.
AbandonCompletion(s) ==
  /\ completing[s].pc # "idle"
  /\ completing' = [completing EXCEPT ![s] = Resting]
  /\ UNCHANGED rows /\ UNCHANGED <<bucket, cancelling>>

-----------------------------------------------------------------------------
Statement == \/ \E m \in Materials, h \in Hashes, s \in Sessions :
                  BeginUpload(m, h, s) \/ CreateMaterialVersion(m, h, s)
             \/ \E m \in Materials : \/ UpdateMaterialMetadata(m)
                                     \/ MoveToTrash(m) \/ RestoreMaterial(m)
                                     \/ PurgeMaterial(m)

Upload(s) == \/ OpenMultipart(s) \/ SendBytes(s)
             \/ ReadForCompletion(s) \/ Assemble(s) \/ Verify(s) \/ CompleteUpload(s)
             \/ AbandonCompletion(s)
             \/ ReadForCancel(s) \/ CancelUpload(s) \/ Abort(s)

Next == /\ Statement \/ \E s \in Sessions : Upload(s)
        /\ UNCHANGED issuer

Spec == Init /\ [][Next]_vars

-----------------------------------------------------------------------------
Keys == Hashes \cup {NoHash}
Bytes == Keys \cup {Garbage}

\* Type correctness; a version row belongs to a material that exists and has
\* reached the version's sequence.
TypeOK ==
  /\ issuer \in Issuers
  /\ material \in [Materials -> [status : {"none", "UPLOADING", "READY", "TRASHED"},
                                 hash : Keys, current : Sessions \cup {NoVersion},
                                 trashed : BOOLEAN, revision : Nat]]
  /\ session \in [Sessions -> [state : {"none", "PENDING", "COMPLETED", "CANCELLED"},
                               material : Materials \cup {NoMaterial}, hash : Keys,
                               remote : {"none", "open", "assembled", "aborted"},
                               target : Keys, stored : Bytes, checked : Keys]]
  /\ version \in [Sessions -> [material : Materials \cup {NoMaterial}, hash : Keys,
                               sequence : Nat]]
  /\ references \in [Hashes -> Nat]
  /\ bucket \in [Hashes -> Bytes]
  /\ completing \in [Sessions -> [pc : {"idle", "assemble", "verify", "record"},
                                  key : Keys]]
  /\ cancelling \in [Sessions -> [pc : {"idle", "cancel", "abort"}, key : Keys]]
  /\ \A s \in Sessions : version[s].sequence > 0 =>
       /\ Exists(version[s].material)
       /\ version[s].sequence <= material[version[s].material].revision

\* The reference count stands between a purge and bytes others need: whatever
\* was uploaded, versioned, cancelled and purged in whatever order, and however
\* old the snapshots of the purges and the deduplication lookups, a version row's
\* object row is there.
VersionsBacked ==
  \A s \in Sessions : version[s].sequence > 0 => references[version[s].hash] > 0

\* current_version_id has no foreign key.  It names a version row of that
\* material all the same, and one of the content the material reserves.
CurrentResolves ==
  \A m \in Materials : material[m].current # NoVersion =>
    /\ version[material[m].current].material = m
    /\ version[material[m].current].hash = material[m].hash

\* Another upload's assembly put bytes that are not this content under its key.
Overwritten(s) ==
  \E t \in Sessions \ {s} : /\ session[t].remote = "assembled"
                             /\ session[t].target = session[s].hash
                             /\ session[t].stored # session[s].hash

\* A version recorded by a completion that verified its content has its bytes in
\* the bucket, whatever was sent, assembled, versioned, cancelled or abandoned
\* between the handler's reads, its two bucket calls and its statement; wrong
\* bytes of another upload under the same key are the one way to lose them.  A
\* bucket that cancellations delete objects from is another matter.
CompletedHasBytes ==
  issuer = "multipart" => \A s \in Sessions :
    (session[s].state = "COMPLETED" /\ session[s].checked = session[s].hash) =>
      bucket[session[s].hash] = session[s].hash \/ Overwritten(s)

\* A material that is READY has the bytes of its current version.
ReadyHasBytes ==
  \A m \in Materials : material[m].status = "READY" =>
    LET h == version[material[m].current].hash IN bucket[h] = h
=============================================================================
