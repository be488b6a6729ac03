----------------------- MODULE MaterialLibraryProofs ------------------------
(***************************************************************************)
(* The material library for any number of materials, uploads and contents, *)
(* under either storage.  The reference counts are justified by the upload *)
(* sessions: every session whose material has not been purged holds one    *)
(* reference to its content, whether or not it has a version row yet.      *)
(***************************************************************************)
EXTENDS MaterialLibrary, FiniteSetTheorems, TLAPS

-----------------------------------------------------------------------------
(* The inductive invariant.                                                *)

\* A session id that was never used has left no trace; one that was used
\* names a content.
FreshUntouched ==
  \A s \in Sessions :
    /\ session[s].state = "none" =>
         session[s] = Fresh /\ version[s] = Unversioned /\ completing[s].pc = "idle"
    /\ session[s].state # "none" => session[s].hash \in Hashes

\* A version row is that of its session's material and content.
VersionOfSession ==
  \A s \in Sessions :
    \/ version[s] = Unversioned
    \/ /\ version[s].sequence > 0
       /\ version[s].material = session[s].material
       /\ version[s].hash = session[s].hash

SessionsOf(m, h) == {s \in Sessions : session[s].material = m /\ session[s].hash = h}

\* The content a material reserves is one that a session of it was opened for.
Reserved ==
  \A m \in Materials :
    /\ ~Exists(m) => material[m] = NoRow
    /\ Exists(m) => material[m].hash \in Hashes /\ SessionsOf(m, material[m].hash) # {}

\* The sessions of a content whose material is still there.
Holders(h) == {s \in Sessions : session[s].material # NoMaterial /\ session[s].hash = h}

\* Each of them holds a reference.
Counted == \A h \in Hashes : Cardinality(Holders(h)) <= references[h]

RowsInv == TypeOK /\ FreshUntouched

CountInv == RowsInv /\ VersionOfSession /\ Reserved /\ Counted /\ CurrentResolves

-----------------------------------------------------------------------------
(* Types.                                                                  *)

MaterialRow == [status : {"none", "UPLOADING", "READY", "TRASHED"}, hash : Keys,
                current : Sessions \cup {NoVersion}, trashed : BOOLEAN, revision : Nat]

SessionRow == [state : {"none", "PENDING", "COMPLETED", "CANCELLED"},
               material : Materials \cup {NoMaterial}, hash : Keys,
               remote : {"none", "open", "assembled", "aborted"},
               target : Keys, stored : Bytes, checked : Keys]

VersionRow == [material : Materials \cup {NoMaterial}, hash : Keys, sequence : Nat]

Completion == [pc : {"idle", "assemble", "verify", "record"}, key : Keys]

Cancellation == [pc : {"idle", "cancel", "abort"}, key : Keys]

\* What TypeOK says beyond the types of the variables.
Reached == \A s \in Sessions : version[s].sequence > 0 =>
             /\ Exists(version[s].material)
             /\ version[s].sequence <= material[version[s].material].revision

LEMMA TypeParts ==
  TypeOK <=> /\ issuer \in Issuers
             /\ material \in [Materials -> MaterialRow]
             /\ session \in [Sessions -> SessionRow]
             /\ version \in [Sessions -> VersionRow]
             /\ references \in [Hashes -> Nat]
             /\ bucket \in [Hashes -> Bytes]
             /\ completing \in [Sessions -> Completion]
             /\ cancelling \in [Sessions -> Cancellation]
             /\ Reached
BY DEF TypeOK, MaterialRow, SessionRow, VersionRow, Completion, Cancellation, Reached

\* The blank rows are rows.
LEMMA BlankRows ==
  /\ NoRow \in MaterialRow /\ Fresh \in SessionRow /\ Unversioned \in VersionRow
  /\ Fresh.material = NoMaterial /\ Fresh.state = "none" /\ Fresh.hash = NoHash
  /\ Fresh.remote = "none" /\ Fresh.checked = NoHash
  /\ Unversioned.sequence = 0 /\ Unversioned.material = NoMaterial
  /\ NoRow.status = "none" /\ NoRow.hash = NoHash /\ NoRow.current = NoVersion
  /\ Resting.pc = "idle" /\ Resting.key \in Keys
BY DEF NoRow, Fresh, Unversioned, Resting, MaterialRow, SessionRow, VersionRow, Keys, Bytes

\* The initial state.
LEMMA RowsInit == Init => RowsInv
<1> SUFFICES ASSUME Init PROVE RowsInv
  OBVIOUS
<1>1. TypeOK
  BY BlankRows, TypeParts DEF Init, Reached, Resting, Keys, Bytes, Completion, Cancellation
<1>2. FreshUntouched
  BY BlankRows DEF Init, FreshUntouched, Resting
<1> QED
  BY <1>1, <1>2 DEF RowsInv

\* A mutation of an existing material, as Touch makes it.
LEMMA TouchRow ==
  ASSUME TypeOK, NEW m \in Materials, NEW row \in MaterialRow
  PROVE  LET touched == [row EXCEPT !.revision = material[m].revision + 1]
         IN  /\ Touch(m, row) = [material EXCEPT ![m] = touched]
             /\ touched \in MaterialRow
             /\ touched.status = row.status /\ touched.hash = row.hash
             /\ touched.current = row.current
             /\ touched.revision = material[m].revision + 1
<1>1. material[m].revision + 1 \in Nat
  BY TypeParts DEF MaterialRow
<1> QED
  BY <1>1 DEF Touch, MaterialRow

\* Versions survive a change of one material that keeps it and takes it to a
\* revision no lower.
LEMMA ReachedKept ==
  ASSUME TypeOK, NEW m \in Materials, NEW row \in MaterialRow,
         row.status # "none", row.revision >= material[m].revision,
         material' = [material EXCEPT ![m] = row], version' = version
  PROVE  Reached'
<1> SUFFICES ASSUME NEW s \in Sessions, version'[s].sequence > 0
             PROVE  /\ Exists(version[s].material)'
                    /\ version[s].sequence <= material'[version[s].material].revision
  BY DEF Reached
<1> DEFINE o == version[s].material
<1>1. /\ o \in Materials /\ material[o].status # "none"
      /\ version[s].sequence <= material[o].revision
      /\ version[s].sequence \in Nat /\ material[o].revision \in Nat
      /\ material[m].revision \in Nat /\ row.revision \in Nat
  BY TypeParts DEF Reached, Exists, MaterialRow, VersionRow
<1>2. material'[o] = IF o = m THEN row ELSE material[o]
  BY <1>1, TypeParts
<1> QED
  BY <1>1, <1>2 DEF Exists

\* A material whose row alone changes.
LEMMA MaterialStep ==
  ASSUME RowsInv, NEW m \in Materials, NEW row \in MaterialRow,
         row.status # "none", material' = Touch(m, row),
         UNCHANGED <<issuer, session, version, references, bucket, completing, cancelling>>
  PROVE  RowsInv'
<1> DEFINE touched == [row EXCEPT !.revision = material[m].revision + 1]
<1>1. /\ material' = [material EXCEPT ![m] = touched] /\ touched \in MaterialRow
      /\ touched.status # "none" /\ touched.revision = material[m].revision + 1
      /\ material[m].revision \in Nat
  BY TouchRow, TypeParts DEF RowsInv, MaterialRow
<1>2. Reached'
  <2> HIDE DEF touched
  <2>1. touched.revision >= material[m].revision
    BY <1>1
  <2> QED
    BY <1>1, <2>1, ReachedKept DEF RowsInv
<1>3. TypeOK'
  <2> HIDE DEF touched
  <2>1. material' \in [Materials -> MaterialRow]
    BY <1>1, TypeParts DEF RowsInv
  <2> QED
    BY <1>2, <2>1, TypeParts DEF RowsInv, Reached, Exists, TypeOK, MaterialRow
<1> QED
  BY <1>3 DEF RowsInv, FreshUntouched

\* What a mutation makes of a material it only touches.
LEMMA TouchedRows ==
  ASSUME RowsInv, NEW m \in Materials, Exists(m)
  PROVE  /\ material[m] \in MaterialRow /\ material[m].status # "none"
         /\ \A st \in {"UPLOADING", "READY", "TRASHED"}, b \in BOOLEAN :
              LET row == [material[m] EXCEPT !.trashed = b, !.status = st]
              IN  /\ row \in MaterialRow /\ row.status = st
                  /\ row.hash = material[m].hash /\ row.current = material[m].current
<1>1. material[m] \in MaterialRow
  BY TypeParts DEF RowsInv
<1>2. material[m].status # "none"
  BY DEF Exists
<1>3. ASSUME NEW st \in {"UPLOADING", "READY", "TRASHED"}, NEW b \in BOOLEAN
      PROVE  LET row == [material[m] EXCEPT !.trashed = b, !.status = st]
             IN  /\ row \in MaterialRow /\ row.status = st
                 /\ row.hash = material[m].hash /\ row.current = material[m].current
  <2> DEFINE once == [material[m] EXCEPT !.trashed = b]
             row == [once EXCEPT !.status = st]
  <2>1. /\ once \in MaterialRow
        /\ once.hash = material[m].hash /\ once.current = material[m].current
    BY <1>1 DEF MaterialRow
  <2>2. /\ row \in MaterialRow /\ row.status = st
        /\ row.hash = once.hash /\ row.current = once.current
    <3> HIDE DEF once
    <3> QED
      BY <2>1 DEF MaterialRow
  <2> QED
    BY <2>1, <2>2
<1> QED
  BY <1>1, <1>2, <1>3, Zenon

\* The mutations that change a material and nothing else: its content, its
\* current version and its existence stay.
LEMMA MetadataSteps ==
  ASSUME RowsInv, NEW m \in Materials, UNCHANGED issuer,
         UpdateMaterialMetadata(m) \/ MoveToTrash(m) \/ RestoreMaterial(m)
  PROVE  \E row \in MaterialRow :
           /\ row.status # "none" /\ row.hash = material[m].hash
           /\ row.current = material[m].current
           /\ Exists(m) /\ material' = Touch(m, row)
           /\ UNCHANGED <<issuer, session, version, references, bucket, completing, cancelling>>
<1>0. /\ Exists(m)
      /\ UNCHANGED <<issuer, session, version, references, bucket, completing, cancelling>>
  BY DEF UpdateMaterialMetadata, MoveToTrash, RestoreMaterial
<1>1. CASE UpdateMaterialMetadata(m)
  BY <1>0, <1>1, TouchedRows DEF UpdateMaterialMetadata
<1>2. CASE MoveToTrash(m)
  <2> DEFINE row == [material[m] EXCEPT !.trashed = TRUE, !.status = "TRASHED"]
  <2>1. material' = Touch(m, row)
    BY <1>2 DEF MoveToTrash
  <2>2. /\ row \in MaterialRow /\ row.status # "none" /\ row.hash = material[m].hash
        /\ row.current = material[m].current
    BY <1>0, TouchedRows
  <2> HIDE DEF row
  <2> QED
    BY <1>0, <2>1, <2>2
<1>3. CASE RestoreMaterial(m)
  <2> DEFINE st == IF material[m].current = NoVersion THEN "UPLOADING" ELSE "READY"
  <2> DEFINE row == [material[m] EXCEPT !.trashed = FALSE, !.status = st]
  <2>1. material' = Touch(m, row)
    BY <1>3 DEF RestoreMaterial
  <2>2. st \in {"UPLOADING", "READY", "TRASHED"}
    OBVIOUS
  <2>3. /\ row \in MaterialRow /\ row.status # "none" /\ row.hash = material[m].hash
        /\ row.current = material[m].current
    <3> HIDE DEF st
    <3> QED
      BY <1>0, <2>2, TouchedRows
  <2> HIDE DEF row
  <2> QED
    BY <1>0, <2>1, <2>3
<1> QED
  BY <1>1, <1>2, <1>3

\* A fresh session is opened for content h of material m, with a version row
\* that the material names or with none.
Opens(m, h, s, row, v, state) ==
  /\ session[s].state = "none"
  /\ row.status # "none" /\ row.hash = h
  /\ row.revision \in Nat \ {0} /\ row.revision >= material[m].revision
  /\ \/ v = Unversioned /\ row.current = NoVersion /\ state = "PENDING"
     \/ v = [material |-> m, hash |-> h, sequence |-> row.revision] /\ row.current = s
  /\ material' = [material EXCEPT ![m] = row]
  /\ version' = [version EXCEPT ![s] = v]
  /\ session' = [session EXCEPT ![s] = Opened(m, h, state)]
  /\ references' = [references EXCEPT ![h] = @ + 1]
  /\ UNCHANGED <<issuer, bucket, completing, cancelling>>

\* beginUpload and createMaterialVersion both do that.
LEMMA OpeningSteps ==
  ASSUME CountInv, UNCHANGED issuer,
         NEW m \in Materials, NEW h \in Hashes, NEW s \in Sessions,
         BeginUpload(m, h, s) \/ CreateMaterialVersion(m, h, s)
  PROVE  \E row \in MaterialRow, v \in VersionRow, state \in {"PENDING", "COMPLETED"} :
           Opens(m, h, s, row, v, state)
<1>0. /\ TypeOK /\ h \in Keys /\ m \in Materials \cup {NoMaterial}
      /\ material[m] \in MaterialRow /\ material[m].revision \in Nat
  BY TypeParts DEF CountInv, RowsInv, Keys, MaterialRow
<1>1. CASE BeginUpload(m, h, s)
  <2>0. material[m].revision = 0 /\ session[s].state = "none"
    BY <1>1 DEF BeginUpload, CountInv, Reserved, NoRow
  <2>00. version[s] = Unversioned
    BY <2>0 DEF CountInv, RowsInv, FreshUntouched
  <2>3. PICK deduplicated \in BOOLEAN :
         /\ material' = [material EXCEPT ![m] =
              [status |-> IF deduplicated THEN "READY" ELSE "UPLOADING", hash |-> h,
               current |-> IF deduplicated THEN s ELSE NoVersion,
               trashed |-> FALSE, revision |-> 1]]
         /\ version' = IF deduplicated
                       THEN [version EXCEPT ![s] = [material |-> m, hash |-> h, sequence |-> 1]]
                       ELSE version
         /\ session' = [session EXCEPT ![s] =
                          Opened(m, h, IF deduplicated THEN "COMPLETED" ELSE "PENDING")]
         /\ references' = [references EXCEPT ![h] = @ + 1]
         /\ UNCHANGED <<bucket, completing, cancelling>>
    BY <1>1 DEF BeginUpload
  <2>1. CASE deduplicated
    <3> DEFINE row == [status |-> "READY", hash |-> h, current |-> s, trashed |-> FALSE,
                       revision |-> 1]
               v == [material |-> m, hash |-> h, sequence |-> 1]
    <3>1. row \in MaterialRow /\ v \in VersionRow
      BY <1>0 DEF MaterialRow, VersionRow
    <3>2. /\ row.status # "none" /\ row.hash = h /\ row.current = s /\ row.revision = 1
          /\ v = [material |-> m, hash |-> h, sequence |-> row.revision]
      OBVIOUS
    <3>3. /\ material' = [material EXCEPT ![m] = row]
          /\ version' = [version EXCEPT ![s] = v]
          /\ session' = [session EXCEPT ![s] = Opened(m, h, "COMPLETED")]
          /\ references' = [references EXCEPT ![h] = @ + 1]
          /\ UNCHANGED <<issuer, bucket, completing, cancelling>>
      BY <2>1, <2>3
    <3> HIDE DEF row, v
    <3>4. Opens(m, h, s, row, v, "COMPLETED")
      BY <2>0, <3>2, <3>3 DEF Opens
    <3> QED
      BY <3>1, <3>4
  <2>2. CASE ~deduplicated
    <3> DEFINE row == [status |-> "UPLOADING", hash |-> h, current |-> NoVersion,
                       trashed |-> FALSE, revision |-> 1]
    <3>1. row \in MaterialRow /\ Unversioned \in VersionRow
      BY <1>0, BlankRows DEF MaterialRow
    <3>2. version = [version EXCEPT ![s] = Unversioned]
      BY <2>00, <1>0, TypeParts
    <3>3. /\ row.status # "none" /\ row.hash = h /\ row.current = NoVersion /\ row.revision = 1
      OBVIOUS
    <3>4. /\ material' = [material EXCEPT ![m] = row]
          /\ version' = version
          /\ session' = [session EXCEPT ![s] = Opened(m, h, "PENDING")]
          /\ references' = [references EXCEPT ![h] = @ + 1]
          /\ UNCHANGED <<issuer, bucket, completing, cancelling>>
      BY <2>2, <2>3
    <3> HIDE DEF row
    <3>5. Opens(m, h, s, row, Unversioned, "PENDING")
      BY <2>0, <3>2, <3>3, <3>4 DEF Opens
    <3> QED
      BY <3>1, <3>5
  <2> QED
    BY <2>1, <2>2
<1>2. CASE CreateMaterialVersion(m, h, s)
  <2> DEFINE base == [material[m] EXCEPT !.status = "UPLOADING", !.hash = h, !.current = s]
             row == [base EXCEPT !.revision = material[m].revision + 1]
             v == [material |-> m, hash |-> h, sequence |-> material[m].revision + 1]
  <2>1. base \in MaterialRow /\ base.status = "UPLOADING" /\ base.hash = h /\ base.current = s
    BY <1>0 DEF MaterialRow
  <2>2. /\ Touch(m, base) = [material EXCEPT ![m] = row]
        /\ row \in MaterialRow /\ row.status = "UPLOADING" /\ row.hash = h /\ row.current = s
        /\ row.revision = material[m].revision + 1
    <3> HIDE DEF base
    <3> QED
      BY <1>0, <2>1, TouchRow
  <2>3. v \in VersionRow
    BY <1>0 DEF VersionRow
  <2>4. /\ session[s].state = "none"
        /\ material' = Touch(m, base)
        /\ version' = [version EXCEPT ![s] = v]
        /\ session' = [session EXCEPT ![s] = Opened(m, h, "PENDING")]
        /\ references' = [references EXCEPT ![h] = @ + 1]
        /\ UNCHANGED <<issuer, bucket, completing, cancelling>>
    BY <1>2 DEF CreateMaterialVersion, ClaimedObject
  <2>5. v = [material |-> m, hash |-> h, sequence |-> row.revision]
    BY <2>2
  <2>6. row.revision \in Nat \ {0} /\ row.revision >= material[m].revision
    BY <1>0, <2>2
  <2> HIDE DEF base, row, v
  <2>7. Opens(m, h, s, row, v, "PENDING")
    BY <2>2, <2>4, <2>5, <2>6 DEF Opens
  <2> QED
    BY <2>2, <2>3, <2>7
<1> QED
  BY <1>1, <1>2

\* The row of a session that was just opened.
LEMMA OpenedRow ==
  ASSUME NEW m \in Materials, NEW h \in Hashes, NEW state \in {"PENDING", "COMPLETED"}
  PROVE  /\ Opened(m, h, state) \in SessionRow
         /\ Opened(m, h, state).state = state
         /\ Opened(m, h, state).material = m /\ Opened(m, h, state).hash = h
         /\ Opened(m, h, state).remote = "none" /\ Opened(m, h, state).checked = NoHash
BY DEF Opened, Fresh, SessionRow, Keys, Bytes

\* What a state looks like after an opening.
LEMMA OpenedState ==
  ASSUME RowsInv, NEW m \in Materials, NEW h \in Hashes, NEW s \in Sessions,
         NEW row \in MaterialRow, NEW v \in VersionRow, NEW state \in {"PENDING", "COMPLETED"},
         Opens(m, h, s, row, v, state)
  PROVE  /\ version[s] = Unversioned /\ session[s] = Fresh /\ completing[s].pc = "idle"
         /\ material' \in [Materials -> MaterialRow]
         /\ session' \in [Sessions -> SessionRow]
         /\ version' \in [Sessions -> VersionRow]
         /\ references' \in [Hashes -> Nat]
         /\ \A o \in Materials : material'[o] = IF o = m THEN row ELSE material[o]
         /\ \A r \in Sessions : version'[r] = IF r = s THEN v ELSE version[r]
         /\ \A r \in Sessions : r # s => session'[r] = session[r]
         /\ session'[s] = Opened(m, h, state)
         /\ \A g \in Hashes : references'[g] = IF g = h THEN references[g] + 1 ELSE references[g]
<1>1. version[s] = Unversioned /\ session[s] = Fresh /\ completing[s].pc = "idle"
  BY DEF Opens, RowsInv, FreshUntouched
<1>2. /\ material' \in [Materials -> MaterialRow]
      /\ \A o \in Materials : material'[o] = IF o = m THEN row ELSE material[o]
  BY TypeParts DEF Opens, RowsInv
<1>3. /\ session' \in [Sessions -> SessionRow]
      /\ \A r \in Sessions : r # s => session'[r] = session[r]
      /\ session'[s] = Opened(m, h, state)
  BY TypeParts, OpenedRow DEF Opens, RowsInv
<1>4. /\ version' \in [Sessions -> VersionRow]
      /\ \A r \in Sessions : version'[r] = IF r = s THEN v ELSE version[r]
  BY TypeParts DEF Opens, RowsInv
<1>5. /\ references' \in [Hashes -> Nat]
      /\ \A g \in Hashes : references'[g] = IF g = h THEN references[g] + 1 ELSE references[g]
  BY TypeParts DEF Opens, RowsInv
<1> QED
  BY <1>1, <1>2, <1>3, <1>4, <1>5

\* An opening keeps the types, and leaves the fresh sessions fresh.
LEMMA OpensRows ==
  ASSUME RowsInv, NEW m \in Materials, NEW h \in Hashes, NEW s \in Sessions,
         NEW row \in MaterialRow, NEW v \in VersionRow, NEW state \in {"PENDING", "COMPLETED"},
         Opens(m, h, s, row, v, state)
  PROVE  RowsInv'
<1>1. Reached'
  <2> SUFFICES ASSUME NEW r \in Sessions, version'[r].sequence > 0
               PROVE  /\ Exists(version[r].material)'
                      /\ version'[r].sequence <= material'[version'[r].material].revision
    BY DEF Reached
  <2>1. CASE r = s
    <3>1. version'[r] = v
      BY <2>1, OpenedState
    <3>2. v.sequence = row.revision /\ v.material = m
      BY <3>1, BlankRows DEF Opens
    <3>3. material'[m] = row /\ row.status # "none" /\ row.revision \in Nat
      BY OpenedState DEF Opens
    <3> QED
      BY <3>1, <3>2, <3>3 DEF Exists
  <2>2. CASE r # s
    <3> DEFINE o == version[r].material
    <3>1. version'[r] = version[r]
      BY <2>2, OpenedState
    <3>2. /\ o \in Materials /\ material[o].status # "none"
          /\ version[r].sequence <= material[o].revision
          /\ version[r].sequence \in Nat /\ material[o].revision \in Nat
      BY <3>1, TypeParts DEF RowsInv, Reached, Exists, MaterialRow, VersionRow
    <3>3. /\ material'[o] = IF o = m THEN row ELSE material[o]
      BY <3>2, OpenedState
    <3>4. /\ row.status # "none" /\ row.revision \in Nat /\ row.revision >= material[m].revision
      BY DEF Opens
    <3> QED
      BY <3>1, <3>2, <3>3, <3>4 DEF Exists
  <2> QED
    BY <2>1, <2>2
<1>2. UNCHANGED <<issuer, bucket, completing, cancelling>>
  BY DEF Opens
<1>3. TypeOK'
  <2>1. /\ material' \in [Materials -> MaterialRow]
        /\ session' \in [Sessions -> SessionRow]
        /\ version' \in [Sessions -> VersionRow]
        /\ references' \in [Hashes -> Nat]
    BY OpenedState
  <2> QED
    BY <1>1, <1>2, <2>1, TypeParts DEF RowsInv, TypeOK, MaterialRow, SessionRow, VersionRow,
         Reached, Exists
<1>4. FreshUntouched'
  <2> SUFFICES ASSUME NEW r \in Sessions
               PROVE  /\ session'[r].state = "none" =>
                           /\ session'[r] = Fresh /\ version'[r] = Unversioned
                           /\ completing'[r].pc = "idle"
                      /\ session'[r].state # "none" => session'[r].hash \in Hashes
    BY DEF FreshUntouched
  <2>1. CASE r = s
    BY <2>1, OpenedState, OpenedRow
  <2>2. CASE r # s
    <3>1. session'[r] = session[r] /\ version'[r] = version[r]
      BY <2>2, OpenedState
    <3> QED
      BY <1>2, <3>1 DEF RowsInv, FreshUntouched
  <2> QED
    BY <2>1, <2>2
<1> QED
  BY <1>3, <1>4 DEF RowsInv

\* A step of a handler, of the client or of the bucket: sessions move on and
\* keep their material and their content; the other tables stay.
Carried ==
  /\ UNCHANGED <<issuer, material, version, references>>
  /\ session' \in [Sessions -> SessionRow]
  /\ bucket' \in [Hashes -> Bytes]
  /\ completing' \in [Sessions -> Completion]
  /\ cancelling' \in [Sessions -> Cancellation]
  /\ \A s \in Sessions :
       /\ session'[s].material = session[s].material /\ session'[s].hash = session[s].hash
       /\ session[s].state = "none" => session'[s] = session[s] /\ completing'[s].pc = "idle"
       /\ session[s].state # "none" => session'[s].state # "none"

\* What such a step does to the row of one session.
LEMMA SessionMoves ==
  ASSUME RowsInv, NEW s \in Sessions, session[s].state # "none",
         NEW row \in SessionRow, row.material = session[s].material,
         row.hash = session[s].hash, row.state # "none",
         session' = [session EXCEPT ![s] = row]
  PROVE  /\ session' \in [Sessions -> SessionRow]
         /\ \A r \in Sessions :
              /\ session'[r].material = session[r].material /\ session'[r].hash = session[r].hash
              /\ session[r].state = "none" => session'[r] = session[r]
              /\ session[r].state # "none" => session'[r].state # "none"
<1>1. session \in [Sessions -> SessionRow]
  BY TypeParts DEF RowsInv
<1>2. \A r \in Sessions : session'[r] = IF r = s THEN row ELSE session[r]
  BY <1>1
<1> QED
  BY <1>1, <1>2

\* The rows a handler or the bucket writes.
LEMMA SessionWrites ==
  ASSUME RowsInv, NEW s \in Sessions
  PROVE  /\ session[s] \in SessionRow
         /\ \A k \in Keys :
              LET row == [session[s] EXCEPT !.remote = "open", !.target = k]
              IN  /\ row \in SessionRow /\ row.state = session[s].state
                  /\ row.material = session[s].material /\ row.hash = session[s].hash
                  /\ [session EXCEPT ![s].remote = "open", ![s].target = k]
                       = [session EXCEPT ![s] = row]
         /\ \A b \in Bytes :
              LET row == [session[s] EXCEPT !.remote = "assembled", !.stored = b]
              IN  /\ row \in SessionRow /\ row.state = session[s].state
                  /\ row.material = session[s].material /\ row.hash = session[s].hash
                  /\ [session EXCEPT ![s].remote = "assembled", ![s].stored = b]
                       = [session EXCEPT ![s] = row]
         /\ LET row == [session[s] EXCEPT !.remote = "aborted"]
            IN  /\ row \in SessionRow /\ row.state = session[s].state
                /\ row.material = session[s].material /\ row.hash = session[s].hash
                /\ [session EXCEPT ![s].remote = "aborted"] = [session EXCEPT ![s] = row]
         /\ LET row == [session[s] EXCEPT !.state = "CANCELLED"]
            IN  /\ row \in SessionRow /\ row.state = "CANCELLED"
                /\ row.material = session[s].material /\ row.hash = session[s].hash
                /\ [session EXCEPT ![s].state = "CANCELLED"] = [session EXCEPT ![s] = row]
         /\ \A k \in Keys :
              LET row == [session[s] EXCEPT !.state = "COMPLETED", !.checked = k]
              IN  /\ row \in SessionRow /\ row.state = "COMPLETED"
                  /\ row.material = session[s].material /\ row.hash = session[s].hash
                  /\ row.remote = session[s].remote /\ row.target = session[s].target
                  /\ row.stored = session[s].stored /\ row.checked = k
                  /\ [session EXCEPT ![s].state = "COMPLETED", ![s].checked = k]
                       = [session EXCEPT ![s] = row]
<1>1. session \in [Sessions -> SessionRow] /\ session[s] \in SessionRow
  BY TypeParts DEF RowsInv
<1> QED
  BY <1>1 DEF SessionRow

\* A handler moves only over a session in use.
LEMMA CompletingMoves ==
  ASSUME RowsInv, NEW s \in Sessions, session[s].state # "none", NEW c \in Completion,
         completing' = [completing EXCEPT ![s] = c]
  PROVE  /\ completing' \in [Sessions -> Completion]
         /\ completing'[s] = c
         /\ \A r \in Sessions : r # s => completing'[r] = completing[r]
         /\ \A r \in Sessions : session[r].state = "none" => completing'[r].pc = "idle"
<1>1. completing \in [Sessions -> Completion]
  BY TypeParts DEF RowsInv, Completion
<1>2. \A r \in Sessions : completing'[r] = IF r = s THEN c ELSE completing[r]
  BY <1>1
<1> QED
  BY <1>1, <1>2 DEF RowsInv, FreshUntouched

LEMMA CompletingWrites ==
  ASSUME RowsInv, NEW s \in Sessions
  PROVE  /\ Resting \in Completion /\ Resting.pc = "idle"
         /\ \A pc \in {"verify", "record"} :
              LET c == [completing[s] EXCEPT !.pc = pc]
              IN  /\ c \in Completion /\ c.pc = pc /\ c.key = completing[s].key
                  /\ [completing EXCEPT ![s].pc = pc] = [completing EXCEPT ![s] = c]
         /\ completing[s].key \in Keys
         /\ completing \in [Sessions -> Completion]
<1>1. completing \in [Sessions -> Completion]
  BY TypeParts DEF RowsInv, Completion
<1> QED
  BY <1>1, BlankRows DEF Completion, Resting, Keys

LEMMA CancellingWrites ==
  ASSUME RowsInv, NEW s \in Sessions
  PROVE  /\ [cancelling EXCEPT ![s] = Resting] \in [Sessions -> Cancellation]
         /\ [cancelling EXCEPT ![s].pc = "abort"] \in [Sessions -> Cancellation]
         /\ \A k \in Keys : [cancelling EXCEPT ![s] = [pc |-> "cancel", key |-> k]]
                              \in [Sessions -> Cancellation]
         /\ cancelling \in [Sessions -> Cancellation]
<1>1. cancelling \in [Sessions -> Cancellation]
  BY TypeParts DEF RowsInv, Cancellation
<1>2. Resting \in Cancellation
  BY DEF Resting, Cancellation, Keys
<1>3. [cancelling[s] EXCEPT !.pc = "abort"] \in Cancellation
  BY <1>1 DEF Cancellation
<1>4. \A k \in Keys : [pc |-> "cancel", key |-> k] \in Cancellation
  BY DEF Cancellation
<1> QED
  BY <1>1, <1>2, <1>3, <1>4

\* Nothing but the handlers moves.
LEMMA HandlersOnly ==
  ASSUME RowsInv, UNCHANGED <<issuer, material, version, references, session>>,
         bucket' \in [Hashes -> Bytes], completing' \in [Sessions -> Completion],
         cancelling' \in [Sessions -> Cancellation],
         \A r \in Sessions : session[r].state = "none" => completing'[r].pc = "idle"
  PROVE  Carried
BY TypeParts DEF Carried, RowsInv

\* A session moves, and handlers with it.
LEMMA SessionOnly ==
  ASSUME RowsInv, UNCHANGED <<issuer, material, version, references>>,
         NEW s \in Sessions, session[s].state # "none",
         NEW row \in SessionRow, row.material = session[s].material,
         row.hash = session[s].hash, row.state # "none",
         session' = [session EXCEPT ![s] = row],
         bucket' \in [Hashes -> Bytes], completing' \in [Sessions -> Completion],
         cancelling' \in [Sessions -> Cancellation],
         \A r \in Sessions : session[r].state = "none" => completing'[r].pc = "idle"
  PROVE  Carried
<1>1. /\ session' \in [Sessions -> SessionRow]
      /\ \A r \in Sessions :
           /\ session'[r].material = session[r].material /\ session'[r].hash = session[r].hash
           /\ session[r].state = "none" => session'[r] = session[r]
           /\ session[r].state # "none" => session'[r].state # "none"
  BY SessionMoves
<1> QED
  BY <1>1 DEF Carried

\* The steps of an upload that record nothing.
Unrecorded(s) ==
  \/ OpenMultipart(s) \/ SendBytes(s) \/ ReadForCompletion(s) \/ Assemble(s) \/ Verify(s)
  \/ AbandonCompletion(s) \/ ReadForCancel(s) \/ CancelUpload(s) \/ Abort(s)
  \/ CompleteUpload(s) /\ ~Completable(s)

\* A session with an upload in the bucket, or with a handler at work, is in use.
LEMMA InUse ==
  ASSUME RowsInv, NEW s \in Sessions
  PROVE  /\ Open(s) => session[s].state # "none"
         /\ session[s].remote # "none" => session[s].state # "none"
         /\ completing[s].pc # "idle" => session[s].state # "none"
         /\ session[s].state # "none" => session[s].hash \in Hashes
BY BlankRows DEF RowsInv, FreshUntouched, Open

\* They carry the tables through.
LEMMA UploadSteps ==
  ASSUME RowsInv, UNCHANGED issuer, NEW s \in Sessions, Unrecorded(s)
  PROVE  Carried
<1>0. /\ bucket \in [Hashes -> Bytes]
      /\ completing \in [Sessions -> Completion]
      /\ cancelling \in [Sessions -> Cancellation]
      /\ \A r \in Sessions : session[r].state = "none" => completing[r].pc = "idle"
      /\ \A o \in Materials : material[o].hash \in Keys
      /\ NoHash \in Keys /\ Garbage \in Bytes /\ Keys \subseteq Bytes
      /\ session[s].hash \in Keys /\ session[s].target \in Keys
  BY TypeParts DEF RowsInv, FreshUntouched, MaterialRow, SessionRow, Keys, Bytes
<1>1. CASE OpenMultipart(s)
  <2>1. PICK k \in AnsweredKeys(s) :
          session' = [session EXCEPT ![s].remote = "open", ![s].target = k]
    BY <1>1 DEF OpenMultipart
  <2>2. k \in Keys
    BY <1>0 DEF AnsweredKeys
  <2> DEFINE row == [session[s] EXCEPT !.remote = "open", !.target = k]
  <2>3. /\ row \in SessionRow /\ row.state = session[s].state
        /\ row.material = session[s].material /\ row.hash = session[s].hash
        /\ session' = [session EXCEPT ![s] = row]
    BY <2>1, <2>2, SessionWrites
  <2>4. /\ session[s].state # "none"
        /\ UNCHANGED <<issuer, material, version, references, bucket, completing, cancelling>>
    BY <1>1, InUse DEF OpenMultipart
  <2> HIDE DEF row
  <2> QED
    BY <1>0, <2>3, <2>4, SessionOnly
<1>2. CASE SendBytes(s)
  <2>1. PICK k \in {session[s].target} \cup AnsweredKeys(s), b \in Sendable(s) :
          bucket' = [bucket EXCEPT ![k] = b]
    BY <1>2 DEF SendBytes
  <2>2. b \in Bytes
    BY <1>0 DEF Sendable
  <2>3. bucket' \in [Hashes -> Bytes]
    BY <1>0, <2>1, <2>2
  <2>4. UNCHANGED <<issuer, material, version, references, session, completing, cancelling>>
    BY <1>2 DEF SendBytes, rows
  <2> QED
    BY <1>0, <2>3, <2>4, HandlersOnly
<1>3. CASE ReadForCompletion(s)
  <2>1. /\ session[s].state # "none"
        /\ UNCHANGED <<issuer, material, version, references, session, bucket, cancelling>>
    BY <1>3, InUse DEF ReadForCompletion, rows
  <2>2. PICK c \in Completion : completing' = [completing EXCEPT ![s] = c]
    BY <1>0, <1>3 DEF ReadForCompletion, Exists, Completion
  <2>3. /\ completing' \in [Sessions -> Completion]
        /\ \A r \in Sessions : session[r].state = "none" => completing'[r].pc = "idle"
    BY <2>1, <2>2, CompletingMoves
  <2> QED
    BY <1>0, <2>1, <2>3, HandlersOnly
<1>4. CASE Assemble(s)
  <2>0. /\ session[s].state # "none"
        /\ UNCHANGED <<issuer, material, version, references, cancelling>>
    BY <1>4, InUse DEF Assemble
  <2>1. PICK c \in Completion : completing' = [completing EXCEPT ![s] = c]
    BY <1>4, CompletingWrites DEF Assemble
  <2>2. /\ completing' \in [Sessions -> Completion]
        /\ \A r \in Sessions : session[r].state = "none" => completing'[r].pc = "idle"
    BY <2>0, <2>1, CompletingMoves
  <2>3. CASE UNCHANGED <<bucket, session>>
    BY <1>0, <2>0, <2>2, <2>3, HandlersOnly
  <2>4. CASE ~UNCHANGED <<bucket, session>>
    <3>1. PICK b \in Sendable(s) :
            /\ bucket' = [bucket EXCEPT ![completing[s].key] = b]
            /\ session' = [session EXCEPT ![s].remote = "assembled", ![s].stored = b]
      BY <1>4, <2>4 DEF Assemble
    <3>2. b \in Bytes
      BY <1>0 DEF Sendable
    <3> DEFINE row == [session[s] EXCEPT !.remote = "assembled", !.stored = b]
    <3>3. /\ row \in SessionRow /\ row.state = session[s].state
          /\ row.material = session[s].material /\ row.hash = session[s].hash
          /\ session' = [session EXCEPT ![s] = row]
      BY <3>1, <3>2, SessionWrites
    <3>4. bucket' \in [Hashes -> Bytes]
      BY <1>0, <3>1, <3>2
    <3> HIDE DEF row
    <3> QED
      BY <1>0, <2>0, <2>2, <3>3, <3>4, SessionOnly
  <2> QED
    BY <2>3, <2>4
<1>9. CASE Verify(s)
  <2>1. /\ session[s].state # "none"
        /\ UNCHANGED <<issuer, material, version, references, session, bucket, cancelling>>
    BY <1>9, InUse DEF Verify, rows
  <2>2. PICK c \in Completion : completing' = [completing EXCEPT ![s] = c]
    BY <1>9, CompletingWrites DEF Verify
  <2>3. /\ completing' \in [Sessions -> Completion]
        /\ \A r \in Sessions : session[r].state = "none" => completing'[r].pc = "idle"
    BY <2>1, <2>2, CompletingMoves
  <2> QED
    BY <1>0, <2>1, <2>3, HandlersOnly
<1>5. CASE AbandonCompletion(s) \/ (CompleteUpload(s) /\ ~Completable(s))
  <2>1. /\ completing[s].pc # "idle" /\ completing' = [completing EXCEPT ![s] = Resting]
        /\ UNCHANGED <<issuer, material, version, references, session, bucket, cancelling>>
    BY <1>5 DEF AbandonCompletion, CompleteUpload, rows
  <2>2. /\ completing' \in [Sessions -> Completion]
        /\ \A r \in Sessions : session[r].state = "none" => completing'[r].pc = "idle"
    BY <2>1, InUse, CompletingWrites, CompletingMoves
  <2> QED
    BY <1>0, <2>1, <2>2, HandlersOnly
<1>6. CASE ReadForCancel(s)
  <2>1. PICK k \in Keys : cancelling' = [cancelling EXCEPT ![s] = [pc |-> "cancel", key |-> k]]
    BY <1>0, <1>6 DEF ReadForCancel, Exists
  <2>2. UNCHANGED <<issuer, material, version, references, session, bucket, completing>>
    BY <1>6 DEF ReadForCancel, rows
  <2> QED
    BY <1>0, <2>1, <2>2, CancellingWrites, HandlersOnly
<1>7. CASE CancelUpload(s)
  <2>0. /\ cancelling' \in [Sessions -> Cancellation]
        /\ UNCHANGED <<issuer, material, version, references, bucket, completing>>
    BY <1>7, CancellingWrites DEF CancelUpload
  <2>1. CASE Open(s) /\ session' = [session EXCEPT ![s].state = "CANCELLED"]
    <3> DEFINE row == [session[s] EXCEPT !.state = "CANCELLED"]
    <3>1. /\ row \in SessionRow /\ row.state = "CANCELLED"
          /\ row.material = session[s].material /\ row.hash = session[s].hash
          /\ session' = [session EXCEPT ![s] = row]
      BY <2>1, SessionWrites
    <3>2. session[s].state # "none"
      BY <2>1, InUse
    <3> HIDE DEF row
    <3> QED
      BY <1>0, <2>0, <3>1, <3>2, SessionOnly
  <2>2. CASE UNCHANGED session
    BY <1>0, <2>0, <2>2, HandlersOnly
  <2> QED
    BY <1>7, <2>1, <2>2 DEF CancelUpload
<1>8. CASE Abort(s)
  <2>0. /\ cancelling' \in [Sessions -> Cancellation]
        /\ bucket' \in [Hashes -> Bytes]
        /\ UNCHANGED <<issuer, material, version, references, completing>>
    BY <1>0, <1>8, CancellingWrites DEF Abort
  <2>1. CASE session[s].remote = "open" /\ session' = [session EXCEPT ![s].remote = "aborted"]
    <3> DEFINE row == [session[s] EXCEPT !.remote = "aborted"]
    <3>1. /\ row \in SessionRow /\ row.state = session[s].state
          /\ row.material = session[s].material /\ row.hash = session[s].hash
          /\ session' = [session EXCEPT ![s] = row]
      BY <2>1, SessionWrites
    <3>2. session[s].state # "none"
      BY <2>1, InUse
    <3> HIDE DEF row
    <3> QED
      BY <1>0, <2>0, <3>1, <3>2, SessionOnly
  <2>2. CASE UNCHANGED session
    BY <1>0, <2>0, <2>2, HandlersOnly
  <2> QED
    BY <1>8, <2>1, <2>2 DEF Abort
<1> QED
  BY <1>1, <1>2, <1>3, <1>4, <1>5, <1>6, <1>7, <1>8, <1>9 DEF Unrecorded

\* Such a step keeps the types, and the fresh sessions fresh.
LEMMA CarriedRows ==
  ASSUME RowsInv, Carried
  PROVE  RowsInv'
<1>1. TypeOK'
  BY TypeParts DEF RowsInv, Carried, Completion, Cancellation, TypeOK, SessionRow, Exists
<1>2. FreshUntouched'
  BY DEF RowsInv, Carried, FreshUntouched
<1> QED
  BY <1>1, <1>2 DEF RowsInv

\* completeUpload's statement as it records the version v: the session is over,
\* and v is current at the material's next revision.
Records(s, m, row, v) ==
  /\ Completable(s) /\ m = session[s].material /\ m \in Materials
  /\ material[m].status # "none" /\ material[m].hash = session[s].hash
  /\ row.status = "READY" /\ row.hash = material[m].hash /\ row.current = s
  /\ row.revision = material[m].revision + 1
  /\ \/ v = version[s] /\ version[s].sequence > 0
     \/ v = [material |-> m, hash |-> session[s].hash, sequence |-> row.revision]
        /\ ~(version[s].sequence > 0)
  /\ material' = [material EXCEPT ![m] = row]
  /\ version' = [version EXCEPT ![s] = v]
  /\ session' = [session EXCEPT ![s] = [session[s] EXCEPT !.state = "COMPLETED",
                                                          !.checked = completing[s].key]]
  /\ completing[s].pc = "record" /\ completing' = [completing EXCEPT ![s] = Resting]
  /\ UNCHANGED <<issuer, references, bucket, cancelling>>

LEMMA RecordingStep ==
  ASSUME RowsInv, UNCHANGED issuer, NEW s \in Sessions, CompleteUpload(s), Completable(s)
  PROVE  \E m \in Materials, row \in MaterialRow, v \in VersionRow : Records(s, m, row, v)
<1> DEFINE m == session[s].material
           base == [material[m] EXCEPT !.status = "READY", !.current = s]
           row == [base EXCEPT !.revision = material[m].revision + 1]
           new == [material |-> m, hash |-> session[s].hash,
                   sequence |-> material[m].revision + 1]
           v == IF version[s].sequence > 0 THEN version[s] ELSE new
<1>0. /\ m \in Materials /\ material[m].status # "none" /\ material[m].hash = session[s].hash
      /\ material[m] \in MaterialRow /\ material[m].revision \in Nat
      /\ session[s].hash \in Keys /\ version[s] \in VersionRow
      /\ version \in [Sessions -> VersionRow]
  BY TypeParts DEF Completable, Exists, RowsInv, MaterialRow, SessionRow
<1>1. /\ material' = Touch(m, base)
      /\ version' = IF version[s].sequence > 0 THEN version ELSE [version EXCEPT ![s] = new]
      /\ session' = [session EXCEPT ![s].state = "COMPLETED", ![s].checked = completing[s].key]
      /\ completing[s].pc = "record" /\ completing' = [completing EXCEPT ![s] = Resting]
      /\ UNCHANGED <<issuer, references, bucket, cancelling>>
  BY DEF CompleteUpload, NextSequence
<1>2. base \in MaterialRow /\ base.status = "READY" /\ base.hash = material[m].hash
      /\ base.current = s
  BY <1>0 DEF MaterialRow
<1>3. /\ Touch(m, base) = [material EXCEPT ![m] = row] /\ row \in MaterialRow
      /\ row.status = "READY" /\ row.hash = material[m].hash /\ row.current = s
      /\ row.revision = material[m].revision + 1
  <2> HIDE DEF base, m
  <2> QED
    BY <1>0, <1>2, TouchRow DEF RowsInv
<1>4. v \in VersionRow /\ version' = [version EXCEPT ![s] = v]
  <2>1. new \in VersionRow
    BY <1>0 DEF VersionRow
  <2> HIDE DEF new, m
  <2> QED
    BY <1>0, <1>1, <2>1
<1>5. \/ v = version[s] /\ version[s].sequence > 0
      \/ v = [material |-> m, hash |-> session[s].hash, sequence |-> row.revision]
         /\ ~(version[s].sequence > 0)
  BY <1>3
<1>6. session' = [session EXCEPT ![s] = [session[s] EXCEPT !.state = "COMPLETED",
                                                          !.checked = completing[s].key]]
  BY <1>1, SessionWrites, CompletingWrites
<1> HIDE DEF base, row, new, v, m
<1>7. m = session[s].material
  BY DEF m
<1>8. Records(s, m, row, v)
  BY <1>0, <1>1, <1>3, <1>4, <1>5, <1>6, <1>7 DEF Records
<1> QED
  BY <1>0, <1>3, <1>4, <1>8

\* What a state looks like after a recording.
LEMMA RecordedState ==
  ASSUME RowsInv, NEW s \in Sessions, NEW m \in Materials, NEW row \in MaterialRow,
         NEW v \in VersionRow, Records(s, m, row, v)
  PROVE  /\ material' \in [Materials -> MaterialRow]
         /\ session' \in [Sessions -> SessionRow]
         /\ version' \in [Sessions -> VersionRow]
         /\ completing' \in [Sessions -> Completion]
         /\ session[s].state # "none" /\ session[s].hash \in Hashes
         /\ v.sequence > 0
         /\ \A o \in Materials : material'[o] = IF o = m THEN row ELSE material[o]
         /\ \A r \in Sessions : version'[r] = IF r = s THEN v ELSE version[r]
         /\ \A r \in Sessions : r # s => session'[r] = session[r]
         /\ session'[s].state = "COMPLETED" /\ session'[s].material = m
         /\ session'[s].hash = session[s].hash /\ session'[s].remote = session[s].remote
         /\ session'[s].target = session[s].target /\ session'[s].stored = session[s].stored
         /\ session'[s].checked = completing[s].key
         /\ completing'[s].pc = "idle"
         /\ \A r \in Sessions : r # s => completing'[r] = completing[r]
<1>1. /\ material' \in [Materials -> MaterialRow]
      /\ \A o \in Materials : material'[o] = IF o = m THEN row ELSE material[o]
  BY TypeParts DEF Records, RowsInv
<1>2. /\ version' \in [Sessions -> VersionRow]
      /\ \A r \in Sessions : version'[r] = IF r = s THEN v ELSE version[r]
  BY TypeParts DEF Records, RowsInv
<1>3. session[s].state # "none" /\ session[s].hash \in Hashes
  BY InUse DEF Records
<1>4. /\ session' \in [Sessions -> SessionRow]
      /\ \A r \in Sessions : r # s => session'[r] = session[r]
      /\ session'[s].state = "COMPLETED" /\ session'[s].material = m
      /\ session'[s].hash = session[s].hash /\ session'[s].remote = session[s].remote
      /\ session'[s].target = session[s].target /\ session'[s].stored = session[s].stored
      /\ session'[s].checked = completing[s].key
  <2> DEFINE done == [session[s] EXCEPT !.state = "COMPLETED", !.checked = completing[s].key]
  <2>1. /\ done \in SessionRow /\ done.state = "COMPLETED"
        /\ done.material = session[s].material /\ done.hash = session[s].hash
        /\ done.remote = session[s].remote /\ done.target = session[s].target
        /\ done.stored = session[s].stored /\ done.checked = completing[s].key
    <3>1. completing[s].key \in Keys
      BY CompletingWrites
    <3> QED
      BY <3>1, SessionWrites
  <2>2. session' = [session EXCEPT ![s] = done] /\ m = session[s].material
    BY DEF Records
  <2> HIDE DEF done
  <2> QED
    BY <2>1, <2>2, TypeParts DEF RowsInv
<1>5. /\ completing' \in [Sessions -> Completion]
      /\ completing'[s].pc = "idle"
      /\ \A r \in Sessions : r # s => completing'[r] = completing[r]
  BY <1>3, CompletingMoves, CompletingWrites DEF Records
<1>6. v.sequence > 0
  <2>1. material[m].revision \in Nat /\ row.revision = material[m].revision + 1
    BY TypeParts DEF RowsInv, MaterialRow, Records
  <2> QED
    BY <2>1 DEF Records
<1> QED
  BY <1>1, <1>2, <1>3, <1>4, <1>5, <1>6

\* A recording keeps the types, and the fresh sessions fresh.
LEMMA RecordsRows ==
  ASSUME RowsInv, NEW s \in Sessions, NEW m \in Materials, NEW row \in MaterialRow,
         NEW v \in VersionRow, Records(s, m, row, v)
  PROVE  RowsInv'
<1>1. Reached'
  <2> SUFFICES ASSUME NEW r \in Sessions, version'[r].sequence > 0
               PROVE  /\ Exists(version[r].material)'
                      /\ version'[r].sequence <= material'[version'[r].material].revision
    BY DEF Reached
  <2>0. /\ row.status # "none" /\ row.revision = material[m].revision + 1
        /\ material[m].revision \in Nat
    BY TypeParts DEF RowsInv, MaterialRow, Records
  <2>1. CASE version'[r] = version[r]
    <3> DEFINE o == version[r].material
    <3>1. /\ o \in Materials /\ material[o].status # "none"
          /\ version[r].sequence <= material[o].revision
          /\ version[r].sequence \in Nat /\ material[o].revision \in Nat
      BY <2>1, TypeParts DEF RowsInv, Reached, Exists, MaterialRow, VersionRow
    <3>2. material'[o] = IF o = m THEN row ELSE material[o]
      BY <3>1, RecordedState
    <3> QED
      BY <2>0, <2>1, <3>1, <3>2 DEF Exists
  <2>2. CASE version'[r] # version[r]
    <3>1. version'[r] = [material |-> m, hash |-> session[s].hash, sequence |-> row.revision]
      <4>1. r = s /\ version'[r] = v /\ v # version[s]
        BY <2>2, RecordedState
      <4> QED
        BY <4>1 DEF Records
    <3>2. material'[m] = row
      BY RecordedState
    <3> QED
      BY <2>0, <3>1, <3>2 DEF Exists
  <2> QED
    BY <2>1, <2>2
<1>2. UNCHANGED <<issuer, references, bucket, cancelling>>
  BY DEF Records
<1>3. TypeOK'
  <2>1. /\ material' \in [Materials -> MaterialRow]
        /\ session' \in [Sessions -> SessionRow]
        /\ version' \in [Sessions -> VersionRow]
        /\ completing' \in [Sessions -> Completion]
    BY RecordedState
  <2> QED
    BY <1>1, <1>2, <2>1, TypeParts DEF RowsInv, TypeOK, MaterialRow, SessionRow, VersionRow,
         Completion, Reached, Exists
<1>4. FreshUntouched'
  <2> SUFFICES ASSUME NEW r \in Sessions
               PROVE  /\ session'[r].state = "none" =>
                           /\ session'[r] = Fresh /\ version'[r] = Unversioned
                           /\ completing'[r].pc = "idle"
                      /\ session'[r].state # "none" => session'[r].hash \in Hashes
    BY DEF FreshUntouched
  <2>1. CASE r = s
    BY <2>1, RecordedState
  <2>2. CASE r # s
    <3>1. session'[r] = session[r] /\ version'[r] = version[r] /\ completing'[r] = completing[r]
      BY <2>2, RecordedState
    <3> QED
      BY <3>1 DEF RowsInv, FreshUntouched
  <2> QED
    BY <2>1, <2>2
<1> QED
  BY <1>3, <1>4 DEF RowsInv

\* What a purge leaves.
LEMMA PurgedState ==
  ASSUME RowsInv, NEW m \in Materials, PurgeMaterial(m)
  PROVE  /\ material' \in [Materials -> MaterialRow]
         /\ session' \in [Sessions -> SessionRow]
         /\ version' \in [Sessions -> VersionRow]
         /\ references' \in [Hashes -> Nat]
         /\ \A o \in Materials : material'[o] = IF o = m THEN NoRow ELSE material[o]
         /\ \A r \in Sessions : version'[r] = IF version[r].material = m THEN Unversioned
                                              ELSE version[r]
         /\ \A r \in Sessions :
              /\ session'[r].material = IF session[r].material = m THEN NoMaterial
                                        ELSE session[r].material
              /\ session'[r].hash = session[r].hash /\ session'[r].state = session[r].state
              /\ session'[r].remote = session[r].remote /\ session'[r].target = session[r].target
              /\ session'[r].stored = session[r].stored
              /\ session'[r].checked = session[r].checked
              /\ session[r].material # m => session'[r] = session[r]
         /\ UNCHANGED <<bucket, completing, cancelling>>
<1>1. /\ material' \in [Materials -> MaterialRow]
      /\ \A o \in Materials : material'[o] = IF o = m THEN NoRow ELSE material[o]
  BY TypeParts, BlankRows DEF PurgeMaterial, RowsInv
<1>2. /\ version' \in [Sessions -> VersionRow]
      /\ \A r \in Sessions : version'[r] = IF version[r].material = m THEN Unversioned
                                           ELSE version[r]
  BY TypeParts, BlankRows DEF PurgeMaterial, RowsInv
<1>3. \A r \in Sessions :
        LET row == [session[r] EXCEPT !.material = NoMaterial]
        IN  /\ session[r] \in SessionRow /\ row \in SessionRow
            /\ row.material = NoMaterial /\ row.hash = session[r].hash
            /\ row.state = session[r].state /\ row.remote = session[r].remote
            /\ row.target = session[r].target /\ row.stored = session[r].stored
            /\ row.checked = session[r].checked
  <2> TAKE r \in Sessions
  <2>1. session[r] \in SessionRow
    BY TypeParts DEF RowsInv
  <2> QED
    BY <2>1 DEF SessionRow
<1>4. session' = [r \in Sessions |->
                    IF session[r].material = m THEN [session[r] EXCEPT !.material = NoMaterial]
                    ELSE session[r]]
  BY DEF PurgeMaterial
<1>5. references' \in [Hashes -> Nat]
  <2>1. PICK seen \in SnapshotsOf(m), found \in SUBSET Hashes :
          references' = Released(m, seen, found)
    BY DEF PurgeMaterial
  <2>2. \A h \in Hashes : Held(m, h, seen) \in Nat
    <3> TAKE h \in Hashes
    <3>1. IsFiniteSet(OfContent(seen, h))
      BY LibraryAssumption, FS_Subset DEF OfContent, SnapshotsOf, VersionRows
    <3> QED
      BY <3>1, FS_CardinalityType DEF Held
  <2>3. \A h \in Hashes : references[h] \in Nat
    BY TypeParts DEF RowsInv
  <2> QED
    BY <2>1, <2>2, <2>3 DEF Released
<1>6. UNCHANGED <<bucket, completing, cancelling>>
  BY DEF PurgeMaterial
<1> QED
  BY <1>1, <1>2, <1>3, <1>4, <1>5, <1>6

\* A purge keeps the types, and the fresh sessions fresh.
LEMMA PurgeRows ==
  ASSUME RowsInv, NEW m \in Materials, PurgeMaterial(m), UNCHANGED issuer
  PROVE  RowsInv'
<1>1. Reached'
  <2> SUFFICES ASSUME NEW r \in Sessions, version'[r].sequence > 0
               PROVE  /\ Exists(version[r].material)'
                      /\ version'[r].sequence <= material'[version'[r].material].revision
    BY DEF Reached
  <2>1. version[r].material # m /\ version'[r] = version[r]
    BY PurgedState, BlankRows
  <2>2. /\ version[r].material \in Materials /\ material[version[r].material].status # "none"
        /\ version[r].sequence <= material[version[r].material].revision
    BY <2>1, TypeParts DEF RowsInv, Reached, Exists
  <2>3. material'[version[r].material] = material[version[r].material]
    BY <2>1, <2>2, PurgedState
  <2> QED
    BY <2>1, <2>2, <2>3 DEF Exists
<1>2. TypeOK'
  <2>1. /\ material' \in [Materials -> MaterialRow]
        /\ session' \in [Sessions -> SessionRow]
        /\ version' \in [Sessions -> VersionRow]
        /\ references' \in [Hashes -> Nat]
        /\ UNCHANGED <<bucket, completing, cancelling>>
    BY PurgedState
  <2> QED
    BY <1>1, <2>1, TypeParts DEF RowsInv, TypeOK, MaterialRow, SessionRow, VersionRow,
         Reached, Exists
<1>3. FreshUntouched'
  <2> SUFFICES ASSUME NEW r \in Sessions
               PROVE  /\ session'[r].state = "none" =>
                           /\ session'[r] = Fresh /\ version'[r] = Unversioned
                           /\ completing'[r].pc = "idle"
                      /\ session'[r].state # "none" => session'[r].hash \in Hashes
    BY DEF FreshUntouched
  <2>1. CASE session[r].state = "none"
    <3>1. session[r] = Fresh /\ version[r] = Unversioned /\ completing[r].pc = "idle"
      BY <2>1 DEF RowsInv, FreshUntouched
    <3>2. session[r].material # m /\ version[r].material # m
      BY <3>1, BlankRows, LibraryAssumption
    <3> QED
      BY <2>1, <3>1, <3>2, PurgedState
  <2>2. CASE session[r].state # "none"
    BY <2>2, PurgedState DEF RowsInv, FreshUntouched
  <2> QED
    BY <2>1, <2>2
<1> QED
  BY <1>2, <1>3 DEF RowsInv

-----------------------------------------------------------------------------
(* References.                                                             *)

\* Sets of sessions are finite.
LEMMA HoldersFinite ==
  /\ \A h \in Hashes : IsFiniteSet(Holders(h)) /\ Cardinality(Holders(h)) \in Nat
  /\ \A m \in Materials, h \in Hashes :
       IsFiniteSet(SessionsOf(m, h)) /\ Cardinality(SessionsOf(m, h)) \in Nat
<1>1. \A h \in Hashes : IsFiniteSet(Holders(h)) /\ Cardinality(Holders(h)) \in Nat
  <2> TAKE h \in Hashes
  <2>1. Holders(h) \in SUBSET Sessions
    BY DEF Holders
  <2>2. IsFiniteSet(Holders(h))
    BY <2>1, LibraryAssumption, FS_Subset
  <2> QED
    BY <2>2, FS_CardinalityType
<1>2. ASSUME NEW m \in Materials, NEW h \in Hashes
      PROVE  IsFiniteSet(SessionsOf(m, h)) /\ Cardinality(SessionsOf(m, h)) \in Nat
  <2>1. SessionsOf(m, h) \in SUBSET Sessions
    BY DEF SessionsOf
  <2>2. IsFiniteSet(SessionsOf(m, h))
    BY <2>1, LibraryAssumption, FS_Subset
  <2> QED
    BY <2>2, FS_CardinalityType
<1> QED
  BY <1>1, <1>2

\* Sessions that keep their material and content hold what they held.
LEMMA SameHolders ==
  ASSUME \A r \in Sessions : /\ session'[r].material = session[r].material
                             /\ session'[r].hash = session[r].hash
  PROVE  /\ \A h \in Hashes : Holders(h)' = Holders(h)
         /\ \A m \in Materials, h \in Keys : SessionsOf(m, h)' = SessionsOf(m, h)
BY DEF Holders, SessionsOf

\* What a material holds by held_references, its sessions hold, whichever of its
\* version rows the statement saw.
LEMMA HeldBySessions ==
  ASSUME CountInv, NEW m \in Materials, Exists(m), NEW h \in Hashes,
         NEW seen \in SnapshotsOf(m)
  PROVE  Held(m, h, seen) \in Nat /\ Held(m, h, seen) <= Cardinality(SessionsOf(m, h))
<1>1. OfContent(seen, h) \in SUBSET SessionsOf(m, h)
  <2> SUFFICES ASSUME NEW s \in Sessions, version[s].sequence > 0,
                      version[s].material = m, version[s].hash = h
               PROVE  session[s].material = m /\ session[s].hash = h
    BY DEF OfContent, SnapshotsOf, VersionRows, SessionsOf
  <2> QED
    BY BlankRows DEF CountInv, VersionOfSession
<1>2. /\ IsFiniteSet(SessionsOf(m, h)) /\ Cardinality(SessionsOf(m, h)) \in Nat
      /\ IsFiniteSet(OfContent(seen, h))
      /\ Cardinality(OfContent(seen, h)) <= Cardinality(SessionsOf(m, h))
      /\ Cardinality(OfContent(seen, h)) \in Nat
  BY <1>1, HoldersFinite, FS_Subset, FS_CardinalityType
<1>3. CASE material[m].hash = h /\ OfContent(seen, h) = {}
  <2>1. SessionsOf(m, h) # {}
    BY <1>3 DEF CountInv, Reserved
  <2>2. Cardinality(SessionsOf(m, h)) # 0
    BY <1>2, <2>1, FS_EmptySet
  <2>3. Held(m, h, seen) = 1
    BY <1>3, FS_EmptySet DEF Held
  <2> QED
    BY <1>2, <2>2, <2>3
<1>4. CASE ~(material[m].hash = h /\ OfContent(seen, h) = {})
  BY <1>2, <1>4 DEF Held
<1> QED
  BY <1>3, <1>4

\* A purge gives back no more than the material's own sessions held.
LEMMA PurgeCounts ==
  ASSUME CountInv, NEW m \in Materials, PurgeMaterial(m)
  PROVE  Counted'
<1> SUFFICES ASSUME NEW h \in Hashes
             PROVE  Cardinality(Holders(h)') <= references'[h]
  BY DEF Counted
<1>0. PICK seen \in SnapshotsOf(m), found \in SUBSET Hashes :
        references' = Released(m, seen, found)
  BY DEF PurgeMaterial
<1>1. Exists(m) /\ RowsInv
  BY DEF PurgeMaterial, CountInv
<1>2. Holders(h)' = Holders(h) \ SessionsOf(m, h)
  BY <1>1, PurgedState, LibraryAssumption DEF Holders, SessionsOf
<1>3. SessionsOf(m, h) \subseteq Holders(h)
  BY LibraryAssumption DEF Holders, SessionsOf
<1>4. /\ IsFiniteSet(Holders(h)) /\ IsFiniteSet(SessionsOf(m, h))
      /\ Cardinality(Holders(h)) \in Nat /\ Cardinality(SessionsOf(m, h)) \in Nat
  BY HoldersFinite
<1>5. Holders(h) \cap SessionsOf(m, h) = SessionsOf(m, h)
  BY <1>3
<1>6. Cardinality(Holders(h)') = Cardinality(Holders(h)) - Cardinality(SessionsOf(m, h))
  BY <1>2, <1>4, <1>5, FS_Difference
<1>7. Held(m, h, seen) \in Nat /\ Held(m, h, seen) <= Cardinality(SessionsOf(m, h))
  BY <1>1, HeldBySessions
<1>8. Cardinality(Holders(h)) <= references[h] /\ references[h] \in Nat
  BY <1>1, TypeParts DEF CountInv, Counted, RowsInv
<1>9. references'[h] = IF h \notin found THEN references[h]
                       ELSE IF references[h] > Held(m, h, seen)
                       THEN references[h] - Held(m, h, seen) ELSE 0
  BY <1>0 DEF Released
<1> QED
  BY <1>4, <1>6, <1>7, <1>8, <1>9

LEMMA PurgeKeeps ==
  ASSUME CountInv, NEW m \in Materials, PurgeMaterial(m)
  PROVE  VersionOfSession' /\ Reserved' /\ CurrentResolves'
<1>0. RowsInv
  BY DEF CountInv
<1>1. VersionOfSession'
  <2> SUFFICES ASSUME NEW r \in Sessions
               PROVE  \/ version'[r] = Unversioned
                      \/ /\ version'[r].sequence > 0
                         /\ version'[r].material = session'[r].material
                         /\ version'[r].hash = session'[r].hash
    BY DEF VersionOfSession
  <2> QED
    BY <1>0, PurgedState DEF CountInv, VersionOfSession
<1>2. Reserved'
  <2> SUFFICES ASSUME NEW o \in Materials
               PROVE  /\ ~Exists(o)' => material'[o] = NoRow
                      /\ Exists(o)' => /\ material'[o].hash \in Hashes
                                       /\ SessionsOf(o, material[o].hash)' # {}
    BY DEF Reserved
  <2>1. CASE o = m
    BY <1>0, <2>1, PurgedState, BlankRows DEF Exists
  <2>2. CASE o # m
    <3>1. material'[o] = material[o]
      BY <1>0, <2>2, PurgedState
    <3>2. SessionsOf(o, material[o].hash)' = SessionsOf(o, material[o].hash)
      BY <1>0, <2>2, <3>1, PurgedState, LibraryAssumption DEF SessionsOf
    <3> QED
      BY <3>1, <3>2 DEF CountInv, Reserved, Exists
  <2> QED
    BY <2>1, <2>2
<1>3. CurrentResolves'
  <2> SUFFICES ASSUME NEW o \in Materials, material'[o].current # NoVersion
               PROVE  /\ version'[material'[o].current].material = o
                      /\ version'[material'[o].current].hash = material'[o].hash
    BY DEF CurrentResolves
  <2>1. o # m /\ material'[o] = material[o]
    BY <1>0, PurgedState, BlankRows
  <2>2. /\ material[o].current \in Sessions
        /\ version[material[o].current].material = o
        /\ version[material[o].current].hash = material[o].hash
    BY <1>0, <2>1, TypeParts DEF CountInv, CurrentResolves, RowsInv, MaterialRow
  <2> QED
    BY <1>0, <2>1, <2>2, PurgedState
<1> QED
  BY <1>1, <1>2, <1>3

\* An opened session takes the reference it holds.
LEMMA OpensCounts ==
  ASSUME CountInv, NEW m \in Materials, NEW h \in Hashes, NEW s \in Sessions,
         NEW row \in MaterialRow, NEW v \in VersionRow, NEW state \in {"PENDING", "COMPLETED"},
         Opens(m, h, s, row, v, state)
  PROVE  Counted'
<1> SUFFICES ASSUME NEW g \in Hashes
             PROVE  Cardinality(Holders(g)') <= references'[g]
  BY DEF Counted
<1>0. RowsInv
  BY DEF CountInv
<1>1. /\ session[s] = Fresh
      /\ \A r \in Sessions : r # s => session'[r] = session[r]
      /\ session'[s].material = m /\ session'[s].hash = h
      /\ references'[g] = IF g = h THEN references[g] + 1 ELSE references[g]
  BY <1>0, OpenedState, OpenedRow
<1>2. /\ IsFiniteSet(Holders(g)) /\ Cardinality(Holders(g)) \in Nat
      /\ Cardinality(Holders(g)) <= references[g] /\ references[g] \in Nat
  BY <1>0, HoldersFinite, TypeParts DEF CountInv, Counted, RowsInv
<1>3. s \notin Holders(g)
  BY <1>1, BlankRows DEF Holders
<1>4. CASE g = h
  <2>1. Holders(g)' = Holders(g) \cup {s}
    BY <1>1, <1>4, LibraryAssumption DEF Holders
  <2>2. Cardinality(Holders(g)') = Cardinality(Holders(g)) + 1
    BY <1>2, <1>3, <2>1, FS_AddElement
  <2> QED
    BY <1>1, <1>2, <1>4, <2>2
<1>5. CASE g # h
  <2>1. Holders(g)' = Holders(g)
    BY <1>1, <1>3, <1>5 DEF Holders
  <2> QED
    BY <1>1, <1>2, <1>5, <2>1
<1> QED
  BY <1>4, <1>5

LEMMA OpensKeeps ==
  ASSUME CountInv, NEW m \in Materials, NEW h \in Hashes, NEW s \in Sessions,
         NEW row \in MaterialRow, NEW v \in VersionRow, NEW state \in {"PENDING", "COMPLETED"},
         Opens(m, h, s, row, v, state)
  PROVE  VersionOfSession' /\ Reserved' /\ CurrentResolves'
<1>0. RowsInv
  BY DEF CountInv
<1>1. /\ session[s] = Fresh /\ version[s] = Unversioned
      /\ \A o \in Materials : material'[o] = IF o = m THEN row ELSE material[o]
      /\ \A r \in Sessions : version'[r] = IF r = s THEN v ELSE version[r]
      /\ \A r \in Sessions : r # s => session'[r] = session[r]
      /\ session'[s].material = m /\ session'[s].hash = h
  BY <1>0, OpenedState, OpenedRow
<1>2. /\ row.status # "none" /\ row.hash = h /\ row.revision \in Nat \ {0}
      /\ \/ v = Unversioned /\ row.current = NoVersion
         \/ /\ v.material = m /\ v.hash = h /\ v.sequence = row.revision
            /\ row.current = s
  BY DEF Opens
<1>3. VersionOfSession'
  <2> SUFFICES ASSUME NEW r \in Sessions
               PROVE  \/ version'[r] = Unversioned
                      \/ /\ version'[r].sequence > 0
                         /\ version'[r].material = session'[r].material
                         /\ version'[r].hash = session'[r].hash
    BY DEF VersionOfSession
  <2>1. CASE r = s
    BY <1>1, <1>2, <2>1
  <2>2. CASE r # s
    BY <1>1, <2>2 DEF CountInv, VersionOfSession
  <2> QED
    BY <2>1, <2>2
<1>4. Reserved'
  <2> SUFFICES ASSUME NEW o \in Materials
               PROVE  /\ ~Exists(o)' => material'[o] = NoRow
                      /\ Exists(o)' => /\ material'[o].hash \in Hashes
                                       /\ SessionsOf(o, material[o].hash)' # {}
    BY DEF Reserved
  <2>1. CASE o = m
    <3>1. s \in SessionsOf(o, material[o].hash)'
      BY <1>1, <1>2, <2>1 DEF SessionsOf
    <3> QED
      BY <1>1, <1>2, <2>1, <3>1 DEF Exists
  <2>2. CASE o # m
    <3>1. material'[o] = material[o]
      BY <1>1, <2>2
    <3>2. SessionsOf(o, material[o].hash)' = SessionsOf(o, material[o].hash)
      BY <1>1, <2>2, <3>1, BlankRows, LibraryAssumption DEF SessionsOf
    <3> QED
      BY <3>1, <3>2 DEF CountInv, Reserved, Exists
  <2> QED
    BY <2>1, <2>2
<1>5. CurrentResolves'
  <2> SUFFICES ASSUME NEW o \in Materials, material'[o].current # NoVersion
               PROVE  /\ version'[material'[o].current].material = o
                      /\ version'[material'[o].current].hash = material'[o].hash
    BY DEF CurrentResolves
  <2>1. CASE o = m
    BY <1>1, <1>2, <2>1
  <2>2. CASE o # m
    <3>1. material'[o] = material[o]
      BY <1>1, <2>2
    <3>2. /\ material[o].current \in Sessions
          /\ version[material[o].current].material = o
          /\ version[material[o].current].hash = material[o].hash
      BY <1>0, <3>1, TypeParts DEF CountInv, CurrentResolves, RowsInv, MaterialRow
    <3>3. material[o].current # s
      BY <1>1, <3>2, BlankRows, LibraryAssumption
    <3> QED
      BY <1>1, <3>1, <3>2, <3>3
  <2> QED
    BY <2>1, <2>2
<1> QED
  BY <1>3, <1>4, <1>5

\* A step of a handler, the client or the bucket counts nothing.
LEMMA CarriedKeeps ==
  ASSUME CountInv, Carried
  PROVE  VersionOfSession' /\ Reserved' /\ Counted' /\ CurrentResolves'
<1>0. /\ UNCHANGED <<material, version, references>>
      /\ \A r \in Sessions : /\ session'[r].material = session[r].material
                             /\ session'[r].hash = session[r].hash
  BY DEF Carried
<1>1. /\ \A h \in Hashes : Holders(h)' = Holders(h)
      /\ \A m \in Materials, h \in Keys : SessionsOf(m, h)' = SessionsOf(m, h)
  BY <1>0, SameHolders
<1>2. Reserved'
  BY <1>0, <1>1 DEF CountInv, Reserved, Exists, Keys
<1>3. VersionOfSession' /\ Counted' /\ CurrentResolves'
  BY <1>0, <1>1 DEF CountInv, VersionOfSession, Counted, CurrentResolves
<1> QED
  BY <1>2, <1>3

\* Nor does a mutation of a material's own columns.
LEMMA TouchKeeps ==
  ASSUME CountInv, NEW m \in Materials, NEW row \in MaterialRow,
         row.status # "none", row.hash = material[m].hash, row.current = material[m].current,
         Exists(m), material' = Touch(m, row),
         UNCHANGED <<issuer, session, version, references, bucket, completing, cancelling>>
  PROVE  VersionOfSession' /\ Reserved' /\ Counted' /\ CurrentResolves'
<1>0. RowsInv
  BY DEF CountInv
<1>1. /\ \A o \in Materials : /\ material'[o].hash = material[o].hash
                              /\ material'[o].current = material[o].current
                              /\ Exists(o)' <=> Exists(o)
                              /\ ~Exists(o) => material'[o] = material[o]
  <2> DEFINE touched == [row EXCEPT !.revision = material[m].revision + 1]
  <2>1. /\ material' = [material EXCEPT ![m] = touched]
        /\ touched.status = row.status /\ touched.hash = row.hash
        /\ touched.current = row.current
    BY <1>0, TouchRow DEF RowsInv
  <2> HIDE DEF touched
  <2>2. \A o \in Materials : material'[o] = IF o = m THEN touched ELSE material[o]
    BY <1>0, <2>1, TypeParts DEF RowsInv
  <2> QED
    BY <2>1, <2>2 DEF Exists
<1>2. /\ \A h \in Hashes : Holders(h)' = Holders(h)
      /\ \A o \in Materials, h \in Keys : SessionsOf(o, h)' = SessionsOf(o, h)
  BY SameHolders
<1>3. Reserved'
  BY <1>1, <1>2 DEF CountInv, Reserved, Keys
<1>4. VersionOfSession' /\ Counted' /\ CurrentResolves'
  BY <1>1, <1>2 DEF CountInv, VersionOfSession, Counted, CurrentResolves
<1> QED
  BY <1>3, <1>4

\* A recorded version takes over the reference its session holds.
LEMMA RecordsKeeps ==
  ASSUME CountInv, NEW s \in Sessions, NEW m \in Materials, NEW row \in MaterialRow,
         NEW v \in VersionRow, Records(s, m, row, v)
  PROVE  VersionOfSession' /\ Reserved' /\ Counted' /\ CurrentResolves'
<1>0. RowsInv
  BY DEF CountInv
<1>1. /\ \A o \in Materials : material'[o] = IF o = m THEN row ELSE material[o]
      /\ \A r \in Sessions : version'[r] = IF r = s THEN v ELSE version[r]
      /\ \A r \in Sessions : r # s => session'[r] = session[r]
      /\ session'[s].material = m /\ session'[s].hash = session[s].hash
      /\ v.sequence > 0
  BY <1>0, RecordedState
<1>2. /\ m = session[s].material /\ material[m].hash = session[s].hash
      /\ material[m].status # "none"
      /\ row.status # "none" /\ row.hash = material[m].hash /\ row.current = s
      /\ references' = references
  BY DEF Records
<1>3. v.material = m /\ v.hash = session[s].hash
  <2>1. CASE v = version[s] /\ version[s].sequence > 0
    <3>1. version[s] # Unversioned
      BY <2>1, BlankRows
    <3> QED
      BY <1>2, <2>1, <3>1 DEF CountInv, VersionOfSession
  <2>2. CASE v = [material |-> m, hash |-> session[s].hash, sequence |-> row.revision]
    BY <2>2
  <2> QED
    BY <2>1, <2>2 DEF Records
<1>4. /\ \A h \in Hashes : Holders(h)' = Holders(h)
      /\ \A o \in Materials, h \in Keys : SessionsOf(o, h)' = SessionsOf(o, h)
  BY <1>1, <1>2, SameHolders
<1>5. VersionOfSession'
  <2> SUFFICES ASSUME NEW r \in Sessions
               PROVE  \/ version'[r] = Unversioned
                      \/ /\ version'[r].sequence > 0
                         /\ version'[r].material = session'[r].material
                         /\ version'[r].hash = session'[r].hash
    BY DEF VersionOfSession
  <2>1. CASE r = s
    BY <1>1, <1>3, <2>1
  <2>2. CASE r # s
    BY <1>1, <2>2 DEF CountInv, VersionOfSession
  <2> QED
    BY <2>1, <2>2
<1>6. Reserved'
  BY <1>1, <1>2, <1>4 DEF CountInv, Reserved, Exists, Keys
<1>7. Counted'
  BY <1>2, <1>4 DEF CountInv, Counted
<1>8. CurrentResolves'
  <2> SUFFICES ASSUME NEW o \in Materials, material'[o].current # NoVersion
               PROVE  /\ version'[material'[o].current].material = o
                      /\ version'[material'[o].current].hash = material'[o].hash
    BY DEF CurrentResolves
  <2>1. CASE o = m
    BY <1>1, <1>2, <1>3, <2>1
  <2>2. CASE o # m
    <3>1. material'[o] = material[o]
      BY <1>1, <2>2
    <3>2. /\ material[o].current \in Sessions
          /\ version[material[o].current].material = o
          /\ version[material[o].current].hash = material[o].hash
      BY <1>0, <3>1, TypeParts DEF CountInv, CurrentResolves, RowsInv, MaterialRow
    <3>3. material[o].current # s
      BY <1>2, <2>2, <3>2, BlankRows, LibraryAssumption DEF CountInv, VersionOfSession
    <3> QED
      BY <1>1, <3>1, <3>2, <3>3
  <2> QED
    BY <2>1, <2>2
<1> QED
  BY <1>5, <1>6, <1>7, <1>8

-----------------------------------------------------------------------------
(* The step.                                                               *)

\* Every step is one of five kinds.
LEMMA StepKinds ==
  ASSUME CountInv, Next
  PROVE  \/ \E m \in Materials, h \in Hashes, s \in Sessions, row \in MaterialRow,
               v \in VersionRow, state \in {"PENDING", "COMPLETED"} :
              Opens(m, h, s, row, v, state)
         \/ \E m \in Materials, row \in MaterialRow :
              /\ row.status # "none" /\ row.hash = material[m].hash
              /\ row.current = material[m].current
              /\ Exists(m) /\ material' = Touch(m, row)
              /\ UNCHANGED <<issuer, session, version, references, bucket, completing,
                             cancelling>>
         \/ \E m \in Materials : PurgeMaterial(m)
         \/ \E s \in Sessions : Unrecorded(s)
         \/ \E s \in Sessions, m \in Materials, row \in MaterialRow, v \in VersionRow :
              Records(s, m, row, v)
<1>0. RowsInv /\ UNCHANGED issuer
  BY DEF CountInv, Next
<1>1. CASE \E m \in Materials, h \in Hashes, s \in Sessions :
             BeginUpload(m, h, s) \/ CreateMaterialVersion(m, h, s)
  BY <1>0, <1>1, OpeningSteps
<1>2. CASE \E m \in Materials : \/ UpdateMaterialMetadata(m)
                                \/ MoveToTrash(m) \/ RestoreMaterial(m)
  BY <1>0, <1>2, MetadataSteps
<1>3. CASE \E m \in Materials : PurgeMaterial(m)
  BY <1>3
<1>4. ASSUME NEW s \in Sessions, Upload(s)
      PROVE  \/ Unrecorded(s)
             \/ \E m \in Materials, row \in MaterialRow, v \in VersionRow :
                  Records(s, m, row, v)
  <2>1. CASE CompleteUpload(s) /\ Completable(s)
    BY <1>0, <2>1, RecordingStep
  <2>2. CASE ~(CompleteUpload(s) /\ Completable(s))
    BY <1>4, <2>2 DEF Upload, Unrecorded
  <2> QED
    BY <2>1, <2>2
<1> QED
  BY <1>1, <1>2, <1>3, <1>4 DEF Next, Statement

LEMMA CountKept ==
  ASSUME CountInv, [Next]_vars
  PROVE  CountInv'
<1>0. RowsInv
  BY DEF CountInv
<1>1. CASE vars' = vars
  <2>1. /\ UNCHANGED <<issuer, material, version, references, session, bucket, completing,
                       cancelling>>
    BY <1>1 DEF vars
  <2>2. Carried
    BY <1>0, <2>1, TypeParts DEF Carried, RowsInv, FreshUntouched, Completion, Cancellation
  <2> QED
    BY <1>0, <2>2, CarriedRows, CarriedKeeps DEF CountInv
<1>2. CASE Next
  <2>0. UNCHANGED issuer
    BY <1>2 DEF Next
  <2>1. ASSUME NEW m \in Materials, NEW h \in Hashes, NEW s \in Sessions,
               NEW row \in MaterialRow, NEW v \in VersionRow,
               NEW state \in {"PENDING", "COMPLETED"}, Opens(m, h, s, row, v, state)
        PROVE  CountInv'
    BY <1>0, <2>1, OpensRows, OpensCounts, OpensKeeps DEF CountInv
  <2>2. ASSUME NEW m \in Materials, NEW row \in MaterialRow,
               row.status # "none", row.hash = material[m].hash,
               row.current = material[m].current, Exists(m), material' = Touch(m, row),
               UNCHANGED <<issuer, session, version, references, bucket, completing,
                           cancelling>>
        PROVE  CountInv'
    BY <1>0, <2>2, MaterialStep, TouchKeeps DEF CountInv
  <2>3. ASSUME NEW m \in Materials, PurgeMaterial(m)
        PROVE  CountInv'
    BY <1>0, <2>0, <2>3, PurgeRows, PurgeCounts, PurgeKeeps DEF CountInv
  <2>4. ASSUME NEW s \in Sessions, Unrecorded(s)
        PROVE  CountInv'
    BY <1>0, <2>0, <2>4, UploadSteps, CarriedRows, CarriedKeeps DEF CountInv
  <2>5. ASSUME NEW s \in Sessions, NEW m \in Materials, NEW row \in MaterialRow,
               NEW v \in VersionRow, Records(s, m, row, v)
        PROVE  CountInv'
    BY <1>0, <2>5, RecordsRows, RecordsKeeps DEF CountInv
  <2> QED
    BY <1>2, <2>1, <2>2, <2>3, <2>4, <2>5, StepKinds
<1> QED
  BY <1>1, <1>2

LEMMA CountInit == Init => CountInv
<1> SUFFICES ASSUME Init PROVE CountInv
  OBVIOUS
<1>1. RowsInv
  BY RowsInit
<1>2. VersionOfSession /\ Reserved /\ CurrentResolves
  BY BlankRows DEF Init, VersionOfSession, Reserved, CurrentResolves, Exists
<1>3. Counted
  <2> SUFFICES ASSUME NEW h \in Hashes PROVE Cardinality(Holders(h)) <= references[h]
    BY DEF Counted
  <2>1. Holders(h) = {} /\ references[h] = 0
    BY BlankRows DEF Init, Holders
  <2> QED
    BY <2>1, FS_EmptySet
<1> QED
  BY <1>1, <1>2, <1>3 DEF CountInv

LEMMA CountHolds == Spec => []CountInv
BY CountInit, CountKept, PTL DEF Spec

\* Type correctness; every version row belongs to a material that exists and
\* has reached its sequence.
THEOREM LibraryTypes == Spec => []TypeOK
<1>1. CountInv => TypeOK
  BY DEF CountInv, RowsInv
<1> QED
  BY <1>1, CountHolds, PTL

\* No purge, however many versions, cancelled uploads and deduplicated copies
\* came before it and however old its snapshot of the version rows is, takes the
\* object row from under a version of another material: what held_references
\* subtracts, the sessions of the purged material hold.
THEOREM ReferencesHold == Spec => []VersionsBacked
<1>1. CountInv => VersionsBacked
  <2> SUFFICES ASSUME CountInv, NEW s \in Sessions, version[s].sequence > 0
               PROVE  references[version[s].hash] > 0
    BY DEF VersionsBacked
  <2> DEFINE h == version[s].hash
  <2>1. /\ version[s].material = session[s].material /\ session[s].material \in Materials
        /\ h = session[s].hash
    BY BlankRows DEF CountInv, RowsInv, TypeOK, Exists, VersionOfSession
  <2>2. h \in Hashes
    BY <2>1, BlankRows, LibraryAssumption DEF CountInv, RowsInv, FreshUntouched
  <2>3. s \in Holders(h)
    BY <2>1, LibraryAssumption DEF Holders
  <2>4. Cardinality(Holders(h)) \in Nat /\ Cardinality(Holders(h)) # 0
    BY <2>2, <2>3, HoldersFinite, FS_EmptySet
  <2>5. Cardinality(Holders(h)) <= references[h] /\ references[h] \in Nat
    BY <2>2 DEF CountInv, RowsInv, TypeOK, Counted
  <2> QED
    BY <2>4, <2>5
<1> QED
  BY <1>1, CountHolds, PTL

\* current_version_id always names a version row of that material, and one of
\* the content the material reserves.
THEOREM CurrentIsAVersion == Spec => []CurrentResolves
<1>1. CountInv => CurrentResolves
  BY DEF CountInv
<1> QED
  BY <1>1, CountHolds, PTL

-----------------------------------------------------------------------------
(* Bytes.                                                                  *)

\* A completion relies on the bytes of its session's own content: it is about
\* to record a version it verified, or has recorded it.
Relying(s) ==
  \/ completing[s].pc = "record" /\ completing[s].key = session[s].hash
  \/ session[s].state = "COMPLETED" /\ session[s].checked = session[s].hash

\* It is past assembling under the key of that content.
Assembled(s) ==
  \/ completing[s].pc = "verify" /\ completing[s].key = session[s].hash
  \/ Relying(s)

\* A handler goes to the bucket for sessions with an upload only.  Once past
\* assembling, a session has no upload left that could put other bytes under its
\* own key, so what it verified only another session's assembly can replace.
UploadInv(s) ==
  /\ completing[s].pc \in {"assemble", "verify"} => session[s].remote # "none"
  /\ (issuer = "multipart" /\ Assembled(s)) =>
       session[s].remote # "none"
         /\ ~(session[s].remote = "open" /\ session[s].target = session[s].hash)
  /\ (issuer = "multipart" /\ Relying(s)) =>
       bucket[session[s].hash] = session[s].hash \/ Overwritten(s)

BytesInv == CountInv /\ \A s \in Sessions : UploadInv(s)

\* A session keeps its content, and an assembly that was made.
Keeps(r) ==
  /\ session'[r].hash = session[r].hash
  /\ \A o \in Sessions : session[o].remote = "assembled" =>
       /\ session'[o].remote = "assembled"
       /\ session'[o].target = session[o].target /\ session'[o].stored = session[o].stored

LEMMA OverwrittenStays ==
  ASSUME NEW r \in Sessions, Keeps(r), Overwritten(r)
  PROVE  Overwritten(r)'
BY DEF Keeps, Overwritten

\* A session that no step of it changes, nor the bytes of its content.
LEMMA BytesStay ==
  ASSUME NEW r \in Sessions, UploadInv(r), UNCHANGED issuer, Keeps(r),
         bucket'[session[r].hash] = bucket[session[r].hash],
         completing'[r] = completing[r],
         session'[r].state = session[r].state, session'[r].remote = session[r].remote,
         session'[r].target = session[r].target, session'[r].checked = session[r].checked
  PROVE  UploadInv(r)'
<1>1. session'[r].hash = session[r].hash
  BY DEF Keeps
<1>2. Relying(r)' <=> Relying(r)
  BY <1>1 DEF Relying
<1>3. Assembled(r)' <=> Assembled(r)
  BY <1>1, <1>2 DEF Assembled
<1>4. Overwritten(r) => Overwritten(r)'
  BY OverwrittenStays
<1> QED
  BY <1>1, <1>2, <1>3, <1>4 DEF UploadInv

\* The steps of an upload, one at a time.
LEMMA OpenBytes ==
  ASSUME RowsInv, \A r \in Sessions : UploadInv(r), issuer = "multipart", UNCHANGED issuer,
         NEW s \in Sessions, OpenMultipart(s), NEW r \in Sessions
  PROVE  UploadInv(r)'
<1>1. PICK k \in AnsweredKeys(s) :
        session' = [session EXCEPT ![s].remote = "open", ![s].target = k]
  BY DEF OpenMultipart
<1>2. session[s].remote = "none" /\ UNCHANGED <<bucket, completing>>
  BY DEF OpenMultipart
<1>3. session \in [Sessions -> SessionRow]
  BY TypeParts DEF RowsInv
<1>4. /\ \A o \in Sessions : o # s => session'[o] = session[o]
      /\ session'[s].remote = "open" /\ session'[s].hash = session[s].hash
      /\ session'[s].state = session[s].state /\ session'[s].checked = session[s].checked
  BY <1>1, <1>3 DEF SessionRow
<1>5. CASE r = s
  <2>1. ~Assembled(s)
    BY <1>2 DEF UploadInv
  <2>2. ~Assembled(s)'
    BY <1>2, <1>4, <2>1 DEF Assembled, Relying
  <2> QED
    BY <1>4, <1>5, <2>2 DEF UploadInv, Assembled
<1>6. CASE r # s
  <2>1. Keeps(r)
    BY <1>2, <1>4, <1>6 DEF Keeps
  <2> QED
    BY <1>2, <1>4, <1>6, <2>1, BytesStay
<1> QED
  BY <1>5, <1>6

\* A handler that reads, or gives up, relies on nothing yet.
LEMMA RestBytes ==
  ASSUME RowsInv, \A r \in Sessions : UploadInv(r), issuer = "multipart", UNCHANGED issuer,
         NEW s \in Sessions, session[s].state # "none", UNCHANGED <<session, bucket>>,
         NEW c \in Completion, completing' = [completing EXCEPT ![s] = c],
         \/ c.pc = "idle"
         \/ c.pc = "record" /\ c.key = NoHash
         \/ c.pc = "assemble" /\ session[s].remote # "none",
         NEW r \in Sessions
  PROVE  UploadInv(r)'
<1>1. /\ completing'[s] = c
      /\ \A o \in Sessions : o # s => completing'[o] = completing[o]
  BY CompletingMoves
<1>2. Keeps(r)
  BY DEF Keeps
<1>3. CASE r # s
  BY <1>1, <1>2, <1>3, BytesStay
<1>4. CASE r = s
  <2>1. c.key = NoHash => c.key # session[s].hash
    BY InUse, LibraryAssumption
  <2>2. Relying(s)' => session[s].state = "COMPLETED" /\ session[s].checked = session[s].hash
    BY <1>1, <2>1 DEF Relying
  <2>3. Assembled(s)' => Relying(s)'
    BY <1>1 DEF Assembled
  <2>4. Relying(s)' => Relying(s) /\ Assembled(s)
    BY <2>2 DEF Relying, Assembled
  <2>5. Overwritten(s) => Overwritten(s)'
    BY <1>2, <1>4, OverwrittenStays
  <2> QED
    BY <1>1, <1>4, <2>3, <2>4, <2>5 DEF UploadInv
<1> QED
  BY <1>3, <1>4

LEMMA AssembleBytes ==
  ASSUME RowsInv, \A r \in Sessions : UploadInv(r), issuer = "multipart", UNCHANGED issuer,
         NEW s \in Sessions, Assemble(s), NEW r \in Sessions
  PROVE  UploadInv(r)'
<1>0. /\ completing[s].pc = "assemble" /\ session[s].remote # "none"
      /\ session[s].state # "none"
      /\ completing' = [completing EXCEPT ![s].pc = "verify"]
  BY InUse DEF Assemble, UploadInv
<1>1. /\ completing'[s].pc = "verify" /\ completing'[s].key = completing[s].key
      /\ \A o \in Sessions : o # s => completing'[o] = completing[o]
  <2> DEFINE c == [completing[s] EXCEPT !.pc = "verify"]
  <2>1. /\ c \in Completion /\ c.pc = "verify" /\ c.key = completing[s].key
        /\ completing' = [completing EXCEPT ![s] = c]
    BY <1>0, CompletingWrites
  <2> HIDE DEF c
  <2> QED
    BY <1>0, <2>1, CompletingMoves
<1>2. Relying(s)' /\ UNCHANGED session[s].hash =>
        session'[s].state = "COMPLETED" /\ session'[s].checked = session[s].hash
  BY <1>1 DEF Relying
<1>3. CASE HasUpload(s)
  <2>1. PICK b \in Sendable(s) :
          /\ bucket' = [bucket EXCEPT ![completing[s].key] = b]
          /\ session' = [session EXCEPT ![s].remote = "assembled", ![s].stored = b]
    BY <1>3 DEF Assemble
  <2>2. session \in [Sessions -> SessionRow] /\ bucket \in [Hashes -> Bytes]
    BY TypeParts DEF RowsInv
  <2>3. /\ \A o \in Sessions : o # s => session'[o] = session[o]
        /\ session'[s].remote = "assembled" /\ session'[s].stored = b
        /\ session'[s].hash = session[s].hash /\ session'[s].target = session[s].target
        /\ session'[s].state = session[s].state /\ session'[s].checked = session[s].checked
    BY <2>1, <2>2 DEF SessionRow
  <2>4. session[s].remote = "open" /\ completing[s].key = session[s].target
    BY <1>3 DEF HasUpload
  <2>5. \A o \in Sessions : Keeps(o)
    BY <2>3, <2>4 DEF Keeps
  <2>6. \A h \in Hashes : bucket'[h] = IF h = session[s].target THEN b ELSE bucket[h]
    BY <2>1, <2>2, <2>4
  <2>7. CASE r = s
    <3>1. Relying(s)' => Relying(s) /\ Assembled(s)
      BY <1>2, <2>3 DEF Relying, Assembled
    <3>2. Relying(s)' => session[s].target # session[s].hash
      BY <2>4, <3>1 DEF UploadInv
    <3>3. session[s].hash \in Hashes
      BY <1>0, InUse
    <3>4. Relying(s)' => bucket'[session[s].hash] = bucket[session[s].hash]
      BY <2>6, <3>2, <3>3
    <3>5. Overwritten(s) => Overwritten(s)'
      BY <2>5, OverwrittenStays
    <3> QED
      BY <2>3, <2>7, <3>1, <3>4, <3>5 DEF UploadInv
  <2>8. CASE r # s /\ ~Relying(r)
    <3>1. UNCHANGED <<session[r], completing[r]>>
      BY <1>1, <2>3, <2>8
    <3>2. ~Relying(r)'
      BY <2>8, <3>1 DEF Relying
    <3>3. Assembled(r)' => Assembled(r)
      BY <3>1, <3>2 DEF Assembled
    <3> QED
      BY <3>1, <3>2, <3>3 DEF UploadInv
  <2>9. CASE r # s /\ Relying(r)
    <3>1. UNCHANGED <<session[r], completing[r]>>
      BY <1>1, <2>3, <2>9
    <3>2. session[r].hash \in Hashes
      BY <2>9, InUse DEF Relying
    <3>3. CASE session[r].hash # session[s].target
      <4>1. bucket'[session[r].hash] = bucket[session[r].hash]
        BY <2>6, <3>2, <3>3
      <4> QED
        BY <2>5, <3>1, <4>1, BytesStay
    <3>4. CASE session[r].hash = session[s].target /\ b = session[r].hash
      <4>1. bucket'[session[r].hash] = session[r].hash
        BY <2>6, <3>2, <3>4
      <4>2. Assembled(r)
        BY <2>9 DEF Assembled
      <4> QED
        BY <3>1, <4>1, <4>2 DEF UploadInv
    <3>5. CASE session[r].hash = session[s].target /\ b # session[r].hash
      <4>1. Overwritten(r)'
        BY <2>3, <2>9, <3>1, <3>5 DEF Overwritten
      <4>2. Assembled(r)
        BY <2>9 DEF Assembled
      <4> QED
        BY <3>1, <4>1, <4>2 DEF UploadInv
    <3> QED
      BY <3>3, <3>4, <3>5
  <2> QED
    BY <2>7, <2>8, <2>9
<1>4. CASE ~HasUpload(s)
  <2>1. UNCHANGED <<bucket, session>>
    BY <1>4 DEF Assemble
  <2>2. Keeps(r)
    BY <2>1 DEF Keeps
  <2>3. CASE r # s
    BY <1>1, <2>1, <2>2, <2>3, BytesStay
  <2>4. CASE r = s
    <3>1. Relying(s)' => Relying(s) /\ Assembled(s)
      BY <1>2, <2>1 DEF Relying, Assembled
    <3>2. Overwritten(s) => Overwritten(s)'
      BY <2>2, <2>4, OverwrittenStays
    <3>3. Assembled(s)' => ~(session[s].remote = "open" /\ session[s].target = session[s].hash)
      BY <1>1, <1>4, <2>1, <3>1 DEF Assembled, HasUpload, UploadInv
    <3> QED
      BY <1>0, <2>1, <2>4, <3>1, <3>2, <3>3 DEF UploadInv
  <2> QED
    BY <2>3, <2>4
<1> QED
  BY <1>3, <1>4

LEMMA VerifyBytes ==
  ASSUME RowsInv, \A r \in Sessions : UploadInv(r), issuer = "multipart", UNCHANGED issuer,
         NEW s \in Sessions, Verify(s), Verified(s),
         completing' = [completing EXCEPT ![s].pc = "record"], NEW r \in Sessions
  PROVE  UploadInv(r)'
<1>0. /\ completing[s].pc = "verify" /\ session[s].state # "none"
      /\ UNCHANGED <<session, bucket>>
  BY InUse DEF Verify, rows
<1>1. /\ completing'[s].pc = "record" /\ completing'[s].key = completing[s].key
      /\ \A o \in Sessions : o # s => completing'[o] = completing[o]
  <2> DEFINE c == [completing[s] EXCEPT !.pc = "record"]
  <2>1. /\ c \in Completion /\ c.pc = "record" /\ c.key = completing[s].key
        /\ completing' = [completing EXCEPT ![s] = c]
    BY CompletingWrites
  <2> HIDE DEF c
  <2> QED
    BY <1>0, <2>1, CompletingMoves
<1>2. Keeps(r)
  BY <1>0 DEF Keeps
<1>3. CASE r # s
  BY <1>0, <1>1, <1>2, <1>3, BytesStay
<1>4. CASE r = s
  <2>1. Assembled(s)' => Assembled(s)
    BY <1>0, <1>1 DEF Assembled, Relying
  <2>2. Relying(s)' => Relying(s) \/ bucket[session[s].hash] = session[s].hash
    BY <1>0, <1>1 DEF Relying, Verified
  <2>3. Overwritten(s) => Overwritten(s)'
    BY <1>2, <1>4, OverwrittenStays
  <2>4. Relying(s)' => Assembled(s)'
    BY DEF Assembled
  <2> QED
    BY <1>0, <1>1, <1>4, <2>1, <2>2, <2>3, <2>4 DEF UploadInv
<1> QED
  BY <1>3, <1>4

\* Cancelling and aborting: the session is closed, or its upload is gone.
LEMMA CloseBytes ==
  ASSUME RowsInv, \A r \in Sessions : UploadInv(r), issuer = "multipart", UNCHANGED issuer,
         NEW s \in Sessions, UNCHANGED <<bucket, completing>>,
         \/ Open(s) /\ session' = [session EXCEPT ![s].state = "CANCELLED"]
         \/ session[s].remote = "open" /\ session' = [session EXCEPT ![s].remote = "aborted"],
         NEW r \in Sessions
  PROVE  UploadInv(r)'
<1>1. session \in [Sessions -> SessionRow]
  BY TypeParts DEF RowsInv
<1>2. /\ \A o \in Sessions : o # s => session'[o] = session[o]
      /\ session'[s].hash = session[s].hash /\ session'[s].target = session[s].target
      /\ session'[s].stored = session[s].stored /\ session'[s].checked = session[s].checked
      /\ session'[s].state \in {session[s].state, "CANCELLED"}
      /\ \/ session'[s].remote = session[s].remote
         \/ session[s].remote = "open" /\ session'[s].remote = "aborted"
  BY <1>1 DEF SessionRow
<1>3. \A o \in Sessions : Keeps(o)
  BY <1>2 DEF Keeps
<1>4. CASE r # s
  BY <1>2, <1>3, <1>4, BytesStay
<1>5. CASE r = s
  <2>1. Relying(s)' => Relying(s)
    BY <1>2 DEF Relying
  <2>2. Assembled(s)' => Assembled(s)
    BY <1>2, <2>1 DEF Assembled
  <2>3. Overwritten(s) => Overwritten(s)'
    BY <1>3, OverwrittenStays
  <2> QED
    BY <1>2, <1>5, <2>1, <2>2, <2>3 DEF UploadInv
<1> QED
  BY <1>4, <1>5

LEMMA UploadBytes ==
  ASSUME RowsInv, \A r \in Sessions : UploadInv(r), issuer = "multipart", UNCHANGED issuer,
         NEW s \in Sessions, Unrecorded(s), NEW r \in Sessions
  PROVE  UploadInv(r)'
<1>0. /\ Resting \in Completion /\ Resting.pc = "idle"
  BY CompletingWrites
<1>1. CASE UNCHANGED <<session, bucket, completing>>
  <2>1. Keeps(r)
    BY <1>1 DEF Keeps
  <2> QED
    BY <1>1, <2>1, BytesStay
<1>2. CASE OpenMultipart(s)
  BY <1>2, OpenBytes
<1>3. CASE SendBytes(s)
  BY <1>3 DEF SendBytes
<1>4. CASE ReadForCompletion(s)
  <2>1. UNCHANGED <<session, bucket>> /\ session[s].state # "none"
    BY <1>4, InUse DEF ReadForCompletion, rows
  <2>2. CASE completing' = [completing EXCEPT ![s] = [pc |-> "record", key |-> NoHash]]
    <3> DEFINE c == [pc |-> "record", key |-> NoHash]
    <3>1. c \in Completion /\ c.pc = "record" /\ c.key = NoHash
      BY DEF Completion, Keys
    <3>2. completing' = [completing EXCEPT ![s] = c]
      BY <2>2
    <3> HIDE DEF c
    <3> QED
      BY <2>1, <3>1, <3>2, RestBytes
  <2>3. CASE session[s].remote # "none" /\ Exists(session[s].material)
             /\ completing' = [completing EXCEPT ![s] =
                  [pc |-> "assemble", key |-> material[session[s].material].hash]]
    <3> DEFINE c == [pc |-> "assemble", key |-> material[session[s].material].hash]
    <3>1. c \in Completion /\ c.pc = "assemble"
      BY <2>3, TypeParts DEF Completion, Exists, RowsInv, MaterialRow
    <3>2. completing' = [completing EXCEPT ![s] = c]
      BY <2>3
    <3> HIDE DEF c
    <3> QED
      BY <2>1, <2>3, <3>1, <3>2, RestBytes
  <2> QED
    BY <1>4, <2>2, <2>3 DEF ReadForCompletion
<1>5. CASE Assemble(s)
  BY <1>5, AssembleBytes
<1>6. CASE Verify(s) /\ Verified(s) /\ completing' = [completing EXCEPT ![s].pc = "record"]
  BY <1>6, VerifyBytes
<1>7. CASE /\ Verify(s) \/ AbandonCompletion(s) \/ (CompleteUpload(s) /\ ~Completable(s))
           /\ completing' = [completing EXCEPT ![s] = Resting]
  <2>1. UNCHANGED <<session, bucket>> /\ session[s].state # "none"
    BY <1>7, InUse DEF Verify, AbandonCompletion, CompleteUpload, rows
  <2> QED
    BY <1>0, <1>7, <2>1, RestBytes
<1>8. CASE CancelUpload(s) \/ Abort(s)
  <2>1. UNCHANGED <<bucket, completing>>
    BY <1>8 DEF CancelUpload, Abort
  <2>2. \/ UNCHANGED session
        \/ Open(s) /\ session' = [session EXCEPT ![s].state = "CANCELLED"]
        \/ session[s].remote = "open" /\ session' = [session EXCEPT ![s].remote = "aborted"]
    BY <1>8 DEF CancelUpload, Abort
  <2> QED
    BY <1>1, <2>1, <2>2, CloseBytes
<1>9. CASE ReadForCancel(s)
  BY <1>1, <1>9 DEF ReadForCancel, rows
<1>10. Verify(s) => \/ Verified(s) /\ completing' = [completing EXCEPT ![s].pc = "record"]
                    \/ completing' = [completing EXCEPT ![s] = Resting]
  BY DEF Verify
<1>11. AbandonCompletion(s) \/ (CompleteUpload(s) /\ ~Completable(s)) =>
         completing' = [completing EXCEPT ![s] = Resting]
  BY DEF AbandonCompletion, CompleteUpload
<1> QED
  BY <1>2, <1>3, <1>4, <1>5, <1>6, <1>7, <1>8, <1>9, <1>10, <1>11 DEF Unrecorded

\* On another storage the invariant says only which sessions the handlers serve.
LEMMA UploadServes ==
  ASSUME RowsInv, \A r \in Sessions : UploadInv(r), issuer # "multipart", UNCHANGED issuer,
         NEW s \in Sessions, Unrecorded(s), NEW r \in Sessions
  PROVE  UploadInv(r)'
<1>0. /\ session \in [Sessions -> SessionRow] /\ completing \in [Sessions -> Completion]
  BY TypeParts DEF RowsInv
<1> SUFFICES ASSUME completing'[r].pc \in {"assemble", "verify"}
             PROVE  session'[r].remote # "none"
  BY DEF UploadInv
<1>1. session[r].remote # "none" => session'[r].remote # "none"
  BY <1>0 DEF Unrecorded, OpenMultipart, SendBytes, ReadForCompletion, Assemble, Verify,
       AbandonCompletion, ReadForCancel, CancelUpload, Abort, CompleteUpload, rows, SessionRow
<1>2. CASE completing[r].pc \in {"assemble", "verify"}
  BY <1>1, <1>2 DEF UploadInv
<1>3. CASE completing[r].pc \notin {"assemble", "verify"}
  <2>1. ReadForCompletion(s) /\ r = s
    <3>1. \/ ReadForCompletion(s)
          \/ completing' = completing
          \/ completing' = [completing EXCEPT ![s] = Resting]
          \/ completing' = [completing EXCEPT ![s].pc = "record"]
          \/ completing[s].pc = "assemble" /\ completing' = [completing EXCEPT ![s].pc = "verify"]
      BY DEF Unrecorded, OpenMultipart, SendBytes, Assemble, Verify, AbandonCompletion,
           ReadForCancel, CancelUpload, Abort, CompleteUpload
    <3>2. completing' # completing
      BY <1>3
    <3>3. completing' # [completing EXCEPT ![s] = Resting]
      BY <1>0, <1>3, BlankRows
    <3>4. completing' # [completing EXCEPT ![s].pc = "record"]
      BY <1>0, <1>3 DEF Completion
    <3>5. ~(completing[s].pc = "assemble" /\ completing' = [completing EXCEPT ![s].pc = "verify"])
      BY <1>0, <1>3 DEF Completion
    <3>6. ReadForCompletion(s)
      BY <3>1, <3>2, <3>3, <3>4, <3>5
    <3>7. r # s => completing'[r] = completing[r]
      BY <1>0, <3>6 DEF ReadForCompletion
    <3> QED
      BY <1>3, <3>6, <3>7
  <2>2. session[r].remote # "none"
    BY <1>0, <2>1 DEF ReadForCompletion, Completion
  <2> QED
    BY <1>1, <2>2
<1> QED
  BY <1>2, <1>3

LEMMA BytesKept ==
  ASSUME BytesInv, [Next]_vars
  PROVE  BytesInv'
<1>0. CountInv /\ RowsInv /\ UNCHANGED issuer /\ \A r \in Sessions : UploadInv(r)
  BY DEF BytesInv, CountInv, Next, vars
<1>1. CountInv'
  BY <1>0, CountKept
<1> SUFFICES ASSUME NEW r \in Sessions PROVE UploadInv(r)'
  BY <1>1 DEF BytesInv
<1>3. CASE UNCHANGED <<session, bucket, completing>>
  <2>1. Keeps(r)
    BY <1>3 DEF Keeps
  <2> QED
    BY <1>0, <1>3, <2>1, BytesStay
<1>4. ASSUME NEW m \in Materials, NEW h \in Hashes, NEW s \in Sessions,
             NEW row \in MaterialRow, NEW v \in VersionRow,
             NEW state \in {"PENDING", "COMPLETED"}, Opens(m, h, s, row, v, state)
      PROVE  UploadInv(r)'
  <2>1. UNCHANGED <<bucket, completing>>
    BY <1>4 DEF Opens
  <2>2. /\ session'[s].hash = h /\ session'[s].checked = NoHash /\ session[s].remote = "none"
        /\ completing'[s].pc = "idle"
        /\ \A o \in Sessions : o # s => session'[o] = session[o]
    BY <1>0, <1>4, <2>1, OpenedState, OpenedRow, BlankRows
  <2>3. CASE r = s
    <3>1. ~Relying(s)' /\ ~Assembled(s)'
      BY <2>2, LibraryAssumption DEF Relying, Assembled
    <3> QED
      BY <2>2, <2>3, <3>1 DEF UploadInv
  <2>4. CASE r # s
    <3>1. Keeps(r)
      BY <2>2, <2>4 DEF Keeps
    <3> QED
      BY <1>0, <2>1, <2>2, <2>4, <3>1, BytesStay
  <2> QED
    BY <2>3, <2>4
<1>5. ASSUME NEW m \in Materials, PurgeMaterial(m)
      PROVE  UploadInv(r)'
  <2>1. /\ UNCHANGED <<bucket, completing>>
        /\ \A o \in Sessions :
             /\ session'[o].hash = session[o].hash /\ session'[o].state = session[o].state
             /\ session'[o].remote = session[o].remote /\ session'[o].target = session[o].target
             /\ session'[o].stored = session[o].stored
             /\ session'[o].checked = session[o].checked
    BY <1>0, <1>5, PurgedState
  <2>2. Keeps(r)
    BY <2>1 DEF Keeps
  <2> QED
    BY <1>0, <2>1, <2>2, BytesStay
<1>6. ASSUME NEW s \in Sessions, Unrecorded(s)
      PROVE  UploadInv(r)'
  BY <1>0, <1>6, UploadBytes, UploadServes
<1>7. ASSUME NEW s \in Sessions, NEW m \in Materials, NEW row \in MaterialRow,
             NEW v \in VersionRow, Records(s, m, row, v)
      PROVE  UploadInv(r)'
  <2>1. bucket' = bucket /\ completing[s].pc = "record"
    BY <1>7 DEF Records
  <2>2. /\ \A o \in Sessions : o # s => session'[o] = session[o] /\ completing'[o] = completing[o]
        /\ session'[s].hash = session[s].hash /\ session'[s].remote = session[s].remote
        /\ session'[s].target = session[s].target /\ session'[s].stored = session[s].stored
        /\ session'[s].checked = completing[s].key /\ completing'[s].pc = "idle"
    BY <1>0, <1>7, RecordedState
  <2>3. \A o \in Sessions : Keeps(o)
    BY <2>2 DEF Keeps
  <2>4. CASE r = s
    <3>1. Relying(s)' => Relying(s)
      BY <2>1, <2>2 DEF Relying
    <3>2. /\ Assembled(s)' => Assembled(s)
      BY <2>2, <3>1 DEF Assembled
    <3>3. Overwritten(s) => Overwritten(s)'
      BY <2>3, OverwrittenStays
    <3> QED
      BY <1>0, <2>1, <2>2, <2>4, <3>1, <3>2, <3>3 DEF UploadInv
  <2>5. CASE r # s
    BY <1>0, <2>1, <2>2, <2>3, <2>5, BytesStay
  <2> QED
    BY <2>4, <2>5
<1>8. CASE vars' = vars
  BY <1>3, <1>8 DEF vars
<1>9. CASE Next
  BY <1>0, <1>3, <1>4, <1>5, <1>6, <1>7, <1>9, StepKinds
<1> QED
  BY <1>8, <1>9

\* A version recorded by a completion that verified its content has its bytes in
\* an S3 bucket, whatever clients sent and whatever ran between the handler's
\* reads, the assembly, the verification and the statement, unless another
\* upload's assembly put other bytes under the same key.
THEOREM RecordedBytes == Spec => []CompletedHasBytes
<1>1. Init => BytesInv
  BY CountInit, BlankRows
     DEF Init, BytesInv, UploadInv, Assembled, Relying, Resting, Fresh
<1>2. BytesInv /\ [Next]_vars => BytesInv'
  BY BytesKept
<1>3. BytesInv => CompletedHasBytes
  BY DEF BytesInv, UploadInv, Relying, CompletedHasBytes
<1> QED
  BY <1>1, <1>2, <1>3, PTL DEF Spec
=============================================================================
