---------------------------- MODULE ClientProofs -----------------------------
(***************************************************************************)
(* The group's client.  Its settings, for any number of devices, settings, *)
(* values and publications under way: no crossing of publications leaves a *)
(* draft behind, and a copy that lags the document has an adoption to      *)
(* come.  Its feeds, for any number of sockets and pollers, any window and *)
(* any answer: an event is applied once and none is skipped.               *)
(***************************************************************************)
EXTENDS GroupSettings, GroupFeed, FiniteSetTheorems, WellFoundedInduction, TLAPS

DraftRow == [open : BOOLEAN, values : Document]
SessionOf == [Tasks -> AdoptionRecord]
Screen == [Paths -> Values]

\* A publication under way is some device's.
PubsOwned == \A s \in Pubs : pub[s].pc # "idle" => pub[s].device \in Devices

\* DraftAccounted is inductive beside the types.
SettingsInv == TypeOK /\ DraftAccounted

-----------------------------------------------------------------------------
(* What the helpers return.                                                *)

LEMMA EmptyTyped ==
  /\ Empty \in Document /\ NoCopy \in Copy /\ NoDraft \in DraftRow
  /\ NoDraft.open = FALSE
BY DEF Empty, Document, NoCopy, Copy, NoDraft, DraftRow

LEMMA OverlayTyped ==
  ASSUME NEW base \in Document, NEW top \in Document
  PROVE  Overlay(base, top) \in Document
BY DEF Overlay, Document

LEMMA OnlyTyped ==
  ASSUME NEW p \in Paths, NEW v \in Values \cup {NoValue}
  PROVE  Only(p, v) \in Document
BY DEF Only, Empty, Document

LEMMA PatchesTyped ==
  ASSUME NEW values \in Document, NEW mine \in Screen
  PROVE  /\ GroupValuePatches(values, mine) \in Document
         /\ Overlay(mine, GroupValuePatches(values, mine)) \in Screen
<1>1. GroupValuePatches(values, mine) \in Document
  BY DEF GroupValuePatches, Document
<1>2. \A p \in Paths : Overlay(mine, GroupValuePatches(values, mine))[p] \in Values
  BY <1>1 DEF GroupValuePatches, Document, Overlay, Screen
<1> QED
  BY <1>1, <1>2 DEF Overlay, Screen

LEMMA IdleTyped ==
  /\ NoPub \in PubRecord /\ NoPub.pc = "idle"
  /\ NoAdoption \in AdoptionRecord
  /\ NoSession \in SessionOf /\ Joining \in SessionOf
<1>1. NoPub \in PubRecord /\ NoPub.pc = "idle"
  BY EmptyTyped DEF NoPub, PubRecord
<1>2. NoAdoption \in AdoptionRecord
  BY EmptyTyped DEF NoAdoption, AdoptionRecord
<1>3. NoSession \in SessionOf
  BY <1>2 DEF NoSession, SessionOf
<1>4. Joining \in SessionOf
  BY <1>2, <1>3 DEF Joining, NoSession, SessionOf, AdoptionRecord, Tasks
<1> QED
  BY <1>1, <1>2, <1>3, <1>4

LEMMA RecordTyped ==
  ASSUME NEW values \in Document, TypeOK, Record(values)
  PROVE  effective' \in Copy /\ recorded' \subseteq Document
<1>1. effective.revision \in Nat
  BY DEF TypeOK, Copy
<1>2. effective' \in Copy
  BY <1>1 DEF Record, Copy
<1> QED
  BY <1>2 DEF Record, TypeOK

\* The type invariant from its parts.
LEMMA TypesMake ==
  ASSUME effective' \in Copy, recorded' \subseteq Document, draft' \in DraftRow,
         pub' \in [Pubs -> PubRecord], PubsOwned',
         local' \in [Devices -> Screen], mirror' \in [Devices -> Copy],
         online' \subseteq Devices, adoption' \in [Devices -> SessionOf],
         after' \in [Devices -> Nat], late' \in [Devices -> SUBSET Document],
         missed' \subseteq Devices, behind' \subseteq Devices, leftOpen' \in BOOLEAN,
         gestures' \in Nat, faults' \in Nat, outside' \in Nat
  PROVE  TypeOK'
BY Zenon DEF TypeOK, DraftRow, SessionOf, Screen, PubsOwned

LEMMA TypesHave ==
  ASSUME TypeOK
  PROVE  /\ effective \in Copy /\ recorded \subseteq Document /\ draft \in DraftRow
         /\ pub \in [Pubs -> PubRecord] /\ PubsOwned
         /\ local \in [Devices -> Screen] /\ mirror \in [Devices -> Copy]
         /\ online \subseteq Devices /\ adoption \in [Devices -> SessionOf]
         /\ after \in [Devices -> Nat] /\ late \in [Devices -> SUBSET Document]
         /\ missed \subseteq Devices /\ behind \subseteq Devices /\ leftOpen \in BOOLEAN
         /\ gestures \in Nat /\ faults \in Nat /\ outside \in Nat
BY Zenon DEF TypeOK, DraftRow, SessionOf, Screen, PubsOwned

-----------------------------------------------------------------------------
(* Mutations by other clients.                                             *)

\* What every one of them leaves alone.
LEMMA ElsewhereKeeps ==
  ASSUME TypeOK, Elsewhere, effective' \in Copy, recorded' \subseteq Document,
         draft' \in DraftRow, leftOpen' \in BOOLEAN
  PROVE  TypeOK'
<1>1. /\ outside' = outside - 1 /\ outside > 0
      /\ UNCHANGED <<pub, local, mirror, online, adoption, after, late, missed, behind, gestures, faults>>
  BY DEF Elsewhere
<1>2. outside' \in Nat
  BY <1>1, TypesHave
<1>3. PubsOwned'
  BY <1>1, TypesHave DEF PubsOwned
<1> QED
  BY <1>1, <1>2, <1>3, TypesHave, TypesMake, Zenon

LEMMA OutsideKeeps ==
  ASSUME SettingsInv, Outside
  PROVE  SettingsInv'
<1>0. TypeOK /\ DraftAccounted
  BY DEF SettingsInv
<1> USE <1>0
<1>t. /\ effective \in Copy /\ recorded \subseteq Document /\ draft \in DraftRow
      /\ draft.values \in Document /\ effective.values \in Document
  BY TypesHave DEF DraftRow, Copy
<1>p. Elsewhere => pub' = pub
  BY DEF Elsewhere
<1>1. CASE DiscardDraft
  <2>1. Elsewhere /\ Record(effective.values) /\ draft' = NoDraft /\ leftOpen' = FALSE
    BY <1>1 DEF DiscardDraft
  <2>2. TypeOK'
    BY <2>1, <1>t, RecordTyped, EmptyTyped, ElsewhereKeeps, Zenon
  <2>3. DraftAccounted'
    BY <2>1, EmptyTyped DEF DraftAccounted
  <2> QED
    BY <2>2, <2>3 DEF SettingsInv
<1>2. CASE PublishDraft
  <2>1. Elsewhere /\ Record(draft.values) /\ draft' = NoDraft /\ leftOpen' = FALSE
    BY <1>2 DEF PublishDraft, MoveDraft
  <2>2. TypeOK'
    BY <2>1, <1>t, RecordTyped, EmptyTyped, ElsewhereKeeps, Zenon
  <2>3. DraftAccounted'
    BY <2>1, EmptyTyped DEF DraftAccounted
  <2> QED
    BY <2>2, <2>3 DEF SettingsInv
<1>3. ASSUME NEW p \in Paths, NEW v \in Values \cup {NoValue}, ApplyDraftPatch(p, v)
      PROVE  SettingsInv'
  <2>1. /\ Elsewhere /\ leftOpen' = TRUE /\ UNCHANGED <<effective, recorded>>
        /\ draft' = [open |-> TRUE, values |-> [draft.values EXCEPT ![p] = v]]
    BY <1>3 DEF ApplyDraftPatch
  <2>2. [draft.values EXCEPT ![p] = v] \in Document
    BY <1>t DEF Document
  <2>3. draft' \in DraftRow
    BY <2>1, <2>2 DEF DraftRow
  <2>4. TypeOK'
    BY <2>1, <2>3, <1>t, ElsewhereKeeps, Zenon
  <2> QED
    BY <2>1, <2>4 DEF SettingsInv, DraftAccounted
<1>4. ASSUME NEW values \in Document, ImportDocument(values)
      PROVE  SettingsInv'
  <2>1. /\ Elsewhere /\ leftOpen' = TRUE /\ UNCHANGED <<effective, recorded>>
        /\ draft' = [open |-> TRUE, values |-> values]
    BY <1>4 DEF ImportDocument
  <2>2. draft' \in DraftRow
    BY <2>1 DEF DraftRow
  <2>3. TypeOK'
    BY <2>1, <2>2, <1>t, ElsewhereKeeps, Zenon
  <2> QED
    BY <2>1, <2>3 DEF SettingsInv, DraftAccounted
<1>5. ASSUME NEW paths \in SUBSET Paths, Reset(paths)
      PROVE  SettingsInv'
  <2> DEFINE kept == [p \in Paths |-> IF p \in paths THEN NoValue ELSE effective.values[p]]
  <2>1. Elsewhere /\ Record(kept) /\ UNCHANGED <<draft, leftOpen>>
    BY <1>5 DEF Reset, Forget
  <2>2. kept \in Document
    BY <1>t DEF Document
  <2> HIDE DEF kept
  <2>3. TypeOK'
    BY <2>1, <2>2, <1>t, RecordTyped, ElsewhereKeeps, TypesHave, Zenon
  <2>4. DraftAccounted'
    BY <2>1, <1>p DEF DraftAccounted
  <2> QED
    BY <2>3, <2>4 DEF SettingsInv
<1>6. ASSUME NEW values \in recorded, RevertVersion(values)
      PROVE  SettingsInv'
  <2>1. Elsewhere /\ Record(values) /\ UNCHANGED <<draft, leftOpen>> /\ values \in Document
    BY <1>6, <1>t DEF RevertVersion
  <2>2. TypeOK'
    BY <2>1, <1>t, RecordTyped, ElsewhereKeeps, TypesHave, Zenon
  <2>3. DraftAccounted'
    BY <2>1, <1>p DEF DraftAccounted
  <2> QED
    BY <2>2, <2>3 DEF SettingsInv
<1> QED
  BY <1>1, <1>2, <1>3, <1>4, <1>5, <1>6, Zenon DEF Outside

-----------------------------------------------------------------------------
(* Publications.                                                           *)

\* One publication changes.
LEMMA PubUpdate ==
  ASSUME TypeOK, NEW s \in Pubs, NEW row \in PubRecord,
         row.pc # "idle" => row.device \in Devices,
         pub' = [pub EXCEPT ![s] = row]
  PROVE  /\ pub' \in [Pubs -> PubRecord] /\ PubsOwned'
         /\ pub'[s] = row /\ \A t \in Pubs : t # s => pub'[t] = pub[t]
<1>1. pub \in [Pubs -> PubRecord] /\ PubsOwned
  BY TypesHave
<1>2. pub' \in [Pubs -> PubRecord] /\ pub'[s] = row /\ \A t \in Pubs : t # s => pub'[t] = pub[t]
  BY <1>1
<1> QED
  BY <1>1, <1>2 DEF PubsOwned

\* A gesture takes an idle slot, or none.
LEMMA PublishTyped ==
  ASSUME TypeOK, NEW d \in Devices, NEW row \in PubRecord, row.device = d, Publish(d, row)
  PROVE  /\ pub' \in [Pubs -> PubRecord] /\ PubsOwned'
         /\ \A s \in Pubs : pub[s].pc = "publishing" => pub'[s] = pub[s]
<1>0. pub \in [Pubs -> PubRecord] /\ PubsOwned
  BY TypesHave
<1>1. CASE d \in online
  <2> DEFINE free == {s \in Pubs : pub[s].pc = "idle"}
             s == CHOOSE s \in free : TRUE
  <2>1. free # {} /\ pub' = [pub EXCEPT ![s] = row]
    BY <1>1 DEF Publish
  <2>2. s \in free
    BY <2>1
  <2>3. s \in Pubs /\ pub[s].pc = "idle"
    BY <2>2
  <2> HIDE DEF s
  <2>4. /\ pub' \in [Pubs -> PubRecord] /\ PubsOwned'
        /\ \A t \in Pubs : t # s => pub'[t] = pub[t]
    BY <2>1, <2>3, PubUpdate
  <2> QED
    BY <2>3, <2>4
<1>2. CASE d \notin online
  <2>1. pub' = pub
    BY <1>2 DEF Publish
  <2> QED
    BY <2>1, <1>0 DEF PubsOwned
<1> QED
  BY <1>1, <1>2

LEMMA PublicationTyped ==
  ASSUME NEW d \in Devices, NEW operations \in Document, NEW paths \in SUBSET Paths
  PROVE  /\ Publication(d, operations) \in PubRecord /\ Publication(d, operations).device = d
         /\ Resets(d, paths) \in PubRecord /\ Resets(d, paths).device = d
BY EmptyTyped DEF Publication, Resets, PubRecord

LEMMA ChangeKeeps ==
  ASSUME SettingsInv, NEW d \in Devices, NEW p \in Paths, NEW v \in Values, Change(d, p, v)
  PROVE  SettingsInv'
<1>0. TypeOK /\ DraftAccounted
  BY DEF SettingsInv
<1>1. /\ gestures > 0 /\ gestures' = gestures - 1
      /\ local' = [local EXCEPT ![d][p] = v]
      /\ Publish(d, Publication(d, Only(p, v)))
      /\ UNCHANGED <<effective, recorded, draft, mirror, online, adoption, after, late, missed, behind,
                     leftOpen, faults, outside>>
  BY DEF Change
<1>2. local' \in [Devices -> Screen] /\ gestures' \in Nat
  BY <1>0, <1>1, TypesHave DEF Screen
<1>3. Publication(d, Only(p, v)) \in PubRecord /\ Publication(d, Only(p, v)).device = d
  BY OnlyTyped, PublicationTyped
<1>4. /\ pub' \in [Pubs -> PubRecord] /\ PubsOwned'
      /\ \A s \in Pubs : pub[s].pc = "publishing" => pub'[s] = pub[s]
  BY <1>0, <1>1, <1>3, PublishTyped
<1>5. TypeOK'
  BY <1>0, <1>1, <1>2, <1>4, TypesHave, TypesMake, Zenon
<1>6. DraftAccounted'
  BY <1>0, <1>1, <1>4 DEF DraftAccounted
<1> QED
  BY <1>5, <1>6 DEF SettingsInv

\* Where the screen of a device is left.
LEMMA LeftTyped ==
  ASSUME TypeOK, NEW d \in Devices, NEW values, Left(d, values)
  PROVE  missed' \subseteq Devices
<1>1. missed \subseteq Devices
  BY TypesHave
<1>2. missed' \in {missed, missed \cup {d}}
  BY DEF Left
<1> QED
  BY <1>1, <1>2

LEMMA RewriteDraftKeeps ==
  ASSUME SettingsInv, NEW d \in Devices, NEW values \in Screen, RewriteDraft(d, values)
  PROVE  SettingsInv'
<1>0. TypeOK /\ DraftAccounted
  BY DEF SettingsInv
<1>1. /\ gestures > 0 /\ gestures' = gestures - 1
      /\ local' = [local EXCEPT ![d] = values] /\ Left(d, values)
      /\ UNCHANGED <<effective, recorded, draft, pub, mirror, online, adoption, after, late,
                     behind, leftOpen, faults, outside>>
  BY DEF RewriteDraft
<1>2. local' \in [Devices -> Screen] /\ gestures' \in Nat
  BY <1>0, <1>1, TypesHave
<1>3. missed' \subseteq Devices
  BY <1>0, <1>1, LeftTyped
<1>4. PubsOwned'
  BY <1>0, <1>1, TypesHave DEF PubsOwned
<1>5. TypeOK'
  BY <1>0, <1>1, <1>2, <1>3, <1>4, TypesHave, TypesMake, Zenon
<1>6. DraftAccounted'
  BY <1>0, <1>1 DEF DraftAccounted
<1> QED
  BY <1>5, <1>6 DEF SettingsInv

LEMMA ResetSettingsKeeps ==
  ASSUME SettingsInv, NEW d \in Devices, NEW paths \in SUBSET Paths, ResetSettings(d, paths)
  PROVE  SettingsInv'
<1>0. TypeOK /\ DraftAccounted
  BY DEF SettingsInv
<1> DEFINE screen == [p \in Paths |-> IF p \in paths THEN Default ELSE local[d][p]]
<1>1. /\ gestures > 0 /\ gestures' = gestures - 1
      /\ local' = [local EXCEPT ![d] = screen]
      /\ Publish(d, Resets(d, paths))
      /\ UNCHANGED <<effective, recorded, draft, mirror, online, adoption, after, late, missed, behind,
                     leftOpen, faults, outside>>
  BY <1>0, TypesHave DEF ResetSettings
<1>2. screen \in Screen
  <2>1. local[d] \in Screen
    BY <1>0, TypesHave
  <2> QED
    BY <2>1, SettingsAssumption DEF Screen
<1> HIDE DEF screen
<1>3. local' \in [Devices -> Screen] /\ gestures' \in Nat
  BY <1>0, <1>1, <1>2, TypesHave
<1>4. Resets(d, paths) \in PubRecord /\ Resets(d, paths).device = d
  BY EmptyTyped, PublicationTyped
<1>5. /\ pub' \in [Pubs -> PubRecord] /\ PubsOwned'
      /\ \A s \in Pubs : pub[s].pc = "publishing" => pub'[s] = pub[s]
  BY <1>0, <1>1, <1>4, PublishTyped
<1>6. TypeOK'
  BY <1>0, <1>1, <1>3, <1>5, TypesHave, TypesMake, Zenon
<1>7. DraftAccounted'
  BY <1>0, <1>1, <1>5 DEF DraftAccounted
<1> QED
  BY <1>6, <1>7 DEF SettingsInv

LEMMA ApplyGroupDraftPatchKeeps ==
  ASSUME SettingsInv, NEW s \in Pubs, ApplyGroupDraftPatch(s)
  PROVE  SettingsInv'
<1>0. TypeOK /\ DraftAccounted
  BY DEF SettingsInv
<1> DEFINE row == [pub[s] EXCEPT !.pc = "publishing"]
<1>1. /\ pub[s].pc = "applying"
      /\ draft' = [open |-> TRUE, values |-> Overlay(draft.values, pub[s].operations)]
      /\ pub' = [pub EXCEPT ![s] = row]
      /\ UNCHANGED <<effective, recorded, local, mirror, online, adoption, after, late, missed, behind,
                     leftOpen, gestures, faults, outside>>
  BY <1>0, TypesHave DEF ApplyGroupDraftPatch, StageDraft
<1>2. pub[s] \in PubRecord /\ pub[s].device \in Devices
  BY <1>0, <1>1, TypesHave DEF PubsOwned
<1>3. row \in PubRecord /\ row.pc = "publishing" /\ row.device = pub[s].device
  BY <1>2 DEF PubRecord
<1> HIDE DEF row
<1>4. /\ pub' \in [Pubs -> PubRecord] /\ PubsOwned' /\ pub'[s] = row
  BY <1>0, <1>1, <1>2, <1>3, PubUpdate
<1>5. draft' \in DraftRow
  <2>1. draft.values \in Document /\ pub[s].operations \in Document
    BY <1>0, <1>2, TypesHave DEF DraftRow, PubRecord
  <2>2. Overlay(draft.values, pub[s].operations) \in Document
    BY <2>1, OverlayTyped
  <2> QED
    BY <1>1, <2>2 DEF DraftRow
<1>6. TypeOK'
  BY <1>0, <1>1, <1>4, <1>5, TypesHave, TypesMake, Zenon
<1>7. DraftAccounted'
  BY <1>3, <1>4 DEF DraftAccounted
<1> QED
  BY <1>6, <1>7 DEF SettingsInv

\* The second call closes the draft it found; when there was none, another
\* publication had taken it along.
LEMMA PublishGroupDraftKeeps ==
  ASSUME SettingsInv, NEW s \in Pubs, PublishGroupDraft(s)
  PROVE  SettingsInv'
<1>0. TypeOK /\ DraftAccounted
  BY DEF SettingsInv
<1>1. /\ pub' = [pub EXCEPT ![s] = NoPub]
      /\ UNCHANGED <<local, mirror, online, adoption, after, late, missed, behind,
                     gestures, faults, outside>>
  BY DEF PublishGroupDraft
<1>2. pub' \in [Pubs -> PubRecord] /\ PubsOwned'
  BY <1>0, <1>1, IdleTyped, PubUpdate
<1>3. /\ effective' \in Copy /\ recorded' \subseteq Document /\ draft' \in DraftRow
      /\ leftOpen' \in BOOLEAN /\ draft'.open = FALSE
  <2>1. CASE draft.open
    <3>1. Record(draft.values) /\ draft' = NoDraft /\ leftOpen' = FALSE
      BY <2>1 DEF PublishGroupDraft, MoveDraft
    <3>2. draft.values \in Document
      BY <1>0, TypesHave DEF DraftRow
    <3> QED
      BY <1>0, <3>1, <3>2, RecordTyped, EmptyTyped
  <2>2. CASE ~draft.open
    <3>1. UNCHANGED <<effective, recorded, draft, leftOpen>>
      BY <2>2 DEF PublishGroupDraft
    <3>2. draft.open = FALSE
      BY <1>0, <2>2, TypesHave DEF DraftRow
    <3> QED
      BY <1>0, <3>1, <3>2, TypesHave
  <2> QED
    BY <2>1, <2>2
<1>4. TypeOK'
  BY <1>0, <1>1, <1>2, <1>3, TypesHave, TypesMake, Zenon
<1>5. DraftAccounted'
  BY <1>3 DEF DraftAccounted
<1> QED
  BY <1>4, <1>5 DEF SettingsInv

LEMMA ResetGroupElementKeeps ==
  ASSUME SettingsInv, NEW s \in Pubs, NEW p \in Paths, ResetGroupElement(s, p)
  PROVE  SettingsInv'
<1>0. TypeOK /\ DraftAccounted
  BY DEF SettingsInv
<1> DEFINE left == pub[s].targets \ {p}
           row == IF left = {} THEN NoPub ELSE [pub[s] EXCEPT !.targets = left]
           kept == [q \in Paths |-> IF q \in {p} THEN NoValue ELSE effective.values[q]]
<1>1. /\ pub[s].pc = "resetting" /\ Record(kept)
      /\ pub' = [pub EXCEPT ![s] = row]
      /\ UNCHANGED <<draft, local, mirror, online, adoption, after, late, missed, behind,
                     leftOpen, gestures, faults, outside>>
  BY <1>0, TypesHave DEF ResetGroupElement, Forget
<1>2. kept \in Document
  <2>1. effective.values \in Document
    BY <1>0, TypesHave DEF Copy
  <2> QED
    BY <2>1 DEF Document
<1>3. pub[s] \in PubRecord /\ pub[s].device \in Devices
  BY <1>0, <1>1, TypesHave DEF PubsOwned
<1>4. row \in PubRecord /\ (row.pc # "idle" => row.device \in Devices)
  BY <1>3, IdleTyped DEF PubRecord
<1> HIDE DEF left, row, kept
<1>5. /\ pub' \in [Pubs -> PubRecord] /\ PubsOwned'
      /\ \A t \in Pubs : t # s => pub'[t] = pub[t]
  BY <1>0, <1>1, <1>4, PubUpdate
<1>6. TypeOK'
  BY <1>0, <1>1, <1>2, <1>5, RecordTyped, TypesHave, TypesMake, Zenon
<1>7. DraftAccounted'
  BY <1>0, <1>1, <1>5 DEF DraftAccounted
<1> QED
  BY <1>6, <1>7 DEF SettingsInv

\* A publication that breaks off between its two calls owns up to the draft.
LEMMA PublicationFailsKeeps ==
  ASSUME SettingsInv, NEW s \in Pubs, PublicationFails(s)
  PROVE  SettingsInv'
<1>0. TypeOK /\ DraftAccounted
  BY DEF SettingsInv
<1>1. /\ faults > 0 /\ faults' = faults - 1 /\ pub[s].pc # "idle"
      /\ pub' = [pub EXCEPT ![s] = NoPub]
      /\ leftOpen' = (leftOpen \/ (draft.open /\ pub[s].pc = "publishing"))
      /\ Left(pub[s].device, local[pub[s].device])
      /\ UNCHANGED <<effective, recorded, draft, local, mirror, online, adoption, after, late,
                     behind, gestures, outside>>
  BY DEF PublicationFails, Fault
<1>2. /\ pub' \in [Pubs -> PubRecord] /\ PubsOwned'
      /\ \A t \in Pubs : t # s => pub'[t] = pub[t]
  BY <1>0, <1>1, IdleTyped, PubUpdate
<1>3. faults' \in Nat
  BY <1>0, <1>1, TypesHave
<1>4. missed' \subseteq Devices
  <2>1. pub[s].device \in Devices
    BY <1>0, <1>1, TypesHave DEF PubsOwned
  <2> QED
    BY <1>0, <1>1, <2>1, LeftTyped
<1>5. leftOpen' \in BOOLEAN
  BY <1>1, Zenon
<1>6. TypeOK'
  BY <1>0, <1>1, <1>2, <1>3, <1>4, <1>5, TypesHave, TypesMake, Zenon
<1>7. DraftAccounted'
  <2>1. SUFFICES ASSUME draft.open, ~leftOpen'
                 PROVE  \E t \in Pubs : pub'[t].pc = "publishing"
    BY <1>1 DEF DraftAccounted
  <2>2. ~leftOpen /\ pub[s].pc # "publishing"
    BY <2>1, <1>1
  <2>3. PICK t \in Pubs : pub[t].pc = "publishing"
    BY <1>0, <2>1, <2>2 DEF DraftAccounted
  <2> QED
    BY <2>2, <2>3, <1>2
<1> QED
  BY <1>6, <1>7 DEF SettingsInv

-----------------------------------------------------------------------------
(* Adoptions.                                                              *)

\* One adoption of one device changes.
LEMMA AdoptionUpdate ==
  ASSUME TypeOK, NEW d \in Devices, NEW k \in Tasks, NEW row \in AdoptionRecord,
         adoption' = [adoption EXCEPT ![d][k] = row]
  PROVE  adoption' \in [Devices -> SessionOf]
<1>1. adoption \in [Devices -> SessionOf]
  BY TypesHave
<1> QED
  BY <1>1 DEF SessionOf

LEMMA AdoptionHas ==
  ASSUME TypeOK, NEW d \in Devices, NEW k \in Tasks
  PROVE  /\ adoption[d][k] \in AdoptionRecord
         /\ adoption[d][k].document \in Copy
         /\ adoption[d][k].document.values \in Document
         /\ adoption[d][k].document.revision \in Nat /\ adoption[d][k].seen \in Nat
         /\ mirror[d] \in Copy /\ mirror[d].values \in Document /\ mirror[d].revision \in Nat
<1>1. adoption[d][k] \in AdoptionRecord /\ mirror[d] \in Copy
  BY TypesHave DEF SessionOf
<1> QED
  BY <1>1 DEF AdoptionRecord, Copy

\* Values of the group land on a screen.
LEMMA ApplyTyped ==
  ASSUME TypeOK, NEW d \in Devices, NEW values \in Document, Apply(d, values)
  PROVE  local' \in [Devices -> Screen]
<1>1. local \in [Devices -> Screen]
  BY TypesHave
<1> DEFINE screen == Overlay(local[d], GroupValuePatches(values, local[d]))
<1>2. local' = [local EXCEPT ![d] = screen]
  BY <1>1 DEF Apply
<1>3. screen \in Screen
  BY <1>1, PatchesTyped
<1> HIDE DEF screen
<1> QED
  BY <1>1, <1>2, <1>3

LEMMA WatchFrameKeeps ==
  ASSUME SettingsInv, NEW d \in Devices, WatchFrame(d)
  PROVE  SettingsInv'
<1>0. TypeOK /\ DraftAccounted
  BY DEF SettingsInv
<1> DEFINE row == [adoption[d]["watch"] EXCEPT !.pc = "reading"]
<1>1. /\ after' = [after EXCEPT ![d] = effective.revision]
      /\ adoption' = [adoption EXCEPT ![d]["watch"] = row]
      /\ UNCHANGED <<effective, recorded, draft, pub, local, mirror, online, late, missed, behind,
                     leftOpen, gestures, faults, outside>>
  BY DEF WatchFrame
<1>2. row \in AdoptionRecord
  BY <1>0, AdoptionHas DEF AdoptionRecord, Tasks
<1> HIDE DEF row
<1>3. adoption' \in [Devices -> SessionOf]
  BY <1>0, <1>1, <1>2, AdoptionUpdate DEF Tasks
<1>4. after' \in [Devices -> Nat]
  BY <1>0, <1>1, TypesHave DEF Copy
<1>5. PubsOwned'
  BY <1>0, <1>1, TypesHave DEF PubsOwned
<1>6. TypeOK'
  BY <1>0, <1>1, <1>3, <1>4, <1>5, TypesHave, TypesMake, Zenon
<1>7. DraftAccounted'
  BY <1>0, <1>1 DEF DraftAccounted
<1> QED
  BY <1>6, <1>7 DEF SettingsInv

LEMMA ReadDocumentsKeeps ==
  ASSUME SettingsInv, NEW d \in Devices, NEW k \in Tasks, ReadDocuments(d, k)
  PROVE  SettingsInv'
<1>0. TypeOK /\ DraftAccounted
  BY DEF SettingsInv
<1> DEFINE row == [adoption[d][k] EXCEPT !.pc = "answered", !.document = effective]
<1>1. /\ adoption' = [adoption EXCEPT ![d][k] = row]
      /\ UNCHANGED <<effective, recorded, draft, pub, local, mirror, online, after, late,
                     missed, behind, leftOpen, gestures, faults, outside>>
  BY DEF ReadDocuments
<1>2. row \in AdoptionRecord
  <2>1. adoption[d][k] \in AdoptionRecord /\ effective \in Copy
    BY <1>0, AdoptionHas, TypesHave
  <2> QED
    BY <2>1 DEF AdoptionRecord
<1> HIDE DEF row
<1>3. adoption' \in [Devices -> SessionOf]
  BY <1>0, <1>1, <1>2, AdoptionUpdate
<1>4. PubsOwned'
  BY <1>0, <1>1, TypesHave DEF PubsOwned
<1>5. TypeOK'
  BY <1>0, <1>1, <1>3, <1>4, TypesHave, TypesMake, Zenon
<1>6. DraftAccounted'
  BY <1>0, <1>1 DEF DraftAccounted
<1> QED
  BY <1>5, <1>6 DEF SettingsInv

LEMMA CompareKeeps ==
  ASSUME SettingsInv, NEW d \in Devices, NEW k \in Tasks, Compare(d, k)
  PROVE  SettingsInv'
<1>0. TypeOK /\ DraftAccounted
  BY DEF SettingsInv
<1> DEFINE row == [adoption[d][k] EXCEPT !.pc = "stamping", !.seen = mirror[d].revision]
<1>1. /\ adoption' = [adoption EXCEPT ![d][k] = row]
      /\ UNCHANGED <<effective, recorded, draft, pub, local, mirror, online, after, late,
                     missed, behind, leftOpen, gestures, faults, outside>>
  BY DEF Compare
<1>2. row \in AdoptionRecord
  BY <1>0, AdoptionHas DEF AdoptionRecord
<1> HIDE DEF row
<1>3. adoption' \in [Devices -> SessionOf]
  BY <1>0, <1>1, <1>2, AdoptionUpdate
<1>4. PubsOwned'
  BY <1>0, <1>1, TypesHave DEF PubsOwned
<1>5. TypeOK'
  BY <1>0, <1>1, <1>3, <1>4, TypesHave, TypesMake, Zenon
<1>6. DraftAccounted'
  BY <1>0, <1>1 DEF DraftAccounted
<1> QED
  BY <1>5, <1>6 DEF SettingsInv

\* An adoption ends: its values land, and nothing of the group moves.
LEMMA LandingKeeps ==
  ASSUME SettingsInv, NEW d \in Devices, NEW k \in Tasks, NEW values \in Document,
         Apply(d, values), adoption' = [adoption EXCEPT ![d][k] = NoAdoption],
         mirror' \in [Devices -> Copy], missed' \subseteq Devices, behind' \subseteq Devices,
         faults' \in Nat,
         UNCHANGED <<effective, recorded, draft, pub, online, after, late, leftOpen,
                     gestures, outside>>
  PROVE  SettingsInv'
<1>0. TypeOK /\ DraftAccounted
  BY DEF SettingsInv
<1>1. local' \in [Devices -> Screen]
  BY <1>0, ApplyTyped
<1>2. adoption' \in [Devices -> SessionOf]
  BY <1>0, IdleTyped, AdoptionUpdate
<1>3. PubsOwned'
  BY <1>0, TypesHave DEF PubsOwned
<1>4. TypeOK'
  BY <1>0, <1>1, <1>2, <1>3, TypesHave, TypesMake, Zenon
<1>5. DraftAccounted'
  BY <1>0 DEF DraftAccounted
<1> QED
  BY <1>4, <1>5 DEF SettingsInv

LEMMA LandHas ==
  ASSUME TypeOK, NEW d \in Devices, NEW k \in Tasks, Land(d, k)
  PROVE  /\ Apply(d, adoption[d][k].document.values)
         /\ adoption' = [adoption EXCEPT ![d][k] = NoAdoption]
         /\ missed' \subseteq Devices
         /\ UNCHANGED <<effective, recorded, draft, pub, online, after, late, leftOpen,
                        gestures, outside>>
<1>1. missed \subseteq Devices
  BY TypesHave
<1>2. missed' = missed \ {d} \/ missed' = missed \/ Left(d, local'[d])
  BY DEF Land
<1>3. missed' \subseteq Devices
  BY <1>1, <1>2, LeftTyped
<1> QED
  BY <1>3 DEF Land

LEMMA AbsorbKeeps ==
  ASSUME SettingsInv, NEW d \in Devices, NEW k \in Tasks, Absorb(d, k)
  PROVE  SettingsInv'
<1>0. TypeOK
  BY DEF SettingsInv
<1>1. Land(d, k) /\ faults' = faults
  BY DEF Absorb
<1>2. mirror' = mirror \/ mirror' = [mirror EXCEPT ![d] = adoption[d][k].document]
  BY DEF Absorb
<1>3. mirror' \in [Devices -> Copy]
  BY <1>0, <1>2, AdoptionHas, TypesHave
<1>4. behind' \in {behind \cup {d}, behind \ {d}, behind}
  BY DEF Absorb
<1>5. behind' \subseteq Devices
  BY <1>0, <1>4, TypesHave
<1> QED
  BY <1>0, <1>1, <1>3, <1>5, LandHas, AdoptionHas, LandingKeeps, TypesHave, Zenon

LEMMA WatchFailedTyped ==
  ASSUME TypeOK, NEW d \in Devices, NEW k \in Tasks, WatchFailed(d, k)
  PROVE  behind' \subseteq Devices
<1>1. behind' \in {behind \cup {d}, behind}
  BY DEF WatchFailed
<1> QED
  BY <1>1, TypesHave

LEMMA AbsorbFailsKeeps ==
  ASSUME SettingsInv, NEW d \in Devices, NEW k \in Tasks, AbsorbFails(d, k)
  PROVE  SettingsInv'
<1>0. TypeOK
  BY DEF SettingsInv
<1>1. /\ Land(d, k) /\ WatchFailed(d, k) /\ mirror' = mirror
      /\ faults > 0 /\ faults' = faults - 1
  BY DEF AbsorbFails, Fault
<1>2. faults' \in Nat /\ behind' \subseteq Devices
  BY <1>0, <1>1, TypesHave, WatchFailedTyped
<1> QED
  BY <1>0, <1>1, <1>2, LandHas, AdoptionHas, LandingKeeps, TypesHave, Zenon

LEMMA NoDocumentKeeps ==
  ASSUME SettingsInv, NEW d \in Devices, NEW k \in Tasks, NoDocument(d, k)
  PROVE  SettingsInv'
<1>0. TypeOK
  BY DEF SettingsInv
<1>1. /\ Apply(d, mirror[d].values) /\ adoption' = [adoption EXCEPT ![d][k] = NoAdoption]
      /\ UNCHANGED <<effective, recorded, draft, pub, mirror, online, after, late, leftOpen,
                     gestures, outside>>
      /\ UNCHANGED <<missed, behind, faults>>
  BY DEF NoDocument, FallBack
<1> QED
  BY <1>0, <1>1, AdoptionHas, LandingKeeps, TypesHave, Zenon

LEMMA ReadFailsKeeps ==
  ASSUME SettingsInv, NEW d \in Devices, NEW k \in Tasks, ReadFails(d, k)
  PROVE  SettingsInv'
<1>0. TypeOK
  BY DEF SettingsInv
<1>1. /\ Apply(d, mirror[d].values) /\ adoption' = [adoption EXCEPT ![d][k] = NoAdoption]
      /\ UNCHANGED <<effective, recorded, draft, pub, mirror, online, after, late, leftOpen,
                     gestures, outside>>
      /\ Left(d, local'[d]) /\ WatchFailed(d, k) /\ faults > 0 /\ faults' = faults - 1
  BY DEF ReadFails, FallBack, Fault
<1>2. missed' \subseteq Devices /\ behind' \subseteq Devices /\ faults' \in Nat
  BY <1>0, <1>1, TypesHave, LeftTyped, WatchFailedTyped
<1> QED
  BY <1>0, <1>1, <1>2, AdoptionHas, LandingKeeps, TypesHave, Zenon

-----------------------------------------------------------------------------
(* Sessions.                                                               *)

\* The session of a device is set up or torn down, and nothing is published.
LEMMA SessionKeeps ==
  ASSUME SettingsInv, NEW d \in Devices, NEW row \in SessionOf,
         adoption' = [adoption EXCEPT ![d] = row],
         online' \subseteq Devices, after' \in [Devices -> Nat],
         late' \in [Devices -> SUBSET Document], missed' \subseteq Devices,
         behind' \subseteq Devices, faults' \in Nat,
         UNCHANGED <<effective, recorded, draft, pub, local, mirror, leftOpen, gestures, outside>>
  PROVE  SettingsInv'
<1>0. TypeOK /\ DraftAccounted
  BY DEF SettingsInv
<1>1. adoption' \in [Devices -> SessionOf]
  BY <1>0, TypesHave
<1>2. PubsOwned'
  BY <1>0, TypesHave DEF PubsOwned
<1>3. TypeOK'
  BY <1>0, <1>1, <1>2, TypesHave, TypesMake, Zenon
<1>4. DraftAccounted'
  BY <1>0 DEF DraftAccounted
<1> QED
  BY <1>3, <1>4 DEF SettingsInv

LEMMA AbortedTyped ==
  ASSUME TypeOK, NEW d \in Devices, late' = [late EXCEPT ![d] = @ \cup Aborted(d)]
  PROVE  late' \in [Devices -> SUBSET Document]
<1>1. Aborted(d) \subseteq Document
  BY AdoptionHas DEF Aborted
<1> QED
  BY <1>1, TypesHave

LEMMA MountHas ==
  ASSUME TypeOK, NEW d \in Devices, Mount(d)
  PROVE  /\ adoption' = [adoption EXCEPT ![d] = Joining]
         /\ online' \subseteq Devices /\ after' \in [Devices -> Nat]
         /\ missed' \subseteq Devices /\ behind' \subseteq Devices
<1>1. /\ online' = online \cup {d} /\ after' = [after EXCEPT ![d] = 0]
      /\ missed' = missed \ {d} /\ behind' = behind \ {d}
      /\ adoption' = [adoption EXCEPT ![d] = Joining]
  BY DEF Mount
<1> QED
  BY <1>1, TypesHave

LEMMA ConnectKeeps ==
  ASSUME SettingsInv, NEW d \in Devices, Connect(d)
  PROVE  SettingsInv'
<1>0. TypeOK
  BY DEF SettingsInv
<1>1. /\ Mount(d)
      /\ UNCHANGED <<effective, recorded, draft, pub, local, mirror, late, leftOpen>>
      /\ UNCHANGED <<gestures, faults, outside>>
  BY DEF Connect, boundVars
<1> QED
  BY <1>0, <1>1, MountHas, IdleTyped, SessionKeeps, TypesHave, Zenon

LEMMA RemountKeeps ==
  ASSUME SettingsInv, NEW d \in Devices, Remount(d)
  PROVE  SettingsInv'
<1>0. TypeOK
  BY DEF SettingsInv
<1>1. /\ faults > 0 /\ faults' = faults - 1 /\ Mount(d)
      /\ late' = [late EXCEPT ![d] = @ \cup Aborted(d)]
      /\ UNCHANGED <<effective, recorded, draft, pub, local, mirror, leftOpen, gestures, outside>>
  BY DEF Remount, Fault
<1>2. faults' \in Nat
  BY <1>0, <1>1, TypesHave
<1> QED
  BY <1>0, <1>1, <1>2, AbortedTyped, MountHas, IdleTyped, SessionKeeps, Zenon

LEMMA UnmountKeeps ==
  ASSUME SettingsInv, NEW d \in Devices, Unmount(d)
  PROVE  SettingsInv'
<1>0. TypeOK
  BY DEF SettingsInv
<1>1. /\ faults > 0 /\ faults' = faults - 1
      /\ late' = [late EXCEPT ![d] = @ \cup Aborted(d)]
      /\ online' = online \ {d} /\ adoption' = [adoption EXCEPT ![d] = NoSession]
      /\ UNCHANGED <<effective, recorded, draft, pub, local, mirror, after, missed, behind, leftOpen,
                     gestures, outside>>
  BY DEF Unmount, Fault
<1>2. faults' \in Nat /\ online' \subseteq Devices
  BY <1>0, <1>1, TypesHave
<1> QED
  BY <1>0, <1>1, <1>2, AbortedTyped, IdleTyped, SessionKeeps, TypesHave, Zenon

LEMMA LandLateKeeps ==
  ASSUME SettingsInv, NEW d \in Devices, NEW values \in late[d], LandLate(d, values)
  PROVE  SettingsInv'
<1>0. TypeOK /\ DraftAccounted
  BY DEF SettingsInv
<1> DEFINE patches == GroupValuePatches(values, local[d])
<1>1. /\ late' = [late EXCEPT ![d] = @ \ {values}] /\ Apply(d, values)
      /\ pub' = pub \/ Publish(d, Publication(d, patches))
      /\ UNCHANGED <<effective, recorded, draft, mirror, online, adoption, after, missed, behind,
                     leftOpen>>
      /\ UNCHANGED <<gestures, faults, outside>>
  BY DEF LandLate, boundVars
<1>2. values \in Document /\ local[d] \in Screen /\ late' \in [Devices -> SUBSET Document]
  BY <1>0, <1>1, TypesHave
<1>3. patches \in Document
  BY <1>2, PatchesTyped
<1> HIDE DEF patches
<1>4. local' \in [Devices -> Screen]
  BY <1>0, <1>1, <1>2, ApplyTyped
<1>5. /\ pub' \in [Pubs -> PubRecord] /\ PubsOwned'
      /\ \A s \in Pubs : pub[s].pc = "publishing" => pub'[s] = pub[s]
  <2>1. CASE pub' = pub
    BY <2>1, <1>0, TypesHave DEF PubsOwned
  <2>2. CASE Publish(d, Publication(d, patches))
    <3>1. Publication(d, patches) \in PubRecord /\ Publication(d, patches).device = d
      BY <1>3, PublicationTyped
    <3> QED
      BY <2>2, <3>1, <1>0, PublishTyped
  <2> QED
    BY <1>1, <2>1, <2>2
<1>6. TypeOK'
  BY <1>0, <1>1, <1>2, <1>4, <1>5, TypesHave, TypesMake, Zenon
<1>7. DraftAccounted'
  BY <1>0, <1>1, <1>5 DEF DraftAccounted
<1> QED
  BY <1>6, <1>7 DEF SettingsInv

LEMMA AdoptOfflineKeeps ==
  ASSUME SettingsInv, NEW d \in Devices, AdoptOffline(d)
  PROVE  SettingsInv'
<1>0. TypeOK /\ DraftAccounted
  BY DEF SettingsInv
<1>1. /\ Apply(d, mirror[d].values)
      /\ UNCHANGED <<effective, recorded, draft, pub, mirror, online, adoption, after, late,
                     missed, behind, leftOpen>>
      /\ UNCHANGED <<gestures, faults, outside>>
  BY DEF AdoptOffline, boundVars
<1>2. mirror[d].values \in Document
  BY <1>0, TypesHave DEF Copy
<1>3. local' \in [Devices -> Screen]
  BY <1>0, <1>1, <1>2, ApplyTyped
<1>4. PubsOwned'
  BY <1>0, <1>1, TypesHave DEF PubsOwned
<1>5. TypeOK'
  BY <1>0, <1>1, <1>3, <1>4, TypesHave, TypesMake, Zenon
<1>6. DraftAccounted'
  BY <1>0, <1>1 DEF DraftAccounted
<1> QED
  BY <1>5, <1>6 DEF SettingsInv

\* A page that closes takes all its publications with it.
LEMMA ClosePageKeeps ==
  ASSUME SettingsInv, NEW d \in Devices, ClosePage(d)
  PROVE  SettingsInv'
<1>0. TypeOK /\ DraftAccounted
  BY DEF SettingsInv
<1>1. /\ faults > 0 /\ faults' = faults - 1
      /\ pub' = [s \in Pubs |-> IF pub[s].device = d THEN NoPub ELSE pub[s]]
      /\ leftOpen' = (leftOpen \/ (draft.open /\ \E s \in Pubs :
                                     pub[s].device = d /\ pub[s].pc = "publishing"))
      /\ online' = online \ {d} /\ adoption' = [adoption EXCEPT ![d] = NoSession]
      /\ late' = [late EXCEPT ![d] = {}]
      /\ UNCHANGED <<effective, recorded, draft, local, mirror, after, missed, behind, gestures, outside>>
  BY DEF ClosePage, Fault
<1>2. pub' \in [Pubs -> PubRecord] /\ PubsOwned'
  BY <1>0, <1>1, TypesHave, IdleTyped DEF PubsOwned
<1>3. /\ faults' \in Nat /\ online' \subseteq Devices
      /\ adoption' \in [Devices -> SessionOf] /\ late' \in [Devices -> SUBSET Document]
  BY <1>0, <1>1, TypesHave, IdleTyped
<1>4. leftOpen' \in BOOLEAN
  BY <1>1, Zenon
<1>5. TypeOK'
  BY <1>0, <1>1, <1>2, <1>3, <1>4, TypesHave, TypesMake, Zenon
<1>6. DraftAccounted'
  <2>1. SUFFICES ASSUME draft.open, ~leftOpen'
                 PROVE  \E s \in Pubs : pub'[s].pc = "publishing"
    BY <1>1 DEF DraftAccounted
  <2>2. ~leftOpen /\ \A s \in Pubs : pub[s].pc = "publishing" => pub[s].device # d
    BY <2>1, <1>1
  <2>3. PICK s \in Pubs : pub[s].pc = "publishing"
    BY <1>0, <2>1, <2>2 DEF DraftAccounted
  <2> QED
    BY <2>2, <2>3, <1>1
<1> QED
  BY <1>5, <1>6 DEF SettingsInv

-----------------------------------------------------------------------------
(* The theorems.                                                           *)

LEMMA InitHolds == Init => SettingsInv
<1> SUFFICES ASSUME Init PROVE SettingsInv
  OBVIOUS
<1>1. /\ effective = NoCopy /\ recorded = {} /\ draft = NoDraft
      /\ pub = [s \in Pubs |-> NoPub]
      /\ local = [d \in Devices |-> [p \in Paths |-> Default]]
      /\ mirror = [d \in Devices |-> NoCopy] /\ online = Devices
      /\ adoption = [d \in Devices |-> Joining] /\ after = [d \in Devices |-> 0]
      /\ late = [d \in Devices |-> {}] /\ missed = {} /\ behind = {} /\ leftOpen = FALSE
      /\ gestures \in Nat /\ faults \in Nat /\ outside \in Nat
  BY SettingsAssumption DEF Init
<1>2. /\ local \in [Devices -> Screen] /\ pub \in [Pubs -> PubRecord]
      /\ mirror \in [Devices -> Copy] /\ adoption \in [Devices -> SessionOf]
      /\ after \in [Devices -> Nat] /\ late \in [Devices -> SUBSET Document]
      /\ \A s \in Pubs : pub[s].pc = "idle"
  BY <1>1, EmptyTyped, IdleTyped, SettingsAssumption DEF Screen
<1>3. TypeOK
  BY <1>1, <1>2, EmptyTyped DEF TypeOK, DraftRow, SessionOf, Screen
<1>4. DraftAccounted
  BY <1>1, EmptyTyped DEF DraftAccounted
<1> QED
  BY <1>3, <1>4 DEF SettingsInv

LEMMA StepKeeps ==
  ASSUME SettingsInv, [Next]_vars
  PROVE  SettingsInv'
<1>1. CASE Outside
  BY <1>1, OutsideKeeps
<1>2. ASSUME NEW s \in Pubs, Publishing(s)
      PROVE  SettingsInv'
  BY <1>2, ApplyGroupDraftPatchKeeps, PublishGroupDraftKeeps, ResetGroupElementKeeps,
     PublicationFailsKeeps, Zenon DEF Publishing
<1>3. ASSUME NEW d \in Devices, NEW k \in Tasks, Adopting(d, k)
      PROVE  SettingsInv'
  BY <1>3, ReadDocumentsKeeps, CompareKeeps, AbsorbKeeps, AbsorbFailsKeeps, NoDocumentKeeps,
     ReadFailsKeeps, Zenon DEF Adopting
<1>4. ASSUME NEW d \in Devices, Device(d)
      PROVE  SettingsInv'
  BY <1>4, ChangeKeeps, ResetSettingsKeeps, RewriteDraftKeeps, WatchFrameKeeps,
     ConnectKeeps, RemountKeeps, UnmountKeeps, LandLateKeeps, AdoptOfflineKeeps,
     ClosePageKeeps, Zenon DEF Device, Screen
<1>5. CASE UNCHANGED vars
  <2>1. UNCHANGED <<effective, recorded, draft, pub, local, mirror, online, adoption, after,
                    late, missed, behind, leftOpen, gestures, faults, outside>>
    BY <1>5 DEF vars
  <2>2. TypeOK'
    BY <2>1, Zenon DEF SettingsInv, TypeOK
  <2>3. DraftAccounted'
    BY <2>1 DEF SettingsInv, DraftAccounted
  <2> QED
    BY <2>2, <2>3 DEF SettingsInv
<1> QED
  BY <1>1, <1>2, <1>3, <1>4, <1>5, Zenon DEF Next

LEMMA SettingsInvariant == Spec => []SettingsInv
<1>1. Init => SettingsInv
  BY InitHolds
<1>2. SettingsInv /\ [Next]_vars => SettingsInv'
  BY StepKeeps
<1> QED
  BY <1>1, <1>2, PTL DEF Spec

\* Every reachable state of the settings document and its followers is well
\* typed; a screen always shows a value for every setting, whatever landed.
THEOREM TypeCorrect == Spec => []TypeOK
<1>1. SettingsInv => TypeOK
  BY DEF SettingsInv
<1> QED
  BY <1>1, SettingsInvariant, PTL

\* However many publications of however many devices cross between
\* ApplyDraftPatch and PublishDraft, a draft that is open belongs to one that
\* will still publish it, or to one that broke off or to another client.
THEOREM DraftsAccounted == Spec => []DraftAccounted
<1>1. SettingsInv => DraftAccounted
  BY DEF SettingsInv
<1> QED
  BY <1>1, SettingsInvariant, PTL

-----------------------------------------------------------------------------
(* The local copy.                                                         *)

\* What was read or copied is the document of its revision.
TrueCopy(c) ==
  c.revision <= effective.revision /\ (c.revision = effective.revision => c = effective)

Answered(d, k) == adoption[d][k].pc \in {"answered", "stamping"}

\* The watch will not replace a copy that fell back after it looked.
Misled(d) ==
  /\ adoption[d]["watch"].pc = "stamping"
  /\ adoption[d]["watch"].seen > mirror[d].revision

\* The watch reads at least the revision it was woken for, and only a join that
\* was overtaken can mislead it.
DeviceCopy(d) ==
  /\ after[d] <= effective.revision
  /\ TrueCopy(mirror[d])
  /\ \A k \in Tasks : Answered(d, k) => TrueCopy(adoption[d][k].document)
  /\ Answered(d, "watch") => adoption[d]["watch"].document.revision >= after[d]
  /\ Misled(d) => d \in behind /\ adoption[d]["join"].pc = "idle"
  /\ d \in online \ behind => CopyDue(d)

Unpublished == effective.revision = 0 => effective.values = Empty

CopyInv == Unpublished /\ \A d \in Devices : DeviceCopy(d)

\* The device does not move, and the document not either.
LEMMA DeviceStays ==
  ASSUME NEW d \in Devices, DeviceCopy(d), effective' = effective,
         mirror'[d] = mirror[d], adoption'[d] = adoption[d], after'[d] = after[d],
         d \in online' <=> d \in online, d \in behind' <=> d \in behind
  PROVE  DeviceCopy(d)'
BY DEF DeviceCopy, TrueCopy, Answered, Misled, CopyDue

\* The document moves on, and no copy follows yet.
LEMMA RecordCopies ==
  ASSUME TypeOK, CopyInv, NEW values, Record(values),
         UNCHANGED <<mirror, adoption, after, online, behind>>
  PROVE  CopyInv'
<1>1. effective.revision \in Nat /\ effective'.revision = effective.revision + 1
  BY TypesHave DEF Record, Copy
<1>2. Unpublished'
  BY <1>1 DEF Unpublished
<1>3. ASSUME NEW c \in Copy, TrueCopy(c)
      PROVE  TrueCopy(c)'
  <2>1. c.revision \in Nat /\ c.revision <= effective.revision
    BY <1>3 DEF Copy, TrueCopy
  <2> QED
    BY <2>1, <1>1 DEF TrueCopy
<1>4. ASSUME NEW d \in Devices
      PROVE  DeviceCopy(d)'
  <2>0. DeviceCopy(d) /\ after[d] \in Nat
    BY TypesHave DEF CopyInv
  <2>1. after'[d] <= effective'.revision /\ effective'.revision > after'[d]
    BY <2>0, <1>1 DEF DeviceCopy
  <2>2. TrueCopy(mirror[d])'
    BY <2>0, <1>3, TypesHave DEF DeviceCopy, TrueCopy
  <2>3. \A k \in Tasks : (Answered(d, k) => TrueCopy(adoption[d][k].document))'
    <3>1. ASSUME NEW k \in Tasks, Answered(d, k)'
          PROVE  TrueCopy(adoption[d][k].document)'
      <4>1. TrueCopy(adoption[d][k].document) /\ adoption[d][k].document \in Copy
        BY <3>1, <2>0, AdoptionHas DEF DeviceCopy, Answered
      <4> QED
        BY <4>1, <1>3 DEF TrueCopy
    <3> QED
      BY <3>1
  <2>4. /\ (Answered(d, "watch") => adoption[d]["watch"].document.revision >= after[d])'
        /\ (Misled(d) => d \in behind /\ adoption[d]["join"].pc = "idle")'
    BY <2>0 DEF DeviceCopy, Answered, Misled
  <2>5. CopyDue(d)'
    BY <2>1 DEF CopyDue
  <2> QED
    BY <2>1, <2>2, <2>3, <2>4, <2>5 DEF DeviceCopy
<1> QED
  BY <1>2, <1>4 DEF CopyInv

\* Nothing the copies depend on moves.
LEMMA CopiesStay ==
  ASSUME CopyInv, UNCHANGED <<effective, mirror, adoption, after, online, behind>>
  PROVE  CopyInv'
<1>1. \A d \in Devices : DeviceCopy(d)'
  BY DeviceStays DEF CopyInv
<1> QED
  BY <1>1 DEF CopyInv, Unpublished

\* A device that is not the one that moves.
Still(e) ==
  /\ mirror'[e] = mirror[e] /\ adoption'[e] = adoption[e] /\ after'[e] = after[e]
  /\ e \in online' <=> e \in online
  /\ e \in behind' <=> e \in behind

LEMMA OneMoves ==
  ASSUME CopyInv, NEW d \in Devices, effective' = effective, DeviceCopy(d)',
         \A e \in Devices \ {d} : Still(e)
  PROVE  CopyInv'
<1>1. ASSUME NEW e \in Devices, e # d
      PROVE  DeviceCopy(e)'
  <2>1. /\ mirror'[e] = mirror[e] /\ adoption'[e] = adoption[e] /\ after'[e] = after[e]
        /\ e \in online' <=> e \in online
        /\ e \in behind' <=> e \in behind
    BY <1>1 DEF Still
  <2>2. DeviceCopy(e)
    BY DEF CopyInv
  <2> QED
    BY <2>1, <2>2, DeviceStays
<1>2. \A e \in Devices : DeviceCopy(e)'
  BY <1>1, Zenon
<1> QED
  BY <1>2 DEF CopyInv, Unpublished

\* One adoption of one device takes a step.
LEMMA AdoptionMoves ==
  ASSUME TypeOK, NEW d \in Devices, NEW k \in Tasks, NEW row,
         adoption' = [adoption EXCEPT ![d][k] = row]
  PROVE  /\ adoption'[d][k] = row
         /\ \A j \in Tasks : j # k => adoption'[d][j] = adoption[d][j]
         /\ \A e \in Devices \ {d} : adoption'[e] = adoption[e]
<1>1. adoption \in [Devices -> SessionOf]
  BY TypesHave
<1> QED
  BY <1>1 DEF SessionOf

LEMMA WatchFrameCopies ==
  ASSUME TypeOK, CopyInv, NEW d \in Devices, WatchFrame(d)
  PROVE  CopyInv'
<1> DEFINE row == [adoption[d]["watch"] EXCEPT !.pc = "reading"]
<1>1. /\ after' = [after EXCEPT ![d] = effective.revision]
      /\ adoption' = [adoption EXCEPT ![d]["watch"] = row]
      /\ UNCHANGED <<effective, mirror, online, behind>>
  BY DEF WatchFrame
<1>2. row.pc = "reading"
  BY AdoptionHas DEF AdoptionRecord, Tasks
<1> HIDE DEF row
<1>3. /\ adoption'[d]["watch"].pc = "reading" /\ adoption'[d]["join"] = adoption[d]["join"]
      /\ \A e \in Devices \ {d} : adoption'[e] = adoption[e]
  BY <1>1, <1>2, AdoptionMoves DEF Tasks
<1>4. after'[d] = effective.revision /\ \A e \in Devices \ {d} : after'[e] = after[e]
  BY <1>1, TypesHave
<1>5. DeviceCopy(d) /\ effective.revision \in Nat
  BY TypesHave DEF CopyInv, Copy
<1>6. DeviceCopy(d)'
  BY <1>1, <1>3, <1>4, <1>5 DEF DeviceCopy, TrueCopy, Answered, Misled, CopyDue, Tasks
<1> QED
  BY <1>1, <1>3, <1>4, <1>6, OneMoves DEF Still

LEMMA ReadDocumentsCopies ==
  ASSUME TypeOK, CopyInv, NEW d \in Devices, NEW k \in Tasks, ReadDocuments(d, k)
  PROVE  CopyInv'
<1> DEFINE row == [adoption[d][k] EXCEPT !.pc = "answered", !.document = effective]
<1>1. /\ adoption' = [adoption EXCEPT ![d][k] = row] /\ adoption[d][k].pc = "reading"
      /\ UNCHANGED <<effective, mirror, after, online, behind>>
  BY DEF ReadDocuments
<1>2. row.pc = "answered" /\ row.document = effective
  BY AdoptionHas DEF AdoptionRecord
<1> HIDE DEF row
<1>3. /\ adoption'[d][k].pc = "answered" /\ adoption'[d][k].document = effective
      /\ \A j \in Tasks : j # k => adoption'[d][j] = adoption[d][j]
      /\ \A e \in Devices \ {d} : adoption'[e] = adoption[e]
  <2>1. /\ adoption'[d][k] = row
        /\ \A j \in Tasks : j # k => adoption'[d][j] = adoption[d][j]
        /\ \A e \in Devices \ {d} : adoption'[e] = adoption[e]
    BY <1>1, AdoptionMoves
  <2> QED
    BY <2>1, <1>2, Zenon
<1>4. DeviceCopy(d) /\ effective.revision \in Nat /\ after[d] \in Nat
  BY TypesHave DEF CopyInv, Copy
<1>5. DeviceCopy(d)'
  BY <1>1, <1>3, <1>4 DEF DeviceCopy, TrueCopy, Answered, Misled, CopyDue, Tasks
<1> QED
  BY <1>1, <1>3, <1>5, OneMoves DEF Still

LEMMA CompareCopies ==
  ASSUME TypeOK, CopyInv, NEW d \in Devices, NEW k \in Tasks, Compare(d, k)
  PROVE  CopyInv'
<1> DEFINE row == [adoption[d][k] EXCEPT !.pc = "stamping", !.seen = mirror[d].revision]
<1>1. /\ adoption' = [adoption EXCEPT ![d][k] = row] /\ adoption[d][k].pc = "answered"
      /\ UNCHANGED <<effective, mirror, after, online, behind>>
  BY DEF Compare
<1>2. /\ row.pc = "stamping" /\ row.seen = mirror[d].revision
      /\ row.document = adoption[d][k].document
  BY AdoptionHas DEF AdoptionRecord
<1> HIDE DEF row
<1>3. /\ adoption'[d][k].pc = "stamping" /\ adoption'[d][k].seen = mirror[d].revision
      /\ adoption'[d][k].document = adoption[d][k].document
      /\ \A j \in Tasks : j # k => adoption'[d][j] = adoption[d][j]
      /\ \A e \in Devices \ {d} : adoption'[e] = adoption[e]
  <2>1. /\ adoption'[d][k] = row
        /\ \A j \in Tasks : j # k => adoption'[d][j] = adoption[d][j]
        /\ \A e \in Devices \ {d} : adoption'[e] = adoption[e]
    BY <1>1, AdoptionMoves
  <2> QED
    BY <2>1, <1>2, Zenon
<1>4. DeviceCopy(d) /\ mirror[d].revision \in Nat
  BY AdoptionHas DEF CopyInv
<1>5. DeviceCopy(d)'
  BY <1>1, <1>3, <1>4 DEF DeviceCopy, TrueCopy, Answered, Misled, CopyDue, Tasks
<1> QED
  BY <1>1, <1>3, <1>5, OneMoves DEF Still

\* absorb writes the whole answer or nothing, and a copy that was where it was
\* when it was compared does not fall back.
LEMMA AbsorbWrites ==
  ASSUME TypeOK, NEW d \in Devices, NEW k \in Tasks, Absorb(d, k)
  PROVE  /\ \A e \in Devices \ {d} : mirror'[e] = mirror[e]
         /\ \/ mirror'[d] = mirror[d] /\ adoption[d][k].document.values = Empty
            \/ /\ mirror'[d] = mirror[d]
               /\ adoption[d][k].document.revision <= adoption[d][k].seen
            \/ /\ mirror'[d] = adoption[d][k].document
               /\ adoption[d][k].document.revision > adoption[d][k].seen
<1>1. adoption[d][k].document.revision \in Nat /\ adoption[d][k].seen \in Nat
  BY AdoptionHas
<1>2. mirror \in [Devices -> Copy]
  BY TypesHave
<1>3. mirror' = IF /\ adoption[d][k].document.values # Empty
                   /\ adoption[d][k].document.revision > adoption[d][k].seen
                THEN [mirror EXCEPT ![d] = adoption[d][k].document] ELSE mirror
  BY DEF Absorb, DecideMirrorAdoption
<1> QED
  BY <1>1, <1>2, <1>3

\* What the step leaves in `behind`.
LEMMA AbsorbExcuses ==
  ASSUME TypeOK, NEW d \in Devices, NEW k \in Tasks, Absorb(d, k)
  PROVE  /\ \A e \in Devices \ {d} : e \in behind' <=> e \in behind
         /\ Overtaken(d, k) /\ mirror'[d].revision < mirror[d].revision => d \in behind'
         /\ d \in behind /\ d \notin behind' =>
              /\ adoption[d][k].document.revision >= after[d]
              /\ mirror'[d].revision >= adoption[d][k].document.revision
              /\ ~(Overtaken(d, k) /\ mirror'[d].revision < mirror[d].revision)
<1>1. behind' = IF Overtaken(d, k) /\ mirror'[d].revision < mirror[d].revision
                THEN behind \cup {d}
                ELSE IF /\ adoption[d][k].document.revision >= after[d]
                        /\ mirror'[d].revision >= adoption[d][k].document.revision
                     THEN behind \ {d} ELSE behind
  BY DEF Absorb
<1> QED
  BY <1>1

LEMMA AbsorbCopies ==
  ASSUME TypeOK, CopyInv, NEW d \in Devices, NEW k \in Tasks, Absorb(d, k)
  PROVE  CopyInv'
<1> DEFINE doc == adoption[d][k].document
           seen == adoption[d][k].seen
<1>1. /\ adoption' = [adoption EXCEPT ![d][k] = NoAdoption] /\ adoption[d][k].pc = "stamping"
      /\ UNCHANGED <<effective, after, online>>
  BY LandHas DEF Absorb
<1>2. /\ adoption'[d][k].pc = "idle"
      /\ \A j \in Tasks : j # k => adoption'[d][j] = adoption[d][j]
      /\ \A e \in Devices \ {d} : adoption'[e] = adoption[e]
  <2>1. /\ adoption'[d][k] = NoAdoption
        /\ \A j \in Tasks : j # k => adoption'[d][j] = adoption[d][j]
        /\ \A e \in Devices \ {d} : adoption'[e] = adoption[e]
    BY <1>1, AdoptionMoves
  <2> QED
    BY <2>1 DEF NoAdoption
<1>3. /\ doc \in Copy /\ doc.revision \in Nat /\ seen \in Nat /\ mirror[d].revision \in Nat
      /\ after[d] \in Nat /\ effective.revision \in Nat
  BY AdoptionHas, TypesHave DEF Copy
<1>4. DeviceCopy(d)
  BY DEF CopyInv
<1>5. TrueCopy(mirror[d]) /\ TrueCopy(doc) /\ after[d] <= effective.revision
  BY <1>1, <1>4 DEF DeviceCopy, Answered
<1>6. /\ \/ mirror'[d] = mirror[d] /\ doc.values = Empty
         \/ mirror'[d] = mirror[d] /\ doc.revision <= seen
         \/ mirror'[d] = doc /\ doc.revision > seen
      /\ \A e \in Devices \ {d} : mirror'[e] = mirror[e]
  BY AbsorbWrites
<1>7. mirror'[d].revision \in Nat /\ TrueCopy(mirror'[d])
  BY <1>3, <1>5, <1>6
<1>8. mirror'[d].revision < mirror[d].revision => Overtaken(d, k)
  BY <1>3, <1>6 DEF Overtaken
<1>9. /\ mirror'[d].revision < mirror[d].revision => d \in behind'
      /\ d \in behind /\ d \notin behind' => /\ doc.revision >= after[d]
                                            /\ mirror'[d].revision >= doc.revision
                                            /\ mirror'[d].revision >= mirror[d].revision
      /\ \A e \in Devices \ {d} : e \in behind' <=> e \in behind
  BY <1>3, <1>7, <1>8, AbsorbExcuses
<1> HIDE DEF doc, seen
<1>10. DeviceCopy(d)'
  <2>1. after'[d] <= effective'.revision /\ TrueCopy(mirror[d])'
    BY <1>1, <1>5, <1>7 DEF TrueCopy
  <2>2. /\ \A j \in Tasks : (Answered(d, j) => TrueCopy(adoption[d][j].document))'
        /\ (Answered(d, "watch") => adoption[d]["watch"].document.revision >= after[d])'
    BY <1>1, <1>2, <1>4 DEF DeviceCopy, Answered, TrueCopy, Tasks
  <2>3. (Misled(d) => d \in behind /\ adoption[d]["join"].pc = "idle")'
    <3>1. SUFFICES ASSUME Misled(d)'
                   PROVE  d \in behind' /\ adoption'[d]["join"].pc = "idle"
      OBVIOUS
    <3>2. k = "join" /\ adoption'[d]["watch"] = adoption[d]["watch"]
      BY <3>1, <1>2 DEF Misled, Tasks
    <3>3. adoption[d]["watch"].pc = "stamping" /\ adoption[d]["watch"].seen \in Nat
          /\ adoption[d]["watch"].seen > mirror'[d].revision
      BY <3>1, <3>2, AdoptionHas DEF Misled, Tasks
    <3>4. ~Misled(d)
      BY <1>1, <1>4, <3>2 DEF DeviceCopy
    <3>5. mirror'[d].revision < mirror[d].revision
      BY <3>3, <3>4, <1>3, <1>7 DEF Misled
    <3> QED
      BY <3>2, <3>5, <1>2, <1>9
  <2>4. (d \in online \ behind => CopyDue(d))'
    <3>1. SUFFICES ASSUME d \in online, d \notin behind', effective.values # Empty,
                          effective.revision = after[d], adoption'[d]["watch"].pc = "idle"
                   PROVE  mirror'[d] = effective
      BY <1>1, <1>3, <1>5 DEF CopyDue
    <3>2. mirror'[d].revision >= mirror[d].revision
      BY <3>1, <1>3, <1>7, <1>9
    <3>3. SUFFICES mirror'[d].revision >= effective.revision
      BY <1>3, <1>7 DEF TrueCopy
    <3>4. CASE d \in behind
      BY <3>1, <3>4, <1>3, <1>7, <1>9
    <3>5. CASE d \notin behind /\ k = "join"
      <4>1. CopyDue(d) /\ adoption[d]["watch"].pc = "idle"
        BY <3>1, <3>5, <1>2, <1>4 DEF DeviceCopy, Tasks
      <4>2. mirror[d] = effective
        BY <4>1, <3>1, <1>3 DEF CopyDue
      <4> QED
        BY <4>2, <3>2
    <3>6. CASE d \notin behind /\ k = "watch"
      <4>1. doc.revision >= after[d] /\ seen <= mirror[d].revision
        BY <3>6, <1>1, <1>3, <1>4 DEF DeviceCopy, Answered, Misled, doc, seen
      <4>2. doc = effective
        BY <4>1, <3>1, <1>3, <1>5 DEF TrueCopy
      <4> QED
        BY <4>1, <4>2, <3>1, <1>3, <1>6
    <3> QED
      BY <3>4, <3>5, <3>6 DEF Tasks
  <2> QED
    BY <2>1, <2>2, <2>3, <2>4 DEF DeviceCopy
<1> QED
  BY <1>1, <1>2, <1>6, <1>9, <1>10, OneMoves DEF Still

\* An adoption ends without a copy: the watch's is excused, or nobody has
\* published.
LEMMA EndsCopies ==
  ASSUME TypeOK, CopyInv, NEW d \in Devices, NEW k \in Tasks,
         adoption' = [adoption EXCEPT ![d][k] = NoAdoption],
         UNCHANGED <<effective, mirror, after, online>>,
         WatchFailed(d, k) \/ (behind' = behind /\ effective.values = Empty)
  PROVE  CopyInv'
<1>1. /\ adoption'[d][k].pc = "idle"
      /\ \A j \in Tasks : j # k => adoption'[d][j] = adoption[d][j]
      /\ \A e \in Devices \ {d} : adoption'[e] = adoption[e]
  <2>1. /\ adoption'[d][k] = NoAdoption
        /\ \A j \in Tasks : j # k => adoption'[d][j] = adoption[d][j]
        /\ \A e \in Devices \ {d} : adoption'[e] = adoption[e]
    BY AdoptionMoves
  <2> QED
    BY <2>1 DEF NoAdoption
<1>2. /\ \A e \in Devices \ {d} : e \in behind' <=> e \in behind
      /\ d \in behind => d \in behind'
      /\ k = "watch" => d \in behind' \/ effective.values = Empty
  BY DEF WatchFailed
<1>3. DeviceCopy(d)
  BY DEF CopyInv
<1>4. DeviceCopy(d)'
  BY <1>1, <1>2, <1>3 DEF DeviceCopy, TrueCopy, Answered, Misled, CopyDue, Tasks
<1> QED
  BY <1>1, <1>2, <1>4, OneMoves DEF Still

LEMMA AbsorbFailsCopies ==
  ASSUME TypeOK, CopyInv, NEW d \in Devices, NEW k \in Tasks, AbsorbFails(d, k)
  PROVE  CopyInv'
<1>1. Land(d, k) /\ WatchFailed(d, k) /\ mirror' = mirror
  BY DEF AbsorbFails
<1> QED
  BY <1>1, LandHas, EndsCopies

LEMMA NoDocumentCopies ==
  ASSUME TypeOK, CopyInv, NEW d \in Devices, NEW k \in Tasks, NoDocument(d, k)
  PROVE  CopyInv'
<1>1. /\ adoption' = [adoption EXCEPT ![d][k] = NoAdoption] /\ behind' = behind
      /\ UNCHANGED <<effective, mirror, after, online>> /\ effective.revision = 0
  BY DEF NoDocument, FallBack
<1>2. effective.values = Empty
  BY <1>1 DEF CopyInv, Unpublished
<1> QED
  BY <1>1, <1>2, EndsCopies

LEMMA ReadFailsCopies ==
  ASSUME TypeOK, CopyInv, NEW d \in Devices, NEW k \in Tasks, ReadFails(d, k)
  PROVE  CopyInv'
<1>1. /\ adoption' = [adoption EXCEPT ![d][k] = NoAdoption] /\ WatchFailed(d, k)
      /\ UNCHANGED <<effective, mirror, after, online>>
  BY DEF ReadFails, FallBack
<1> QED
  BY <1>1, EndsCopies

\* A session begins: the watch starts from zero, so whatever has been published
\* wakes it.
LEMMA MountCopies ==
  ASSUME TypeOK, CopyInv, NEW d \in Devices, Mount(d), UNCHANGED <<effective, mirror>>
  PROVE  CopyInv'
<1>1. /\ online' = online \cup {d} /\ after' = [after EXCEPT ![d] = 0]
      /\ adoption' = [adoption EXCEPT ![d] = Joining] /\ behind' = behind \ {d}
  BY DEF Mount
<1>2. /\ after'[d] = 0 /\ adoption'[d] = Joining
      /\ \A e \in Devices \ {d} : Still(e)
  BY <1>1, TypesHave DEF Still
<1>3. /\ adoption'[d]["watch"].pc = "idle" /\ adoption'[d]["join"].pc = "reading"
  BY <1>2 DEF Joining, NoSession, NoAdoption, Tasks
<1>4. effective.revision \in Nat /\ DeviceCopy(d) /\ Unpublished
  BY TypesHave DEF CopyInv, Copy
<1>5. DeviceCopy(d)'
  BY <1>2, <1>3, <1>4
     DEF DeviceCopy, TrueCopy, Answered, Misled, CopyDue, Unpublished, Tasks
<1> QED
  BY <1>2, <1>5, OneMoves

\* A session ends.
LEMMA UnmountCopies ==
  ASSUME TypeOK, CopyInv, NEW d \in Devices, online' = online \ {d},
         adoption' = [adoption EXCEPT ![d] = NoSession],
         UNCHANGED <<effective, mirror, after, behind>>
  PROVE  CopyInv'
<1>1. /\ adoption'[d] = NoSession /\ d \notin online'
      /\ \A e \in Devices \ {d} : Still(e)
  BY TypesHave DEF Still
<1>2. adoption'[d]["watch"].pc = "idle" /\ adoption'[d]["join"].pc = "idle"
  BY <1>1 DEF NoSession, NoAdoption, Tasks
<1>3. DeviceCopy(d)
  BY DEF CopyInv
<1>4. DeviceCopy(d)'
  BY <1>1, <1>2, <1>3 DEF DeviceCopy, TrueCopy, Answered, Misled, Tasks
<1> QED
  BY <1>1, <1>4, OneMoves

\* The mutations of the document, by whomever.
LEMMA StoreCopies ==
  ASSUME TypeOK, CopyInv, Outside \/ \E s \in Pubs : Publishing(s)
  PROVE  CopyInv'
<1>1. UNCHANGED <<mirror, adoption, after, online, behind>>
  <2>1. Outside => UNCHANGED <<mirror, adoption, after, online, behind>>
    BY DEF Outside, DiscardDraft, PublishDraft, ApplyDraftPatch, ImportDocument, Reset,
           RevertVersion, Elsewhere
  <2>2. ASSUME NEW s \in Pubs, Publishing(s)
        PROVE  UNCHANGED <<mirror, adoption, after, online, behind>>
    BY <2>2 DEF Publishing, ApplyGroupDraftPatch, PublishGroupDraft, ResetGroupElement,
                PublicationFails
  <2> QED
    BY <2>1, <2>2
<1>2. effective' = effective \/ \E values : Record(values)
  <2>1. Outside => effective' = effective \/ \E values : Record(values)
    BY DEF Outside, DiscardDraft, PublishDraft, ApplyDraftPatch, ImportDocument, Reset,
           RevertVersion, MoveDraft, Forget
  <2>2. ASSUME NEW s \in Pubs, Publishing(s)
        PROVE  effective' = effective \/ \E values : Record(values)
    BY <2>2 DEF Publishing, ApplyGroupDraftPatch, PublishGroupDraft, ResetGroupElement,
                PublicationFails, MoveDraft, Forget
  <2> QED
    BY <2>1, <2>2
<1> QED
  BY <1>1, <1>2, RecordCopies, CopiesStay

LEMMA StepCopies ==
  ASSUME TypeOK, CopyInv, [Next]_vars
  PROVE  CopyInv'
<1>1. ASSUME NEW d \in Devices, NEW k \in Tasks, Adopting(d, k)
      PROVE  CopyInv'
  BY <1>1, ReadDocumentsCopies, CompareCopies, AbsorbCopies, AbsorbFailsCopies,
     NoDocumentCopies, ReadFailsCopies, Zenon DEF Adopting
<1>2. ASSUME NEW d \in Devices, Device(d)
      PROVE  CopyInv'
  <2>1. CASE WatchFrame(d)
    BY <2>1, WatchFrameCopies
  <2>2. CASE Connect(d) \/ Remount(d)
    <3>1. Mount(d) /\ UNCHANGED <<effective, mirror>>
      BY <2>2 DEF Connect, Remount
    <3> QED
      BY <3>1, MountCopies
  <2>3. CASE Unmount(d) \/ ClosePage(d)
    <3>1. /\ online' = online \ {d} /\ adoption' = [adoption EXCEPT ![d] = NoSession]
          /\ UNCHANGED <<effective, mirror, after, behind>>
      BY <2>3 DEF Unmount, ClosePage
    <3> QED
      BY <3>1, UnmountCopies
  <2>4. CASE \/ \E p \in Paths, v \in Values : Change(d, p, v)
             \/ \E paths \in SUBSET Paths \ {{}} : ResetSettings(d, paths)
             \/ \E values \in [Paths -> Values] : RewriteDraft(d, values)
             \/ \E values \in late[d] : LandLate(d, values)
             \/ AdoptOffline(d)
    <3>1. UNCHANGED <<effective, mirror, adoption, after, online, behind>>
      BY <2>4 DEF Change, ResetSettings, RewriteDraft, LandLate, AdoptOffline
    <3> QED
      BY <3>1, CopiesStay
  <2> QED
    BY <1>2, <2>1, <2>2, <2>3, <2>4, Zenon DEF Device
<1>3. CASE UNCHANGED vars
  <2>1. UNCHANGED <<effective, mirror, adoption, after, online, behind>>
    BY <1>3 DEF vars
  <2> QED
    BY <2>1, CopiesStay
<1> QED
  BY <1>1, <1>2, <1>3, StoreCopies, Zenon DEF Next

\* However the join's adoption and the watch's cross, and whoever publishes
\* meanwhile: a device whose copy is not the group's document has a frame or an
\* answer to come that will bring it, except after a read or a write that failed
\* and after a copy was replaced through a comparison older than itself.
THEOREM CopiesAccounted == Spec => []CopyAccounted
<1>1. Init => CopyInv
  <2> SUFFICES ASSUME Init PROVE CopyInv
    OBVIOUS
  <2>1. /\ effective = NoCopy /\ mirror = [d \in Devices |-> NoCopy]
        /\ adoption = [d \in Devices |-> Joining] /\ after = [d \in Devices |-> 0]
    BY DEF Init
  <2>2. /\ effective.revision = 0 /\ effective.values = Empty
    BY <2>1 DEF NoCopy
  <2>3. ASSUME NEW d \in Devices
        PROVE  DeviceCopy(d)
    <3>1. /\ mirror[d] = effective /\ after[d] = 0
          /\ adoption[d]["watch"].pc = "idle" /\ adoption[d]["join"].pc = "reading"
      BY <2>1 DEF Joining, NoSession, NoAdoption, Tasks
    <3> QED
      BY <3>1, <2>2 DEF DeviceCopy, TrueCopy, Answered, Misled, CopyDue, Tasks
  <2> QED
    BY <2>2, <2>3 DEF CopyInv, Unpublished
<1>2. TypeOK /\ CopyInv /\ [Next]_vars => CopyInv'
  BY StepCopies
<1>3. TypeOK /\ CopyInv => CopyAccounted
  <2> SUFFICES ASSUME TypeOK, CopyInv, NEW d \in online \ behind
               PROVE  CopyDue(d)
    BY DEF CopyAccounted
  <2>1. d \in Devices
    BY TypesHave
  <2> QED
    BY <2>1 DEF CopyInv, DeviceCopy
<1> QED
  BY <1>1, <1>2, <1>3, TypeCorrect, PTL DEF Spec

-----------------------------------------------------------------------------
(* The feeds: pages and the window.                                        *)

\* A non-empty set of numbers up to a bound has a greatest element.
LEMMA GreatestExists ==
  ASSUME NEW n \in Nat, NEW T \in SUBSET (0..n), T # {}
  PROVE  \E x \in T : \A y \in T : y <= x
<1> DEFINE R == {ss \in Nat \X Nat : ss[1] < ss[2]}
           U == {n - t : t \in T}
<1>1. IsWellFoundedOn(R, Nat)
  <2>1. OpToRel(<, Nat) = R
    BY Zenon DEF OpToRel
  <2> QED
    BY Zenon, <2>1, NatLessThanWellFounded
<1>2. U \subseteq Nat /\ U # {}
  <2>1. \A t \in T : n - t \in Nat
    OBVIOUS
  <2> QED
    BY <2>1
<1> HIDE DEF R, U
<1>3. PICK u \in U : \A v \in U : <<v, u>> \notin R
  BY <1>1, <1>2, WFMin, Zenon
<1>4. \A v \in U : ~(v < u)
  <2> SUFFICES ASSUME NEW v \in U, v < u PROVE FALSE
    OBVIOUS
  <2>1. <<v, u>> \in Nat \X Nat
    BY <1>2
  <2>2. <<v, u>> \in R
    BY <2>1 DEF R
  <2> QED
    BY <1>3, <2>2
<1>5. PICK x \in T : u = n - x
  BY <1>3 DEF U
<1>6. \A y \in T : n - y \in U /\ y \in Nat /\ x \in Nat
  BY DEF U
<1>7. \A y \in T : ~(n - y < n - x)
  BY <1>4, <1>5, <1>6
<1> QED
  BY <1>6, <1>7

LEMMA HighestIsGreatest ==
  ASSUME NEW n \in Nat, NEW base, NEW page \in SUBSET (0..n)
  PROVE  /\ page = {} => Highest(base, page) = base
         /\ page # {} => /\ Highest(base, page) \in page
                         /\ \A s \in page : s <= Highest(base, page)
<1>1. CASE page = {}
  BY <1>1 DEF Highest
<1>2. CASE page # {}
  BY <1>2, GreatestExists DEF Highest
<1> QED
  BY <1>1, <1>2

LEMMA FeedConstants ==
  /\ HistoryLimit \in Nat /\ HistoryLimit > 0 /\ ReplayLimit \in Nat
  /\ MaxSequence \in Nat /\ MaxDrops \in Nat
BY FeedAssumption

\* What the group retains is the end of its log.
LEMMA RetainedIsEnd ==
  ASSUME NEW n \in Nat, Last = n
  PROVE  /\ Retained \in SUBSET (1..n)
         /\ \A s \in Retained : \A t \in s..n : t \in Retained
         /\ n > 0 => n \in Retained
BY FeedConstants DEF Retained, Prune

\* Its oldest row is a row, and none is older.
LEMMA OldestRetained ==
  ASSUME NEW n \in Nat, Last = n, n > 0
  PROVE  Oldest(Retained) \in Retained /\ \A s \in Retained : Oldest(Retained) <= s
<1> DEFINE first == IF n > HistoryLimit THEN n - HistoryLimit + 1 ELSE 1
<1>1. first \in 1..n /\ first + HistoryLimit > n
      /\ \A s \in 1..n : s + HistoryLimit > n => first <= s
  BY FeedConstants
<1> HIDE DEF first
<1>2. first \in Retained /\ \A s \in Retained : first <= s
  BY <1>1 DEF Retained, Prune
<1> QED
  BY <1>2 DEF Oldest

\* With an event, a page holds every retained one between it and the position.
LEMMA PageIsPrefix ==
  ASSUME NEW n \in Nat, NEW S \in SUBSET (1..n), NEW from \in Nat, NEW limit \in Nat,
         NEW e \in FirstAbove(S, from, limit), NEW s \in Above(S, from), s <= e
  PROVE  s \in FirstAbove(S, from, limit)
<1> DEFINE Before(x) == {t \in Above(S, from) : t < x}
<1>1. e \in S /\ s \in S /\ Cardinality(Before(e)) < limit
  BY DEF FirstAbove, Above
<1>2. e \in 1..n /\ s \in 1..n /\ \A t \in S : t \in 1..n
  BY <1>1
<1>3. Before(e) \in SUBSET (1..n) /\ Before(s) \in SUBSET Before(e) /\ IsFiniteSet(Before(e))
  <2>1. Before(e) \in SUBSET (1..n)
    BY <1>2 DEF Above
  <2>2. Before(s) \in SUBSET Before(e)
    <3> SUFFICES ASSUME NEW t \in Before(s) PROVE t \in Before(e)
      OBVIOUS
    <3>1. t \in Above(S, from) /\ t < s /\ t \in S
      BY DEF Above
    <3>2. t < e
      BY <1>2, <3>1
    <3> QED
      BY <3>1, <3>2
  <2>3. IsFiniteSet(1..n)
    BY FS_Interval
  <2> HIDE DEF Before
  <2> QED
    BY <2>1, <2>2, <2>3, FS_Subset
<1> HIDE DEF Before
<1>4. Cardinality(Before(s)) <= Cardinality(Before(e)) /\ IsFiniteSet(Before(s))
  BY <1>3, FS_Subset
<1>5. Cardinality(Before(s)) \in Nat /\ Cardinality(Before(e)) \in Nat
  BY <1>3, <1>4, FS_CardinalityType
<1>6. Cardinality(Before(s)) < limit
  BY <1>1, <1>4, <1>5
<1> QED
  BY <1>6 DEF FirstAbove, Before

\* Events above a position with nothing missing before any of them.
FollowsOn(from, page) == \A e \in page : e > from /\ \A t \in (from + 1)..e : t \in page

\* The answer to a position the window still covers follows on from it.
LEMMA AnswerFollowsOn ==
  ASSUME NEW n \in Nat, Last = n, NEW from \in 0..n,
         ~ResyncNeeded(from, Replay(Retained, from, ReplayLimit).earliest)
  PROVE  /\ Replay(Retained, from, ReplayLimit).events \in SUBSET (1..n)
         /\ FollowsOn(from, Replay(Retained, from, ReplayLimit).events)
<1> DEFINE page == FirstAbove(Retained, from, ReplayLimit)
<1>1. /\ Replay(Retained, from, ReplayLimit).events = page
      /\ page \subseteq Above(Retained, from) /\ Above(Retained, from) \subseteq Retained
      /\ Retained \in SUBSET (1..n)
  BY RetainedIsEnd DEF Replay, FirstAbove, Above
<1> HIDE DEF page
<1>2. ASSUME NEW e \in page PROVE e > from /\ \A t \in (from + 1)..e : t \in page
  <2>1. e \in 1..n /\ e > from /\ Above(Retained, from) # {}
    BY <1>1, <1>2 DEF Above
  <2>2. Replay(Retained, from, ReplayLimit).earliest = Oldest(Retained)
    BY <2>1 DEF Replay
  <2>3. Oldest(Retained) \in Retained /\ Oldest(Retained) \in 1..n
    <3>1. n > 0
      BY <2>1
    <3> QED
      BY <1>1, <3>1, OldestRetained
  <2>4. Oldest(Retained) <= from + 1
    BY <2>2, <2>3 DEF ResyncNeeded, NoEdge
  <2>5. ASSUME NEW t \in (from + 1)..e PROVE t \in page
    <3>1. t \in Oldest(Retained)..n
      BY <2>1, <2>3, <2>4
    <3>2. t \in Above(Retained, from)
      BY <2>3, <3>1, RetainedIsEnd DEF Above
    <3> QED
      <4>1. e \in FirstAbove(Retained, from, ReplayLimit) /\ t <= e
        BY <1>2, <2>1 DEF page
      <4>2. ReplayLimit \in Nat /\ from \in Nat /\ Retained \in SUBSET (1..n)
        BY <1>1, FeedConstants
      <4> QED
        BY <3>2, <4>1, <4>2, PageIsPrefix DEF page
  <2> QED
    BY <2>1, <2>5
<1> QED
  BY <1>1, <1>2 DEF FollowsOn

\* An answer that tells of a resync has an edge, and it is in the log.
LEMMA EdgeInLog ==
  ASSUME NEW n \in Nat, Last = n, NEW from \in 0..n,
         NEW edge, edge = Replay(Retained, from, ReplayLimit).earliest,
         ResyncNeeded(from, edge)
  PROVE  edge \in 1..n
<1>1. Above(Retained, from) # {} /\ edge = Oldest(Retained)
  BY DEF Replay, ResyncNeeded
<1>2. n > 0
  BY <1>1, RetainedIsEnd DEF Above
<1> QED
  BY <1>1, <1>2, OldestRetained, RetainedIsEnd

-----------------------------------------------------------------------------
(* The feeds: the invariant.                                               *)

\* What NoSkip says of one event; once said, it stays.
Covered(s) == applied[s] > 0 \/ s \in lost \/ s \in thrown
CoveredTo(n) == \A s \in 1..n : Covered(s)

\* The histories of the one cursor, and AppliedOnce made inductive: what lies
\* above the cursor was never applied, unless the cursor was taken back across it.
ChannelInv ==
  /\ cursor \in 0..Last
  /\ applied \in [Sequence -> Nat]
  /\ rewound \subseteq Sequence /\ lost \subseteq Sequence /\ thrown \subseteq Sequence
  /\ \A s \in Sequence \ rewound : applied[s] <= 1 /\ (s > cursor => applied[s] = 0)
  /\ CoveredTo(cursor)

FeedRecord(n) == [pc : {"waiting", "asking", "live", "page", "resyncing", "rewinding"},
                  after : 0..n, page : SUBSET Sequence, floor : 0..n]

\* Everything a feed has passed, or will fall back to, is covered whoever applied
\* it, and the page it carries follows on from its position.
FeedSound(r) ==
  /\ r \in FeedRecord(Last)
  /\ CoveredTo(r.after) /\ CoveredTo(r.floor)
  /\ r.pc = "page" => r.page \subseteq 1..Last /\ FollowsOn(r.after, r.page)

LogTyped == log \in Seq(Kinds) /\ Last <= MaxSequence /\ drops \in 0..MaxDrops

FeedInv ==
  /\ LogTyped
  /\ ChannelInv
  /\ feed \in [Feeds -> FeedRecord(Last)]
  /\ \A f \in Feeds : FeedSound(feed[f])

\* The log is a number of events long.
LEMMA LogLength ==
  ASSUME LogTyped
  PROVE  Last \in 0..MaxSequence /\ (1..Last) \subseteq Sequence
BY FeedConstants DEF LogTyped, Last, Sequence

LEMMA WaitingSound ==
  ASSUME FeedInv, Last' = Last
  PROVE  FeedSound(Waiting)'
BY LogLength, FeedConstants DEF FeedInv, FeedSound, Waiting, Standing, FeedRecord, CoveredTo

\* What a step that adds to the histories adds to what is covered.
Covers == \A s \in Sequence : Covered(s) => Covered(s)'

\* One feed moves on, and the channel's promise is kept.
LEMMA FeedMoves ==
  ASSUME FeedInv, NEW f \in Feeds, NEW r, feed' = [feed EXCEPT ![f] = r], UNCHANGED log,
         drops' \in 0..MaxDrops, Covers, ChannelInv', FeedSound(r)'
  PROVE  FeedInv'
<1>1. Last' = Last /\ Last \in 0..MaxSequence /\ (1..Last) \subseteq Sequence /\ LogTyped'
  BY LogLength DEF FeedInv, Last, LogTyped
<1>2. r \in FeedRecord(Last)
  BY <1>1 DEF FeedSound
<1>3. feed' \in [Feeds -> FeedRecord(Last)] /\ feed'[f] = r /\ \A g \in Feeds \ {f} : feed'[g] = feed[g]
  BY <1>2 DEF FeedInv
<1>4. ASSUME NEW n \in 0..Last, CoveredTo(n) PROVE CoveredTo(n)'
  BY <1>1, <1>4 DEF CoveredTo, Covers
<1>5. ASSUME NEW g \in Feeds, g # f PROVE FeedSound(feed[g])'
  <2>1. feed'[g] = feed[g] /\ feed[g] \in FeedRecord(Last) /\ FeedSound(feed[g])
    BY <1>3, <1>5 DEF FeedInv
  <2>2. CoveredTo(feed[g].after)' /\ CoveredTo(feed[g].floor)'
    <3>1. PICK i \in 0..Last, j \in 0..Last : i = feed[g].after /\ j = feed[g].floor
      BY <2>1 DEF FeedRecord
    <3>2. CoveredTo(i) /\ CoveredTo(j)
      BY <2>1, <3>1 DEF FeedSound
    <3>3. CoveredTo(i)' /\ CoveredTo(j)'
      BY <1>4, <3>2
    <3> QED
      BY <2>1, <3>1, <3>3
  <2> QED
    BY <1>1, <2>1, <2>2 DEF FeedSound
<1>6. \A g \in Feeds : FeedSound(feed[g])'
  BY <1>3, <1>5
<1> QED
  BY <1>1, <1>3, <1>6 DEF FeedInv

-----------------------------------------------------------------------------
(* The feeds: the steps.                                                   *)

\* A page that follows on from a covered position is delivered.
LEMMA DeliverKeeps ==
  ASSUME LogTyped, ChannelInv, NEW from \in Nat, CoveredTo(from),
         NEW page \in SUBSET (1..Last), FollowsOn(from, page),
         Deliver(page), UNCHANGED <<log, rewound, lost>>
  PROVE  /\ ChannelInv' /\ Covers
         /\ \A e \in page : e <= cursor'
<1>0. Last' = Last /\ Last \in Nat /\ (1..Last) \subseteq Sequence /\ cursor \in 0..Last
  BY LogLength DEF Last, ChannelInv
<1>1. /\ Accepted(page) = {s \in page : s > cursor}
      /\ Accepted(page) \in SUBSET (0..Last)
  <2>1. Accepted(page) = {s \in page : s > cursor}
    BY DEF Accepted, Above
  <2>2. \A s \in page : s \in 0..Last
    BY <1>0
  <2> QED
    BY <2>1, <2>2
<1>2. /\ cursor' \in 0..Last /\ cursor' >= cursor
      /\ \A s \in Accepted(page) : s <= cursor'
      /\ cursor' = cursor \/ cursor' \in Accepted(page)
  <2>1. cursor' = Highest(cursor, Accepted(page))
    BY DEF Deliver
  <2>2. CASE Accepted(page) = {}
    BY <1>0, <2>1, <2>2 DEF Highest
  <2>3. CASE Accepted(page) # {}
    <3>1. cursor' \in Accepted(page) /\ \A s \in Accepted(page) : s <= cursor'
      BY <1>0, <1>1, <2>1, <2>3, HighestIsGreatest
    <3>2. cursor' \in 0..Last /\ cursor' > cursor
      BY <1>1, <3>1
    <3> QED
      BY <1>0, <3>1, <3>2
  <2> QED
    BY <2>2, <2>3
<1>3. /\ applied' \in [Sequence -> Nat]
      /\ \A s \in Sequence : applied'[s] = IF s \in Accepted(page) THEN applied[s] + 1 ELSE applied[s]
  BY DEF Deliver, HandedOut, ChannelInv
<1>4. thrown' = thrown /\ rewound' = rewound /\ lost' = lost
  BY DEF Deliver
<1>5. Covers
  BY <1>3, <1>4 DEF Covers, Covered, ChannelInv
<1>6. ASSUME NEW s \in Sequence \ rewound'
      PROVE  applied'[s] <= 1 /\ (s > cursor' => applied'[s] = 0)
  <2>1. s \in Sequence \ rewound /\ s \in Nat
    BY <1>4, <1>6 DEF Sequence
  <2>2. applied[s] \in Nat /\ applied[s] <= 1 /\ (s > cursor => applied[s] = 0)
    BY <2>1 DEF ChannelInv
  <2>3. CASE s \in Accepted(page)
    BY <1>1, <1>2, <1>3, <2>1, <2>2, <2>3
  <2>4. CASE s \notin Accepted(page)
    BY <1>0, <1>2, <1>3, <2>1, <2>2, <2>4
  <2> QED
    BY <2>3, <2>4
<1>7. ASSUME NEW s \in 1..cursor' PROVE Covered(s)'
  <2>1. s \in Sequence /\ s \in Nat
    BY <1>0, <1>2
  <2>2. CASE s <= cursor
    BY <1>0, <1>5, <2>1, <2>2, <1>7 DEF ChannelInv, CoveredTo, Covers
  <2>3. CASE s > cursor /\ s <= from
    BY <1>5, <2>1, <2>3, <1>7 DEF CoveredTo, Covers
  <2>4. CASE s > cursor /\ s > from
    <3>1. cursor' \in page /\ s \in (from + 1)..cursor'
      BY <1>0, <1>1, <1>2, <1>7, <2>1, <2>4
    <3>2. s \in Accepted(page)
      BY <1>1, <2>4, <3>1 DEF FollowsOn
    <3>3. applied'[s] > 0
      BY <1>3, <2>1, <3>2 DEF ChannelInv
    <3> QED
      BY <3>3 DEF Covered
  <2> QED
    BY <1>0, <2>1, <2>2, <2>3, <2>4
<1>8. CoveredTo(cursor)'
  BY <1>7 DEF CoveredTo
<1>9. ChannelInv'
  BY <1>0, <1>2, <1>3, <1>4, <1>6, <1>8 DEF ChannelInv
<1>10. \A e \in page : e <= cursor'
  BY <1>0, <1>1, <1>2
<1> QED
  BY <1>5, <1>9, <1>10

\* ... or a subscriber throws at one of its events: the page up to there is
\* accounted for, and the cursor goes no further.
LEMMA ThrowKeeps ==
  ASSUME LogTyped, ChannelInv, NEW from \in Nat, CoveredTo(from),
         NEW page \in SUBSET (1..Last), FollowsOn(from, page),
         NEW e \in page, DeliverThrows(page, e), UNCHANGED <<log, rewound, lost>>
  PROVE  ChannelInv' /\ Covers /\ cursor' = e
<1> DEFINE early == {t \in page : t < e}
<1>0. Last' = Last /\ Last \in Nat /\ (1..Last) \subseteq Sequence /\ cursor \in 0..Last
  BY LogLength DEF Last, ChannelInv
<1>1. /\ Accepted(page) = {s \in page : s > cursor}
      /\ Accepted(early) = {s \in early : s > cursor}
  BY DEF Accepted, Above
<1>2. cursor' = e /\ e \in 1..Last /\ e > cursor
  BY <1>1 DEF DeliverThrows
<1>3. /\ applied' \in [Sequence -> Nat]
      /\ \A s \in Sequence : applied'[s] = IF s \in Accepted(early) THEN applied[s] + 1 ELSE applied[s]
  BY DEF DeliverThrows, HandedOut, ChannelInv
<1>4. thrown' = thrown \cup {e} /\ rewound' = rewound /\ lost' = lost
  BY DEF DeliverThrows
<1>5. Covers
  <2> SUFFICES ASSUME NEW s \in Sequence, Covered(s) PROVE Covered(s)'
    BY DEF Covers
  <2>1. applied[s] \in Nat /\ (applied'[s] = applied[s] \/ applied'[s] = applied[s] + 1)
    BY <1>3 DEF ChannelInv
  <2> HIDE DEF early
  <2> QED
    BY <1>4, <2>1 DEF Covered
<1>6. ASSUME NEW s \in Sequence \ rewound'
      PROVE  applied'[s] <= 1 /\ (s > cursor' => applied'[s] = 0)
  <2>1. s \in Sequence \ rewound /\ s \in Nat
    BY <1>4, <1>6 DEF Sequence
  <2>2. applied[s] \in Nat /\ applied[s] <= 1 /\ (s > cursor => applied[s] = 0)
    BY <2>1 DEF ChannelInv
  <2>3. CASE s \in Accepted(early)
    BY <1>1, <1>2, <1>3, <2>1, <2>2, <2>3
  <2>4. CASE s \notin Accepted(early)
    BY <1>0, <1>2, <1>3, <2>1, <2>2, <2>4
  <2> QED
    BY <2>3, <2>4
<1>7. ASSUME NEW s \in 1..cursor' PROVE Covered(s)'
  <2>1. s \in Sequence /\ s \in Nat /\ s <= e
    BY <1>0, <1>2
  <2>2. CASE s <= cursor
    BY <1>0, <1>5, <2>1, <2>2, <1>7 DEF ChannelInv, CoveredTo, Covers
  <2>3. CASE s > cursor /\ s <= from
    BY <1>5, <2>1, <2>3, <1>7 DEF CoveredTo, Covers
  <2>4. CASE s = e
    BY <1>4, <2>4 DEF Covered
  <2>5. CASE s > cursor /\ s > from /\ s # e
    <3>1. s \in (from + 1)..e /\ s < e
      BY <1>2, <2>1, <2>5
    <3>2. s \in early
      BY <3>1 DEF FollowsOn
    <3>3. s \in Accepted(early) /\ applied[s] \in Nat
      BY <1>1, <2>1, <2>5, <3>2 DEF ChannelInv
    <3>4. applied'[s] > 0
      BY <1>3, <2>1, <3>3
    <3> QED
      BY <3>4 DEF Covered
  <2> QED
    BY <1>0, <2>1, <2>2, <2>3, <2>4, <2>5
<1>8. CoveredTo(cursor)'
  BY <1>7 DEF CoveredTo
<1>9. thrown' \subseteq Sequence
  BY <1>0, <1>2, <1>4 DEF ChannelInv
<1>10. ChannelInv'
  BY <1>0, <1>2, <1>3, <1>4, <1>6, <1>8, <1>9 DEF ChannelInv
<1> QED
  BY <1>2, <1>5, <1>10

\* What the log's window has dropped, and what a snapshot stands for, is lost;
\* the channel itself does not move.
LEMMA LosingKeeps ==
  ASSUME LogTyped, ChannelInv, NEW n \in 0..Last, lost' = lost \cup 1..n,
         UNCHANGED <<log, cursor, applied, rewound, thrown>>
  PROVE  ChannelInv' /\ Covers /\ CoveredTo(n)'
<1>1. Last' = Last /\ Last \in Nat /\ (1..n) \subseteq Sequence /\ cursor \in 0..Last
  BY LogLength DEF Last, ChannelInv
<1>2. Covers
  BY DEF Covers, Covered
<1>3. CoveredTo(n)'
  BY DEF CoveredTo, Covered
<1>4. CoveredTo(cursor)'
  BY <1>1, <1>2, LogLength DEF CoveredTo, Covers, ChannelInv
<1> QED
  BY <1>1, <1>2, <1>3, <1>4 DEF ChannelInv

\* A step that leaves the channel alone.
LEMMA ChannelStays ==
  ASSUME ChannelInv, UNCHANGED <<log, cursor, applied, rewound, lost, thrown>>
  PROVE  ChannelInv' /\ Covers /\ Last' = Last /\ \A n : CoveredTo(n) => CoveredTo(n)'
BY DEF ChannelInv, Covers, Covered, CoveredTo, Last

\* The fields of a feed.
LEMMA FeedFields ==
  ASSUME FeedInv, NEW f \in Feeds
  PROVE  /\ feed[f] \in FeedRecord(Last) /\ FeedSound(feed[f]) /\ LogTyped /\ ChannelInv
         /\ feed[f].after \in 0..Last /\ feed[f].floor \in 0..Last
         /\ CoveredTo(feed[f].after) /\ CoveredTo(feed[f].floor)
         /\ Last \in 0..MaxSequence /\ (1..Last) \subseteq Sequence
         /\ CoveredTo(0) /\ 0 \in 0..Last
BY LogLength, FeedConstants DEF FeedInv, FeedSound, FeedRecord, CoveredTo

\* A feed that starts afresh, and one at a position with no page.
LEMMA FreshSound ==
  ASSUME FeedInv, Last' = Last, NEW pc \in {"waiting", "asking", "resyncing", "live"},
         NEW n \in 0..Last, CoveredTo(n)', NEW m \in 0..Last, CoveredTo(m)',
         NEW r, r = [pc |-> pc, after |-> n, page |-> {}, floor |-> m]
  PROVE  FeedSound(r)'
BY DEF FeedSound, FeedRecord

LEMMA NothingToCover == CoveredTo(0)'
BY DEF CoveredTo

LEMMA PublishEventKeeps ==
  ASSUME FeedInv, NEW kind \in Kinds, PublishEvent(kind)
  PROVE  FeedInv'
<1>1. LogTyped /\ Last \in 0..MaxSequence /\ ChannelInv
  BY LogLength DEF FeedInv
<1>2. Last' = Last + 1 /\ LogTyped'
  BY <1>1, FeedConstants DEF PublishEvent, Last, LogTyped
<1>3. UNCHANGED <<cursor, applied, rewound, lost, thrown, feed>>
  BY DEF PublishEvent
<1>4. \A n : CoveredTo(n) => CoveredTo(n)'
  BY <1>3 DEF CoveredTo, Covered
<1>5. ChannelInv'
  BY <1>1, <1>2, <1>3, <1>4 DEF ChannelInv
<1>6. FeedRecord(Last) \subseteq FeedRecord(Last')
  <2>1. (0..Last) \subseteq (0..Last')
    BY <1>1, <1>2
  <2> QED
    BY <2>1 DEF FeedRecord
<1>7. ASSUME NEW f \in Feeds PROVE FeedSound(feed[f])'
  <2>1. FeedSound(feed[f]) /\ feed'[f] = feed[f]
    BY <1>3 DEF FeedInv
  <2>2. feed[f].page \subseteq 1..Last => feed[f].page \subseteq 1..Last'
    BY <1>1, <1>2
  <2>3. CoveredTo(feed[f].after)' /\ CoveredTo(feed[f].floor)'
    BY <1>3, <1>4, <2>1 DEF FeedSound, CoveredTo, Covered
  <2> QED
    BY <1>6, <2>1, <2>2, <2>3 DEF FeedSound
<1>8. feed' \in [Feeds -> FeedRecord(Last')]
  BY <1>3, <1>6 DEF FeedInv
<1> QED
  BY <1>2, <1>5, <1>7, <1>8 DEF FeedInv

LEMMA AskKeeps ==
  ASSUME FeedInv, NEW f \in Feeds, Ask(f)
  PROVE  FeedInv'
<1>1. ChannelInv /\ LogTyped /\ CoveredTo(0)' /\ 0 \in 0..Last
  BY FeedFields, NothingToCover
<1>2. PICK n \in 0..Last : n = cursor
  BY <1>1 DEF ChannelInv
<1>3. UNCHANGED <<log, cursor, applied, rewound, lost, thrown, drops>>
  BY DEF Ask
<1>4. /\ ChannelInv' /\ Covers /\ Last' = Last /\ CoveredTo(n)'
  <2>1. ChannelInv' /\ Covers /\ Last' = Last
    BY <1>1, <1>3, ChannelStays
  <2> QED
    BY <1>2, <1>3, <2>1 DEF ChannelInv
<1>5. PICK r : r = [pc |-> "asking", after |-> n, page |-> {}, floor |-> 0]
  OBVIOUS
<1>6. feed' = [feed EXCEPT ![f] = r]
  BY <1>2, <1>5, Zenon DEF Ask, Standing
<1>7. FeedSound(r)'
  BY <1>1, <1>4, <1>5, FreshSound
<1>8. drops' \in 0..MaxDrops
  BY <1>1, <1>3 DEF LogTyped
<1> QED
  BY <1>3, <1>4, <1>6, <1>7, <1>8, FeedMoves

\* The window has left the position: everything below its edge is lost, and the
\* floor is just below the edge.
LEMMA OutrunKeeps ==
  ASSUME FeedInv, NEW f \in Feeds, Outrun(f, feed[f].after)
  PROVE  FeedInv'
<1>1. /\ feed[f].after \in 0..Last /\ LogTyped /\ ChannelInv /\ Last \in 0..MaxSequence
      /\ CoveredTo(0)' /\ 0 \in 0..Last
  BY FeedFields, NothingToCover
<1>2. PICK n \in Nat, edge \in {Replay(Retained, feed[f].after, ReplayLimit).earliest} : n = Last
  BY <1>1
<1>3. ResyncNeeded(feed[f].after, edge)
  BY <1>2 DEF Outrun
<1>4. edge \in 1..n
  BY <1>1, <1>2, <1>3, EdgeInLog
<1>5. PICK m \in 0..Last : m = edge - 1
  BY <1>2, <1>4
<1>6. /\ feed' = [feed EXCEPT ![f] = Standing("resyncing", 0, m)]
      /\ lost' = lost \cup 1..m
      /\ UNCHANGED <<log, cursor, applied, rewound, thrown, drops>>
  BY <1>2, <1>5 DEF Outrun, Floor
<1>7. ChannelInv' /\ Covers /\ CoveredTo(m)'
  BY <1>1, <1>6, LosingKeeps
<1>8. PICK r : r = [pc |-> "resyncing", after |-> 0, page |-> {}, floor |-> m]
  OBVIOUS
<1>9. feed' = [feed EXCEPT ![f] = r]
  BY <1>6, <1>8 DEF Standing
<1>10. FeedSound(r)'
  <2>1. Last' = Last
    BY <1>6 DEF Last
  <2> QED
    BY <1>1, <1>7, <1>8, <2>1, FreshSound
<1>11. drops' \in 0..MaxDrops
  BY <1>1, <1>6 DEF LogTyped
<1> QED
  BY <1>6, <1>7, <1>9, <1>10, <1>11, FeedMoves

\* The log is read: a socket is admitted at its position, a poller is sent a page
\* that follows on from it.
LEMMA AnswerKeeps ==
  ASSUME FeedInv, NEW f \in Feeds, Answer(f)
  PROVE  FeedInv'
<1>1. CASE Outrun(f, feed[f].after)
  BY <1>1, OutrunKeeps
<1>2. CASE ~Outrun(f, feed[f].after)
  <2>1. /\ feed[f] \in FeedRecord(Last) /\ feed[f].after \in 0..Last /\ LogTyped /\ ChannelInv
        /\ CoveredTo(feed[f].after) /\ CoveredTo(feed[f].floor)
        /\ Last \in 0..MaxSequence /\ (1..Last) \subseteq Sequence
    BY FeedFields
  <2>2. PICK n \in Nat, page \in {Replay(Retained, feed[f].after, ReplayLimit).events} : n = Last
    BY <2>1
  <2>3. /\ ~ResyncNeeded(feed[f].after, Replay(Retained, feed[f].after, ReplayLimit).earliest)
        /\ feed' = [feed EXCEPT ![f] =
             IF f \in Sockets THEN [@ EXCEPT !.pc = "live"]
             ELSE [@ EXCEPT !.pc = "page", !.page = page]]
        /\ UNCHANGED <<log, cursor, applied, rewound, lost, thrown, drops>>
    BY <1>2, <2>2 DEF Answer
  <2>4. page \in SUBSET (1..n) /\ FollowsOn(feed[f].after, page)
    BY <2>1, <2>2, <2>3, AnswerFollowsOn
  <2>5. PICK r : /\ r = IF f \in Sockets THEN [feed[f] EXCEPT !.pc = "live"]
                        ELSE [feed[f] EXCEPT !.pc = "page", !.page = page]
    OBVIOUS
  <2>6. feed' = [feed EXCEPT ![f] = r]
    BY <2>3, <2>5
  <2>7. /\ r \in FeedRecord(Last) /\ r.after = feed[f].after /\ r.floor = feed[f].floor
        /\ r.pc = "page" => r.page = page
    BY <2>1, <2>2, <2>4, <2>5 DEF FeedRecord
  <2>8. /\ ChannelInv' /\ Covers /\ Last' = Last
        /\ \A k : CoveredTo(k) => CoveredTo(k)'
    BY <2>1, <2>3, ChannelStays
  <2>9. FeedSound(r)'
    <3>1. PICK a, b : a = r.after /\ b = r.floor
      OBVIOUS
    <3>2. CoveredTo(a)' /\ CoveredTo(b)'
      BY <2>1, <2>7, <2>8, <3>1
    <3>3. CoveredTo(r.after)' /\ CoveredTo(r.floor)'
      BY <3>1, <3>2
    <3>4. r.pc = "page" => r.page \subseteq 1..Last' /\ FollowsOn(r.after, r.page)
      BY <2>2, <2>4, <2>7, <2>8
    <3> QED
      BY <2>7, <2>8, <3>3, <3>4 DEF FeedSound
  <2>10. drops' \in 0..MaxDrops
    BY <2>1, <2>3 DEF LogTyped
  <2> QED
    BY <2>3, <2>6, <2>8, <2>9, <2>10, FeedMoves
<1> QED
  BY <1>1, <1>2

\* A page arrives, to a cursor that may have moved since it was read.
LEMMA DeliverPageKeeps ==
  ASSUME FeedInv, NEW f \in Feeds, DeliverPage(f) \/ PageThrows(f)
  PROVE  FeedInv'
<1>1. /\ LogTyped /\ ChannelInv /\ feed[f].pc = "page" /\ FeedSound(feed[f])
      /\ feed' = [feed EXCEPT ![f] = Waiting] /\ UNCHANGED <<log, rewound, lost>>
  BY FeedFields DEF DeliverPage, PageThrows
<1>2. PICK from \in Nat, page \in SUBSET (1..Last) :
        /\ from = feed[f].after /\ page = feed[f].page
        /\ CoveredTo(from) /\ FollowsOn(from, page)
  BY <1>1, FeedFields DEF FeedSound
<1>3. ChannelInv' /\ Covers
  <2>1. CASE Deliver(page)
    BY <1>1, <1>2, <2>1, DeliverKeeps
  <2>2. ASSUME NEW s \in page, DeliverThrows(page, s) PROVE ChannelInv' /\ Covers
    BY <1>1, <1>2, <2>2, ThrowKeeps
  <2> QED
    BY <1>2, <2>1, <2>2 DEF DeliverPage, PageThrows
<1>4. FeedSound(Waiting)'
  <2>1. Last' = Last
    BY <1>1 DEF Last
  <2> QED
    BY <2>1, WaitingSound
<1>5. drops' \in 0..MaxDrops
  BY <1>1, FeedConstants DEF DeliverPage, PageThrows, LogTyped
<1> QED
  BY <1>1, <1>3, <1>4, <1>5, FeedMoves

\* The next frame of a socket's stream arrives.
LEMMA ReceiveKeeps ==
  ASSUME FeedInv, NEW f \in Feeds, Receive(f) \/ FrameThrows(f)
  PROVE  FeedInv'
<1>1. /\ LogTyped /\ ChannelInv /\ feed[f].pc = "live" /\ FeedSound(feed[f])
      /\ feed[f] \in FeedRecord(Last) /\ feed[f].after \in 0..Last /\ feed[f].after < Last
      /\ Last \in 0..MaxSequence
      /\ feed' = [feed EXCEPT ![f].after = @ + 1] /\ UNCHANGED <<log, rewound, lost>>
  BY FeedFields DEF Receive, FrameThrows
<1>2. PICK from \in Nat, e \in 1..Last :
        from = feed[f].after /\ e = from + 1 /\ CoveredTo(from)
  BY <1>1 DEF FeedSound
<1>3. {e} \in SUBSET (1..Last) /\ FollowsOn(from, {e})
  BY <1>2 DEF FollowsOn
<1>4. ChannelInv' /\ Covers /\ e <= cursor'
  <2>1. CASE Deliver({e})
    BY <1>1, <1>2, <1>3, <2>1, DeliverKeeps
  <2>2. CASE DeliverThrows({e}, e)
    <3>1. ChannelInv' /\ Covers /\ cursor' = e
      BY <1>1, <1>2, <1>3, <2>2, ThrowKeeps
    <3> QED
      BY <1>2, <3>1
  <2> QED
    BY <1>2, <2>1, <2>2 DEF Receive, FrameThrows
<1>5. PICK r : r = [feed[f] EXCEPT !.after = e]
  OBVIOUS
<1>6. feed' = [feed EXCEPT ![f] = r]
  BY <1>1, <1>2, <1>5
<1>7. r \in FeedRecord(Last) /\ r.after = e /\ r.floor = feed[f].floor /\ r.pc = "live"
  BY <1>1, <1>2, <1>5 DEF FeedRecord
<1>8. FeedSound(r)'
  <2>1. Last' = Last
    BY <1>1 DEF Last
  <2>2. CoveredTo(e)'
    BY <1>1, <1>2, <1>4, <2>1 DEF ChannelInv, CoveredTo
  <2>3. PICK m \in 0..Last : m = feed[f].floor /\ CoveredTo(m)
    BY FeedFields
  <2>4. CoveredTo(m)'
    BY <1>1, <1>4, <2>3, LogLength DEF CoveredTo, Covers
  <2> QED
    BY <1>7, <2>1, <2>2, <2>3, <2>4 DEF FeedSound
<1>9. drops' \in 0..MaxDrops
  BY <1>1, FeedConstants DEF Receive, FrameThrows, LogTyped
<1> QED
  BY <1>1, <1>4, <1>6, <1>8, <1>9, FeedMoves

\* The snapshot that was read stands for everything up to it.
LEMMA ReadSnapshotKeeps ==
  ASSUME FeedInv, NEW f \in Feeds, ReadSnapshot(f)
  PROVE  FeedInv'
<1>1. /\ LogTyped /\ ChannelInv /\ feed[f] \in FeedRecord(Last) /\ FeedSound(feed[f])
      /\ Last \in 0..MaxSequence
  BY FeedFields
<1>2. PICK m \in 0..Last, top \in 0..Last :
        /\ m = feed[f].floor /\ CoveredTo(m)
        /\ top = Highest(0, Snapshots) /\ Highest(feed[f].floor, Snapshots) \in {m, top}
  <2>1. Snapshots \in SUBSET (0..Last)
    BY <1>1 DEF Snapshots
  <2>2. CASE Snapshots = {}
    BY <1>1, <2>2, FeedFields DEF Highest
  <2>3. CASE Snapshots # {}
    <3>1. Highest(0, Snapshots) = Highest(feed[f].floor, Snapshots)
      BY <2>3 DEF Highest
    <3>2. Highest(0, Snapshots) \in 0..Last
      <4>1. Last \in Nat
        BY <1>1, FeedConstants
      <4>2. Highest(0, Snapshots) \in Snapshots
        BY <2>1, <2>3, <4>1, HighestIsGreatest
      <4> QED
        BY <2>1, <4>2
    <3> QED
      BY <3>1, <3>2, FeedFields
  <2> QED
    BY <2>2, <2>3
<1>3. PICK floor \in {m, top} : floor = Highest(feed[f].floor, Snapshots)
  BY <1>2
<1>4. /\ lost' = lost \cup 1..top
      /\ UNCHANGED <<log, cursor, applied, rewound, thrown, drops>>
      /\ feed' = [feed EXCEPT ![f] = [@ EXCEPT !.pc = "rewinding", !.floor = floor]]
  BY <1>2, <1>3 DEF ReadSnapshot
<1>5. ChannelInv' /\ Covers /\ CoveredTo(top)' /\ Last' = Last
  BY <1>1, <1>4, LosingKeeps DEF Last
<1>6. ASSUME NEW n \in 0..Last, CoveredTo(n) PROVE CoveredTo(n)'
  BY <1>1, <1>5, <1>6, LogLength DEF CoveredTo, Covers
<1>7. PICK r : r = [feed[f] EXCEPT !.pc = "rewinding", !.floor = floor]
  OBVIOUS
<1>8. feed' = [feed EXCEPT ![f] = r]
  BY <1>4, <1>7
<1>9. r \in FeedRecord(Last) /\ r.after = feed[f].after /\ r.floor = floor /\ r.pc = "rewinding"
  BY <1>1, <1>2, <1>3, <1>7 DEF FeedRecord
<1>10. FeedSound(r)'
  <2>1. PICK n \in 0..Last : n = feed[f].after /\ CoveredTo(n)
    BY FeedFields
  <2>2. CoveredTo(n)' /\ CoveredTo(floor)'
    BY <1>2, <1>3, <1>5, <1>6, <2>1
  <2> QED
    BY <1>5, <1>9, <2>1, <2>2 DEF FeedSound
<1>11. drops' \in 0..MaxDrops
  BY <1>1, <1>4 DEF LogTyped
<1> QED
  BY <1>4, <1>5, <1>8, <1>10, <1>11, FeedMoves

LEMMA SnapshotFailsKeeps ==
  ASSUME FeedInv, NEW f \in Feeds, SnapshotFails(f)
  PROVE  FeedInv'
<1>1. /\ LogTyped /\ ChannelInv /\ feed[f] \in FeedRecord(Last) /\ FeedSound(feed[f])
  BY FeedFields
<1>2. UNCHANGED <<log, cursor, applied, rewound, lost, thrown>>
  BY DEF SnapshotFails
<1>3. ChannelInv' /\ Covers /\ Last' = Last /\ \A n : CoveredTo(n) => CoveredTo(n)'
  BY <1>1, <1>2, ChannelStays
<1>4. PICK r : r = [feed[f] EXCEPT !.pc = "rewinding"]
  OBVIOUS
<1>5. feed' = [feed EXCEPT ![f] = r]
  BY <1>4 DEF SnapshotFails
<1>6. /\ r \in FeedRecord(Last) /\ r.after = feed[f].after /\ r.floor = feed[f].floor
      /\ r.pc = "rewinding"
  BY <1>1, <1>4 DEF FeedRecord
<1>7. FeedSound(r)'
  <2>1. PICK n, m : n = feed[f].after /\ m = feed[f].floor /\ CoveredTo(n) /\ CoveredTo(m)
    BY FeedFields
  <2>2. CoveredTo(n)' /\ CoveredTo(m)'
    BY <1>3, <2>1
  <2> QED
    BY <1>3, <1>6, <2>1, <2>2 DEF FeedSound
<1>8. drops' \in 0..MaxDrops
  BY <1>1, FeedConstants DEF SnapshotFails, LogTyped
<1> QED
  BY <1>2, <1>3, <1>5, <1>7, <1>8, FeedMoves

\* The cursor goes to the floor: what it is taken back across may be applied once
\* more, and nothing above it ever was.
LEMMA RewindKeeps ==
  ASSUME FeedInv, NEW f \in Feeds, Rewind(f)
  PROVE  FeedInv'
<1>1. /\ LogTyped /\ ChannelInv /\ Last \in 0..MaxSequence /\ (1..Last) \subseteq Sequence
  BY FeedFields
<1>2. PICK m \in 0..Last : m = feed[f].floor /\ CoveredTo(m)
  BY FeedFields
<1>3. /\ cursor' = m /\ rewound' = rewound \cup (m + 1)..cursor
      /\ feed' = [feed EXCEPT ![f] = Waiting]
      /\ UNCHANGED <<log, applied, lost, thrown, drops>>
  BY <1>2 DEF Rewind
<1>4. Covers /\ Last' = Last /\ CoveredTo(cursor)'
  BY <1>2, <1>3 DEF Covers, Covered, CoveredTo, Last
<1>5. ASSUME NEW s \in Sequence \ rewound'
      PROVE  applied'[s] <= 1 /\ (s > cursor' => applied'[s] = 0)
  <2>1. s \in Nat /\ s \in Sequence \ rewound /\ cursor \in Nat
    BY <1>1, <1>3, <1>5 DEF Sequence, ChannelInv
  <2>2. s > m => s > cursor
    BY <1>2, <1>3, <1>5, <2>1
  <2> QED
    BY <1>1, <1>3, <2>1, <2>2 DEF ChannelInv
<1>6. rewound' \subseteq Sequence
  BY <1>1, <1>2, <1>3 DEF ChannelInv
<1>7. ChannelInv'
  BY <1>1, <1>2, <1>3, <1>4, <1>5, <1>6 DEF ChannelInv
<1>8. FeedSound(Waiting)'
  BY <1>4, WaitingSound
<1>9. drops' \in 0..MaxDrops
  BY <1>1, <1>3 DEF LogTyped
<1> QED
  BY <1>3, <1>4, <1>7, <1>8, <1>9, FeedMoves

LEMMA DropKeeps ==
  ASSUME FeedInv, NEW f \in Feeds, Drop(f)
  PROVE  FeedInv'
<1>1. /\ UNCHANGED <<log, cursor, applied, rewound, lost, thrown>>
      /\ feed' = [feed EXCEPT ![f] = Waiting]
  BY DEF Drop
<1>2. ChannelInv' /\ Covers /\ Last' = Last
  BY <1>1, FeedFields, ChannelStays
<1>3. FeedSound(Waiting)'
  BY <1>2, WaitingSound
<1>4. drops' \in 0..MaxDrops
  BY FeedFields, FeedConstants DEF Drop, LogTyped
<1> QED
  BY <1>1, <1>2, <1>3, <1>4, FeedMoves

\* The invariant holds of every reachable state.
LEMMA FeedInvariant == FeedSpec => []FeedInv
<1>1. FeedInit => FeedInv
  <2> SUFFICES ASSUME FeedInit PROVE FeedInv
    OBVIOUS
  <2>1. LogTyped /\ Last = 0
    BY FeedConstants DEF FeedInit, LogTyped, Last
  <2>2. CoveredTo(0)
    BY DEF CoveredTo
  <2>3. ChannelInv
    BY <2>1, <2>2 DEF FeedInit, ChannelInv, Sequence
  <2>4. FeedSound(Waiting)
    BY <2>1, <2>2 DEF FeedSound, FeedRecord, Waiting, Standing
  <2>5. Waiting \in FeedRecord(Last)
    BY <2>4 DEF FeedSound
  <2> QED
    BY <2>1, <2>3, <2>4, <2>5 DEF FeedInit, FeedInv
<1>2. FeedInv /\ [FeedNext]_feedVars => FeedInv'
  <2> SUFFICES ASSUME FeedInv, [FeedNext]_feedVars PROVE FeedInv'
    OBVIOUS
  <2>1. ASSUME NEW kind \in Kinds, PublishEvent(kind) PROVE FeedInv'
    BY <2>1, PublishEventKeeps
  <2>2. ASSUME NEW f \in Feeds, Feed(f) PROVE FeedInv'
    <3>1. CASE Ask(f)
      BY <3>1, AskKeeps
    <3>2. CASE Answer(f)
      BY <3>2, AnswerKeeps
    <3>3. CASE DeliverPage(f) \/ PageThrows(f)
      BY <3>3, DeliverPageKeeps
    <3>4. CASE Receive(f) \/ FrameThrows(f)
      BY <3>4, ReceiveKeeps
    <3>5. CASE FallBehind(f)
      BY <3>5, OutrunKeeps DEF FallBehind
    <3>6. CASE ReadSnapshot(f)
      BY <3>6, ReadSnapshotKeeps
    <3>7. CASE SnapshotFails(f)
      BY <3>7, SnapshotFailsKeeps
    <3>8. CASE Rewind(f)
      BY <3>8, RewindKeeps
    <3>9. CASE Drop(f)
      BY <3>9, DropKeeps
    <3> QED
      BY <2>2, <3>1, <3>2, <3>3, <3>4, <3>5, <3>6, <3>7, <3>8, <3>9, Zenon DEF Feed
  <2>3. CASE UNCHANGED feedVars
    <3>1. UNCHANGED <<log, cursor, applied, rewound, lost, thrown, feed, drops>>
      BY <2>3 DEF feedVars
    <3>2. ChannelInv' /\ Last' = Last /\ LogTyped'
      BY <3>1, ChannelStays DEF FeedInv, LogTyped, Last
    <3>3. ASSUME NEW f \in Feeds PROVE FeedSound(feed[f])'
      <4>1. feed'[f] = feed[f] /\ FeedSound(feed[f])
        BY <3>1 DEF FeedInv
      <4>2. CoveredTo(feed[f].after)' /\ CoveredTo(feed[f].floor)'
        BY <3>1, <4>1 DEF FeedSound, CoveredTo, Covered
      <4> QED
        BY <3>2, <4>1, <4>2 DEF FeedSound
    <3> QED
      BY <3>1, <3>2, <3>3 DEF FeedInv
  <2> QED
    BY <2>1, <2>2, <2>3, Zenon DEF FeedNext
<1> QED
  BY <1>1, <1>2, PTL DEF FeedSpec

\* Every reachable state of the feeds is well typed: neither the shared cursor nor
\* a feed's position or floor passes the log.
THEOREM FeedTypes == FeedSpec => []FeedTypeOK
<1>1. FeedInv => FeedTypeOK
  BY DEF FeedInv, LogTyped, ChannelInv, FeedRecord, FeedTypeOK
<1> QED
  BY <1>1, FeedInvariant, PTL

\* However many sockets and pollers carry an event, in whatever order their pages
\* and frames arrive, the subscribers are handed it once (accept, deliver), unless
\* rewindTo took the cursor back across it.
THEOREM AppliedAtMostOnce == FeedSpec => []AppliedOnce
<1>1. FeedInv => AppliedOnce
  BY DEF FeedInv, ChannelInv, AppliedOnce
<1> QED
  BY <1>1, FeedInvariant, PTL

\* The cursor claims nothing that was neither handed out, nor gone from the
\* server's window, nor behind the snapshot read instead, nor thrown at
\* (accept, deliver, rewindTo).
THEOREM NothingSkipped == FeedSpec => []NoSkip
<1>1. FeedInv => NoSkip
  BY DEF FeedInv, ChannelInv, NoSkip, CoveredTo, Covered
<1> QED
  BY <1>1, FeedInvariant, PTL
=============================================================================
