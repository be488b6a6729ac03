--------------------------- MODULE GroupSettings ----------------------------
(***************************************************************************)
(* The group's settings document: DurableSettingsStore on the server, and  *)
(* GroupSettingsSync with its local copy (GroupSnapshotDownloader) on      *)
(* every device of the group.                                              *)
(*                                                                         *)
(* The server keeps the effective document, one version row for each of    *)
(* its revisions, and a draft.  Every mutation is one statement that locks *)
(* the rows it changes before it reads them, so it is one step.  A device  *)
(* publishes a change with two calls, ApplyDraftPatch and PublishDraft,    *)
(* and waits for neither a previous publication nor an adoption under way; *)
(* it follows the document with two adoptions that run side by side, the   *)
(* join's and the watch's.                                                 *)
(*                                                                         *)
(* Values a client cannot validate, the device's own scope and the         *)
(* receipts (every call mints a request id, so none is ever a retry) are   *)
(* left out.  The copy's log position moves only when its revision stays,  *)
(* and is left out with it.                                                *)
(***************************************************************************)
EXTENDS Integers

CONSTANTS
  Devices,      \* the group's devices
  Paths,        \* group-scoped settings
  Values,       \* what a setting may be
  Default,      \* the factory value of every setting
  NoValue,      \* a setting the document does not hold
  Pubs,         \* publications under way at one time
  MaxGestures,  \* bound: what operators do to the settings
  MaxFaults,    \* bound: failed calls, lost sessions, closed pages
  MaxOutside    \* bound: mutations by clients other than a device's session

ASSUME SettingsAssumption ==
  /\ Default \in Values
  /\ NoValue \notin Values
  /\ MaxGestures \in Nat /\ MaxFaults \in Nat /\ MaxOutside \in Nat

VARIABLES
  effective,  \* the GROUP row: the document every device follows
  recorded,   \* the values its version rows have recorded
  draft,      \* the GROUP_DRAFT row
  pub,        \* publishGroupSettings and publishGroupResets calls
  local,      \* personalization.draft.values of each device
  mirror,     \* each device's local copy of the document
  online,     \* devices whose session is mounted
  adoption,   \* adoptGroupSettings of the join and of the watch
  after,      \* afterRevision of watchGroupSettings
  late,       \* adoptions of an ended session that have still to land
  missed,     \* history: devices whose screen waits for the next adoption
  behind,     \* history: devices whose copy waits for the next adoption
  leftOpen,   \* history: somebody left the draft open
  gestures, faults, outside  \* what is left of the bounds

boundVars == <<gestures, faults, outside>>
vars == <<effective, recorded, draft, pub, local, mirror, online, adoption, after,
          late, missed, behind, leftOpen, gestures, faults, outside>>

Document == [Paths -> Values \cup {NoValue}]
Empty == [p \in Paths |-> NoValue]
Tasks == {"join", "watch"}

\* A document as it was read or copied; revision 0 stands for none.
Copy == [revision : Nat, values : Document]
NoCopy == [revision |-> 0, values |-> Empty]

\* patchedValues: what `top` names replaces what `base` holds.
Overlay(base, top) == [p \in Paths |-> IF top[p] = NoValue THEN base[p] ELSE top[p]]
Only(p, v) == [Empty EXCEPT ![p] = v]

NoDraft == [open |-> FALSE, values |-> Empty]
NoPub == [pc |-> "idle", device |-> "none", operations |-> Empty, targets |-> {}]
NoAdoption == [pc |-> "idle", document |-> NoCopy, seen |-> 0]
NoSession == [k \in Tasks |-> NoAdoption]
Joining == [NoSession EXCEPT !["join"].pc = "reading"]

\* A new group: its devices have just mounted their sessions.
Init ==
  /\ effective = NoCopy
  /\ recorded = {}
  /\ draft = NoDraft
  /\ pub = [s \in Pubs |-> NoPub]
  /\ local = [d \in Devices |-> [p \in Paths |-> Default]]
  /\ mirror = [d \in Devices |-> NoCopy]
  /\ online = Devices
  /\ adoption = [d \in Devices |-> Joining]
  /\ after = [d \in Devices |-> 0]
  /\ late = [d \in Devices |-> {}]
  /\ missed = {} /\ behind = {}
  /\ leftOpen = FALSE
  /\ gestures = MaxGestures /\ faults = MaxFaults /\ outside = MaxOutside

-----------------------------------------------------------------------------
(* The store.                                                              *)

\* written, recorded_version: the effective document takes its next revision.
Record(values) ==
  /\ effective' = [revision |-> effective.revision + 1, values |-> values]
  /\ recorded' = recorded \cup {values}

\* applyDraftPatch: an absent draft starts empty, not from the document.
StageDraft(operations) ==
  draft' = [open |-> TRUE, values |-> Overlay(draft.values, operations)]

\* published_draft, removed_draft: the draft's values replace the document's.
MoveDraft ==
  /\ Record(draft.values)
  /\ draft' = NoDraft
  /\ leftOpen' = FALSE

\* keptValues: the document without the settings that are reset.
Forget(paths) ==
  Record([p \in Paths |-> IF p \in paths THEN NoValue ELSE effective.values[p]])

-----------------------------------------------------------------------------
(* Mutations by other clients of the service.                              *)

Elsewhere ==
  /\ outside > 0
  /\ outside' = outside - 1
  /\ UNCHANGED <<pub, local, mirror, online, adoption, after, late, missed, behind,
                 gestures, faults>>

\* Mutant: the discard leaves the document's revision alone.
DiscardQuietly ==
  /\ Elsewhere
  /\ draft.open
  /\ draft' = NoDraft /\ leftOpen' = FALSE
  /\ UNCHANGED <<effective, recorded>>

\* discardDraft records a revision with the values there were.
DiscardDraft ==
  /\ Elsewhere
  /\ draft.open
  /\ Record(effective.values)
  /\ draft' = NoDraft /\ leftOpen' = FALSE

\* applyDraftPatch, of a value or of a removal.
ApplyDraftPatch(p, v) ==
  /\ Elsewhere
  /\ draft' = [open |-> TRUE, values |-> [draft.values EXCEPT ![p] = v]]
  /\ leftOpen' = TRUE
  /\ UNCHANGED <<effective, recorded>>

\* importDocument writes the file's values into the draft, for somebody else to
\* publish.
ImportDocument(values) ==
  /\ Elsewhere
  /\ draft' = [open |-> TRUE, values |-> values]
  /\ leftOpen' = TRUE
  /\ UNCHANGED <<effective, recorded>>

\* publishDraft, of whatever draft there is.
PublishDraft ==
  /\ Elsewhere
  /\ draft.open
  /\ MoveDraft

\* reset of a category, or of everything.
Reset(paths) ==
  /\ Elsewhere
  /\ Forget(paths)
  /\ UNCHANGED <<draft, leftOpen>>

\* revertVersion restores what some revision recorded.
RevertVersion(values) ==
  /\ Elsewhere
  /\ Record(values)
  /\ UNCHANGED <<draft, leftOpen>>

-----------------------------------------------------------------------------
(* Publications of a device.                                               *)

Publication(d, operations) ==
  [pc |-> "applying", device |-> d, operations |-> operations, targets |-> {}]
Resets(d, paths) ==
  [pc |-> "resetting", device |-> d, operations |-> Empty, targets |-> paths]

\* publishGroupSettings of groupSettingsBus: only a session has a sync.
Publish(d, p) ==
  LET free == {s \in Pubs : pub[s].pc = "idle"}
  IN  IF d \in online
      THEN free # {} /\ pub' = [pub EXCEPT ![CHOOSE s \in free : TRUE] = p]
      ELSE UNCHANGED pub

\* applySettingsPatch by the operator, or by a peer's live edit.
Change(d, p, v) ==
  /\ gestures > 0
  /\ gestures' = gestures - 1
  /\ local[d][p] # v
  /\ local' = [local EXCEPT ![d][p] = v]
  /\ Publish(d, Publication(d, Only(p, v)))
  /\ UNCHANGED <<effective, recorded, draft, mirror, online, adoption, after, late,
                 missed, behind, leftOpen, faults, outside>>

\* resetSettingsCategory and resetAllSettings
ResetSettings(d, paths) ==
  /\ gestures > 0
  /\ gestures' = gestures - 1
  /\ local' = [local EXCEPT ![d] = [p \in Paths |-> IF p \in paths THEN Default ELSE @[p]]]
  /\ Publish(d, Resets(d, paths))
  /\ UNCHANGED <<effective, recorded, draft, mirror, online, adoption, after, late,
                 missed, behind, leftOpen, faults, outside>>

\* Nothing in `values` differs from what the group agreed.
Agrees(values) == \A p \in Paths : effective.values[p] \in {NoValue, values[p]}

\* The screen of `d` shows `values`, and nothing under way will correct them.
Left(d, values) == missed' = IF Agrees(values) THEN missed ELSE missed \cup {d}

\* undoSettingsDraft, redoSettingsDraft, discardSettingsDraft,
\* restoreSettingsHistoryEntry, importSettingsDraft and resetWorld put other
\* values on the screen and publish none of them.
RewriteDraft(d, values) ==
  /\ gestures > 0
  /\ gestures' = gestures - 1
  /\ values # local[d]
  /\ local' = [local EXCEPT ![d] = values]
  /\ Left(d, values)
  /\ UNCHANGED <<effective, recorded, draft, pub, mirror, online, adoption, after, late,
                 behind, leftOpen, faults, outside>>

\* The first call of publishGroupSettings.
ApplyGroupDraftPatch(s) ==
  /\ pub[s].pc = "applying"
  /\ StageDraft(pub[s].operations)
  /\ pub' = [pub EXCEPT ![s].pc = "publishing"]
  /\ UNCHANGED <<effective, recorded, local, mirror, online, adoption, after, late,
                 missed, behind, leftOpen, gestures, faults, outside>>

\* Mutant: the published draft is not removed.
PublishGroupDraftKept(s) ==
  /\ pub[s].pc = "publishing"
  /\ pub' = [pub EXCEPT ![s] = NoPub]
  /\ IF draft.open
     THEN Record(draft.values) /\ leftOpen' = FALSE /\ UNCHANGED draft
     ELSE UNCHANGED <<effective, recorded, draft, leftOpen>>
  /\ UNCHANGED <<local, mirror, online, adoption, after, late, missed, behind, gestures,
                 faults, outside>>

\* ... and the second.  NOT_FOUND says that another publication has taken the
\* draft with it, and #record passes over it.
PublishGroupDraft(s) ==
  /\ pub[s].pc = "publishing"
  /\ pub' = [pub EXCEPT ![s] = NoPub]
  /\ IF draft.open THEN MoveDraft ELSE UNCHANGED <<effective, recorded, draft, leftOpen>>
  /\ UNCHANGED <<local, mirror, online, adoption, after, late, missed, behind, gestures,
                 faults, outside>>

\* publishGroupResets: one ResetElement for each setting.
ResetGroupElement(s, p) ==
  /\ pub[s].pc = "resetting"
  /\ p \in pub[s].targets
  /\ Forget({p})
  /\ LET left == pub[s].targets \ {p}
     IN  pub' = [pub EXCEPT ![s] = IF left = {} THEN NoPub ELSE [@ EXCEPT !.targets = left]]
  /\ UNCHANGED <<draft, local, mirror, online, adoption, after, late, missed, behind,
                 leftOpen, gestures, faults, outside>>

Fault == faults > 0 /\ faults' = faults - 1

\* A call of the publication is refused or lost, and the rest is not attempted.
PublicationFails(s) ==
  /\ Fault
  /\ pub[s].pc # "idle"
  /\ pub' = [pub EXCEPT ![s] = NoPub]
  /\ leftOpen' = (leftOpen \/ (draft.open /\ pub[s].pc = "publishing"))
  /\ Left(pub[s].device, local[pub[s].device])
  /\ UNCHANGED <<effective, recorded, draft, local, mirror, online, adoption, after,
                 late, behind, gestures, outside>>

-----------------------------------------------------------------------------
(* Adoption.                                                               *)

\* groupValuePatches: a setting the group does not hold is no decision.
GroupValuePatches(values, mine) ==
  [p \in Paths |-> IF values[p] = mine[p] THEN NoValue ELSE values[p]]

\* Mutant: an answer that is not older is as good as a newer one.
DecideMirrorAnyway(copy, remote) == TRUE

\* decideMirrorAdoption: strictly newer.
DecideMirrorAdoption(copy, remote) == remote > copy

\* pollChanges: the effective document only; the draft counts for itself.
PollChanges(d) == effective.revision > after[d]

\* WatchSettings found a change.  A frame says no more than that, so one that
\* waits in the stream, or is sent again after a reconnect, repeats this step.
WatchFrame(d) ==
  /\ d \in online
  /\ adoption[d]["watch"].pc = "idle"
  /\ PollChanges(d)
  /\ after' = [after EXCEPT ![d] = effective.revision]
  /\ adoption' = [adoption EXCEPT ![d]["watch"].pc = "reading"]
  /\ UNCHANGED <<effective, recorded, draft, pub, local, mirror, online, late, missed,
                 behind, leftOpen, gestures, faults, outside>>

\* getEffectiveSettings: readDocuments.
ReadDocuments(d, k) ==
  /\ adoption[d][k].pc = "reading"
  /\ effective.revision > 0
  /\ adoption' = [adoption EXCEPT ![d][k] =
                    [@ EXCEPT !.pc = "answered", !.document = effective]]
  /\ UNCHANGED <<effective, recorded, draft, pub, local, mirror, online, after, late,
                 missed, behind, leftOpen, gestures, faults, outside>>

\* The answer arrives, and absorb looks at the copy before it asks for the
\* log position to stamp it with.
Compare(d, k) ==
  /\ adoption[d][k].pc = "answered"
  /\ adoption' = [adoption EXCEPT ![d][k] =
                    [@ EXCEPT !.pc = "stamping", !.seen = mirror[d].revision]]
  /\ UNCHANGED <<effective, recorded, draft, pub, local, mirror, online, after, late,
                 missed, behind, leftOpen, gestures, faults, outside>>

\* apply of adoptGroupSettings: the group wins where it holds a value, and
\* #applyingRemote keeps the session from publishing what it lands.
Apply(d, values) ==
  local' = [local EXCEPT ![d] = Overlay(@, GroupValuePatches(values, @))]

\* The document an adoption read lands.  A join that lands behind a watch that
\* is further leaves the screen behind the cursor.
Land(d, k) ==
  LET n == adoption[d][k].document.revision
  IN  /\ Apply(d, adoption[d][k].document.values)
      /\ adoption' = [adoption EXCEPT ![d][k] = NoAdoption]
      /\ \/ n >= after[d] /\ missed' = missed \ {d}
         \/ n < after[d] /\ adoption[d]["watch"].pc = "idle" /\ Left(d, local'[d])
         \/ n < after[d] /\ adoption[d]["watch"].pc # "idle" /\ UNCHANGED missed
      /\ UNCHANGED <<effective, recorded, draft, pub, online, after, late, leftOpen,
                     gestures, outside>>

\* The copy an adoption compared its answer with has been replaced since.
Overtaken(d, k) == adoption[d][k].seen # mirror[d].revision

\* A watch that ends without the copy it was woken for; the join's is behind
\* the first frame, which is still to come.
WatchFailed(d, k) == behind' = IF k = "watch" THEN behind \cup {d} ELSE behind

\* absorb decides by what it saw, and the values land.  An answer without
\* values is not a copy.
Absorb(d, k) ==
  LET a == adoption[d][k]
  IN  /\ a.pc = "stamping"
      /\ mirror' = IF /\ a.document.values # Empty
                      /\ DecideMirrorAdoption(a.seen, a.document.revision)
                   THEN [mirror EXCEPT ![d] = a.document] ELSE mirror
      /\ behind' = IF Overtaken(d, k) /\ mirror'[d].revision < mirror[d].revision
                   THEN behind \cup {d}
                   ELSE IF /\ a.document.revision >= after[d]
                           /\ mirror'[d].revision >= a.document.revision
                        THEN behind \ {d} ELSE behind
      /\ Land(d, k)
      /\ UNCHANGED faults

\* The log position cannot be read, or storage refuses the copy: the values
\* land all the same.
AbsorbFails(d, k) ==
  /\ Fault
  /\ adoption[d][k].pc = "stamping"
  /\ Land(d, k)
  /\ WatchFailed(d, k)
  /\ UNCHANGED mirror

\* What the catch branch of #readGroupValues leaves in the draft: the copy.
FallBack(d, k) ==
  /\ Apply(d, mirror[d].values)
  /\ adoption' = [adoption EXCEPT ![d][k] = NoAdoption]
  /\ UNCHANGED <<effective, recorded, draft, pub, mirror, online, after, late, leftOpen,
                 gestures, outside>>

\* NOT_FOUND: nobody has published yet.
NoDocument(d, k) ==
  /\ adoption[d][k].pc = "reading"
  /\ effective.revision = 0
  /\ FallBack(d, k)
  /\ UNCHANGED <<missed, behind, faults>>

ReadFails(d, k) ==
  /\ Fault
  /\ adoption[d][k].pc \in {"reading", "answered"}
  /\ FallBack(d, k)
  /\ Left(d, local'[d])
  /\ WatchFailed(d, k)

-----------------------------------------------------------------------------
(* Sessions.                                                               *)

\* GroupChannelRuntime mounts: the join's adoption, and a watch from zero.
Mount(d) ==
  /\ online' = online \cup {d}
  /\ adoption' = [adoption EXCEPT ![d] = Joining]
  /\ after' = [after EXCEPT ![d] = 0]
  /\ missed' = missed \ {d} /\ behind' = behind \ {d}

Connect(d) ==
  /\ d \notin online
  /\ Mount(d)
  /\ UNCHANGED <<effective, recorded, draft, pub, local, mirror, late, leftOpen>>
  /\ UNCHANGED boundVars

\* What the abort leaves to land: a read that is rejected falls back to the
\* copy, a stamp that is rejected still returns the document.
Aborted(d) ==
  {IF adoption[d][k].pc = "stamping" THEN adoption[d][k].document.values
   ELSE mirror[d].values : k \in {k \in Tasks : adoption[d][k].pc # "idle"}}

\* The link plan changed: the effect is torn down and set up again.
Remount(d) ==
  /\ Fault
  /\ d \in online
  /\ late' = [late EXCEPT ![d] = @ \cup Aborted(d)]
  /\ Mount(d)
  /\ UNCHANGED <<effective, recorded, draft, pub, local, mirror, leftOpen, gestures,
                 outside>>

\* The session leaves `online`.
Unmount(d) ==
  /\ Fault
  /\ d \in online
  /\ late' = [late EXCEPT ![d] = @ \cup Aborted(d)]
  /\ online' = online \ {d}
  /\ adoption' = [adoption EXCEPT ![d] = NoSession]
  /\ UNCHANGED <<effective, recorded, draft, pub, local, mirror, after, missed, behind,
                 leftOpen, gestures, outside>>

\* An aborted adoption lands.  #applyingRemote is the ended session's: the one
\* that is connected now publishes the values as an operator's.
LandLate(d, values) ==
  LET patches == GroupValuePatches(values, local[d])
  IN  /\ late' = [late EXCEPT ![d] = @ \ {values}]
      /\ Apply(d, values)
      /\ IF patches = Empty THEN UNCHANGED pub
         ELSE Publish(d, Publication(d, patches))
      /\ UNCHANGED <<effective, recorded, draft, mirror, online, adoption, after,
                     missed, behind, leftOpen>>
      /\ UNCHANGED boundVars

\* ControlPlaneRuntime in mode `offline`: the copy stands in for the group.
AdoptOffline(d) ==
  /\ d \notin online
  /\ mirror[d].revision > 0
  /\ Apply(d, mirror[d].values)
  /\ UNCHANGED <<effective, recorded, draft, pub, mirror, online, adoption, after, late,
                 missed, behind, leftOpen>>
  /\ UNCHANGED boundVars

\* The page closes with whatever it was waiting for.
ClosePage(d) ==
  /\ Fault
  /\ pub' = [s \in Pubs |-> IF pub[s].device = d THEN NoPub ELSE pub[s]]
  /\ leftOpen' = (leftOpen \/ (draft.open /\ \E s \in Pubs :
                                 pub[s].device = d /\ pub[s].pc = "publishing"))
  /\ online' = online \ {d}
  /\ adoption' = [adoption EXCEPT ![d] = NoSession]
  /\ late' = [late EXCEPT ![d] = {}]
  /\ UNCHANGED <<effective, recorded, draft, local, mirror, after, missed, behind,
                 gestures, outside>>

-----------------------------------------------------------------------------
Outside ==
  \/ DiscardDraft
  \/ PublishDraft
  \/ \E p \in Paths, v \in Values \cup {NoValue} : ApplyDraftPatch(p, v)
  \/ \E values \in Document : ImportDocument(values)
  \/ \E paths \in SUBSET Paths \ {{}} : Reset(paths)
  \/ \E values \in recorded : RevertVersion(values)

Publishing(s) ==
  \/ ApplyGroupDraftPatch(s)
  \/ PublishGroupDraft(s)
  \/ \E p \in Paths : ResetGroupElement(s, p)
  \/ PublicationFails(s)

Adopting(d, k) ==
  \/ ReadDocuments(d, k)
  \/ Compare(d, k)
  \/ Absorb(d, k)
  \/ AbsorbFails(d, k)
  \/ NoDocument(d, k)
  \/ ReadFails(d, k)

Device(d) ==
  \/ \E p \in Paths, v \in Values : Change(d, p, v)
  \/ \E paths \in SUBSET Paths \ {{}} : ResetSettings(d, paths)
  \/ \E values \in [Paths -> Values] : RewriteDraft(d, values)
  \/ WatchFrame(d)
  \/ Connect(d)
  \/ Remount(d)
  \/ Unmount(d)
  \/ \E values \in late[d] : LandLate(d, values)
  \/ AdoptOffline(d)
  \/ ClosePage(d)

Next ==
  \/ Outside
  \/ \E s \in Pubs : Publishing(s)
  \/ \E d \in Devices, k \in Tasks : Adopting(d, k)
  \/ \E d \in Devices : Device(d)

Spec == Init /\ [][Next]_vars

\* Calls are answered and promises settle.  Nobody is obliged to change a
\* setting, to join or to leave.
Fairness ==
  /\ \A s \in Pubs : /\ WF_vars(ApplyGroupDraftPatch(s))
                     /\ WF_vars(PublishGroupDraft(s))
                     /\ WF_vars(\E p \in Paths : ResetGroupElement(s, p))
  /\ \A d \in Devices, k \in Tasks : /\ WF_vars(ReadDocuments(d, k))
                                     /\ WF_vars(Compare(d, k))
                                     /\ WF_vars(Absorb(d, k))
                                     /\ WF_vars(NoDocument(d, k))
  /\ \A d \in Devices : /\ WF_vars(WatchFrame(d))
                        /\ WF_vars(\E values \in late[d] : LandLate(d, values))

FairSpec == Spec /\ Fairness

-----------------------------------------------------------------------------
(* Safety.                                                                 *)

PubRecord == [pc : {"idle", "applying", "publishing", "resetting"},
              device : Devices \cup {"none"},
              operations : Document,
              targets : SUBSET Paths]
AdoptionRecord == [pc : {"idle", "reading", "answered", "stamping"},
                   document : Copy, seen : Nat]

\* Type correctness; a publication under way is some device's.
TypeOK ==
  /\ effective \in Copy
  /\ recorded \subseteq Document
  /\ draft \in [open : BOOLEAN, values : Document]
  /\ pub \in [Pubs -> PubRecord]
  /\ \A s \in Pubs : pub[s].pc # "idle" => pub[s].device \in Devices
  /\ local \in [Devices -> [Paths -> Values]]
  /\ mirror \in [Devices -> Copy]
  /\ online \subseteq Devices
  /\ adoption \in [Devices -> [Tasks -> AdoptionRecord]]
  /\ after \in [Devices -> Nat]
  /\ late \in [Devices -> SUBSET Document]
  /\ missed \subseteq Devices /\ behind \subseteq Devices
  /\ leftOpen \in BOOLEAN
  /\ gestures \in Nat /\ faults \in Nat /\ outside \in Nat

\* A draft that is open is about to be published by the publication that staged
\* it, or by another one that found it, unless a publication broke off between
\* its two calls or another client staged it: crossed publications of devices
\* leave none behind.
DraftAccounted ==
  draft.open => leftOpen \/ \E s \in Pubs : pub[s].pc = "publishing"

\* The copy is the document, or a frame or the watch's answer to one will bring
\* it; a document without values is no copy.
CopyDue(d) ==
  \/ effective.values = Empty
  \/ mirror[d] = effective
  \/ effective.revision > after[d]
  \/ adoption[d]["watch"].pc # "idle"

\* A copy that is not the document has an adoption to come that will make it so,
\* whichever of the two adoptions answers, compares and writes first.  The
\* exceptions are a watch that could not read or store what it was woken for, and
\* a copy replaced by an older one through a comparison made before it was there.
\* A device that goes offline lives on its copy.
CopyAccounted == \A d \in online \ behind : CopyDue(d)

\* Once the operators leave the settings alone every device with a session
\* follows the document, whatever crossed on the way; one whose last adoption or
\* publication failed, whose join landed behind its watch, or whose operator took
\* values back or imported others, may wait for the next revision.
Settles == <>[](\A d \in online \ missed : Agrees(local[d]))

-----------------------------------------------------------------------------
(* What the comments say and the code does not keep.                       *)

\* A value applied from the group is not published back to it.
NoEcho == [][\A d \in Devices : late'[d] # late[d] => pub' = pub]_vars

\* After any absorb the copy is what it was or strictly newer.
CopyNeverOlder ==
  [][\A d \in Devices : mirror'[d] # mirror[d] =>
       mirror'[d].revision > mirror[d].revision]_vars

\* A preview of the draft on top of the document is what publishing produces.
PreviewIsPublished ==
  [][\A s \in Pubs : PublishGroupDraft(s) /\ draft.open =>
       effective'.values = Overlay(effective.values, draft.values)]_vars
=============================================================================
