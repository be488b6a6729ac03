------------------------ MODULE GroupAdministration -------------------------
(***************************************************************************)
(* updateGroup, setAuthorityMode, setLeader, setDeviceRole and             *)
(* revokeDevice of DurablePairedDeviceRuntime, with the receipt claim      *)
(* before them and the announcement after them.                            *)
(*                                                                         *)
(* Each mutation is one statement under READ COMMITTED.  Its snapshot is   *)
(* taken when it begins; it then waits for the group's row lock, which     *)
(* every one of these statements takes first.  Rows it locks (group, actor *)
(* and target membership) are read in their latest version; rows it only   *)
(* reads (the administrator count, the leader's membership) are read in    *)
(* the snapshot.  A statement is therefore two steps, Begin and Commit,    *)
(* and the commits of one group are serialized by the lock.                *)
(***************************************************************************)
EXTENDS Receipts, Integers, Sequences, FiniteSets

CONSTANTS
  Devices,      \* devices that are or become members
  Ops,          \* handler runs
  Requests,     \* request ids
  NoRequest,    \* no retries
  NoDevice,     \* no target, or no actor yet
  MaxRevision,  \* bound: revisions of the group in a behaviour
  Overlap,      \* TRUE: a statement may begin while another is under way
  Deaths        \* TRUE: a handler may die between two statements

ASSUME AdministrationAssumption ==
  /\ NoRequest \notin Requests
  /\ NoDevice \notin Devices
  /\ MaxRevision \in Nat \ {0}
  /\ Overlap \in BOOLEAN
  /\ Deaths \in BOOLEAN

VARIABLES
  role,       \* group_memberships.role; "NONE" before the device is paired
  revoked,    \* members whose revoked_at is set
  mode,       \* groups.authority_mode
  leader,     \* groups.leader_device_id
  history,    \* what each revision made of the group, and for which request
  receipt,    \* mutation_receipts, by request id
  announced,  \* revisions hub.publish has appended to the log
  op          \* the handlers

groupVars == <<role, revoked, mode, leader, history>>
vars == <<role, revoked, mode, leader, history, receipt, announced, op>>

Role == {"VIEWER", "EDITOR", "ADMIN"}
Mode == {"LEADER", "MULTI_AUTHORITY"}
NoCall == [name |-> "none", actor |-> NoDevice, target |-> NoDevice, arg |-> "none"]
NoSnapshot == [members |-> {}, admins |-> 0]
Idle == [pc |-> "idle", call |-> NoCall, request |-> NoRequest,
         snapshot |-> NoSnapshot, revision |-> 0,
         answer |-> [mode |-> "none", leader |-> NoDevice]]

\* groups.revision
Revision == Len(history)

Members == {d \in Devices : role[d] # "NONE" /\ d \notin revoked}
Admins == {d \in Members : role[d] = "ADMIN"}

\* createGroup: the founding device administers and leads the group.
Init ==
  /\ leader \in Devices
  /\ role = [d \in Devices |-> IF d = leader THEN "ADMIN" ELSE "NONE"]
  /\ revoked = {}
  /\ mode = "LEADER"
  /\ history = <<[mode |-> "LEADER", leader |-> leader, request |-> NoRequest]>>
  /\ receipt = [r \in Requests |-> Absent(NoCall)]
  /\ announced = {}
  /\ op = [o \in Ops |-> Idle]

-----------------------------------------------------------------------------
(* The calls.  A handler that has answered, or failed, is idle again; one   *)
(* that answers from a receipt is kept until it returns.                    *)

Call(name, actor, target, arg) ==
  [name |-> name, actor |-> actor, target |-> target, arg |-> arg]

\* The calls a device can make; revokeDevice refuses the caller's own device
\* before anything is written.
CallsOf(d) ==
  {Call("updateGroup", d, NoDevice, "none")}
    \cup {Call("setAuthorityMode", d, NoDevice, m) : m \in Mode}
    \cup {Call("setLeader", d, e, "none") : e \in Devices}
    \cup {Call("setDeviceRole", d, e, r) : e \in Devices, r \in Role}
    \cup {Call("revokeDevice", d, e, "none") : e \in Devices \ {d}}

\* authenticateAccessToken: an active member.  A request id belongs to one
\* call, and its retries repeat that call; without one no claim is made.
Authenticate(o, c, r) ==
  /\ op[o].pc = "idle"
  /\ c.actor \in Members
  /\ r # NoRequest =>
       /\ receipt[r].status # "absent" => receipt[r].fingerprint = c
       /\ \A p \in Ops : op[p].request = r => op[p].call = c
  /\ op' = [op EXCEPT ![o] =
       [Idle EXCEPT !.pc = IF r = NoRequest THEN "claimed" ELSE "authenticated",
                    !.call = c, !.request = r]]
  /\ UNCHANGED groupVars /\ UNCHANGED <<receipt, announced>>

\* MutationReceiptGuard.claim
ClaimReceipt(o) ==
  LET r == op[o].request
  IN  /\ op[o].pc = "authenticated"
      /\ IF ClaimRefused(receipt[r])
         THEN op' = [op EXCEPT ![o].pc = "refused"] /\ UNCHANGED receipt
         ELSE /\ op' = [op EXCEPT ![o].pc = "claimed"]
              /\ receipt' = [receipt EXCEPT ![r] = Claim(@, op[o].call)]
      /\ UNCHANGED groupVars /\ UNCHANGED announced

\* The statement begins: its snapshot is taken, and it waits for the group.
Begin(o) ==
  /\ op[o].pc = "claimed"
  /\ Overlap \/ \A p \in Ops : op[p].pc # "begun"
  /\ op' = [op EXCEPT ![o] =
              [@ EXCEPT !.pc = "begun",
                        !.snapshot = [members |-> Members,
                                      admins |-> Cardinality(Admins)]]]
  /\ UNCHANGED groupVars /\ UNCHANGED <<receipt, announced>>

-----------------------------------------------------------------------------
(* What a statement decides once it holds the locks.                       *)

Gate(o) == op[o].request # NoRequest => GateOpen(receipt[op[o].request])

\* actor: found by the snapshot, locked, and an administrator in its latest
\* version.
ActorIsAdmin(o) ==
  /\ op[o].call.actor \in op[o].snapshot.members
  /\ op[o].call.actor \in Admins

\* Mutant: the target's row is read without locking it.
TargetInSnapshot(o) == op[o].call.target \in op[o].snapshot.members

\* target: likewise an active member in both versions.
TargetActive(o) ==
  /\ op[o].call.target \in op[o].snapshot.members
  /\ op[o].call.target \in Members

TargetIsLeader(o) == mode = "LEADER" /\ op[o].call.target = leader

\* Mutant: an administrator is always one of several.
NotTheLastAdmin(o) == FALSE

\* active_admin_count is counted in the snapshot.
TargetIsLastAdmin(o) ==
  role[op[o].call.target] = "ADMIN" /\ op[o].snapshot.admins = 1

\* leader_is_active, too, is read in the snapshot.
SetAuthorityModeAllowed(o) ==
  op[o].call.arg = "LEADER" => leader \in op[o].snapshot.members

SetLeaderAllowed(o) == TargetActive(o)

SetDeviceRoleAllowed(o) ==
  /\ TargetActive(o)
  /\ op[o].call.arg # "ADMIN" => ~TargetIsLastAdmin(o) /\ ~TargetIsLeader(o)

RevokeDeviceAllowed(o) ==
  TargetActive(o) /\ ~TargetIsLeader(o) /\ ~TargetIsLastAdmin(o)

\* What each statement asks for besides an acting administrator.
Eligible(o) ==
  CASE op[o].call.name = "updateGroup" -> TRUE
    [] op[o].call.name = "setAuthorityMode" -> SetAuthorityModeAllowed(o)
    [] op[o].call.name = "setLeader" -> SetLeaderAllowed(o)
    [] op[o].call.name = "setDeviceRole" -> SetDeviceRoleAllowed(o)
    [] op[o].call.name = "revokeDevice" -> RevokeDeviceAllowed(o)

\* The rows the statement writes, the group's new revision among them.
Apply(o) ==
  LET c == op[o].call
  IN  /\ role' = IF c.name = "setDeviceRole"
                 THEN [role EXCEPT ![c.target] = c.arg] ELSE role
      /\ revoked' = IF c.name = "revokeDevice" THEN revoked \cup {c.target}
                    ELSE revoked
      /\ mode' = IF c.name = "setAuthorityMode" THEN c.arg ELSE mode
      /\ leader' = IF c.name = "setLeader" THEN c.target ELSE leader
      /\ history' = Append(history, [mode |-> mode', leader |-> leader',
                                     request |-> op[o].request])

\* Mutant: the receipt records the revision the statement found.
CompletedStale(o) ==
  IF op[o].request = NoRequest THEN receipt
  ELSE [receipt EXCEPT ![op[o].request] = Complete(@, Revision)]

\* completed_receipt
Completed(o) ==
  IF op[o].request = NoRequest THEN receipt
  ELSE [receipt EXCEPT ![op[o].request] = Complete(@, Revision + 1)]

\* The statement gets the group's lock, decides and commits.
Commit(o) ==
  /\ op[o].pc = "begun"
  /\ \/ /\ ~Gate(o)
        /\ op' = [op EXCEPT ![o] = [@ EXCEPT !.pc = "refused", !.snapshot = NoSnapshot]]
        /\ UNCHANGED groupVars /\ UNCHANGED receipt
     \/ /\ Gate(o)
        /\ ~(ActorIsAdmin(o) /\ Eligible(o))
        /\ op' = [op EXCEPT ![o] = Idle]
        /\ UNCHANGED groupVars /\ UNCHANGED receipt
     \/ /\ Gate(o)
        /\ ActorIsAdmin(o) /\ Eligible(o)
        /\ Revision < MaxRevision
        /\ Apply(o)
        /\ receipt' = Completed(o)
        /\ op' = [op EXCEPT ![o] =
             [@ EXCEPT !.pc = "committed", !.snapshot = NoSnapshot,
                       !.revision = Revision + 1]]
  /\ UNCHANGED announced

\* announceGroupMutation: hub.publish appends the snapshot to the log.  (For
\* revokeDevice the handler withdraws the device's presence key first, which
\* touches nothing here; should that fail, the handler ends as in Die.)
Announce(o) ==
  /\ op[o].pc = "committed"
  /\ announced' = announced \cup {op[o].revision}
  /\ op' = [op EXCEPT ![o] = Idle]
  /\ UNCHANGED groupVars /\ UNCHANGED receipt

\* replayGroupMutation, replayRoleChange, replayRevokedDevice: the receipt.
ResolveRefused(o) ==
  LET r == receipt[op[o].request]
      verdict == Resolve(r, op[o].call)
  IN  /\ op[o].pc = "refused"
      /\ op' = [op EXCEPT ![o] =
           IF verdict = "recorded"
           THEN [@ EXCEPT !.pc = "recorded", !.revision = r.outcome]
           ELSE Idle]
      /\ UNCHANGED groupVars /\ UNCHANGED <<receipt, announced>>

\* ... and the group as it is now, under the recorded revision.  The answer
\* is marked replayed, so announceGroupMutation publishes nothing.
ReadGroup(o) ==
  /\ op[o].pc = "recorded"
  /\ op' = [op EXCEPT ![o] = [@ EXCEPT !.pc = "replayed",
                                !.answer = [mode |-> mode, leader |-> leader]]]
  /\ UNCHANGED groupVars /\ UNCHANGED <<receipt, announced>>

Running == {"authenticated", "claimed", "committed", "refused", "recorded"}

\* The process dies, or the driver fails, between two statements.
Die(o) ==
  /\ Deaths
  /\ op[o].pc \in Running
  /\ op' = [op EXCEPT ![o] = Idle]
  /\ UNCHANGED groupVars /\ UNCHANGED <<receipt, announced>>

\* The retried call returns.
Finish(o) ==
  /\ op[o].pc = "replayed"
  /\ op' = [op EXCEPT ![o] = Idle]
  /\ UNCHANGED groupVars /\ UNCHANGED <<receipt, announced>>

\* pairDevice redeems a code whose issuer is still a member: a new membership,
\* never an administrator's.
Pair(d, r) ==
  /\ role[d] = "NONE"
  /\ Members # {}
  /\ Revision < MaxRevision
  /\ r # "ADMIN"
  /\ role' = [role EXCEPT ![d] = r]
  /\ history' = Append(history, [mode |-> mode, leader |-> leader,
                                 request |-> NoRequest])
  /\ UNCHANGED <<revoked, mode, leader, receipt, announced, op>>

Handle(o) == \/ \E d \in Devices : \E c \in CallsOf(d), r \in Requests \cup {NoRequest} :
                   Authenticate(o, c, r)
             \/ ClaimReceipt(o)
             \/ Begin(o)
             \/ Commit(o)
             \/ Announce(o)
             \/ ResolveRefused(o)
             \/ ReadGroup(o)
             \/ Die(o)
             \/ Finish(o)

Next == \/ \E o \in Ops : Handle(o)
        \/ \E d \in Devices, r \in Role : Pair(d, r)

Spec == Init /\ [][Next]_vars

-----------------------------------------------------------------------------
(* Safety.                                                                 *)

Calls == UNION {CallsOf(d) : d \in Devices}
Entry == [mode : Mode, leader : Devices, request : Requests \cup {NoRequest}]
Handler == [pc : {"idle", "begun", "replayed"} \cup Running,
            call : Calls \cup {NoCall},
            request : Requests \cup {NoRequest},
            snapshot : [members : SUBSET Devices,
                        admins : {Cardinality(S) : S \in SUBSET Devices} \cup {0}],
            revision : Nat,
            answer : [mode : Mode \cup {"none"}, leader : Devices \cup {NoDevice}]]

\* Type correctness; a handler past its first await names its call, only one
\* that has a request id is ever refused, and neither a receipt nor an answer
\* names a revision the group has not reached.
TypeOK ==
  /\ role \in [Devices -> Role \cup {"NONE"}]
  /\ revoked \subseteq Devices
  /\ mode \in Mode
  /\ leader \in Devices
  /\ history \in Seq(Entry)
  /\ receipt \in [Requests -> ReceiptOf(Calls \cup {NoCall}, 0..Revision)]
  /\ announced \subseteq 1..Revision
  /\ op \in [Ops -> Handler]
  /\ \A o \in Ops :
       /\ op[o].pc # "idle" => op[o].call \in Calls
       /\ op[o].pc \in {"authenticated", "refused", "recorded", "replayed"} =>
            op[o].request # NoRequest
       /\ op[o].pc = "committed" => op[o].revision # 0
       /\ op[o].revision \in 0..Revision

\* A request moves the group once: no two revisions come from one request id,
\* whatever its retries race with.
OncePerRequest ==
  \A i, j \in 1..Revision :
    (history[i].request # NoRequest /\ history[i].request = history[j].request)
      => i = j

\* A retry is answered with the revision its own request produced.
ReplayAnswersOwn ==
  \A o \in Ops : op[o].pc \in {"recorded", "replayed"} =>
    op[o].revision \in 1..Revision /\ history[op[o].revision].request = op[o].request

\* Whoever changes the group is an administrator when the change commits, not
\* only when the statement began or the token was read.
AdminActs ==
  [][(\/ <<revoked, mode, leader>>' # <<revoked, mode, leader>>
      \/ \E d \in Members : role'[d] # role[d]) =>
       \E o \in Ops : op[o].pc = "begun" /\ op'[o].pc = "committed"
                      /\ op[o].call.actor \in Admins]_vars

\* While a group is under leader authority its leader is neither revoked nor
\* demoted: leadership or mode has to move first.
LeaderKept ==
  [][(mode = "LEADER" /\ mode' = mode /\ leader' = leader) =>
       /\ leader \notin revoked => leader \notin revoked'
       /\ role[leader] = "ADMIN" => role'[leader] = "ADMIN"]_vars

\* Revocation is final: no mutation that was waiting for the lock gives a
\* revoked device a role or the leadership, or takes the revocation back.
RevokedIsFinal ==
  [][\A d \in revoked : /\ d \in revoked'
                        /\ role'[d] = role[d]
                        /\ leader' = d => leader = d]_vars

\* The group loses its last administrator only to a statement whose count of
\* administrators was taken before another one stepped down or was removed:
\* that window, of two overlapping statements, is the only one there is.
LastAdmin ==
  [][(Admins # {} /\ Admins' = {}) =>
       \E o \in Ops : /\ op[o].pc = "begun" /\ op'[o].pc = "committed"
                      /\ op[o].snapshot.admins # Cardinality(Admins)]_vars

\* The mode is LEADER only while the group names an active leader.
LeaderCanAct == mode = "LEADER" => leader \in Members

\* The leader of a group under leader authority may publish the session
\* commands nobody else may.
LeaderMayDrive == mode = "LEADER" => role[leader] \in {"EDITOR", "ADMIN"}

\* A retry is handed the snapshot the original call produced.
ReplayedSnapshot ==
  \A o \in Ops : op[o].pc = "replayed" =>
    op[o].answer = [mode |-> history[op[o].revision].mode,
                    leader |-> history[op[o].revision].leader]

-----------------------------------------------------------------------------
(* Liveness.                                                               *)

\* Statements return and handlers go on.  Nobody is obliged to call.
Fairness ==
  \A o \in Ops : /\ WF_vars(ClaimReceipt(o)) /\ WF_vars(Begin(o))
                 /\ WF_vars(Commit(o)) /\ WF_vars(Announce(o))
                 /\ WF_vars(ResolveRefused(o)) /\ WF_vars(ReadGroup(o))

FairSpec == Spec /\ Fairness

\* A mutation answered from its receipt is, or will be, in the log that every
\* subscriber reads.
ReplayedIsAnnounced ==
  \A o \in Ops, n \in 1..MaxRevision :
    (op[o].pc = "replayed" /\ op[o].revision = n) ~> (n \in announced)
=============================================================================
