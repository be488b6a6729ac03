-------------------------- MODULE GroupPublication --------------------------
(***************************************************************************)
(* publishDocumentDelta and publishSessionCommand: clients that retry,     *)
(* racing one another, over the log and the receipts of one group.         *)
(*                                                                         *)
(* An attempt is one run of the handler.  Its steps are the statements it  *)
(* awaits: authentication, the receipt claim, the append, and for a        *)
(* refused attempt the two reads that answer it from the receipt.  An      *)
(* attempt may end between any two of them (the process dies, the driver   *)
(* fails, the rate limiter refuses); its client then sends the request     *)
(* again as another attempt, possibly while the first is still running.    *)
(* Handing the event to the hub is RealtimeHub's Dispatch.                 *)
(***************************************************************************)
EXTENDS ReplayWindow, Receipts, Sequences

CONSTANTS
  Attempts,      \* handler runs
  Devices,       \* paired devices of the group
  Kinds,         \* subset of {"document", "session"}: the two RPCs
  Requests,      \* request ids clients use
  NoRequest,     \* the proto3 default: the client did not opt into retries
  Payloads,      \* document deltas or session commands
  NoPayload,     \* no delta in the draft
  HistoryLimit,  \* rows a group retains
  ReusedIds,     \* TRUE: a request id may come back with another request
  Expiry         \* TRUE: a receipt's lifetime may end

ASSUME PublicationAssumption ==
  /\ NoRequest \notin Requests
  /\ NoPayload \notin Payloads
  /\ Kinds \subseteq {"document", "session"}
  /\ HistoryLimit \in Nat \ {0}
  /\ ReusedIds \in BOOLEAN
  /\ Expiry \in BOOLEAN

VARIABLES
  role,     \* group_memberships.role of each device, or "REVOKED"
  mode,     \* groups.authority_mode
  leader,   \* groups.leader_device_id
  log,      \* every event ever appended; Retained says which rows remain
  receipt,  \* mutation_receipts, by scope and request id
  attempt   \* the handlers

groupVars == <<role, mode, leader>>
vars == <<role, mode, leader, log, receipt, attempt>>

Role == {"VIEWER", "EDITOR", "ADMIN", "REVOKED"}
Mode == {"LEADER", "MULTI_AUTHORITY"}
NoPrint == <<"none">>

Idle == [pc |-> "idle", kind |-> "document", device |-> NoPayload,
         request |-> NoRequest, payload |-> NoPayload, sequence |-> 0]

Init ==
  /\ leader \in Devices
  /\ mode = "LEADER"
  /\ role = [d \in Devices |-> IF d = leader THEN "ADMIN" ELSE "EDITOR"]
  /\ log = <<>>
  /\ receipt = [s \in Kinds \X Requests |-> Absent(NoPrint)]
  /\ attempt = [a \in Attempts |-> Idle]

\* authorized_actor of the append, and assertEditor at the door.
MayPublish(d) == role[d] \in {"EDITOR", "ADMIN"}

\* assertSessionAuthority
HasSessionAuthority(d) == mode = "LEADER" => leader = d

\* The fields of the fingerprint: actor, kind, and the hex of the delta.  A
\* session command carries no delta, so its contents are not among them.
Fingerprint(k, d, v) == <<k, d, IF k = "document" THEN v ELSE NoPayload>>

\* sync_events after the retention of the last append.
Retained == Prune(1..Len(log), Len(log), HistoryLimit)

ScopeOf(a) == <<attempt[a].kind, attempt[a].request>>
PrintOf(a) == Fingerprint(attempt[a].kind, attempt[a].device, attempt[a].payload)

-----------------------------------------------------------------------------
(* The handler.                                                            *)

\* A client uses a request id for one request, and repeats that request.
SameRequest(a, k, d, v) ==
  attempt[a].kind = k => attempt[a].device = d /\ attempt[a].payload = v

\* authenticateRequest and the asserts before the first write.
Authorize(a, k, d, r, v) ==
  /\ attempt[a].pc = "idle"
  /\ ReusedIds \/ r = NoRequest
       \/ \A b \in Attempts : (attempt[b].pc # "idle" /\ attempt[b].request = r) =>
             SameRequest(b, k, d, v)
  /\ MayPublish(d)
  /\ k = "session" => HasSessionAuthority(d)
  /\ attempt' = [attempt EXCEPT ![a] =
                   [pc |-> "authorized", kind |-> k, device |-> d,
                    request |-> r, payload |-> v, sequence |-> 0]]
  /\ UNCHANGED groupVars /\ UNCHANGED <<log, receipt>>

\* MutationReceiptGuard.claim; without a request id there is nothing to claim.
ClaimReceipt(a) ==
  /\ attempt[a].pc = "authorized"
  /\ \/ /\ attempt[a].request = NoRequest
        /\ attempt' = [attempt EXCEPT ![a].pc = "claimed"]
        /\ UNCHANGED receipt
     \/ /\ attempt[a].request # NoRequest
        /\ IF ClaimRefused(receipt[ScopeOf(a)])
           THEN /\ attempt' = [attempt EXCEPT ![a].pc = "refused"]
                /\ UNCHANGED receipt
           ELSE /\ attempt' = [attempt EXCEPT ![a].pc = "claimed"]
                /\ receipt' = [receipt EXCEPT ![ScopeOf(a)] = Claim(@, PrintOf(a))]
  /\ UNCHANGED groupVars /\ UNCHANGED log

\* mutation_gate of the append statement.
Gate(a) == attempt[a].request # NoRequest => GateOpen(receipt[ScopeOf(a)])

\* Mutant: the append relies on the check at the door.
AuthorizedAtTheDoor(a) == TRUE

\* authorized_actor: the membership is locked and read again by the append.
AuthorizedActor(a) == MayPublish(attempt[a].device)

Entry(a) == [kind |-> attempt[a].kind, device |-> attempt[a].device,
             request |-> attempt[a].request, payload |-> attempt[a].payload]

\* Mutant: the statement forgets completed_receipt.
CompletedLost(a) == receipt

\* completed_receipt of the append statement.
Completed(a) ==
  IF attempt[a].request = NoRequest THEN receipt
  ELSE [receipt EXCEPT ![ScopeOf(a)] = Complete(@, Len(log) + 1)]

\* appendAuthorized's statement.  Gate, authorization, sequence, row,
\* retention and receipt ride one statement, so they are one step.
AppendAuthorized(a) ==
  /\ attempt[a].pc = "claimed"
  /\ \/ /\ ~Gate(a)
        /\ attempt' = [attempt EXCEPT ![a].pc = "refused"]
        /\ UNCHANGED <<log, receipt>>
     \/ /\ Gate(a) /\ ~AuthorizedActor(a)
        /\ attempt' = [attempt EXCEPT ![a].pc = "denied"]
        /\ UNCHANGED <<log, receipt>>
     \/ /\ Gate(a) /\ AuthorizedActor(a)
        /\ log' = Append(log, Entry(a))
        /\ receipt' = Completed(a)
        /\ attempt' = [attempt EXCEPT ![a] =
                         [@ EXCEPT !.pc = "ok", !.sequence = Len(log) + 1]]
  /\ UNCHANGED groupVars

\* replayAuthorizedAppend, first read: the receipt.
ResolveRefused(a) ==
  LET r == receipt[ScopeOf(a)]
      verdict == Resolve(r, PrintOf(a))
  IN  /\ attempt[a].pc = "refused"
      /\ attempt' = [attempt EXCEPT ![a] =
           [@ EXCEPT !.pc = verdict,
                     !.sequence = IF verdict = "recorded" THEN r.outcome ELSE 0]]
      /\ UNCHANGED groupVars /\ UNCHANGED <<log, receipt>>

\* Mutant: the first retained event at or after the recorded one is taken.
FoundAnything(n) == FirstAbove(Retained, n - 1, 1) # {}

\* The one-row replay from the recorded sequence returns that very event.
Found(n) == FirstAbove(Retained, n - 1, 1) = {n}

\* The event the one-row replay returned.
ReadEvent(n) == Oldest(FirstAbove(Retained, n - 1, 1))

\* replayAuthorizedAppend, second read: the event, if retention left it.
ReadBack(a) ==
  LET n == attempt[a].sequence
  IN  /\ attempt[a].pc = "recorded"
      /\ attempt' = [attempt EXCEPT ![a] =
           IF Found(n) THEN [@ EXCEPT !.pc = "ok", !.sequence = ReadEvent(n)]
           ELSE [@ EXCEPT !.pc = "failed", !.sequence = 0]]
      /\ UNCHANGED groupVars /\ UNCHANGED <<log, receipt>>

Running == {"authorized", "claimed", "refused", "recorded"}

\* The attempt ends without an answer.
Abandon(a) ==
  /\ attempt[a].pc \in Running
  /\ attempt' = [attempt EXCEPT ![a].pc = "abandoned"]
  /\ UNCHANGED groupVars /\ UNCHANGED <<log, receipt>>

-----------------------------------------------------------------------------
(* What happens around the handlers.                                       *)

\* setDeviceRole or revokeDevice commits.  A revoked membership stays so, and
\* the leader of a group under leader authority stays an administrator.  Who
\* may ask, and the last administrator, are GroupAdministration's.
ChangeRole(d, r) ==
  /\ role[d] # "REVOKED"
  /\ r # role[d]
  /\ (mode = "LEADER" /\ leader = d) => r = "ADMIN"
  /\ role' = [role EXCEPT ![d] = r]
  /\ UNCHANGED <<mode, leader, log, receipt, attempt>>

\* setLeader commits: leadership goes to an active member.
SetLeader(d) ==
  /\ role[d] # "REVOKED"
  /\ leader # d
  /\ leader' = d
  /\ UNCHANGED <<role, mode, log, receipt, attempt>>

\* setAuthorityMode commits.
SetAuthorityMode(m) ==
  /\ m # mode
  /\ m = "LEADER" => role[leader] # "REVOKED"
  /\ mode' = m
  /\ UNCHANGED <<role, leader, log, receipt, attempt>>

ExpireReceipt(s) ==
  /\ Expiry
  /\ receipt[s].status # "absent" /\ ~receipt[s].expired
  /\ receipt' = [receipt EXCEPT ![s] = Expire(@)]
  /\ UNCHANGED groupVars /\ UNCHANGED <<log, attempt>>

Handle(a) == \/ \E k \in Kinds, d \in Devices, r \in Requests \cup {NoRequest},
                   v \in Payloads : Authorize(a, k, d, r, v)
             \/ ClaimReceipt(a)
             \/ AppendAuthorized(a)
             \/ ResolveRefused(a)
             \/ ReadBack(a)
             \/ Abandon(a)

Next == \/ \E a \in Attempts : Handle(a)
        \/ \E d \in Devices, r \in Role : ChangeRole(d, r)
        \/ \E d \in Devices : SetLeader(d)
        \/ \E m \in Mode : SetAuthorityMode(m)
        \/ \E s \in Kinds \X Requests : ExpireReceipt(s)

Spec == Init /\ [][Next]_vars

-----------------------------------------------------------------------------
Prints == (Kinds \X Devices \X (Payloads \cup {NoPayload})) \cup {NoPrint}
Event == [kind : Kinds, device : Devices, request : Requests \cup {NoRequest},
          payload : Payloads]

Handler == [pc : {"idle", "ok", "denied", "failed", "already_exists", "abandoned"}
                   \cup Running,
            kind : {"document", "session"}, device : Devices \cup {NoPayload},
            request : Requests \cup {NoRequest}, payload : Payloads \cup {NoPayload},
            sequence : Nat]

\* Type correctness; a handler past its first await names its request, and
\* neither a receipt nor an answer names an event that does not exist.
TypeOK ==
  /\ role \in [Devices -> Role]
  /\ mode \in Mode
  /\ leader \in Devices
  /\ log \in Seq(Event)
  /\ receipt \in [Kinds \X Requests -> ReceiptOf(Prints, 0..Len(log))]
  /\ attempt \in [Attempts -> Handler]
  /\ \A a \in Attempts :
       /\ attempt[a].sequence \in 0..Len(log)
       /\ attempt[a].pc # "idle" => Entry(a) \in Event
       /\ attempt[a].pc \in {"refused", "recorded"} => attempt[a].request # NoRequest

\* Appending is the least idempotent operation of the package: however many
\* attempts carry one request id, and however they race, one of them at most
\* takes a sequence.
OnceOnly ==
  \A i, j \in 1..Len(log) :
    (log[i].request # NoRequest /\ log[i].request = log[j].request
       /\ log[i].kind = log[j].kind) => i = j

\* The receipts and the log agree: a completed receipt names the event its
\* request produced, and an event a request produced has a completed receipt
\* naming it, whichever attempts died in between.
ReceiptsMatchLog ==
  /\ \A s \in Kinds \X Requests :
       receipt[s].status = "completed" =>
         /\ receipt[s].outcome \in 1..Len(log)
         /\ log[receipt[s].outcome].kind = s[1]
         /\ log[receipt[s].outcome].request = s[2]
  /\ \A i \in 1..Len(log) :
       log[i].request # NoRequest =>
         /\ receipt[<<log[i].kind, log[i].request>>].status = "completed"
         /\ receipt[<<log[i].kind, log[i].request>>].outcome = i

\* An answer is about the caller's own request: the event an acknowledged
\* attempt was told of is the one it asked for.
AckedIsMine ==
  \A a \in Attempts : attempt[a].pc = "ok" => log[attempt[a].sequence] = Entry(a)

\* No event is written for a device that had lost its right to write by the
\* time of the write, however long ago it passed the door.
WriterAuthorized ==
  [][log' # log => MayPublish(log'[Len(log')].device)]_vars

\* Under leader authority one device drives the group: a session command
\* enters the log only from the device that leads the group then.
LeaderDrives ==
  [][\A i \in (Len(log) + 1)..Len(log') :
       log'[i].kind = "session" => HasSessionAuthority(log'[i].device)]_vars

-----------------------------------------------------------------------------
(* What the RPCs promise, with all of the above hidden.                    *)

Unasked == [kind |-> "none", device |-> NoPayload, request |-> NoRequest, payload |-> NoPayload]

Asked == [a \in Attempts |-> IF attempt[a].pc = "idle" THEN Unasked ELSE Entry(a)]
Told == [a \in Attempts |-> IF attempt[a].pc = "ok" THEN attempt[a].sequence ELSE 0]

Promise == INSTANCE OnceLog WITH Calls <- Attempts, Events <- Event, NoEvent <- Unasked,
                                 asked <- Asked, told <- Told

\* The publishing RPCs implement a log to which a request adds one event at
\* most, whose answers are about the caller's own request.
KeepsPromise == Promise!Spec
=============================================================================
