------------------------------ MODULE Presence ------------------------------
(***************************************************************************)
(* Who is in a group's synchronized session: CoordinatedPresenceStore over *)
(* the rows of presence_snapshots, which remember, and the keys of Redis,  *)
(* which run out.                                                          *)
(*                                                                         *)
(* Joining and leaving write the row in one statement and then issue two   *)
(* or three Redis commands without waiting between them: other calls run   *)
(* between any two, and the handler may die there.  Scripts are atomic.    *)
(* The events joinGroup, leaveGroup and revokeDevice publish afterwards    *)
(* are the hub's; what a device reports of its screen is left out.         *)
(***************************************************************************)
EXTENDS Naturals

CONSTANTS
  Devices,
  Calls,   \* handlers that run at once
  NoDevice,
  Ttl      \* defaultPresenceTtlSeconds, in polling intervals

ASSUME PresenceAssumption == NoDevice \notin Devices /\ Ttl \in Nat \ {0}

VARIABLES
  members,   \* group_memberships that are not revoked
  row,       \* presence_snapshots.status
  key,       \* what is left of the TTL of each device's key; 0 without a key
  roster,    \* the group's set of device ids
  rosterTtl, \* what is left of the set's TTL
  call,      \* the handlers
  disturbed  \* history: devices whose last join or leave overlapped another or
             \* died, or whose last join took longer than a polling interval

redis == <<key, roster, rosterTtl>>
presenceVars == <<members, row, key, roster, rosterTtl, call, disturbed>>

Never == Ttl + 1 \* a set that was given no TTL

Idle == [pc |-> "idle", device |-> NoDevice, todo |-> {}]

PresenceInit ==
  /\ members = Devices
  /\ row = [d \in Devices |-> "none"]
  /\ key = [d \in Devices |-> 0]
  /\ roster = {}
  /\ rosterTtl = 0
  /\ call = [c \in Calls |-> Idle]
  /\ disturbed = {}

Writers(d) == {c \in Calls : call[c].device = d /\ call[c].pc \in {"ONLINE", "OFFLINE", "redis"}}

Quiet(d) == Writers(d) = {}

\* A write of d begins: alone, or across another.
Begins(d) == disturbed' = IF Quiet(d) THEN disturbed \ {d} ELSE disturbed \cup {d}

\* authenticateRequest: the caller is a device that is not revoked.
Calling(c, d) == call[c].pc = "idle" /\ d \in members

At(pc, d) == [Idle EXCEPT !.pc = pc, !.device = d]

\* The row is written, and these commands are still to be issued.
Issuing(d, commands) == [At("redis", d) EXCEPT !.todo = commands]

-----------------------------------------------------------------------------
(* Joining, leaving and being revoked.                                     *)

\* joinGroup (status ONLINE) and leaveGroup (OFFLINE), past authentication.
Announce(c, d, status) ==
  /\ Calling(c, d)
  /\ call' = [call EXCEPT ![c] = At(status, d)]
  /\ Begins(d)
  /\ UNCHANGED redis /\ UNCHANGED <<members, row>>

\* The commands of recordPresence and of forgetPresence.
RecordCommands == {"SET", "SADD", "EXPIRE"}
ForgetCommands == {"DEL", "SREM"}

\* record's statement asks for the membership once more; a device that lost it
\* is refused.
RecordRow(c) ==
  LET d == call[c].device
      status == call[c].pc
  IN  /\ status \in {"ONLINE", "OFFLINE"}
      /\ IF d \in members
         THEN /\ row' = [row EXCEPT ![d] = status]
              /\ call' = [call EXCEPT ![c] =
                   Issuing(d, IF status = "ONLINE" THEN RecordCommands ELSE ForgetCommands)]
         ELSE /\ call' = [call EXCEPT ![c] = Idle]
              /\ UNCHANGED row
      /\ UNCHANGED redis /\ UNCHANGED <<members, disturbed>>

\* revokeDevice, by an administrator: the statement, then presence.forget.
RevokeDevice(c, d) ==
  /\ call[c].pc = "idle" /\ d \in members
  /\ members' = members \ {d}
  /\ call' = [call EXCEPT ![c] = Issuing(d, ForgetCommands)]
  /\ Begins(d)
  /\ UNCHANGED redis /\ UNCHANGED row

\* A set that becomes empty is deleted, and its TTL with it.
SetIs(s, ttl) == roster' = s /\ rosterTtl' = IF s = {} THEN 0 ELSE ttl

\* Mutant: leaving only stops the refreshing.
ExecuteKeepingKey(x, d) ==
  \/ x = "SET" /\ key' = [key EXCEPT ![d] = Ttl] /\ UNCHANGED <<roster, rosterTtl>>
  \/ x = "SADD" /\ SetIs(roster \cup {d}, IF roster = {} THEN Never ELSE rosterTtl) /\ UNCHANGED key
  \/ x = "EXPIRE" /\ SetIs(roster, Ttl) /\ UNCHANGED key
  \/ x = "DEL" /\ UNCHANGED redis
  \/ x = "SREM" /\ SetIs(roster \ {d}, rosterTtl) /\ UNCHANGED key

\* One command.
Execute(x, d) ==
  \/ x = "SET" /\ key' = [key EXCEPT ![d] = Ttl] /\ UNCHANGED <<roster, rosterTtl>>
  \/ x = "SADD" /\ SetIs(roster \cup {d}, IF roster = {} THEN Never ELSE rosterTtl) /\ UNCHANGED key
  \/ x = "EXPIRE" /\ SetIs(roster, Ttl) /\ UNCHANGED key
  \/ x = "DEL" /\ key' = [key EXCEPT ![d] = 0] /\ UNCHANGED <<roster, rosterTtl>>
  \/ x = "SREM" /\ SetIs(roster \ {d}, rosterTtl) /\ UNCHANGED key

\* recordPresence and forgetPresence: their commands in any order.
Command(c) ==
  /\ call[c].pc = "redis"
  /\ \E x \in call[c].todo :
       /\ Execute(x, call[c].device)
       /\ call' = [call EXCEPT ![c] = IF @.todo = {x} THEN Idle
                                           ELSE Issuing(@.device, @.todo \ {x})]
  /\ UNCHANGED <<members, row, disturbed>>

-----------------------------------------------------------------------------
(* Staying.                                                                *)

\* getPresence and updatePresence, past authentication.
Poll(c, d) ==
  /\ Calling(c, d)
  /\ \E pc \in {"renew", "report"} : call' = [call EXCEPT ![c] = At(pc, d)]
  /\ UNCHANGED redis /\ UNCHANGED <<members, row, disturbed>>

\* reportDetail's statement: a device without a row, or no longer a member, is
\* refused; only the detail is written.
ReportDetail(c) ==
  LET d == call[c].device
  IN  /\ call[c].pc = "report"
      /\ call' = [call EXCEPT ![c] = IF d \in members /\ row[d] # "none" THEN At("script", d) ELSE Idle]
      /\ UNCHANGED redis /\ UNCHANGED <<members, row, disturbed>>

\* Mutant: EXPIRE of the device's key alone.
RefreshedAlone(d) ==
  /\ key' = [key EXCEPT ![d] = IF @ > 0 THEN Ttl ELSE 0]
  /\ UNCHANGED <<roster, rosterTtl>>

\* Mutant: the TTL is added to what is left of it.
RefreshedMore(d) ==
  /\ key' = [key EXCEPT ![d] = IF @ > 0 THEN @ + Ttl ELSE 0]
  /\ IF key[d] > 0 THEN SetIs(roster, Ttl) ELSE UNCHANGED <<roster, rosterTtl>>

\* The scripts of reportPresence and renewPresence: a key that is there and the
\* set get a full TTL, a key that is not there stays away.
Refreshed(d) ==
  /\ key' = [key EXCEPT ![d] = IF @ > 0 THEN Ttl ELSE 0]
  /\ IF key[d] > 0 THEN SetIs(roster, Ttl) ELSE UNCHANGED <<roster, rosterTtl>>

\* The read that ends the call, list, is Listed below.
RunScript(c) ==
  LET d == call[c].device
  IN  /\ call[c].pc \in {"script", "renew"}
      /\ Refreshed(d)
      /\ call' = [call EXCEPT ![c] = IF call[c].pc = "script" THEN At("renew", d) ELSE Idle]
      /\ UNCHANGED <<members, row, disturbed>>

Joining(c, d) ==
  call[c].device = d /\ (call[c].pc = "ONLINE" \/ call[c].todo \cap RecordCommands # {})

\* A polling interval passes.
Tick ==
  /\ key' = [d \in Devices |-> IF key[d] > 0 THEN key[d] - 1 ELSE 0]
  /\ IF rosterTtl \in {0, Never} THEN UNCHANGED <<roster, rosterTtl>>
     ELSE SetIs(IF rosterTtl = 1 THEN {} ELSE roster, rosterTtl - 1)
  /\ disturbed' = disturbed \cup {d \in Devices : \E c \in Calls : Joining(c, d)}
  /\ UNCHANGED <<members, row, call>>

\* A handler's process dies, or a command fails and ends it.  The commands it had
\* issued and that have not run are given up with it; in the code one of them may
\* still arrive.
Die(c) ==
  /\ call[c].pc # "idle"
  /\ disturbed' = disturbed \cup {d \in Devices : c \in Writers(d)}
  /\ call' = [call EXCEPT ![c] = Idle]
  /\ UNCHANGED redis /\ UNCHANGED <<members, row>>

Handle(c) == RecordRow(c) \/ Command(c) \/ ReportDetail(c) \/ RunScript(c)

PresenceNext ==
  \/ \E c \in Calls, d \in Devices :
       \/ \E status \in {"ONLINE", "OFFLINE"} : Announce(c, d, status)
       \/ RevokeDevice(c, d) \/ Poll(c, d)
  \/ \E c \in Calls : Handle(c) \/ Die(c)
  \/ Tick

PresenceSpec == PresenceInit /\ [][PresenceNext]_presenceVars

\* Time passes; the database and Redis answer.
PresenceFairSpec ==
  PresenceSpec /\ WF_presenceVars(Tick) /\ \A c \in Calls : WF_presenceVars(Handle(c))

-----------------------------------------------------------------------------
\* Mutant: the answer is built from the rows.
ListedByRow(d) == d \in members /\ row[d] = "ONLINE"

\* list reports d ONLINE: its row joins a membership, SMEMBERS names it and
\* MGET finds its key.  The rows are read first, but a device that appears in
\* both only after them is reported with a key that is live all the same.
Listed(d) == d \in members /\ row[d] # "none" /\ d \in roster /\ key[d] > 0

\* Type correctness; an empty set has no TTL and any other one has.
PresenceTypeOK ==
  /\ members \subseteq Devices
  /\ row \in [Devices -> {"none", "ONLINE", "OFFLINE"}]
  /\ key \in [Devices -> 0..Ttl]
  /\ roster \subseteq Devices
  /\ rosterTtl \in 0..Never
  /\ roster = {} <=> rosterTtl = 0
  /\ call \in [Calls -> [pc : {"idle", "ONLINE", "OFFLINE", "redis", "report", "script", "renew"},
                         device : Devices \cup {NoDevice},
                         todo : SUBSET (RecordCommands \cup ForgetCommands)]]
  /\ \A c \in Calls : /\ call[c].pc = "idle" <=> call[c].device = NoDevice
                      /\ call[c].pc = "redis" <=> call[c].todo # {}
  /\ disturbed \subseteq Devices

\* Leaving and being revoked withdraw: once no join or leave of the device is
\* under way, and unless its last one overlapped another or died, a device whose
\* row says OFFLINE or that is no member has no key and is not in the set,
\* however many of its polls and reports were under way meanwhile.
Withdrawn ==
  \A d \in Devices :
    (Quiet(d) /\ d \notin disturbed /\ (row[d] = "OFFLINE" \/ d \notin members)) =>
      key[d] = 0 /\ d \notin roster

\* A live key is seen: the set names its device, and does not run out before
\* it, although the other devices join, leave and lapse.
Visible ==
  \A d \in Devices :
    (Quiet(d) /\ d \notin disturbed /\ key[d] > 0) =>
      d \in roster /\ rosterTtl >= key[d]

\* A device that stopped is noticed: once no call of its own or about it is
\* made, the time comes when it is not reported ONLINE any more, in whatever
\* state its last calls left the two stores.
StoppedIsNoticed ==
  \A d \in Devices : <>[](\A c \in Calls : call[c].device # d) => <>[](~Listed(d))
=============================================================================
