---------------------- MODULE GroupAdministrationProofs ---------------------
(***************************************************************************)
(* Theorems about GroupAdministration for any number of devices, handlers  *)
(* and request ids, overlapping statements and dying handlers included.    *)
(***************************************************************************)
EXTENDS GroupAdministration, FiniteSetTheorems, TLAPS

-----------------------------------------------------------------------------
(* Receipts, and the sequences they point into.                            *)

\* Appending one element keeps the old ones where they were.
LEMMA AppendKeeps ==
  ASSUME NEW S, NEW s \in Seq(S), NEW e \in S
  PROVE  /\ Append(s, e) \in Seq(S)
         /\ Len(Append(s, e)) = Len(s) + 1
         /\ \A i \in 1..Len(s) : Append(s, e)[i] = s[i]
         /\ Append(s, e)[Len(s) + 1] = e
OBVIOUS

\* A receipt stays a receipt whatever happens to it.
LEMMA ReceiptType ==
  ASSUME NEW P, NEW O, NEW r \in ReceiptOf(P, O)
  PROVE  /\ \A p \in P : Claim(r, p) \in ReceiptOf(P, O)
         /\ \A o \in O : Complete(r, o) \in ReceiptOf(P, O)
         /\ Expire(r) \in ReceiptOf(P, O)
BY DEF ReceiptOf, Claim, Complete, Expire

\* A longer log leaves the receipts well typed.
LEMMA ReceiptsWiden ==
  ASSUME NEW D, NEW P, NEW m \in Nat, NEW n \in Nat, m <= n,
         NEW f \in [D -> ReceiptOf(P, 0..m)]
  PROVE  f \in [D -> ReceiptOf(P, 0..n)]
<1>1. ReceiptOf(P, 0..m) \subseteq ReceiptOf(P, 0..n)
  BY DEF ReceiptOf
<1> QED
  BY <1>1

-----------------------------------------------------------------------------
(* Type correctness.                                                       *)

\* What a call carries.
LEMMA CallType ==
  ASSUME NEW c \in Calls
  PROVE  /\ c.actor \in Devices
         /\ c.name \in {"updateGroup", "setAuthorityMode", "setLeader",
                        "setDeviceRole", "revokeDevice"}
         /\ c.name = "setAuthorityMode" => c.arg \in Mode
         /\ c.name \in {"setLeader", "setDeviceRole", "revokeDevice"} =>
              c.target \in Devices
         /\ c.name = "setDeviceRole" => c.arg \in Role
<1>1. PICK d \in Devices : c \in CallsOf(d)
  BY DEF Calls
<1> QED
  BY <1>1 DEF CallsOf, Call

\* A call of a member is one of the calls.
LEMMA CallOfDevice ==
  ASSUME NEW d \in Devices, NEW c \in CallsOf(d)
  PROVE  c \in Calls
BY DEF Calls

\* The handler between two calls.
LEMMA IdleType ==
  /\ Idle \in Handler
  /\ Idle.pc = "idle" /\ Idle.revision = 0
  /\ NoSnapshot \in [members : SUBSET Devices,
                     admins : {Cardinality(S) : S \in SUBSET Devices} \cup {0}]
BY DEF Idle, NoSnapshot, Handler

\* The type invariant, conjunct by conjunct.
LEMMA TypeFacts ==
  ASSUME TypeOK
  PROVE  /\ role \in [Devices -> Role \cup {"NONE"}]
         /\ revoked \subseteq Devices /\ mode \in Mode /\ leader \in Devices
         /\ history \in Seq(Entry) /\ Len(history) \in Nat /\ 0 \in 0..Len(history)
         /\ receipt \in [Requests -> ReceiptOf(Calls \cup {NoCall}, 0..Len(history))]
         /\ announced \subseteq 1..Len(history)
         /\ op \in [Ops -> Handler]
         /\ \A o \in Ops :
              /\ op[o] \in Handler
              /\ op[o].revision \in 0..Len(history)
<1>0. Revision = Len(history)
  BY DEF Revision
<1>1. /\ role \in [Devices -> Role \cup {"NONE"}]
      /\ revoked \subseteq Devices /\ mode \in Mode /\ leader \in Devices
  BY DEF TypeOK
<1>2. history \in Seq(Entry) /\ op \in [Ops -> Handler]
  BY DEF TypeOK
<1>3. Len(history) \in Nat /\ 0 \in 0..Len(history)
  BY <1>2
<1>4. receipt \in [Requests -> ReceiptOf(Calls \cup {NoCall}, 0..Len(history))]
  BY <1>0, Zenon DEF TypeOK
<1>5. announced \subseteq 1..Len(history)
  BY <1>0, Zenon DEF TypeOK
<1>6. \A o \in Ops : op[o].revision \in 0..Len(history)
  BY <1>0, Zenon DEF TypeOK
<1>7. \A o \in Ops : op[o] \in Handler
  BY <1>2
<1> QED
  BY <1>1, <1>2, <1>3, <1>4, <1>5, <1>6, <1>7

\* One handler moves and the group may have: what has to be shown for the types
\* to be kept.
LEMMA HandlerStepType ==
  ASSUME TypeOK, NEW o \in Ops, NEW h \in Handler,
         op' = [op EXCEPT ![o] = h],
         role' \in [Devices -> Role \cup {"NONE"}],
         revoked' \subseteq Devices, mode' \in Mode, leader' \in Devices,
         history' \in Seq(Entry), Len(history) <= Len(history'),
         receipt' \in [Requests -> ReceiptOf(Calls \cup {NoCall}, 0..Len(history'))],
         announced' \subseteq 1..Len(history'),
         h.pc # "idle" => h.call \in Calls,
         h.pc \in {"authenticated", "refused", "recorded", "replayed"} =>
           h.request # NoRequest,
         h.pc = "committed" => h.revision # 0,
         h.revision \in 0..Len(history')
  PROVE  TypeOK'
<1>0. Len(history) \in Nat /\ Len(history') \in Nat
  BY DEF TypeOK
<1>1. op' \in [Ops -> Handler]
  BY DEF TypeOK
<1>2. ASSUME NEW p \in Ops
      PROVE  /\ op'[p].pc # "idle" => op'[p].call \in Calls
             /\ op'[p].pc \in {"authenticated", "refused", "recorded", "replayed"} =>
                  op'[p].request # NoRequest
             /\ op'[p].pc = "committed" => op'[p].revision # 0
             /\ op'[p].revision \in 0..Len(history')
  <2>1. CASE p = o
    <3>1. op'[p] = h
      BY <2>1 DEF TypeOK
    <3> QED
      BY <3>1
  <2>2. CASE p # o
    <3>1. op'[p] = op[p]
      BY <2>2 DEF TypeOK
    <3>2. op[p].revision \in 0..Len(history')
      BY <1>0 DEF TypeOK, Revision
    <3> QED
      BY <3>1, <3>2 DEF TypeOK
  <2> QED
    BY <2>1, <2>2
<1> QED
  BY <1>1, <1>2 DEF TypeOK, Revision

\* The same where only the handler moves.
LEMMA OwnStepType ==
  ASSUME TypeOK, NEW o \in Ops, NEW h \in Handler,
         op' = [op EXCEPT ![o] = h],
         UNCHANGED groupVars, receipt' = receipt, announced' = announced,
         h.pc # "idle" => h.call \in Calls,
         h.pc \in {"authenticated", "refused", "recorded", "replayed"} =>
           h.request # NoRequest,
         h.pc = "committed" => h.revision # 0,
         h.revision \in 0..Len(history)
  PROVE  TypeOK'
<1>1. /\ role' = role /\ revoked' = revoked /\ mode' = mode /\ leader' = leader
      /\ history' = history
  BY DEF groupVars
<1>2. /\ role' \in [Devices -> Role \cup {"NONE"}]
      /\ revoked' \subseteq Devices /\ mode' \in Mode /\ leader' \in Devices
  BY <1>1, TypeFacts
<1>3. history' \in Seq(Entry) /\ Len(history) <= Len(history')
  BY <1>1, TypeFacts
<1>4. receipt' \in [Requests -> ReceiptOf(Calls \cup {NoCall}, 0..Len(history'))]
  BY <1>1, TypeFacts, Zenon
<1>5. announced' \subseteq 1..Len(history') /\ h.revision \in 0..Len(history')
  BY <1>1, TypeFacts, Zenon
<1> QED
  BY <1>2, <1>3, <1>4, <1>5, HandlerStepType

\* The initial state is well typed.
LEMMA InitType == Init => TypeOK
<1> SUFFICES ASSUME Init PROVE TypeOK
  OBVIOUS
<1>1. [mode |-> "LEADER", leader |-> leader, request |-> NoRequest] \in Entry
  BY DEF Init, Entry, Mode
<1>2. history \in Seq(Entry) /\ Len(history) = 1
  BY <1>1 DEF Init
<1>3. Absent(NoCall) \in ReceiptOf(Calls \cup {NoCall}, 0..1)
  BY DEF Absent, ReceiptOf
<1>4. receipt \in [Requests -> ReceiptOf(Calls \cup {NoCall}, 0..Revision)]
  BY <1>2, <1>3 DEF Init, Revision
<1>5. op \in [Ops -> Handler] /\ \A o \in Ops : op[o] = Idle
  BY IdleType DEF Init
<1>6. \A o \in Ops : op[o].pc = "idle" /\ op[o].revision \in 0..Revision
  BY <1>2, <1>5, IdleType DEF Revision
<1> QED
  BY <1>2, <1>4, <1>5, <1>6 DEF Init, TypeOK, Role, Mode, Revision

\* What a statement writes is well typed, and the history grows by one.
LEMMA ApplyType ==
  ASSUME TypeOK, NEW o \in Ops, op[o].call \in Calls, Apply(o)
  PROVE  /\ role' \in [Devices -> Role \cup {"NONE"}]
         /\ revoked' \subseteq Devices /\ mode' \in Mode /\ leader' \in Devices
         /\ history' \in Seq(Entry)
         /\ Len(history) \in Nat /\ Len(history') = Len(history) + 1
         /\ \A i \in 1..Len(history) : history'[i] = history[i]
         /\ history'[Len(history) + 1].request = op[o].request
<1> DEFINE c == op[o].call
           e == [mode |-> mode', leader |-> leader', request |-> op[o].request]
<1>1. role' \in [Devices -> Role \cup {"NONE"}]
  <2>1. CASE c.name = "setDeviceRole"
    <3>1. c.arg \in Role /\ c.target \in Devices
      BY <2>1, CallType
    <3>2. role' = [role EXCEPT ![c.target] = c.arg]
      BY <2>1 DEF Apply
    <3> QED
      BY <3>1, <3>2 DEF TypeOK
  <2>2. CASE c.name # "setDeviceRole"
    BY <2>2 DEF Apply, TypeOK
  <2> QED
    BY <2>1, <2>2
<1>2. revoked' \subseteq Devices
  BY CallType DEF Apply, TypeOK
<1>3. mode' \in Mode
  BY CallType DEF Apply, TypeOK
<1>4. leader' \in Devices
  BY CallType DEF Apply, TypeOK
<1>5. op[o].request \in Requests \cup {NoRequest}
  BY DEF TypeOK, Handler
<1>6. e \in Entry
  BY <1>3, <1>4, <1>5 DEF Entry
<1>7. history' = Append(history, e) /\ history \in Seq(Entry) /\ e.request = op[o].request
  BY DEF Apply, TypeOK
<1> HIDE DEF e
<1> QED
  BY <1>1, <1>2, <1>3, <1>4, <1>6, <1>7, AppendKeeps

\* Every step of a handler but its commit keeps the types.
LEMMA HandleType ==
  ASSUME TypeOK, NEW o \in Ops,
         \/ \E d \in Devices : \E c \in CallsOf(d), r \in Requests \cup {NoRequest} :
               Authenticate(o, c, r)
         \/ ClaimReceipt(o) \/ Begin(o) \/ Announce(o) \/ ResolveRefused(o)
         \/ ReadGroup(o) \/ Die(o) \/ Finish(o)
  PROVE  TypeOK'
<1>0. /\ op[o] \in Handler /\ Len(history) \in Nat /\ 0 \in 0..Len(history)
      /\ op[o].revision \in 0..Len(history)
      /\ receipt \in [Requests -> ReceiptOf(Calls \cup {NoCall}, 0..Len(history))]
  BY TypeFacts, Zenon
<1>1. ASSUME NEW d \in Devices, NEW c \in CallsOf(d),
             NEW r \in Requests \cup {NoRequest}, Authenticate(o, c, r)
      PROVE  TypeOK'
  <2> DEFINE h == [Idle EXCEPT !.pc = IF r = NoRequest THEN "claimed" ELSE "authenticated",
                               !.call = c, !.request = r]
  <2>1. c \in Calls
    BY CallOfDevice
  <2>2. h \in Handler
    BY <2>1, IdleType DEF Handler, Running
  <2>3. /\ h.pc = IF r = NoRequest THEN "claimed" ELSE "authenticated"
        /\ h.call = c /\ h.request = r /\ h.revision = 0
    BY IdleType DEF Handler
  <2>4. /\ op' = [op EXCEPT ![o] = h]
        /\ UNCHANGED groupVars /\ receipt' = receipt /\ announced' = announced
    BY <1>1 DEF Authenticate
  <2> HIDE DEF h
  <2>5. /\ h.pc # "committed" /\ h.revision \in 0..Len(history) /\ h.call \in Calls
        /\ h.pc \in {"authenticated", "refused", "recorded", "replayed"} =>
             h.request # NoRequest
    BY <1>0, <2>1, <2>3
  <2> QED
    BY <2>2, <2>4, <2>5, OwnStepType
<1>2. ASSUME ClaimReceipt(o) PROVE TypeOK'
  <2> DEFINE r == op[o].request
  <2>1. /\ op[o].pc = "authenticated" /\ r \in Requests /\ op[o].call \in Calls
        /\ r # NoRequest
    BY <1>2 DEF ClaimReceipt, TypeOK, Handler
  <2>2. PICK pc \in {"refused", "claimed"} : op' = [op EXCEPT ![o].pc = pc]
    BY <1>2 DEF ClaimReceipt
  <2> DEFINE h == [op[o] EXCEPT !.pc = pc]
  <2>3. /\ h \in Handler /\ h.pc = pc /\ h.call = op[o].call /\ h.request = r
        /\ h.revision = op[o].revision
    BY <1>0 DEF Handler, Running
  <2>4. op' = [op EXCEPT ![o] = h]
    BY <2>2 DEF TypeOK
  <2>5. receipt' \in [Requests -> ReceiptOf(Calls \cup {NoCall}, 0..Len(history))]
    <3>1. receipt[r] \in ReceiptOf(Calls \cup {NoCall}, 0..Len(history))
      BY <1>0, <2>1
    <3>2. Claim(receipt[r], op[o].call) \in ReceiptOf(Calls \cup {NoCall}, 0..Len(history))
      BY <2>1, <3>1, ReceiptType
    <3>3. receipt' = receipt \/ receipt' = [receipt EXCEPT ![r] = Claim(@, op[o].call)]
      BY <1>2 DEF ClaimReceipt
    <3> QED
      BY <1>0, <2>1, <3>2, <3>3
  <2> HIDE DEF h
  <2>6. /\ UNCHANGED groupVars /\ announced' = announced /\ history' = history
    BY <1>2 DEF ClaimReceipt, groupVars
  <2>7. /\ history' \in Seq(Entry) /\ Len(history) <= Len(history')
        /\ announced' \subseteq 1..Len(history')
        /\ receipt' \in [Requests -> ReceiptOf(Calls \cup {NoCall}, 0..Len(history'))]
    <3>1. Len(history') = Len(history)
      BY <2>6
    <3>2. announced' \subseteq 1..Len(history')
      BY <2>6, <3>1, TypeFacts, Zenon
    <3>3. receipt' \in [Requests -> ReceiptOf(Calls \cup {NoCall}, 0..Len(history'))]
      BY <2>5, <3>1, Zenon
    <3>4. history' \in Seq(Entry) /\ Len(history) <= Len(history')
      BY <1>0, <2>6, <3>1, TypeFacts
    <3> QED
      BY <3>2, <3>3, <3>4
  <2>8. /\ role' \in [Devices -> Role \cup {"NONE"}]
        /\ revoked' \subseteq Devices /\ mode' \in Mode /\ leader' \in Devices
    BY <2>6, TypeFacts DEF groupVars
  <2>9. /\ h.pc # "committed" /\ h.call \in Calls /\ h.request # NoRequest
        /\ h.revision \in 0..Len(history')
    BY <1>0, <2>1, <2>3, <2>6
  <2> QED
    BY <2>3, <2>4, <2>7, <2>8, <2>9, HandlerStepType
<1>3. ASSUME Begin(o) PROVE TypeOK'
  <2> DEFINE s == [members |-> Members, admins |-> Cardinality(Admins)]
             h == [op[o] EXCEPT !.pc = "begun", !.snapshot = s]
  <2>1. /\ op[o].pc = "claimed" /\ op[o].call \in Calls
        /\ UNCHANGED groupVars /\ receipt' = receipt /\ announced' = announced
        /\ op' = [op EXCEPT ![o] = h]
    BY <1>3 DEF Begin, TypeOK
  <2>2. s \in [members : SUBSET Devices,
               admins : {Cardinality(S) : S \in SUBSET Devices} \cup {0}]
    <3>1. Members \in SUBSET Devices /\ Admins \in SUBSET Devices
      BY DEF Members, Admins
    <3> QED
      BY <3>1
  <2> HIDE DEF s
  <2>3. /\ h \in Handler /\ h.pc = "begun" /\ h.call = op[o].call
        /\ h.revision = op[o].revision
    BY <1>0, <2>2 DEF Handler
  <2> HIDE DEF h
  <2>4. /\ h.pc # "committed" /\ h.call \in Calls
        /\ h.pc \notin {"authenticated", "refused", "recorded", "replayed"}
        /\ h.revision \in 0..Len(history)
    BY <1>0, <2>1, <2>3
  <2> QED
    BY <2>1, <2>3, <2>4, OwnStepType
<1>4. ASSUME Announce(o) PROVE TypeOK'
  <2>1. /\ op[o].pc = "committed" /\ op' = [op EXCEPT ![o] = Idle]
        /\ UNCHANGED groupVars /\ receipt' = receipt /\ history' = history
        /\ announced' = announced \cup {op[o].revision}
    BY <1>4 DEF Announce, groupVars
  <2>2. op[o].revision \in 1..Len(history)
    <3>1. op[o].revision # 0
      BY <2>1 DEF TypeOK
    <3> QED
      BY <1>0, <3>1
  <2>3. /\ role' \in [Devices -> Role \cup {"NONE"}]
        /\ revoked' \subseteq Devices /\ mode' \in Mode /\ leader' \in Devices
    BY <2>1, TypeFacts DEF groupVars
  <2>4. Idle.pc \notin {"authenticated", "refused", "recorded", "replayed", "committed"}
    BY IdleType
  <2>5. Len(history') = Len(history) /\ Len(history) <= Len(history')
    BY <1>0, <2>1
  <2>6. announced \subseteq 1..Len(history') /\ op[o].revision \in 1..Len(history')
    BY <2>2, <2>5, TypeFacts, Zenon
  <2>7. announced' \subseteq 1..Len(history') /\ Idle.revision \in 0..Len(history')
    BY <1>0, <2>1, <2>5, <2>6, IdleType
  <2>8. receipt' \in [Requests -> ReceiptOf(Calls \cup {NoCall}, 0..Len(history'))]
    BY <1>0, <2>1, <2>5, Zenon
  <2>9. history' \in Seq(Entry)
    BY <2>1, TypeFacts
  <2> QED
    BY <2>1, <2>3, <2>4, <2>5, <2>7, <2>8, <2>9, IdleType, HandlerStepType
<1>5. ASSUME op' = [op EXCEPT ![o] = Idle],
             UNCHANGED groupVars, receipt' = receipt, announced' = announced
      PROVE  TypeOK'
  <2>1. /\ Idle.revision \in 0..Len(history)
        /\ Idle.pc \notin {"authenticated", "refused", "recorded", "replayed", "committed"}
    BY <1>0, IdleType
  <2> QED
    BY <1>5, <2>1, IdleType, OwnStepType
<1>6. ASSUME ResolveRefused(o) PROVE TypeOK'
  <2> DEFINE r == receipt[op[o].request]
  <2>1. /\ op[o].pc = "refused" /\ op[o].call \in Calls /\ op[o].request # NoRequest
        /\ op[o].request \in Requests
        /\ UNCHANGED groupVars /\ receipt' = receipt /\ announced' = announced
    BY <1>6 DEF ResolveRefused, TypeOK, Handler
  <2>2. CASE op' = [op EXCEPT ![o] = Idle]
    BY <1>5, <2>1, <2>2
  <2> DEFINE h == [op[o] EXCEPT !.pc = "recorded", !.revision = r.outcome]
  <2>3. CASE op' = [op EXCEPT ![o] = h]
    <3>0. r \in ReceiptOf(Calls \cup {NoCall}, 0..Len(history))
      BY <1>0, <2>1
    <3>1. r.outcome \in 0..Len(history) /\ r.outcome \in Nat
      BY <1>0, <3>0 DEF ReceiptOf
    <3> HIDE DEF r
    <3>2. /\ h \in Handler /\ h.pc = "recorded" /\ h.call = op[o].call
          /\ h.request = op[o].request /\ h.revision = r.outcome
      BY <1>0, <3>1 DEF Handler, Running
    <3> HIDE DEF h
    <3>3. /\ h.pc # "committed" /\ h.call \in Calls /\ h.request # NoRequest
          /\ h.revision \in 0..Len(history)
      BY <2>1, <3>1, <3>2
    <3> QED
      BY <2>1, <2>3, <3>2, <3>3, OwnStepType
  <2> QED
    BY <1>6, <2>2, <2>3 DEF ResolveRefused
<1>7. ASSUME ReadGroup(o) PROVE TypeOK'
  <2> DEFINE h == [op[o] EXCEPT !.pc = "replayed",
                                !.answer = [mode |-> mode, leader |-> leader]]
  <2>1. /\ op[o].pc = "recorded" /\ op[o].call \in Calls /\ op[o].request # NoRequest
        /\ UNCHANGED groupVars /\ receipt' = receipt /\ announced' = announced
        /\ op' = [op EXCEPT ![o] = h]
    BY <1>7 DEF ReadGroup, TypeOK
  <2>2. [mode |-> mode, leader |-> leader] \in
           [mode : Mode \cup {"none"}, leader : Devices \cup {NoDevice}]
    BY DEF TypeOK
  <2>3. /\ h \in Handler /\ h.pc = "replayed" /\ h.call = op[o].call
        /\ h.request = op[o].request /\ h.revision = op[o].revision
    BY <1>0, <2>2 DEF Handler
  <2> HIDE DEF h
  <2>4. /\ h.pc # "committed" /\ h.call \in Calls /\ h.request # NoRequest
        /\ h.revision \in 0..Len(history)
    BY <1>0, <2>1, <2>3
  <2> QED
    BY <2>1, <2>3, <2>4, OwnStepType
<1>8. ASSUME Die(o) \/ Finish(o) PROVE TypeOK'
  BY <1>5, <1>8 DEF Die, Finish
<1> QED
  BY <1>1, <1>2, <1>3, <1>4, <1>6, <1>7, <1>8

\* Completing a receipt with the new revision keeps the receipts well typed.
LEMMA CompletedType ==
  ASSUME TypeOK, NEW o \in Ops, NEW n \in Nat, n = Len(history) + 1
  PROVE  Completed(o) \in [Requests -> ReceiptOf(Calls \cup {NoCall}, 0..n)]
<1>1. /\ Len(history) \in Nat /\ op[o] \in Handler
      /\ receipt \in [Requests -> ReceiptOf(Calls \cup {NoCall}, 0..Len(history))]
  BY TypeFacts, Zenon
<1>2. receipt \in [Requests -> ReceiptOf(Calls \cup {NoCall}, 0..n)]
  <2>1. Len(history) <= n
    BY <1>1
  <2> QED
    BY <1>1, <2>1, ReceiptsWiden
<1>3. CASE op[o].request = NoRequest
  BY <1>2, <1>3 DEF Completed
<1>4. CASE op[o].request # NoRequest
  <2> DEFINE r == op[o].request
  <2>1. r \in Requests /\ n \in 0..n
    BY <1>1, <1>4 DEF Handler
  <2>2. receipt[r] \in ReceiptOf(Calls \cup {NoCall}, 0..n)
    BY <1>2, <2>1
  <2>3. Complete(receipt[r], n) \in ReceiptOf(Calls \cup {NoCall}, 0..n)
    BY <2>1, <2>2, ReceiptType
  <2>4. Completed(o) = [receipt EXCEPT ![r] = Complete(@, n)]
    BY <1>4 DEF Completed, Revision
  <2> HIDE DEF r
  <2> QED
    BY <1>2, <2>1, <2>3, <2>4
<1> QED
  BY <1>3, <1>4

\* What the three ends of a statement are, for a handler h that goes on.
LEMMA CommitCases ==
  ASSUME NEW o \in Ops, Commit(o)
  PROVE  /\ op[o].pc = "begun" /\ announced' = announced
         /\ \/ /\ op[o].request # NoRequest
               /\ op' = [op EXCEPT ![o] =
                    [op[o] EXCEPT !.pc = "refused", !.snapshot = NoSnapshot]]
               /\ UNCHANGED groupVars /\ receipt' = receipt
            \/ /\ op' = [op EXCEPT ![o] = Idle]
               /\ UNCHANGED groupVars /\ receipt' = receipt
            \/ /\ Gate(o) /\ ActorIsAdmin(o) /\ Eligible(o) /\ Apply(o)
               /\ receipt' = Completed(o)
               /\ op' = [op EXCEPT ![o] =
                    [op[o] EXCEPT !.pc = "committed", !.snapshot = NoSnapshot,
                                  !.revision = Len(history) + 1]]
<1>1. ~Gate(o) => op[o].request # NoRequest
  BY DEF Gate
<1> QED
  BY <1>1 DEF Commit, Revision

\* The commit keeps the types.
LEMMA CommitType ==
  ASSUME TypeOK, NEW o \in Ops, Commit(o)
  PROVE  TypeOK'
<1>0. /\ op[o] \in Handler /\ Len(history) \in Nat /\ 0 \in 0..Len(history)
      /\ op[o].revision \in 0..Len(history)
  BY TypeFacts, Zenon
<1>1. op[o].pc = "begun" /\ announced' = announced
  BY CommitCases
<1>2. op[o].call \in Calls
  BY <1>1 DEF TypeOK
<1>3. CASE /\ op[o].request # NoRequest
           /\ op' = [op EXCEPT ![o] =
                [op[o] EXCEPT !.pc = "refused", !.snapshot = NoSnapshot]]
           /\ UNCHANGED groupVars /\ receipt' = receipt
  <2> DEFINE h == [op[o] EXCEPT !.pc = "refused", !.snapshot = NoSnapshot]
  <2>1. /\ h \in Handler /\ h.pc = "refused" /\ h.call = op[o].call
        /\ h.request = op[o].request /\ h.revision = op[o].revision
    BY <1>0, IdleType DEF Handler, Running
  <2>2. op' = [op EXCEPT ![o] = h]
    BY <1>3
  <2> HIDE DEF h
  <2>3. /\ h.pc # "committed" /\ h.call \in Calls /\ h.request # NoRequest
        /\ h.revision \in 0..Len(history)
    BY <1>0, <1>2, <1>3, <2>1
  <2> QED
    BY <1>1, <1>3, <2>1, <2>2, <2>3, OwnStepType
<1>4. CASE /\ op' = [op EXCEPT ![o] = Idle]
           /\ UNCHANGED groupVars /\ receipt' = receipt
  <2>1. /\ Idle.revision \in 0..Len(history)
        /\ Idle.pc \notin {"authenticated", "refused", "recorded", "replayed", "committed"}
    BY <1>0, IdleType
  <2> QED
    BY <1>1, <1>4, <2>1, IdleType, OwnStepType
<1>5. CASE /\ Apply(o) /\ receipt' = Completed(o)
           /\ op' = [op EXCEPT ![o] =
                [op[o] EXCEPT !.pc = "committed", !.snapshot = NoSnapshot,
                              !.revision = Len(history) + 1]]
  <2> DEFINE m == Len(history) + 1
             h == [op[o] EXCEPT !.pc = "committed", !.snapshot = NoSnapshot,
                                !.revision = m]
  <2>0. m \in Nat
    BY <1>0
  <2>1. /\ role' \in [Devices -> Role \cup {"NONE"}]
        /\ revoked' \subseteq Devices /\ mode' \in Mode /\ leader' \in Devices
        /\ history' \in Seq(Entry) /\ Len(history') = Len(history) + 1
    BY <1>2, <1>5, ApplyType
  <2>2. op' = [op EXCEPT ![o] = h]
    BY <1>5
  <2> HIDE DEF m
  <2>3. /\ h \in Handler /\ h.pc = "committed" /\ h.call = op[o].call
        /\ h.revision = m
    BY <1>0, <2>0, IdleType DEF Handler, Running
  <2> HIDE DEF h
  <2>4. /\ h.call \in Calls /\ h.revision # 0 /\ h.revision \in 0..Len(history')
        /\ h.pc \notin {"authenticated", "refused", "recorded", "replayed"}
        /\ Len(history) <= Len(history') /\ Len(history') \in Nat
    BY <1>0, <1>2, <2>1, <2>3 DEF m
  <2>5. receipt' \in [Requests -> ReceiptOf(Calls \cup {NoCall}, 0..Len(history'))]
    BY <1>5, <2>1, <2>4, CompletedType
  <2>6. announced' \subseteq 1..Len(history')
    <3>1. announced \subseteq 1..Len(history)
      BY TypeFacts, Zenon
    <3>2. 1..Len(history) \subseteq 1..Len(history')
      BY <1>0, <2>4
    <3> QED
      BY <1>1, <3>1, <3>2
  <2> QED
    BY <2>1, <2>2, <2>3, <2>4, <2>5, <2>6, HandlerStepType
<1> QED
  BY <1>3, <1>4, <1>5, CommitCases

\* A new membership keeps the types.
LEMMA PairType ==
  ASSUME TypeOK, NEW d \in Devices, NEW r \in Role, Pair(d, r)
  PROVE  /\ TypeOK'
         /\ Len(history) \in Nat /\ Len(history') = Len(history) + 1
         /\ \A i \in 1..Len(history) : history'[i] = history[i]
         /\ history'[Len(history) + 1].request = NoRequest
<1> DEFINE e == [mode |-> mode, leader |-> leader, request |-> NoRequest]
<1>0. /\ Len(history) \in Nat /\ history \in Seq(Entry)
      /\ receipt \in [Requests -> ReceiptOf(Calls \cup {NoCall}, 0..Len(history))]
      /\ announced \subseteq 1..Len(history)
      /\ \A o \in Ops : op[o].revision \in 0..Len(history)
  BY TypeFacts, Zenon
<1>1. e \in Entry /\ e.request = NoRequest
  BY TypeFacts DEF Entry
<1>2. /\ role' = [role EXCEPT ![d] = r] /\ history' = Append(history, e)
      /\ revoked' = revoked /\ mode' = mode /\ leader' = leader
      /\ receipt' = receipt /\ announced' = announced /\ op' = op
  BY DEF Pair
<1> HIDE DEF e
<1>3. /\ history' \in Seq(Entry) /\ Len(history') = Len(history) + 1
      /\ \A i \in 1..Len(history) : history'[i] = history[i]
      /\ history'[Len(history) + 1].request = NoRequest
  BY <1>0, <1>1, <1>2, AppendKeeps
<1>4. Len(history') \in Nat /\ Len(history) <= Len(history')
  BY <1>0, <1>3
<1>5. receipt' \in [Requests -> ReceiptOf(Calls \cup {NoCall}, 0..Len(history'))]
  BY <1>0, <1>2, <1>4, ReceiptsWiden
<1>6. announced' \subseteq 1..Len(history')
  BY <1>0, <1>2, <1>4
<1>7. \A o \in Ops : op'[o].revision \in 0..Len(history')
  BY <1>0, <1>2, <1>4
<1>8. role' \in [Devices -> Role \cup {"NONE"}]
  BY <1>2 DEF TypeOK
<1>9. TypeOK'
  BY <1>2, <1>3, <1>5, <1>6, <1>7, <1>8 DEF TypeOK, Revision
<1> QED
  BY <1>0, <1>3, <1>9

\* Every step keeps the types.
LEMMA StepType ==
  ASSUME TypeOK, [Next]_vars
  PROVE  TypeOK'
<1>1. ASSUME NEW o \in Ops, Handle(o) PROVE TypeOK'
  BY <1>1, HandleType, CommitType DEF Handle
<1>2. ASSUME NEW d \in Devices, NEW r \in Role, Pair(d, r) PROVE TypeOK'
  BY <1>2, PairType
<1>3. CASE UNCHANGED vars
  BY <1>3 DEF vars, TypeOK, Revision
<1> QED
  BY <1>1, <1>2, <1>3 DEF Next

\* Every reachable state is well typed: neither a receipt nor an answer names a
\* revision the group has not reached.
THEOREM TypeCorrect == Spec => []TypeOK
BY InitType, StepType, PTL DEF Spec

-----------------------------------------------------------------------------
(* What a step may do to the group.                                        *)

\* A statement that goes through, with what it had to check.
Passed(o) ==
  /\ op[o].pc = "begun" /\ op'[o].pc = "committed"
  /\ Gate(o) /\ ActorIsAdmin(o) /\ Eligible(o) /\ Apply(o)

\* Only a statement that goes through and a new membership touch the group.
LEMMA GroupWriters ==
  ASSUME TypeOK, [Next]_vars
  PROVE  \/ UNCHANGED groupVars
         \/ \E o \in Ops : op[o].call \in Calls /\ Passed(o)
         \/ \E d \in Devices, r \in Role : Pair(d, r)
<1>1. ASSUME NEW o \in Ops, Handle(o)
      PROVE  UNCHANGED groupVars \/ (op[o].call \in Calls /\ Passed(o))
  <2>1. CASE Commit(o)
    <3>1. CASE UNCHANGED groupVars
      BY <3>1
    <3>2. CASE ~UNCHANGED groupVars
      <4>1. /\ op[o].pc = "begun"
            /\ Gate(o) /\ ActorIsAdmin(o) /\ Eligible(o) /\ Apply(o)
            /\ op' = [op EXCEPT ![o] =
                 [op[o] EXCEPT !.pc = "committed", !.snapshot = NoSnapshot,
                               !.revision = Len(history) + 1]]
        BY <2>1, <3>2, CommitCases
      <4>2. op'[o].pc = "committed" /\ op[o].call \in Calls
        BY <4>1 DEF TypeOK, Handler
      <4> QED
        BY <4>1, <4>2 DEF Passed
    <3> QED
      BY <3>1, <3>2
  <2>2. CASE \E d \in Devices : \E c \in CallsOf(d), r \in Requests \cup {NoRequest} :
                Authenticate(o, c, r)
    BY <2>2 DEF Authenticate
  <2>3. CASE ClaimReceipt(o) \/ Begin(o) \/ Announce(o) \/ ResolveRefused(o)
             \/ ReadGroup(o) \/ Die(o) \/ Finish(o)
    BY <2>3 DEF ClaimReceipt, Begin, Announce, ResolveRefused, ReadGroup, Die, Finish
  <2> QED
    BY <1>1, <2>1, <2>2, <2>3 DEF Handle
<1>2. UNCHANGED vars => UNCHANGED groupVars
  BY DEF vars, groupVars
<1> QED
  BY <1>1, <1>2 DEF Next

\* What the target of a statement that goes through is.
LEMMA TargetOfPassed ==
  ASSUME NEW o \in Ops, op[o].call \in Calls, Eligible(o)
  PROVE  /\ op[o].call.name \in {"setLeader", "setDeviceRole", "revokeDevice"} =>
              op[o].call.target \in Members
         /\ op[o].call.name = "revokeDevice" => ~TargetIsLeader(o)
         /\ op[o].call.name = "setDeviceRole" /\ op[o].call.arg # "ADMIN" =>
              ~TargetIsLeader(o)
<1>1. CASE op[o].call.name = "setLeader"
  BY <1>1 DEF Eligible, SetLeaderAllowed, TargetActive
<1>2. CASE op[o].call.name = "setDeviceRole"
  BY <1>2 DEF Eligible, SetDeviceRoleAllowed, TargetActive
<1>3. CASE op[o].call.name = "revokeDevice"
  BY <1>3 DEF Eligible, RevokeDeviceAllowed, TargetActive
<1> QED
  BY <1>1, <1>2, <1>3

\* Whoever changes the group is an administrator when the change commits.
THEOREM AdministratorsAct == Spec => AdminActs
<1>1. TypeOK /\ [Next]_vars =>
        [(\/ <<revoked, mode, leader>>' # <<revoked, mode, leader>>
          \/ \E d \in Members : role'[d] # role[d]) =>
           \E o \in Ops : op[o].pc = "begun" /\ op'[o].pc = "committed"
                          /\ op[o].call.actor \in Admins]_vars
  <2> SUFFICES ASSUME TypeOK, [Next]_vars,
                      \/ <<revoked, mode, leader>>' # <<revoked, mode, leader>>
                      \/ \E d \in Members : role'[d] # role[d]
               PROVE  \E o \in Ops : op[o].pc = "begun" /\ op'[o].pc = "committed"
                                     /\ op[o].call.actor \in Admins
    OBVIOUS
  <2>1. CASE UNCHANGED groupVars
    BY <2>1 DEF groupVars
  <2>2. ASSUME NEW o \in Ops, Passed(o)
        PROVE  op[o].pc = "begun" /\ op'[o].pc = "committed" /\ op[o].call.actor \in Admins
    BY <2>2 DEF Passed, ActorIsAdmin
  <2>3. ASSUME NEW d \in Devices, NEW r \in Role, Pair(d, r) PROVE FALSE
    <3>1. /\ role[d] = "NONE" /\ role' = [role EXCEPT ![d] = r]
          /\ revoked' = revoked /\ mode' = mode /\ leader' = leader
      BY <2>3 DEF Pair
    <3>2. \A e \in Members : role'[e] = role[e]
      BY <3>1 DEF Members, TypeOK
    <3> QED
      BY <3>1, <3>2
  <2> QED
    BY <2>1, <2>2, <2>3, GroupWriters
<1> QED
  BY <1>1, TypeCorrect, PTL DEF Spec, AdminActs

\* Under leader authority the leader is neither revoked nor demoted while the
\* leadership and the mode stay.
THEOREM LeaderStays == Spec => LeaderKept
<1>1. TypeOK /\ [Next]_vars =>
        [(mode = "LEADER" /\ mode' = mode /\ leader' = leader) =>
           /\ leader \notin revoked => leader \notin revoked'
           /\ role[leader] = "ADMIN" => role'[leader] = "ADMIN"]_vars
  <2> SUFFICES ASSUME TypeOK, [Next]_vars,
                      mode = "LEADER", mode' = mode, leader' = leader
               PROVE  /\ leader \notin revoked => leader \notin revoked'
                      /\ role[leader] = "ADMIN" => role'[leader] = "ADMIN"
    OBVIOUS
  <2>0. leader \in Devices /\ role \in [Devices -> Role \cup {"NONE"}]
    BY TypeFacts
  <2>1. CASE UNCHANGED groupVars
    BY <2>1 DEF groupVars
  <2>2. ASSUME NEW o \in Ops, op[o].call \in Calls, Passed(o)
        PROVE  /\ leader \notin revoked => leader \notin revoked'
               /\ role[leader] = "ADMIN" => role'[leader] = "ADMIN"
    <3> DEFINE c == op[o].call
    <3>1. Eligible(o) /\ Apply(o)
      BY <2>2 DEF Passed
    <3>2. c.name = "revokeDevice" => c.target # leader
      BY <2>2, <3>1, TargetOfPassed DEF TargetIsLeader
    <3>3. c.name = "setDeviceRole" /\ c.arg # "ADMIN" => c.target # leader
      BY <2>2, <3>1, TargetOfPassed DEF TargetIsLeader
    <3>4. revoked' = IF c.name = "revokeDevice" THEN revoked \cup {c.target} ELSE revoked
      BY <3>1 DEF Apply
    <3>5. role' = IF c.name = "setDeviceRole" THEN [role EXCEPT ![c.target] = c.arg] ELSE role
      BY <3>1 DEF Apply
    <3> HIDE DEF c
    <3> QED
      BY <2>0, <3>2, <3>3, <3>4, <3>5
  <2>3. ASSUME NEW d \in Devices, NEW r \in Role, Pair(d, r)
        PROVE  /\ leader \notin revoked => leader \notin revoked'
               /\ role[leader] = "ADMIN" => role'[leader] = "ADMIN"
    BY <2>0, <2>3 DEF Pair
  <2> QED
    BY <2>1, <2>2, <2>3, GroupWriters
<1> QED
  BY <1>1, TypeCorrect, PTL DEF Spec, LeaderKept

\* A statement that goes through and takes an administrator's role or membership
\* counted more than one administrator.
LEMMA AdminTakenFrom ==
  ASSUME NEW o \in Ops, op[o].call \in Calls, Eligible(o),
         op[o].snapshot.admins = 1
  PROVE  /\ op[o].call.name = "revokeDevice" => role[op[o].call.target] # "ADMIN"
         /\ op[o].call.name = "setDeviceRole" /\ op[o].call.arg # "ADMIN" =>
              role[op[o].call.target] # "ADMIN"
<1>1. CASE op[o].call.name = "setDeviceRole"
  BY <1>1 DEF Eligible, SetDeviceRoleAllowed, TargetIsLastAdmin
<1>2. CASE op[o].call.name = "revokeDevice"
  BY <1>2 DEF Eligible, RevokeDeviceAllowed, TargetIsLastAdmin
<1> QED
  BY <1>1, <1>2

\* A group loses its last administrator only to a statement whose count of them
\* was stale: a step writes one membership, so the one it takes was the only one
\* left, and a current count of one refuses.
THEOREM LastAdminKept == Spec => LastAdmin
<1>1. TypeOK /\ [Next]_vars =>
        [(Admins # {} /\ Admins' = {}) =>
           \E o \in Ops : /\ op[o].pc = "begun" /\ op'[o].pc = "committed"
                          /\ op[o].snapshot.admins # Cardinality(Admins)]_vars
  <2> SUFFICES ASSUME TypeOK, [Next]_vars, Admins # {}, Admins' = {}
               PROVE  \E o \in Ops : /\ op[o].pc = "begun" /\ op'[o].pc = "committed"
                                     /\ op[o].snapshot.admins # Cardinality(Admins)
    OBVIOUS
  <2>0. role \in [Devices -> Role \cup {"NONE"}]
    BY TypeFacts
  <2>1. PICK t \in Devices : t \in Admins
    BY DEF Admins, Members
  <2>2. role[t] = "ADMIN" /\ t \notin revoked
    BY <2>1 DEF Admins, Members
  <2>3. role'[t] # "ADMIN" \/ t \in revoked'
    BY <2>1 DEF Admins, Members
  <2>4. ASSUME UNCHANGED groupVars PROVE FALSE
    BY <2>2, <2>3, <2>4 DEF groupVars
  <2>5. ASSUME NEW o \in Ops, op[o].call \in Calls, Passed(o)
        PROVE  op[o].snapshot.admins # Cardinality(Admins)
    <3> DEFINE c == op[o].call
    <3>1. Eligible(o) /\ Apply(o)
      BY <2>5 DEF Passed
    <3>2. revoked' = IF c.name = "revokeDevice" THEN revoked \cup {c.target} ELSE revoked
      BY <3>1 DEF Apply
    <3>3. role' = IF c.name = "setDeviceRole" THEN [role EXCEPT ![c.target] = c.arg] ELSE role
      BY <3>1 DEF Apply
    <3>4. ASSUME NEW d \in Devices, d \in Admins PROVE d = c.target
      <4>1. role[d] = "ADMIN" /\ d \notin revoked
        BY <3>4 DEF Admins, Members
      <4>2. role'[d] # "ADMIN" \/ d \in revoked'
        BY <3>4 DEF Admins, Members
      <4> HIDE DEF c
      <4> QED
        BY <2>0, <3>2, <3>3, <4>1, <4>2
    <3>5. t = c.target
      BY <2>1, <3>4
    <3>6. Admins = {t}
      BY <2>1, <3>4, <3>5 DEF Admins, Members
    <3>7. Cardinality(Admins) = 1
      BY <3>6, FS_Singleton
    <3>8. SUFFICES ASSUME op[o].snapshot.admins = 1 PROVE FALSE
      BY <3>7
    <3>9. /\ c.name # "revokeDevice"
          /\ c.name = "setDeviceRole" => c.arg = "ADMIN"
      BY <2>2, <2>5, <3>1, <3>5, <3>8, AdminTakenFrom
    <3> HIDE DEF c
    <3> QED
      BY <2>0, <2>2, <2>3, <3>2, <3>3, <3>9
  <2>6. ASSUME NEW d \in Devices, NEW r \in Role, Pair(d, r) PROVE FALSE
    BY <2>0, <2>2, <2>3, <2>6 DEF Pair
  <2> QED
    BY <2>4, <2>5, <2>6, GroupWriters DEF Passed
<1> QED
  BY <1>1, TypeCorrect, PTL DEF Spec, LastAdmin

\* Only members were ever revoked.  RevokedIsFinal needs it: without it a new
\* pairing could give a revoked device a role.
RevokedWerePaired == \A d \in revoked : role[d] # "NONE"

\* A step keeps a revoked device revoked, with its role, and gives it nothing.
LEMMA RevocationStep ==
  ASSUME TypeOK, RevokedWerePaired, [Next]_vars
  PROVE  /\ RevokedWerePaired'
         /\ \A d \in revoked : /\ d \in revoked'
                               /\ role'[d] = role[d]
                               /\ leader' = d => leader = d
<1>0. revoked \subseteq Devices /\ role \in [Devices -> Role \cup {"NONE"}]
  BY TypeFacts
<1>1. CASE UNCHANGED groupVars
  BY <1>1 DEF groupVars, RevokedWerePaired
<1>2. ASSUME NEW o \in Ops, op[o].call \in Calls, Passed(o)
      PROVE  /\ RevokedWerePaired'
             /\ \A d \in revoked : /\ d \in revoked'
                                   /\ role'[d] = role[d]
                                   /\ leader' = d => leader = d
  <2> DEFINE c == op[o].call
  <2>1. Eligible(o) /\ Apply(o)
    BY <1>2 DEF Passed
  <2>2. c.name \in {"setLeader", "setDeviceRole", "revokeDevice"} =>
          c.target \in Devices /\ c.target \notin revoked /\ role[c.target] # "NONE"
    BY <1>2, <2>1, TargetOfPassed DEF Members
  <2>3. c.name = "setDeviceRole" => c.arg # "NONE"
    BY <1>2, CallType DEF Role
  <2>4. revoked' = IF c.name = "revokeDevice" THEN revoked \cup {c.target} ELSE revoked
    BY <2>1 DEF Apply
  <2>5. role' = IF c.name = "setDeviceRole" THEN [role EXCEPT ![c.target] = c.arg] ELSE role
    BY <2>1 DEF Apply
  <2>6. leader' = IF c.name = "setLeader" THEN c.target ELSE leader
    BY <2>1 DEF Apply
  <2> HIDE DEF c
  <2>7. \A d \in revoked : d \in revoked' /\ role'[d] = role[d]
    BY <1>0, <2>2, <2>4, <2>5
  <2>8. \A d \in revoked : leader' = d => leader = d
    BY <2>2, <2>6
  <2>9. \A d \in revoked' : role'[d] # "NONE"
    BY <1>0, <2>2, <2>3, <2>4, <2>5 DEF RevokedWerePaired
  <2> QED
    BY <2>7, <2>8, <2>9 DEF RevokedWerePaired
<1>3. ASSUME NEW d \in Devices, NEW r \in Role, Pair(d, r)
      PROVE  /\ RevokedWerePaired'
             /\ \A e \in revoked : /\ e \in revoked'
                                   /\ role'[e] = role[e]
                                   /\ leader' = e => leader = e
  <2>1. /\ role[d] = "NONE" /\ role' = [role EXCEPT ![d] = r]
        /\ revoked' = revoked /\ leader' = leader
    BY <1>3 DEF Pair
  <2>2. d \notin revoked
    BY <2>1 DEF RevokedWerePaired
  <2> QED
    BY <1>0, <2>1, <2>2 DEF RevokedWerePaired
<1> QED
  BY <1>1, <1>2, <1>3, GroupWriters

\* Revocation is final, whatever was waiting for the group's lock.
THEOREM RevocationFinal == Spec => RevokedIsFinal
<1>1. Init => TypeOK /\ RevokedWerePaired
  BY InitType DEF Init, RevokedWerePaired
<1>2. TypeOK /\ RevokedWerePaired /\ [Next]_vars => (TypeOK /\ RevokedWerePaired)'
  BY StepType, RevocationStep
<1>3. TypeOK /\ RevokedWerePaired /\ [Next]_vars =>
        [\A d \in revoked : /\ d \in revoked'
                            /\ role'[d] = role[d]
                            /\ leader' = d => leader = d]_vars
  BY RevocationStep
<1> QED
  BY <1>1, <1>2, <1>3, PTL DEF Spec, RevokedIsFinal

-----------------------------------------------------------------------------
(* Receipts and revisions.                                                 *)

\* A completed receipt names the revision its request made, and every revision
\* a request made is named by its receipt.
ReceiptsMatchHistory ==
  /\ \A r \in Requests : receipt[r].status = "completed" =>
       receipt[r].outcome \in 1..Len(history) /\ history[receipt[r].outcome].request = r
  /\ \A i \in 1..Len(history) : history[i].request # NoRequest =>
       /\ receipt[history[i].request].status = "completed"
       /\ receipt[history[i].request].outcome = i

\* The inductive invariant.  OncePerRequest alone is not one: nothing in it keeps
\* a statement from repeating what a receipt already records; and a retry takes
\* its answer from the receipt, so that has to be right first.
ReplayInv == TypeOK /\ ReceiptsMatchHistory /\ ReplayAnswersOwn

\* Every revision's request is one of the requests, or none.
LEMMA RequestOfRevision ==
  ASSUME TypeOK
  PROVE  \A i \in 1..Len(history) : history[i].request \in Requests \cup {NoRequest}
<1> SUFFICES ASSUME NEW i \in 1..Len(history)
             PROVE  history[i].request \in Requests \cup {NoRequest}
  OBVIOUS
<1>1. history[i] \in Entry
  BY TypeFacts
<1> QED
  BY <1>1 DEF Entry

\* Steps that leave the history alone and complete or reopen no receipt keep the
\* agreement.
LEMMA MatchKept ==
  ASSUME TypeOK, ReceiptsMatchHistory, history' = history,
         \A r \in Requests :
           /\ receipt'[r].status = "completed" <=> receipt[r].status = "completed"
           /\ receipt[r].status = "completed" => receipt'[r].outcome = receipt[r].outcome
  PROVE  ReceiptsMatchHistory'
BY RequestOfRevision DEF ReceiptsMatchHistory

\* One more revision, for nobody's request or for one whose receipt was open.
LEMMA GrownMatches ==
  ASSUME TypeOK, ReceiptsMatchHistory, NEW q \in Requests \cup {NoRequest},
         q # NoRequest => GateOpen(receipt[q]),
         receipt' = IF q = NoRequest THEN receipt
                    ELSE [receipt EXCEPT ![q] = Complete(@, Len(history) + 1)],
         Len(history') = Len(history) + 1,
         \A i \in 1..Len(history) : history'[i] = history[i],
         history'[Len(history) + 1].request = q
  PROVE  ReceiptsMatchHistory'
<1>1. /\ Len(history) \in Nat
      /\ receipt \in [Requests -> ReceiptOf(Calls \cup {NoCall}, 0..Len(history))]
  BY TypeFacts, Zenon
<1>2. \A r \in Requests : r # q => receipt'[r] = receipt[r]
  BY <1>1
<1>3. q # NoRequest => /\ receipt[q].status # "completed"
                       /\ receipt'[q].status = "completed"
                       /\ receipt'[q].outcome = Len(history) + 1
  <2> SUFFICES ASSUME q # NoRequest
               PROVE  /\ receipt[q].status # "completed"
                      /\ receipt'[q].status = "completed"
                      /\ receipt'[q].outcome = Len(history) + 1
    OBVIOUS
  <2>1. q \in Requests /\ receipt[q] \in ReceiptOf(Calls \cup {NoCall}, 0..Len(history))
    BY <1>1
  <2> DEFINE n == Len(history) + 1
  <2>2. receipt'[q] = Complete(receipt[q], n)
    BY <1>1, <2>1
  <2> HIDE DEF n
  <2>3. receipt'[q].status = "completed" /\ receipt'[q].outcome = n
    <3> DEFINE t == receipt[q]
    <3>1. t \in ReceiptOf(Calls \cup {NoCall}, 0..Len(history))
      BY <2>1
    <3>2. receipt'[q] = [t EXCEPT !.status = "completed", !.outcome = n]
      BY <2>2 DEF Complete
    <3> HIDE DEF t
    <3> QED
      BY <3>1, <3>2 DEF ReceiptOf
  <2>4. receipt[q].status # "completed"
    BY DEF GateOpen
  <2> QED
    BY <2>3, <2>4 DEF n
<1>4. ASSUME NEW r \in Requests, receipt'[r].status = "completed"
      PROVE  /\ receipt'[r].outcome \in 1..Len(history')
             /\ history'[receipt'[r].outcome].request = r
  <2>1. CASE r = q
    <3>1. q # NoRequest
      BY <2>1, AdministrationAssumption
    <3> QED
      BY <1>1, <1>3, <2>1, <3>1
  <2>2. CASE r # q
    <3>1. receipt'[r] = receipt[r]
      BY <1>2, <2>2
    <3>2. /\ receipt[r].outcome \in 1..Len(history)
          /\ history[receipt[r].outcome].request = r
      BY <1>4, <3>1 DEF ReceiptsMatchHistory
    <3> QED
      BY <1>1, <3>1, <3>2
  <2> QED
    BY <2>1, <2>2
<1>5. ASSUME NEW i \in 1..Len(history'), history'[i].request # NoRequest
      PROVE  /\ receipt'[history'[i].request].status = "completed"
             /\ receipt'[history'[i].request].outcome = i
  <2>1. CASE i = Len(history) + 1
    BY <1>3, <1>5, <2>1
  <2>2. CASE i \in 1..Len(history)
    <3>1. history'[i] = history[i] /\ history[i].request \in Requests
      BY <1>5, <2>2, RequestOfRevision
    <3>2. /\ receipt[history[i].request].status = "completed"
          /\ receipt[history[i].request].outcome = i
      BY <1>5, <2>2, <3>1 DEF ReceiptsMatchHistory
    <3>3. history[i].request # q
      BY <1>3, <1>5, <3>1, <3>2
    <3> QED
      BY <1>2, <3>1, <3>2, <3>3
  <2>3. i \in 1..(Len(history) + 1)
    OBVIOUS
  <2>4. i = Len(history) + 1 \/ i \in 1..Len(history)
    <3> HIDE <1>5
    <3> QED
      BY <1>1, <2>3
  <2> QED
    BY <2>1, <2>2, <2>4
<1> QED
  BY <1>4, <1>5 DEF ReceiptsMatchHistory

\* A retry that took its answer from the receipt keeps a right answer: its
\* revision stays in the history.
LEMMA AnswersKept ==
  ASSUME TypeOK, ReplayAnswersOwn, NEW o \in Ops, NEW h,
         op' = [op EXCEPT ![o] = h],
         Len(history') \in Nat, Len(history) <= Len(history'),
         \A i \in 1..Len(history) : history'[i] = history[i],
         h.pc \in {"recorded", "replayed"} =>
           h.revision \in 1..Len(history) /\ history[h.revision].request = h.request
  PROVE  ReplayAnswersOwn'
<1>0. Len(history) \in Nat /\ op \in [Ops -> Handler]
  BY TypeFacts
<1>1. ASSUME NEW p \in Ops, op'[p].pc \in {"recorded", "replayed"}
      PROVE  /\ op'[p].revision \in 1..Len(history')
             /\ history'[op'[p].revision].request = op'[p].request
  <2>1. op'[p].revision \in 1..Len(history) /\ history[op'[p].revision].request = op'[p].request
    <3>1. CASE p = o
      BY <1>0, <1>1, <3>1
    <3>2. CASE p # o
      BY <1>0, <1>1, <3>2 DEF ReplayAnswersOwn, Revision
    <3> QED
      BY <3>1, <3>2
  <2> QED
    BY <1>0, <2>1
<1> QED
  BY <1>1 DEF ReplayAnswersOwn, Revision

\* Every step keeps the receipts and the answers right.
LEMMA HandleReplay ==
  ASSUME ReplayInv, NEW o \in Ops, Handle(o)
  PROVE  ReceiptsMatchHistory' /\ ReplayAnswersOwn'
<1>0. /\ TypeOK /\ ReceiptsMatchHistory /\ ReplayAnswersOwn
      /\ op[o] \in Handler /\ Len(history) \in Nat
      /\ receipt \in [Requests -> ReceiptOf(Calls \cup {NoCall}, 0..Len(history))]
  BY TypeFacts, Zenon DEF ReplayInv
<1>1. ASSUME NEW h, op' = [op EXCEPT ![o] = h], UNCHANGED groupVars, receipt' = receipt,
             h.pc \in {"recorded", "replayed"} =>
               h.revision \in 1..Len(history) /\ history[h.revision].request = h.request
      PROVE  ReceiptsMatchHistory' /\ ReplayAnswersOwn'
  <2>1. history' = history
    BY <1>1 DEF groupVars
  <2>2. ReceiptsMatchHistory'
    BY <1>0, <1>1, <2>1, MatchKept
  <2>3. /\ Len(history') \in Nat /\ Len(history) <= Len(history')
        /\ \A i \in 1..Len(history) : history'[i] = history[i]
    BY <1>0, <2>1
  <2>4. ReplayAnswersOwn'
    BY <1>0, <1>1, <2>3, AnswersKept
  <2> QED
    BY <2>2, <2>4
<1>2. ASSUME NEW d \in Devices, NEW c \in CallsOf(d),
             NEW r \in Requests \cup {NoRequest}, Authenticate(o, c, r)
      PROVE  ReceiptsMatchHistory' /\ ReplayAnswersOwn'
  <2> DEFINE h == [Idle EXCEPT !.pc = IF r = NoRequest THEN "claimed" ELSE "authenticated",
                               !.call = c, !.request = r]
  <2>1. h.pc \notin {"recorded", "replayed"}
    BY IdleType DEF Handler
  <2>2. op' = [op EXCEPT ![o] = h] /\ UNCHANGED groupVars /\ receipt' = receipt
    BY <1>2 DEF Authenticate
  <2> HIDE DEF h
  <2> QED
    BY <1>1, <2>1, <2>2
<1>3. CASE ClaimReceipt(o)
  <2> DEFINE r == op[o].request
  <2>1. r \in Requests
    BY <1>0, <1>3 DEF ClaimReceipt, TypeOK, Handler
  <2>2. PICK pc \in {"refused", "claimed"} : op' = [op EXCEPT ![o].pc = pc]
    BY <1>3 DEF ClaimReceipt
  <2> DEFINE h == [op[o] EXCEPT !.pc = pc]
  <2>3. op' = [op EXCEPT ![o] = h] /\ h.pc \notin {"recorded", "replayed"}
    BY <1>0, <2>2 DEF TypeOK, Handler
  <2> HIDE DEF h
  <2>4. history' = history
    BY <1>3 DEF ClaimReceipt, groupVars
  <2>5. \/ receipt' = receipt
        \/ /\ receipt[r].status # "completed"
           /\ receipt' = [receipt EXCEPT ![r] = Claim(@, op[o].call)]
    BY <1>3 DEF ClaimReceipt, ClaimRefused
  <2>6. receipt[r] \in ReceiptOf(Calls \cup {NoCall}, 0..Len(history))
    BY <1>0, <2>1
  <2>7. Claim(receipt[r], op[o].call).status = "claimed"
    BY <2>6 DEF Claim, ReceiptOf
  <2> HIDE DEF r
  <2>8. \A s \in Requests :
           /\ receipt'[s].status = "completed" <=> receipt[s].status = "completed"
           /\ receipt[s].status = "completed" => receipt'[s].outcome = receipt[s].outcome
    BY <1>0, <2>1, <2>5, <2>7
  <2>9. ReceiptsMatchHistory'
    BY <1>0, <2>4, <2>8, MatchKept
  <2>10. /\ Len(history') \in Nat /\ Len(history) <= Len(history')
         /\ \A i \in 1..Len(history) : history'[i] = history[i]
    BY <1>0, <2>4
  <2>11. ReplayAnswersOwn'
    BY <1>0, <2>3, <2>10, AnswersKept
  <2> QED
    BY <2>9, <2>11
<1>4. CASE Begin(o)
  <2> DEFINE h == [op[o] EXCEPT !.pc = "begun",
                                !.snapshot = [members |-> Members,
                                              admins |-> Cardinality(Admins)]]
  <2>1. op' = [op EXCEPT ![o] = h] /\ UNCHANGED groupVars /\ receipt' = receipt
    BY <1>4 DEF Begin
  <2>2. h.pc \notin {"recorded", "replayed"}
    BY <1>0 DEF Handler
  <2> HIDE DEF h
  <2> QED
    BY <1>1, <2>1, <2>2
<1>5. CASE Commit(o)
  <2>1. CASE /\ op' = [op EXCEPT ![o] =
                  [op[o] EXCEPT !.pc = "refused", !.snapshot = NoSnapshot]]
             /\ UNCHANGED groupVars /\ receipt' = receipt
    <3>1. [op[o] EXCEPT !.pc = "refused", !.snapshot = NoSnapshot].pc
             \notin {"recorded", "replayed"}
      BY <1>0 DEF Handler
    <3> QED
      BY <1>1, <2>1, <3>1
  <2>2. CASE /\ op' = [op EXCEPT ![o] = Idle]
             /\ UNCHANGED groupVars /\ receipt' = receipt
    BY <1>1, <2>2, IdleType
  <2>3. CASE /\ Gate(o) /\ Apply(o) /\ receipt' = Completed(o)
             /\ op' = [op EXCEPT ![o] =
                  [op[o] EXCEPT !.pc = "committed", !.snapshot = NoSnapshot,
                                !.revision = Len(history) + 1]]
    <3> DEFINE q == op[o].request
               h == [op[o] EXCEPT !.pc = "committed", !.snapshot = NoSnapshot,
                                  !.revision = Len(history) + 1]
    <3>1. op[o].call \in Calls /\ q \in Requests \cup {NoRequest}
      BY <1>0, <1>5, CommitCases DEF TypeOK, Handler
    <3>2. /\ Len(history') = Len(history) + 1
          /\ \A i \in 1..Len(history) : history'[i] = history[i]
          /\ history'[Len(history) + 1].request = q
      BY <1>0, <2>3, <3>1, ApplyType
    <3>3. receipt' = IF q = NoRequest THEN receipt
                     ELSE [receipt EXCEPT ![q] = Complete(@, Len(history) + 1)]
      BY <2>3 DEF Completed, Revision
    <3>4. q # NoRequest => GateOpen(receipt[q])
      BY <2>3 DEF Gate
    <3>5. op' = [op EXCEPT ![o] = h] /\ h.pc \notin {"recorded", "replayed"}
      BY <1>0, <2>3 DEF Handler
    <3>6. Len(history') \in Nat /\ Len(history) <= Len(history')
      BY <1>0, <3>2
    <3> HIDE DEF h, q
    <3>7. ReceiptsMatchHistory'
      BY <1>0, <3>1, <3>2, <3>3, <3>4, GrownMatches
    <3>8. ReplayAnswersOwn'
      BY <1>0, <3>2, <3>5, <3>6, AnswersKept
    <3> QED
      BY <3>7, <3>8
  <2> QED
    BY <1>5, <2>1, <2>2, <2>3, CommitCases
<1>6. CASE Announce(o) \/ Die(o) \/ Finish(o)
  <2>1. op' = [op EXCEPT ![o] = Idle] /\ UNCHANGED groupVars /\ receipt' = receipt
    BY <1>6 DEF Announce, Die, Finish
  <2> QED
    BY <1>1, <2>1, IdleType
<1>7. CASE ResolveRefused(o)
  <2> DEFINE r == op[o].request
             h == [op[o] EXCEPT !.pc = "recorded", !.revision = receipt[r].outcome]
  <2>1. r \in Requests /\ UNCHANGED groupVars /\ receipt' = receipt
    BY <1>0, <1>7 DEF ResolveRefused, TypeOK, Handler
  <2>2. CASE op' = [op EXCEPT ![o] = Idle]
    BY <1>1, <2>1, <2>2, IdleType
  <2>3. CASE /\ Resolve(receipt[r], op[o].call) = "recorded"
             /\ op' = [op EXCEPT ![o] = h]
    <3>1. receipt[r].status = "completed"
      BY <2>3 DEF Resolve
    <3>2. /\ receipt[r].outcome \in 1..Len(history)
          /\ history[receipt[r].outcome].request = r
      BY <1>0, <2>1, <3>1 DEF ReceiptsMatchHistory
    <3>3. h.revision = receipt[r].outcome /\ h.request = r
      BY <1>0 DEF Handler
    <3> HIDE DEF h, r
    <3> QED
      BY <1>1, <2>1, <2>3, <3>2, <3>3
  <2> QED
    BY <1>7, <2>2, <2>3 DEF ResolveRefused
<1>8. CASE ReadGroup(o)
  <2> DEFINE h == [op[o] EXCEPT !.pc = "replayed",
                                !.answer = [mode |-> mode, leader |-> leader]]
  <2>1. /\ op[o].pc = "recorded" /\ UNCHANGED groupVars /\ receipt' = receipt
        /\ op' = [op EXCEPT ![o] = h]
    BY <1>8 DEF ReadGroup
  <2>2. h.revision = op[o].revision /\ h.request = op[o].request
    BY <1>0 DEF Handler
  <2>3. op[o].revision \in 1..Len(history) /\ history[op[o].revision].request = op[o].request
    BY <1>0, <2>1 DEF ReplayAnswersOwn, Revision
  <2> HIDE DEF h
  <2> QED
    BY <1>1, <2>1, <2>2, <2>3
<1> QED
  BY <1>2, <1>3, <1>4, <1>5, <1>6, <1>7, <1>8 DEF Handle

\* The inductive invariant is one.
LEMMA ReplayInvariant == Spec => []ReplayInv
<1>1. Init => ReplayInv
  <2> SUFFICES ASSUME Init PROVE ReceiptsMatchHistory /\ ReplayAnswersOwn
    BY InitType DEF ReplayInv
  <2>1. \A r \in Requests : receipt[r].status = "absent"
    BY DEF Init, Absent
  <2>2. Len(history) = 1 /\ history[1].request = NoRequest
    BY DEF Init
  <2>3. \A o \in Ops : op[o].pc = "idle"
    BY IdleType DEF Init
  <2>4. ReceiptsMatchHistory
    BY <2>1, <2>2 DEF ReceiptsMatchHistory
  <2> QED
    BY <2>3, <2>4 DEF ReplayAnswersOwn
<1>2. ReplayInv /\ [Next]_vars => ReplayInv'
  <2> SUFFICES ASSUME ReplayInv, [Next]_vars
               PROVE  ReceiptsMatchHistory' /\ ReplayAnswersOwn'
    BY StepType DEF ReplayInv
  <2>0. TypeOK /\ ReceiptsMatchHistory /\ ReplayAnswersOwn
    BY DEF ReplayInv
  <2>1. ASSUME NEW o \in Ops, Handle(o)
        PROVE  ReceiptsMatchHistory' /\ ReplayAnswersOwn'
    BY <2>1, HandleReplay
  <2>2. ASSUME NEW d \in Devices, NEW r \in Role, Pair(d, r)
        PROVE  ReceiptsMatchHistory' /\ ReplayAnswersOwn'
    <3>1. /\ Len(history) \in Nat /\ Len(history') = Len(history) + 1
          /\ \A i \in 1..Len(history) : history'[i] = history[i]
          /\ history'[Len(history) + 1].request = NoRequest
      BY <2>0, <2>2, PairType
    <3>2. receipt' = receipt /\ op' = op
      BY <2>2 DEF Pair
    <3>3. ReceiptsMatchHistory'
      BY <2>0, <3>1, <3>2, GrownMatches
    <3>4. ReplayAnswersOwn'
      BY <2>0, <3>1, <3>2 DEF ReplayAnswersOwn, Revision
    <3> QED
      BY <3>3, <3>4
  <2>3. CASE UNCHANGED vars
    BY <2>0, <2>3 DEF vars, ReceiptsMatchHistory, ReplayAnswersOwn, Revision
  <2> QED
    BY <2>1, <2>2, <2>3 DEF Next
<1> QED
  BY <1>1, <1>2, PTL DEF Spec

\* A request moves the group once, whatever its retries race with: two revisions
\* of one request would both be the one its receipt names.
THEOREM MovedOnce == Spec => []OncePerRequest
<1>1. ReplayInv => OncePerRequest
  <2> SUFFICES ASSUME ReplayInv, NEW i \in 1..Len(history), NEW j \in 1..Len(history),
                      history[i].request # NoRequest,
                      history[i].request = history[j].request
               PROVE  i = j
    BY DEF OncePerRequest, Revision
  <2>1. receipt[history[i].request].outcome = i
    BY DEF ReplayInv, ReceiptsMatchHistory
  <2>2. receipt[history[j].request].outcome = j
    BY DEF ReplayInv, ReceiptsMatchHistory
  <2> QED
    BY <2>1, <2>2
<1> QED
  BY <1>1, ReplayInvariant, PTL

\* A retry is answered with the revision its own request produced.
THEOREM AnsweredWithOwn == Spec => []ReplayAnswersOwn
<1>1. ReplayInv => ReplayAnswersOwn
  BY DEF ReplayInv
<1> QED
  BY <1>1, ReplayInvariant, PTL
=============================================================================
