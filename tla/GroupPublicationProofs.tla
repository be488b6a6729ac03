----------------------- MODULE GroupPublicationProofs -----------------------
(***************************************************************************)
(* Theorems about GroupPublication for any number of attempts, devices,    *)
(* request ids and payloads, any window, clients that reuse request ids    *)
(* and receipts that expire; AcksOwn alone is about clients that do not    *)
(* reuse them.                                                             *)
(***************************************************************************)
EXTENDS GroupPublication, TLAPS

-----------------------------------------------------------------------------
(* Receipts, and the sequences they point into.                            *)

\* Appending one element keeps the old ones where they were.
LEMMA AppendKeeps ==
  ASSUME NEW S, NEW s \in Seq(S), NEW e \in S
  PROVE  /\ Append(s, e) \in Seq(S)
         /\ Len(Append(s, e)) = Len(s) + 1
         /\ \A i \in 1..Len(s) : Append(s, e)[i] = s[i]
         /\ Append(s, e)[Len(s) + 1] = e
OBVIOUS

\* A receipt stays a receipt whatever happens to it.
LEMMA ReceiptType ==
  ASSUME NEW P, NEW O, NEW r \in ReceiptOf(P, O)
  PROVE  /\ \A p \in P : Claim(r, p) \in ReceiptOf(P, O)
         /\ \A o \in O : Complete(r, o) \in ReceiptOf(P, O)
         /\ Expire(r) \in ReceiptOf(P, O)
BY DEF ReceiptOf, Claim, Complete, Expire

\* A longer log leaves the receipts well typed.
LEMMA ReceiptsWiden ==
  ASSUME NEW D, NEW P, NEW m \in Nat, NEW n \in Nat, m <= n,
         NEW f \in [D -> ReceiptOf(P, 0..m)]
  PROVE  f \in [D -> ReceiptOf(P, 0..n)]
<1>1. ReceiptOf(P, 0..m) \subseteq ReceiptOf(P, 0..n)
  BY DEF ReceiptOf
<1> QED
  BY <1>1

-----------------------------------------------------------------------------
(* Reading an event back.                                                  *)

\* The event the one-row replay finds is the one it was asked for.
LEMMA FoundIsAsked ==
  ASSUME NEW n \in Nat, Found(n)
  PROVE  ReadEvent(n) = n
<1>1. FirstAbove(Retained, n - 1, 1) = {n}
  BY DEF Found
<1>2. ReadEvent(n) = CHOOSE e \in {n} : \A s \in {n} : e <= s
  BY <1>1 DEF ReadEvent, Oldest
<1> QED
  BY <1>2

-----------------------------------------------------------------------------
(* Type correctness.                                                       *)

\* What the type invariant says of a handler that is past its first await.
LEMMA RunningType ==
  ASSUME TypeOK, NEW a \in Attempts, attempt[a].pc # "idle"
  PROVE  /\ attempt[a] \in Handler
         /\ Entry(a) \in Event
         /\ PrintOf(a) \in Prints
         /\ attempt[a].request # NoRequest => ScopeOf(a) \in Kinds \X Requests
         /\ Len(log) \in Nat
<1>1. attempt[a] \in Handler /\ Entry(a) \in Event /\ Len(log) \in Nat
  BY DEF TypeOK
<1>2. /\ attempt[a].kind \in Kinds /\ attempt[a].device \in Devices
      /\ attempt[a].request \in Requests \cup {NoRequest}
      /\ attempt[a].payload \in Payloads
  BY <1>1 DEF Entry, Event
<1>3. PrintOf(a) \in Prints
  BY <1>2 DEF PrintOf, Fingerprint, Prints
<1> QED
  BY <1>1, <1>2, <1>3 DEF ScopeOf

\* One handler moves, and the log may have grown: what has to be shown for the
\* types to be kept.
LEMMA HandlerStepType ==
  ASSUME TypeOK, NEW a \in Attempts, NEW h \in Handler,
         attempt' = [attempt EXCEPT ![a] = h],
         UNCHANGED groupVars,
         log' \in Seq(Event), Len(log) <= Len(log'),
         receipt' \in [Kinds \X Requests -> ReceiptOf(Prints, 0..Len(log'))],
         h.sequence \in 0..Len(log'),
         h.pc # "idle" => [kind |-> h.kind, device |-> h.device,
                           request |-> h.request, payload |-> h.payload] \in Event,
         h.pc \in {"refused", "recorded"} => h.request # NoRequest
  PROVE  TypeOK'
<1>1. attempt' \in [Attempts -> Handler]
  BY DEF TypeOK
<1>0. Len(log) \in Nat /\ Len(log') \in Nat
  BY DEF TypeOK
<1>2. ASSUME NEW b \in Attempts
      PROVE  /\ attempt'[b].sequence \in 0..Len(log')
             /\ attempt'[b].pc # "idle" => (Entry(b) \in Event)'
             /\ attempt'[b].pc \in {"refused", "recorded"} =>
                  attempt'[b].request # NoRequest
  <2>1. CASE b = a
    <3>1. attempt'[b] = h
      BY <2>1 DEF TypeOK
    <3> QED
      BY <3>1 DEF Entry, Event
  <2>2. CASE b # a
    <3>1. attempt'[b] = attempt[b]
      BY <2>2 DEF TypeOK
    <3>2. attempt[b].sequence \in 0..Len(log')
      BY <1>0 DEF TypeOK
    <3> QED
      BY <3>1, <3>2 DEF TypeOK, Entry, Event
  <2> QED
    BY <2>1, <2>2
<1> QED
  BY <1>1, <1>2 DEF TypeOK, groupVars

\* Moving a running handler on, its request unchanged.
LEMMA MoveType ==
  ASSUME TypeOK, NEW a \in Attempts, attempt[a].pc # "idle",
         NEW pc \in {"ok", "denied", "failed", "already_exists", "abandoned"} \cup Running,
         NEW n \in 0..Len(log'),
         pc \in {"refused", "recorded"} => attempt[a].request # NoRequest,
         attempt' = [attempt EXCEPT ![a] = [attempt[a] EXCEPT !.pc = pc, !.sequence = n]],
         UNCHANGED groupVars,
         log' \in Seq(Event), Len(log) <= Len(log'),
         receipt' \in [Kinds \X Requests -> ReceiptOf(Prints, 0..Len(log'))]
  PROVE  TypeOK'
<1> DEFINE h == [attempt[a] EXCEPT !.pc = pc, !.sequence = n]
<1>1. attempt[a] \in Handler /\ Entry(a) \in Event
  BY RunningType
<1>2. n \in Nat
  BY DEF TypeOK
<1>3. h \in Handler
  BY <1>1, <1>2 DEF Handler, Running
<1>4. /\ h.pc = pc /\ h.sequence = n /\ h.request = attempt[a].request
      /\ [kind |-> h.kind, device |-> h.device,
          request |-> h.request, payload |-> h.payload] \in Event
  BY <1>1 DEF Handler, Entry
<1> HIDE DEF h
<1>5. attempt' = [attempt EXCEPT ![a] = h]
  BY DEF h
<1> QED
  BY <1>3, <1>4, <1>5, HandlerStepType

\* The initial state is well typed.
LEMMA InitType == Init => TypeOK
<1> SUFFICES ASSUME Init PROVE TypeOK
  OBVIOUS
<1>1. log \in Seq(Event) /\ Len(log) = 0
  BY DEF Init
<1>2. Idle \in Handler /\ Idle.pc = "idle" /\ Idle.sequence = 0
  BY DEF Idle, Handler
<1>3. Absent(NoPrint) \in ReceiptOf(Prints, 0..0)
  BY DEF Absent, ReceiptOf, Prints
<1>4. receipt \in [Kinds \X Requests -> ReceiptOf(Prints, 0..Len(log))]
  BY <1>1, <1>3 DEF Init
<1>5. attempt \in [Attempts -> Handler] /\ \A a \in Attempts : attempt[a] = Idle
  BY <1>2 DEF Init
<1> QED
  BY <1>1, <1>2, <1>4, <1>5 DEF Init, TypeOK, Role, Mode

\* Every step of a handler keeps the types.
LEMMA HandleType ==
  ASSUME TypeOK, NEW a \in Attempts, Handle(a)
  PROVE  TypeOK'
<1>0. Len(log) \in Nat /\ attempt[a] \in Handler /\ log \in Seq(Event)
  BY DEF TypeOK
<1>1. ASSUME NEW k \in Kinds, NEW d \in Devices, NEW r \in Requests \cup {NoRequest},
             NEW v \in Payloads, Authorize(a, k, d, r, v)
      PROVE  TypeOK'
  <2> DEFINE h == [pc |-> "authorized", kind |-> k, device |-> d,
                   request |-> r, payload |-> v, sequence |-> 0]
  <2>1. h \in Handler
    BY PublicationAssumption DEF Handler, Running
  <2>2. [kind |-> k, device |-> d, request |-> r, payload |-> v] \in Event
    BY DEF Event
  <2>3. /\ attempt' = [attempt EXCEPT ![a] = h]
        /\ UNCHANGED groupVars /\ log' = log /\ receipt' = receipt
    BY <1>1 DEF Authorize
  <2>4. /\ log' \in Seq(Event) /\ Len(log) <= Len(log') /\ h.sequence \in 0..Len(log')
        /\ receipt' \in [Kinds \X Requests -> ReceiptOf(Prints, 0..Len(log'))]
    BY <2>3, <1>0 DEF TypeOK
  <2>5. /\ [kind |-> h.kind, device |-> h.device,
            request |-> h.request, payload |-> h.payload] \in Event
        /\ h.pc \notin {"refused", "recorded"}
    BY <2>2
  <2> HIDE DEF h
  <2> QED
    BY <2>1, <2>3, <2>4, <2>5, HandlerStepType
<1>2. ASSUME ClaimReceipt(a) PROVE TypeOK'
  <2>1. /\ attempt[a].pc = "authorized" /\ UNCHANGED groupVars /\ log' = log
    BY <1>2 DEF ClaimReceipt
  <2>2. PICK pc \in {"claimed", "refused"} :
           /\ attempt' = [attempt EXCEPT ![a].pc = pc]
           /\ pc = "refused" => attempt[a].request # NoRequest
    BY <1>2 DEF ClaimReceipt
  <2>3. attempt' = [attempt EXCEPT ![a] = [attempt[a] EXCEPT !.pc = pc,
                                              !.sequence = attempt[a].sequence]]
    BY <2>2, <1>0 DEF TypeOK, Handler
  <2>4. receipt' \in [Kinds \X Requests -> ReceiptOf(Prints, 0..Len(log))]
    <3>1. CASE receipt' = receipt
      BY <3>1 DEF TypeOK
    <3>2. CASE /\ attempt[a].request # NoRequest
               /\ receipt' = [receipt EXCEPT ![ScopeOf(a)] = Claim(@, PrintOf(a))]
      <4>1. ScopeOf(a) \in Kinds \X Requests /\ PrintOf(a) \in Prints
        BY <2>1, <3>2, RunningType
      <4>2. receipt[ScopeOf(a)] \in ReceiptOf(Prints, 0..Len(log))
        BY <4>1 DEF TypeOK
      <4>3. Claim(receipt[ScopeOf(a)], PrintOf(a)) \in ReceiptOf(Prints, 0..Len(log))
        BY <4>1, <4>2, <1>0, ReceiptType
      <4> QED
        BY <3>2, <4>1, <4>3 DEF TypeOK
    <3> QED
      BY <1>2, <3>1, <3>2 DEF ClaimReceipt
  <2>5. /\ attempt[a].sequence \in 0..Len(log')
        /\ log' \in Seq(Event) /\ Len(log) <= Len(log')
        /\ receipt' \in [Kinds \X Requests -> ReceiptOf(Prints, 0..Len(log'))]
    BY <2>1, <2>4, <1>0 DEF TypeOK
  <2>6. /\ attempt[a].pc # "idle"
        /\ pc \in {"ok", "denied", "failed", "already_exists", "abandoned"} \cup Running
        /\ pc \in {"refused", "recorded"} => attempt[a].request # NoRequest
    BY <2>1, <2>2 DEF Running
  <2> QED
    BY <2>1, <2>3, <2>5, <2>6, MoveType
<1>3. ASSUME AppendAuthorized(a) PROVE TypeOK'
  <2>1. attempt[a].pc = "claimed" /\ UNCHANGED groupVars
    BY <1>3 DEF AppendAuthorized
  <2>2. CASE log' = log /\ receipt' = receipt
    <3>1. PICK pc \in {"refused", "denied"} :
             /\ attempt' = [attempt EXCEPT ![a].pc = pc]
             /\ pc = "refused" => attempt[a].request # NoRequest
      <4>1. CASE ~Gate(a)
        BY <1>3, <4>1 DEF AppendAuthorized, Gate
      <4>2. CASE Gate(a)
        <5>1. AuthorizedActor(a) => log' = Append(log, Entry(a))
          BY <1>3, <4>2 DEF AppendAuthorized
        <5>2. Append(log, Entry(a)) # log
          BY <1>0, <2>1, RunningType, AppendKeeps
        <5> QED
          BY <1>3, <2>2, <4>2, <5>1, <5>2 DEF AppendAuthorized
      <4> QED
        BY <4>1, <4>2
    <3>2. attempt' = [attempt EXCEPT ![a] = [attempt[a] EXCEPT !.pc = pc,
                                                !.sequence = attempt[a].sequence]]
      BY <3>1, <1>0 DEF TypeOK, Handler
    <3>3. /\ attempt[a].sequence \in 0..Len(log')
          /\ log' \in Seq(Event) /\ Len(log) <= Len(log')
          /\ receipt' \in [Kinds \X Requests -> ReceiptOf(Prints, 0..Len(log'))]
      BY <2>2, <1>0 DEF TypeOK
    <3>4. /\ attempt[a].pc # "idle"
          /\ pc \in {"ok", "denied", "failed", "already_exists", "abandoned"} \cup Running
          /\ pc \in {"refused", "recorded"} => attempt[a].request # NoRequest
      BY <2>1, <3>1 DEF Running
    <3> QED
      BY <2>1, <3>2, <3>3, <3>4, MoveType
  <2>3. CASE /\ log' = Append(log, Entry(a))
             /\ receipt' = Completed(a)
             /\ attempt' = [attempt EXCEPT ![a] =
                              [@ EXCEPT !.pc = "ok", !.sequence = Len(log) + 1]]
    <3>1. Entry(a) \in Event
      BY <2>1, RunningType
    <3>2. log' \in Seq(Event) /\ Len(log') = Len(log) + 1
      BY <2>3, <3>1, <1>0, AppendKeeps
    <3>3. Len(log') \in Nat /\ Len(log) <= Len(log') /\ Len(log) + 1 \in 0..Len(log')
      BY <3>2, <1>0
    <3>4. receipt \in [Kinds \X Requests -> ReceiptOf(Prints, 0..Len(log'))]
      BY <3>3, <1>0, ReceiptsWiden DEF TypeOK
    <3>5. receipt' \in [Kinds \X Requests -> ReceiptOf(Prints, 0..Len(log'))]
      <4>1. CASE attempt[a].request = NoRequest
        BY <2>3, <3>4, <4>1 DEF Completed
      <4>2. CASE attempt[a].request # NoRequest
        <5>1. ScopeOf(a) \in Kinds \X Requests /\ PrintOf(a) \in Prints
          BY <2>1, <4>2, RunningType
        <5>2. Complete(receipt[ScopeOf(a)], Len(log) + 1) \in ReceiptOf(Prints, 0..Len(log'))
          BY <3>3, <3>4, <5>1, ReceiptType
        <5>3. receipt' = [receipt EXCEPT ![ScopeOf(a)] = Complete(@, Len(log) + 1)]
          BY <2>3, <4>2 DEF Completed
        <5> QED
          BY <3>4, <5>1, <5>2, <5>3
      <4> QED
        BY <4>1, <4>2
    <3> QED
      BY <2>1, <2>3, <3>2, <3>3, <3>5, MoveType
  <2> QED
    BY <1>3, <2>2, <2>3 DEF AppendAuthorized
<1>4. ASSUME ResolveRefused(a) PROVE TypeOK'
  <2> DEFINE verdict == Resolve(receipt[ScopeOf(a)], PrintOf(a))
             n == IF verdict = "recorded" THEN receipt[ScopeOf(a)].outcome ELSE 0
  <2>1. /\ attempt[a].pc = "refused" /\ attempt[a].pc # "idle"
        /\ attempt[a].request # NoRequest
        /\ UNCHANGED groupVars /\ log' = log /\ receipt' = receipt
    BY <1>4 DEF ResolveRefused, TypeOK
  <2>2. verdict \in {"failed", "already_exists", "recorded"}
    BY DEF Resolve
  <2>3. n \in 0..Len(log)
    <3>1. receipt[ScopeOf(a)] \in ReceiptOf(Prints, 0..Len(log))
      BY <2>1, RunningType DEF TypeOK
    <3>2. receipt[ScopeOf(a)].outcome \in 0..Len(log)
      BY <3>1 DEF ReceiptOf
    <3> QED
      BY <3>2, <1>0
  <2>4. attempt' = [attempt EXCEPT ![a] = [attempt[a] EXCEPT !.pc = verdict, !.sequence = n]]
    BY <1>4 DEF ResolveRefused
  <2> HIDE DEF verdict, n
  <2>5. /\ n \in 0..Len(log')
        /\ log' \in Seq(Event) /\ Len(log) <= Len(log')
        /\ receipt' \in [Kinds \X Requests -> ReceiptOf(Prints, 0..Len(log'))]
    BY <2>1, <2>3, <1>0 DEF TypeOK
  <2>6. verdict \in {"ok", "denied", "failed", "already_exists", "abandoned"} \cup Running
    BY <2>2 DEF Running
  <2> QED
    BY <2>1, <2>4, <2>5, <2>6, MoveType
<1>5. ASSUME ReadBack(a) PROVE TypeOK'
  <2> DEFINE n == attempt[a].sequence
  <2>1. /\ attempt[a].pc = "recorded" /\ attempt[a].pc # "idle"
        /\ attempt[a].request # NoRequest
        /\ UNCHANGED groupVars /\ log' = log /\ receipt' = receipt
    BY <1>5 DEF ReadBack, TypeOK
  <2>2. n \in 0..Len(log) /\ n \in Nat
    BY <1>0 DEF TypeOK
  <2>3. PICK pc \in {"ok", "failed"}, m \in 0..Len(log) :
           attempt' = [attempt EXCEPT ![a] = [attempt[a] EXCEPT !.pc = pc, !.sequence = m]]
    <3>1. CASE Found(n)
      <4>1. ReadEvent(n) = n
        BY <2>2, <3>1, FoundIsAsked
      <4> QED
        BY <1>5, <2>2, <3>1, <4>1 DEF ReadBack
    <3>2. CASE ~Found(n)
      <4>1. 0 \in 0..Len(log)
        BY <1>0
      <4> QED
        BY <1>5, <3>2, <4>1 DEF ReadBack
    <3> QED
      BY <3>1, <3>2
  <2>4. /\ m \in 0..Len(log')
        /\ log' \in Seq(Event) /\ Len(log) <= Len(log')
        /\ receipt' \in [Kinds \X Requests -> ReceiptOf(Prints, 0..Len(log'))]
    BY <2>1, <1>0 DEF TypeOK
  <2>5. /\ pc \in {"ok", "denied", "failed", "already_exists", "abandoned"} \cup Running
        /\ pc \notin {"refused", "recorded"}
    OBVIOUS
  <2> QED
    BY <2>1, <2>3, <2>4, <2>5, MoveType
<1>6. ASSUME Abandon(a) PROVE TypeOK'
  <2>1. /\ attempt[a].pc # "idle"
        /\ UNCHANGED groupVars /\ log' = log /\ receipt' = receipt
    BY <1>6 DEF Abandon, Running
  <2>2. attempt' = [attempt EXCEPT ![a] = [attempt[a] EXCEPT !.pc = "abandoned",
                                              !.sequence = attempt[a].sequence]]
    BY <1>6, <1>0 DEF Abandon, TypeOK, Handler
  <2>3. /\ attempt[a].sequence \in 0..Len(log')
        /\ log' \in Seq(Event) /\ Len(log) <= Len(log')
        /\ receipt' \in [Kinds \X Requests -> ReceiptOf(Prints, 0..Len(log'))]
    BY <2>1, <1>0 DEF TypeOK
  <2>4. PICK pc \in {"abandoned"} : TRUE
    OBVIOUS
  <2>5. /\ pc \in {"ok", "denied", "failed", "already_exists", "abandoned"} \cup Running
        /\ pc \notin {"refused", "recorded"}
    OBVIOUS
  <2>6. attempt' = [attempt EXCEPT ![a] = [attempt[a] EXCEPT !.pc = pc,
                                              !.sequence = attempt[a].sequence]]
    BY <2>2
  <2> QED
    BY <2>1, <2>3, <2>5, <2>6, MoveType
<1> QED
  BY <1>1, <1>2, <1>3, <1>4, <1>5, <1>6 DEF Handle

\* What happens around the handlers keeps the types.
LEMMA SurroundingsType ==
  ASSUME TypeOK,
         \/ \E d \in Devices, r \in Role : ChangeRole(d, r)
         \/ \E d \in Devices : SetLeader(d)
         \/ \E m \in Mode : SetAuthorityMode(m)
         \/ \E s \in Kinds \X Requests : ExpireReceipt(s)
  PROVE  TypeOK'
<1> USE DEF TypeOK
<1>1. ASSUME NEW d \in Devices, NEW r \in Role, ChangeRole(d, r) PROVE TypeOK'
  BY <1>1 DEF ChangeRole, Entry
<1>2. ASSUME NEW d \in Devices, SetLeader(d) PROVE TypeOK'
  BY <1>2 DEF SetLeader, Entry
<1>3. ASSUME NEW m \in Mode, SetAuthorityMode(m) PROVE TypeOK'
  BY <1>3 DEF SetAuthorityMode, Entry
<1>4. ASSUME NEW s \in Kinds \X Requests, ExpireReceipt(s) PROVE TypeOK'
  <2>1. Expire(receipt[s]) \in ReceiptOf(Prints, 0..Len(log))
    BY ReceiptType
  <2>2. receipt' \in [Kinds \X Requests -> ReceiptOf(Prints, 0..Len(log))]
    BY <1>4, <2>1 DEF ExpireReceipt
  <2> QED
    BY <1>4, <2>2 DEF ExpireReceipt, groupVars, Entry
<1> QED
  BY <1>1, <1>2, <1>3, <1>4

\* Every reachable state is well typed: no receipt and no answer names an event
\* that was not appended.
THEOREM TypeCorrect == Spec => []TypeOK
<1>1. TypeOK /\ [Next]_vars => TypeOK'
  <2> SUFFICES ASSUME TypeOK, [Next]_vars PROVE TypeOK'
    OBVIOUS
  <2>1. CASE Next
    BY <2>1, HandleType, SurroundingsType DEF Next
  <2>2. CASE UNCHANGED vars
    BY <2>2 DEF vars, TypeOK, Entry
  <2> QED
    BY <2>1, <2>2
<1> QED
  BY <1>1, InitType, PTL DEF Spec

-----------------------------------------------------------------------------
(* Receipts and log.                                                       *)

\* The inductive invariant: OnceOnly alone is not one, because nothing in it
\* keeps an attempt from appending what a receipt already records.
ReceiptInv == TypeOK /\ ReceiptsMatchLog

\* Steps that leave the log alone and no receipt completed or uncompleted keep
\* the agreement.
LEMMA MatchKept ==
  ASSUME ReceiptsMatchLog, log' = log,
         \A s \in Kinds \X Requests :
           /\ receipt'[s].status = "completed" <=> receipt[s].status = "completed"
           /\ receipt[s].status = "completed" => receipt'[s].outcome = receipt[s].outcome,
         log \in Seq(Event)
  PROVE  ReceiptsMatchLog'
<1>1. \A i \in 1..Len(log) : log[i].request # NoRequest =>
         <<log[i].kind, log[i].request>> \in Kinds \X Requests
  <2> SUFFICES ASSUME NEW i \in 1..Len(log), log[i].request # NoRequest
               PROVE  <<log[i].kind, log[i].request>> \in Kinds \X Requests
    OBVIOUS
  <2>1. log[i] \in Event
    OBVIOUS
  <2> QED
    BY <2>1 DEF Event
<1> QED
  BY <1>1, SMTT(30) DEF ReceiptsMatchLog

\* The append: the receipt was open, so no event carries its request yet.
LEMMA AppendMatches ==
  ASSUME ReceiptInv, NEW a \in Attempts, attempt[a].pc = "claimed",
         Gate(a), log' = Append(log, Entry(a)), receipt' = Completed(a)
  PROVE  ReceiptsMatchLog'
<1>1. /\ log \in Seq(Event) /\ Entry(a) \in Event /\ Len(log) \in Nat
      /\ receipt \in [Kinds \X Requests -> ReceiptOf(Prints, 0..Len(log))]
      /\ attempt[a].request # NoRequest => ScopeOf(a) \in Kinds \X Requests
  BY RunningType DEF ReceiptInv, TypeOK
<1>2. /\ Len(log') = Len(log) + 1
      /\ \A i \in 1..Len(log) : log'[i] = log[i]
      /\ log'[Len(log) + 1] = Entry(a)
  BY <1>1, AppendKeeps
<1>3. /\ Entry(a).kind = attempt[a].kind
      /\ Entry(a).request = attempt[a].request
  BY DEF Entry
<1>4. CASE attempt[a].request = NoRequest
  <2>1. receipt' = receipt
    BY <1>4 DEF Completed
  <2> QED
    BY <1>1, <1>2, <1>3, <1>4, <2>1 DEF ReceiptInv, ReceiptsMatchLog
<1>5. CASE attempt[a].request # NoRequest
  <2> DEFINE t == ScopeOf(a)
  <2>1. t \in Kinds \X Requests /\ t = <<attempt[a].kind, attempt[a].request>>
    BY <1>1, <1>5 DEF ScopeOf
  <2>2. receipt[t].status # "completed"
    BY <1>5 DEF Gate, GateOpen
  <2>3. /\ receipt'[t] = Complete(receipt[t], Len(log) + 1)
        /\ \A s \in Kinds \X Requests : s # t => receipt'[s] = receipt[s]
    BY <1>1, <1>5, <2>1 DEF Completed
  <2>4. receipt'[t].status = "completed" /\ receipt'[t].outcome = Len(log) + 1
    BY <1>1, <2>1, <2>3 DEF Complete, ReceiptOf
  <2>5. \A i \in 1..Len(log) : log[i].request # NoRequest =>
           /\ <<log[i].kind, log[i].request>> # t
           /\ <<log[i].kind, log[i].request>> \in Kinds \X Requests
    <3> SUFFICES ASSUME NEW i \in 1..Len(log), log[i].request # NoRequest
                 PROVE  /\ <<log[i].kind, log[i].request>> # t
                        /\ <<log[i].kind, log[i].request>> \in Kinds \X Requests
      OBVIOUS
    <3>1. log[i] \in Event
      BY <1>1
    <3>2. receipt[<<log[i].kind, log[i].request>>].status = "completed"
      BY DEF ReceiptInv, ReceiptsMatchLog
    <3> QED
      BY <2>2, <3>1, <3>2 DEF Event
  <2>6. t[1] = attempt[a].kind /\ t[2] = attempt[a].request
    BY <2>1
  <2> HIDE DEF t
  <2>7. ASSUME NEW s \in Kinds \X Requests, receipt'[s].status = "completed"
        PROVE  /\ receipt'[s].outcome \in 1..Len(log')
               /\ log'[receipt'[s].outcome].kind = s[1]
               /\ log'[receipt'[s].outcome].request = s[2]
    <3>1. CASE s = t
      BY <1>1, <1>2, <1>3, <2>4, <2>6, <3>1
    <3>2. CASE s # t
      <4>1. receipt'[s] = receipt[s]
        BY <2>3, <3>2
      <4>2. /\ receipt[s].outcome \in 1..Len(log)
            /\ log[receipt[s].outcome].kind = s[1]
            /\ log[receipt[s].outcome].request = s[2]
        BY <2>7, <4>1 DEF ReceiptInv, ReceiptsMatchLog
      <4> QED
        BY <1>1, <1>2, <4>1, <4>2
    <3> QED
      BY <3>1, <3>2
  <2>8. ASSUME NEW i \in 1..Len(log'), log'[i].request # NoRequest
        PROVE  /\ receipt'[<<log'[i].kind, log'[i].request>>].status = "completed"
               /\ receipt'[<<log'[i].kind, log'[i].request>>].outcome = i
    <3>1. CASE i = Len(log) + 1
      BY <1>2, <1>3, <2>1, <2>4, <3>1
    <3>2. CASE i \in 1..Len(log)
      <4>1. log'[i] = log[i]
        BY <1>2, <3>2
      <4>2. receipt'[<<log[i].kind, log[i].request>>] = receipt[<<log[i].kind, log[i].request>>]
        BY <2>3, <2>5, <2>8, <3>2, <4>1
      <4> QED
        BY <2>8, <3>2, <4>1, <4>2 DEF ReceiptInv, ReceiptsMatchLog
    <3>3. i = Len(log) + 1 \/ i \in 1..Len(log)
      <4>1. i \in 1..(Len(log) + 1)
        BY <1>2
      <4> HIDE <2>8
      <4> QED
        BY <1>1, <4>1
    <3> QED
      BY <3>1, <3>2, <3>3
  <2> QED
    BY <2>7, <2>8 DEF ReceiptsMatchLog
<1> QED
  BY <1>4, <1>5

\* Every step keeps the agreement of receipts and log.
LEMMA StepMatches ==
  ASSUME ReceiptInv, [Next]_vars
  PROVE  ReceiptsMatchLog'
<1>0. /\ ReceiptsMatchLog /\ log \in Seq(Event)
      /\ receipt \in [Kinds \X Requests -> ReceiptOf(Prints, 0..Len(log))]
  BY DEF ReceiptInv, TypeOK
<1>1. CASE log' = log /\ receipt' = receipt
  BY <1>0, <1>1, MatchKept
<1>2. ASSUME NEW a \in Attempts, ClaimReceipt(a), receipt' # receipt
      PROVE  ReceiptsMatchLog'
  <2>1. /\ attempt[a].pc = "authorized" /\ attempt[a].request # NoRequest
        /\ log' = log
        /\ ~ClaimRefused(receipt[ScopeOf(a)])
        /\ receipt' = [receipt EXCEPT ![ScopeOf(a)] = Claim(@, PrintOf(a))]
    BY <1>2 DEF ClaimReceipt
  <2>2. ScopeOf(a) \in Kinds \X Requests
    BY <2>1, RunningType DEF ReceiptInv
  <2>3. /\ receipt[ScopeOf(a)].status # "completed"
        /\ receipt'[ScopeOf(a)].status = "claimed"
        /\ \A s \in Kinds \X Requests : s # ScopeOf(a) => receipt'[s] = receipt[s]
    BY <1>0, <2>1, <2>2 DEF ClaimRefused, Claim, ReceiptOf
  <2> QED
    BY <1>0, <2>1, <2>3, MatchKept
<1>3. ASSUME NEW a \in Attempts, AppendAuthorized(a), ~(log' = log /\ receipt' = receipt)
      PROVE  ReceiptsMatchLog'
  <2>1. /\ attempt[a].pc = "claimed" /\ Gate(a)
        /\ log' = Append(log, Entry(a)) /\ receipt' = Completed(a)
    BY <1>3 DEF AppendAuthorized
  <2> QED
    BY <2>1, AppendMatches
<1>4. ASSUME NEW t \in Kinds \X Requests, ExpireReceipt(t) PROVE ReceiptsMatchLog'
  <2>1. log' = log /\ receipt' = [receipt EXCEPT ![t] = Expire(@)]
    BY <1>4 DEF ExpireReceipt
  <2>2. \A s \in Kinds \X Requests :
           /\ receipt'[s].status = receipt[s].status
           /\ receipt'[s].outcome = receipt[s].outcome
    BY <1>0, <2>1 DEF Expire, ReceiptOf
  <2> QED
    BY <1>0, <2>1, <2>2, MatchKept
<1>5. ASSUME NEW a \in Attempts, Handle(a) PROVE ReceiptsMatchLog'
  <2>1. ASSUME NEW k \in Kinds, NEW d \in Devices, NEW r \in Requests \cup {NoRequest},
               NEW v \in Payloads, Authorize(a, k, d, r, v)
        PROVE  log' = log /\ receipt' = receipt
    BY <2>1 DEF Authorize
  <2>2. (ResolveRefused(a) \/ ReadBack(a) \/ Abandon(a)) => log' = log /\ receipt' = receipt
    BY DEF ResolveRefused, ReadBack, Abandon
  <2>3. ClaimReceipt(a) => log' = log
    BY DEF ClaimReceipt
  <2> QED
    BY <1>1, <1>2, <1>3, <1>5, <2>1, <2>2, <2>3 DEF Handle
<1>6. ASSUME NEW d \in Devices, \/ \E r \in Role : ChangeRole(d, r)
                                \/ SetLeader(d)
      PROVE  ReceiptsMatchLog'
  BY <1>1, <1>6 DEF ChangeRole, SetLeader
<1>7. ASSUME NEW m \in Mode, SetAuthorityMode(m) PROVE ReceiptsMatchLog'
  BY <1>1, <1>7 DEF SetAuthorityMode
<1>8. CASE UNCHANGED vars
  BY <1>1, <1>8 DEF vars
<1> QED
  BY <1>4, <1>5, <1>6, <1>7, <1>8 DEF Next

\* The receipts and the log agree in every reachable state, whatever attempts
\* die, race, take a receipt over or come back with another request.
THEOREM ReceiptsAgree == Spec => []ReceiptsMatchLog
<1>1. Init => ReceiptInv
  <2> SUFFICES ASSUME Init PROVE ReceiptsMatchLog
    BY InitType DEF ReceiptInv
  <2>1. Len(log) = 0 /\ \A s \in Kinds \X Requests : receipt[s].status = "absent"
    BY DEF Init, Absent
  <2> QED
    BY <2>1 DEF ReceiptsMatchLog
<1>2. ReceiptInv /\ [Next]_vars => ReceiptInv'
  <2> SUFFICES ASSUME ReceiptInv, [Next]_vars PROVE TypeOK'
    BY StepMatches DEF ReceiptInv
  <2>1. CASE Next
    BY <2>1, HandleType, SurroundingsType DEF Next, ReceiptInv
  <2>2. CASE UNCHANGED vars
    BY <2>2 DEF vars, TypeOK, Entry, ReceiptInv
  <2> QED
    BY <2>1, <2>2
<1>3. ReceiptInv => ReceiptsMatchLog
  BY DEF ReceiptInv
<1> QED
  BY <1>1, <1>2, <1>3, PTL DEF Spec

\* One request id takes at most one sequence per RPC: two events of one request
\* would both be the one its receipt names.
THEOREM AppendedOnce == Spec => []OnceOnly
<1>1. ReceiptsMatchLog => OnceOnly
  <2> SUFFICES ASSUME ReceiptsMatchLog, NEW i \in 1..Len(log), NEW j \in 1..Len(log),
                      log[i].request # NoRequest, log[i].request = log[j].request,
                      log[i].kind = log[j].kind
               PROVE  i = j
    BY DEF OnceOnly
  <2>1. receipt[<<log[i].kind, log[i].request>>].outcome = i
    BY DEF ReceiptsMatchLog
  <2>2. receipt[<<log[j].kind, log[j].request>>].outcome = j
    BY DEF ReceiptsMatchLog
  <2> QED
    BY <2>1, <2>2
<1> QED
  BY <1>1, ReceiptsAgree, PTL

\* Nobody writes to the log who has lost the right to write by then, however
\* long ago the door was passed.
THEOREM WritersAuthorized == Spec => WriterAuthorized
<1>1. TypeOK /\ [Next]_vars =>
        [log' # log => MayPublish(log'[Len(log')].device)]_vars
  <2> SUFFICES ASSUME TypeOK, Next, log' # log
               PROVE  MayPublish(log'[Len(log')].device)
    BY DEF vars
  <2>1. PICK a \in Attempts : AppendAuthorized(a)
    BY DEF Next, Handle, Authorize, ClaimReceipt, ResolveRefused, ReadBack, Abandon,
           ChangeRole, SetLeader, SetAuthorityMode, ExpireReceipt
  <2>2. /\ attempt[a].pc = "claimed" /\ AuthorizedActor(a)
        /\ log' = Append(log, Entry(a))
    BY <2>1 DEF AppendAuthorized
  <2>3. log \in Seq(Event) /\ Entry(a) \in Event
    BY <2>2, RunningType DEF TypeOK
  <2>4. log'[Len(log')] = Entry(a)
    BY <2>2, <2>3, AppendKeeps
  <2> QED
    BY <2>2, <2>4 DEF AuthorizedActor, Entry
<1> QED
  BY <1>1, TypeCorrect, PTL DEF Spec, WriterAuthorized

-----------------------------------------------------------------------------
(* The promise.                                                            *)

\* An attempt about to be answered from a receipt was pointed at an event of
\* its own request.
RecordedOwn ==
  \A a \in Attempts : attempt[a].pc = "recorded" =>
    /\ attempt[a].sequence \in 1..Len(log)
    /\ log[attempt[a].sequence].kind = attempt[a].kind
    /\ log[attempt[a].sequence].request = attempt[a].request

PromiseInv == ReceiptInv /\ RecordedOwn

\* h is attempt a, further on.
Continues(a, h) ==
  /\ h.kind = attempt[a].kind /\ h.device = attempt[a].device
  /\ h.request = attempt[a].request /\ h.payload = attempt[a].payload

\* What a running attempt does to the abstract variables: nothing to what was
\* asked, and to what was told only when it ends with an answer.
LEMMA AttemptMoves ==
  ASSUME TypeOK, NEW a \in Attempts, attempt[a].pc \notin {"idle", "ok"},
         NEW h \in Handler, h.pc # "idle", Continues(a, h),
         attempt' = [attempt EXCEPT ![a] = h]
  PROVE  /\ Asked' = Asked
         /\ Told' = [Told EXCEPT ![a] = IF h.pc = "ok" THEN h.sequence ELSE 0]
         /\ Asked[a] = Entry(a) /\ Asked[a] # Unasked /\ Told[a] = 0
<1>1. attempt \in [Attempts -> Handler] /\ Entry(a) \in Event
  BY DEF TypeOK
<1>2. \A b \in Attempts : /\ (attempt'[b].pc = "idle") <=> (attempt[b].pc = "idle")
                          /\ Entry(b)' = Entry(b)
  BY <1>1 DEF Entry, Handler, Continues
<1>3. Asked' = Asked
  BY <1>2 DEF Asked
<1>4. \A b \in Attempts : Told'[b] = IF b = a THEN (IF h.pc = "ok" THEN h.sequence ELSE 0)
                                         ELSE Told[b]
  BY <1>1 DEF Told, Handler
<1>5. Told' = [Told EXCEPT ![a] = IF h.pc = "ok" THEN h.sequence ELSE 0]
  BY <1>4 DEF Told
<1>6. Asked[a] = Entry(a) /\ Told[a] = 0
  BY DEF Asked, Told
<1>7. Entry(a).kind \in Kinds /\ Unasked.kind = "none"
  BY <1>1 DEF Event, Unasked
<1> QED
  BY <1>3, <1>5, <1>6, <1>7, PublicationAssumption

\* ... and an attempt that ends without an answer, or goes on, does nothing.
LEMMA AttemptSilent ==
  ASSUME TypeOK, NEW a \in Attempts, attempt[a].pc \notin {"idle", "ok"},
         NEW h \in Handler, h.pc \notin {"idle", "ok"}, Continues(a, h), log' = log,
         attempt' = [attempt EXCEPT ![a] = h]
  PROVE  UNCHANGED Promise!vars
<1>1. /\ Asked' = Asked /\ Told' = [Told EXCEPT ![a] = 0] /\ Told[a] = 0
  BY AttemptMoves
<1>2. Told' = Told
  BY <1>1 DEF Told
<1> QED
  BY <1>1, <1>2 DEF Promise!vars

\* Appending is the promise's Publish: the open gate means that no event of the
\* request is in the log.
LEMMA AppendPublishes ==
  ASSUME ReceiptInv, NEW a \in Attempts, AppendAuthorized(a)
  PROVE  [Promise!Next]_(Promise!vars)
<1>0. /\ TypeOK /\ attempt[a] \in Handler /\ attempt[a].pc = "claimed"
      /\ Len(log) \in Nat /\ Len(log) + 1 \in Nat
  BY DEF ReceiptInv, TypeOK, AppendAuthorized
<1>1. CASE Gate(a) /\ AuthorizedActor(a)
  <2> DEFINE h == [attempt[a] EXCEPT !.pc = "ok", !.sequence = Len(log) + 1]
  <2>0. h \in Handler /\ h.pc = "ok" /\ h.sequence = Len(log) + 1 /\ Continues(a, h)
    BY <1>0 DEF Handler, Continues
  <2>1. log' = Append(log, Entry(a)) /\ attempt' = [attempt EXCEPT ![a] = h]
    BY <1>1 DEF AppendAuthorized
  <2> HIDE DEF h
  <2>2. /\ Asked' = Asked /\ Told' = [Told EXCEPT ![a] = Len(log) + 1]
        /\ Asked[a] = Entry(a) /\ Asked[a] # Unasked /\ Told[a] = 0
    BY <1>0, <2>0, <2>1, AttemptMoves
  <2>3. ASSUME NEW i \in 1..Len(log), Promise!SameRequest(log[i], Entry(a)) PROVE FALSE
    <3>1. log[i].request = attempt[a].request /\ log[i].kind = attempt[a].kind
          /\ attempt[a].request # NoRequest
      BY <2>3 DEF Promise!SameRequest, Entry
    <3>2. receipt[ScopeOf(a)].status = "completed"
      BY <3>1 DEF ReceiptInv, ReceiptsMatchLog, ScopeOf
    <3> QED
      BY <1>1, <3>1, <3>2 DEF Gate, GateOpen
  <2>4. Promise!Publish(a)
    BY <2>1, <2>2, <2>3 DEF Promise!Publish
  <2> QED
    BY <2>4 DEF Promise!Next
<1>2. CASE ~Gate(a)
  <2> DEFINE h == [attempt[a] EXCEPT !.pc = "refused"]
  <2>0. h \in Handler /\ h.pc = "refused" /\ Continues(a, h)
    BY <1>0 DEF Handler, Continues, Running
  <2>1. log' = log /\ attempt' = [attempt EXCEPT ![a] = h]
    BY <1>2 DEF AppendAuthorized
  <2> HIDE DEF h
  <2> QED
    BY <1>0, <2>0, <2>1, AttemptSilent
<1>3. CASE Gate(a) /\ ~AuthorizedActor(a)
  <2> DEFINE h == [attempt[a] EXCEPT !.pc = "denied"]
  <2>0. h \in Handler /\ h.pc = "denied" /\ Continues(a, h)
    BY <1>0 DEF Handler, Continues, Running
  <2>1. log' = log /\ attempt' = [attempt EXCEPT ![a] = h]
    BY <1>3 DEF AppendAuthorized
  <2> HIDE DEF h
  <2> QED
    BY <1>0, <2>0, <2>1, AttemptSilent
<1> QED
  BY <1>1, <1>2, <1>3

\* Reading the recorded event back is the promise's Tell, or silent when the
\* event is gone.
LEMMA ReadBackTells ==
  ASSUME PromiseInv, NEW a \in Attempts, ReadBack(a)
  PROVE  [Promise!Next]_(Promise!vars)
<1> DEFINE n == attempt[a].sequence
<1>0. /\ TypeOK /\ attempt \in [Attempts -> Handler] /\ attempt[a].pc = "recorded"
      /\ n \in 1..Len(log) /\ n \in Nat /\ log' = log /\ Len(log) \in Nat
      /\ log[n].kind = attempt[a].kind /\ log[n].request = attempt[a].request
      /\ attempt[a].request # NoRequest
  BY DEF PromiseInv, ReceiptInv, RecordedOwn, TypeOK, ReadBack
<1>1. CASE Found(n)
  <2> DEFINE h == [attempt[a] EXCEPT !.pc = "ok", !.sequence = n]
  <2>0. h \in Handler /\ h.pc = "ok" /\ h.sequence = n /\ Continues(a, h)
    BY <1>0 DEF Handler, Continues
  <2>1. attempt' = [attempt EXCEPT ![a] = h]
    BY <1>0, <1>1, FoundIsAsked DEF ReadBack
  <2> HIDE DEF h
  <2>2. /\ Asked' = Asked /\ Told' = [Told EXCEPT ![a] = n]
        /\ Asked[a] = Entry(a) /\ Asked[a] # Unasked /\ Told[a] = 0
    BY <1>0, <2>0, <2>1, AttemptMoves, ZenonT(30)
  <2>3. Promise!SameRequest(log[n], Entry(a))
    BY <1>0 DEF Promise!SameRequest, Entry
  <2>4. Promise!Tell(a)
    BY <1>0, <2>2, <2>3 DEF Promise!Tell
  <2> QED
    BY <2>4 DEF Promise!Next
<1>2. CASE ~Found(n)
  <2> DEFINE h == [attempt[a] EXCEPT !.pc = "failed", !.sequence = 0]
  <2>0. h \in Handler /\ h.pc = "failed" /\ Continues(a, h)
    BY <1>0 DEF Handler, Continues
  <2>1. attempt' = [attempt EXCEPT ![a] = h]
    BY <1>2 DEF ReadBack
  <2> HIDE DEF h
  <2> QED
    BY <1>0, <2>0, <2>1, AttemptSilent
<1> QED
  BY <1>1, <1>2

\* The door is the promise's Ask.
LEMMA AuthorizeAsks ==
  ASSUME TypeOK, NEW a \in Attempts, NEW k \in Kinds, NEW d \in Devices,
         NEW r \in Requests \cup {NoRequest}, NEW v \in Payloads, Authorize(a, k, d, r, v)
  PROVE  [Promise!Next]_(Promise!vars)
<1> DEFINE e == [kind |-> k, device |-> d, request |-> r, payload |-> v]
           h == [pc |-> "authorized", kind |-> k, device |-> d, request |-> r,
                 payload |-> v, sequence |-> 0]
<1>1. /\ attempt \in [Attempts -> Handler] /\ attempt[a].pc = "idle" /\ log' = log
      /\ attempt' = [attempt EXCEPT ![a] = h] /\ e \in Event
  BY DEF TypeOK, Authorize, Event
<1>2. \A b \in Attempts : /\ b # a => attempt'[b] = attempt[b]
                          /\ attempt'[a].pc = "authorized" /\ Entry(a)' = e
  BY <1>1 DEF Entry
<1>3. \A b \in Attempts : Asked'[b] = IF b = a THEN e ELSE Asked[b]
  BY <1>2 DEF Asked, Entry
<1>4. Asked' = [Asked EXCEPT ![a] = e] /\ Asked[a] = Unasked
  BY <1>1, <1>3 DEF Asked
<1>5. Told' = Told
  BY <1>1, <1>2 DEF Told
<1>6. Promise!Ask(a)
  BY <1>1, <1>4, <1>5 DEF Promise!Ask
<1> QED
  BY <1>6 DEF Promise!Next

\* Every step of an attempt is a step of the promise or a stutter.
LEMMA HandleKeepsPromise ==
  ASSUME PromiseInv, NEW a \in Attempts, Handle(a)
  PROVE  [Promise!Next]_(Promise!vars)
<1>0. ReceiptInv /\ TypeOK /\ attempt[a] \in Handler
  BY DEF PromiseInv, ReceiptInv, TypeOK
<1>1. ASSUME NEW pc \in {"claimed", "refused", "abandoned"}, attempt[a].pc \in Running,
             log' = log, attempt' = [attempt EXCEPT ![a].pc = pc]
      PROVE  UNCHANGED Promise!vars
  <2> DEFINE h == [attempt[a] EXCEPT !.pc = pc]
  <2>0. h \in Handler /\ h.pc = pc /\ Continues(a, h)
    BY <1>0 DEF Handler, Continues, Running
  <2>1. attempt' = [attempt EXCEPT ![a] = h]
    BY <1>1
  <2> HIDE DEF h
  <2> QED
    BY <1>0, <1>1, <2>0, <2>1, AttemptSilent DEF Running
<1>2. CASE ClaimReceipt(a)
  <2>1. PICK pc \in {"claimed", "refused"} :
          /\ attempt[a].pc \in Running /\ log' = log
          /\ attempt' = [attempt EXCEPT ![a].pc = pc]
    BY <1>2 DEF ClaimReceipt, Running
  <2> QED
    BY <1>1, <2>1
<1>3. CASE Abandon(a)
  BY <1>1, <1>3 DEF Abandon
<1>4. CASE ResolveRefused(a)
  <2> DEFINE verdict == Resolve(receipt[ScopeOf(a)], PrintOf(a))
             n == IF verdict = "recorded" THEN receipt[ScopeOf(a)].outcome ELSE 0
             h == [attempt[a] EXCEPT !.pc = verdict, !.sequence = n]
  <2>1. /\ verdict \in {"failed", "already_exists", "recorded"}
        /\ attempt[a].pc = "refused" /\ log' = log
        /\ attempt' = [attempt EXCEPT ![a] = h]
    BY <1>4 DEF ResolveRefused, Resolve
  <2>2. ScopeOf(a) \in Kinds \X Requests
    BY <1>0, <2>1, RunningType DEF TypeOK
  <2>3. n \in Nat
    BY <1>0, <2>2 DEF TypeOK, ReceiptOf
  <2> HIDE DEF verdict, n
  <2>4. h \in Handler /\ h.pc \notin {"idle", "ok"} /\ Continues(a, h)
    BY <1>0, <2>1, <2>3 DEF Handler, Continues, Running
  <2> HIDE DEF h
  <2> QED
    BY <1>0, <2>1, <2>4, AttemptSilent
<1> QED
  BY <1>0, <1>2, <1>3, <1>4, AuthorizeAsks, AppendPublishes, ReadBackTells DEF Handle

\* What happens around the attempts is a stutter.
LEMMA SurroundingsKeepPromise ==
  ASSUME \/ \E d \in Devices, r \in Role : ChangeRole(d, r)
         \/ \E d \in Devices : SetLeader(d)
         \/ \E m \in Mode : SetAuthorityMode(m)
         \/ \E s \in Kinds \X Requests : ExpireReceipt(s)
         \/ UNCHANGED vars
  PROVE  UNCHANGED Promise!vars
<1>1. log' = log /\ attempt' = attempt
  BY DEF ChangeRole, SetLeader, SetAuthorityMode, ExpireReceipt, vars
<1>2. Asked' = Asked
  BY <1>1 DEF Asked, Entry
<1>3. Told' = Told
  BY <1>1 DEF Told
<1> QED
  BY <1>1, <1>2, <1>3 DEF Promise!vars

\* The event an attempt was pointed at stays where it is.
LEMMA RecordedOwnKept ==
  ASSUME PromiseInv, [Next]_vars
  PROVE  RecordedOwn'
<1> SUFFICES ASSUME NEW a \in Attempts, attempt'[a].pc = "recorded"
             PROVE  /\ attempt'[a].sequence \in 1..Len(log')
                    /\ log'[attempt'[a].sequence].kind = attempt'[a].kind
                    /\ log'[attempt'[a].sequence].request = attempt'[a].request
  BY DEF RecordedOwn
<1>0. /\ TypeOK /\ ReceiptsMatchLog /\ RecordedOwn /\ attempt \in [Attempts -> Handler]
      /\ log \in Seq(Event) /\ attempt[a] \in Handler
  BY DEF PromiseInv, ReceiptInv, TypeOK
<1>1. Len(log) <= Len(log') /\ \A i \in 1..Len(log) : log'[i] = log[i]
  <2>1. CASE log' = log
    BY <1>0, <2>1
  <2>2. CASE log' # log
    <3>1. PICK b \in Attempts : AppendAuthorized(b)
      BY <2>2 DEF Next, Handle, Authorize, ClaimReceipt, ResolveRefused, ReadBack, Abandon,
                  ChangeRole, SetLeader, SetAuthorityMode, ExpireReceipt, vars
    <3>2. attempt[b].pc = "claimed" /\ log' = Append(log, Entry(b))
      BY <2>2, <3>1 DEF AppendAuthorized
    <3>3. Entry(b) \in Event
      BY <1>0, <3>2, RunningType
    <3> QED
      BY <1>0, <3>2, <3>3
  <2> QED
    BY <2>1, <2>2
<1>2. CASE attempt'[a] = attempt[a]
  BY <1>0, <1>1, <1>2 DEF RecordedOwn, TypeOK
<1>3. CASE attempt'[a] # attempt[a]
  <2>0. PICK b \in Attempts : Handle(b)
    BY <1>3 DEF Next, ChangeRole, SetLeader, SetAuthorityMode, ExpireReceipt, vars
  <2>01. b = a
    BY <1>0, <1>3, <2>0 DEF Handle, Authorize, ClaimReceipt, AppendAuthorized, ResolveRefused,
                            ReadBack, Abandon
  <2>02. ~(ClaimReceipt(a) \/ Abandon(a))
    BY <1>0 DEF ClaimReceipt, Abandon, Handler
  <2>03. ~AppendAuthorized(a)
    BY <1>0, ZenonT(30) DEF AppendAuthorized, Handler
  <2>04. ~ReadBack(a)
    BY <1>0 DEF ReadBack, Handler
  <2>05. \A k \in Kinds, d \in Devices, q \in Requests \cup {NoRequest}, v \in Payloads :
           ~Authorize(a, k, d, q, v)
    BY <1>0 DEF Authorize
  <2>1. ResolveRefused(a)
    BY <2>0, <2>01, <2>02, <2>03, <2>04, <2>05 DEF Handle
  <2> DEFINE r == receipt[ScopeOf(a)]
  <2>2. ScopeOf(a) \in Kinds \X Requests /\ attempt[a].pc = "refused" /\ log' = log
    BY <1>0, <2>1, RunningType DEF TypeOK, ResolveRefused
  <2>3. /\ Resolve(r, PrintOf(a)) = "recorded" /\ attempt'[a].sequence = r.outcome
        /\ attempt'[a].kind = attempt[a].kind /\ attempt'[a].request = attempt[a].request
    BY <1>0, <2>1 DEF ResolveRefused, Handler
  <2>4. r.status = "completed"
    BY <2>3 DEF Resolve
  <2>5. /\ r.outcome \in 1..Len(log)
        /\ log[r.outcome].kind = attempt[a].kind
        /\ log[r.outcome].request = attempt[a].request
    BY <1>0, <2>2, <2>4 DEF ReceiptsMatchLog, ScopeOf
  <2> QED
    BY <2>2, <2>3, <2>5
<1> QED
  BY <1>2, <1>3

\* The publishing RPCs implement OnceLog: with receipts, roles, retention and
\* half-finished attempts hidden, what remains is a log to which a request adds
\* one event at most, and answers about the caller's own request.
THEOREM PublicationKeepsPromise == Spec => KeepsPromise
<1>1. Init => PromiseInv /\ Promise!Init
  <2> SUFFICES ASSUME Init PROVE PromiseInv /\ Promise!Init
    OBVIOUS
  <2>1. /\ log = <<>> /\ Len(log) = 0 /\ \A a \in Attempts : attempt[a] = Idle
        /\ \A s \in Kinds \X Requests : receipt[s].status = "absent"
    BY DEF Init, Absent
  <2>2. ReceiptsMatchLog /\ RecordedOwn
    BY <2>1 DEF ReceiptsMatchLog, RecordedOwn, Idle
  <2>3. Asked = [a \in Attempts |-> Unasked] /\ Told = [a \in Attempts |-> 0]
    BY <2>1 DEF Asked, Told, Idle
  <2> QED
    BY <2>1, <2>2, <2>3, InitType DEF PromiseInv, ReceiptInv, Promise!Init
<1>2. PromiseInv /\ [Next]_vars => PromiseInv'
  <2> SUFFICES ASSUME PromiseInv, [Next]_vars PROVE PromiseInv'
    OBVIOUS
  <2>1. TypeOK'
    <3>1. CASE Next
      BY <3>1, HandleType, SurroundingsType DEF Next, PromiseInv, ReceiptInv
    <3>2. CASE UNCHANGED vars
      BY <3>2 DEF vars, TypeOK, Entry, PromiseInv, ReceiptInv
    <3> QED
      BY <3>1, <3>2
  <2> QED
    BY <2>1, StepMatches, RecordedOwnKept DEF PromiseInv, ReceiptInv
<1>3. PromiseInv /\ [Next]_vars => [Promise!Next]_(Promise!vars)
  BY HandleKeepsPromise, SurroundingsKeepPromise DEF Next
<1> QED
  BY <1>1, <1>2, <1>3, PTL DEF Spec, KeepsPromise, Promise!Spec

-----------------------------------------------------------------------------
(* Answers.                                                                *)

\* What one step may do to one attempt.
LEMMA AttemptStep ==
  ASSUME TypeOK, [Next]_vars, NEW b \in Attempts, attempt'[b] # attempt[b]
  PROVE  \/ \E k \in Kinds, d \in Devices, r \in Requests \cup {NoRequest}, v \in Payloads :
              Authorize(b, k, d, r, v)
         \/ /\ attempt[b].pc # "idle" /\ attempt'[b].pc \notin {"idle", "ok"}
            /\ Entry(b)' = Entry(b)
         \/ /\ attempt[b].pc # "idle" /\ attempt'[b].pc = "ok" /\ Entry(b)' = Entry(b)
            /\ \/ log' = Append(log, Entry(b)) /\ attempt'[b].sequence = Len(log) + 1
               \/ /\ ReadBack(b) /\ Found(attempt[b].sequence)
                  /\ attempt'[b].sequence = attempt[b].sequence
<1>0. /\ attempt \in [Attempts -> Handler] /\ attempt[b] \in Handler /\ Len(log) \in Nat
      /\ attempt[b].sequence \in Nat
  BY DEF TypeOK, Handler
<1>1. PICK a \in Attempts : Handle(a)
  BY DEF Next, ChangeRole, SetLeader, SetAuthorityMode, ExpireReceipt, vars
<1>2. a = b
  BY <1>0, <1>1 DEF Handle, Authorize, ClaimReceipt, AppendAuthorized, ResolveRefused,
                    ReadBack, Abandon
<1>3. CASE ClaimReceipt(b) \/ Abandon(b)
  <2>1. PICK pc \in {"claimed", "refused", "abandoned"} :
          attempt[b].pc # "idle" /\ attempt' = [attempt EXCEPT ![b].pc = pc]
    BY <1>3 DEF ClaimReceipt, Abandon, Running
  <2>2. attempt'[b].pc = pc /\ Entry(b)' = Entry(b)
    BY <1>0, <2>1 DEF Entry, Handler
  <2> QED
    BY <2>1, <2>2
<1>4. CASE AppendAuthorized(b)
  <2>1. CASE Gate(b) /\ AuthorizedActor(b)
    <3>1. /\ attempt[b].pc = "claimed" /\ log' = Append(log, Entry(b))
          /\ attempt' = [attempt EXCEPT ![b] =
                           [@ EXCEPT !.pc = "ok", !.sequence = Len(log) + 1]]
      BY <1>4, <2>1 DEF AppendAuthorized
    <3>2. /\ attempt'[b].pc = "ok" /\ attempt'[b].sequence = Len(log) + 1
          /\ Entry(b)' = Entry(b)
      BY <1>0, <3>1 DEF Entry, Handler
    <3> QED
      BY <3>1, <3>2
  <2>2. CASE ~(Gate(b) /\ AuthorizedActor(b))
    <3>1. PICK pc \in {"refused", "denied"} :
            attempt[b].pc # "idle" /\ attempt' = [attempt EXCEPT ![b].pc = pc]
      BY <1>4, <2>2 DEF AppendAuthorized
    <3>2. attempt'[b].pc = pc /\ Entry(b)' = Entry(b)
      BY <1>0, <3>1 DEF Entry, Handler
    <3> QED
      BY <3>1, <3>2
  <2> QED
    BY <2>1, <2>2
<1>5. CASE ResolveRefused(b)
  <2>1. PICK pc \in {"failed", "already_exists", "recorded"} : \E n :
          /\ attempt[b].pc # "idle"
          /\ attempt' = [attempt EXCEPT ![b] = [@ EXCEPT !.pc = pc, !.sequence = n]]
    BY <1>5 DEF ResolveRefused, Resolve
  <2>2. attempt'[b].pc = pc /\ Entry(b)' = Entry(b)
    BY <1>0, <2>1 DEF Entry, Handler
  <2> QED
    BY <2>1, <2>2
<1>6. CASE ReadBack(b)
  <2> DEFINE n == attempt[b].sequence
  <2>1. CASE Found(n)
    <3>1. /\ attempt[b].pc = "recorded"
          /\ attempt' = [attempt EXCEPT ![b] = [@ EXCEPT !.pc = "ok", !.sequence = n]]
      BY <1>0, <1>6, <2>1, FoundIsAsked DEF ReadBack
    <3>2. attempt'[b].pc = "ok" /\ attempt'[b].sequence = n /\ Entry(b)' = Entry(b)
      BY <1>0, <3>1 DEF Entry, Handler
    <3> QED
      BY <1>6, <2>1, <3>1, <3>2
  <2>2. CASE ~Found(n)
    <3>1. /\ attempt[b].pc = "recorded"
          /\ attempt' = [attempt EXCEPT ![b] = [@ EXCEPT !.pc = "failed", !.sequence = 0]]
      BY <1>6, <2>2 DEF ReadBack
    <3>2. attempt'[b].pc = "failed" /\ Entry(b)' = Entry(b)
      BY <1>0, <3>1 DEF Entry, Handler
    <3> QED
      BY <3>1, <3>2
  <2> QED
    BY <2>1, <2>2
<1> QED
  BY <1>1, <1>2, <1>3, <1>4, <1>5, <1>6 DEF Handle

\* A client that does not reuse its ids means one thing by each of them: the
\* attempts of one id are one request.
OneMeaning ==
  \A a, b \in Attempts :
    (/\ attempt[a].pc # "idle" /\ attempt[b].pc # "idle"
     /\ attempt[a].request # NoRequest /\ attempt[a].request = attempt[b].request
     /\ attempt[a].kind = attempt[b].kind) => Entry(a) = Entry(b)

\* Every event of a request is what one of its attempts asked for.
EventsWereAsked ==
  \A i \in 1..Len(log) : log[i].request # NoRequest =>
    \E b \in Attempts : attempt[b].pc # "idle" /\ log[i] = Entry(b)

\* An acknowledged attempt names an event of the log.
AckedInLog ==
  \A a \in Attempts : attempt[a].pc = "ok" => attempt[a].sequence \in 1..Len(log)

\* The inductive invariant.  AckedIsMine alone is not one: an attempt answered
\* from a receipt is handed whatever event the receipt names, so that event has
\* to be of the same request, and the request has to mean one thing.
AnswerInv ==
  PromiseInv /\ OneMeaning /\ EventsWereAsked /\ AckedIsMine /\ AckedInLog

\* An attempt under way stays under way, for the same request.
LEMMA AskedStays ==
  ASSUME TypeOK, [Next]_vars, NEW b \in Attempts, attempt[b].pc # "idle"
  PROVE  attempt'[b].pc # "idle" /\ Entry(b)' = Entry(b)
<1>1. CASE attempt'[b] = attempt[b]
  BY <1>1 DEF Entry
<1>2. CASE attempt'[b] # attempt[b]
  BY <1>2, AttemptStep DEF Authorize
<1> QED
  BY <1>1, <1>2

\* The log only grows, and by the entry of an attempt under way.
LEMMA LogStep ==
  ASSUME TypeOK, [Next]_vars
  PROVE  /\ Len(log) \in Nat
         /\ \A i \in 1..Len(log) : log'[i] = log[i]
         /\ \/ log' = log
            \/ \E b \in Attempts : /\ attempt[b].pc # "idle"
                                   /\ Len(log') = Len(log) + 1
                                   /\ log'[Len(log) + 1] = Entry(b)
<1>0. log \in Seq(Event) /\ Len(log) \in Nat
  BY DEF TypeOK
<1>1. CASE log' = log
  BY <1>0, <1>1
<1>2. CASE log' # log
  <2>1. PICK b \in Attempts : AppendAuthorized(b)
    BY <1>2 DEF Next, Handle, Authorize, ClaimReceipt, ResolveRefused, ReadBack, Abandon,
                ChangeRole, SetLeader, SetAuthorityMode, ExpireReceipt, vars
  <2>2. attempt[b].pc = "claimed" /\ log' = Append(log, Entry(b))
    BY <1>2, <2>1 DEF AppendAuthorized
  <2>3. Entry(b) \in Event
    BY <2>2, RunningType
  <2> QED
    BY <1>0, <2>2, <2>3, AppendKeeps
<1> QED
  BY <1>1, <1>2

\* With ids that are not reused, an id keeps its one meaning.
LEMMA OneMeaningKept ==
  ASSUME ~ReusedIds, TypeOK, OneMeaning, [Next]_vars
  PROVE  OneMeaning'
<1>0. attempt \in [Attempts -> Handler]
  BY DEF TypeOK
<1>1. ASSUME NEW a \in Attempts, NEW b \in Attempts,
             attempt[a].pc = "idle", attempt'[a].pc # "idle", attempt'[b].pc # "idle",
             attempt'[a].request # NoRequest, attempt'[a].request = attempt'[b].request,
             attempt'[a].kind = attempt'[b].kind
      PROVE  Entry(a)' = Entry(b)'
  <2>1. PICK k \in Kinds, d \in Devices, r \in Requests \cup {NoRequest}, v \in Payloads :
          Authorize(a, k, d, r, v)
    BY <1>1, AttemptStep
  <2>2. /\ attempt'[a] = [pc |-> "authorized", kind |-> k, device |-> d, request |-> r,
                          payload |-> v, sequence |-> 0]
        /\ b # a => attempt'[b] = attempt[b]
    BY <1>0, <2>1 DEF Authorize
  <2>3. r # NoRequest
    BY <1>1, <2>2
  <2>4. b # a => SameRequest(b, k, d, v) /\ attempt[b].kind = k /\ attempt[b].request = r
    BY <1>1, <2>1, <2>2, <2>3 DEF Authorize
  <2>5. b # a => attempt[b].device = d /\ attempt[b].payload = v
    BY <2>4 DEF SameRequest
  <2> QED
    BY <2>2, <2>4, <2>5 DEF Entry
<1> SUFFICES ASSUME NEW a \in Attempts, NEW b \in Attempts,
                    attempt'[a].pc # "idle", attempt'[b].pc # "idle",
                    attempt'[a].request # NoRequest, attempt'[a].request = attempt'[b].request,
                    attempt'[a].kind = attempt'[b].kind
             PROVE  Entry(a)' = Entry(b)'
  BY DEF OneMeaning
<1>2. CASE attempt[a].pc = "idle"
  BY <1>1, <1>2
<1>3. CASE attempt[b].pc = "idle"
  BY <1>1, <1>3
<1>4. CASE attempt[a].pc # "idle" /\ attempt[b].pc # "idle"
  <2>1. Entry(a)' = Entry(a) /\ Entry(b)' = Entry(b)
    BY <1>4, AskedStays
  <2>2. /\ attempt'[a].request = attempt[a].request /\ attempt'[b].request = attempt[b].request
        /\ attempt'[a].kind = attempt[a].kind /\ attempt'[b].kind = attempt[b].kind
    BY <2>1 DEF Entry
  <2> QED
    BY <1>4, <2>1, <2>2 DEF OneMeaning
<1> QED
  BY <1>2, <1>3, <1>4

\* Events stay what was asked for.
LEMMA EventsWereAskedKept ==
  ASSUME TypeOK, EventsWereAsked, [Next]_vars
  PROVE  EventsWereAsked'
<1> SUFFICES ASSUME NEW i \in 1..Len(log'), log'[i].request # NoRequest
             PROVE  \E b \in Attempts : attempt'[b].pc # "idle" /\ log'[i] = Entry(b)'
  BY DEF EventsWereAsked
<1>1. PICK b \in Attempts : attempt[b].pc # "idle" /\ log'[i] = Entry(b)
  <2>1. CASE i \in 1..Len(log)
    BY <2>1, LogStep DEF EventsWereAsked
  <2>2. CASE i \notin 1..Len(log)
    BY <2>2, LogStep
  <2> QED
    BY <2>1, <2>2
<1> QED
  BY <1>1, AskedStays

\* An answer stays the caller's own event, and a new one is.
LEMMA AckedIsMineKept ==
  ASSUME AnswerInv, [Next]_vars
  PROVE  AckedIsMine' /\ AckedInLog'
<1>0. /\ TypeOK /\ RecordedOwn /\ OneMeaning /\ EventsWereAsked /\ AckedIsMine
      /\ AckedInLog /\ Len(log) \in Nat
  BY LogStep DEF AnswerInv, PromiseInv, ReceiptInv
<1> SUFFICES ASSUME NEW a \in Attempts, attempt'[a].pc = "ok"
             PROVE  /\ log'[attempt'[a].sequence] = Entry(a)'
                    /\ attempt'[a].sequence \in 1..Len(log')
  BY DEF AckedIsMine, AckedInLog
<1>1. CASE attempt'[a] = attempt[a]
  <2>1. log[attempt[a].sequence] = Entry(a) /\ Entry(a)' = Entry(a)
    BY <1>0, <1>1 DEF AckedIsMine, Entry
  <2>2. attempt[a].sequence \in 1..Len(log)
    BY <1>0, <1>1 DEF AckedInLog
  <2> QED
    BY <1>0, <1>1, <2>1, <2>2, LogStep
<1>2. CASE attempt'[a] # attempt[a]
  <2>0. /\ attempt[a].pc # "idle" /\ Entry(a)' = Entry(a)
        /\ \/ log' = Append(log, Entry(a)) /\ attempt'[a].sequence = Len(log) + 1
           \/ /\ ReadBack(a) /\ Found(attempt[a].sequence)
              /\ attempt'[a].sequence = attempt[a].sequence
    <3>1. \A k \in Kinds, d \in Devices, r \in Requests \cup {NoRequest}, v \in Payloads :
            ~Authorize(a, k, d, r, v)
      BY <1>0 DEF Authorize, TypeOK
    <3> QED
      BY <1>0, <1>2, <3>1, AttemptStep
  <2>1. CASE log' = Append(log, Entry(a)) /\ attempt'[a].sequence = Len(log) + 1
    <3>1. Entry(a) \in Event /\ log \in Seq(Event)
      BY <1>0, <2>0, RunningType DEF TypeOK
    <3> QED
      BY <1>0, <2>0, <2>1, <3>1, AppendKeeps
  <2>2. CASE ReadBack(a) /\ attempt'[a].sequence = attempt[a].sequence
    <3> DEFINE n == attempt[a].sequence
    <3>1. attempt[a].pc = "recorded" /\ log' = log /\ attempt[a].request # NoRequest
      BY <1>0, <2>2 DEF ReadBack, TypeOK
    <3>2. /\ n \in 1..Len(log) /\ log[n].kind = attempt[a].kind
          /\ log[n].request = attempt[a].request
      BY <1>0, <3>1 DEF RecordedOwn
    <3>3. PICK b \in Attempts : attempt[b].pc # "idle" /\ log[n] = Entry(b)
      BY <1>0, <3>1, <3>2 DEF EventsWereAsked
    <3>4. attempt[b].request = attempt[a].request /\ attempt[b].kind = attempt[a].kind
      BY <3>2, <3>3 DEF Entry
    <3>5. Entry(a) = Entry(b)
      BY <1>0, <3>1, <3>3, <3>4 DEF OneMeaning
    <3> QED
      BY <2>0, <2>2, <3>1, <3>2, <3>3, <3>5
  <2> QED
    BY <2>0, <2>1, <2>2
<1> QED
  BY <1>1, <1>2

\* An acknowledged attempt was told of the event it asked for, whatever raced
\* with it, provided that clients do not reuse request ids for other requests.
THEOREM AcksOwn == ~ReusedIds /\ Spec => []AckedIsMine
<1> SUFFICES ASSUME ~ReusedIds PROVE Spec => []AckedIsMine
  OBVIOUS
<1>1. Init => AnswerInv
  <2> SUFFICES ASSUME Init PROVE AnswerInv
    OBVIOUS
  <2>1. Len(log) = 0 /\ \A a \in Attempts : attempt[a].pc = "idle"
    BY DEF Init, Idle
  <2>2. ReceiptsMatchLog
    BY <2>1 DEF Init, Absent, ReceiptsMatchLog
  <2>3. RecordedOwn /\ OneMeaning /\ EventsWereAsked /\ AckedIsMine /\ AckedInLog
    BY <2>1 DEF RecordedOwn, OneMeaning, EventsWereAsked, AckedIsMine, AckedInLog
  <2> QED
    BY <2>2, <2>3, InitType DEF AnswerInv, PromiseInv, ReceiptInv
<1>2. AnswerInv /\ [Next]_vars => AnswerInv'
  <2> SUFFICES ASSUME AnswerInv, [Next]_vars PROVE AnswerInv'
    OBVIOUS
  <2>0. PromiseInv /\ ReceiptInv /\ TypeOK /\ OneMeaning /\ EventsWereAsked
    BY DEF AnswerInv, PromiseInv, ReceiptInv
  <2>1. TypeOK'
    <3>1. CASE Next
      BY <2>0, <3>1, HandleType, SurroundingsType DEF Next
    <3>2. CASE UNCHANGED vars
      BY <2>0, <3>2 DEF vars, TypeOK, Entry
    <3> QED
      BY <3>1, <3>2
  <2>2. PromiseInv'
    BY <2>0, <2>1, StepMatches, RecordedOwnKept DEF PromiseInv, ReceiptInv
  <2> QED
    BY <2>0, <2>2, OneMeaningKept, EventsWereAskedKept, AckedIsMineKept DEF AnswerInv
<1>3. AnswerInv => AckedIsMine
  BY DEF AnswerInv
<1> QED
  BY <1>1, <1>2, <1>3, PTL DEF Spec
=============================================================================
