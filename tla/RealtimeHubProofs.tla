------------------------- MODULE RealtimeHubProofs --------------------------
(***************************************************************************)
(* Theorems about RealtimeHub for any number of processes, connections and *)
(* publishing handlers and any window.                                     *)
(***************************************************************************)
EXTENDS RealtimeHub, FiniteSetTheorems, WellFoundedInduction, TLAPS

-----------------------------------------------------------------------------
(* The operators of ReplayWindow.                                          *)

\* Every non-empty set of naturals has a least element.
LEMMA LeastExists ==
  ASSUME NEW T, T \subseteq Nat, T # {}
  PROVE  \E x \in T : \A y \in T : x <= y
<1> DEFINE R == {ss \in Nat \X Nat : ss[1] < ss[2]}
<1>1. IsWellFoundedOn(R, Nat)
  <2>1. OpToRel(<, Nat) = R
    BY Zenon DEF OpToRel
  <2> QED
    BY Zenon, <2>1, NatLessThanWellFounded
<1> HIDE DEF R
<1>2. PICK x \in T : \A y \in T : <<y, x>> \notin R
  BY <1>1, WFMin, Zenon
<1>3. \A y \in T : ~ (y < x)
  BY <1>2 DEF R
<1> QED
  BY <1>2, <1>3

\* A non-empty set of numbers up to a bound has a greatest element.
LEMMA GreatestExists ==
  ASSUME NEW n \in Nat, NEW T, T \subseteq 0..n, T # {}
  PROVE  \E x \in T : \A y \in T : y <= x
<1> DEFINE U == {n - t : t \in T}
<1>1. U \subseteq Nat
  <2> SUFFICES ASSUME NEW t \in T PROVE n - t \in Nat
    OBVIOUS
  <2>1. t \in 0..n
    OBVIOUS
  <2> QED
    BY <2>1
<1>2. PICK u \in U : \A v \in U : u <= v
  <2>1. U # {}
    OBVIOUS
  <2> HIDE DEF U
  <2> QED
    BY <1>1, <2>1, LeastExists
<1>3. PICK x \in T : u = n - x
  BY <1>2
<1>4. \A y \in T : u <= n - y
  BY <1>2
<1>5. \A y \in T : y \in Nat /\ x \in Nat
  BY <1>3
<1> QED
  BY <1>3, <1>4, <1>5

\* The oldest retained row is a row and no row is older.
LEMMA OldestIsLeast ==
  ASSUME NEW S, S \subseteq Nat, S # {}
  PROVE  Oldest(S) \in S /\ \A s \in S : Oldest(S) <= s
BY LeastExists DEF Oldest

\* The cursor after a page is the base or the last event of the page.
LEMMA HighestIsGreatest ==
  ASSUME NEW n \in Nat, NEW base, NEW page, page \subseteq 0..n
  PROVE  /\ page = {} => Highest(base, page) = base
         /\ page # {} => /\ Highest(base, page) \in page
                         /\ \A s \in page : s <= Highest(base, page)
<1>1. CASE page = {}
  BY <1>1 DEF Highest
<1>2. CASE page # {}
  BY <1>2, GreatestExists DEF Highest
<1> QED
  BY <1>1, <1>2

\* A replay's page holds rows above the cursor, and its edge is a row.
LEMMA ReplayType ==
  ASSUME NEW S, S \subseteq Sequence, MaxSequence \in Nat,
         NEW after, NEW limit
  PROVE  Replay(S, after, limit) \in Answer
<1>1. S # {} => Oldest(S) \in Sequence
  <2>1. S \subseteq Nat
    BY DEF Sequence
  <2> QED
    BY <2>1, OldestIsLeast
<1>2. Above(S, after) # {} => S # {}
  BY DEF Above
<1>3. FirstAbove(S, after, limit) \in SUBSET Sequence
  BY DEF FirstAbove, Above
<1> QED
  BY <1>1, <1>2, <1>3 DEF Replay, Answer, NoEdge, Sequence

-----------------------------------------------------------------------------
(* Type correctness.                                                       *)

\* Offering a page keeps a listener a listener.
LEMMA OfferAllType ==
  ASSUME NEW k \in Listener, NEW page \in SUBSET Sequence
  PROVE  /\ OfferAll(k, page) \in Listener
         /\ OfferSends(k, page) \in SUBSET Sequence
<1> DEFINE fresh == Above(page, k.sentThrough)
<1>1. fresh \in SUBSET Sequence
  BY DEF Above
<1>2. Sequence \subseteq 0..MaxSequence /\ MaxSequence \in Nat
  BY HubAssumption DEF Sequence
<1>3. Highest(k.sentThrough, fresh) \in 0..MaxSequence
  <2>1. k.sentThrough \in 0..MaxSequence
    BY DEF Listener
  <2> HIDE DEF fresh
  <2>2. fresh \subseteq 0..MaxSequence
    BY <1>1, <1>2
  <2> QED
    BY <2>1, <2>2, <1>2, HighestIsGreatest
<1>4. Buffer(k.buffered, fresh) \in SUBSET Sequence
  BY <1>1 DEF Buffer, Listener
<1>5. [k EXCEPT !.buffered = Buffer(k.buffered, fresh)] \in Listener
  <2> HIDE DEF fresh
  <2> QED
    BY <1>4 DEF Listener
<1>6. [k EXCEPT !.sentThrough = Highest(k.sentThrough, fresh)] \in Listener
  <2> HIDE DEF fresh
  <2> QED
    BY <1>3 DEF Listener
<1>7. OfferAll(k, page) = IF Replaying(k)
                          THEN [k EXCEPT !.buffered = Buffer(k.buffered, fresh)]
                          ELSE [k EXCEPT !.sentThrough = Highest(k.sentThrough, fresh)]
  BY DEF OfferAll
<1>8. OfferSends(k, page) \in SUBSET Sequence
  BY <1>1 DEF OfferSends
<1> HIDE DEF fresh
<1> QED
  BY <1>5, <1>6, <1>7, <1>8

\* Counting a page keeps a history a history.
LEMMA SendingType ==
  ASSUME NEW f \in [Sequence -> Nat], NEW page
  PROVE  Sending(f, page) \in [Sequence -> Nat]
BY DEF Sending

\* The fixed records are of their types.
LEMMA ConstantTypes ==
  /\ MaxSequence \in Nat
  /\ NoAnswer \in Answer
  /\ IdlePub \in Handler
  /\ Closed \in Listener
  /\ IdleDrain \in RemoteDrain
  /\ Nothing \in [Sequence -> Nat]
<1>1. NoAnswer \in Answer
  BY HubAssumption DEF NoAnswer, Answer, NoEdge
<1> QED
  BY <1>1, HubAssumption
  DEF IdlePub, Handler, Closed, Listener, IdleDrain, RemoteDrain, Nothing

\* The lowest cursor of a process's listeners is one of their cursors.
LEMMA LowestCursorType ==
  ASSUME TypeOK, NEW h \in Hubs, Registered(h) # {}
  PROVE  /\ LowestCursor(h) \in 0..MaxSequence
         /\ \A c \in Registered(h) : LowestCursor(h) <= conn[c].sentThrough
<1> DEFINE T == {conn[c].sentThrough : c \in Registered(h)}
<1>1. T \subseteq 0..MaxSequence
  BY DEF TypeOK, Registered, Listener
<1>2. T # {}
  OBVIOUS
<1>3. \A m : (\A c \in Registered(h) : m <= conn[c].sentThrough)
               <=> (\A y \in T : m <= y)
  OBVIOUS
<1>4. LowestCursor(h) = CHOOSE m \in T : \A c \in Registered(h) : m <= conn[c].sentThrough
  BY DEF LowestCursor
<1> HIDE DEF T
<1>5. T \subseteq Nat
  BY <1>1, ConstantTypes
<1>6. \E m \in T : \A c \in Registered(h) : m <= conn[c].sentThrough
  BY <1>2, <1>3, <1>5, LeastExists
<1>7. /\ LowestCursor(h) \in T
      /\ \A c \in Registered(h) : LowestCursor(h) <= conn[c].sentThrough
  BY <1>4, <1>6
<1> QED
  BY <1>1, <1>7

\* Every step of a publishing handler keeps the types.
LEMMA PublishType ==
  ASSUME TypeOK, NEW p \in Pubs, Publish(p)
  PROVE  TypeOK'
<1> USE DEF TypeOK
<1>1. ASSUME NEW h \in Hubs, Append1(p, h) PROVE TypeOK'
  BY <1>1, ConstantTypes DEF Append1, Handler, Sequence, drainVars
<1>2. ASSUME NEW h \in Hubs, AppendAuthorized(p, h) PROVE TypeOK'
  <2>1. lastSequence + 1 \in Sequence
    BY <1>2, ConstantTypes DEF AppendAuthorized, Sequence
  <2>2. rows' \subseteq Sequence
    BY <1>2, <2>1 DEF AppendAuthorized, Prune
  <2>3. lastSequence + 1 \in 0..MaxSequence
    BY <2>1, ConstantTypes DEF Sequence
  <2> QED
    BY <1>2, <2>1, <2>2, <2>3 DEF AppendAuthorized, Handler, drainVars
<1>3. ASSUME NEW h \in Hubs, ReplayAuthorized(p, h) PROVE TypeOK'
  BY <1>3, HubAssumption DEF ReplayAuthorized, Handler, Sequence, drainVars
<1>4. ASSUME PruneStep(p) PROVE TypeOK'
  BY <1>4, ConstantTypes DEF PruneStep, Handler, Sequence, drainVars, Prune
<1>5. ASSUME Dispatch(p) PROVE TypeOK'
  <2> DEFINE s == pub[p].sequence
             h == pub[p].hub
  <2>1. {s} \in SUBSET Sequence
    BY <1>5 DEF Dispatch
  <2>2. conn' \in [Conns -> Listener]
    BY <1>5, <2>1, OfferAllType DEF Dispatch
  <2>3. sent' \in [Conns -> [Sequence -> Nat]]
    BY <1>5, SendingType DEF Dispatch
  <2>4. wire' \subseteq [to : Hubs, sequence : Sequence]
    BY <1>5, <2>1 DEF Dispatch, Announcement
  <2>5. /\ pub' \in [Pubs -> Handler]
        /\ \A q \in Pubs : pub'[q].pc # "idle" => pub'[q].sequence \in Sequence
    BY <1>5, ConstantTypes DEF Dispatch, IdlePub
  <2> QED
    BY <1>5, <2>2, <2>3, <2>4, <2>5 DEF Dispatch, storeVars
<1> QED
  BY <1>1, <1>2, <1>3, <1>4, <1>5 DEF Publish

\* Every step of a subscription keeps the types.
LEMMA ConnectionType ==
  ASSUME TypeOK, NEW c \in Conns, Connection(c)
  PROVE  TypeOK'
<1> USE DEF TypeOK
<1>1. ASSUME NEW h \in Hubs, NEW a \in 0..lastSequence, Subscribe(c, h, a)
      PROVE  TypeOK'
  <2>1. a \in 0..MaxSequence
    BY ConstantTypes
  <2>2. [Closed EXCEPT !.status = "replaying", !.open = TRUE, !.hub = h,
                       !.after = a, !.sentThrough = a] \in Listener
    BY <2>1, ConstantTypes DEF Listener
  <2> QED
    BY <1>1, <2>2, ConstantTypes DEF Subscribe, storeVars, drainVars
<1>2. ASSUME ReadReplay(c) PROVE TypeOK'
  <2>1. Replay(rows, conn[c].after, ReplayLimit) \in Answer
    BY ReplayType, ConstantTypes
  <2> DEFINE k == [conn[c] EXCEPT !.status = "answered",
                         !.answer = Replay(rows, conn[c].after, ReplayLimit)]
  <2>3. conn[c] \in Listener
    OBVIOUS
  <2>4. k \in Listener
    BY <2>1, <2>3 DEF Listener
  <2>5. conn' = [conn EXCEPT ![c] = k]
    BY <1>2 DEF ReadReplay
  <2> HIDE DEF k
  <2>2. conn' \in [Conns -> Listener]
    BY <2>4, <2>5
  <2> QED
    BY <1>2, <2>2 DEF ReadReplay, storeVars, drainVars
<1>3. ASSUME ReadReplayFails(c) PROVE TypeOK'
  BY <1>3, ConstantTypes DEF ReadReplayFails, storeVars, drainVars
<1>4. ASSUME FlushReplay(c) PROVE TypeOK'
  <2> DEFINE k == conn[c]
             live == [k EXCEPT !.status = "live", !.buffered = {}, !.answer = NoAnswer]
             last == Highest(ReplayedThrough(k), Flushed(k))
             resync == ResyncNeeded(k.after, k.answer.earliest)
             after == IF ~k.open THEN Closed
                      ELSE IF resync THEN [live EXCEPT !.resynced = TRUE]
                      ELSE [live EXCEPT !.sentThrough = last]
  <2>1. k \in Listener /\ k.answer.events \in SUBSET Sequence
    BY DEF Listener, Answer
  <2>2. Sequence \subseteq 0..MaxSequence
    BY DEF Sequence
  <2>3. ReplayedThrough(k) \in 0..MaxSequence
    BY <2>1, <2>2, ConstantTypes, HighestIsGreatest DEF ReplayedThrough, Listener
  <2>4. Flushed(k) \subseteq Sequence
    BY <2>1 DEF Flushed, Above, Listener
  <2>5. last \in 0..MaxSequence
    BY <2>2, <2>3, <2>4, ConstantTypes, HighestIsGreatest
  <2>6. live \in Listener
    BY <2>1, ConstantTypes DEF Listener
  <2>7. /\ conn' = [conn EXCEPT ![c] = after]
        /\ sent' = [sent EXCEPT ![c] =
                      IF resync \/ ~k.open THEN Nothing
                      ELSE Sending(Sending(sent[c], k.answer.events), Flushed(k))]
        /\ UNCHANGED <<pub, listening, storeVars, drainVars>>
    BY <1>4 DEF FlushReplay
  <2> HIDE DEF k, live, last, resync
  <2>8. after \in Listener
    BY <2>5, <2>6, ConstantTypes DEF Listener
  <2>9. Sending(Sending(sent[c], k.answer.events), Flushed(k)) \in [Sequence -> Nat]
    BY SendingType
  <2> HIDE DEF after
  <2> QED
    BY <2>7, <2>8, <2>9, ConstantTypes DEF storeVars, drainVars
<1>5. ASSUME Close(c) PROVE TypeOK'
  <2>1. [conn[c] EXCEPT !.open = FALSE] \in Listener
    <3>1. conn[c] \in Listener
      OBVIOUS
    <3> QED
      BY <3>1 DEF Listener
  <2> QED
    BY <1>5, <2>1, ConstantTypes DEF Close, storeVars, drainVars
<1> QED
  BY <1>1, <1>2, <1>3, <1>4, <1>5 DEF Connection

\* Every step of a process, its crash included, keeps the types.
LEMMA ProcessType ==
  ASSUME TypeOK, NEW h \in Hubs, Process(h)
  PROVE  TypeOK'
<1> USE DEF TypeOK
<1>1. ASSUME ConnectFanout(h) PROVE TypeOK'
  BY <1>1 DEF ConnectFanout, storeVars, drainVars
<1>2. ASSUME StartDrain(h) PROVE TypeOK'
  <2>1. pending' \in [Hubs -> Seq(Sequence)]
    BY <1>2 DEF StartDrain
  <2>2. Head(pending[h]) \in 0..MaxSequence
    <3>1. pending[h] \in Seq(Sequence) /\ pending[h] # <<>>
      BY <1>2 DEF StartDrain
    <3>2. Head(pending[h]) \in Sequence
      BY <3>1
    <3> QED
      BY <3>2, ConstantTypes DEF Sequence
  <2>3. drain' \in [Hubs -> RemoteDrain]
    <3>1. CASE Registered(h) = {} \/ Head(pending[h]) <= LowestCursor(h)
      BY <1>2, <3>1 DEF StartDrain
    <3>2. CASE ~(Registered(h) = {} \/ Head(pending[h]) <= LowestCursor(h))
      <4>1. LowestCursor(h) \in 0..MaxSequence
        BY <3>2, LowestCursorType
      <4>2. [pc |-> "reading", announced |-> Head(pending[h]),
             cursor |-> LowestCursor(h), answer |-> NoAnswer] \in RemoteDrain
        BY <4>1, <2>2, ConstantTypes DEF RemoteDrain
      <4> QED
        BY <1>2, <3>2, <4>2 DEF StartDrain
    <3> QED
      BY <3>1, <3>2
  <2> QED
    BY <1>2, <2>1, <2>3 DEF StartDrain, storeVars
<1>3. ASSUME ReadDrain(h) PROVE TypeOK'
  <2>1. Replay(rows, drain[h].cursor, ReplayLimit) \in Answer
    BY ReplayType, ConstantTypes
  <2>2. drain' \in [Hubs -> RemoteDrain]
    BY <1>3, <2>1 DEF ReadDrain, RemoteDrain
  <2> QED
    BY <1>3, <2>2 DEF ReadDrain, storeVars
<1>4. ASSUME ReadDrainFails(h) PROVE TypeOK'
  BY <1>4, ConstantTypes DEF ReadDrainFails, storeVars
<1>5. ASSUME DeliverDrain(h) PROVE TypeOK'
  <2> DEFINE d == drain[h]
             Through(k) == IF ToldToResync(k, d) THEN SkipTo(k, d.announced) ELSE k
  <2>1. d.answer.events \in SUBSET Sequence /\ d.announced \in 0..MaxSequence
    BY DEF RemoteDrain, Answer
  <2>2. \A k \in Listener : Through(k) \in Listener
    BY <2>1 DEF SkipTo, Listener
  <2>3. /\ conn' = [x \in Conns |->
                      IF x \in Registered(h) THEN OfferAll(Through(conn[x]), d.answer.events)
                      ELSE conn[x]]
        /\ sent' = [x \in Conns |->
                      IF x \in Registered(h)
                      THEN Sending(sent[x], OfferSends(Through(conn[x]), d.answer.events))
                      ELSE sent[x]]
        /\ drain' = [drain EXCEPT ![h] = IdleDrain]
        /\ UNCHANGED <<pub, listening, wire, pending, storeVars>>
    BY <1>5 DEF DeliverDrain
  <2> HIDE DEF Through, d
  <2>4. conn' \in [Conns -> Listener]
    BY <2>1, <2>2, <2>3, OfferAllType
  <2>5. sent' \in [Conns -> [Sequence -> Nat]]
    BY <2>3, SendingType
  <2> QED
    BY <2>3, <2>4, <2>5, ConstantTypes DEF storeVars
<1>6. ASSUME Crash(h) PROVE TypeOK'
  <2>1. pending' \in [Hubs -> Seq(Sequence)]
    BY <1>6 DEF Crash
  <2> QED
    BY <1>6, <2>1, ConstantTypes DEF Crash, storeVars, IdlePub
<1> QED
  BY <1>1, <1>2, <1>3, <1>4, <1>5, <1>6 DEF Process

\* Every step of the carrier keeps the types.
LEMMA CarrierType ==
  ASSUME TypeOK, Carrier
  PROVE  TypeOK'
<1> USE DEF TypeOK
<1>1. ASSUME NEW n \in wire, AcceptRemote(n) PROVE TypeOK'
  <2>1. n.to \in Hubs /\ n.sequence \in Sequence
    OBVIOUS
  <2>2. pending' \in [Hubs -> Seq(Sequence)]
    BY <1>1, <2>1 DEF AcceptRemote
  <2> QED
    BY <1>1, <2>2 DEF AcceptRemote, storeVars
<1>2. ASSUME NEW n \in wire, LoseAnnouncement(n) PROVE TypeOK'
  BY <1>2 DEF LoseAnnouncement, storeVars
<1> QED
  BY <1>1, <1>2 DEF Carrier

\* The log, the handlers, the listeners and the drains have their types in every
\* reachable state of RealtimeHub.
THEOREM TypeCorrect == Spec => []TypeOK
<1>1. Init => TypeOK
  BY ConstantTypes, HubAssumption DEF Init, TypeOK, IdlePub
<1>2. TypeOK /\ [Next]_vars => TypeOK'
  <2> SUFFICES ASSUME TypeOK, [Next]_vars PROVE TypeOK'
    OBVIOUS
  <2>1. CASE Next
    BY <2>1, PublishType, ConnectionType, ProcessType, CarrierType DEF Next
  <2>2. CASE UNCHANGED vars
    BY <2>2 DEF vars, TypeOK
  <2> QED
    BY <2>1, <2>2
<1> QED
  BY <1>1, <1>2, PTL DEF Spec

-----------------------------------------------------------------------------
(* Retention.                                                              *)

\* The DELETE of a publication is computed from the sequence that publication
\* was given, which later ones have passed by the time it runs: no handler is
\* ahead of the allocator, and no row is.
LogBehind ==
  /\ \A s \in rows : s <= lastSequence
  /\ \A p \in Pubs : pub[p].sequence <= lastSequence

WindowInv == TypeOK /\ LogBehind /\ WindowIntact

\* A step that leaves the log and the handlers alone keeps the window.
LEMMA WindowUntouched ==
  ASSUME WindowInv, UNCHANGED <<lastSequence, rows>>,
         \A p \in Pubs : pub'[p] \in {pub[p], IdlePub}
  PROVE  LogBehind' /\ WindowIntact'
<1>1. lastSequence \in Nat
  BY ConstantTypes DEF WindowInv, TypeOK
<1> QED
  BY <1>1 DEF WindowInv, LogBehind, WindowIntact, IdlePub

\* The window holds in every reachable state, with what it takes to keep it.
LEMMA WindowHolds == Spec => []WindowInv
<1>1. Init => LogBehind /\ WindowIntact
  BY DEF Init, LogBehind, WindowIntact, IdlePub
<1>2. WindowInv /\ [Next]_vars => (LogBehind /\ WindowIntact)'
  <2> SUFFICES ASSUME WindowInv, [Next]_vars PROVE LogBehind' /\ WindowIntact'
    OBVIOUS
  <2> USE DEF WindowInv
  <2>0. /\ lastSequence \in Nat /\ HistoryLimit \in Nat \ {0}
        /\ \A s \in rows : s \in Nat
        /\ \A p \in Pubs : pub[p].sequence \in Nat
        /\ pub \in [Pubs -> Handler]
    BY HubAssumption DEF TypeOK, Sequence, Handler
  <2>1. ASSUME NEW p \in Pubs, NEW h \in Hubs, Append1(p, h)
        PROVE  LogBehind' /\ WindowIntact'
    BY <2>0, <2>1 DEF Append1, LogBehind, WindowIntact
  <2>2. ASSUME NEW p \in Pubs, NEW h \in Hubs, AppendAuthorized(p, h)
        PROVE  LogBehind' /\ WindowIntact'
    <3>1. LogBehind'
      BY <2>0, <2>2 DEF AppendAuthorized, LogBehind, Prune
    <3>2. WindowIntact'
      BY <2>0, <2>2 DEF AppendAuthorized, WindowIntact, Prune
    <3> QED
      BY <3>1, <3>2
  <2>3. ASSUME NEW p \in Pubs, NEW h \in Hubs, ReplayAuthorized(p, h)
        PROVE  LogBehind' /\ WindowIntact'
    BY <2>0, <2>3 DEF ReplayAuthorized, LogBehind, WindowIntact
  <2>4. ASSUME NEW p \in Pubs, PruneStep(p)
        PROVE  LogBehind' /\ WindowIntact'
    <3>1. LogBehind'
      BY <2>0, <2>4 DEF PruneStep, LogBehind, Prune
    <3>2. WindowIntact'
      <4> SUFFICES ASSUME NEW s \in 1..lastSequence, s + HistoryLimit > lastSequence
                   PROVE  s \in Prune(rows, pub[p].sequence, HistoryLimit)
        BY <2>4 DEF PruneStep, WindowIntact
      <4>1. s \in rows
        BY DEF WindowIntact
      <4>2. pub[p].sequence <= lastSequence
        BY DEF LogBehind
      <4> QED
        BY <4>1, <4>2, <2>0 DEF Prune
    <3> QED
      BY <3>1, <3>2
  <2>5. ASSUME NEW p \in Pubs, Dispatch(p) PROVE LogBehind' /\ WindowIntact'
    BY <2>0, <2>5, WindowUntouched DEF Dispatch, storeVars
  <2>6. ASSUME NEW c \in Conns, Connection(c) PROVE LogBehind' /\ WindowIntact'
    BY <2>6, WindowUntouched DEF Connection, Subscribe, ReadReplay, ReadReplayFails,
         FlushReplay, Close, storeVars
  <2>7. ASSUME NEW h \in Hubs, Process(h) PROVE LogBehind' /\ WindowIntact'
    BY <2>7, WindowUntouched DEF Process, ConnectFanout, StartDrain, ReadDrain,
         ReadDrainFails, DeliverDrain, Crash, storeVars
  <2>8. ASSUME Carrier PROVE LogBehind' /\ WindowIntact'
    BY <2>8, WindowUntouched DEF Carrier, AcceptRemote, LoseAnnouncement, storeVars
  <2>9. ASSUME UNCHANGED vars PROVE LogBehind' /\ WindowIntact'
    BY <2>9, WindowUntouched DEF vars
  <2> QED
    BY <2>1, <2>2, <2>3, <2>4, <2>5, <2>6, <2>7, <2>8, <2>9 DEF Next, Publish
<1> QED
  BY <1>1, <1>2, TypeCorrect, PTL DEF Spec, WindowInv

\* Whatever the order in which concurrent publications append and prune, no
\* event of the declared window is deleted (WindowIntact).
THEOREM WindowKept == Spec => []WindowIntact
<1>1. WindowInv => WindowIntact
  BY DEF WindowInv
<1> QED
  BY <1>1, WindowHolds, PTL

-----------------------------------------------------------------------------
(* Order of delivery.                                                      *)

\* What the cursor means: until the flush nothing has been sent, and afterwards
\* nothing above the cursor has.
CursorCovers ==
  \A c \in Conns :
    /\ conn[c].status # "live" => sent[c] = Nothing
    /\ \A s \in Sequence : sent[c][s] > 0 => s <= conn[c].sentThrough

\* The body of SendsAscend for one connection: what changed from f to g.
Ascends(f, g) ==
  \A s \in Sequence :
    g[s] > f[s] => /\ g[s] = 1
                   /\ \A r \in Sequence : f[r] > 0 => r < s

\* The body of CursorCovers for one listener and its history.
Covers(k, f) ==
  /\ k.status # "live" => f = Nothing
  /\ \A s \in Sequence : f[s] > 0 => s <= k.sentThrough

\* A history that does not change, and one that is emptied, ascend.
LEMMA AscendsTrivially ==
  ASSUME NEW f \in [Sequence -> Nat]
  PROVE  Ascends(f, f) /\ Ascends(f, Nothing)
BY DEF Ascends, Nothing

\* Offering a page to a registered listener sends in ascending order, and leaves
\* the cursor at or above everything sent.
LEMMA OfferAscends ==
  ASSUME NEW k \in Listener, NEW f \in [Sequence -> Nat],
         NEW page \in SUBSET Sequence, Covers(k, f), k.status # "off"
  PROVE  /\ Ascends(f, Sending(f, OfferSends(k, page)))
         /\ Covers(OfferAll(k, page), Sending(f, OfferSends(k, page)))
<1> DEFINE fresh == Above(page, k.sentThrough)
           g == Sending(f, OfferSends(k, page))
<1>0. /\ MaxSequence \in Nat /\ Sequence \subseteq 0..MaxSequence
      /\ \A s \in Sequence : s \in Nat /\ f[s] \in Nat
      /\ k.sentThrough \in Nat
  BY HubAssumption DEF Sequence, Listener
<1>1. CASE Replaying(k)
  <2>1. OfferSends(k, page) = {}
    BY <1>1 DEF OfferSends
  <2>2. g = f
    BY <2>1 DEF Sending
  <2>3. OfferAll(k, page) = [k EXCEPT !.buffered = Buffer(k.buffered, fresh)]
    BY <1>1 DEF OfferAll
  <2>4. /\ OfferAll(k, page).status = k.status
        /\ OfferAll(k, page).sentThrough = k.sentThrough
    BY <2>3 DEF Listener
  <2> QED
    BY <2>2, <2>4, AscendsTrivially DEF Covers
<1>2. CASE ~Replaying(k)
  <2>1. k.status = "live"
    BY <1>2 DEF Replaying, Listener
  <2>2. OfferAll(k, page) = [k EXCEPT !.sentThrough = Highest(k.sentThrough, fresh)]
    BY <1>2 DEF OfferAll
  <2>3. /\ OfferAll(k, page).status = "live"
        /\ OfferAll(k, page).sentThrough = Highest(k.sentThrough, fresh)
    BY <2>1, <2>2 DEF Listener
  <2>4. OfferSends(k, page) \subseteq fresh
    BY <1>2 DEF OfferSends
  <2>5. \A s \in fresh : s > k.sentThrough /\ s \in Sequence
    BY DEF Above
  <2>6. /\ fresh = {} => Highest(k.sentThrough, fresh) = k.sentThrough
        /\ fresh # {} => /\ Highest(k.sentThrough, fresh) \in fresh
                         /\ \A s \in fresh : s <= Highest(k.sentThrough, fresh)
    <3>1. fresh \subseteq 0..MaxSequence
      BY <1>0, <2>5
    <3> HIDE DEF fresh
    <3> QED
      BY <3>1, <1>0, HighestIsGreatest
  <2>7. \A s \in Sequence : g[s] = IF s \in OfferSends(k, page) THEN f[s] + 1 ELSE f[s]
    BY DEF Sending
  <2> HIDE DEF fresh, g
  <2>8. \A s \in fresh : f[s] = 0
    <3> SUFFICES ASSUME NEW s \in fresh PROVE f[s] = 0
      OBVIOUS
    <3>1. s \in Sequence /\ s > k.sentThrough /\ s \in Nat /\ f[s] \in Nat
      BY <2>5, <1>0
    <3>2. f[s] > 0 => s <= k.sentThrough
      BY <3>1 DEF Covers
    <3> QED
      BY <3>1, <3>2, <1>0
  <2>9. Ascends(f, g)
    BY <2>4, <2>5, <2>7, <2>8, <1>0 DEF Ascends, Covers
  <2>10. \A s \in Sequence : g[s] > 0 => s <= Highest(k.sentThrough, fresh)
    <3> SUFFICES ASSUME NEW s \in Sequence, g[s] > 0
                 PROVE  s <= Highest(k.sentThrough, fresh)
      OBVIOUS
    <3>1. CASE s \in fresh
      BY <3>1, <2>6
    <3>2. CASE s \notin fresh
      <4>1. s <= k.sentThrough
        <5>1. g[s] = f[s]
          BY <3>2, <2>4, <2>7
        <5> QED
          BY <5>1 DEF Covers
      <4>2. CASE fresh = {}
        BY <4>1, <4>2, <2>6
      <4>3. CASE fresh # {}
        <5>1. PICK m \in fresh : m = Highest(k.sentThrough, fresh)
          BY <4>3, <2>6
        <5>2. m \in Nat /\ m > k.sentThrough
          BY <2>5, <1>0
        <5> QED
          BY <5>1, <5>2, <4>1, <1>0
      <4> QED
        BY <4>2, <4>3
    <3> QED
      BY <3>1, <3>2
  <2>11. Covers(OfferAll(k, page), g)
    BY <2>3, <2>10 DEF Covers
  <2> QED
    BY <2>9, <2>11 DEF g
<1> QED
  BY <1>1, <1>2

\* The flush sends the replayed events and then the buffered ones above them.
LEMMA FlushAscends ==
  ASSUME TypeOK, CursorCovers, NEW c \in Conns, FlushReplay(c)
  PROVE  Ascends(sent[c], sent'[c]) /\ Covers(conn'[c], sent'[c])
<1> DEFINE k == conn[c]
           page == k.answer.events
           last == Highest(ReplayedThrough(k), Flushed(k))
           resync == ResyncNeeded(k.after, k.answer.earliest)
           live == [k EXCEPT !.status = "live", !.buffered = {}, !.answer = NoAnswer]
           g == Sending(Sending(sent[c], page), Flushed(k))
<1>1. k \in Listener /\ page \in SUBSET Sequence
  BY DEF TypeOK, Listener, Answer
<1>2. sent[c] = Nothing
  BY DEF FlushReplay, CursorCovers
<1>3. sent[c] \in [Sequence -> Nat]
  BY DEF TypeOK
<1>4. /\ sent'[c] = IF resync \/ ~k.open THEN Nothing ELSE g
      /\ conn'[c] = IF ~k.open THEN Closed
                    ELSE IF resync THEN [live EXCEPT !.resynced = TRUE]
                    ELSE [live EXCEPT !.sentThrough = last]
  BY DEF FlushReplay, TypeOK
<1>5. CASE resync \/ ~k.open
  <2>1. sent'[c] = Nothing
    BY <1>4, <1>5
  <2> QED
    BY <2>1, <1>2, <1>3, AscendsTrivially DEF Covers, Nothing
<1>6. CASE ~resync /\ k.open
  <2>1. sent'[c] = g /\ conn'[c] = [live EXCEPT !.sentThrough = last]
    BY <1>4, <1>6
  <2>2. conn'[c].status = "live" /\ conn'[c].sentThrough = last
    BY <2>1, <1>1 DEF Listener
  <2>3. /\ MaxSequence \in Nat /\ Sequence \subseteq 0..MaxSequence
        /\ \A s \in Sequence : s \in Nat
        /\ k.sentThrough \in Nat
    BY <1>1, HubAssumption DEF Sequence, Listener
  <2>4. Flushed(k) \subseteq Sequence /\ \A s \in Flushed(k) : s > ReplayedThrough(k)
    BY <1>1 DEF Flushed, Above, Listener
  <2>5. \A s \in page : s <= ReplayedThrough(k)
    BY <1>1, <2>3, HighestIsGreatest DEF ReplayedThrough
  <2>6. ReplayedThrough(k) \in Nat
    BY <1>1, <2>3, HighestIsGreatest DEF ReplayedThrough
  <2>7. /\ Flushed(k) = {} => last = ReplayedThrough(k)
        /\ Flushed(k) # {} => last \in Flushed(k) /\ \A s \in Flushed(k) : s <= last
    BY <2>3, <2>4, HighestIsGreatest
  <2>8. \A s \in Sequence : g[s] = IF s \in Flushed(k) THEN (IF s \in page THEN 2 ELSE 1)
                                  ELSE IF s \in page THEN 1 ELSE 0
    BY <1>2 DEF Sending, Nothing
  <2> HIDE DEF g, page, last, live, resync, k
  <2>9. \A s \in Flushed(k) : s \notin page
    <3> SUFFICES ASSUME NEW s \in Flushed(k), s \in page PROVE FALSE
      OBVIOUS
    <3>1. s \in Nat /\ s > ReplayedThrough(k) /\ s <= ReplayedThrough(k)
      BY <2>3, <2>4, <2>5
    <3> QED
      BY <3>1, <2>6
  <2>10. Ascends(sent[c], g)
    BY <1>2, <2>8, <2>9 DEF Ascends, Nothing
  <2>11. \A s \in Sequence : g[s] > 0 => s <= last
    <3> SUFFICES ASSUME NEW s \in Sequence, g[s] > 0 PROVE s <= last
      OBVIOUS
    <3>1. s \in Flushed(k) \/ s \in page
      BY <2>8
    <3>2. CASE s \in Flushed(k)
      BY <3>2, <2>7
    <3>3. CASE s \in page /\ Flushed(k) = {}
      BY <3>3, <2>5, <2>7
    <3>4. CASE s \in page /\ Flushed(k) # {}
      <4>1. last \in Nat /\ last > ReplayedThrough(k)
        BY <3>4, <2>3, <2>4, <2>7
      <4>2. s <= ReplayedThrough(k) /\ s \in Nat
        BY <3>4, <2>3, <2>5
      <4> QED
        BY <4>1, <4>2, <2>6
    <3> QED
      BY <3>1, <3>2, <3>3, <3>4
  <2> QED
    BY <2>1, <2>2, <2>10, <2>11 DEF Covers
<1> QED
  BY <1>5, <1>6

\* Skipping never moves a cursor back.
LEMMA SkipToType ==
  ASSUME NEW k \in Listener, NEW s \in 0..MaxSequence
  PROVE  /\ SkipTo(k, s) \in Listener
         /\ SkipTo(k, s).status = k.status
         /\ SkipTo(k, s).sentThrough >= k.sentThrough
<1> DEFINE m == IF s > k.sentThrough THEN s ELSE k.sentThrough
<1>1. k.sentThrough \in 0..MaxSequence
  BY DEF Listener
<1>2. m \in 0..MaxSequence /\ m >= k.sentThrough
  BY <1>1, ConstantTypes
<1>3. SkipTo(k, s) = [k EXCEPT !.sentThrough = m, !.resynced = TRUE]
  BY DEF SkipTo
<1> HIDE DEF m
<1> QED
  BY <1>2, <1>3 DEF Listener

\* The same for one step of the specification and every connection.
LEMMA StepAscends ==
  ASSUME TypeOK, CursorCovers, Next
  PROVE  \A c \in Conns : Ascends(sent[c], sent'[c]) /\ Covers(conn'[c], sent'[c])
<1>0. /\ conn \in [Conns -> Listener]
      /\ sent \in [Conns -> [Sequence -> Nat]]
      /\ \A c \in Conns : Covers(conn[c], sent[c])
  BY DEF TypeOK, CursorCovers, Covers
<1>1. ASSUME NEW c \in Conns, conn'[c] = conn[c], sent'[c] = sent[c]
      PROVE  Ascends(sent[c], sent'[c]) /\ Covers(conn'[c], sent'[c])
  BY <1>0, <1>1, AscendsTrivially
<1>2. ASSUME NEW c \in Conns, sent'[c] = Nothing
      PROVE  Ascends(sent[c], sent'[c]) /\ Covers(conn'[c], sent'[c])
  BY <1>0, <1>2, AscendsTrivially DEF Covers, Nothing
<1>3. ASSUME NEW p \in Pubs, Dispatch(p), NEW c \in Conns
      PROVE  Ascends(sent[c], sent'[c]) /\ Covers(conn'[c], sent'[c])
  <2> DEFINE h == pub[p].hub
             s == pub[p].sequence
  <2>1. {s} \in SUBSET Sequence
    BY <1>3 DEF Dispatch, TypeOK
  <2>2. CASE c \notin Registered(h)
    BY <1>1, <1>3, <2>2 DEF Dispatch
  <2>3. CASE c \in Registered(h)
    <3>1. /\ conn'[c] = OfferAll(conn[c], {s})
          /\ sent'[c] = Sending(sent[c], OfferSends(conn[c], {s}))
      BY <1>3, <2>3 DEF Dispatch
    <3>2. conn[c].status # "off"
      BY <2>3 DEF Registered
    <3> HIDE DEF s
    <3> QED
      BY <1>0, <2>1, <3>1, <3>2, OfferAscends
  <2> QED
    BY <2>2, <2>3
<1>4. ASSUME NEW h \in Hubs, DeliverDrain(h), NEW c \in Conns
      PROVE  Ascends(sent[c], sent'[c]) /\ Covers(conn'[c], sent'[c])
  <2> DEFINE d == drain[h]
             k == IF ToldToResync(conn[c], d) THEN SkipTo(conn[c], d.announced) ELSE conn[c]
  <2>1. d.answer.events \in SUBSET Sequence /\ d.announced \in 0..MaxSequence
    BY DEF TypeOK, RemoteDrain, Answer
  <2>2. CASE c \notin Registered(h)
    BY <1>1, <1>4, <2>2 DEF DeliverDrain
  <2>3. CASE c \in Registered(h)
    <3>1. /\ conn'[c] = OfferAll(k, d.answer.events)
          /\ sent'[c] = Sending(sent[c], OfferSends(k, d.answer.events))
      BY <1>4, <2>3 DEF DeliverDrain
    <3>2. /\ conn[c] \in Listener /\ conn[c].status # "off"
          /\ conn[c].sentThrough \in 0..MaxSequence
      BY <1>0, <2>3 DEF Registered, Listener
    <3>3. /\ SkipTo(conn[c], d.announced) \in Listener
          /\ SkipTo(conn[c], d.announced).status = conn[c].status
          /\ SkipTo(conn[c], d.announced).sentThrough >= conn[c].sentThrough
      BY <2>1, <3>2, SkipToType
    <3>4. k \in Listener /\ k.status = conn[c].status /\ k.sentThrough >= conn[c].sentThrough
      BY <3>2, <3>3, ConstantTypes
    <3> HIDE DEF k, d
    <3>5. k.sentThrough \in Nat /\ conn[c].sentThrough \in Nat
      BY <3>2, <3>4, ConstantTypes DEF Listener
    <3>6. \A s \in Sequence : s \in Nat
      BY DEF Sequence
    <3>7. Covers(k, sent[c])
      BY <1>0, <3>4, <3>5, <3>6 DEF Covers
    <3> QED
      BY <1>0, <2>1, <3>1, <3>2, <3>4, <3>7, OfferAscends
  <2> QED
    BY <2>2, <2>3
<1>5. ASSUME NEW p \in Pubs, Publish(p), NEW c \in Conns
      PROVE  Ascends(sent[c], sent'[c]) /\ Covers(conn'[c], sent'[c])
  <2>1. CASE Dispatch(p)
    BY <1>3, <2>1
  <2>2. CASE ~Dispatch(p)
    <3>1. conn' = conn /\ sent' = sent
      BY <1>5, <2>2 DEF Publish, Append1, AppendAuthorized, ReplayAuthorized, PruneStep
    <3> QED
      BY <1>1, <3>1
  <2> QED
    BY <2>1, <2>2
<1>6. ASSUME NEW e \in Conns, Connection(e), NEW c \in Conns
      PROVE  Ascends(sent[c], sent'[c]) /\ Covers(conn'[c], sent'[c])
  <2>1. CASE FlushReplay(e) /\ c = e
    BY <2>1, FlushAscends
  <2>2. CASE FlushReplay(e) /\ c # e
    BY <1>0, <1>1, <2>2 DEF FlushReplay
  <2>3. ASSUME NEW h \in Hubs, NEW a \in 0..lastSequence, Subscribe(e, h, a)
        PROVE  Ascends(sent[c], sent'[c]) /\ Covers(conn'[c], sent'[c])
    BY <1>0, <1>1, <1>2, <2>3 DEF Subscribe
  <2>4. CASE ReadReplayFails(e) \/ Close(e)
    BY <1>0, <1>1, <1>2, <2>4 DEF ReadReplayFails, Close
  <2>5. CASE ReadReplay(e)
    <3>1. sent' = sent
      BY <2>5 DEF ReadReplay
    <3>2. /\ conn'[c].sentThrough = conn[c].sentThrough
          /\ conn'[c].status # "live" => conn[c].status # "live"
      BY <1>0, <2>5 DEF ReadReplay, Listener
    <3> QED
      BY <1>0, <3>1, <3>2, AscendsTrivially DEF Covers
  <2> QED
    BY <1>6, <2>1, <2>2, <2>3, <2>4, <2>5 DEF Connection
<1>7. ASSUME NEW h \in Hubs, Process(h), NEW c \in Conns
      PROVE  Ascends(sent[c], sent'[c]) /\ Covers(conn'[c], sent'[c])
  <2>1. CASE DeliverDrain(h)
    BY <1>4, <2>1
  <2>2. CASE Crash(h)
    BY <1>0, <1>1, <1>2, <2>2 DEF Crash
  <2>3. CASE ~DeliverDrain(h) /\ ~Crash(h)
    BY <1>1, <1>7, <2>3 DEF Process, ConnectFanout, StartDrain, ReadDrain, ReadDrainFails
  <2> QED
    BY <2>1, <2>2, <2>3
<1>8. ASSUME Carrier, NEW c \in Conns
      PROVE  Ascends(sent[c], sent'[c]) /\ Covers(conn'[c], sent'[c])
  BY <1>1, <1>8 DEF Carrier, AcceptRemote, LoseAnnouncement
<1> QED
  BY <1>5, <1>6, <1>7, <1>8 DEF Next

\* On every connection events go out in ascending order and once, by whichever
\* route they come (SendsAscend).
THEOREM DeliveryAscends == Spec => SendsAscend
<1> DEFINE A == \A c \in Conns, s \in Sequence :
                  sent'[c][s] > sent[c][s] =>
                    /\ sent'[c][s] = 1
                    /\ \A r \in Sequence : sent[c][r] > 0 => r < s
<1>1. Init => CursorCovers
  BY DEF Init, CursorCovers, Closed, Nothing
<1>2. TypeOK /\ CursorCovers /\ [Next]_vars => CursorCovers' /\ [A]_vars
  <2> SUFFICES ASSUME TypeOK, CursorCovers, [Next]_vars
               PROVE  CursorCovers' /\ [A]_vars
    OBVIOUS
  <2>1. CASE Next
    <3>1. \A c \in Conns : Ascends(sent[c], sent'[c]) /\ Covers(conn'[c], sent'[c])
      BY <2>1, StepAscends
    <3>2. A
      BY <3>1 DEF Ascends
    <3>3. CursorCovers'
      BY <3>1 DEF CursorCovers, Covers
    <3> QED
      BY <3>2, <3>3
  <2>2. CASE UNCHANGED vars
    BY <2>2 DEF vars, CursorCovers
  <2> QED
    BY <2>1, <2>2
<1>3. Spec => [][A]_vars
  <2> HIDE DEF A
  <2> QED
    BY <1>1, <1>2, TypeCorrect, PTL DEF Spec
<1> QED
  BY <1>3 DEF SendsAscend

-----------------------------------------------------------------------------
(* The pages of a read.                                                    *)

\* A page is a prefix of what lies above the cursor: with an event it holds every
\* retained one before it.
LEMMA PageIsPrefix ==
  ASSUME NEW S \in SUBSET Sequence, NEW after \in Nat, NEW limit \in Nat,
         NEW e \in FirstAbove(S, after, limit), NEW s \in Above(S, after), s <= e
  PROVE  s \in FirstAbove(S, after, limit)
<1> DEFINE Before(x) == {t \in Above(S, after) : t < x}
<1>1. \A x \in S : x \in Nat /\ x <= MaxSequence
  BY ConstantTypes DEF Sequence
<1>2. e \in S /\ s \in S /\ Cardinality(Before(e)) < limit
  BY DEF FirstAbove, Above
<1>3. Before(e) \in SUBSET Nat /\ \A x \in Before(e) : x <= MaxSequence
  BY <1>1 DEF Above
<1>4. IsFiniteSet(Before(e))
  <2> HIDE DEF Before
  <2> QED
    BY <1>3, ConstantTypes, FS_BoundedSetOfNaturals
<1>5. Before(s) \in SUBSET Before(e)
  BY <1>1, <1>2 DEF Above
<1>6. /\ IsFiniteSet(Before(s)) /\ Cardinality(Before(s)) <= Cardinality(Before(e))
  <2> HIDE DEF Before
  <2> QED
    BY <1>4, <1>5, FS_Subset
<1>7. Cardinality(Before(s)) \in Nat /\ Cardinality(Before(e)) \in Nat
  <2> HIDE DEF Before
  <2> QED
    BY <1>4, <1>6, FS_CardinalityType
<1>8. Cardinality(Before(s)) < limit
  <2> HIDE DEF Before
  <2> QED
    BY <1>2, <1>6, <1>7
<1> QED
  BY <1>8 DEF FirstAbove

\* A page holds every retained event within its limit of the cursor.
LEMMA PageReaches ==
  ASSUME NEW S \in SUBSET Sequence, NEW after \in Nat, NEW limit \in Nat,
         NEW x \in Above(S, after), x <= after + limit
  PROVE  x \in FirstAbove(S, after, limit)
<1> DEFINE Before == {t \in Above(S, after) : t < x}
<1>1. x \in Nat /\ x > after /\ \A t \in S : t \in Nat
  BY DEF Above, Sequence
<1> DEFINE lo == after + 1
           hi == x - 1
<1>2. Before \in SUBSET (lo..hi)
  <2> SUFFICES ASSUME NEW t \in Before PROVE t \in lo..hi
    OBVIOUS
  <2>1. t \in S /\ t > after /\ t < x
    BY DEF Above
  <2> QED
    BY <1>1, <2>1
<1>3. lo \in Int /\ hi \in Int /\ lo = after + 1 /\ hi = x - 1
  BY <1>1
<1> HIDE DEF Before, lo, hi
<1>4. IsFiniteSet(lo..hi) /\ Cardinality(lo..hi) = IF lo > hi THEN 0 ELSE hi - lo + 1
  BY <1>3, FS_Interval
<1>5. /\ IsFiniteSet(Before) /\ Cardinality(Before) <= Cardinality(lo..hi)
      /\ Cardinality(Before) \in Nat
  BY <1>2, <1>4, FS_Subset, FS_CardinalityType
<1>6. Cardinality(Before) < limit
  BY <1>1, <1>3, <1>4, <1>5
<1> QED
  BY <1>6 DEF FirstAbove, Before

\* What an answer read at `cursor' is: events above it, an edge if there are any,
\* and nothing missing between the edge and the last event.
PageFrom(cursor, answer) ==
  /\ \A e \in answer.events : e > cursor
  /\ answer.events # {} => answer.earliest # NoEdge
  /\ \A e \in answer.events : \A t \in (cursor + 1)..e :
       t >= answer.earliest => t \in answer.events

\* Retention cuts the log at one place: from any row on, all rows are there.
LogContiguous == \A s \in rows : \A t \in s..lastSequence : t \in rows

\* A read of such a log is such an answer.
LEMMA ReadIsPage ==
  ASSUME TypeOK, LogBehind, LogContiguous, NEW cursor \in Nat
  PROVE  PageFrom(cursor, Replay(rows, cursor, ReplayLimit))
<1> DEFINE answer == Replay(rows, cursor, ReplayLimit)
           page == FirstAbove(rows, cursor, ReplayLimit)
<1>0. /\ rows \in SUBSET Sequence /\ lastSequence \in Nat /\ ReplayLimit \in Nat
      /\ \A s \in rows : s \in Nat /\ s # 0
  BY HubAssumption DEF TypeOK, Sequence
<1>1. \A e \in page : e \in Above(rows, cursor)
  BY DEF FirstAbove
<1>2. \A e \in Above(rows, cursor) : e \in rows /\ e > cursor
  BY DEF Above
<1>3. answer.events = page
  BY DEF Replay
<1>4. ASSUME page # {}
      PROVE  /\ answer.earliest = Oldest(rows) /\ answer.earliest \in rows
             /\ answer.earliest # NoEdge
  <2>1. Above(rows, cursor) # {} /\ rows # {} /\ rows \subseteq Nat
    BY <1>0, <1>1, <1>2, <1>4
  <2>2. answer.earliest = Oldest(rows)
    BY <2>1 DEF Replay
  <2>3. Oldest(rows) \in rows
    BY <2>1, OldestIsLeast
  <2> QED
    BY <1>0, <2>2, <2>3 DEF NoEdge
<1> HIDE DEF page, answer
<1>5. ASSUME NEW e \in page, NEW t \in (cursor + 1)..e, t >= answer.earliest
      PROVE  t \in page
  <2>1. answer.earliest \in rows /\ answer.earliest \in Nat
    BY <1>0, <1>4, <1>5
  <2>2. e \in rows /\ e \in Nat /\ e <= lastSequence
    BY <1>0, <1>1, <1>2 DEF LogBehind
  <2>3. t \in answer.earliest..lastSequence
    BY <1>0, <1>5, <2>1, <2>2
  <2>4. t \in rows /\ t > cursor
    BY <1>5, <2>1, <2>2, <2>3 DEF LogContiguous
  <2>5. t \in Above(rows, cursor) /\ t <= e
    BY <1>5, <2>2, <2>4 DEF Above
  <2> QED
    BY <1>0, <1>5, <2>5, PageIsPrefix DEF page
<1> QED
  BY <1>1, <1>2, <1>3, <1>4, <1>5 DEF PageFrom, answer

\* Such an answer is complete for whoever stands at or after its cursor, unless
\* the edge says otherwise.
LEMMA PageIsComplete ==
  ASSUME NEW answer \in Answer, NEW cursor \in Nat, PageFrom(cursor, answer),
         NEW from \in Nat, cursor <= from,
         ~ResyncNeeded(cursor, answer.earliest) \/ ~(from + 1 < answer.earliest)
  PROVE  \A s \in (from + 1)..Highest(from, answer.events) : s \in answer.events
<1>0. /\ answer.events \in SUBSET Sequence /\ answer.earliest \in Nat
      /\ answer.events \subseteq 0..MaxSequence /\ MaxSequence \in Nat
  BY ConstantTypes DEF Answer, Sequence
<1>1. CASE answer.events = {}
  BY <1>1 DEF Highest
<1>2. CASE answer.events # {}
  <2> DEFINE e == Highest(from, answer.events)
  <2>1. e \in answer.events /\ e \in Nat
    BY <1>0, <1>2, HighestIsGreatest DEF Sequence
  <2> HIDE DEF e
  <2>2. ASSUME NEW s \in (from + 1)..e PROVE s \in answer.events
    <3>1. s \in (cursor + 1)..e
      BY <2>1, <2>2
    <3>2. answer.earliest # NoEdge
      BY <1>2 DEF PageFrom
    <3>3. s >= answer.earliest
      BY <1>0, <2>1, <2>2, <3>2 DEF ResyncNeeded
    <3> QED
      BY <2>1, <3>1, <3>3 DEF PageFrom
  <2> QED
    BY <2>2 DEF e
<1> QED
  BY <1>1, <1>2

-----------------------------------------------------------------------------
(* What an announcement says about the log.                                *)

\* An announced event is in the log's past, and its retention has run: nothing
\* older than its window is left.
Settled(s, last, kept) == s \in 1..last /\ \A t \in kept : t + HistoryLimit > s

\* Every announcement, wherever it is, is of a settled event, and a drain runs
\* only for someone who is behind it.
AnnouncedSettled ==
  /\ \A p \in Pubs : pub[p].pc = "durable" => Settled(pub[p].sequence, lastSequence, rows)
  /\ \A n \in wire : Settled(n.sequence, lastSequence, rows)
  /\ \A h \in Hubs : \A i \in 1..Len(pending[h]) :
       Settled(pending[h][i], lastSequence, rows)
  /\ \A h \in Hubs : drain[h].pc # "idle" =>
       /\ Settled(drain[h].announced, lastSequence, rows)
       /\ drain[h].cursor < drain[h].announced

LogInv == WindowInv /\ LogContiguous /\ AnnouncedSettled

\* The log moves forward: rows are added at its end only.
LEMMA LogMoves ==
  ASSUME TypeOK, [Next]_vars
  PROVE  /\ lastSequence \in Nat /\ lastSequence' \in Nat
         /\ lastSequence <= lastSequence'
         /\ \A t \in rows' : t \in rows \/ t = lastSequence + 1
<1>0. lastSequence \in Nat /\ lastSequence + 1 \in Nat /\ lastSequence <= lastSequence + 1
  BY ConstantTypes DEF TypeOK
<1>1. ASSUME NEW p \in Pubs, NEW h \in Hubs, Append1(p, h) \/ AppendAuthorized(p, h)
      PROVE  /\ lastSequence' = lastSequence + 1
             /\ \A t \in rows' : t \in rows \/ t = lastSequence + 1
  BY <1>1 DEF Append1, AppendAuthorized, Prune
<1>2. ASSUME NEW p \in Pubs, PruneStep(p)
      PROVE  lastSequence' = lastSequence /\ \A t \in rows' : t \in rows
  BY <1>2 DEF PruneStep, Prune
<1>3. ASSUME NEW p \in Pubs, \/ \E h \in Hubs : ReplayAuthorized(p, h)
                             \/ Dispatch(p)
      PROVE  UNCHANGED <<lastSequence, rows>>
  BY <1>3 DEF ReplayAuthorized, Dispatch, storeVars
<1>4. ASSUME \/ \E c \in Conns : Connection(c)
             \/ \E h \in Hubs : Process(h)
             \/ Carrier
             \/ UNCHANGED vars
      PROVE  UNCHANGED <<lastSequence, rows>>
  BY <1>4 DEF Connection, Subscribe, ReadReplay, ReadReplayFails, FlushReplay, Close,
       Process, ConnectFanout, StartDrain, ReadDrain, ReadDrainFails, DeliverDrain, Crash,
       Carrier, AcceptRemote, LoseAnnouncement, storeVars, vars
<1> QED
  BY <1>0, <1>1, <1>2, <1>3, <1>4 DEF Next, Publish

\* Settled once, settled for good.
LEMMA SettledStays ==
  ASSUME TypeOK, [Next]_vars, NEW s, Settled(s, lastSequence, rows)
  PROVE  Settled(s, lastSequence', rows')
<1>1. /\ lastSequence \in Nat /\ lastSequence' \in Nat /\ lastSequence <= lastSequence'
      /\ \A t \in rows' : t \in rows \/ t = lastSequence + 1
  BY LogMoves
<1>2. s \in 1..lastSequence /\ s \in 1..lastSequence'
  BY <1>1 DEF Settled
<1>3. ASSUME NEW t \in rows' PROVE t + HistoryLimit > s
  <2>1. CASE t \in rows
    BY <2>1 DEF Settled
  <2>2. CASE t = lastSequence + 1
    BY <1>1, <1>2, <2>2, HubAssumption
  <2> QED
    BY <1>1, <2>1, <2>2
<1> QED
  BY <1>2, <1>3 DEF Settled

\* Rows are added at the end and removed from the start.
LEMMA ContiguousKept ==
  ASSUME WindowInv, LogContiguous, [Next]_vars
  PROVE  LogContiguous'
<1>0. /\ TypeOK /\ lastSequence \in Nat /\ HistoryLimit \in Nat
      /\ \A s \in rows : s \in Nat /\ s <= lastSequence
      /\ \A p \in Pubs : pub[p].sequence \in Nat
  BY HubAssumption DEF WindowInv, LogBehind, TypeOK, Sequence, Handler
<1>1. ASSUME NEW p \in Pubs, NEW h \in Hubs, Append1(p, h)
      PROVE  LogContiguous'
  <2>1. lastSequence' = lastSequence + 1 /\ rows' = rows \cup {lastSequence + 1}
    BY <1>1 DEF Append1
  <2> QED
    BY <1>0, <2>1 DEF LogContiguous
<1>2. ASSUME NEW p \in Pubs, NEW h \in Hubs, AppendAuthorized(p, h)
      PROVE  LogContiguous'
  <2>1. /\ lastSequence' = lastSequence + 1
        /\ rows' = {s \in rows : s + HistoryLimit > lastSequence + 1} \cup {lastSequence + 1}
    BY <1>2 DEF AppendAuthorized, Prune
  <2> SUFFICES ASSUME NEW s \in rows', NEW t \in s..(lastSequence + 1)
               PROVE  t \in rows'
    BY <2>1 DEF LogContiguous
  <2>2. CASE t = lastSequence + 1
    BY <2>1, <2>2
  <2>3. CASE t # lastSequence + 1
    <3>1. s \in rows /\ s + HistoryLimit > lastSequence + 1 /\ s \in Nat
      BY <1>0, <2>1, <2>3
    <3>2. t \in s..lastSequence /\ t + HistoryLimit > lastSequence + 1
      BY <1>0, <2>3, <3>1
    <3> QED
      BY <2>1, <3>1, <3>2 DEF LogContiguous
  <2> QED
    BY <2>2, <2>3
<1>3. ASSUME NEW p \in Pubs, PruneStep(p) PROVE LogContiguous'
  <2>1. /\ lastSequence' = lastSequence
        /\ rows' = {s \in rows : s + HistoryLimit > pub[p].sequence}
    BY <1>3 DEF PruneStep, Prune
  <2> SUFFICES ASSUME NEW s \in rows', NEW t \in s..lastSequence
               PROVE  t \in rows'
    BY <2>1 DEF LogContiguous
  <2>2. s \in rows /\ s + HistoryLimit > pub[p].sequence
    BY <2>1
  <2>3. t \in rows /\ t + HistoryLimit > pub[p].sequence
    BY <1>0, <2>2 DEF LogContiguous
  <2> QED
    BY <2>1, <2>3
<1>4. ASSUME UNCHANGED <<lastSequence, rows>> PROVE LogContiguous'
  BY <1>4 DEF LogContiguous
<1>5. ASSUME NEW p \in Pubs, \/ \E h \in Hubs : ReplayAuthorized(p, h)
                             \/ Dispatch(p)
      PROVE  UNCHANGED <<lastSequence, rows>>
  BY <1>5 DEF ReplayAuthorized, Dispatch, storeVars
<1>6. ASSUME \/ \E c \in Conns : Connection(c)
             \/ \E h \in Hubs : Process(h)
             \/ Carrier
             \/ UNCHANGED vars
      PROVE  UNCHANGED <<lastSequence, rows>>
  BY <1>6 DEF Connection, Subscribe, ReadReplay, ReadReplayFails, FlushReplay, Close,
       Process, ConnectFanout, StartDrain, ReadDrain, ReadDrainFails, DeliverDrain, Crash,
       Carrier, AcceptRemote, LoseAnnouncement, storeVars, vars
<1> QED
  BY <1>1, <1>2, <1>3, <1>4, <1>5, <1>6 DEF Next, Publish

-----------------------------------------------------------------------------
(* Announcements stay settled.                                             *)

\* A handler announces once its event's retention has run, in whichever of the
\* three ways it ran: its own DELETE, the appending statement, or the appending
\* statement of the request it retries.
LEMMA PubSettled ==
  ASSUME LogInv, [Next]_vars, NEW q \in Pubs, pub'[q].pc = "durable"
  PROVE  Settled(pub'[q].sequence, lastSequence', rows')
<1>0. /\ TypeOK /\ lastSequence \in Nat /\ HistoryLimit \in Nat \ {0}
      /\ pub \in [Pubs -> Handler] /\ pub[q] \in Handler
      /\ \A s \in rows : s \in Nat /\ s # 0 /\ s <= lastSequence
      /\ \A p \in Pubs : pub[p].sequence \in Nat /\ pub[p].sequence <= lastSequence
      /\ \A p \in Pubs : pub[p].pc # "idle" => pub[p].sequence # 0
  BY HubAssumption DEF LogInv, WindowInv, LogBehind, TypeOK, Sequence, Handler
<1>1. CASE pub'[q] = pub[q]
  BY <1>0, <1>1, SettledStays DEF LogInv, AnnouncedSettled
<1>2. CASE pub'[q] # pub[q]
  <2>1. PICK p \in Pubs : Publish(p)
    <3>1. ~\E h \in Hubs : Crash(h)
      BY <1>0, <1>2 DEF Crash, IdlePub
    <3> QED
      BY <1>2, <3>1 DEF Next, Connection, Subscribe, ReadReplay, ReadReplayFails,
           FlushReplay, Close, Process, ConnectFanout, StartDrain, ReadDrain,
           ReadDrainFails, DeliverDrain, Carrier, AcceptRemote, LoseAnnouncement, vars
  <2>2. p = q
    BY <1>0, <1>2, <2>1 DEF Publish, Append1, AppendAuthorized, ReplayAuthorized, PruneStep,
                            Dispatch
  <2>3. ASSUME NEW h \in Hubs, Append1(q, h) PROVE FALSE
    BY <1>0, <2>3 DEF Append1
  <2>4. ASSUME Dispatch(q) PROVE FALSE
    BY <1>0, <2>4 DEF Dispatch, IdlePub
  <2>5. ASSUME NEW h \in Hubs, AppendAuthorized(q, h)
        PROVE  Settled(pub'[q].sequence, lastSequence', rows')
    <3> DEFINE n == lastSequence + 1
    <3>1. /\ pub'[q].sequence = n /\ lastSequence' = n
          /\ rows' = {s \in rows : s + HistoryLimit > n} \cup {n}
      BY <1>0, <2>5 DEF AppendAuthorized, Prune
    <3>2. n \in 1..n /\ n + HistoryLimit > n
      BY <1>0
    <3> HIDE DEF n
    <3> QED
      BY <3>1, <3>2 DEF Settled
  <2>6. ASSUME NEW h \in Hubs, ReplayAuthorized(q, h)
        PROVE  Settled(pub'[q].sequence, lastSequence', rows')
    <3>1. PICK s \in rows :
            /\ Prune(rows, s, HistoryLimit) = rows
            /\ pub' = [pub EXCEPT ![q] = [pc |-> "durable", hub |-> h, sequence |-> s]]
      BY <2>6 DEF ReplayAuthorized
    <3>2. pub'[q].sequence = s /\ lastSequence' = lastSequence /\ rows' = rows
      BY <1>0, <2>6, <3>1 DEF ReplayAuthorized
    <3>3. s \in 1..lastSequence
      BY <1>0
    <3>4. \A t \in rows : t + HistoryLimit > s
      BY <3>1 DEF Prune
    <3> QED
      BY <3>2, <3>3, <3>4 DEF Settled
  <2>7. ASSUME PruneStep(q) PROVE Settled(pub'[q].sequence, lastSequence', rows')
    <3> DEFINE n == pub[q].sequence
    <3>1. /\ pub[q].pc = "appended" /\ lastSequence' = lastSequence
          /\ rows' = {s \in rows : s + HistoryLimit > n}
          /\ pub' = [pub EXCEPT ![q].pc = "durable"]
      BY <2>7 DEF PruneStep, Prune
    <3>2. pub'[q].sequence = n
      BY <1>0, <3>1 DEF Handler
    <3>3. n \in 1..lastSequence
      BY <1>0, <3>1
    <3> HIDE DEF n
    <3> QED
      BY <3>1, <3>2, <3>3 DEF Settled
  <2> QED
    BY <2>1, <2>2, <2>3, <2>4, <2>5, <2>6, <2>7 DEF Publish
<1> QED
  BY <1>1, <1>2

\* What the carrier holds was announced by a handler.
LEMMA WireSettled ==
  ASSUME LogInv, [Next]_vars, NEW n \in wire'
  PROVE  Settled(n.sequence, lastSequence', rows')
<1>0. TypeOK /\ AnnouncedSettled
  BY DEF LogInv, WindowInv
<1>1. CASE n \in wire
  BY <1>0, <1>1, SettledStays DEF AnnouncedSettled
<1>2. CASE n \notin wire
  <2>1. PICK p \in Pubs : Dispatch(p)
    BY <1>2 DEF Next, Publish, Append1, AppendAuthorized, ReplayAuthorized, PruneStep,
         Connection, Subscribe, ReadReplay, ReadReplayFails, FlushReplay, Close, Process,
         ConnectFanout, StartDrain, ReadDrain, ReadDrainFails, DeliverDrain, Crash,
         Carrier, AcceptRemote, LoseAnnouncement, drainVars, vars
  <2>2. n \in Announcement(pub[p].hub, pub[p].sequence) /\ pub[p].pc = "durable"
    BY <1>2, <2>1 DEF Dispatch
  <2>3. n.sequence = pub[p].sequence
    BY <2>2 DEF Announcement
  <2> QED
    BY <1>0, <2>2, <2>3, SettledStays DEF AnnouncedSettled
<1> QED
  BY <1>1, <1>2

\* What a process has queued came from the carrier.
LEMMA PendingSettled ==
  ASSUME LogInv, [Next]_vars, NEW g \in Hubs, NEW i \in 1..Len(pending'[g])
  PROVE  Settled(pending'[g][i], lastSequence', rows')
<1>0. /\ TypeOK /\ AnnouncedSettled /\ pending \in [Hubs -> Seq(Sequence)]
      /\ pending[g] \in Seq(Sequence)
  BY DEF LogInv, WindowInv, TypeOK
<1>1. CASE pending'[g] = pending[g]
  BY <1>0, <1>1, SettledStays DEF AnnouncedSettled
<1>2. CASE pending'[g] # pending[g]
  <2>1. \/ \E n \in wire : AcceptRemote(n)
        \/ \E h \in Hubs : StartDrain(h) \/ Crash(h)
    BY <1>2 DEF Next, Publish, Append1, AppendAuthorized, ReplayAuthorized, PruneStep, Dispatch,
         Connection, Subscribe, ReadReplay, ReadReplayFails, FlushReplay, Close, Process,
         ConnectFanout, ReadDrain, ReadDrainFails, DeliverDrain,
         Carrier, LoseAnnouncement, drainVars, vars
  <2>2. ASSUME NEW n \in wire, AcceptRemote(n)
        PROVE  Settled(pending'[g][i], lastSequence', rows')
    <3>1. n.to = g /\ pending'[g] = Append(pending[g], n.sequence) /\ n.sequence \in Sequence
      BY <1>0, <1>2, <2>2 DEF AcceptRemote, TypeOK
    <3>2. \/ i \in 1..Len(pending[g]) /\ pending'[g][i] = pending[g][i]
          \/ pending'[g][i] = n.sequence
      BY <1>0, <3>1
    <3>3. Settled(pending'[g][i], lastSequence, rows)
      BY <1>0, <3>2 DEF AnnouncedSettled
    <3> QED
      BY <1>0, <3>3, SettledStays
  <2>3. ASSUME NEW h \in Hubs, StartDrain(h)
        PROVE  Settled(pending'[g][i], lastSequence', rows')
    <3>1. h = g /\ pending[g] # <<>> /\ pending'[g] = Tail(pending[g])
      BY <1>0, <1>2, <2>3 DEF StartDrain
    <3>2. i + 1 \in 1..Len(pending[g]) /\ pending'[g][i] = pending[g][i + 1]
      BY <1>0, <3>1
    <3> QED
      BY <1>0, <3>2, SettledStays DEF AnnouncedSettled
  <2>4. ASSUME NEW h \in Hubs, Crash(h) PROVE FALSE
    BY <1>0, <1>2, <2>4 DEF Crash
  <2> QED
    BY <2>1, <2>2, <2>3, <2>4
<1> QED
  BY <1>1, <1>2

\* What one step may do to the drain of a process.
LEMMA DrainStep ==
  ASSUME TypeOK, [Next]_vars, NEW g \in Hubs
  PROVE  \/ drain'[g] = drain[g]
         \/ drain'[g] = IdleDrain
         \/ /\ StartDrain(g) /\ conn' = conn /\ pending[g] # <<>>
            /\ Registered(g) # {} /\ ~(Head(pending[g]) <= LowestCursor(g))
            /\ drain'[g] = [pc |-> "reading", announced |-> Head(pending[g]),
                            cursor |-> LowestCursor(g), answer |-> NoAnswer]
         \/ /\ conn' = conn /\ drain[g].pc = "reading" /\ drain'[g].pc = "read"
            /\ drain'[g].answer = Replay(rows, drain[g].cursor, ReplayLimit)
            /\ drain'[g].announced = drain[g].announced
            /\ drain'[g].cursor = drain[g].cursor
<1>0. drain \in [Hubs -> RemoteDrain] /\ drain[g] \in RemoteDrain
  BY DEF TypeOK
<1>1. CASE drain'[g] = drain[g]
  BY <1>1
<1>2. CASE drain'[g] # drain[g]
  <2>1. PICK h \in Hubs : \/ StartDrain(h) \/ ReadDrain(h) \/ ReadDrainFails(h)
                          \/ DeliverDrain(h) \/ Crash(h)
    BY <1>2 DEF Next, Publish, Append1, AppendAuthorized, ReplayAuthorized, PruneStep, Dispatch,
         Connection, Subscribe, ReadReplay, ReadReplayFails, FlushReplay, Close, Process,
         ConnectFanout, Carrier, AcceptRemote, LoseAnnouncement, drainVars, vars
  <2>2. h = g
    BY <1>0, <1>2, <2>1 DEF StartDrain, ReadDrain, ReadDrainFails, DeliverDrain, Crash
  <2>3. CASE ReadDrainFails(g) \/ DeliverDrain(g) \/ Crash(g)
    BY <1>0, <2>3 DEF ReadDrainFails, DeliverDrain, Crash
  <2>4. CASE StartDrain(g)
    BY <1>0, <1>2, <2>4 DEF StartDrain
  <2>5. CASE ReadDrain(g)
    <3> DEFINE answer == Replay(rows, drain[g].cursor, ReplayLimit)
    <3>1. /\ conn' = conn /\ drain[g].pc = "reading"
          /\ drain'[g] = [drain[g] EXCEPT !.pc = "read", !.answer = answer]
      BY <1>0, <2>5 DEF ReadDrain
    <3> HIDE DEF answer
    <3>2. /\ drain'[g].pc = "read" /\ drain'[g].answer = answer
          /\ drain'[g].announced = drain[g].announced
          /\ drain'[g].cursor = drain[g].cursor
      BY <1>0, <3>1 DEF RemoteDrain
    <3> QED
      BY <3>1, <3>2 DEF answer
  <2> QED
    BY <2>1, <2>2, <2>3, <2>4, <2>5
<1> QED
  BY <1>1, <1>2

\* A drain is of an announcement that was queued, and above its cursor.
LEMMA DrainSettled ==
  ASSUME LogInv, [Next]_vars, NEW g \in Hubs, drain'[g].pc # "idle"
  PROVE  /\ Settled(drain'[g].announced, lastSequence', rows')
         /\ drain'[g].cursor < drain'[g].announced
<1>0. /\ TypeOK /\ AnnouncedSettled /\ drain[g] \in RemoteDrain
      /\ pending[g] \in Seq(Sequence)
  BY DEF LogInv, WindowInv, TypeOK
<1>1. CASE drain'[g] = drain[g]
  BY <1>0, <1>1, SettledStays DEF AnnouncedSettled
<1>2. CASE drain'[g] = IdleDrain
  BY <1>2 DEF IdleDrain
<1>3. CASE /\ pending[g] # <<>> /\ Registered(g) # {}
           /\ ~(Head(pending[g]) <= LowestCursor(g))
           /\ drain'[g] = [pc |-> "reading", announced |-> Head(pending[g]),
                           cursor |-> LowestCursor(g), answer |-> NoAnswer]
  <2>1. LowestCursor(g) \in Nat
    BY <1>0, <1>3, LowestCursorType, ConstantTypes
  <2>2. /\ 1 \in 1..Len(pending[g]) /\ Head(pending[g]) = pending[g][1]
        /\ Head(pending[g]) \in Sequence /\ Head(pending[g]) \in Nat
    <3>1. pending[g] \in Seq(Sequence) /\ pending[g] # <<>>
      BY <1>0, <1>3
    <3>2. /\ 1 \in 1..Len(pending[g]) /\ Head(pending[g]) = pending[g][1]
          /\ Head(pending[g]) \in Sequence
      BY <3>1
    <3> QED
      BY <3>2 DEF Sequence
  <2>3. Settled(Head(pending[g]), lastSequence, rows)
    BY <1>0, <2>2 DEF AnnouncedSettled
  <2>4. LowestCursor(g) < Head(pending[g])
    BY <1>3, <2>1, <2>2
  <2> QED
    BY <1>0, <1>3, <2>3, <2>4, SettledStays
<1>4. CASE /\ drain[g].pc = "reading"
           /\ drain'[g].announced = drain[g].announced
           /\ drain'[g].cursor = drain[g].cursor
  BY <1>0, <1>4, SettledStays DEF AnnouncedSettled
<1> QED
  BY <1>0, <1>1, <1>2, <1>3, <1>4, DrainStep

-----------------------------------------------------------------------------
(* What the reads hold.                                                    *)

\* A subscription that was answered holds a page read at its resume point, and a
\* drain that has read a page read at its cursor.
PagesHeld ==
  /\ \A c \in Conns : conn[c].status = "answered" => PageFrom(conn[c].after, conn[c].answer)
  /\ \A h \in Hubs : drain[h].pc = "read" => PageFrom(drain[h].cursor, drain[h].answer)

\* Until the flush only a resync moves the cursor from the resume point.
StillAtResumePoint ==
  \A c \in Conns : (Replaying(conn[c]) /\ ~conn[c].resynced) =>
    conn[c].sentThrough = conn[c].after

ReadInv == LogInv /\ PagesHeld /\ StillAtResumePoint

\* Whether l is the listener k with events offered, told to resync, or closed
\* while its replay is running: nothing that the replay depends on has moved.
Later(k, l) ==
  /\ l.status = k.status /\ l.hub = k.hub /\ l.after = k.after /\ l.answer = k.answer
  /\ k.sentThrough <= l.sentThrough
  /\ ~l.resynced => ~k.resynced
  /\ (Replaying(k) /\ ~l.resynced) => l.sentThrough = k.sentThrough

\* Offering a page.
LEMMA OfferIsLater ==
  ASSUME NEW k \in Listener, NEW page \in SUBSET Sequence
  PROVE  Later(k, OfferAll(k, page)) /\ OfferAll(k, page).resynced = k.resynced
<1> DEFINE fresh == Above(page, k.sentThrough)
<1>0. k.sentThrough \in Nat /\ fresh \subseteq 0..MaxSequence /\ MaxSequence \in Nat
  <2>1. fresh \subseteq Sequence
    BY DEF Above
  <2>2. k.sentThrough \in 0..MaxSequence
    BY DEF Listener
  <2> HIDE DEF fresh
  <2> QED
    BY <2>1, <2>2, ConstantTypes DEF Sequence
<1>1. CASE Replaying(k)
  <2>1. OfferAll(k, page) = [k EXCEPT !.buffered = Buffer(k.buffered, fresh)]
    BY <1>1 DEF OfferAll
  <2> HIDE DEF fresh
  <2> QED
    BY <1>0, <2>1 DEF Later, Listener
<1>2. CASE ~Replaying(k)
  <2>1. OfferAll(k, page) = [k EXCEPT !.sentThrough = Highest(k.sentThrough, fresh)]
    BY <1>2 DEF OfferAll
  <2>2. \A s \in fresh : s > k.sentThrough /\ s \in Nat
    BY DEF Above, Sequence
  <2> HIDE DEF fresh
  <2>3. Highest(k.sentThrough, fresh) \in Nat /\ k.sentThrough <= Highest(k.sentThrough, fresh)
    <3>1. CASE fresh = {}
      BY <1>0, <3>1, HighestIsGreatest
    <3>2. CASE fresh # {}
      <4>1. Highest(k.sentThrough, fresh) \in fresh
        BY <1>0, <3>2, HighestIsGreatest
      <4> DEFINE m == Highest(k.sentThrough, fresh)
      <4>2. m \in Nat /\ m > k.sentThrough
        BY <2>2, <4>1
      <4> HIDE DEF m
      <4>3. k.sentThrough <= m
        BY <1>0, <4>2
      <4> QED
        BY <4>2, <4>3 DEF m
    <3> QED
      BY <3>1, <3>2
  <2> QED
    BY <1>0, <1>2, <2>1, <2>3 DEF Later, Listener
<1> QED
  BY <1>1, <1>2

\* What one step may do to one listener.
LEMMA ListenerStep ==
  ASSUME TypeOK, [Next]_vars, NEW c \in Conns
  PROVE  \/ Later(conn[c], conn'[c])
         \/ conn'[c].status = "off"
         \/ \E h \in Hubs, a \in 0..lastSequence : Subscribe(c, h, a)
         \/ ReadReplay(c)
         \/ FlushReplay(c)
<1>0. /\ conn \in [Conns -> Listener] /\ conn[c] \in Listener /\ conn[c].sentThrough \in Nat
  BY ConstantTypes DEF TypeOK, Listener
<1>1. Later(conn[c], conn[c])
  BY <1>0 DEF Later
<1>2. ASSUME NEW p \in Pubs, Dispatch(p) PROVE Later(conn[c], conn'[c])
  <2>1. {pub[p].sequence} \in SUBSET Sequence
    BY <1>2 DEF Dispatch, TypeOK
  <2>2. conn'[c] = conn[c] \/ conn'[c] = OfferAll(conn[c], {pub[p].sequence})
    BY <1>2 DEF Dispatch
  <2> QED
    BY <1>0, <1>1, <2>1, <2>2, OfferIsLater
<1>3. ASSUME NEW h \in Hubs, DeliverDrain(h) PROVE Later(conn[c], conn'[c])
  <2> DEFINE d == drain[h]
             k == IF ToldToResync(conn[c], d) THEN SkipTo(conn[c], d.announced) ELSE conn[c]
  <2>1. d.answer.events \in SUBSET Sequence /\ d.announced \in 0..MaxSequence
    BY DEF TypeOK, RemoteDrain, Answer
  <2>2. conn'[c] = conn[c] \/ conn'[c] = OfferAll(k, d.answer.events)
    BY <1>3 DEF DeliverDrain
  <2>3. k \in Listener /\ Later(conn[c], k)
    <3>1. CASE ToldToResync(conn[c], d)
      <4> DEFINE m == IF d.announced > conn[c].sentThrough THEN d.announced
                      ELSE conn[c].sentThrough
      <4>1. k = [conn[c] EXCEPT !.sentThrough = m, !.resynced = TRUE]
        BY <3>1 DEF SkipTo
      <4>2. m \in Nat /\ conn[c].sentThrough <= m
        BY <1>0, <2>1
      <4>3. k \in Listener
        BY <1>0, <2>1, <3>1, SkipToType
      <4> HIDE DEF m, k
      <4>4. Later(conn[c], k)
        BY <1>0, <4>1, <4>2 DEF Later, Listener
      <4> QED
        BY <4>3, <4>4
    <3>2. CASE ~ToldToResync(conn[c], d)
      BY <1>0, <3>2 DEF Later
    <3> QED
      BY <3>1, <3>2
  <2> HIDE DEF k, d
  <2>4. /\ Later(k, OfferAll(k, d.answer.events))
        /\ OfferAll(k, d.answer.events) \in Listener
    BY <2>1, <2>3, OfferIsLater, OfferAllType
  <2>5. k.sentThrough \in Nat /\ OfferAll(k, d.answer.events).sentThrough \in Nat
    BY <2>3, <2>4, ConstantTypes DEF Listener
  <2>6. Later(conn[c], OfferAll(k, d.answer.events))
    <3> DEFINE l == OfferAll(k, d.answer.events)
    <3>1. Later(conn[c], k) /\ Later(k, l) /\ l.sentThrough \in Nat
      BY <2>3, <2>4, <2>5
    <3> HIDE DEF l
    <3>2. Replaying(conn[c]) => Replaying(k)
      BY <3>1 DEF Later, Replaying
    <3>3. Later(conn[c], l)
      BY <1>0, <2>5, <3>1, <3>2 DEF Later
    <3> QED
      BY <3>3 DEF l
  <2> QED
    BY <1>1, <2>2, <2>6
<1>4. ASSUME NEW e \in Conns, Close(e)
      PROVE  Later(conn[c], conn'[c]) \/ conn'[c].status = "off"
  <2>1. \/ conn'[c] = conn[c] \/ conn'[c] = Closed
        \/ conn'[c] = [conn[c] EXCEPT !.open = FALSE]
    BY <1>0, <1>4 DEF Close
  <2>2. Later(conn[c], [conn[c] EXCEPT !.open = FALSE])
    BY <1>0 DEF Later, Listener
  <2> QED
    BY <1>1, <2>1, <2>2 DEF Closed
<1>5. ASSUME NEW e \in Conns, e # c, Connection(e) PROVE conn'[c] = conn[c]
  BY <1>0, <1>5 DEF Connection, Subscribe, ReadReplay, ReadReplayFails, FlushReplay, Close
<1>6. ASSUME ReadReplayFails(c) PROVE conn'[c].status = "off"
  BY <1>0, <1>6 DEF ReadReplayFails, Closed
<1>7. ASSUME NEW h \in Hubs, Crash(h) PROVE conn'[c] = conn[c] \/ conn'[c].status = "off"
  BY <1>0, <1>7 DEF Crash, Closed
<1>8. ASSUME NEW p \in Pubs, Publish(p), ~Dispatch(p) PROVE conn'[c] = conn[c]
  BY <1>8 DEF Publish, Append1, AppendAuthorized, ReplayAuthorized, PruneStep
<1>9. ASSUME NEW h \in Hubs, Process(h), ~DeliverDrain(h), ~Crash(h) PROVE conn'[c] = conn[c]
  BY <1>9 DEF Process, ConnectFanout, StartDrain, ReadDrain, ReadDrainFails
<1>10. ASSUME Carrier \/ UNCHANGED vars PROVE conn'[c] = conn[c]
  BY <1>10 DEF Carrier, AcceptRemote, LoseAnnouncement, vars
<1>11. ASSUME NEW e \in Conns, Connection(e)
       PROVE  \/ Later(conn[c], conn'[c])
              \/ conn'[c].status = "off"
              \/ \E h \in Hubs, a \in 0..lastSequence : Subscribe(c, h, a)
              \/ ReadReplay(c)
              \/ FlushReplay(c)
  BY <1>1, <1>4, <1>5, <1>6, <1>11 DEF Connection
<1>12. ASSUME NEW p \in Pubs, Publish(p) PROVE Later(conn[c], conn'[c])
  BY <1>1, <1>2, <1>8, <1>12
<1>13. ASSUME NEW h \in Hubs, Process(h)
       PROVE  Later(conn[c], conn'[c]) \/ conn'[c].status = "off"
  BY <1>1, <1>3, <1>7, <1>9, <1>13
<1> QED
  BY <1>1, <1>10, <1>11, <1>12, <1>13 DEF Next

-----------------------------------------------------------------------------
(* Completeness of a resume.                                               *)

\* What the three steps of a subscription make of its listener.
LEMMA SubscriptionSteps ==
  ASSUME TypeOK, NEW c \in Conns
  PROVE  /\ \A h \in Hubs, a \in 0..lastSequence : Subscribe(c, h, a) =>
              /\ conn'[c].status = "replaying" /\ conn'[c].sentThrough = conn'[c].after
              /\ drain' = drain
         /\ ReadReplay(c) =>
              /\ conn[c].status = "replaying" /\ conn'[c].status = "answered"
              /\ conn'[c].answer = Replay(rows, conn[c].after, ReplayLimit)
              /\ conn'[c].after = conn[c].after /\ conn'[c].hub = conn[c].hub
              /\ conn'[c].sentThrough = conn[c].sentThrough
              /\ conn'[c].resynced = conn[c].resynced
              /\ drain' = drain
         /\ FlushReplay(c) =>
              /\ conn[c].status = "answered" /\ conn'[c].status \in {"off", "live"}
              /\ drain' = drain
              /\ (conn'[c].status = "live" /\ ~conn'[c].resynced) =>
                   /\ ~conn[c].resynced /\ conn'[c].hub = conn[c].hub
                   /\ ~ResyncNeeded(conn[c].after, conn[c].answer.earliest)
                   /\ conn'[c].sentThrough = Highest(ReplayedThrough(conn[c]), Flushed(conn[c]))
<1>0. conn \in [Conns -> Listener] /\ conn[c] \in Listener
  BY DEF TypeOK
<1>1. ASSUME NEW h \in Hubs, NEW a \in 0..lastSequence, Subscribe(c, h, a)
      PROVE  /\ conn'[c].status = "replaying" /\ conn'[c].sentThrough = conn'[c].after
             /\ drain' = drain
  BY <1>0, <1>1 DEF Subscribe, Closed, drainVars
<1>2. ASSUME ReadReplay(c)
      PROVE  /\ conn[c].status = "replaying" /\ conn'[c].status = "answered"
             /\ conn'[c].answer = Replay(rows, conn[c].after, ReplayLimit)
             /\ conn'[c].after = conn[c].after /\ conn'[c].hub = conn[c].hub
             /\ conn'[c].sentThrough = conn[c].sentThrough
             /\ conn'[c].resynced = conn[c].resynced
             /\ drain' = drain
  <2> DEFINE answer == Replay(rows, conn[c].after, ReplayLimit)
  <2>1. /\ conn[c].status = "replaying" /\ drain' = drain
        /\ conn'[c] = [conn[c] EXCEPT !.status = "answered", !.answer = answer]
    BY <1>0, <1>2 DEF ReadReplay, drainVars
  <2> HIDE DEF answer
  <2>2. /\ conn'[c].status = "answered" /\ conn'[c].answer = answer
        /\ conn'[c].after = conn[c].after /\ conn'[c].hub = conn[c].hub
        /\ conn'[c].sentThrough = conn[c].sentThrough
        /\ conn'[c].resynced = conn[c].resynced
    BY <1>0, <2>1 DEF Listener
  <2> QED
    BY <2>1, <2>2 DEF answer
<1>3. ASSUME FlushReplay(c)
      PROVE  /\ conn[c].status = "answered" /\ conn'[c].status \in {"off", "live"}
             /\ drain' = drain
             /\ (conn'[c].status = "live" /\ ~conn'[c].resynced) =>
                  /\ ~conn[c].resynced /\ conn'[c].hub = conn[c].hub
                  /\ ~ResyncNeeded(conn[c].after, conn[c].answer.earliest)
                  /\ conn'[c].sentThrough = Highest(ReplayedThrough(conn[c]), Flushed(conn[c]))
  <2> DEFINE k == conn[c]
             resync == ResyncNeeded(k.after, k.answer.earliest)
             last == Highest(ReplayedThrough(k), Flushed(k))
             live == [k EXCEPT !.status = "live", !.buffered = {}, !.answer = NoAnswer]
  <2>1. /\ k.status = "answered" /\ drain' = drain
        /\ conn'[c] = IF ~k.open THEN Closed
                      ELSE IF resync THEN [live EXCEPT !.resynced = TRUE]
                      ELSE [live EXCEPT !.sentThrough = last]
    BY <1>0, <1>3 DEF FlushReplay, drainVars
  <2> HIDE DEF resync, last
  <2>2. CASE ~k.open
    BY <2>1, <2>2 DEF Closed
  <2>3. CASE k.open /\ resync
    <3>1. conn'[c] = [live EXCEPT !.resynced = TRUE]
      BY <2>1, <2>3
    <3>2. conn'[c].status = "live" /\ conn'[c].resynced
      BY <1>0, <3>1 DEF Listener
    <3> QED
      BY <2>1, <3>2
  <2>4. CASE k.open /\ ~resync
    <3>1. conn'[c] = [live EXCEPT !.sentThrough = last]
      BY <2>1, <2>4
    <3>2. /\ conn'[c].status = "live" /\ conn'[c].resynced = k.resynced
          /\ conn'[c].hub = k.hub /\ conn'[c].sentThrough = last
      BY <1>0, <3>1 DEF Listener
    <3> QED
      BY <2>1, <2>4, <3>2 DEF resync, last
  <2> QED
    BY <2>2, <2>3, <2>4
<1> QED
  BY <1>1, <1>2, <1>3

\* A step keeps the pages what they were read as.
LEMMA PagesKept ==
  ASSUME ReadInv, [Next]_vars
  PROVE  PagesHeld' /\ StillAtResumePoint'
<1>0. /\ TypeOK /\ LogBehind /\ LogContiguous /\ PagesHeld /\ StillAtResumePoint
      /\ conn \in [Conns -> Listener] /\ drain \in [Hubs -> RemoteDrain]
  BY DEF ReadInv, LogInv, WindowInv, TypeOK
<1>1. ASSUME NEW c \in Conns
      PROVE  /\ conn'[c].status = "answered" => PageFrom(conn'[c].after, conn'[c].answer)
             /\ (Replaying(conn'[c]) /\ ~conn'[c].resynced) =>
                  conn'[c].sentThrough = conn'[c].after
  <2>1. CASE Later(conn[c], conn'[c])
    <3>1. /\ conn'[c].status = conn[c].status /\ conn'[c].after = conn[c].after
          /\ conn'[c].answer = conn[c].answer
          /\ ~conn'[c].resynced => ~conn[c].resynced
          /\ (Replaying(conn[c]) /\ ~conn'[c].resynced) =>
               conn'[c].sentThrough = conn[c].sentThrough
      BY <2>1 DEF Later
    <3> QED
      BY <1>0, <3>1 DEF PagesHeld, StillAtResumePoint, Replaying
  <2>2. CASE conn'[c].status = "off"
    BY <2>2 DEF Replaying
  <2>3. CASE \E h \in Hubs, a \in 0..lastSequence : Subscribe(c, h, a)
    BY <1>0, <2>3, SubscriptionSteps
  <2>4. CASE ReadReplay(c)
    <3>1. /\ conn[c].status = "replaying"
          /\ conn'[c].answer = Replay(rows, conn[c].after, ReplayLimit)
          /\ conn'[c].after = conn[c].after /\ conn'[c].sentThrough = conn[c].sentThrough
          /\ conn'[c].resynced = conn[c].resynced
      BY <1>0, <2>4, SubscriptionSteps
    <3>2. conn[c].after \in Nat
      BY <1>0, ConstantTypes DEF Listener
    <3>3. PageFrom(conn[c].after, Replay(rows, conn[c].after, ReplayLimit))
      BY <1>0, <3>2, ReadIsPage
    <3>4. ~conn[c].resynced => conn[c].sentThrough = conn[c].after
      BY <1>0, <3>1 DEF StillAtResumePoint, Replaying
    <3> QED
      BY <3>1, <3>3, <3>4
  <2>5. CASE FlushReplay(c)
    <3>1. conn'[c].status \in {"off", "live"}
      BY <1>0, <2>5, SubscriptionSteps
    <3> QED
      BY <3>1 DEF Replaying
  <2> QED
    BY <1>0, <2>1, <2>2, <2>3, <2>4, <2>5, ListenerStep
<1>2. ASSUME NEW h \in Hubs, drain'[h].pc = "read"
      PROVE  PageFrom(drain'[h].cursor, drain'[h].answer)
  <2>1. CASE drain'[h] = drain[h]
    BY <1>0, <1>2, <2>1 DEF PagesHeld
  <2>2. CASE /\ drain'[h].answer = Replay(rows, drain[h].cursor, ReplayLimit)
             /\ drain'[h].cursor = drain[h].cursor
    <3>1. drain[h].cursor \in Nat
      BY <1>0, ConstantTypes DEF RemoteDrain
    <3> QED
      BY <1>0, <2>2, <3>1, ReadIsPage
  <2>3. /\ drain'[h] # IdleDrain
        /\ drain'[h] # [pc |-> "reading", announced |-> Head(pending[h]),
                        cursor |-> LowestCursor(h), answer |-> NoAnswer]
    BY <1>2 DEF IdleDrain
  <2> QED
    BY <1>0, <2>1, <2>2, <2>3, DrainStep
<1> QED
  BY <1>1, <1>2 DEF PagesHeld, StillAtResumePoint

\* The pages hold in every reachable state.
LEMMA ReadsHold == Spec => []ReadInv
<1> DEFINE P == LogContiguous /\ AnnouncedSettled /\ PagesHeld /\ StillAtResumePoint
<1>1. Init => P
  <2> SUFFICES ASSUME Init PROVE P
    OBVIOUS
  <2>1. LogContiguous /\ AnnouncedSettled
    BY DEF Init, LogContiguous, AnnouncedSettled, IdlePub, IdleDrain
  <2>2. PagesHeld /\ StillAtResumePoint
    BY DEF Init, PagesHeld, StillAtResumePoint, Closed, IdleDrain, Replaying
  <2> QED
    BY <2>1, <2>2
<1>2. ReadInv /\ [Next]_vars => P'
  <2> SUFFICES ASSUME ReadInv, [Next]_vars PROVE P'
    OBVIOUS
  <2>1. LogInv /\ WindowInv /\ LogContiguous
    BY DEF ReadInv, LogInv
  <2>2. LogContiguous'
    BY <2>1, ContiguousKept
  <2>3. AnnouncedSettled'
    <3>1. \A p \in Pubs : pub'[p].pc = "durable" =>
            Settled(pub'[p].sequence, lastSequence', rows')
      BY <2>1, PubSettled
    <3>2. \A n \in wire' : Settled(n.sequence, lastSequence', rows')
      BY <2>1, WireSettled
    <3>3. \A h \in Hubs : \A i \in 1..Len(pending'[h]) :
            Settled(pending'[h][i], lastSequence', rows')
      BY <2>1, PendingSettled
    <3>4. \A h \in Hubs : drain'[h].pc # "idle" =>
            /\ Settled(drain'[h].announced, lastSequence', rows')
            /\ drain'[h].cursor < drain'[h].announced
      BY <2>1, DrainSettled
    <3> QED
      BY <3>1, <3>2, <3>3, <3>4 DEF AnnouncedSettled
  <2> QED
    BY <2>2, <2>3, PagesKept
<1>3. ReadInv <=> WindowInv /\ P
  BY DEF ReadInv, LogInv
<1> HIDE DEF P
<1> QED
  BY <1>1, <1>2, <1>3, WindowHolds, PTL DEF Spec

\* A resume that is answered with events is answered completely (ReplayComplete),
\* for every window and every page size, whatever is deleted while it reads.
THEOREM ResumeComplete == Spec => []ReplayComplete
<1>1. ReadInv => ReplayComplete
  <2> SUFFICES ASSUME ReadInv, NEW c \in Conns, conn[c].status = "answered",
                      ~ResyncNeeded(conn[c].after, conn[c].answer.earliest)
               PROVE  \A s \in (conn[c].after + 1)..Highest(conn[c].after, conn[c].answer.events) :
                         s \in conn[c].answer.events
    BY DEF ReplayComplete
  <2>1. conn[c] \in Listener
    BY DEF ReadInv, LogInv, WindowInv, TypeOK
  <2>2. conn[c].answer \in Answer /\ conn[c].after \in Nat
    BY <2>1, ConstantTypes DEF Listener
  <2>3. PageFrom(conn[c].after, conn[c].answer)
    BY DEF ReadInv, PagesHeld
  <2> QED
    BY <2>2, <2>3, PageIsComplete
<1> QED
  BY <1>1, ReadsHold, PTL

-----------------------------------------------------------------------------
(* Completeness of a drain.                                                *)

\* While a drain is under way no listener it will offer its page to is behind the
\* cursor it reads from, nor will be once its own replay is flushed: also one that
\* registered after the cursor was picked.
NoneBehindDrain ==
  \A h \in Hubs : \A c \in Registered(h) :
    (drain[h].pc # "idle" /\ ~conn[c].resynced) =>
      /\ conn[c].status = "live" => drain[h].cursor <= conn[c].sentThrough
      /\ (/\ conn[c].status = "answered"
          /\ ~ResyncNeeded(conn[c].after, conn[c].answer.earliest)) =>
           drain[h].cursor <= ReplayedThrough(conn[c])

\* Where a replay leaves its listener: at its resume point or above, and past
\* every event of its page.
LEMMA ReplayedThroughType ==
  ASSUME NEW k \in Listener
  PROVE  /\ ReplayedThrough(k) \in Nat
         /\ \A e \in k.answer.events : e \in Nat /\ e <= ReplayedThrough(k)
         /\ k.answer.events = {} => ReplayedThrough(k) = k.sentThrough
         /\ k.answer.events # {} => ReplayedThrough(k) \in k.answer.events
<1>1. /\ k.answer.events \subseteq Sequence /\ k.sentThrough \in Nat
      /\ k.answer.events \subseteq 0..MaxSequence /\ MaxSequence \in Nat
  BY ConstantTypes DEF Listener, Answer, Sequence
<1>2. CASE k.answer.events = {}
  BY <1>1, <1>2 DEF ReplayedThrough
<1>3. CASE k.answer.events # {}
  <2>1. ReplayedThrough(k) = Highest(0, k.answer.events)
    BY <1>3 DEF ReplayedThrough
  <2>2. /\ Highest(0, k.answer.events) \in k.answer.events
        /\ \A e \in k.answer.events : e <= Highest(0, k.answer.events)
    BY <1>1, <1>3, HighestIsGreatest
  <2> QED
    BY <1>1, <1>3, <2>1, <2>2 DEF Sequence
<1> QED
  BY <1>2, <1>3

\* The flush leaves the cursor where the replay ended, or above.
LEMMA FlushedThrough ==
  ASSUME NEW k \in Listener
  PROVE  /\ Highest(ReplayedThrough(k), Flushed(k)) \in Nat
         /\ ReplayedThrough(k) <= Highest(ReplayedThrough(k), Flushed(k))
<1> DEFINE r == ReplayedThrough(k)
           page == Flushed(k)
<1>1. r \in Nat
  BY ReplayedThroughType
<1>2. /\ page \subseteq 0..MaxSequence /\ MaxSequence \in Nat
      /\ \A s \in page : s > r /\ s \in Nat
  <2>1. page \subseteq Sequence /\ \A s \in page : s > r
    BY DEF Flushed, Above, Listener
  <2> HIDE DEF page, r
  <2> QED
    BY <2>1, ConstantTypes DEF Sequence
<1> HIDE DEF page, r
<1>3. CASE page = {}
  <2>1. Highest(r, page) = r
    BY <1>2, <1>3, HighestIsGreatest
  <2> QED
    BY <1>1, <2>1 DEF page, r
<1>4. CASE page # {}
  <2>1. Highest(r, page) \in page
    BY <1>2, <1>4, HighestIsGreatest
  <2> DEFINE m == Highest(r, page)
  <2>2. m \in Nat /\ m > r
    BY <1>2, <2>1
  <2> HIDE DEF m
  <2>3. r <= m
    BY <1>1, <2>2
  <2> QED
    BY <2>2, <2>3 DEF m, page, r
<1> QED
  BY <1>3, <1>4

\* A replay that reads while a drain is under way, and is not told to resync,
\* reaches the drain's cursor: the announced event is settled, so the resume point
\* is within the window of it, and a page spans a window but for its last row.
LEMMA ReadReachesDrain ==
  ASSUME ReadInv, HistoryLimit <= ReplayLimit + 1, NEW h \in Hubs, drain[h].pc # "idle",
         NEW after \in Nat,
         ~ResyncNeeded(after, Replay(rows, after, ReplayLimit).earliest),
         after < drain[h].cursor
  PROVE  drain[h].cursor \in Replay(rows, after, ReplayLimit).events
<1> DEFINE x == drain[h].cursor
           n == drain[h].announced
<1>0. /\ TypeOK /\ LogBehind /\ WindowIntact /\ LogContiguous /\ AnnouncedSettled
      /\ rows \in SUBSET Sequence /\ lastSequence \in Nat
      /\ HistoryLimit \in Nat \ {0} /\ ReplayLimit \in Nat
      /\ \A s \in rows : s \in Nat /\ s # 0 /\ s <= lastSequence
  BY HubAssumption DEF ReadInv, LogInv, WindowInv, TypeOK, LogBehind, Sequence
<1>1. /\ x \in Nat /\ n \in Nat /\ x < n
      /\ n \in 1..lastSequence /\ \A t \in rows : t + HistoryLimit > n
  BY <1>0, ConstantTypes DEF TypeOK, RemoteDrain, AnnouncedSettled, Settled
<1>2. lastSequence \in rows
  BY <1>0, <1>1 DEF WindowIntact
<1>3. Above(rows, after) # {}
  <2>1. lastSequence > after
    BY <1>0, <1>1
  <2> QED
    BY <1>2, <2>1 DEF Above
<1>4. /\ Replay(rows, after, ReplayLimit).earliest = Oldest(rows)
      /\ Replay(rows, after, ReplayLimit).events = FirstAbove(rows, after, ReplayLimit)
  BY <1>3 DEF Replay
<1> DEFINE o == Oldest(rows)
<1>5. o \in rows /\ o \in Nat /\ o # 0
  <2>1. rows \subseteq Nat /\ rows # {}
    BY <1>0, <1>2
  <2>2. Oldest(rows) \in rows
    BY <2>1, OldestIsLeast
  <2> QED
    BY <1>0, <2>2
<1> HIDE DEF o, x, n
<1>6. ~(after + 1 < o)
  BY <1>4, <1>5 DEF ResyncNeeded, NoEdge, o
<1>7. after < x
  BY DEF x
<1>8. x \in o..lastSequence /\ x <= after + ReplayLimit
  BY <1>0, <1>1, <1>5, <1>6, <1>7
<1>9. x \in Above(rows, after)
  BY <1>1, <1>5, <1>7, <1>8, <1>0 DEF LogContiguous, Above
<1>10. x \in FirstAbove(rows, after, ReplayLimit)
  BY <1>0, <1>8, <1>9, PageReaches
<1> QED
  BY <1>4, <1>10 DEF x

\* A step leaves no listener behind a drain.
LEMMA NoneBehindKept ==
  ASSUME ReadInv, TypeOK', HistoryLimit <= ReplayLimit + 1, NoneBehindDrain, [Next]_vars
  PROVE  NoneBehindDrain'
<1>0. /\ TypeOK /\ PagesHeld /\ StillAtResumePoint
      /\ conn \in [Conns -> Listener] /\ drain \in [Hubs -> RemoteDrain]
      /\ conn' \in [Conns -> Listener] /\ drain' \in [Hubs -> RemoteDrain]
  BY DEF ReadInv, LogInv, WindowInv, TypeOK
<1> SUFFICES ASSUME NEW h \in Hubs, NEW c \in Conns,
                    conn'[c].status # "off", conn'[c].hub = h,
                    drain'[h].pc # "idle", ~conn'[c].resynced
             PROVE  /\ conn'[c].status = "live" => drain'[h].cursor <= conn'[c].sentThrough
                    /\ (/\ conn'[c].status = "answered"
                        /\ ~ResyncNeeded(conn'[c].after, conn'[c].answer.earliest)) =>
                         drain'[h].cursor <= ReplayedThrough(conn'[c])
  BY DEF NoneBehindDrain, Registered
<1> DEFINE k == conn[c]
           l == conn'[c]
<1>1. /\ k \in Listener /\ l \in Listener /\ k.sentThrough \in Nat /\ k.after \in Nat
      /\ l.sentThrough \in Nat /\ drain[h].cursor \in Nat /\ drain'[h].cursor \in Nat
  BY <1>0, ConstantTypes DEF Listener, RemoteDrain
<1>2. CASE drain'[h] = drain[h]
  <2>1. CASE Later(k, l)
    <3>1. /\ l.status = k.status /\ l.hub = k.hub /\ l.after = k.after /\ l.answer = k.answer
          /\ k.sentThrough <= l.sentThrough /\ ~k.resynced
          /\ Replaying(k) => l.sentThrough = k.sentThrough
      BY <2>1 DEF Later
    <3>2. c \in Registered(h) /\ drain[h].pc # "idle"
      BY <1>2, <3>1 DEF Registered
    <3>3. k.status = "live" => drain[h].cursor <= k.sentThrough
      BY <3>1, <3>2 DEF NoneBehindDrain
    <3>4. (k.status = "answered" /\ ~ResyncNeeded(k.after, k.answer.earliest)) =>
             drain[h].cursor <= ReplayedThrough(k)
      BY <3>1, <3>2 DEF NoneBehindDrain
    <3>5. k.status = "answered" => ReplayedThrough(l) = ReplayedThrough(k)
      BY <3>1 DEF ReplayedThrough, Replaying
    <3> HIDE DEF k, l
    <3>6. l.status = "live" => drain[h].cursor <= l.sentThrough
      BY <1>1, <3>1, <3>3
    <3>7. (l.status = "answered" /\ ~ResyncNeeded(l.after, l.answer.earliest)) =>
             drain[h].cursor <= ReplayedThrough(l)
      BY <3>1, <3>4, <3>5
    <3> QED
      BY <1>2, <3>6, <3>7 DEF l
  <2>2. CASE \E g \in Hubs, a \in 0..lastSequence : Subscribe(c, g, a)
    BY <1>0, <2>2, SubscriptionSteps
  <2>3. CASE ReadReplay(c)
    <3>1. /\ l.status = "answered" /\ l.after = k.after
          /\ l.answer = Replay(rows, k.after, ReplayLimit)
          /\ l.sentThrough = k.sentThrough /\ ~k.resynced /\ k.status = "replaying"
      BY <1>0, <2>3, SubscriptionSteps
    <3>2. k.sentThrough = k.after
      BY <1>0, <3>1 DEF StillAtResumePoint, Replaying
    <3> SUFFICES ASSUME ~ResyncNeeded(l.after, l.answer.earliest)
                 PROVE  drain[h].cursor <= ReplayedThrough(l)
      BY <1>2, <3>1
    <3>3. /\ ReplayedThrough(l) \in Nat
          /\ \A e \in l.answer.events : e <= ReplayedThrough(l)
          /\ l.answer.events = {} => ReplayedThrough(l) = l.sentThrough
          /\ l.answer.events # {} => ReplayedThrough(l) \in l.answer.events
      BY <1>1, ReplayedThroughType
    <3>4. CASE k.after < drain[h].cursor
      <4>1. drain[h].cursor \in l.answer.events
        BY <1>1, <1>2, <3>1, <3>4, ReadReachesDrain
      <4> QED
        BY <3>3, <4>1
    <3>5. CASE ~(k.after < drain[h].cursor)
      <4>1. PageFrom(k.after, l.answer)
        BY <1>1, <3>1, ReadIsPage DEF ReadInv, LogInv, WindowInv
      <4>2. k.after <= ReplayedThrough(l)
        <5>1. CASE l.answer.events = {}
          BY <1>1, <3>1, <3>2, <3>3, <5>1
        <5>2. CASE l.answer.events # {}
          <6>1. ReplayedThrough(l) > k.after
            BY <3>3, <4>1, <5>2 DEF PageFrom
          <6> QED
            BY <1>1, <3>3, <6>1
        <5> QED
          BY <5>1, <5>2
      <4> HIDE DEF k, l
      <4> QED
        BY <1>1, <3>3, <3>5, <4>2
    <3> QED
      BY <3>4, <3>5
  <2>4. CASE FlushReplay(c)
    <3>1. /\ k.status = "answered" /\ l.status = "live" /\ ~k.resynced /\ l.hub = k.hub
          /\ ~ResyncNeeded(k.after, k.answer.earliest)
          /\ l.sentThrough = Highest(ReplayedThrough(k), Flushed(k))
      BY <1>0, <2>4, SubscriptionSteps
    <3>2. c \in Registered(h) /\ drain[h].pc # "idle"
      BY <1>2, <3>1 DEF Registered
    <3>3. drain[h].cursor <= ReplayedThrough(k)
      BY <3>1, <3>2 DEF NoneBehindDrain
    <3>4. ReplayedThrough(k) \in Nat /\ ReplayedThrough(k) <= l.sentThrough
      BY <1>1, <3>1, ReplayedThroughType, FlushedThrough
    <3> HIDE DEF k, l
    <3>5. drain[h].cursor <= l.sentThrough
      BY <1>1, <3>3, <3>4
    <3> QED
      BY <1>2, <3>1, <3>5 DEF l
  <2> QED
    BY <1>0, <2>1, <2>2, <2>3, <2>4, ListenerStep
<1>3. CASE /\ conn' = conn /\ Registered(h) # {}
           /\ drain'[h] = [pc |-> "reading", announced |-> Head(pending[h]),
                           cursor |-> LowestCursor(h), answer |-> NoAnswer]
  <2>1. c \in Registered(h) /\ l = k
    BY <1>3 DEF Registered
  <2>2. drain'[h].cursor = LowestCursor(h) /\ LowestCursor(h) <= k.sentThrough
    BY <1>0, <1>3, <2>1, LowestCursorType
  <2>3. ASSUME k.status = "answered" PROVE k.sentThrough <= ReplayedThrough(k)
    <3>1. k.sentThrough = k.after
      BY <1>0, <2>1, <2>3 DEF StillAtResumePoint, Replaying
    <3>2. PageFrom(k.after, k.answer)
      BY <1>0, <2>3 DEF PagesHeld
    <3>3. /\ ReplayedThrough(k) \in Nat
          /\ k.answer.events = {} => ReplayedThrough(k) = k.sentThrough
          /\ k.answer.events # {} => ReplayedThrough(k) \in k.answer.events
      BY <1>1, ReplayedThroughType
    <3>4. k.answer.events # {} => ReplayedThrough(k) > k.after
      BY <3>2, <3>3 DEF PageFrom
    <3> HIDE DEF k
    <3> QED
      BY <1>1, <3>1, <3>3, <3>4
  <2>4. ReplayedThrough(k) \in Nat
    BY <1>1, ReplayedThroughType
  <2>5. drain'[h].cursor <= k.sentThrough
    BY <2>2
  <2>6. k.status = "answered" => drain'[h].cursor <= ReplayedThrough(k)
    <3> HIDE DEF k
    <3> QED
      BY <1>1, <2>3, <2>4, <2>5
  <2> QED
    BY <2>1, <2>5, <2>6
<1>4. CASE /\ conn' = conn /\ drain[h].pc = "reading"
           /\ drain'[h].cursor = drain[h].cursor
  <2>1. c \in Registered(h) /\ l = k
    BY <1>4 DEF Registered
  <2> QED
    BY <1>4, <2>1 DEF NoneBehindDrain
<1>5. drain'[h] # IdleDrain
  BY DEF IdleDrain
<1> QED
  BY <1>0, <1>2, <1>3, <1>4, <1>5, DrainStep

\* A page read for an announcement is complete for every live listener that is
\* not told to resync (DrainComplete), if the page size is at most one short of
\* the window.  The code's defaults are 512 for both.
THEOREM AnnouncementComplete ==
  HistoryLimit <= ReplayLimit + 1 /\ Spec => []DrainComplete
<1> SUFFICES ASSUME HistoryLimit <= ReplayLimit + 1 PROVE Spec => []DrainComplete
  OBVIOUS
<1>1. Init => NoneBehindDrain
  BY DEF Init, NoneBehindDrain, IdleDrain
<1>2. ReadInv /\ TypeOK' /\ NoneBehindDrain /\ [Next]_vars => NoneBehindDrain'
  BY NoneBehindKept
<1>3. ReadInv /\ NoneBehindDrain => DrainComplete
  <2> SUFFICES ASSUME ReadInv, NoneBehindDrain, NEW h \in Hubs, NEW c \in Registered(h),
                      drain[h].pc = "read", conn[c].status = "live", ~conn[c].resynced,
                      ~ToldToResync(conn[c], drain[h])
               PROVE  \A s \in (conn[c].sentThrough + 1)
                                 ..Highest(conn[c].sentThrough, drain[h].answer.events) :
                         s \in drain[h].answer.events
    BY DEF DrainComplete
  <2>1. conn[c] \in Listener /\ drain[h] \in RemoteDrain
    BY DEF ReadInv, LogInv, WindowInv, TypeOK, Registered
  <2>2. /\ drain[h].answer \in Answer /\ drain[h].cursor \in Nat
        /\ conn[c].sentThrough \in Nat
    BY <2>1, ConstantTypes DEF Listener, RemoteDrain
  <2>3. PageFrom(drain[h].cursor, drain[h].answer)
    BY DEF ReadInv, PagesHeld
  <2>4. drain[h].cursor <= conn[c].sentThrough
    BY DEF NoneBehindDrain
  <2>5. \/ ~ResyncNeeded(drain[h].cursor, drain[h].answer.earliest)
        \/ ~(conn[c].sentThrough + 1 < drain[h].answer.earliest)
    BY DEF ToldToResync
  <2> QED
    BY <2>2, <2>3, <2>4, <2>5, PageIsComplete
<1> QED
  BY <1>1, <1>2, <1>3, ReadsHold, TypeCorrect, PTL DEF Spec

=============================================================================
