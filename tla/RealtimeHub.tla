---------------------------- MODULE RealtimeHub -----------------------------
(***************************************************************************)
(* Several control-plane processes, each with a RealtimeHub, over the one  *)
(* durable log of a group.                                                 *)
(*                                                                         *)
(* A step is what runs between two awaits of the code: a statement the     *)
(* database executes, or a synchronous run of hub code.  A publication is  *)
(* therefore three steps (INSERT, DELETE of the rows that fell out of the  *)
(* window, dispatch and announce), a subscription three (register, the     *)
(* store's read, the flush), and the answer to a sibling's announcement    *)
(* three (pick the lowest cursor, the store's read, delivery).  Processes  *)
(* crash between any two of them, and announcements are lost or overtake   *)
(* one another.  Groups share nothing, so one group is modelled.           *)
(***************************************************************************)
EXTENDS ReplayWindow, Sequences

CONSTANTS
  Hubs,          \* control-plane processes
  NoHub,         \* the process of a slot that is not in use
  Conns,         \* subscription slots: sockets and WatchGroup streams
  Pubs,          \* RPC handlers publishing at the same time
  HistoryLimit,  \* rows a group retains (defaultRealtimeHistoryLimit)
  ReplayLimit,   \* rows one replay returns (defaultRealtimeReplayLimit)
  MaxSequence,   \* bound: events appended in a behaviour
  MaxRetries,    \* bound: retried publications answered from their receipt
  Crashes,       \* TRUE: processes die and the store's reads reject
  LossyCarrier   \* TRUE: the carrier refuses, drops or never connects

ASSUME HubAssumption ==
  /\ NoHub \notin Hubs
  /\ HistoryLimit \in Nat \ {0}
  /\ ReplayLimit \in Nat \ {0}
  /\ MaxSequence \in Nat
  /\ MaxRetries \in Nat
  /\ Crashes \in BOOLEAN
  /\ LossyCarrier \in BOOLEAN

VARIABLES
  lastSequence,  \* group_event_sequences.last_sequence
  rows,          \* the sequences sync_events holds
  retries,       \* publications answered from a receipt so far
  pub,           \* the publishing handlers
  conn,          \* the listeners, and the subscribe() call behind each
  sent,          \* history: how often each event was sent on a subscription
  listening,     \* hubs whose carrier subscription is established
  wire,          \* announcements the carrier has not delivered
  pending,       \* per hub, announcements chained behind the running drain
  drain          \* per hub, the running drainRemote

storeVars == <<lastSequence, rows, retries>>
drainVars == <<wire, pending, drain>>
vars == <<lastSequence, rows, retries, pub, conn, sent, listening, wire, pending, drain>>

Sequence == 1..MaxSequence
Nothing  == [s \in Sequence |-> 0]
NoAnswer == [events |-> {}, earliest |-> NoEdge]
IdlePub  == [pc |-> "idle", hub |-> NoHub, sequence |-> 0]
Closed   == [status |-> "off", open |-> FALSE, hub |-> NoHub,
             after |-> 0, sentThrough |-> 0, buffered |-> {},
             answer |-> NoAnswer, resynced |-> FALSE]
IdleDrain == [pc |-> "idle", announced |-> 0, cursor |-> 0, answer |-> NoAnswer]

Init ==
  /\ lastSequence = 0
  /\ rows = {}
  /\ retries = 0
  /\ pub = [p \in Pubs |-> IdlePub]
  /\ conn = [c \in Conns |-> Closed]
  /\ sent = [c \in Conns |-> Nothing]
  /\ listening = {}
  /\ wire = {}
  /\ pending = [h \in Hubs |-> <<>>]
  /\ drain = [h \in Hubs |-> IdleDrain]

-----------------------------------------------------------------------------
(* Listeners.                                                              *)

Registered(h) == {c \in Conns : conn[c].status # "off" /\ conn[c].hub = h}

Replaying(k) == k.status \in {"replaying", "answered"}

\* What offering a page, in ascending order, does to the buffer.  The flush
\* sends a buffered event only if it is above everything before it, so an
\* event that arrives behind a higher one is never sent: the buffer is kept
\* as the ascending set of those that can be.
Buffer(buffered, page) == buffered \cup {s \in page : \A t \in buffered : t < s}

\* GroupListener.offer, event by event over a page: at or below the cursor it
\* is dropped, while the replay runs it is buffered, otherwise it is sent.
OfferAll(k, page) ==
  LET fresh == Above(page, k.sentThrough)
  IN  IF Replaying(k) THEN [k EXCEPT !.buffered = Buffer(@, fresh)]
      ELSE [k EXCEPT !.sentThrough = Highest(@, fresh)]

\* Mutant: a page is sent without comparing it with the cursor.
OfferSendsAll(k, page) == IF Replaying(k) \/ ~k.open THEN {} ELSE page

\* The events of the page that reach the socket.
OfferSends(k, page) ==
  IF Replaying(k) \/ ~k.open THEN {} ELSE Above(page, k.sentThrough)

\* The history after sending `page': how often each event was sent.
Sending(history, page) ==
  [s \in Sequence |-> IF s \in page THEN history[s] + 1 ELSE history[s]]

-----------------------------------------------------------------------------
(* Publication.                                                            *)

\* hub.publish -> DurableRealtimeEventStore.append: the INSERT that allocates
\* the sequence.  Retention is a second statement of the same call.
Append1(p, h) ==
  /\ pub[p].pc = "idle"
  /\ lastSequence < MaxSequence
  /\ lastSequence' = lastSequence + 1
  /\ rows' = rows \cup {lastSequence + 1}
  /\ pub' = [pub EXCEPT ![p] = [pc |-> "appended", hub |-> h,
                                sequence |-> lastSequence + 1]]
  /\ UNCHANGED <<retries, conn, sent, listening>> /\ UNCHANGED drainVars

\* DurableRealtimeEventStore.prune
PruneStep(p) ==
  /\ pub[p].pc = "appended"
  /\ rows' = Prune(rows, pub[p].sequence, HistoryLimit)
  /\ pub' = [pub EXCEPT ![p].pc = "durable"]
  /\ UNCHANGED <<lastSequence, retries, conn, sent, listening>>
  /\ UNCHANGED drainVars

\* appendAuthorized: row, retention and receipt ride one statement.
AppendAuthorized(p, h) ==
  /\ pub[p].pc = "idle"
  /\ lastSequence < MaxSequence
  /\ lastSequence' = lastSequence + 1
  /\ rows' = Prune(rows, lastSequence + 1, HistoryLimit) \cup {lastSequence + 1}
  /\ pub' = [pub EXCEPT ![p] = [pc |-> "durable", hub |-> h,
                                sequence |-> lastSequence + 1]]
  /\ UNCHANGED <<retries, conn, sent, listening>> /\ UNCHANGED drainVars

\* appendAuthorized answering a retried request from its receipt: the stored
\* event comes back, and the handler delivers it once more.  The retention of
\* that event rode the statement that appended it, so nothing that fell out of
\* its window is left.
ReplayAuthorized(p, h) ==
  /\ pub[p].pc = "idle"
  /\ retries < MaxRetries
  /\ retries' = retries + 1
  /\ \E s \in rows :
       /\ Prune(rows, s, HistoryLimit) = rows
       /\ pub' = [pub EXCEPT ![p] = [pc |-> "durable", hub |-> h, sequence |-> s]]
  /\ UNCHANGED <<lastSequence, rows, conn, sent, listening>>
  /\ UNCHANGED drainVars

\* The notification reaches every subscriber of the channel.  The announcer's
\* own echo, from which acceptRemote returns at once, is left out.
Announcement(h, s) == {[to |-> g, sequence |-> s] : g \in listening \ {h}}

\* hub.deliver and the tail of hub.publish: offer to this process's listeners,
\* then announce; a carrier that refuses costs the announcement only.
Dispatch(p) ==
  LET h == pub[p].hub
      s == pub[p].sequence
  IN  /\ pub[p].pc = "durable"
      /\ conn' = [c \in Conns |-> IF c \in Registered(h) THEN OfferAll(conn[c], {s})
                                  ELSE conn[c]]
      /\ sent' = [c \in Conns |-> IF c \in Registered(h)
                                  THEN Sending(sent[c], OfferSends(conn[c], {s}))
                                  ELSE sent[c]]
      /\ \/ wire' = wire \cup Announcement(h, s)
         \/ LossyCarrier /\ wire' = wire
      /\ pub' = [pub EXCEPT ![p] = IdlePub]
      /\ UNCHANGED storeVars /\ UNCHANGED <<listening, pending, drain>>

-----------------------------------------------------------------------------
(* Subscription.                                                           *)

\* connectFanout, awaited by a subscribe that has not registered yet.  When
\* it fails the subscription goes on without it: Subscribe asks for it only
\* where failures are left out.
ConnectFanout(h) ==
  /\ h \notin listening
  /\ listening' = listening \cup {h}
  /\ UNCHANGED storeVars /\ UNCHANGED <<pub, conn, sent>> /\ UNCHANGED drainVars

\* subscribe, up to the await of the store: register, then the ready frame.
Subscribe(c, h, after) ==
  /\ conn[c].status = "off"
  /\ h \in listening \/ LossyCarrier
  /\ conn' = [conn EXCEPT ![c] = [Closed EXCEPT !.status = "replaying",
                                    !.open = TRUE, !.hub = h, !.after = after,
                                    !.sentThrough = after]]
  /\ sent' = [sent EXCEPT ![c] = Nothing]
  /\ UNCHANGED storeVars /\ UNCHANGED <<pub, listening>> /\ UNCHANGED drainVars

\* The database answers the resume's replay statement.
ReadReplay(c) ==
  /\ conn[c].status = "replaying"
  /\ LET answer == Replay(rows, conn[c].after, ReplayLimit)
     IN  conn' = [conn EXCEPT ![c] =
                    [@ EXCEPT !.status = "answered", !.answer = answer]]
  /\ UNCHANGED storeVars /\ UNCHANGED <<pub, sent, listening>>
  /\ UNCHANGED drainVars

\* The read rejects: subscribe unregisters the listener and rethrows.
ReadReplayFails(c) ==
  /\ Crashes
  /\ conn[c].status = "replaying"
  /\ conn' = [conn EXCEPT ![c] = Closed]
  /\ sent' = [sent EXCEPT ![c] = Nothing]
  /\ UNCHANGED storeVars /\ UNCHANGED <<pub, listening>> /\ UNCHANGED drainVars

\* The cursor after the replayed events went out.
ReplayedThrough(k) ==
  IF k.answer.events = {} THEN k.sentThrough ELSE Highest(0, k.answer.events)

\* The buffered events the flush sends.
Flushed(k) == Above(k.buffered, ReplayedThrough(k))

\* subscribe, after the read.  A resync drops the buffer and leaves the
\* listener registered at its old cursor.
FlushReplay(c) ==
  LET k == conn[c]
      resync == ResyncNeeded(k.after, k.answer.earliest)
      live == [k EXCEPT !.status = "live", !.buffered = {}, !.answer = NoAnswer]
  IN  /\ k.status = "answered"
      /\ conn' = [conn EXCEPT ![c] =
           IF ~k.open THEN Closed
           ELSE IF resync THEN [live EXCEPT !.resynced = TRUE]
           ELSE [live EXCEPT !.sentThrough =
                                    Highest(ReplayedThrough(k), Flushed(k))]]
      /\ sent' = [sent EXCEPT ![c] =
           IF resync \/ ~k.open THEN Nothing
           ELSE Sending(Sending(@, k.answer.events), Flushed(k))]
      /\ UNCHANGED storeVars /\ UNCHANGED <<pub, listening>>
      /\ UNCHANGED drainVars

\* The socket closes.  While subscribe is still awaiting the store the
\* listener stays registered: clearAdmission has no release to call yet, and
\* the one that arrives later is called because the generation moved on.
Close(c) ==
  /\ conn[c].open
  /\ conn' = [conn EXCEPT ![c] = IF Replaying(@) THEN [@ EXCEPT !.open = FALSE]
                                 ELSE Closed]
  /\ sent' = [sent EXCEPT ![c] = Nothing]
  /\ UNCHANGED storeVars /\ UNCHANGED <<pub, listening>> /\ UNCHANGED drainVars

-----------------------------------------------------------------------------
(* Announcements from the other processes.                                 *)

\* Mutant: an announcement that finds a drain running is dropped, as if the
\* running read covered it.
AcceptRemoteCoalesced(n) ==
  /\ wire' = wire \ {n}
  /\ pending' = IF drain[n.to].pc # "idle" THEN pending
                ELSE [pending EXCEPT ![n.to] = Append(@, n.sequence)]
  /\ UNCHANGED storeVars /\ UNCHANGED <<pub, conn, sent, listening, drain>>

\* acceptRemote: the announcement is chained behind the drains already queued
\* for the group.
AcceptRemote(n) ==
  /\ wire' = wire \ {n}
  /\ pending' = [pending EXCEPT ![n.to] = Append(@, n.sequence)]
  /\ UNCHANGED storeVars /\ UNCHANGED <<pub, conn, sent, listening, drain>>

\* The carrier drops an announcement.
LoseAnnouncement(n) ==
  /\ LossyCarrier
  /\ wire' = wire \ {n}
  /\ UNCHANGED storeVars
  /\ UNCHANGED <<pub, conn, sent, listening, pending, drain>>

\* The lowest cursor among the process's listeners.
LowestCursor(h) ==
  CHOOSE m \in {conn[c].sentThrough : c \in Registered(h)} :
     \A c \in Registered(h) : m <= conn[c].sentThrough

\* drainRemote up to the read: nothing to do without an audience, or when
\* everyone is already past the announced sequence.
StartDrain(h) ==
  /\ drain[h].pc = "idle"
  /\ pending[h] # <<>>
  /\ pending' = [pending EXCEPT ![h] = Tail(@)]
  /\ IF Registered(h) = {} \/ Head(pending[h]) <= LowestCursor(h)
     THEN UNCHANGED drain
     ELSE drain' = [drain EXCEPT ![h] =
            [pc |-> "reading", announced |-> Head(pending[h]),
             cursor |-> LowestCursor(h), answer |-> NoAnswer]]
  /\ UNCHANGED storeVars /\ UNCHANGED <<pub, conn, sent, listening, wire>>

ReadDrain(h) ==
  /\ drain[h].pc = "reading"
  /\ LET answer == Replay(rows, drain[h].cursor, ReplayLimit)
     IN  drain' = [drain EXCEPT ![h] = [@ EXCEPT !.pc = "read", !.answer = answer]]
  /\ UNCHANGED storeVars /\ UNCHANGED <<pub, conn, sent, listening, wire, pending>>

\* The read rejects; the chain swallows it.
ReadDrainFails(h) ==
  /\ Crashes
  /\ drain[h].pc = "reading"
  /\ drain' = [drain EXCEPT ![h] = IdleDrain]
  /\ UNCHANGED storeVars /\ UNCHANGED <<pub, conn, sent, listening, wire, pending>>

\* Mutant: off by one at the edge.
ToldToResyncLate(k, d) ==
  ResyncNeeded(d.cursor, d.answer.earliest) /\ k.sentThrough + 2 < d.answer.earliest

\* The listener is behind the edge the read reported: it is told once, and its
\* cursor skips to what was announced.
ToldToResync(k, d) ==
  ResyncNeeded(d.cursor, d.answer.earliest) /\ k.sentThrough + 1 < d.answer.earliest

SkipTo(k, s) == [k EXCEPT !.sentThrough = IF s > @ THEN s ELSE @, !.resynced = TRUE]

\* drainRemote after the read, over the listeners registered by then.
DeliverDrain(h) ==
  LET d == drain[h]
      Through(k) == IF ToldToResync(k, d) THEN SkipTo(k, d.announced) ELSE k
  IN  /\ d.pc = "read"
      /\ conn' = [c \in Conns |->
           IF c \in Registered(h) THEN OfferAll(Through(conn[c]), d.answer.events)
           ELSE conn[c]]
      /\ sent' = [c \in Conns |->
           IF c \in Registered(h)
           THEN Sending(sent[c], OfferSends(Through(conn[c]), d.answer.events))
           ELSE sent[c]]
      /\ drain' = [drain EXCEPT ![h] = IdleDrain]
      /\ UNCHANGED storeVars /\ UNCHANGED <<pub, listening, wire, pending>>

-----------------------------------------------------------------------------
\* A process dies: its listeners, handlers and drains go, the log stays.
Crash(h) ==
  /\ Crashes
  /\ pub' = [p \in Pubs |-> IF pub[p].hub = h THEN IdlePub ELSE pub[p]]
  /\ conn' = [c \in Conns |-> IF conn[c].hub = h THEN Closed ELSE conn[c]]
  /\ sent' = [c \in Conns |-> IF conn[c].hub = h THEN Nothing ELSE sent[c]]
  /\ listening' = listening \ {h}
  /\ wire' = {n \in wire : n.to # h}
  /\ pending' = [pending EXCEPT ![h] = <<>>]
  /\ drain' = [drain EXCEPT ![h] = IdleDrain]
  /\ UNCHANGED storeVars

Publish(p) == \/ \E h \in Hubs : \/ Append1(p, h)
                                 \/ AppendAuthorized(p, h)
                                 \/ ReplayAuthorized(p, h)
              \/ PruneStep(p)
              \/ Dispatch(p)

Connection(c) == \/ \E h \in Hubs, a \in 0..lastSequence : Subscribe(c, h, a)
                 \/ ReadReplay(c)
                 \/ ReadReplayFails(c)
                 \/ FlushReplay(c)
                 \/ Close(c)

Process(h) == \/ ConnectFanout(h)
              \/ StartDrain(h)
              \/ ReadDrain(h)
              \/ ReadDrainFails(h)
              \/ DeliverDrain(h)
              \/ Crash(h)

Carrier == \E n \in wire : AcceptRemote(n) \/ LoseAnnouncement(n)

Next == \/ \E p \in Pubs : Publish(p)
        \/ \E c \in Conns : Connection(c)
        \/ \E h \in Hubs : Process(h)
        \/ Carrier

Spec == Init /\ [][Next]_vars

-----------------------------------------------------------------------------
(* Safety.                                                                 *)

Answer   == [events : SUBSET Sequence, earliest : 0..MaxSequence]
Handler  == [pc : {"idle", "appended", "durable"}, hub : Hubs \cup {NoHub},
             sequence : 0..MaxSequence]
Listener == [status : {"off", "replaying", "answered", "live"}, open : BOOLEAN,
             hub : Hubs \cup {NoHub}, after : 0..MaxSequence,
             sentThrough : 0..MaxSequence, buffered : SUBSET Sequence,
             answer : Answer, resynced : BOOLEAN]
RemoteDrain == [pc : {"idle", "reading", "read"}, announced : 0..MaxSequence,
                cursor : 0..MaxSequence, answer : Answer]

\* Type correctness of the log, the handlers and the listeners; a handler that
\* has appended names its process and its row.
TypeOK ==
  /\ lastSequence \in 0..MaxSequence
  /\ rows \subseteq Sequence
  /\ retries \in 0..MaxRetries
  /\ pub \in [Pubs -> Handler]
  /\ \A p \in Pubs : pub[p].pc # "idle" => pub[p].sequence \in Sequence
  /\ conn \in [Conns -> Listener]
  /\ sent \in [Conns -> [Sequence -> Nat]]
  /\ listening \subseteq Hubs
  /\ wire \subseteq [to : Hubs, sequence : Sequence]
  /\ pending \in [Hubs -> Seq(Sequence)]
  /\ drain \in [Hubs -> RemoteDrain]

\* Retention never removes an event inside the declared window, whatever the
\* order in which the DELETEs of concurrent publications reach the database.
WindowIntact ==
  \A s \in 1..lastSequence : s + HistoryLimit > lastSequence => s \in rows

\* A resume that is answered with events is answered completely: between the
\* cursor and the last event of the page nothing is missing, although rows
\* are deleted while the read is in flight.
ReplayComplete ==
  \A c \in Conns :
    LET k == conn[c]
    IN  (k.status = "answered" /\ ~ResyncNeeded(k.after, k.answer.earliest)) =>
          \A s \in (k.after + 1)..Highest(k.after, k.answer.events) :
             s \in k.answer.events

\* The same for a sibling's announcement: the page read from the lowest cursor
\* is complete for every live listener that is not told to resync, those that
\* registered while the read was in flight included.
DrainComplete ==
  \A h \in Hubs : \A c \in Registered(h) :
    LET d == drain[h]
        k == conn[c]
    IN  (/\ d.pc = "read" /\ k.status = "live"
         /\ ~k.resynced /\ ~ToldToResync(k, d)) =>
          \A s \in (k.sentThrough + 1)..Highest(k.sentThrough, d.answer.events) :
             s \in d.answer.events

\* Ascending and once: what a step sends on a connection is above everything
\* the connection was sent before, by whichever of the three routes (resume,
\* local dispatch, announcement) it came.
SendsAscend ==
  [][\A c \in Conns, s \in Sequence :
       sent'[c][s] > sent[c][s] =>
         /\ sent'[c][s] = 1
         /\ \A r \in Sequence : sent[c][r] > 0 => r < s]_vars

\* A connection that an announcement's page tells to resync is sent nothing of
\* that page: drainRemote moves its cursor past the page first.
ResyncSkipsThePage ==
  [][\A c \in Conns :
       (~conn[c].resynced /\ conn'[c].resynced) => sent'[c] = sent[c]]_vars

\* No event is skipped: a live connection that was not told to resync has been
\* sent every event between its resume point and its cursor.
NoSilentGap ==
  \A c \in Conns :
    (conn[c].status = "live" /\ ~conn[c].resynced) =>
      \A s \in (conn[c].after + 1)..conn[c].sentThrough : sent[c][s] = 1

-----------------------------------------------------------------------------
(* Liveness.                                                               *)

\* Awaited statements come back and queued callbacks run.  Nothing obliges a
\* client to publish, to subscribe or to hang up.
Fairness ==
  /\ \A p \in Pubs : WF_vars(PruneStep(p)) /\ WF_vars(Dispatch(p))
  /\ \A c \in Conns : WF_vars(ReadReplay(c)) /\ WF_vars(FlushReplay(c))
  /\ \A h \in Hubs : /\ WF_vars(StartDrain(h))
                     /\ WF_vars(ReadDrain(h))
                     /\ WF_vars(DeliverDrain(h))
  /\ \A h \in Hubs, s \in Sequence :
       WF_vars(LET n == [to |-> h, sequence |-> s] IN n \in wire /\ AcceptRemote(n))

FairSpec == Spec /\ Fairness

\* Every subscription catches up with the log, is told to resync, or ends.
CaughtUp ==
  \A c \in Conns, n \in Sequence :
    (lastSequence >= n) ~>
      \/ conn[c].status = "off" \/ ~conn[c].open
      \/ conn[c].resynced \/ conn[c].sentThrough >= n
=============================================================================
