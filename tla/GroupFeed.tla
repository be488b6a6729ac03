----------------------------- MODULE GroupFeed ------------------------------
(***************************************************************************)
(* One client of a group: ControlPlaneGroupChannel with the one cursor     *)
(* every feed shares, fed by sockets (RealtimeClient) and by polling       *)
(* (GroupEventPoller), over the retained log.                              *)
(*                                                                         *)
(* A step is what runs between two awaits.  A verdict of the server and    *)
(* its arrival are one step where the arrival only starts the next call;   *)
(* a page and a snapshot travel, and the cursor may move meanwhile.  The   *)
(* server's stream on a socket is what RealtimeHub promises one publisher  *)
(* at a time: ascending and complete from the resume point, or a resync.   *)
(***************************************************************************)
EXTENDS ReplayWindow, Sequences

CONSTANTS
  Sockets,       \* links whose plane admits realtime
  Pollers,       \* links followed by asking
  Kinds,         \* subset of {"document", "other"}: what the group publishes
  HistoryLimit,  \* rows the group retains
  ReplayLimit,   \* rows one answer returns
  MaxSequence,   \* bound: events appended in a behaviour
  MaxDrops       \* bound: links and calls that fail in a behaviour

Feeds == Sockets \cup Pollers

ASSUME FeedAssumption ==
  /\ Sockets \cap Pollers = {}
  /\ Kinds \subseteq {"document", "other"}
  /\ HistoryLimit \in Nat \ {0}
  /\ ReplayLimit \in Nat /\ HistoryLimit <= ReplayLimit
  /\ MaxSequence \in Nat
  /\ MaxDrops \in Nat

VARIABLES
  log,      \* the kind of every event appended; Retained says which remain
  cursor,   \* ControlPlaneGroupChannel.#appliedSequence
  applied,  \* history: how often the subscribers were handed each event
  rewound,  \* history: events the cursor was taken back across
  lost,     \* history: events gone when a resync was reported, or that the
            \* snapshot it read stood for
  thrown,   \* history: events a subscriber threw at
  feed,     \* the feeds
  drops     \* failures so far

feedVars == <<log, cursor, applied, rewound, lost, thrown, feed, drops>>

Sequence == 1..MaxSequence
\* A feed with no page on its way.
Standing(pc, position, floor) ==
  [pc |-> pc, after |-> position, page |-> {}, floor |-> floor]

Waiting == Standing("waiting", 0, 0)

FeedInit ==
  /\ log = <<>>
  /\ cursor = 0
  /\ applied = [s \in Sequence |-> 0]
  /\ rewound = {} /\ lost = {} /\ thrown = {}
  /\ feed = [f \in Feeds |-> Waiting]
  /\ drops = 0

Last == Len(log)
Retained == Prune(1..Last, Last, HistoryLimit)

\* recorded_snapshot: every document delta records one, and they are kept.
Snapshots == {s \in 1..Last : log[s] = "document"}

PublishEvent(kind) ==
  /\ Last < MaxSequence
  /\ log' = Append(log, kind)
  /\ UNCHANGED <<cursor, applied, rewound, lost, thrown, feed, drops>>

-----------------------------------------------------------------------------
(* The channel.                                                            *)

\* Mutant: an event at the cursor is taken for a new one.
AcceptedInclusive(page) == {s \in page : s >= cursor}

\* accept, over a page in ascending order.
Accepted(page) == Above(page, cursor)

HandedOut(page) == [s \in Sequence |-> IF s \in Accepted(page) THEN applied[s] + 1
                                       ELSE applied[s]]

\* Mutant: the cursor holds the next sequence expected.
DeliverNext(page) ==
  /\ cursor' = IF Accepted(page) = {} THEN cursor ELSE Highest(0, Accepted(page)) + 1
  /\ applied' = HandedOut(page)
  /\ UNCHANGED thrown

\* deliver, over a page: the cursor moves, and every subscriber is handed the
\* event.
Deliver(page) ==
  /\ cursor' = Highest(cursor, Accepted(page))
  /\ applied' = HandedOut(page)
  /\ UNCHANGED thrown

\* Mutant: the cursor moves to the end of the page before the events go out.
DeliverThrowsPage(page, s) ==
  /\ s \in Accepted(page)
  /\ cursor' = Highest(cursor, Accepted(page))
  /\ applied' = HandedOut({t \in page : t < s})
  /\ thrown' = thrown \cup {s}

\* A subscriber throws at s: the cursor is there already, the subscribers behind
\* it are not called, and the rest of the page is given up.
DeliverThrows(page, s) ==
  /\ s \in Accepted(page)
  /\ cursor' = s
  /\ applied' = HandedOut({t \in page : t < s})
  /\ thrown' = thrown \cup {s}

-----------------------------------------------------------------------------
(* The two feeds.                                                          *)

\* #sendHello on a fresh socket, #tick of a poller: the position is read.
Ask(f) ==
  /\ feed[f].pc = "waiting"
  /\ feed' = [feed EXCEPT ![f] = Standing("asking", cursor, 0)]
  /\ UNCHANGED <<log, cursor, applied, rewound, lost, thrown, drops>>

\* Mutant: the client resumes one below what is needed.
FloorTooLow(earliest) == earliest - 2

\* The sequence just below the oldest the server still retains.
Floor(earliest) == earliest - 1

\* The server's verdict: the window no longer covers the position.  A socket is
\* closed first; either feed then asks for the snapshot.
Outrun(f, after) ==
  LET answer == Replay(Retained, after, ReplayLimit)
  IN  /\ ResyncNeeded(after, answer.earliest)
      /\ feed' = [feed EXCEPT ![f] = Standing("resyncing", 0, Floor(answer.earliest))]
      /\ lost' = lost \cup 1..(answer.earliest - 1)
      /\ UNCHANGED <<log, cursor, applied, rewound, thrown, drops>>

\* readGroupEvents, or subscribe: the log is read from the position asked for.
Answer(f) ==
  LET answer == Replay(Retained, feed[f].after, ReplayLimit)
  IN  /\ feed[f].pc = "asking"
      /\ \/ Outrun(f, feed[f].after)
         \/ /\ ~ResyncNeeded(feed[f].after, answer.earliest)
            /\ feed' = [feed EXCEPT ![f] =
                 IF f \in Sockets THEN [@ EXCEPT !.pc = "live"]
                 ELSE [@ EXCEPT !.pc = "page", !.page = answer.events]]
            /\ UNCHANGED <<log, cursor, applied, rewound, lost, thrown, drops>>

\* #read: the page is delivered event by event, and the next tick armed.
DeliverPage(f) ==
  /\ feed[f].pc = "page"
  /\ Deliver(feed[f].page)
  /\ feed' = [feed EXCEPT ![f] = Waiting]
  /\ UNCHANGED <<log, rewound, lost, drops>>

\* ... or a subscriber throws, which the tick takes for a failed read.
PageThrows(f) ==
  /\ feed[f].pc = "page"
  /\ drops < MaxDrops
  /\ drops' = drops + 1
  /\ \E s \in feed[f].page : DeliverThrows(feed[f].page, s)
  /\ feed' = [feed EXCEPT ![f] = Waiting]
  /\ UNCHANGED <<log, rewound, lost>>

\* #receive, #applyEvent: the next frame of the stream, replayed or pushed.
Receive(f) ==
  /\ feed[f].pc = "live"
  /\ feed[f].after < Last
  /\ Deliver({feed[f].after + 1})
  /\ feed' = [feed EXCEPT ![f].after = @ + 1]
  /\ UNCHANGED <<log, rewound, lost, drops>>

\* ... or a subscriber throws out of the socket's handler, and the stream goes on.
FrameThrows(f) ==
  /\ feed[f].pc = "live"
  /\ feed[f].after < Last
  /\ drops < MaxDrops
  /\ drops' = drops + 1
  /\ DeliverThrows({feed[f].after + 1}, feed[f].after + 1)
  /\ feed' = [feed EXCEPT ![f].after = @ + 1]
  /\ UNCHANGED <<log, rewound, lost>>

\* A resync frame on an admitted socket: its process fell behind the window.
FallBehind(f) == feed[f].pc = "live" /\ Outrun(f, feed[f].after)

-----------------------------------------------------------------------------
(* Resynchronisation.                                                      *)

\* resumeFromSnapshot: the newest snapshot's sequence, or none.  Its contents
\* are not looked at.
ReadSnapshot(f) ==
  /\ feed[f].pc = "resyncing"
  /\ feed' = [feed EXCEPT ![f] =
       [@ EXCEPT !.pc = "rewinding", !.floor = Highest(feed[f].floor, Snapshots)]]
  /\ lost' = lost \cup 1..Highest(0, Snapshots)
  /\ UNCHANGED <<log, cursor, applied, rewound, thrown, drops>>

\* The snapshot call fails: the floor stands.
SnapshotFails(f) ==
  /\ feed[f].pc = "resyncing"
  /\ drops < MaxDrops
  /\ drops' = drops + 1
  /\ feed' = [feed EXCEPT ![f].pc = "rewinding"]
  /\ UNCHANGED <<log, cursor, applied, rewound, lost, thrown>>

\* rewindTo; the socket is then opened anew and the poller armed.
Rewind(f) ==
  /\ feed[f].pc = "rewinding"
  /\ cursor' = feed[f].floor
  /\ rewound' = rewound \cup (feed[f].floor + 1)..cursor
  /\ feed' = [feed EXCEPT ![f] = Waiting]
  /\ UNCHANGED <<log, applied, lost, thrown, drops>>

\* The socket closes, is refused its credentials, or the call is not answered:
\* the feed asks again after its backoff or its refreshed session.
Drop(f) ==
  /\ feed[f].pc \in {"asking", "live", "page"}
  /\ drops < MaxDrops
  /\ drops' = drops + 1
  /\ feed' = [feed EXCEPT ![f] = Waiting]
  /\ UNCHANGED <<log, cursor, applied, rewound, lost, thrown>>

-----------------------------------------------------------------------------
Feed(f) == \/ Ask(f)
           \/ Answer(f)
           \/ DeliverPage(f) \/ PageThrows(f)
           \/ Receive(f) \/ FrameThrows(f)
           \/ FallBehind(f)
           \/ ReadSnapshot(f)
           \/ SnapshotFails(f)
           \/ Rewind(f)
           \/ Drop(f)

FeedNext ==
  \/ \E k \in Kinds : PublishEvent(k)
  \/ \E f \in Feeds : Feed(f)

FeedSpec == FeedInit /\ [][FeedNext]_feedVars

-----------------------------------------------------------------------------
\* Type correctness; neither the cursor nor a feed's position passes the log.
FeedTypeOK ==
  /\ log \in Seq(Kinds) /\ Last <= MaxSequence
  /\ cursor \in 0..Last
  /\ applied \in [Sequence -> Nat]
  /\ rewound \subseteq Sequence /\ lost \subseteq Sequence /\ thrown \subseteq Sequence
  /\ feed \in [Feeds -> [pc : {"waiting", "asking", "live", "page", "resyncing",
                               "rewinding"},
                         after : 0..Last, page : SUBSET Sequence, floor : 0..Last]]
  /\ drops \in 0..MaxDrops

\* An event that arrived twice is applied once, whichever feeds carried it,
\* unless the cursor was taken back across it in between.
AppliedOnce == \A s \in Sequence \ rewound : applied[s] <= 1

\* The cursor claims nothing that was not applied: an event at or below it was
\* handed to the subscribers, or was gone when the server was asked for it, or
\* lies behind the snapshot that was read instead, or is the very one a
\* subscriber threw at; what followed it on the page is not.
NoSkip == \A s \in 1..cursor : applied[s] > 0 \/ s \in lost \/ s \in thrown

\* The newest document delta the cursor claims is in the client's document.
DocumentCurrent ==
  \A s \in Snapshots \cap 1..cursor :
    (\A t \in Snapshots \cap 1..cursor : t <= s) => applied[s] > 0

\* Timers fire, calls are answered and frames arrive.  Publishing and failing
\* are nobody's obligation.
FeedFairness ==
  \A f \in Feeds : WF_feedVars(Ask(f) \/ Answer(f) \/ DeliverPage(f) \/ Receive(f)
                            \/ ReadSnapshot(f) \/ Rewind(f))

FeedFairSpec == FeedSpec /\ FeedFairness

\* The newest snapshot lies below the retained window.
SnapshotOutlived ==
  Snapshots # {} /\ ResyncNeeded(Highest(0, Snapshots), Oldest(Retained))

\* The client ends up at the head of the log once the group falls silent,
\* unless it falls silent with a snapshot that every resync goes back to and
\* finds the window gone.
CatchesUp == <>[](cursor = Last) \/ <>[]SnapshotOutlived
=============================================================================
