---------------------------- MODULE ReplayWindow ----------------------------
(***************************************************************************)
(* The retained window of one group's log and the answer to a resume.      *)
(*                                                                         *)
(* sync_events is seen as the set of sequence numbers it still holds.  A   *)
(* replay is one SQL statement: the first `limit' rows above the caller's  *)
(* cursor together with the oldest row of the group, or no edge at all     *)
(* when nothing lies above the cursor.  decideReplay is the one retention  *)
(* rule of every transport (the hub's sockets and the polled pages).       *)
(***************************************************************************)
EXTENDS Integers, FiniteSets

\* `earliestSequence: undefined': the store reported no edge.  Sequences
\* start at 1 (the allocator inserts 1), so 0 is free to mean it.
NoEdge == 0

Above(rows, after) == {s \in rows : s > after}

\* The oldest retained sequence.
Oldest(rows) == CHOOSE e \in rows : \A s \in rows : e <= s

\* The highest of a page, or `base' when it is empty.
Highest(base, page) ==
  IF page = {} THEN base ELSE CHOOSE m \in page : \A s \in page : s <= m

\* ORDER BY sequence ASC LIMIT n, over the rows above the cursor.
FirstAbove(rows, after, limit) ==
  {s \in Above(rows, after) :
      Cardinality({t \in Above(rows, after) : t < s}) < limit}

\* RealtimeEventStore.replay
Replay(rows, after, limit) ==
  [events   |-> FirstAbove(rows, after, limit),
   earliest |-> IF Above(rows, after) = {} THEN NoEdge ELSE Oldest(rows)]

\* Mutant: the edge is compared with the cursor one too far.
ResyncNeededLate(after, earliest) == earliest # NoEdge /\ after + 2 < earliest

\* decideReplay: TRUE is the `resync' outcome.  The first event the caller
\* still needs is after + 1, so it has lost something only when the edge is
\* beyond that.
ResyncNeeded(after, earliest) == earliest # NoEdge /\ after + 1 < earliest

\* Mutant: the newest row beyond the window goes too.
PruneOneMore(rows, latest, historyLimit) ==
  {s \in rows : s + historyLimit > latest + 1}

\* DELETE ... WHERE sequence <= latest - historyLimit
Prune(rows, latest, historyLimit) == {s \in rows : s + historyLimit > latest}

=============================================================================
