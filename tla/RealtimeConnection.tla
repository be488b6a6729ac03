------------------------- MODULE RealtimeConnection -------------------------
(***************************************************************************)
(* One WebSocket of the realtime server (realtime/server.ts): a closure of *)
(* flags, a queue that runs one operation at a time, and around it events  *)
(* that wait for no queue: the socket closes, the hub offers a frame, the  *)
(* timer fires, the access token stops being valid.                        *)
(*                                                                         *)
(* A step is what runs between two awaits.  What the hub does is in        *)
(* RealtimeHub; here it has a listener of this connection or has none.     *)
(* Frames that are not binary or cannot be decoded are answered with an    *)
(* error and change nothing; acknowledgements are handled as pings are.    *)
(***************************************************************************)
EXTENDS Naturals, Sequences

CONSTANTS
  MaxMessages, \* bound: messages the client sends
  MaxFrames    \* bound: frames the hub offers

ASSUME ConnectionAssumption == MaxMessages \in Nat /\ MaxFrames \in Nat

VARIABLES
  valid,      \* authenticateAccessToken accepts the token of the hello
  socket,     \* readyState; closed once the close event has been emitted
  conn,       \* the variables of the connection's closure
  listener,   \* the hub has a listener of this connection
  queue,      \* operations behind the running one
  run,        \* the running operation
  messages,   \* messages received so far
  offered,    \* frames offered so far
  late,       \* history: frames offered when the token was no longer valid
  sent,       \* history: frames handed to the socket
  torn        \* history: the socket closed inside hub.subscribe

vars == <<valid, socket, conn, listener, queue, run, messages, offered, late, sent, torn>>

Fresh == [admitted |-> FALSE, helloPending |-> FALSE, release |-> FALSE, timer |-> FALSE,
          checking |-> FALSE, generation |-> 0]

Rest == [pc |-> "idle", op |-> "none", frame |-> 0, generation |-> 0]

Init ==
  /\ valid = TRUE
  /\ socket = "open"
  /\ conn = Fresh
  /\ listener = FALSE
  /\ queue = <<>>
  /\ run = Rest
  /\ messages = 0 /\ offered = 0
  /\ late = {} /\ sent = {} /\ torn = FALSE

Enqueue(op, frame) == queue' = Append(queue, [op |-> op, frame |-> frame])

\* Mutant: the timer is forgotten.
ClearAdmissionTicking ==
  /\ conn' = [Fresh EXCEPT !.generation = conn.generation + 1, !.timer = conn.timer]
  /\ listener' = (listener /\ ~conn.release)

\* clearAdmission: the listener goes only if its release is at hand.
ClearAdmission ==
  /\ conn' = [Fresh EXCEPT !.generation = conn.generation + 1]
  /\ listener' = (listener /\ ~conn.release)

\* closeForPolicyViolation
ClosePolicy == socket' = IF socket = "open" THEN "closing" ELSE socket

-----------------------------------------------------------------------------
(* Events.                                                                 *)

\* The client's message is queued.
Message(op) ==
  /\ socket # "closed" /\ messages < MaxMessages
  /\ messages' = messages + 1
  /\ Enqueue(op, 0)
  /\ UNCHANGED <<valid, socket, conn, listener, run, offered, late, sent, torn>>

\* hub.subscribe's send: replayed, live and drained frames alike.
Offer ==
  /\ listener /\ offered < MaxFrames
  /\ offered' = offered + 1
  /\ Enqueue("frame", offered + 1)
  /\ late' = IF valid THEN late ELSE late \cup {offered + 1}
  /\ UNCHANGED <<valid, socket, conn, listener, run, messages, sent, torn>>

\* The interval fires; it does nothing while its last check is pending.
Interval ==
  /\ conn.timer /\ ~conn.checking /\ conn.admitted
  /\ conn' = [conn EXCEPT !.checking = TRUE]
  /\ Enqueue("check", 0)
  /\ UNCHANGED <<valid, socket, listener, run, messages, offered, late, sent, torn>>

\* The token expires, is rotated away or is revoked.
Invalidate ==
  /\ valid
  /\ valid' = FALSE
  /\ UNCHANGED <<socket, conn, listener, queue, run, messages, offered, late, sent, torn>>

\* The peer asks to close.
Closing ==
  /\ socket = "open"
  /\ socket' = "closing"
  /\ UNCHANGED <<valid, conn, listener, queue, run, messages, offered, late, sent, torn>>

\* The close or error event.
Closed ==
  /\ socket # "closed"
  /\ socket' = "closed"
  /\ ClearAdmission
  /\ torn' = (run.pc \in {"subscribing", "registered"})
  /\ UNCHANGED <<valid, queue, run, messages, offered, late, sent>>

-----------------------------------------------------------------------------
(* The queue.                                                              *)

Asking(op) == [Rest EXCEPT !.pc = "asked", !.op = op.op, !.frame = op.frame]

\* handleRealtimeMessage, deliverAuthorizedFrame and the periodic check, up to
\* their first await: a first hello and everything else on an admitted connection
\* ask whether the token is valid, a ping before admission ends the connection.
Begin ==
  LET op == Head(queue)
      asks == IF op.op = "hello" THEN ~conn.admitted /\ ~conn.helloPending ELSE conn.admitted
  IN  /\ run.pc = "idle" /\ queue # <<>>
      /\ queue' = Tail(queue)
      /\ run' = IF asks THEN Asking(op) ELSE Rest
      /\ conn' = [conn EXCEPT !.helloPending = @ \/ (asks /\ op.op = "hello"),
                             !.checking = @ /\ (asks \/ op.op # "check")]
      /\ IF ~asks /\ op.op = "ping" THEN ClosePolicy ELSE UNCHANGED socket
      /\ UNCHANGED <<valid, listener, messages, offered, late, sent, torn>>

\* Mutant: what was admitted once is not asked about again.
ValidateOnce ==
  /\ run.pc = "asked"
  /\ run' = [run EXCEPT !.pc = IF run.op # "hello" \/ valid THEN "granted" ELSE "denied"]
  /\ UNCHANGED <<valid, socket, conn, listener, queue, messages, offered, late, sent, torn>>

\* admission.admit and revalidate answer; a failing lookup is a refusal.
Validate ==
  /\ run.pc = "asked"
  /\ \/ valid /\ run' = [run EXCEPT !.pc = "granted"]
     \/ run' = [run EXCEPT !.pc = "denied"]
  /\ UNCHANGED <<valid, socket, conn, listener, queue, messages, offered, late, sent, torn>>

\* handleHello after admit, up to hub.subscribe's await.
Admit ==
  /\ run.pc = "granted" /\ run.op = "hello"
  /\ IF socket # "open"
     THEN /\ conn' = [conn EXCEPT !.helloPending = FALSE]
          /\ run' = Rest
     ELSE /\ conn' = [conn EXCEPT !.admitted = TRUE, !.helloPending = FALSE]
          /\ run' = [run EXCEPT !.pc = "subscribing", !.generation = conn.generation]
  /\ UNCHANGED <<valid, socket, listener, queue, messages, offered, late, sent, torn>>

\* handleHello on a refusal.
Refuse ==
  /\ run.pc = "denied" /\ run.op = "hello"
  /\ ClosePolicy
  /\ conn' = [conn EXCEPT !.helloPending = FALSE]
  /\ run' = Rest
  /\ UNCHANGED <<valid, listener, queue, messages, offered, late, sent, torn>>

\* The hub registers the listener, then awaits its store.
Register ==
  /\ run.pc = "subscribing"
  /\ listener' = TRUE
  /\ run' = [run EXCEPT !.pc = "registered"]
  /\ UNCHANGED <<valid, socket, conn, queue, messages, offered, late, sent, torn>>

\* The read rejects: the hub unregisters, enqueueSafely tears the connection down.
SubscribeFails ==
  /\ run.pc = "registered"
  /\ conn' = [Fresh EXCEPT !.generation = conn.generation + 1]
  /\ listener' = FALSE
  /\ ClosePolicy
  /\ run' = Rest
  /\ UNCHANGED <<valid, queue, messages, offered, late, sent, torn>>

\* Mutant: the release is stored on whatever is left of the connection.
StaleNever == FALSE

\* A teardown ran while hub.subscribe was awaited.
Stale == run.generation # conn.generation

\* subscribe and handleHello after hub.subscribe: the release is stored, or
\* called at once when a teardown came first; either way the interval starts.
Subscribed ==
  /\ run.pc = "registered"
  /\ listener' = ~Stale
  /\ conn' = [conn EXCEPT !.release = ~Stale, !.timer = TRUE]
  /\ run' = Rest
  /\ UNCHANGED <<valid, socket, queue, messages, offered, late, sent, torn>>

\* Mutant: the check is not marked as done.
CheckedNever(op) == conn

\* The periodic check's finally.
Checked(op) == IF op = "check" THEN [conn EXCEPT !.checking = FALSE] ELSE conn

\* A granted operation: the frame, if the socket is still open.
Deliver ==
  /\ run.pc = "granted" /\ run.op # "hello"
  /\ sent' = IF run.op = "frame" /\ socket = "open" THEN sent \cup {run.frame} ELSE sent
  /\ conn' = Checked(run.op)
  /\ run' = Rest
  /\ UNCHANGED <<valid, socket, listener, queue, messages, offered, late, torn>>

\* rejectAfterAdmission, unless a teardown came first.
Reject ==
  /\ run.pc = "denied" /\ run.op # "hello"
  /\ IF conn.admitted THEN ClearAdmission /\ ClosePolicy
     ELSE conn' = Checked(run.op) /\ UNCHANGED <<listener, socket>>
  /\ run' = Rest
  /\ UNCHANGED <<valid, queue, messages, offered, late, sent, torn>>

Work == \/ Begin \/ Validate \/ Admit \/ Refuse \/ Register \/ SubscribeFails
        \/ Subscribed \/ Deliver \/ Reject

Next == \/ \E op \in {"hello", "ping"} : Message(op)
        \/ Offer \/ Interval \/ Invalidate \/ Closing \/ Closed
        \/ Work

Spec == Init /\ [][Next]_vars

\* The queue runs, and the interval fires.
FairSpec == Spec /\ WF_vars(Work) /\ WF_vars(Interval)

-----------------------------------------------------------------------------
\* Type correctness; a hello is pending only while one runs.
TypeOK ==
  /\ valid \in BOOLEAN /\ listener \in BOOLEAN /\ torn \in BOOLEAN
  /\ socket \in {"open", "closing", "closed"}
  /\ conn \in [admitted : BOOLEAN, helloPending : BOOLEAN, release : BOOLEAN,
               timer : BOOLEAN, checking : BOOLEAN, generation : Nat]
  /\ queue \in Seq([op : {"hello", "ping", "frame", "check"}, frame : 0..MaxFrames])
  /\ run \in [pc : {"idle", "asked", "granted", "denied", "subscribing", "registered"},
              op : {"none", "hello", "ping", "frame", "check"}, frame : 0..MaxFrames,
              generation : Nat]
  /\ messages \in 0..MaxMessages /\ offered \in 0..MaxFrames
  /\ late \subseteq 1..MaxFrames /\ sent \subseteq 1..MaxFrames
  /\ conn.helloPending => run.op = "hello"

\* A listener of the hub has an owner: an admitted connection that holds its
\* release, or the subscribe call that is about to hand it over.  A socket
\* that closes at any moment leaves none behind.
ListenerOwned ==
  /\ listener => (conn.admitted /\ conn.release) \/ run.pc = "registered"
  /\ conn.admitted => socket # "closed"

\* Nothing that happened in the group after the token stopped being valid
\* reaches its socket.
NothingAfterRevocation == sent \cap late = {}

\* A closed connection keeps no interval, unless it closed inside hub.subscribe.
TimerReleased == (socket = "closed" /\ ~torn) => ~conn.timer

\* An idle connection whose token is no longer valid is cut off for good.
RevokedIsCut == ~valid ~> [](~conn.admitted /\ ~listener)
=============================================================================
