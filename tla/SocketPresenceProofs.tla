------------------------ MODULE SocketPresenceProofs ------------------------
(***************************************************************************)
(* A connected device, from the server's side: what one socket of the      *)
(* realtime server guarantees for any number of messages and frames, and   *)
(* for every order in which its queue, the peer, the hub, the timer and    *)
(* the token act; and what the two stores of presence say of any number of *)
(* devices, for any number of handlers at once and any TTL.                *)
(***************************************************************************)
EXTENDS RealtimeConnection, Presence, SequenceTheorems, TLAPS

Closure == [admitted : BOOLEAN, helloPending : BOOLEAN, release : BOOLEAN,
            timer : BOOLEAN, checking : BOOLEAN, generation : Nat]

Operation == [op : {"hello", "ping", "frame", "check"}, frame : 0..MaxFrames]

Running == [pc : {"idle", "asked", "granted", "denied", "subscribing", "registered"},
            op : {"none", "hello", "ping", "frame", "check"}, frame : 0..MaxFrames,
            generation : Nat]

Subscribing == run.pc \in {"subscribing", "registered"}

\* What is queued or runs was offered before.
FramesOffered ==
  /\ \A i \in 1..Len(queue) : queue[i].op = "frame" => queue[i].frame \in 1..offered
  /\ run.op = "frame" => run.frame \in 1..offered
  /\ late \subseteq 1..offered
  /\ sent \subseteq 1..offered

\* A frame that was granted was offered while the token was valid.
GrantedInTime ==
  /\ valid => late = {}
  /\ (run.pc = "granted" /\ run.op = "frame") => run.frame \notin late

\* A subscription whose connection was not torn down belongs to an admitted one.
SubscriptionCurrent ==
  /\ run.generation <= conn.generation
  /\ (Subscribing /\ run.generation = conn.generation) => conn.admitted

\* The strengthening that makes the four invariants inductive.
ConnectionInv ==
  /\ TypeOK
  /\ run.pc = "idle" => run.op = "none"
  /\ Subscribing => ~conn.helloPending
  /\ FramesOffered
  /\ GrantedInTime
  /\ SubscriptionCurrent
  /\ ListenerOwned
  /\ NothingAfterRevocation
  /\ TimerReleased
  /\ (socket = "closed" /\ ~torn) => ~Subscribing

-----------------------------------------------------------------------------
\* The initial closure is well typed, and so is any closure that is cleared.
LEMMA FreshTyped == Fresh \in Closure /\ Rest \in Running
BY ConnectionAssumption DEF Fresh, Rest, Closure, Running

\* Queueing an operation keeps what is known of the queue.
LEMMA EnqueueKeeps ==
  ASSUME NEW op \in {"hello", "ping", "frame", "check"}, NEW frame \in 0..MaxFrames,
         NEW bound \in Nat, queue \in Seq(Operation), Enqueue(op, frame),
         \A i \in 1..Len(queue) : queue[i].op = "frame" => queue[i].frame \in 1..bound,
         op = "frame" => frame \in 1..bound
  PROVE  /\ queue' \in Seq(Operation)
         /\ \A i \in 1..Len(queue') : queue'[i].op = "frame" => queue'[i].frame \in 1..bound
<1> DEFINE o == [op |-> op, frame |-> frame]
<1>1. o \in Operation /\ o.op = op /\ o.frame = frame
  BY DEF Operation
<1>2. queue' = Append(queue, o)
  BY DEF Enqueue
<1> HIDE DEF o
<1>3. /\ queue' \in Seq(Operation) /\ Len(queue') = Len(queue) + 1
      /\ queue'[Len(queue) + 1] = o
      /\ \A i \in 1..Len(queue) : queue'[i] = queue[i]
  BY <1>1, <1>2, AppendProperties
<1>4. Len(queue) \in Nat
  BY LenProperties
<1> QED
  BY <1>1, <1>3, <1>4

\* A clearing keeps the listener only for the subscribe call that owns it.
LEMMA ClearingReleases ==
  ASSUME ConnectionInv, ClearAdmission
  PROVE  /\ conn' \in Closure /\ listener' \in BOOLEAN
         /\ ~conn'.admitted /\ ~conn'.helloPending /\ ~conn'.timer /\ ~conn'.release
         /\ conn'.generation = conn.generation + 1
         /\ listener' => run.pc = "registered"
<1>1. conn \in Closure /\ listener \in BOOLEAN
  BY DEF ConnectionInv, TypeOK, Closure
<1> DEFINE g == conn.generation + 1
<1>2. g \in Nat
  BY <1>1 DEF Closure
<1>3. conn' = [Fresh EXCEPT !.generation = g]
  BY DEF ClearAdmission
<1>4. listener' = (listener /\ ~conn.release)
  BY DEF ClearAdmission
<1>5. listener' \in BOOLEAN /\ (listener' => run.pc = "registered")
  BY <1>4, Zenon DEF ConnectionInv, ListenerOwned
<1> HIDE DEF g
<1>6. /\ conn' \in Closure /\ conn'.generation = g
      /\ conn'.admitted = FALSE /\ conn'.helloPending = FALSE
      /\ conn'.timer = FALSE /\ conn'.release = FALSE
  BY <1>2, <1>3 DEF Fresh, Closure
<1> QED
  BY <1>5, <1>6 DEF g

-----------------------------------------------------------------------------
(* One lemma per action.                                                   *)

\* Every conjunct is well defined over the typed state.
LEMMA Typed ==
  ASSUME TypeOK
  PROVE  /\ conn \in Closure /\ run \in Running /\ queue \in Seq(Operation)
         /\ offered \in 0..MaxFrames /\ offered \in Nat /\ messages \in Nat
BY ConnectionAssumption DEF TypeOK, Closure, Running, Operation

\* A step that leaves closure, socket and running operation alone.
LEMMA ConnectionKept ==
  ASSUME ConnectionInv, UNCHANGED <<socket, conn, listener, run, torn>>
  PROVE  /\ (run.pc = "idle" => run.op = "none")'
         /\ (Subscribing => ~conn.helloPending)'
         /\ (conn.helloPending => run.op = "hello")'
         /\ SubscriptionCurrent' /\ ListenerOwned' /\ TimerReleased'
         /\ ((socket = "closed" /\ ~torn) => ~Subscribing)'
<1> USE DEF ConnectionInv, Subscribing
<1>1. (run.pc = "idle" => run.op = "none")'
  BY Zenon
<1>2. (Subscribing => ~conn.helloPending)'
  BY Zenon
<1>3. (conn.helloPending => run.op = "hello")'
  BY Zenon DEF TypeOK
<1>4. SubscriptionCurrent'
  BY Zenon DEF SubscriptionCurrent
<1>5. ListenerOwned'
  BY Zenon DEF ListenerOwned
<1>6. TimerReleased'
  BY Zenon DEF TimerReleased
<1>7. ((socket = "closed" /\ ~torn) => ~Subscribing)'
  BY Zenon
<1> QED
  BY <1>1, <1>2, <1>3, <1>4, <1>5, <1>6, <1>7, Zenon

\* A message of the client.
LEMMA MessageKeeps ==
  ASSUME ConnectionInv, NEW op \in {"hello", "ping"}, Message(op)
  PROVE  ConnectionInv'
<1>1. /\ queue' \in Seq(Operation)
      /\ \A i \in 1..Len(queue') : queue'[i].op = "frame" => queue'[i].frame \in 1..offered
  <2>1. queue \in Seq(Operation) /\ offered \in Nat /\ 0 \in 0..MaxFrames
    BY Typed, ConnectionAssumption DEF ConnectionInv
  <2>2. Enqueue(op, 0) /\ op \in {"hello", "ping", "frame", "check"} /\ op # "frame"
    BY DEF Message
  <2>3. \A i \in 1..Len(queue) : queue[i].op = "frame" => queue[i].frame \in 1..offered
    BY DEF FramesOffered, ConnectionInv
  <2> QED
    BY <2>1, <2>2, <2>3, EnqueueKeeps
<1>2. messages' \in 0..MaxMessages
  BY ConnectionAssumption DEF Message, TypeOK, ConnectionInv
<1>3. UNCHANGED <<valid, socket, conn, listener, run, offered, late, sent, torn>>
  BY DEF Message
<1>4. TypeOK'
  BY <1>1, <1>2, <1>3, Typed DEF TypeOK, Operation, ConnectionInv
<1>5. FramesOffered'
  BY <1>1, <1>3, Zenon DEF FramesOffered, ConnectionInv
<1>6. GrantedInTime' /\ NothingAfterRevocation'
  BY <1>3, Zenon DEF GrantedInTime, NothingAfterRevocation, ConnectionInv
<1> QED
  BY <1>3, <1>4, <1>5, <1>6, ConnectionKept, Zenon DEF ConnectionInv

\* A frame of the hub: its number is new, so it was neither sent nor granted.
LEMMA OfferKeeps ==
  ASSUME ConnectionInv, Offer
  PROVE  ConnectionInv'
<1>0. TypeOK /\ FramesOffered /\ GrantedInTime /\ NothingAfterRevocation
  BY DEF ConnectionInv
<1>1. offered' = offered + 1 /\ offered' \in 1..MaxFrames
  BY <1>0, ConnectionAssumption DEF Offer, TypeOK
<1>2. /\ queue' \in Seq(Operation)
      /\ \A i \in 1..Len(queue') : queue'[i].op = "frame" => queue'[i].frame \in 1..offered'
  <2>1. \A i \in 1..Len(queue) : queue[i].op = "frame" => queue[i].frame \in 1..offered'
    BY <1>0, <1>1, Typed DEF FramesOffered
  <2>2. Enqueue("frame", offered')
    BY <1>1 DEF Offer
  <2> QED
    BY <1>0, <1>1, <2>1, <2>2, Typed, EnqueueKeeps
<1>3. UNCHANGED <<valid, socket, conn, listener, run, messages, sent, torn>>
  BY DEF Offer
<1>4. late' = IF valid THEN late ELSE late \cup {offered'}
  BY <1>1 DEF Offer
<1>5. late' \subseteq 1..MaxFrames /\ late' \subseteq 1..offered' /\ sent \subseteq 1..offered'
  BY <1>0, <1>1, <1>4, Typed DEF TypeOK, FramesOffered
<1>6. offered' \notin sent /\ (run.op = "frame" => run.frame # offered' /\ run.frame \in 1..offered')
  BY <1>0, <1>1, Typed DEF FramesOffered
<1>7. offered' \in 0..MaxFrames
  BY <1>1
<1>8. TypeOK'
  <2>1. messages' \in 0..MaxMessages /\ sent' \subseteq 1..MaxFrames
    BY <1>0, <1>3 DEF TypeOK
  <2>2. conn' \in Closure /\ run' \in Running
    BY <1>0, <1>3, Typed
  <2>3. valid' \in BOOLEAN /\ listener' \in BOOLEAN /\ torn' \in BOOLEAN /\ socket' \in {"open", "closing", "closed"}
    BY <1>0, <1>3, Zenon DEF TypeOK
  <2>4. (conn.helloPending => run.op = "hello")'
    BY <1>0, <1>3, Zenon DEF TypeOK
  <2> QED
    BY <1>2, <1>5, <1>7, <2>1, <2>2, <2>3, <2>4, Zenon DEF TypeOK, Closure, Running, Operation
<1>9. FramesOffered'
  BY <1>2, <1>3, <1>5, <1>6, Zenon DEF FramesOffered
<1>10. GrantedInTime'
  BY <1>0, <1>3, <1>4, <1>6, Zenon DEF GrantedInTime
<1>11. NothingAfterRevocation'
  BY <1>0, <1>3, <1>4, <1>6, Zenon DEF NothingAfterRevocation
<1> QED
  BY <1>3, <1>8, <1>9, <1>10, <1>11, ConnectionKept, Zenon DEF ConnectionInv

\* What a step has to show when no frame is offered and none is sent.
LEMMA QuietStep ==
  ASSUME ConnectionInv, UNCHANGED <<messages, offered, late, sent>>,
         conn' \in Closure, run' \in Running, queue' \in Seq(Operation),
         valid' \in BOOLEAN, listener' \in BOOLEAN, torn' \in BOOLEAN,
         socket' \in {"open", "closing", "closed"},
         conn'.helloPending => run'.op = "hello",
         valid' => valid,
         \A i \in 1..Len(queue') : queue'[i].op = "frame" => queue'[i].frame \in 1..offered,
         run'.op = "frame" => run'.frame \in 1..offered,
         (run'.pc = "granted" /\ run'.op = "frame") => run'.frame \notin late
  PROVE  TypeOK' /\ FramesOffered' /\ GrantedInTime' /\ NothingAfterRevocation'
<1>1. /\ messages' \in 0..MaxMessages /\ offered' \in 0..MaxFrames
      /\ late' \subseteq 1..MaxFrames /\ sent' \subseteq 1..MaxFrames
  BY Zenon DEF ConnectionInv, TypeOK
<1>2. TypeOK'
  BY <1>1, Zenon DEF TypeOK, Closure, Running, Operation
<1>3. FramesOffered'
  BY Zenon DEF FramesOffered, ConnectionInv
<1>4. GrantedInTime' /\ NothingAfterRevocation'
  BY Zenon DEF GrantedInTime, NothingAfterRevocation, ConnectionInv
<1> QED
  BY <1>2, <1>3, <1>4

\* The parts of the invariant that are about the closure and the socket.
ConnectionParts ==
  /\ run.pc = "idle" => run.op = "none"
  /\ Subscribing => ~conn.helloPending
  /\ SubscriptionCurrent
  /\ ListenerOwned
  /\ TimerReleased
  /\ (socket = "closed" /\ ~torn) => ~Subscribing

LEMMA PartsMakeInv ==
  ASSUME TypeOK', FramesOffered', GrantedInTime', NothingAfterRevocation', ConnectionParts'
  PROVE  ConnectionInv'
BY Zenon DEF ConnectionInv, ConnectionParts

\* What a step finds.
LEMMA Before ==
  ASSUME ConnectionInv
  PROVE  /\ conn \in Closure /\ run \in Running /\ queue \in Seq(Operation)
         /\ valid \in BOOLEAN /\ listener \in BOOLEAN /\ torn \in BOOLEAN
         /\ socket \in {"open", "closing", "closed"} /\ offered \in Nat
         /\ (conn.helloPending => run.op = "hello")
         /\ \A i \in 1..Len(queue) : queue[i].op = "frame" => queue[i].frame \in 1..offered
         /\ (run.op = "frame" => run.frame \in 1..offered)
         /\ ((run.pc = "granted" /\ run.op = "frame") => run.frame \notin late)
         /\ ConnectionParts
<1>1. conn \in Closure /\ run \in Running /\ queue \in Seq(Operation) /\ offered \in Nat
  BY Typed DEF ConnectionInv
<1>2. /\ valid \in BOOLEAN /\ listener \in BOOLEAN /\ torn \in BOOLEAN
      /\ socket \in {"open", "closing", "closed"}
      /\ (conn.helloPending => run.op = "hello")
  BY Zenon DEF ConnectionInv, TypeOK
<1>3. /\ \A i \in 1..Len(queue) : queue[i].op = "frame" => queue[i].frame \in 1..offered
      /\ (run.op = "frame" => run.frame \in 1..offered)
  BY Zenon DEF ConnectionInv, FramesOffered
<1>4. ((run.pc = "granted" /\ run.op = "frame") => run.frame \notin late)
  BY Zenon DEF ConnectionInv, GrantedInTime
<1>5. ConnectionParts
  BY Zenon DEF ConnectionInv, ConnectionParts
<1> QED
  BY <1>1, <1>2, <1>3, <1>4, <1>5, Zenon

\* The operation is over.
LEMMA AtRest ==
  ASSUME run' = Rest
  PROVE  run' \in Running /\ run'.pc = "idle" /\ run'.op = "none" /\ run'.generation = 0
BY FreshTyped DEF Rest

\* The interval fires.
LEMMA IntervalKeeps ==
  ASSUME ConnectionInv, Interval
  PROVE  ConnectionInv'
<1>1. UNCHANGED <<valid, socket, listener, run, messages, offered, late, sent, torn>>
  BY DEF Interval
<1>2. /\ conn' \in Closure /\ conn'.admitted = conn.admitted
      /\ conn'.helloPending = conn.helloPending /\ conn'.release = conn.release
      /\ conn'.timer = conn.timer /\ conn'.generation = conn.generation
  BY Before DEF Interval, Closure
<1>3. /\ queue' \in Seq(Operation)
      /\ \A i \in 1..Len(queue') : queue'[i].op = "frame" => queue'[i].frame \in 1..offered
  <2>1. 0 \in 0..MaxFrames /\ Enqueue("check", 0)
    BY ConnectionAssumption DEF Interval
  <2> QED
    BY <2>1, Before, EnqueueKeeps
<1>4. TypeOK' /\ FramesOffered' /\ GrantedInTime' /\ NothingAfterRevocation'
  BY <1>1, <1>2, <1>3, Before, QuietStep, Zenon
<1>5. ConnectionParts'
  BY <1>1, <1>2, Before, Zenon DEF ConnectionParts, Subscribing, SubscriptionCurrent,
     ListenerOwned, TimerReleased
<1> QED
  BY <1>4, <1>5, PartsMakeInv

\* The token ends.
LEMMA InvalidateKeeps ==
  ASSUME ConnectionInv, Invalidate
  PROVE  ConnectionInv'
<1>1. /\ valid' = FALSE
      /\ UNCHANGED <<socket, conn, listener, queue, run, messages, offered, late, sent, torn>>
  BY DEF Invalidate
<1>2. TypeOK' /\ FramesOffered' /\ GrantedInTime' /\ NothingAfterRevocation'
  BY <1>1, Before, QuietStep, Zenon
<1>3. ConnectionParts'
  BY <1>1, Before, Zenon DEF ConnectionParts, Subscribing, SubscriptionCurrent,
     ListenerOwned, TimerReleased
<1> QED
  BY <1>2, <1>3, PartsMakeInv

\* The peer asks to close.
LEMMA ClosingKeeps ==
  ASSUME ConnectionInv, Closing
  PROVE  ConnectionInv'
<1>1. /\ socket' = "closing" /\ socket' # "closed"
      /\ UNCHANGED <<valid, conn, listener, queue, run, messages, offered, late, sent, torn>>
  BY DEF Closing
<1>2. TypeOK' /\ FramesOffered' /\ GrantedInTime' /\ NothingAfterRevocation'
  BY <1>1, Before, QuietStep, Zenon
<1>3. ConnectionParts'
  BY <1>1, Before, Zenon DEF ConnectionParts, Subscribing, SubscriptionCurrent,
     ListenerOwned, TimerReleased
<1> QED
  BY <1>2, <1>3, PartsMakeInv

\* The close event: a clearing, and a subscription it tore is remembered.
LEMMA ClosedKeeps ==
  ASSUME ConnectionInv, Closed
  PROVE  ConnectionInv'
<1>1. /\ socket' = "closed" /\ torn' = Subscribing
      /\ UNCHANGED <<valid, queue, run, messages, offered, late, sent>>
  BY Zenon DEF Closed, Subscribing
<1>2. /\ conn' \in Closure /\ listener' \in BOOLEAN
      /\ ~conn'.admitted /\ ~conn'.helloPending /\ ~conn'.timer
      /\ conn'.generation = conn.generation + 1
      /\ listener' => run.pc = "registered"
  BY ClearingReleases DEF Closed
<1>3. torn' \in BOOLEAN
  BY <1>1 DEF Subscribing
<1>4. TypeOK' /\ FramesOffered' /\ GrantedInTime' /\ NothingAfterRevocation'
  BY <1>1, <1>2, <1>3, Before, QuietStep, Zenon
<1>5. run'.generation <= conn'.generation /\ run'.generation # conn'.generation
  BY <1>1, <1>2, Before DEF ConnectionParts, SubscriptionCurrent, Closure, Running
<1>6. ConnectionParts'
  BY <1>1, <1>2, <1>5, Before, Zenon DEF ConnectionParts, Subscribing, SubscriptionCurrent,
     ListenerOwned, TimerReleased
<1> QED
  BY <1>4, <1>6, PartsMakeInv

\* Closing for a policy violation closes nothing that is not open.
LEMMA PolicyCloses ==
  ASSUME ConnectionInv, ClosePolicy
  PROVE  socket' \in {"open", "closing", "closed"} /\ (socket' = "closed" <=> socket = "closed")
BY Before DEF ClosePolicy

\* The token's owner answers: only the operation's place changes.
LEMMA ValidateKeeps ==
  ASSUME ConnectionInv, Validate
  PROVE  ConnectionInv'
<1>1. UNCHANGED <<valid, socket, conn, listener, queue, messages, offered, late, sent, torn>>
  BY DEF Validate
<1>2. /\ run' \in Running /\ run'.op = run.op /\ run'.frame = run.frame
      /\ run'.generation = run.generation /\ run'.pc \in {"granted", "denied"}
      /\ run'.pc = "granted" => valid
  BY Before DEF Validate, Running
<1>3. run.pc = "asked"
  BY DEF Validate
<1>4. valid => late = {}
  BY DEF ConnectionInv, GrantedInTime
<1>5. TypeOK' /\ FramesOffered' /\ GrantedInTime' /\ NothingAfterRevocation'
  BY <1>1, <1>2, <1>4, Before, QuietStep, Zenon
<1>6. run'.pc # "idle" /\ ~Subscribing' /\ run.pc # "registered"
  BY <1>2, <1>3 DEF Subscribing
<1>7. ConnectionParts'
  BY <1>1, <1>2, <1>6, Before, Zenon DEF ConnectionParts, SubscriptionCurrent,
     ListenerOwned, TimerReleased
<1> QED
  BY <1>5, <1>7, PartsMakeInv

\* An admitted hello starts its subscription under the current generation.
LEMMA AdmitKeeps ==
  ASSUME ConnectionInv, Admit
  PROVE  ConnectionInv'
<1>1. UNCHANGED <<valid, socket, listener, queue, messages, offered, late, sent, torn>>
  BY DEF Admit
<1>2. run.pc = "granted" /\ run.pc # "registered" /\ run.op = "hello" /\ run.op # "frame"
  BY DEF Admit
<1>3. /\ conn' \in Closure /\ conn'.helloPending = FALSE /\ conn'.release = conn.release
      /\ conn'.timer = conn.timer /\ conn'.generation = conn.generation
  BY Before DEF Admit, Closure
<1>4. CASE socket # "open"
  <2>1. run' = Rest /\ conn'.admitted = conn.admitted
    BY <1>4, Before DEF Admit, Closure
  <2>2. run' \in Running /\ run'.pc = "idle" /\ run'.op = "none" /\ run'.generation = 0
    BY <2>1, AtRest
  <2>3. run'.op # "frame" /\ ~Subscribing' /\ run'.generation <= conn'.generation
    BY <1>3, <2>2 DEF Subscribing, Closure
  <2>4. TypeOK' /\ FramesOffered' /\ GrantedInTime' /\ NothingAfterRevocation'
    BY <1>1, <1>3, <2>2, <2>3, Before, QuietStep, Zenon
  <2>5. ConnectionParts'
    BY <1>1, <1>2, <1>3, <2>1, <2>2, <2>3, Before, Zenon
       DEF ConnectionParts, SubscriptionCurrent, ListenerOwned, TimerReleased
  <2> QED
    BY <2>4, <2>5, PartsMakeInv
<1>5. CASE socket = "open"
  <2>1. conn'.admitted = TRUE
    BY <1>5, Before DEF Admit, Closure
  <2>2. /\ run' \in Running /\ run'.pc = "subscribing" /\ run'.op = "hello"
        /\ run'.generation = conn.generation
    BY <1>2, <1>5, Before DEF Admit, Running, Closure
  <2>3. /\ run'.op # "frame" /\ run'.generation <= conn'.generation
        /\ socket' # "closed" /\ run'.pc # "idle"
    BY <1>1, <1>3, <1>5, <2>2 DEF Closure
  <2>4. TypeOK' /\ FramesOffered' /\ GrantedInTime' /\ NothingAfterRevocation'
    BY <1>1, <1>3, <2>2, <2>3, Before, QuietStep, Zenon
  <2>5. ConnectionParts'
    BY <1>1, <1>2, <1>3, <2>1, <2>2, <2>3, Before, Zenon
       DEF ConnectionParts, SubscriptionCurrent, ListenerOwned, TimerReleased
  <2> QED
    BY <2>4, <2>5, PartsMakeInv
<1> QED
  BY <1>4, <1>5

\* A refused hello.
LEMMA RefuseKeeps ==
  ASSUME ConnectionInv, Refuse
  PROVE  ConnectionInv'
<1>1. /\ UNCHANGED <<valid, listener, queue, messages, offered, late, sent, torn>>
      /\ run' = Rest /\ ClosePolicy
  BY DEF Refuse
<1>2. run.pc # "registered"
  BY DEF Refuse
<1>3. /\ conn' \in Closure /\ conn'.helloPending = FALSE /\ conn'.release = conn.release
      /\ conn'.timer = conn.timer /\ conn'.generation = conn.generation
      /\ conn'.admitted = conn.admitted
  BY Before DEF Refuse, Closure
<1>4. run' \in Running /\ run'.pc = "idle" /\ run'.op = "none" /\ run'.generation = 0
  BY <1>1, AtRest
<1>5. run'.op # "frame" /\ ~Subscribing' /\ run'.generation <= conn'.generation
  BY <1>3, <1>4 DEF Subscribing, Closure
<1>6. socket' \in {"open", "closing", "closed"} /\ (socket' = "closed" <=> socket = "closed")
  BY <1>1, PolicyCloses
<1>7. TypeOK' /\ FramesOffered' /\ GrantedInTime' /\ NothingAfterRevocation'
  BY <1>1, <1>3, <1>4, <1>5, <1>6, Before, QuietStep, Zenon
<1>8. ConnectionParts'
  BY <1>1, <1>2, <1>3, <1>4, <1>5, <1>6, Before, Zenon
     DEF ConnectionParts, SubscriptionCurrent, ListenerOwned, TimerReleased
<1> QED
  BY <1>7, <1>8, PartsMakeInv

\* The hub registers the listener for the running subscription.
LEMMA RegisterKeeps ==
  ASSUME ConnectionInv, Register
  PROVE  ConnectionInv'
<1>1. /\ UNCHANGED <<valid, socket, conn, queue, messages, offered, late, sent, torn>>
      /\ listener' = TRUE
  BY DEF Register
<1>2. /\ run' \in Running /\ run'.op = run.op /\ run'.frame = run.frame
      /\ run'.generation = run.generation /\ run'.pc = "registered"
  BY Before DEF Register, Running
<1>3. Subscribing /\ run'.pc # "granted" /\ run'.pc # "idle"
  BY <1>2 DEF Register, Subscribing
<1>4. TypeOK' /\ FramesOffered' /\ GrantedInTime' /\ NothingAfterRevocation'
  BY <1>1, <1>2, <1>3, Before, QuietStep, Zenon
<1>5. ConnectionParts'
  BY <1>1, <1>2, <1>3, Before, Zenon
     DEF ConnectionParts, SubscriptionCurrent, ListenerOwned, TimerReleased
<1> QED
  BY <1>4, <1>5, PartsMakeInv

\* The subscription fails and the connection with it.
LEMMA SubscribeFailsKeeps ==
  ASSUME ConnectionInv, SubscribeFails
  PROVE  ConnectionInv'
<1>1. /\ UNCHANGED <<valid, queue, messages, offered, late, sent, torn>>
      /\ run' = Rest /\ ClosePolicy /\ listener' = FALSE
  BY DEF SubscribeFails
<1>2. /\ conn' \in Closure /\ conn'.helloPending = FALSE /\ conn'.timer = FALSE
      /\ conn'.admitted = FALSE
  <2> DEFINE g == conn.generation + 1
  <2>1. g \in Nat /\ conn' = [Fresh EXCEPT !.generation = g]
    BY Before DEF SubscribeFails, Closure
  <2> HIDE DEF g
  <2> QED
    BY <2>1 DEF Fresh, Closure
<1>3. run' \in Running /\ run'.pc = "idle" /\ run'.op = "none" /\ run'.generation = 0
  BY <1>1, AtRest
<1>4. run'.op # "frame" /\ ~Subscribing' /\ run'.generation <= conn'.generation
  BY <1>2, <1>3 DEF Subscribing, Closure
<1>5. socket' \in {"open", "closing", "closed"} /\ (socket' = "closed" <=> socket = "closed")
  BY <1>1, PolicyCloses
<1>6. TypeOK' /\ FramesOffered' /\ GrantedInTime' /\ NothingAfterRevocation'
  BY <1>1, <1>2, <1>3, <1>4, <1>5, Before, QuietStep, Zenon
<1>7. ConnectionParts'
  BY <1>1, <1>2, <1>3, <1>4, <1>5, Before, Zenon
     DEF ConnectionParts, SubscriptionCurrent, ListenerOwned, TimerReleased
<1> QED
  BY <1>6, <1>7, PartsMakeInv

\* The subscription succeeds: the release is stored on the connection that
\* asked for it, or called at once.
LEMMA SubscribedKeeps ==
  ASSUME ConnectionInv, Subscribed
  PROVE  ConnectionInv'
<1>1. /\ UNCHANGED <<valid, socket, queue, messages, offered, late, sent, torn>>
      /\ run' = Rest /\ listener' = ~Stale /\ Subscribing
  BY Zenon DEF Subscribed, Subscribing
<1>2. /\ conn' \in Closure /\ conn'.helloPending = conn.helloPending
      /\ conn'.admitted = conn.admitted /\ conn'.generation = conn.generation
      /\ conn'.release = ~Stale
  BY Before DEF Subscribed, Closure, Stale
<1>3. run' \in Running /\ run'.pc = "idle" /\ run'.op = "none" /\ run'.generation = 0
  BY <1>1, AtRest
<1>4. run'.op # "frame" /\ ~Subscribing' /\ run'.generation <= conn'.generation
  BY <1>2, <1>3 DEF Subscribing, Closure
<1>5. ~conn.helloPending /\ (~Stale => conn.admitted) /\ ~(socket = "closed" /\ ~torn)
  BY <1>1, Before, Zenon DEF ConnectionParts, SubscriptionCurrent, Stale
<1>6. listener' \in BOOLEAN
  BY <1>1
<1>7. TypeOK' /\ FramesOffered' /\ GrantedInTime' /\ NothingAfterRevocation'
  BY <1>1, <1>2, <1>3, <1>4, <1>5, <1>6, Before, QuietStep, Zenon
<1>8. ConnectionParts'
  BY <1>1, <1>2, <1>3, <1>4, <1>5, Before, Zenon
     DEF ConnectionParts, SubscriptionCurrent, ListenerOwned, TimerReleased
<1> QED
  BY <1>7, <1>8, PartsMakeInv

\* The check is marked as done; nothing else of the closure changes.
LEMMA CheckedFields ==
  ASSUME ConnectionInv, NEW op, conn' = Checked(op)
  PROVE  /\ conn' \in Closure /\ conn'.helloPending = conn.helloPending
         /\ conn'.admitted = conn.admitted /\ conn'.generation = conn.generation
         /\ conn'.release = conn.release /\ conn'.timer = conn.timer
BY Before DEF Checked, Closure

\* A frame is sent only when it was granted, so it was not late.
LEMMA DeliverKeeps ==
  ASSUME ConnectionInv, Deliver
  PROVE  ConnectionInv'
<1>1. /\ UNCHANGED <<valid, socket, listener, queue, messages, offered, late, torn>>
      /\ run' = Rest /\ run.pc # "registered" /\ run.op # "hello"
  BY DEF Deliver
<1>2. /\ conn' \in Closure /\ conn'.helloPending = conn.helloPending
      /\ conn'.admitted = conn.admitted /\ conn'.generation = conn.generation
      /\ conn'.release = conn.release /\ conn'.timer = conn.timer
  BY CheckedFields DEF Deliver
<1>3. run' \in Running /\ run'.pc = "idle" /\ run'.op = "none" /\ run'.generation = 0
  BY <1>1, AtRest
<1>4. run'.op # "frame" /\ ~Subscribing' /\ run'.generation <= conn'.generation
  BY <1>2, <1>3 DEF Subscribing, Closure
<1>5. sent' = sent \/ (sent' = sent \cup {run.frame} /\ run.op = "frame" /\ run.pc = "granted")
  BY DEF Deliver
<1>6. \A f \in sent' : f \in sent \/ (f \in 1..offered /\ f \notin late)
  BY <1>5, Before, Zenon
<1>7. /\ sent \subseteq 1..offered /\ late \subseteq 1..offered /\ (valid => late = {})
      /\ sent \cap late = {} /\ messages \in 0..MaxMessages /\ offered \in 0..MaxFrames
      /\ late \subseteq 1..MaxFrames /\ sent \subseteq 1..MaxFrames
  BY Zenon DEF ConnectionInv, FramesOffered, GrantedInTime, NothingAfterRevocation, TypeOK
<1>8. sent' \subseteq 1..offered /\ sent' \cap late = {}
  BY <1>6, <1>7, Zenon
<1>9. sent' \subseteq 1..MaxFrames
  BY <1>7, <1>8, ConnectionAssumption
<1>10. ~conn'.helloPending
  BY <1>1, <1>2, Before, Zenon
<1>11. TypeOK'
  BY <1>1, <1>2, <1>3, <1>7, <1>9, <1>10, Before, Zenon DEF TypeOK, Closure, Running, Operation
<1>12. FramesOffered' /\ GrantedInTime' /\ NothingAfterRevocation'
  BY <1>1, <1>4, <1>7, <1>8, Before, Zenon
     DEF FramesOffered, GrantedInTime, NothingAfterRevocation
<1>13. ConnectionParts'
  BY <1>1, <1>2, <1>3, <1>4, Before, Zenon
     DEF ConnectionParts, SubscriptionCurrent, ListenerOwned, TimerReleased
<1> QED
  BY <1>11, <1>12, <1>13, PartsMakeInv

\* A refusal after admission tears the connection down.
LEMMA RejectKeeps ==
  ASSUME ConnectionInv, Reject
  PROVE  ConnectionInv'
<1>1. /\ UNCHANGED <<valid, queue, messages, offered, late, sent, torn>>
      /\ run' = Rest /\ run.pc # "registered" /\ run.op # "hello"
  BY DEF Reject
<1>2. run' \in Running /\ run'.pc = "idle" /\ run'.op = "none" /\ run'.generation = 0
  BY <1>1, AtRest
<1>3. run'.op # "frame" /\ ~Subscribing'
  BY <1>2 DEF Subscribing
<1>4. CASE conn.admitted
  <2>1. ClearAdmission /\ ClosePolicy
    BY <1>4 DEF Reject
  <2>2. /\ conn' \in Closure /\ listener' \in BOOLEAN
        /\ ~conn'.admitted /\ ~conn'.helloPending /\ ~conn'.timer
        /\ listener' => run.pc = "registered"
    BY <2>1, ClearingReleases
  <2>3. run'.generation <= conn'.generation
    BY <1>2, <2>2 DEF Closure
  <2>4. socket' \in {"open", "closing", "closed"} /\ (socket' = "closed" <=> socket = "closed")
    BY <2>1, PolicyCloses
  <2>5. TypeOK' /\ FramesOffered' /\ GrantedInTime' /\ NothingAfterRevocation'
    BY <1>1, <1>2, <1>3, <2>2, <2>4, Before, QuietStep, Zenon
  <2>6. ConnectionParts'
    BY <1>1, <1>2, <1>3, <2>2, <2>3, <2>4, Before, Zenon
       DEF ConnectionParts, SubscriptionCurrent, ListenerOwned, TimerReleased
  <2> QED
    BY <2>5, <2>6, PartsMakeInv
<1>5. CASE ~conn.admitted
  <2>1. conn' = Checked(run.op) /\ UNCHANGED <<listener, socket>>
    BY <1>5 DEF Reject
  <2>2. /\ conn' \in Closure /\ conn'.helloPending = conn.helloPending
        /\ conn'.admitted = conn.admitted /\ conn'.generation = conn.generation
        /\ conn'.release = conn.release /\ conn'.timer = conn.timer
    BY <2>1, CheckedFields
  <2>3. run'.generation <= conn'.generation
    BY <1>2, <2>2 DEF Closure
  <2>4. ~conn'.helloPending
    BY <1>1, <2>2, Before, Zenon
  <2>5. TypeOK' /\ FramesOffered' /\ GrantedInTime' /\ NothingAfterRevocation'
    BY <1>1, <1>2, <1>3, <2>1, <2>2, <2>4, Before, QuietStep, Zenon
  <2>6. ConnectionParts'
    BY <1>1, <1>2, <1>3, <2>1, <2>2, <2>3, Before, Zenon
       DEF ConnectionParts, SubscriptionCurrent, ListenerOwned, TimerReleased
  <2> QED
    BY <2>5, <2>6, PartsMakeInv
<1> QED
  BY <1>4, <1>5

\* The next operation leaves the queue.
LEMMA QueueAdvances ==
  ASSUME NEW q \in Seq(Operation), q # <<>>, NEW bound \in Nat,
         \A i \in 1..Len(q) : q[i].op = "frame" => q[i].frame \in 1..bound
  PROVE  /\ Tail(q) \in Seq(Operation) /\ Head(q) \in Operation
         /\ Head(q).op = "frame" => Head(q).frame \in 1..bound
         /\ \A i \in 1..Len(Tail(q)) :
              Tail(q)[i].op = "frame" => Tail(q)[i].frame \in 1..bound
<1>1. /\ Tail(q) \in Seq(Operation) /\ Len(Tail(q)) = Len(q) - 1
      /\ \A i \in 1..Len(Tail(q)) : Tail(q)[i] = q[i + 1]
  BY HeadTailProperties
<1>2. Head(q) \in Operation /\ Head(q) = q[1]
  BY HeadTailProperties
<1>3. Len(q) \in Nat /\ Len(q) >= 1
  BY LenProperties, EmptySeq
<1>4. \A i \in 1..Len(Tail(q)) : i + 1 \in 1..Len(q)
  BY <1>1, <1>3
<1> QED
  BY <1>1, <1>2, <1>3, <1>4

\* An operation that asks keeps its name and frame.
LEMMA AskingFields ==
  ASSUME NEW op \in Operation
  PROVE  /\ Asking(op) \in Running /\ Asking(op).pc = "asked"
         /\ Asking(op).op = op.op /\ Asking(op).frame = op.frame
         /\ Asking(op).generation = 0
<1>1. op.op \in {"hello", "ping", "frame", "check"} /\ op.frame \in 0..MaxFrames
  BY DEF Operation
<1> DEFINE name == op.op
           frame == op.frame
<1>2. Asking(op) = [Rest EXCEPT !.pc = "asked", !.op = name, !.frame = frame]
  BY DEF Asking
<1> HIDE DEF name, frame
<1>3. name \in {"hello", "ping", "frame", "check"} /\ frame \in 0..MaxFrames
  BY <1>1 DEF name, frame
<1>4. /\ Asking(op) \in Running /\ Asking(op).pc = "asked" /\ Asking(op).op = name
      /\ Asking(op).frame = frame /\ Asking(op).generation = 0
  BY <1>2, <1>3, FreshTyped DEF Running, Rest
<1> QED
  BY <1>4 DEF name, frame

\* An operation starts; no subscription runs then.
LEMMA BeginKeeps ==
  ASSUME ConnectionInv, Begin
  PROVE  ConnectionInv'
<1> DEFINE op == Head(queue)
           asks == IF op.op = "hello" THEN ~conn.admitted /\ ~conn.helloPending
                                      ELSE conn.admitted
<1>1. /\ UNCHANGED <<valid, listener, messages, offered, late, sent, torn>>
      /\ run.pc = "idle" /\ queue # <<>> /\ queue' = Tail(queue)
      /\ run' = IF asks THEN Asking(op) ELSE Rest
  BY DEF Begin
<1>2. /\ queue' \in Seq(Operation) /\ op \in Operation
      /\ op.op = "frame" => op.frame \in 1..offered
      /\ \A i \in 1..Len(queue') : queue'[i].op = "frame" => queue'[i].frame \in 1..offered
  BY <1>1, Before, QueueAdvances
<1>3. socket' \in {"open", "closing", "closed"} /\ (socket' = "closed" <=> socket = "closed")
  BY Before DEF Begin, ClosePolicy
<1>4. ~conn.helloPending /\ run.op = "none"
  <2>1. run.op = "none"
    BY <1>1, Before DEF ConnectionParts
  <2> QED
    BY <2>1, Before
<1>5. asks \in BOOLEAN
  BY Before DEF Closure
<1>6. /\ conn' \in Closure /\ conn'.admitted = conn.admitted
      /\ conn'.release = conn.release /\ conn'.timer = conn.timer
      /\ conn'.generation = conn.generation
      /\ conn'.helloPending = (conn.helloPending \/ (asks /\ op.op = "hello"))
  <2> DEFINE pending == conn.helloPending \/ (asks /\ op.op = "hello")
             checking == conn.checking /\ (asks \/ op.op # "check")
  <2>1. conn' = [conn EXCEPT !.helloPending = pending, !.checking = checking]
    BY DEF Begin
  <2>2. pending \in BOOLEAN /\ checking \in BOOLEAN
    BY Before DEF Closure
  <2> HIDE DEF pending, checking
  <2>3. /\ conn' \in Closure /\ conn'.admitted = conn.admitted
        /\ conn'.release = conn.release /\ conn'.timer = conn.timer
        /\ conn'.generation = conn.generation /\ conn'.helloPending = pending
    BY <2>1, <2>2, Before DEF Closure
  <2> QED
    BY <2>3 DEF pending
<1> HIDE DEF op, asks
<1>7. /\ run' \in Running /\ run'.pc \in {"idle", "asked"} /\ run'.generation = 0
      /\ run'.pc = "idle" => run'.op = "none"
      /\ run'.op = "frame" => run'.frame \in 1..offered
      /\ asks => run'.op = op.op
  <2>1. CASE asks
    BY <1>1, <1>2, <2>1, AskingFields
  <2>2. CASE ~asks
    BY <1>1, <2>2, AtRest
  <2> QED
    BY <2>1, <2>2
<1>8. conn'.helloPending => run'.op = "hello"
  BY <1>4, <1>6, <1>7, Zenon
<1>9. /\ run'.pc # "granted" /\ ~Subscribing' /\ run.pc # "registered"
      /\ run'.generation <= conn'.generation
  BY <1>1, <1>6, <1>7 DEF Subscribing, Closure
<1>10. TypeOK' /\ FramesOffered' /\ GrantedInTime' /\ NothingAfterRevocation'
  BY <1>1, <1>2, <1>3, <1>6, <1>7, <1>8, <1>9, Before, QuietStep, Zenon
<1>11. ConnectionParts'
  BY <1>1, <1>3, <1>6, <1>7, <1>9, Before, Zenon
     DEF ConnectionParts, SubscriptionCurrent, ListenerOwned, TimerReleased
<1> QED
  BY <1>10, <1>11, PartsMakeInv

-----------------------------------------------------------------------------
\* The strengthened invariant holds of every reachable state of a connection.
LEMMA ConnectionInvariant == Spec => []ConnectionInv
<1>1. Init => ConnectionInv
  <2> SUFFICES ASSUME Init PROVE ConnectionInv
    OBVIOUS
  <2>1. conn \in Closure /\ run \in Running
    BY FreshTyped DEF Init
  <2>2. /\ conn.admitted = FALSE /\ conn.helloPending = FALSE /\ conn.timer = FALSE
        /\ conn.generation = 0 /\ run.pc = "idle" /\ run.op = "none" /\ run.generation = 0
    BY DEF Init, Fresh, Rest
  <2>3. queue \in Seq(Operation) /\ Len(queue) = 0
    BY DEF Init
  <2>4. /\ messages \in 0..MaxMessages /\ offered \in 0..MaxFrames
        /\ late = {} /\ sent = {} /\ valid \in BOOLEAN /\ listener = FALSE
        /\ torn \in BOOLEAN /\ socket = "open"
    <3>1. messages \in 0..MaxMessages /\ offered \in 0..MaxFrames
      BY ConnectionAssumption DEF Init
    <3>2. valid \in BOOLEAN /\ torn \in BOOLEAN
      BY Zenon DEF Init
    <3> QED
      BY <3>1, <3>2, Zenon DEF Init
  <2>5. TypeOK
    <3>1. ~conn.helloPending /\ late \subseteq 1..MaxFrames /\ sent \subseteq 1..MaxFrames
      BY <2>2, <2>4
    <3>2. listener \in BOOLEAN /\ socket \in {"open", "closing", "closed"}
      BY <2>4
    <3> QED
      BY <2>1, <2>3, <2>4, <3>1, <3>2, Zenon DEF TypeOK, Closure, Running, Operation
  <2>6. FramesOffered /\ GrantedInTime /\ NothingAfterRevocation
    BY <2>2, <2>3, <2>4 DEF FramesOffered, GrantedInTime, NothingAfterRevocation
  <2>7. ~Subscribing /\ SubscriptionCurrent
    BY <2>2 DEF Subscribing, SubscriptionCurrent
  <2>8. ListenerOwned /\ TimerReleased
    BY <2>2, <2>4 DEF ListenerOwned, TimerReleased
  <2> QED
    BY <2>2, <2>5, <2>6, <2>7, <2>8 DEF ConnectionInv
<1>2. ConnectionInv /\ [Next]_vars => ConnectionInv'
  <2> SUFFICES ASSUME ConnectionInv, [Next]_vars PROVE ConnectionInv'
    OBVIOUS
  <2>1. ASSUME NEW op \in {"hello", "ping"}, Message(op) PROVE ConnectionInv'
    BY <2>1, MessageKeeps
  <2>2. CASE Offer BY <2>2, OfferKeeps
  <2>3. CASE Interval BY <2>3, IntervalKeeps
  <2>4. CASE Invalidate BY <2>4, InvalidateKeeps
  <2>5. CASE Closing BY <2>5, ClosingKeeps
  <2>6. CASE Closed BY <2>6, ClosedKeeps
  <2>7. CASE Begin BY <2>7, BeginKeeps
  <2>8. CASE Validate BY <2>8, ValidateKeeps
  <2>9. CASE Admit BY <2>9, AdmitKeeps
  <2>10. CASE Refuse BY <2>10, RefuseKeeps
  <2>11. CASE Register BY <2>11, RegisterKeeps
  <2>12. CASE SubscribeFails BY <2>12, SubscribeFailsKeeps
  <2>13. CASE Subscribed BY <2>13, SubscribedKeeps
  <2>14. CASE Deliver BY <2>14, DeliverKeeps
  <2>15. CASE Reject BY <2>15, RejectKeeps
  <2>16. CASE UNCHANGED vars
    <3>1. TypeOK' /\ FramesOffered' /\ GrantedInTime' /\ NothingAfterRevocation'
      BY <2>16, Before, QuietStep, Zenon DEF vars
    <3>2. ConnectionParts'
      BY <2>16, Before, Zenon DEF vars, ConnectionParts, Subscribing, SubscriptionCurrent,
         ListenerOwned, TimerReleased
    <3> QED
      BY <3>1, <3>2, PartsMakeInv
  <2> QED
    BY <2>1, <2>2, <2>3, <2>4, <2>5, <2>6, <2>7, <2>8, <2>9, <2>10, <2>11, <2>12, <2>13,
       <2>14, <2>15, <2>16 DEF Next, Work
<1> QED
  BY <1>1, <1>2, PTL DEF Spec

\* Every reachable state of a connection is well typed, and a hello is pending
\* only while one runs (realtime/server.ts, the closure of a connection).
THEOREM TypeCorrect == Spec => []TypeOK
BY ConnectionInvariant, PTL DEF ConnectionInv

\* A socket that closes at any moment, inside hub.subscribe included, leaves no
\* listener of the hub without an owner (clearAdmission, subscribe).
THEOREM NoOrphanListener == Spec => []ListenerOwned
BY ConnectionInvariant, PTL DEF ConnectionInv

\* However long a frame waited in the queue, it is sent only if it was offered
\* while the token was valid (deliverAuthorizedFrame revalidates each one).
THEOREM RevocationHolds == Spec => []NothingAfterRevocation
BY ConnectionInvariant, PTL DEF ConnectionInv

\* The interval goes with its connection, the socket that closed inside
\* hub.subscribe being the one exception (clearAdmission, handleHello).
THEOREM IntervalReleased == Spec => []TimerReleased
BY ConnectionInvariant, PTL DEF ConnectionInv

-----------------------------------------------------------------------------
(* Presence: the types.                                                    *)

Call == [pc : {"idle", "ONLINE", "OFFLINE", "redis", "report", "script", "renew"},
         device : Devices \cup {NoDevice},
         todo : SUBSET (RecordCommands \cup ForgetCommands)]

\* A handler works for a device unless it is idle, and has commands to issue
\* exactly while it talks to Redis.
CallSound(r) ==
  /\ r.pc = "idle" <=> r.device = NoDevice
  /\ r.pc = "redis" <=> r.todo # {}

CallsTyped == call \in [Calls -> Call] /\ \A c \in Calls : CallSound(call[c])

RowsTyped ==
  /\ members \subseteq Devices
  /\ row \in [Devices -> {"none", "ONLINE", "OFFLINE"}]
  /\ disturbed \subseteq Devices

RedisTyped ==
  /\ key \in [Devices -> 0..Ttl]
  /\ roster \subseteq Devices
  /\ rosterTtl \in 0..Never
  /\ roster = {} <=> rosterTtl = 0

LEMMA PresenceTypeParts ==
  /\ PresenceTypeOK <=> CallsTyped /\ RowsTyped /\ RedisTyped
  /\ PresenceTypeOK' <=> CallsTyped' /\ RowsTyped' /\ RedisTyped'
BY DEF PresenceTypeOK, CallsTyped, RowsTyped, RedisTyped, Call, CallSound

LEMMA TtlTyped == Ttl \in Nat /\ Ttl > 0 /\ Never \in Nat /\ Never = Ttl + 1
BY PresenceAssumption DEF Never

LEMMA IdleSound == Idle \in Call /\ CallSound(Idle) /\ Idle.device = NoDevice /\ Idle.pc = "idle"
BY DEF Idle, Call, CallSound

LEMMA AtSound ==
  ASSUME NEW d \in Devices, NEW pc \in {"ONLINE", "OFFLINE", "report", "script", "renew"}
  PROVE  /\ At(pc, d) \in Call /\ CallSound(At(pc, d))
         /\ At(pc, d).pc = pc /\ At(pc, d).device = d
BY PresenceAssumption DEF At, Idle, Call, CallSound

LEMMA IssuingSound ==
  ASSUME NEW d \in Devices, NEW commands \in SUBSET (RecordCommands \cup ForgetCommands),
         commands # {}
  PROVE  LET r == Issuing(d, commands)
         IN  r \in Call /\ CallSound(r) /\ r.pc = "redis" /\ r.device = d /\ r.todo = commands
BY PresenceAssumption DEF Issuing, At, Idle, Call, CallSound

\* One handler moves on to a sound call.
LEMMA CallMoves ==
  ASSUME CallsTyped, NEW c \in Calls, NEW r \in Call, CallSound(r),
         call' = [call EXCEPT ![c] = r]
  PROVE  CallsTyped' /\ call'[c] = r /\ \A k \in Calls \ {c} : call'[k] = call[k]
BY DEF CallsTyped

\* A set that was written has a TTL exactly when it names somebody.
LEMMA SetIsTyped ==
  ASSUME NEW s \in SUBSET Devices, NEW ttl \in 1..Never, SetIs(s, ttl)
  PROVE  /\ roster' \subseteq Devices /\ rosterTtl' \in 0..Never
         /\ roster' = {} <=> rosterTtl' = 0
BY TtlTyped DEF SetIs

-----------------------------------------------------------------------------
(* Presence: what the steps on Redis leave of other devices.               *)

\* A full TTL is left of the set, or there is none to run out.
RosterFull == roster = {} \/ rosterTtl >= Ttl

\* A step on Redis that concerns one device touches no other device's key and
\* no other name in the set, and never shortens the set's TTL below a key's.
Spares(d) ==
  /\ \A o \in Devices \ {d} : key'[o] = key[o] /\ (o \in roster' <=> o \in roster)
  /\ RosterFull => RosterFull'
  /\ roster' # {} => rosterTtl' = rosterTtl \/ rosterTtl' >= Ttl

LEMMA CommandOnRedis ==
  ASSUME RedisTyped, NEW d \in Devices, NEW x \in RecordCommands \cup ForgetCommands,
         Execute(x, d)
  PROVE  RedisTyped' /\ Spares(d)
<1> USE TtlTyped
<1>1. CASE x \in {"SET", "DEL"}
  <2>1. UNCHANGED <<roster, rosterTtl>>
    BY <1>1 DEF Execute
  <2>2. key' \in [Devices -> 0..Ttl] /\ \A o \in Devices \ {d} : key'[o] = key[o]
    BY <1>1 DEF Execute, RedisTyped
  <2> QED
    BY <2>1, <2>2 DEF RedisTyped, Spares, RosterFull
<1>2. CASE x = "SADD"
  <2>1. UNCHANGED key /\ SetIs(roster \cup {d}, IF roster = {} THEN Never ELSE rosterTtl)
    BY <1>2 DEF Execute
  <2>2. roster \cup {d} \in SUBSET Devices /\ (IF roster = {} THEN Never ELSE rosterTtl) \in 1..Never
    BY DEF RedisTyped
  <2>3. RedisTyped'
    BY <2>1, <2>2, SetIsTyped DEF RedisTyped
  <2>4. Spares(d)
    BY <2>1 DEF Spares, RosterFull, SetIs
  <2> QED
    BY <2>3, <2>4
<1>3. CASE x = "EXPIRE"
  <2>1. UNCHANGED key /\ SetIs(roster, Ttl)
    BY <1>3 DEF Execute
  <2>2. RedisTyped'
    BY <2>1, SetIsTyped DEF RedisTyped
  <2>3. Spares(d)
    BY <2>1 DEF Spares, RosterFull, SetIs
  <2> QED
    BY <2>2, <2>3
<1>4. CASE x = "SREM"
  <2>1. UNCHANGED key /\ SetIs(roster \ {d}, rosterTtl)
    BY <1>4 DEF Execute
  <2>2. roster \ {d} \in SUBSET Devices
    BY DEF RedisTyped
  <2>3. RedisTyped'
    BY <2>1, <2>2 DEF RedisTyped, SetIs
  <2>4. Spares(d)
    BY <2>1 DEF Spares, RosterFull, SetIs
  <2> QED
    BY <2>3, <2>4
<1> QED
  BY <1>1, <1>2, <1>3, <1>4 DEF RecordCommands, ForgetCommands

LEMMA ScriptOnRedis ==
  ASSUME RedisTyped, NEW d \in Devices, Refreshed(d)
  PROVE  /\ RedisTyped' /\ Spares(d)
         /\ key'[d] = IF key[d] > 0 THEN Ttl ELSE 0
         /\ d \in roster' <=> d \in roster
<1> USE TtlTyped
<1>1. /\ key' \in [Devices -> 0..Ttl] /\ \A o \in Devices \ {d} : key'[o] = key[o]
      /\ key'[d] = IF key[d] > 0 THEN Ttl ELSE 0
  BY DEF Refreshed, RedisTyped
<1>2. CASE key[d] > 0
  <2>1. SetIs(roster, Ttl)
    BY <1>2 DEF Refreshed
  <2>2. RedisTyped'
    BY <1>1, <2>1, SetIsTyped DEF RedisTyped
  <2> QED
    BY <1>1, <2>1, <2>2 DEF Spares, RosterFull, SetIs
<1>3. CASE ~(key[d] > 0)
  BY <1>1, <1>3 DEF Refreshed, RedisTyped, Spares, RosterFull
<1> QED
  BY <1>2, <1>3

LEMMA TickOnRedis ==
  ASSUME RedisTyped, Tick
  PROVE  /\ RedisTyped'
         /\ \A d \in Devices : key'[d] = IF key[d] > 0 THEN key[d] - 1 ELSE 0
         /\ roster' = roster \/ (roster' = {} /\ rosterTtl = 1)
         /\ roster' # {} => \/ rosterTtl = Never /\ rosterTtl' = Never
                            \/ rosterTtl' = rosterTtl - 1
<1> USE TtlTyped
<1>1. /\ key' \in [Devices -> 0..Ttl]
      /\ \A d \in Devices : key'[d] = IF key[d] > 0 THEN key[d] - 1 ELSE 0
  BY DEF Tick, RedisTyped
<1>2. CASE rosterTtl \in {0, Never}
  BY <1>1, <1>2 DEF Tick, RedisTyped
<1>3. CASE rosterTtl \notin {0, Never}
  <2>1. SetIs(IF rosterTtl = 1 THEN {} ELSE roster, rosterTtl - 1)
    BY <1>3 DEF Tick
  <2>2. rosterTtl \in 1..Ttl /\ roster # {}
    BY <1>3 DEF RedisTyped
  <2> QED
    BY <1>1, <2>1, <2>2 DEF SetIs, RedisTyped
<1> QED
  BY <1>2, <1>3

-----------------------------------------------------------------------------
(* Presence: the invariant.                                                *)

Writing(r, d) == r.device = d /\ r.pc \in {"ONLINE", "OFFLINE", "redis"}

\* What a join has left behind once its row is written: the commands it need
\* not issue any more have had their effect, and nobody undid it.
Recorded(d, todo) ==
  /\ row[d] = "ONLINE" /\ d \in members
  /\ "SET" \notin todo => key[d] = Ttl
  /\ "SADD" \notin todo => d \in roster
  /\ "EXPIRE" \notin todo => RosterFull

\* ... and a leave or a revocation.
Forgotten(d, todo) ==
  /\ row[d] = "OFFLINE" \/ d \notin members
  /\ "DEL" \notin todo => key[d] = 0
  /\ "SREM" \notin todo => d \notin roster

\* Before its row is written a join or a leave finds the device a member.
Progress(r, d) ==
  /\ r.pc # "redis" => d \in members
  /\ r.pc = "redis" => \/ r.todo \subseteq RecordCommands /\ Recorded(d, r.todo)
                       \/ r.todo \subseteq ForgetCommands /\ Forgotten(d, r.todo)

\* The two stores between two writes: what Withdrawn and Visible say.
StoresAgree(d) ==
  /\ (row[d] = "OFFLINE" \/ d \notin members) => key[d] = 0 /\ d \notin roster
  /\ key[d] > 0 => d \in roster /\ rosterTtl >= key[d]

\* A device whose writes came one at a time.
DeviceInv(d) ==
  /\ \A c1, c2 \in Writers(d) : c1 = c2
  /\ \A c \in Writers(d) : Progress(call[c], d)
  /\ Quiet(d) => StoresAgree(d)

PresenceInv == PresenceTypeOK /\ \A d \in Devices \ disturbed : DeviceInv(d)

\* What a step leaves alone of a device.
SameWriters(d) == Writers(d)' = Writers(d) /\ \A c \in Writers(d) : call'[c] = call[c]

SameStores(d) ==
  /\ row'[d] = row[d] /\ (d \in members' <=> d \in members)
  /\ key'[d] = key[d] /\ (d \in roster' <=> d \in roster)
  /\ RosterFull => RosterFull'
  /\ roster' # {} => rosterTtl' = rosterTtl \/ rosterTtl' >= Ttl

LEMMA WritersAre ==
  ASSUME NEW d
  PROVE  /\ Writers(d) = {c \in Calls : Writing(call[c], d)}
         /\ Writers(d)' = {c \in Calls : Writing(call'[c], d)}
BY DEF Writers, Writing

\* A device whose writers and stores a step leaves alone keeps its invariant.
LEMMA DeviceKept ==
  ASSUME RedisTyped, RedisTyped', NEW d \in Devices, DeviceInv(d), SameWriters(d), SameStores(d)
  PROVE  DeviceInv(d)'
<1>1. ASSUME NEW todo, Recorded(d, todo) PROVE Recorded(d, todo)'
  BY <1>1 DEF Recorded, SameStores
<1>2. ASSUME NEW todo, Forgotten(d, todo) PROVE Forgotten(d, todo)'
  BY <1>2 DEF Forgotten, SameStores
<1>3. ASSUME NEW c \in Writers(d)' PROVE Progress(call[c], d)'
  <2>1. c \in Writers(d) /\ call'[c] = call[c] /\ Progress(call[c], d)
    BY <1>3 DEF SameWriters, DeviceInv
  <2> QED
    BY <1>1, <1>2, <2>1 DEF Progress, SameStores
<1>4. ASSUME StoresAgree(d) PROVE StoresAgree(d)'
  <2>1. key[d] \in 0..Ttl /\ rosterTtl \in Nat /\ rosterTtl' \in Nat
    BY TtlTyped DEF RedisTyped
  <2>2. (row'[d] = "OFFLINE" \/ d \notin members') => key'[d] = 0 /\ d \notin roster'
    BY <1>4 DEF SameStores, StoresAgree
  <2>3. ASSUME key'[d] > 0 PROVE d \in roster' /\ rosterTtl' >= key'[d]
    BY <1>4, <2>1, <2>3, TtlTyped DEF SameStores, StoresAgree
  <2> QED
    BY <2>2, <2>3 DEF StoresAgree
<1>5. Quiet(d)' <=> Quiet(d)
  BY DEF Quiet, SameWriters
<1> QED
  BY <1>3, <1>4, <1>5 DEF DeviceInv, SameWriters

\* A call that does not write for a device, before the step or after it, leaves
\* the device's writers alone.
LEMMA WritersKept ==
  ASSUME CallsTyped, NEW c \in Calls, NEW r \in Call, CallSound(r),
         call' = [call EXCEPT ![c] = r],
         NEW d, ~Writing(call[c], d), ~Writing(r, d)
  PROVE  SameWriters(d)
<1>1. call'[c] = r /\ \A k \in Calls \ {c} : call'[k] = call[k]
  BY CallMoves
<1> QED
  BY <1>1, WritersAre DEF SameWriters

\* A device's only writer is still its only one, or stopped to be one.
LEMMA OnlyWriter ==
  ASSUME CallsTyped, NEW c \in Calls, NEW r \in Call, CallSound(r),
         call' = [call EXCEPT ![c] = r], NEW d, Writers(d) \subseteq {c}
  PROVE  /\ call'[c] = r
         /\ Writing(r, d) => Writers(d)' = {c}
         /\ ~Writing(r, d) => Writers(d)' = {}
<1>1. call'[c] = r /\ \A k \in Calls \ {c} : call'[k] = call[k]
  BY CallMoves
<1> QED
  BY <1>1, WritersAre

\* A step that leaves both stores alone but for one device's.
LEMMA StoresSpared ==
  ASSUME NEW d, Spares(d), NEW o \in Devices \ {d}, row'[o] = row[o],
         o \in members' <=> o \in members
  PROVE  SameStores(o)
BY DEF Spares, SameStores

LEMMA StoresUntouched ==
  ASSUME UNCHANGED redis, NEW o, row'[o] = row[o], o \in members' <=> o \in members
  PROVE  SameStores(o)
BY DEF redis, SameStores, RosterFull

-----------------------------------------------------------------------------
(* Presence: the steps.                                                    *)

\* A write of a device begins, and the row is still to be written or Redis is
\* still to be told: the device's own promises wait for its end.
LEMMA BeginKeepsPresence ==
  ASSUME PresenceInv, NEW c \in Calls, NEW d \in Devices, NEW r \in Call, CallSound(r),
         call[c].pc = "idle", call' = [call EXCEPT ![c] = r], Writing(r, d), Begins(d),
         UNCHANGED redis, UNCHANGED row, members' \subseteq Devices,
         \A o \in Devices \ {d} : o \in members' <=> o \in members,
         Progress(r, d)'
  PROVE  PresenceInv'
<1>1. CallsTyped /\ RowsTyped /\ RedisTyped
  BY PresenceTypeParts DEF PresenceInv
<1>2. CallsTyped'
  BY <1>1, CallMoves
<1>3. RowsTyped' /\ RedisTyped'
  BY <1>1 DEF RowsTyped, RedisTyped, redis, Begins
<1>4. call[c].device = NoDevice
  BY <1>1 DEF CallsTyped, CallSound
<1>5. ASSUME NEW o \in Devices \ disturbed', o # d PROVE DeviceInv(o)'
  <2>1. ~Writing(call[c], o) /\ ~Writing(r, o)
    BY <1>4, <1>5, PresenceAssumption DEF Writing
  <2>2. SameWriters(o)
    BY <1>1, <2>1, WritersKept
  <2>3. SameStores(o)
    BY <1>5, StoresUntouched
  <2>4. DeviceInv(o)
    BY <1>5 DEF PresenceInv, Begins
  <2> QED
    BY <1>1, <1>3, <2>2, <2>3, <2>4, DeviceKept
<1>6. ASSUME d \notin disturbed' PROVE DeviceInv(d)'
  <2>1. Writers(d) = {}
    BY <1>6 DEF Begins, Quiet
  <2>2. Writers(d)' = {c} /\ call'[c] = r
    BY <1>1, <2>1, OnlyWriter
  <2> QED
    BY <2>2 DEF DeviceInv, Quiet
<1>7. PresenceTypeOK'
  BY <1>2, <1>3, PresenceTypeParts
<1>8. \A o \in Devices \ disturbed' : DeviceInv(o)'
  BY <1>5, <1>6, Zenon
<1> QED
  BY <1>7, <1>8, Zenon DEF PresenceInv

LEMMA AnnounceKeeps ==
  ASSUME PresenceInv, NEW c \in Calls, NEW d \in Devices,
         NEW status \in {"ONLINE", "OFFLINE"}, Announce(c, d, status)
  PROVE  PresenceInv'
<1> DEFINE r == At(status, d)
<1>1. r \in Call /\ CallSound(r) /\ r.pc = status /\ r.device = d
  BY AtSound
<1>2. Writing(r, d) /\ Progress(r, d)'
  BY <1>1 DEF Announce, Calling, Writing, Progress
<1>3. members' \subseteq Devices /\ UNCHANGED row /\ UNCHANGED members
  BY DEF PresenceInv, PresenceTypeOK, Announce
<1> HIDE DEF r
<1>4. call[c].pc = "idle" /\ call' = [call EXCEPT ![c] = r] /\ Begins(d) /\ UNCHANGED redis
  BY DEF Announce, Calling, r
<1> QED
  BY <1>1, <1>2, <1>3, <1>4, BeginKeepsPresence

LEMMA RevokeDeviceKeeps ==
  ASSUME PresenceInv, NEW c \in Calls, NEW d \in Devices, RevokeDevice(c, d)
  PROVE  PresenceInv'
<1> DEFINE r == Issuing(d, ForgetCommands)
<1>1. r \in Call /\ CallSound(r) /\ r.pc = "redis" /\ r.device = d /\ r.todo = ForgetCommands
  BY IssuingSound DEF ForgetCommands
<1>2. d \notin members'
  BY DEF RevokeDevice
<1>3. Writing(r, d) /\ Progress(r, d)'
  BY <1>1, <1>2 DEF Writing, Progress, Forgotten, ForgetCommands
<1> HIDE DEF r
<1>4. /\ members' \subseteq Devices /\ UNCHANGED row
      /\ \A o \in Devices \ {d} : o \in members' <=> o \in members
  BY DEF PresenceInv, PresenceTypeOK, RevokeDevice
<1>5. call[c].pc = "idle" /\ call' = [call EXCEPT ![c] = r] /\ Begins(d) /\ UNCHANGED redis
  BY DEF RevokeDevice, r
<1> QED
  BY <1>1, <1>3, <1>4, <1>5, BeginKeepsPresence

\* A call that writes for nobody moves on, and nothing else does.
LEMMA BystanderKeeps ==
  ASSUME PresenceInv, NEW c \in Calls, NEW r \in Call, CallSound(r),
         call' = [call EXCEPT ![c] = r], \A d \in Devices : ~Writing(call[c], d) /\ ~Writing(r, d),
         UNCHANGED <<members, row, disturbed>>, RedisTyped',
         \A d \in Devices \ disturbed : DeviceInv(d) /\ SameWriters(d) => DeviceInv(d)'
  PROVE  PresenceInv'
<1>1. CallsTyped /\ RowsTyped /\ RedisTyped
  BY PresenceTypeParts DEF PresenceInv
<1>2. CallsTyped' /\ RowsTyped'
  BY <1>1, CallMoves DEF RowsTyped
<1>3. \A d \in Devices : SameWriters(d)
  BY <1>1, WritersKept
<1>4. \A d \in Devices \ disturbed' : DeviceInv(d)'
  BY <1>3, Zenon DEF PresenceInv
<1>5. PresenceTypeOK'
  BY <1>2, PresenceTypeParts
<1> QED
  BY <1>4, <1>5, Zenon DEF PresenceInv

LEMMA PollKeeps ==
  ASSUME PresenceInv, NEW c \in Calls, NEW d \in Devices, Poll(c, d)
  PROVE  PresenceInv'
<1>1. PICK pc \in {"renew", "report"} : call' = [call EXCEPT ![c] = At(pc, d)]
  BY DEF Poll
<1>2. At(pc, d) \in Call /\ CallSound(At(pc, d)) /\ At(pc, d).pc = pc
  BY AtSound
<1>3. \A o \in Devices : ~Writing(call[c], o) /\ ~Writing(At(pc, d), o)
  BY <1>2 DEF Poll, Calling, Writing
<1>4. RedisTyped /\ RedisTyped' /\ UNCHANGED <<members, row, disturbed>> /\ UNCHANGED redis
  BY PresenceTypeParts DEF PresenceInv, RedisTyped, redis, Poll
<1>5. \A o \in Devices \ disturbed : DeviceInv(o) /\ SameWriters(o) => DeviceInv(o)'
  BY <1>4, StoresUntouched, DeviceKept
<1> QED
  BY <1>1, <1>2, <1>3, <1>4, <1>5, BystanderKeeps

LEMMA ReportDetailKeeps ==
  ASSUME PresenceInv, NEW c \in Calls, ReportDetail(c)
  PROVE  PresenceInv'
<1> DEFINE d == call[c].device
           r == IF d \in members /\ row[d] # "none" THEN At("script", d) ELSE Idle
<1>1. CallsTyped /\ RowsTyped /\ RedisTyped
  BY PresenceTypeParts DEF PresenceInv
<1>2. r \in Call /\ CallSound(r) /\ r.pc \in {"script", "idle"}
  <2>1. d \in Devices
    BY <1>1 DEF ReportDetail, CallsTyped, Call, CallSound
  <2>2. At("script", d) \in Call /\ CallSound(At("script", d)) /\ At("script", d).pc = "script"
    BY <2>1, AtSound
  <2> QED
    BY <2>2, IdleSound
<1>3. call' = [call EXCEPT ![c] = r] /\ call[c].pc = "report"
  BY DEF ReportDetail
<1> HIDE DEF r
<1>4. \A o \in Devices : ~Writing(call[c], o) /\ ~Writing(r, o)
  BY <1>2, <1>3 DEF Writing
<1>5. RedisTyped' /\ UNCHANGED <<members, row, disturbed>> /\ UNCHANGED redis
  BY <1>1 DEF RedisTyped, redis, ReportDetail
<1>6. \A o \in Devices \ disturbed : DeviceInv(o) /\ SameWriters(o) => DeviceInv(o)'
  BY <1>1, <1>5, StoresUntouched, DeviceKept
<1> QED
  BY <1>2, <1>3, <1>4, <1>5, <1>6, BystanderKeeps

\* The row of a join or a leave is written, and Redis is told nothing yet; a
\* device that is no member any more has had a second writer.
LEMMA RecordRowKeeps ==
  ASSUME PresenceInv, NEW c \in Calls, RecordRow(c)
  PROVE  PresenceInv'
<1>1. CallsTyped /\ RowsTyped /\ RedisTyped
  BY PresenceTypeParts DEF PresenceInv
<1>2. PICK d \in Devices, status \in {"ONLINE", "OFFLINE"} :
        d = call[c].device /\ status = call[c].pc
  BY <1>1 DEF RecordRow, CallsTyped, Call, CallSound
<1> DEFINE todo == IF status = "ONLINE" THEN RecordCommands ELSE ForgetCommands
<1>3. Writing(call[c], d) /\ todo \in {RecordCommands, ForgetCommands}
  BY <1>2 DEF Writing
<1>4. PICK r \in Call :
        /\ CallSound(r) /\ r.device \in {d, NoDevice} /\ call' = [call EXCEPT ![c] = r]
        /\ d \in members => r.pc = "redis" /\ r.device = d /\ r.todo = todo
        /\ d \notin members => r = Idle
  <2>1. CASE d \in members
    <3>1. call' = [call EXCEPT ![c] = Issuing(d, todo)]
      BY <1>2, <2>1 DEF RecordRow
    <3>2. todo # {} /\ todo \in SUBSET (RecordCommands \cup ForgetCommands)
      BY DEF RecordCommands, ForgetCommands
    <3> QED
      BY <2>1, <3>1, <3>2, IssuingSound
  <2>2. CASE d \notin members
    <3>1. call' = [call EXCEPT ![c] = Idle]
      BY <1>2, <2>2, Zenon DEF RecordRow
    <3> QED
      BY <2>2, <3>1, IdleSound
  <2> QED
    BY <2>1, <2>2
<1>5. /\ UNCHANGED redis /\ UNCHANGED <<members, disturbed>>
      /\ row' = IF d \in members THEN [row EXCEPT ![d] = status] ELSE row
  BY <1>2, Zenon DEF RecordRow
<1>6. CallsTyped' /\ RowsTyped' /\ RedisTyped'
  <2>1. CallsTyped'
    BY <1>1, <1>4, CallMoves
  <2>2. RowsTyped' /\ RedisTyped'
    BY <1>1, <1>5 DEF RowsTyped, RedisTyped, redis
  <2> QED
    BY <2>1, <2>2
<1>7. ASSUME NEW o \in Devices \ disturbed, o # d PROVE DeviceInv(o)'
  <2>1. ~Writing(call[c], o) /\ ~Writing(r, o)
    BY <1>2, <1>4, <1>7, PresenceAssumption DEF Writing
  <2>2. SameWriters(o)
    BY <1>1, <1>4, <2>1, WritersKept
  <2>3. SameStores(o)
    BY <1>1, <1>5, <1>7, StoresUntouched DEF RowsTyped
  <2> QED
    BY <1>1, <1>6, <1>7, <2>2, <2>3, DeviceKept DEF PresenceInv
<1>8. ASSUME d \notin disturbed PROVE DeviceInv(d)'
  <2>1. DeviceInv(d) /\ c \in Writers(d)
    BY <1>3, <1>8, WritersAre DEF PresenceInv
  <2>2. d \in members /\ Writers(d) \subseteq {c}
    BY <1>2, <2>1 DEF DeviceInv, Progress
  <2>3. Writing(r, d) /\ row'[d] = status /\ d \in members'
    BY <1>1, <1>4, <1>5, <2>2 DEF Writing, RowsTyped
  <2>4. Writers(d)' = {c} /\ call'[c] = r
    BY <1>1, <1>4, <2>2, <2>3, OnlyWriter
  <2>5. Progress(r, d)'
    BY <1>4, <2>2, <2>3
       DEF Progress, Recorded, Forgotten, RecordCommands, ForgetCommands
  <2> QED
    BY <2>4, <2>5 DEF DeviceInv, Quiet
<1>9. PresenceTypeOK'
  BY <1>6, PresenceTypeParts
<1>10. \A o \in Devices \ disturbed' : DeviceInv(o)'
  BY <1>5, <1>7, <1>8, Zenon
<1> QED
  BY <1>9, <1>10, Zenon DEF PresenceInv

\* One command of a join whose other commands are its only company.
LEMMA RecordCommandRecords ==
  ASSUME RedisTyped, NEW d \in Devices, NEW todo \in SUBSET RecordCommands, Recorded(d, todo),
         NEW x \in todo, Execute(x, d), UNCHANGED <<members, row>>
  PROVE  Recorded(d, todo \ {x})'
<1>1. x \in RecordCommands /\ Spares(d)
  BY CommandOnRedis
<1>2. CASE x = "SET"
  BY <1>2, <1>1 DEF Execute, Recorded, RedisTyped, RosterFull
<1>3. CASE x = "SADD"
  BY <1>3, <1>1 DEF Execute, Recorded, SetIs, Spares
<1>4. CASE x = "EXPIRE"
  BY <1>4, <1>1, TtlTyped DEF Execute, Recorded, SetIs, RosterFull
<1> QED
  BY <1>1, <1>2, <1>3, <1>4 DEF RecordCommands

LEMMA ForgetCommandForgets ==
  ASSUME RedisTyped, NEW d \in Devices, NEW todo \in SUBSET ForgetCommands, Forgotten(d, todo),
         NEW x \in todo, Execute(x, d), UNCHANGED <<members, row>>
  PROVE  Forgotten(d, todo \ {x})'
<1>1. CASE x = "DEL"
  BY <1>1 DEF Execute, Forgotten, RedisTyped
<1>2. CASE x = "SREM"
  BY <1>2 DEF Execute, Forgotten, SetIs
<1> QED
  BY <1>1, <1>2 DEF ForgetCommands

\* A write with nothing left to do has made the stores agree.
LEMMA DoneAgrees ==
  ASSUME RedisTyped, NEW d \in Devices, Recorded(d, {}) \/ Forgotten(d, {})
  PROVE  StoresAgree(d)
BY TtlTyped DEF RedisTyped, Recorded, Forgotten, StoresAgree, RosterFull

\* A command of a join or a leave, and with the last one its end.
LEMMA CommandKeeps ==
  ASSUME PresenceInv, NEW c \in Calls, Command(c)
  PROVE  PresenceInv'
<1>1. CallsTyped /\ RowsTyped /\ RedisTyped
  BY PresenceTypeParts DEF PresenceInv
<1>2. call[c] \in Call /\ CallSound(call[c]) /\ call[c].pc = "redis"
  BY <1>1 DEF Command, CallsTyped
<1>3. PICK d \in Devices, todo \in SUBSET (RecordCommands \cup ForgetCommands) :
        d = call[c].device /\ todo = call[c].todo
  BY <1>2 DEF Call, CallSound
<1>4. PICK x \in todo :
        /\ Execute(x, d)
        /\ call' = [call EXCEPT ![c] = IF @.todo = {x} THEN Idle
                                        ELSE Issuing(@.device, @.todo \ {x})]
  BY <1>3, Zenon DEF Command
<1>5. PICK r \in Call :
        /\ CallSound(r) /\ r.device \in {d, NoDevice} /\ call' = [call EXCEPT ![c] = r]
        /\ todo = {x} => r.pc = "idle"
        /\ todo # {x} => r.pc = "redis" /\ r.device = d /\ r.todo = todo \ {x}
  <2>1. CASE todo = {x}
    <3>1. call' = [call EXCEPT ![c] = Idle]
      BY <1>3, <1>4, <2>1
    <3> QED
      BY <2>1, <3>1, IdleSound
  <2>2. CASE todo # {x}
    <3>1. call' = [call EXCEPT ![c] = Issuing(d, todo \ {x})]
      BY <1>3, <1>4, <2>2
    <3>2. todo \ {x} # {} /\ todo \ {x} \in SUBSET (RecordCommands \cup ForgetCommands)
      BY <1>4, <2>2
    <3> DEFINE i == Issuing(d, todo \ {x})
    <3>3. i \in Call /\ CallSound(i) /\ i.pc = "redis" /\ i.device = d /\ i.todo = todo \ {x}
      BY <3>2, IssuingSound
    <3>4. call' = [call EXCEPT ![c] = i]
      BY <3>1
    <3> HIDE DEF i
    <3> QED
      BY <2>2, <3>3, <3>4
  <2> QED
    BY <2>1, <2>2
<1>6. UNCHANGED <<members, row, disturbed>>
  BY DEF Command
<1>7. RedisTyped' /\ Spares(d)
  BY <1>1, <1>3, <1>4, CommandOnRedis
<1>8. PresenceTypeOK'
  <2>1. CallsTyped' /\ RowsTyped'
    BY <1>1, <1>5, <1>6, CallMoves DEF RowsTyped
  <2> QED
    BY <1>7, <2>1, PresenceTypeParts
<1>9. ASSUME NEW o \in Devices \ disturbed, o # d PROVE DeviceInv(o)'
  <2>1. ~Writing(call[c], o) /\ ~Writing(r, o)
    BY <1>3, <1>5, <1>9, PresenceAssumption DEF Writing
  <2>2. SameWriters(o)
    BY <1>1, <1>5, <2>1, WritersKept
  <2>3. SameStores(o)
    BY <1>6, <1>7, <1>9, StoresSpared
  <2> QED
    BY <1>1, <1>7, <1>9, <2>2, <2>3, DeviceKept DEF PresenceInv
<1>10. ASSUME d \notin disturbed PROVE DeviceInv(d)'
  <2>1. DeviceInv(d) /\ c \in Writers(d)
    BY <1>2, <1>3, <1>10, WritersAre DEF PresenceInv, Writing
  <2>2. Writers(d) \subseteq {c} /\ Progress(call[c], d)
    BY <2>1 DEF DeviceInv
  <2>3. \/ todo \subseteq RecordCommands /\ Recorded(d, todo \ {x})'
        \/ todo \subseteq ForgetCommands /\ Forgotten(d, todo \ {x})'
    <3>1. CASE todo \subseteq RecordCommands /\ Recorded(d, todo)
      BY <1>1, <1>4, <1>6, <3>1, RecordCommandRecords
    <3>2. CASE todo \subseteq ForgetCommands /\ Forgotten(d, todo)
      BY <1>1, <1>4, <1>6, <3>2, ForgetCommandForgets
    <3> QED
      BY <1>2, <1>3, <2>2, <3>1, <3>2 DEF Progress
  <2>4. CASE todo = {x}
    <3>1. Writers(d)' = {}
      BY <1>1, <1>5, <2>2, <2>4, OnlyWriter DEF Writing
    <3>2. Recorded(d, {})' \/ Forgotten(d, {})'
      <4>1. todo \ {x} = {}
        BY <2>4
      <4> QED
        BY <2>3, <4>1
    <3>3. StoresAgree(d)'
      BY <1>7, <3>2, TtlTyped DEF RedisTyped, Recorded, Forgotten, StoresAgree, RosterFull
    <3> QED
      BY <3>1, <3>3 DEF DeviceInv
  <2>5. CASE todo # {x}
    <3>1. Writers(d)' = {c} /\ call'[c] = r
      BY <1>1, <1>5, <2>2, <2>5, OnlyWriter DEF Writing
    <3>2. Progress(r, d)'
      BY <1>5, <2>3, <2>5 DEF Progress
    <3> QED
      BY <3>1, <3>2 DEF DeviceInv, Quiet
  <2> QED
    BY <2>4, <2>5
<1>11. \A o \in Devices \ disturbed' : DeviceInv(o)'
  BY <1>6, <1>9, <1>10, Zenon
<1> QED
  BY <1>8, <1>11, Zenon DEF PresenceInv

\* The scripts refresh what is there; a key that a leave deleted stays away, and
\* one that a join has set has a full TTL already.
LEMMA RunScriptKeeps ==
  ASSUME PresenceInv, NEW c \in Calls, RunScript(c)
  PROVE  PresenceInv'
<1>1. CallsTyped /\ RowsTyped /\ RedisTyped
  BY PresenceTypeParts DEF PresenceInv
<1>2. PICK d \in Devices : d = call[c].device
  BY <1>1 DEF RunScript, CallsTyped, Call, CallSound
<1>3. PICK r \in Call : /\ CallSound(r) /\ call' = [call EXCEPT ![c] = r]
                        /\ r.pc \in {"renew", "idle"}
  <2>1. CASE call[c].pc = "script"
    <3>1. call' = [call EXCEPT ![c] = At("renew", d)]
      BY <1>2, <2>1 DEF RunScript
    <3> QED
      BY <3>1, AtSound
  <2>2. CASE call[c].pc # "script"
    <3>1. call' = [call EXCEPT ![c] = Idle]
      BY <2>2 DEF RunScript
    <3> QED
      BY <3>1, IdleSound
  <2> QED
    BY <2>1, <2>2
<1>4. \A o \in Devices : ~Writing(call[c], o) /\ ~Writing(r, o)
  BY <1>3 DEF Writing, RunScript
<1>5. Refreshed(d) /\ UNCHANGED <<members, row, disturbed>>
  BY <1>2 DEF RunScript
<1>6. /\ RedisTyped' /\ Spares(d)
      /\ key'[d] = IF key[d] > 0 THEN Ttl ELSE 0
      /\ d \in roster' <=> d \in roster
  BY <1>1, <1>5, ScriptOnRedis
<1>7. ASSUME NEW o \in Devices, o # d, DeviceInv(o), SameWriters(o) PROVE DeviceInv(o)'
  BY <1>1, <1>5, <1>6, <1>7, StoresSpared, DeviceKept
<1>8. ASSUME DeviceInv(d), SameWriters(d) PROVE DeviceInv(d)'
  <2>1. key[d] \in 0..Ttl
    BY <1>1 DEF RedisTyped
  <2>2. ASSUME NEW todo, Recorded(d, todo) PROVE Recorded(d, todo)'
    BY <1>5, <1>6, <2>1, <2>2, TtlTyped DEF Recorded, Spares
  <2>3. ASSUME NEW todo, Forgotten(d, todo) PROVE Forgotten(d, todo)'
    BY <1>5, <1>6, <2>1, <2>3 DEF Forgotten
  <2>4. ASSUME NEW k \in Writers(d)' PROVE Progress(call[k], d)'
    <3>1. k \in Writers(d) /\ call'[k] = call[k] /\ Progress(call[k], d)
      BY <1>8, <2>4 DEF SameWriters, DeviceInv
    <3> QED
      BY <1>5, <2>2, <2>3, <3>1 DEF Progress
  <2>5. ASSUME StoresAgree(d) PROVE StoresAgree(d)'
    <3>1. CASE key[d] > 0
      <4>1. SetIs(roster, Ttl) /\ d \in roster
        BY <1>5, <2>5, <3>1 DEF Refreshed, StoresAgree
      <4> QED
        BY <1>5, <1>6, <2>5, <3>1, <4>1, TtlTyped DEF SetIs, StoresAgree
    <3>2. CASE ~(key[d] > 0)
      BY <1>5, <1>6, <2>5, <3>2 DEF StoresAgree
    <3> QED
      BY <3>1, <3>2
  <2>6. Quiet(d)' <=> Quiet(d)
    BY <1>8 DEF Quiet, SameWriters
  <2> QED
    BY <1>8, <2>4, <2>5, <2>6 DEF DeviceInv, SameWriters
<1>9. \A o \in Devices \ disturbed : DeviceInv(o) /\ SameWriters(o) => DeviceInv(o)'
  BY <1>7, <1>8
<1> QED
  BY <1>3, <1>4, <1>5, <1>6, <1>9, BystanderKeeps

\* A polling interval passes.  A device whose join is still under way is
\* disturbed by it; the keys and the set of the others run out together.
LEMMA TickKeeps ==
  ASSUME PresenceInv, Tick
  PROVE  PresenceInv'
<1>1. CallsTyped /\ RowsTyped /\ RedisTyped
  BY PresenceTypeParts DEF PresenceInv
<1>2. UNCHANGED <<members, row, call>> /\ disturbed \subseteq disturbed'
  BY DEF Tick
<1>3. /\ RedisTyped'
      /\ \A d \in Devices : key'[d] = IF key[d] > 0 THEN key[d] - 1 ELSE 0
      /\ roster' = roster \/ (roster' = {} /\ rosterTtl = 1)
      /\ roster' # {} => \/ rosterTtl = Never /\ rosterTtl' = Never
                         \/ rosterTtl' = rosterTtl - 1
  BY <1>1, TickOnRedis
<1>4. PresenceTypeOK'
  <2>1. CallsTyped' /\ RowsTyped'
    BY <1>1, <1>2 DEF CallsTyped, RowsTyped, Tick
  <2> QED
    BY <1>3, <2>1, PresenceTypeParts
<1>5. ASSUME NEW d \in Devices \ disturbed' PROVE DeviceInv(d)'
  <2>1. DeviceInv(d) /\ Writers(d)' = Writers(d)
    BY <1>2, <1>5, WritersAre DEF PresenceInv
  <2>2. ASSUME NEW c \in Writers(d) PROVE Progress(call[c], d)'
    <3>1. c \in Calls /\ call[c].device = d /\ Progress(call[c], d) /\ ~Joining(c, d)
      BY <1>5, <2>1, <2>2 DEF Tick, DeviceInv, Writers
    <3>2. call[c].pc = "redis" => call[c].todo \cap RecordCommands = {} /\ call[c].todo # {}
      BY <1>1, <3>1 DEF Joining, CallsTyped, CallSound
    <3>3. CASE call[c].pc # "redis"
      BY <1>2, <3>1, <3>3 DEF Progress
    <3>4. CASE call[c].pc = "redis"
      <4>1. call[c].todo \subseteq ForgetCommands /\ Forgotten(d, call[c].todo)
        BY <3>1, <3>2, <3>4 DEF Progress
      <4>2. key[d] = 0 => key'[d] = 0
        BY <1>3
      <4> QED
        BY <1>2, <1>3, <3>4, <4>1, <4>2 DEF Progress, Forgotten
    <3> QED
      BY <3>3, <3>4
  <2>3. ASSUME StoresAgree(d) PROVE StoresAgree(d)'
    <3>1. key[d] \in 0..Ttl /\ rosterTtl \in 0..Never /\ (roster = {} <=> rosterTtl = 0)
      BY <1>1 DEF RedisTyped
    <3>2. key'[d] > 0 => key'[d] = key[d] - 1 /\ key[d] > 1
      BY <1>3, <3>1, TtlTyped
    <3>3. ASSUME key'[d] > 0 PROVE d \in roster' /\ rosterTtl' >= key'[d]
      <4>1. d \in roster /\ rosterTtl >= key[d] /\ rosterTtl # 1
        BY <2>3, <3>1, <3>2, <3>3, TtlTyped DEF StoresAgree
      <4>2. d \in roster'
        BY <1>3, <4>1
      <4> QED
        BY <1>3, <3>1, <3>2, <3>3, <4>1, <4>2, TtlTyped
    <3>4. (row'[d] = "OFFLINE" \/ d \notin members') => key'[d] = 0 /\ d \notin roster'
      BY <1>2, <1>3, <2>3, <3>1 DEF StoresAgree
    <3> QED
      BY <3>3, <3>4 DEF StoresAgree
  <2>4. Quiet(d)' <=> Quiet(d)
    BY <2>1 DEF Quiet
  <2>5. \A c \in Writers(d)' : Progress(call[c], d)'
    BY <2>1, <2>2
  <2> QED
    BY <2>1, <2>3, <2>4, <2>5 DEF DeviceInv
<1> QED
  BY <1>4, <1>5, Zenon DEF PresenceInv

\* A handler's process dies: a device it wrote for is disturbed.
LEMMA DieKeeps ==
  ASSUME PresenceInv, NEW c \in Calls, Die(c)
  PROVE  PresenceInv'
<1>1. CallsTyped /\ RowsTyped /\ RedisTyped
  BY PresenceTypeParts DEF PresenceInv
<1>2. /\ call' = [call EXCEPT ![c] = Idle] /\ UNCHANGED redis /\ UNCHANGED <<members, row>>
      /\ disturbed' = disturbed \cup {d \in Devices : c \in Writers(d)}
  BY DEF Die
<1>3. PresenceTypeOK'
  <2>1. CallsTyped'
    BY <1>1, <1>2, IdleSound, CallMoves
  <2>2. RowsTyped' /\ RedisTyped'
    BY <1>1, <1>2 DEF RowsTyped, RedisTyped, redis
  <2> QED
    BY <2>1, <2>2, PresenceTypeParts
<1>4. ASSUME NEW d \in Devices \ disturbed' PROVE DeviceInv(d)'
  <2>1. DeviceInv(d) /\ ~Writing(call[c], d) /\ ~Writing(Idle, d)
    BY <1>2, <1>4, WritersAre, IdleSound DEF PresenceInv, Writing
  <2>2. SameWriters(d)
    BY <1>1, <1>2, <2>1, IdleSound, WritersKept
  <2>3. SameStores(d) /\ RedisTyped'
    BY <1>1, <1>2, StoresUntouched DEF RedisTyped, redis
  <2> QED
    BY <1>1, <2>1, <2>2, <2>3, DeviceKept
<1> QED
  BY <1>3, <1>4, Zenon DEF PresenceInv

\* The invariant holds of every reachable state.
LEMMA PresenceInvariant == PresenceSpec => []PresenceInv
<1>1. PresenceInit => PresenceInv
  <2> SUFFICES ASSUME PresenceInit PROVE PresenceInv
    OBVIOUS
  <2>1. CallsTyped
    <3>1. \A c \in Calls : call[c] = Idle
      BY DEF PresenceInit
    <3> QED
      BY <3>1, IdleSound DEF PresenceInit, CallsTyped
  <2>2. RowsTyped /\ RedisTyped
    BY TtlTyped DEF PresenceInit, RowsTyped, RedisTyped
  <2>3. ASSUME NEW d \in Devices PROVE DeviceInv(d)
    <3>1. Writers(d) = {}
      BY IdleSound DEF PresenceInit, Writers
    <3>2. StoresAgree(d)
      BY <2>3 DEF PresenceInit, StoresAgree
    <3> QED
      BY <3>1, <3>2 DEF DeviceInv
  <2> QED
    BY <2>1, <2>2, <2>3, PresenceTypeParts DEF PresenceInv
<1>2. PresenceInv /\ [PresenceNext]_presenceVars => PresenceInv'
  <2> SUFFICES ASSUME PresenceInv, [PresenceNext]_presenceVars PROVE PresenceInv'
    OBVIOUS
  <2>1. ASSUME NEW c \in Calls, NEW d \in Devices, NEW status \in {"ONLINE", "OFFLINE"},
               Announce(c, d, status)
        PROVE  PresenceInv'
    BY <2>1, AnnounceKeeps
  <2>2. ASSUME NEW c \in Calls, NEW d \in Devices, RevokeDevice(c, d) PROVE PresenceInv'
    BY <2>2, RevokeDeviceKeeps
  <2>3. ASSUME NEW c \in Calls, NEW d \in Devices, Poll(c, d) PROVE PresenceInv'
    BY <2>3, PollKeeps
  <2>4. ASSUME NEW c \in Calls, RecordRow(c) PROVE PresenceInv'
    BY <2>4, RecordRowKeeps
  <2>5. ASSUME NEW c \in Calls, Command(c) PROVE PresenceInv'
    BY <2>5, CommandKeeps
  <2>6. ASSUME NEW c \in Calls, ReportDetail(c) PROVE PresenceInv'
    BY <2>6, ReportDetailKeeps
  <2>7. ASSUME NEW c \in Calls, RunScript(c) PROVE PresenceInv'
    BY <2>7, RunScriptKeeps
  <2>8. ASSUME NEW c \in Calls, Die(c) PROVE PresenceInv'
    BY <2>8, DieKeeps
  <2>9. CASE Tick
    BY <2>9, TickKeeps
  <2>10. CASE UNCHANGED presenceVars
    <3>1. UNCHANGED <<members, row, key, roster, rosterTtl, call, disturbed>>
      BY <2>10 DEF presenceVars, redis
    <3>2. PresenceTypeOK /\ PresenceTypeOK'
      BY <3>1 DEF PresenceInv, PresenceTypeOK
    <3>3. ASSUME NEW d \in Devices \ disturbed' PROVE DeviceInv(d)'
      <4>1. DeviceInv(d) /\ SameStores(d)
        BY <3>1, <3>3 DEF PresenceInv, SameStores, RosterFull
      <4>2. SameWriters(d)
        BY <3>1, WritersAre DEF SameWriters
      <4> QED
        BY <3>2, <4>1, <4>2, PresenceTypeParts, DeviceKept
    <3> QED
      BY <3>2, <3>3, Zenon DEF PresenceInv
  <2> QED
    BY <2>1, <2>2, <2>3, <2>4, <2>5, <2>6, <2>7, <2>8, <2>9, <2>10, Zenon
       DEF PresenceNext, Handle
<1> QED
  BY <1>1, <1>2, PTL DEF PresenceSpec

\* Every reachable state of presence is well typed, and the set has a TTL
\* exactly while it names somebody.
THEOREM PresenceTypes == PresenceSpec => []PresenceTypeOK
BY PresenceInvariant, PTL DEF PresenceInv

\* Leaving and being revoked withdraw, although polls, reports and other devices'
\* commands run between any two commands of the leave (forgetPresence), unless
\* the device's last write overlapped another or died.
THEOREM WithdrawalHolds == PresenceSpec => []Withdrawn
<1>1. PresenceInv => Withdrawn
  BY DEF PresenceInv, Withdrawn, DeviceInv, StoresAgree
<1> QED
  BY <1>1, PresenceInvariant, PTL

\* A key that is live is seen: the group's set names its device and lasts as long
\* (recordPresence, the scripts of reportPresence and renewPresence).
THEOREM LiveKeyIsSeen == PresenceSpec => []Visible
<1>1. PresenceInv => Visible
  BY DEF PresenceInv, Visible, DeviceInv, StoresAgree
<1> QED
  BY <1>1, PresenceInvariant, PTL
=============================================================================
