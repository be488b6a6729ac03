------------------------- MODULE DeviceSessionProofs -------------------------
(***************************************************************************)
(* The credentials of a device for any number of calls, rotations and      *)
(* codes.  The proof comes in four parts: types and endings, the one       *)
(* access token, the refreshes of a device that no rotation overtook, and  *)
(* the codes of one request.                                               *)
(***************************************************************************)
EXTENDS DeviceSession, FiniteSetTheorems, TLAPS

SessionRow == [generation : Generations, status : {"live", "expired", "replayed", "revoked"}]

CodeRow == [status : {"none", "live", "consumed", "revoked"}, token : 0..MaxGeneration]

ReceiptRow == ReceiptOf(0..MaxGeneration, 0..(MaxCodes + 1))

StoreRow(g) == [token : 0..g, pending : Requests \cup {NoRequest}]

CallRow(g) == [pc : {"idle", "sent", "claimed", "refused", "replay", "answered",
                     "unauthenticated"},
               request : Requests \cup {NoRequest, CodeRequest},
               token : 0..g, awaited : BOOLEAN,
               answer : 0..(MaxGeneration + MaxCodes), since : 0..g]

AllRequests == Requests \cup {CodeRequest}

\* What a handler's state says of its request.
RowGood(row, g) ==
  /\ row.pc # "idle" => row.request # NoRequest /\ row.token > 0
  /\ row.pc = "answered" => row.answer \in 1..g
  /\ row.pc \in {"answered", "unauthenticated"} => row.awaited /\ row.request # CodeRequest
  /\ row.pc = "claimed" => row.token <= row.since
  /\ (row.pc = "replay" /\ row.request = CodeRequest) => row.answer \in Codes

CallsGood == \A c \in Calls : RowGood(call[c], session.generation)

\* A completed request for a code names one.
CodeNamed == receipt[CodeRequest].status = "completed" => receipt[CodeRequest].outcome \in Codes

Flags == crossed \in BOOLEAN /\ overtaken \in BOOLEAN /\ adrift \in BOOLEAN /\ doubled \in BOOLEAN

\* Types, and what a handler's state says of its request.
SessionInv == TypeOK /\ CallsGood /\ CodeNamed

-----------------------------------------------------------------------------
LEMMA Constants ==
  /\ MaxGeneration \in Nat /\ MaxGeneration > 0 /\ MaxCodes \in Nat
  /\ NoRequest \notin Requests /\ CodeRequest \notin Requests /\ CodeRequest # NoRequest
BY SessionAssumption

LEMMA Typed ==
  ASSUME SessionInv
  PROVE  /\ session \in SessionRow /\ session.generation \in Nat
         /\ 1 <= session.generation /\ session.generation <= MaxGeneration
         /\ access \subseteq Generations
         /\ code \in [Codes -> CodeRow] /\ receipt \in [AllRequests -> ReceiptRow]
         /\ store \in StoreRow(session.generation)
         /\ call \in [Calls -> CallRow(session.generation)]
         /\ CallsGood /\ CodeNamed
<1>1. /\ session \in SessionRow
      /\ access \subseteq Generations
      /\ code \in [Codes -> CodeRow] /\ receipt \in [AllRequests -> ReceiptRow]
      /\ store \in StoreRow(session.generation)
      /\ call \in [Calls -> CallRow(session.generation)]
  BY Zenon DEF SessionInv, TypeOK, SessionRow, CodeRow, AllRequests, ReceiptRow, StoreRow, CallRow
<1>2. /\ session.generation \in Nat
      /\ 1 <= session.generation /\ session.generation <= MaxGeneration
  BY <1>1, Constants DEF SessionRow, Generations
<1> QED
  BY <1>1, <1>2, Zenon DEF SessionInv

LEMMA FlagsTyped ==
  ASSUME SessionInv
  PROVE  Flags
BY Zenon DEF SessionInv, TypeOK, Flags

\* The invariant from its parts.
LEMMA PartsMake ==
  ASSUME session' \in SessionRow, access' \subseteq Generations, code' \in [Codes -> CodeRow],
         receipt' \in [AllRequests -> ReceiptRow],
         store' \in StoreRow(session'.generation),
         call' \in [Calls -> CallRow(session'.generation)],
         \A c \in Calls : RowGood(call'[c], session'.generation),
         Flags', CodeNamed'
  PROVE  SessionInv'
<1>1. CallsGood'
  BY Zenon DEF CallsGood
<1>2. /\ \A c \in Calls : UnderWay(c)' => call'[c].request # NoRequest /\ call'[c].token > 0
      /\ \A c \in Calls : call'[c].pc = "answered" => call'[c].answer \in 1..session'.generation
      /\ \A c \in Calls : call'[c].pc \in {"answered", "unauthenticated"} => call'[c].awaited
  BY Zenon DEF RowGood, UnderWay
<1>3. TypeOK'
  BY <1>2, Zenon DEF TypeOK, Flags, SessionRow, CodeRow, AllRequests, ReceiptRow, StoreRow, CallRow
<1> QED
  BY <1>1, <1>3, Zenon DEF SessionInv

\* One handler moves, in a session that has not gone back.
LEMMA CallStep ==
  ASSUME SessionInv, NEW c \in Calls, NEW g \in Generations, session.generation <= g,
         NEW row \in CallRow(g), RowGood(row, g), call' = [call EXCEPT ![c] = row]
  PROVE  /\ call' \in [Calls -> CallRow(g)] /\ call'[c] = row
         /\ \A d \in Calls : d # c => call'[d] = call[d]
         /\ \A d \in Calls : RowGood(call'[d], g)
<1>1. call \in [Calls -> CallRow(session.generation)] /\ CallsGood
  BY Typed
<1>2. session.generation \in Nat /\ g \in Nat
  BY Typed, Constants DEF Generations
<1>3. \A d \in Calls : call[d] \in CallRow(g)
  <2> SUFFICES ASSUME NEW d \in Calls PROVE call[d] \in CallRow(g)
    OBVIOUS
  <2>1. call[d] \in CallRow(session.generation)
    BY <1>1
  <2>2. 0..session.generation \subseteq 0..g
    BY <1>2
  <2> QED
    BY <2>1, <2>2 DEF CallRow
<1>4. \A d \in Calls : RowGood(call[d], g)
  <2> SUFFICES ASSUME NEW d \in Calls PROVE RowGood(call[d], g)
    OBVIOUS
  <2>1. RowGood(call[d], session.generation)
    BY <1>1 DEF CallsGood
  <2>2. 1..session.generation \subseteq 1..g
    BY <1>2
  <2> QED
    BY <2>1, <2>2, Zenon DEF RowGood
<1>5. /\ call' \in [Calls -> CallRow(g)] /\ call'[c] = row
      /\ \A d \in Calls : d # c => call'[d] = call[d]
  <2>1. DOMAIN call = Calls /\ call = [d \in Calls |-> call[d]]
    BY <1>1
  <2> QED
    BY <1>3, <2>1
<1> QED
  BY <1>4, <1>5

LEMMA QuietGood ==
  ASSUME NEW g \in Nat
  PROVE  Quiet \in CallRow(g) /\ RowGood(Quiet, g) /\ Quiet.pc = "idle"
         /\ Quiet.request = NoRequest
<1>1. /\ Quiet \in CallRow(g) /\ Quiet.pc = "idle" /\ Quiet.request = NoRequest
  BY Constants DEF Quiet, CallRow
<1>2. RowGood(Quiet, g)
  BY <1>1 DEF RowGood
<1> QED
  BY <1>1, <1>2

\* Nobody moves.
LEMMA CallsStay ==
  ASSUME SessionInv, UNCHANGED call
  PROVE  /\ call' \in [Calls -> CallRow(session.generation)]
         /\ \A d \in Calls : RowGood(call'[d], session.generation)
BY Typed, Zenon DEF CallsGood

\* A step that leaves the session's rows alone.
LEMMA LocalStep ==
  ASSUME SessionInv, UNCHANGED <<session, access>>,
         code' \in [Codes -> CodeRow], receipt' \in [AllRequests -> ReceiptRow], CodeNamed',
         store' \in StoreRow(session.generation),
         call' \in [Calls -> CallRow(session.generation)],
         \A c \in Calls : RowGood(call'[c], session.generation),
         Flags'
  PROVE  SessionInv'
BY Typed, PartsMake, Zenon

\* One handler moves and nothing else does, but for the history.
LEMMA HandlerStep ==
  ASSUME SessionInv, UNCHANGED <<session, access, code, receipt, store>>,
         NEW c \in Calls, NEW row \in CallRow(session.generation),
         RowGood(row, session.generation), call' = [call EXCEPT ![c] = row],
         Flags'
  PROVE  SessionInv'
<1>1. session.generation \in Generations /\ session.generation <= session.generation
  BY Typed DEF SessionRow
<1>2. /\ call' \in [Calls -> CallRow(session.generation)]
      /\ \A d \in Calls : RowGood(call'[d], session.generation)
  BY <1>1, CallStep
<1>3. CodeNamed'
  BY Typed, Zenon DEF CodeNamed
<1> QED
  BY <1>2, <1>3, Typed, LocalStep, Zenon

LEMMA ForgottenTyped ==
  ASSUME NEW g \in Nat
  PROVE  Forgotten \in StoreRow(g) /\ Forgotten.token = 0 /\ Forgotten.pending = NoRequest
BY DEF Forgotten, StoreRow

LEMMA DeviceKeeps ==
  ASSUME SessionInv, BeRefused
  PROVE  SessionInv'
<1>1. /\ UNCHANGED <<session, access, code, receipt, call, crossed, overtaken, doubled>>
      /\ store' = Forgotten
  BY DEF BeRefused, rows
<1>2. Flags'
  BY FlagsTyped, Zenon DEF BeRefused, Flags, Live
<1>3. store' \in StoreRow(session.generation)
  BY <1>1, Typed, ForgottenTyped
<1>4. CodeNamed'
  BY <1>1, Typed, Zenon DEF CodeNamed
<1> QED
  BY <1>1, <1>2, <1>3, <1>4, Typed, CallsStay, LocalStep, Zenon

\* A call that was just sent.
LEMMA SentGood ==
  ASSUME SessionInv, NEW r \in AllRequests, store.token # 0
  PROVE  /\ Sent(r) \in CallRow(session.generation) /\ RowGood(Sent(r), session.generation)
         /\ Sent(r).pc = "sent" /\ Sent(r).request = r /\ Sent(r).token = store.token
<1> DEFINE t == store.token
<1>1. t \in 0..session.generation /\ t # 0 /\ session.generation \in Nat
  BY Typed DEF StoreRow
<1>2. r # NoRequest /\ r \in Requests \cup {NoRequest, CodeRequest}
  BY Constants DEF AllRequests
<1>3. Sent(r) = [Quiet EXCEPT !.pc = "sent", !.request = r, !.token = t, !.awaited = TRUE]
  BY DEF Sent
<1> HIDE DEF t
<1>4. Quiet \in CallRow(session.generation)
  BY <1>1, QuietGood
<1>5. /\ Sent(r) \in CallRow(session.generation) /\ Sent(r).pc = "sent"
      /\ Sent(r).request = r /\ Sent(r).token = t
  BY <1>1, <1>2, <1>3, <1>4 DEF CallRow
<1>6. RowGood(Sent(r), session.generation)
  BY <1>1, <1>2, <1>5 DEF RowGood
<1> QED
  BY <1>5, <1>6 DEF t

LEMMA StartRefreshKeeps ==
  ASSUME SessionInv, NEW c \in Calls, NEW r \in Requests, StartRefresh(c, r)
  PROVE  SessionInv'
<1>1. /\ UNCHANGED <<session, access, code, receipt, crossed, overtaken, adrift, doubled>>
      /\ store' = [store EXCEPT !.pending = r] /\ call' = [call EXCEPT ![c] = Sent(r)]
      /\ r \in AllRequests /\ store.token # 0
  BY DEF StartRefresh, rows, history, AllRequests
<1>2. Flags'
  BY <1>1, FlagsTyped, Zenon DEF Flags
<1>3. store' \in StoreRow(session.generation)
  BY <1>1, Typed DEF StoreRow
<1>4. session.generation \in Generations /\ session.generation <= session.generation
  BY Typed DEF SessionRow
<1>5. /\ call' \in [Calls -> CallRow(session.generation)]
      /\ \A d \in Calls : RowGood(call'[d], session.generation)
  BY <1>1, <1>4, SentGood, CallStep
<1>6. CodeNamed'
  BY <1>1, Typed, Zenon DEF CodeNamed
<1> QED
  BY <1>1, <1>2, <1>3, <1>5, <1>6, Typed, LocalStep, Zenon

LEMMA StartCodeKeeps ==
  ASSUME SessionInv, NEW c \in Calls, StartCode(c)
  PROVE  SessionInv'
<1>1. /\ UNCHANGED <<session, access, code, receipt, store, crossed, overtaken, adrift, doubled>>
      /\ call' = [call EXCEPT ![c] = Sent(CodeRequest)] /\ CodeRequest \in AllRequests
  BY DEF StartCode, rows, history, AllRequests
<1>2. store.token # 0
  BY Typed DEF StartCode, Generations
<1>3. Flags'
  BY <1>1, FlagsTyped, Zenon DEF Flags
<1> QED
  BY <1>1, <1>2, <1>3, SentGood, HandlerStep, Zenon

\* A handler that is refused.
LEMMA Refuses ==
  ASSUME SessionInv, NEW c \in Calls, UnderWay(c), call' = Refused(c)
  PROVE  \E row \in CallRow(session.generation) :
           /\ call' = [call EXCEPT ![c] = row] /\ RowGood(row, session.generation)
           /\ row.pc = "refused" /\ row.request = call[c].request
           /\ row.token = call[c].token /\ row.awaited = call[c].awaited
<1>1. call[c] \in CallRow(session.generation) /\ RowGood(call[c], session.generation)
  BY Typed DEF CallsGood
<1>2. PICK row : row = [call[c] EXCEPT !.pc = "refused", !.since = 0]
                 /\ call' = [call EXCEPT ![c] = row]
  BY DEF Refused
<1>3. /\ row \in CallRow(session.generation) /\ row.pc = "refused"
      /\ row.request = call[c].request /\ row.token = call[c].token
      /\ row.awaited = call[c].awaited
  <2>1. 0 \in 0..session.generation /\ session.generation \in Nat
    BY Typed
  <2>2. PICK mid : mid = [call[c] EXCEPT !.pc = "refused"]
    OBVIOUS
  <2>3. /\ mid \in CallRow(session.generation) /\ mid.pc = "refused"
        /\ mid.request = call[c].request /\ mid.token = call[c].token
        /\ mid.awaited = call[c].awaited
    BY <1>1, <2>2 DEF CallRow
  <2>4. row = [mid EXCEPT !.since = 0]
    BY <1>2, <2>2
  <2> QED
    BY <2>1, <2>3, <2>4 DEF CallRow
<1>4. RowGood(row, session.generation)
  BY <1>1, <1>3 DEF RowGood, UnderWay
<1> QED
  BY <1>2, <1>3, <1>4

\* A handler that answers unauthenticated, to whoever awaits it.
LEMMA TurnsAway ==
  ASSUME SessionInv, NEW c \in Calls, UnderWay(c), call[c].request # CodeRequest,
         call' = [call EXCEPT ![c] = Answer(c, [call[c] EXCEPT !.pc = "unauthenticated"])]
  PROVE  \E row \in CallRow(session.generation) :
           /\ call' = [call EXCEPT ![c] = row] /\ RowGood(row, session.generation)
           /\ \/ row.pc = "idle" /\ row.request = NoRequest /\ ~row.awaited
              \/ /\ row.pc = "unauthenticated" /\ row.request = call[c].request
                 /\ row.token = call[c].token /\ row.awaited /\ call[c].awaited
<1>1. call[c] \in CallRow(session.generation) /\ RowGood(call[c], session.generation)
  BY Typed DEF CallsGood
<1>2. CASE ~call[c].awaited
  <2>1. call' = [call EXCEPT ![c] = Quiet]
    BY <1>2 DEF Answer
  <2> QED
    BY <2>1, Typed, QuietGood DEF Quiet
<1>3. CASE call[c].awaited
  <2>1. PICK row : row = [call[c] EXCEPT !.pc = "unauthenticated"]
                   /\ call' = [call EXCEPT ![c] = row]
    BY <1>3 DEF Answer
  <2>2. /\ row \in CallRow(session.generation) /\ row.pc = "unauthenticated"
        /\ row.request = call[c].request /\ row.token = call[c].token
        /\ row.awaited = call[c].awaited
    BY <1>1, <2>1 DEF CallRow
  <2>3. RowGood(row, session.generation)
    BY <1>1, <1>3, <2>2 DEF RowGood, UnderWay
  <2> QED
    BY <1>3, <2>1, <2>2, <2>3
<1> QED
  BY <1>2, <1>3

\* A handler the device no longer awaits.
LEMMA GivesUp ==
  ASSUME SessionInv, NEW c \in Calls, GiveUp(c)
  PROVE  \E row \in CallRow(session.generation) :
           /\ call' = [call EXCEPT ![c] = row] /\ RowGood(row, session.generation) /\ ~row.awaited
           /\ \/ row.pc = "idle" /\ row.request = NoRequest
              \/ /\ row.pc = call[c].pc /\ row.request = call[c].request
                 /\ row.token = call[c].token /\ row.since = call[c].since
                 /\ row.answer = call[c].answer
                 /\ row.pc \notin {"answered", "unauthenticated"}
<1>1. call[c] \in CallRow(session.generation) /\ RowGood(call[c], session.generation)
  BY Typed DEF CallsGood
<1>2. CASE call[c].pc \in {"answered", "unauthenticated"}
  <2>1. call' = [call EXCEPT ![c] = Quiet]
    BY <1>2 DEF GiveUp
  <2> QED
    BY <2>1, Typed, QuietGood DEF Quiet
<1>3. CASE call[c].pc \notin {"answered", "unauthenticated"}
  <2>1. PICK row : row = [call[c] EXCEPT !.awaited = FALSE] /\ call' = [call EXCEPT ![c] = row]
    BY <1>3 DEF GiveUp
  <2>2. /\ row \in CallRow(session.generation) /\ row.pc = call[c].pc
        /\ row.request = call[c].request /\ row.token = call[c].token
        /\ row.answer = call[c].answer /\ row.since = call[c].since /\ row.awaited = FALSE
    BY <1>1, <2>1 DEF CallRow
  <2>3. RowGood(row, session.generation)
    BY <1>1, <1>3, <2>2, Zenon DEF RowGood
  <2> QED
    BY <1>3, <2>1, <2>2, <2>3
<1> QED
  BY <1>2, <1>3

LEMMA GiveUpKeeps ==
  ASSUME SessionInv, NEW c \in Calls, GiveUp(c)
  PROVE  SessionInv'
<1>1. UNCHANGED <<session, access, code, receipt, store, crossed, overtaken, adrift, doubled>>
  BY DEF GiveUp, rows, history
<1>2. Flags'
  BY <1>1, FlagsTyped, Zenon DEF Flags
<1> QED
  BY <1>1, <1>2, GivesUp, HandlerStep

LEMMA DieKeeps ==
  ASSUME SessionInv, NEW c \in Calls, Die(c)
  PROVE  SessionInv'
<1>1. /\ UNCHANGED <<session, access, code, receipt, store, crossed, overtaken, adrift, doubled>>
      /\ call' = [call EXCEPT ![c] = Quiet]
  BY DEF Die, rows, history
<1>2. Flags'
  BY <1>1, FlagsTyped, Zenon DEF Flags
<1> QED
  BY <1>1, <1>2, Typed, QuietGood, HandlerStep, Zenon

\* What the device stores of an answer.
LEMMA Received ==
  ASSUME SessionInv, NEW c \in Calls, Receive(c)
  PROVE  /\ UnderWay(c) /\ call[c].request # CodeRequest /\ call[c].awaited
         /\ store' \in StoreRow(session.generation)
         /\ \/ store' = Forgotten /\ call[c].pc = "unauthenticated"
            \/ store' = store /\ store.token = 0
            \/ /\ store'.token = call[c].answer /\ store'.pending = NoRequest
               /\ call[c].pc = "answered" /\ store.token # 0
<1>1. /\ call[c].pc \in {"answered", "unauthenticated"} /\ UnderWay(c)
      /\ RowGood(call[c], session.generation)
  BY Typed DEF Receive, UnderWay, CallsGood
<1>2. call[c].request # CodeRequest /\ call[c].awaited
  BY <1>1, Zenon DEF RowGood
<1>3. CASE call[c].pc = "unauthenticated"
  BY <1>1, <1>2, <1>3, Typed, ForgottenTyped DEF Receive
<1>4. CASE call[c].pc = "answered"
  <2>1. call[c].answer \in 0..session.generation
    BY <1>1, <1>4, Typed DEF RowGood
  <2>2. CASE store.token = 0
    BY <1>1, <1>2, <1>4, <2>2, Typed DEF Receive
  <2>3. CASE store.token # 0
    <3>1. store' = [token |-> call[c].answer, pending |-> NoRequest]
      BY <1>4, <2>3 DEF Receive
    <3> QED
      BY <1>1, <1>2, <1>4, <2>1, <2>3, <3>1 DEF StoreRow
  <2> QED
    BY <2>2, <2>3
<1> QED
  BY <1>1, <1>3, <1>4

LEMMA ReceiveKeeps ==
  ASSUME SessionInv, NEW c \in Calls, Receive(c)
  PROVE  SessionInv'
<1>1. /\ UNCHANGED <<session, access, code, receipt, crossed, overtaken, adrift, doubled>>
      /\ call' = [call EXCEPT ![c] = Quiet]
  BY DEF Receive, rows, history
<1>3. Flags'
  BY <1>1, FlagsTyped, Zenon DEF Flags
<1>4. store' \in StoreRow(session.generation)
  BY Received
<1>5. session.generation \in Generations /\ session.generation <= session.generation
  BY Typed DEF SessionRow
<1>6. /\ call' \in [Calls -> CallRow(session.generation)]
      /\ \A d \in Calls : RowGood(call'[d], session.generation)
  BY <1>1, <1>5, Typed, QuietGood, CallStep
<1>7. CodeNamed'
  BY <1>1, Typed, Zenon DEF CodeNamed
<1> QED
  BY <1>1, <1>3, <1>4, <1>6, <1>7, Typed, LocalStep, Zenon

-----------------------------------------------------------------------------
(* Receipts.                                                               *)

\* One receipt changes.
LEMMA ReceiptUpdate ==
  ASSUME SessionInv, NEW r \in AllRequests, NEW row \in ReceiptRow,
         receipt' = [receipt EXCEPT ![r] = row],
         (r = CodeRequest /\ row.status = "completed") => row.outcome \in Codes
  PROVE  /\ receipt' \in [AllRequests -> ReceiptRow] /\ receipt'[r] = row
         /\ \A q \in AllRequests : q # r => receipt'[q] = receipt[q]
         /\ CodeNamed'
<1>1. receipt \in [AllRequests -> ReceiptRow] /\ CodeNamed /\ CodeRequest \in AllRequests
  BY Typed DEF AllRequests
<1>2. /\ receipt' \in [AllRequests -> ReceiptRow] /\ receipt'[r] = row
      /\ \A q \in AllRequests : q # r => receipt'[q] = receipt[q]
  BY <1>1
<1>3. CodeNamed'
  <2>1. CASE r = CodeRequest
    BY <1>2, <2>1 DEF CodeNamed
  <2>2. CASE r # CodeRequest
    BY <1>1, <1>2, <2>2 DEF CodeNamed
  <2> QED
    BY <2>1, <2>2
<1> QED
  BY <1>2, <1>3

\* What the statements write into a receipt.
LEMMA ReceiptRows ==
  ASSUME SessionInv, NEW r \in AllRequests
  PROVE  /\ receipt[r] \in ReceiptRow
         /\ \A p \in 0..MaxGeneration :
              /\ Claim(receipt[r], p) \in ReceiptRow /\ Claim(receipt[r], p).status = "claimed"
              /\ Claim(receipt[r], p).fingerprint = p
         /\ \A o \in 0..(MaxCodes + 1) :
              /\ Complete(receipt[r], o) \in ReceiptRow
              /\ Complete(receipt[r], o).status = "completed"
              /\ Complete(receipt[r], o).outcome = o
              /\ Complete(receipt[r], o).fingerprint = receipt[r].fingerprint
         /\ Expire(receipt[r]) \in ReceiptRow
         /\ Expire(receipt[r]).status = receipt[r].status
         /\ Expire(receipt[r]).outcome = receipt[r].outcome
         /\ Expire(receipt[r]).fingerprint = receipt[r].fingerprint
<1>1. receipt[r] \in ReceiptRow
  BY Typed
<1> QED
  BY <1>1 DEF ReceiptRow, ReceiptOf, Claim, Complete, Expire

\* The request and the token of a call under way.
LEMMA CallUnderWay ==
  ASSUME SessionInv, NEW c \in Calls, UnderWay(c)
  PROVE  /\ call[c] \in CallRow(session.generation) /\ call[c].request \in AllRequests
         /\ call[c].token \in 1..session.generation /\ call[c].token \in 0..MaxGeneration
         /\ RowGood(call[c], session.generation)
<1>1. call[c] \in CallRow(session.generation) /\ RowGood(call[c], session.generation)
  BY Typed DEF CallsGood
<1>2. /\ call[c].request \in Requests \cup {NoRequest, CodeRequest} /\ call[c].request # NoRequest
      /\ call[c].token \in 0..session.generation /\ call[c].token > 0
  BY <1>1 DEF CallRow, RowGood, UnderWay
<1> QED
  BY <1>1, <1>2, Typed, Constants DEF AllRequests

\* A handler that has claimed its receipt.
LEMMA Claims ==
  ASSUME SessionInv, NEW c \in Calls, ClaimReceipt(c), ~ClaimRefused(receipt[call[c].request])
  PROVE  \E row \in CallRow(session.generation) :
           /\ call' = [call EXCEPT ![c] = row] /\ RowGood(row, session.generation)
           /\ row.pc = "claimed" /\ row.request = call[c].request
           /\ row.token = call[c].token /\ row.awaited = call[c].awaited
<1>1. UnderWay(c)
  BY DEF ClaimReceipt, UnderWay
<1> DEFINE g == session.generation
<1>2. PICK row : row = [call[c] EXCEPT !.pc = "claimed", !.since = g]
                 /\ call' = [call EXCEPT ![c] = row]
  BY DEF ClaimReceipt
<1>3. call[c] \in CallRow(g) /\ RowGood(call[c], g) /\ call[c].token \in 1..g /\ g \in Nat
  BY <1>1, CallUnderWay, Typed
<1> HIDE DEF g
<1>4. /\ row \in CallRow(g) /\ row.pc = "claimed" /\ row.request = call[c].request
      /\ row.token = call[c].token /\ row.awaited = call[c].awaited /\ row.since = g
  <2>1. g \in 0..g
    BY <1>3
  <2>2. PICK mid : mid = [call[c] EXCEPT !.pc = "claimed"]
    OBVIOUS
  <2>3. /\ mid \in CallRow(g) /\ mid.pc = "claimed" /\ mid.request = call[c].request
        /\ mid.token = call[c].token /\ mid.awaited = call[c].awaited
    BY <1>3, <2>2 DEF CallRow
  <2>4. row = [mid EXCEPT !.since = g]
    BY <1>2, <2>2
  <2> QED
    BY <2>1, <2>3, <2>4 DEF CallRow
<1>5. RowGood(row, g)
  BY <1>1, <1>3, <1>4 DEF RowGood, UnderWay
<1> QED
  BY <1>2, <1>4, <1>5 DEF g

LEMMA ClaimKeeps ==
  ASSUME SessionInv, NEW c \in Calls, ClaimReceipt(c)
  PROVE  SessionInv'
<1>0. UNCHANGED <<session, access, code, store, crossed, overtaken, adrift, doubled>> /\ UnderWay(c)
  BY DEF ClaimReceipt, rows, history, UnderWay
<1>f. Flags'
  BY <1>0, FlagsTyped, Zenon DEF Flags
<1>1. CASE ClaimRefused(receipt[call[c].request])
  <2>1. UNCHANGED receipt /\ call' = Refused(c)
    BY <1>1 DEF ClaimReceipt, Refused
  <2>2. PICK row \in CallRow(session.generation) :
          call' = [call EXCEPT ![c] = row] /\ RowGood(row, session.generation)
    BY <1>0, <2>1, Refuses, Zenon
  <2> QED
    BY <1>0, <1>f, <2>1, <2>2, HandlerStep, Zenon
<1>2. CASE ~ClaimRefused(receipt[call[c].request])
  <2>1. PICK r \in AllRequests : r = call[c].request
    BY <1>0, CallUnderWay
  <2>2. receipt' = [receipt EXCEPT ![r] = Claim(receipt[r], call[c].token)]
    BY <1>2, <2>1 DEF ClaimReceipt
  <2>3. receipt' \in [AllRequests -> ReceiptRow] /\ CodeNamed'
    <3>1. /\ Claim(receipt[r], call[c].token) \in ReceiptRow
          /\ Claim(receipt[r], call[c].token).status # "completed"
      BY <1>0, CallUnderWay, ReceiptRows
    <3> QED
      BY <2>2, <3>1, ReceiptUpdate
  <2>4. session.generation \in Generations /\ session.generation <= session.generation
    BY Typed DEF SessionRow
  <2>5. /\ call' \in [Calls -> CallRow(session.generation)]
        /\ \A d \in Calls : RowGood(call'[d], session.generation)
    BY <1>2, <2>4, Claims, CallStep
  <2> QED
    BY <1>0, <1>f, <2>3, <2>5, Typed, LocalStep, Zenon
<1> QED
  BY <1>1, <1>2

\* A handler whose request is recorded.
LEMMA Resolves ==
  ASSUME SessionInv, NEW c \in Calls, ResolveRefused(c),
         Resolve(receipt[call[c].request], call[c].token) = "recorded"
  PROVE  \E row \in CallRow(session.generation) :
           /\ call' = [call EXCEPT ![c] = row] /\ RowGood(row, session.generation)
           /\ row.pc = "replay" /\ row.request = call[c].request
           /\ row.token = call[c].token /\ row.awaited = call[c].awaited
           /\ row.since = session.generation
           /\ row.request = CodeRequest => row.answer = receipt[CodeRequest].outcome
<1>1. UnderWay(c)
  BY DEF ResolveRefused, UnderWay
<1>2. PICK r \in AllRequests : r = call[c].request
  BY <1>1, CallUnderWay
<1> DEFINE g == session.generation
<1>3. PICK answer : /\ answer = (IF r = CodeRequest THEN receipt[r].outcome ELSE 0)
                    /\ call' = [call EXCEPT ![c] = [call[c] EXCEPT !.pc = "replay", !.since = g,
                                                                   !.answer = answer]]
  BY <1>2 DEF ResolveRefused
<1>4. PICK row : /\ row = [call[c] EXCEPT !.pc = "replay", !.since = g, !.answer = answer]
                 /\ call' = [call EXCEPT ![c] = row]
  BY <1>3
<1>5. receipt[r].status = "completed"
  BY <1>2 DEF Resolve
<1>6. r = CodeRequest => answer \in Codes
  BY <1>3, <1>5, Typed DEF CodeNamed
<1>7. answer \in 0..(MaxGeneration + MaxCodes)
  BY <1>3, <1>6, Constants DEF Codes
<1>8. call[c] \in CallRow(g) /\ RowGood(call[c], g) /\ g \in Nat
  BY <1>1, CallUnderWay, Typed
<1> HIDE DEF g
<1>9. /\ row \in CallRow(g) /\ row.pc = "replay" /\ row.answer = answer /\ row.since = g
      /\ row.request = call[c].request /\ row.token = call[c].token
      /\ row.awaited = call[c].awaited
  <2>1. PICK first : first = [call[c] EXCEPT !.pc = "replay"]
    OBVIOUS
  <2>2. /\ first \in CallRow(g) /\ first.pc = "replay" /\ first.request = call[c].request
        /\ first.token = call[c].token /\ first.awaited = call[c].awaited
    BY <1>8, <2>1 DEF CallRow
  <2>3. PICK mid : mid = [first EXCEPT !.since = g]
    OBVIOUS
  <2>4. /\ mid \in CallRow(g) /\ mid.pc = "replay" /\ mid.since = g
        /\ mid.request = call[c].request /\ mid.token = call[c].token
        /\ mid.awaited = call[c].awaited
    <3>1. g \in 0..g
      BY <1>8
    <3> QED
      BY <2>2, <2>3, <3>1 DEF CallRow
  <2>5. row = [mid EXCEPT !.answer = answer]
    BY <1>4, <2>1, <2>3
  <2> QED
    BY <1>7, <2>4, <2>5 DEF CallRow
<1>10. RowGood(row, g)
  BY <1>1, <1>2, <1>6, <1>8, <1>9 DEF RowGood, UnderWay
<1> QED
  BY <1>2, <1>3, <1>4, <1>9, <1>10 DEF g

\* A handler whose request is not.
LEMMA ResolvesNot ==
  ASSUME SessionInv, NEW c \in Calls, ResolveRefused(c),
         Resolve(receipt[call[c].request], call[c].token) # "recorded"
  PROVE  \/ call' = [call EXCEPT ![c] = Quiet]
         \/ /\ Resolve(receipt[call[c].request], call[c].token) = "failed"
            /\ call[c].request # CodeRequest
            /\ call' = [call EXCEPT ![c] = Answer(c, [call[c] EXCEPT !.pc = "unauthenticated"])]
BY DEF ResolveRefused

LEMMA ResolveKeeps ==
  ASSUME SessionInv, NEW c \in Calls, ResolveRefused(c)
  PROVE  SessionInv'
<1>1. /\ UNCHANGED <<session, access, code, receipt, store, crossed, overtaken, adrift>>
      /\ UnderWay(c)
  BY DEF ResolveRefused, rows, UnderWay
<1>2. Flags'
  <2>1. doubled' \in BOOLEAN
    BY FlagsTyped, Zenon DEF ResolveRefused, Flags
  <2> QED
    BY <1>1, <2>1, FlagsTyped, Zenon DEF Flags
<1>3. CASE Resolve(receipt[call[c].request], call[c].token) = "recorded"
  BY <1>1, <1>2, <1>3, Resolves, HandlerStep
<1>4. CASE call' = [call EXCEPT ![c] = Quiet]
  BY <1>1, <1>2, <1>4, Typed, QuietGood, HandlerStep
<1>5. CASE /\ call[c].request # CodeRequest
           /\ call' = [call EXCEPT ![c] = Answer(c, [call[c] EXCEPT !.pc = "unauthenticated"])]
  BY <1>1, <1>2, <1>5, TurnsAway, HandlerStep
<1> QED
  BY <1>3, <1>4, <1>5, ResolvesNot

LEMMA ExpireReceiptKeeps ==
  ASSUME SessionInv, NEW r \in AllRequests, ExpireReceipt(r)
  PROVE  SessionInv'
<1>1. /\ UNCHANGED <<session, access, code, store, call, crossed, overtaken, doubled>>
      /\ receipt' = [receipt EXCEPT ![r] = Expire(receipt[r])]
  BY DEF ExpireReceipt, rows
<1>2. Flags'
  <2>1. adrift' \in BOOLEAN
    BY FlagsTyped, Zenon DEF ExpireReceipt, Flags
  <2> QED
    BY <1>1, <2>1, FlagsTyped, Zenon DEF Flags
<1>3. /\ Expire(receipt[r]) \in ReceiptRow
      /\ (r = CodeRequest /\ Expire(receipt[r]).status = "completed") =>
           Expire(receipt[r]).outcome \in Codes
  BY Typed, ReceiptRows DEF CodeNamed
<1>4. receipt' \in [AllRequests -> ReceiptRow] /\ CodeNamed'
  BY <1>1, <1>3, ReceiptUpdate
<1> QED
  BY <1>1, <1>2, <1>4, Typed, CallsStay, LocalStep, Zenon

-----------------------------------------------------------------------------
(* Rotation and revocation.                                                *)

\* A rotation of a live session: one generation more.
LEMMA RotationMoves ==
  ASSUME SessionInv, Live, Room, NEW n \in Nat, Rotated(n)
  PROVE  /\ session' \in SessionRow /\ session'.generation = session.generation + 1
         /\ session'.status = "live" /\ session.generation + 1 \in Generations
         /\ access' \subseteq Generations
         /\ access' = (access \ 1..n) \cup {session.generation + 1}
<1> DEFINE g == session.generation + 1
<1>1. g \in Generations
  BY Typed, Constants DEF Generations, Room
<1>2. session' = [session EXCEPT !.generation = g] /\ access' = (access \ 1..n) \cup {g}
  BY DEF Rotated
<1> HIDE DEF g
<1>3. session' \in SessionRow /\ session'.generation = g /\ session'.status = "live"
  BY <1>1, <1>2, Typed DEF SessionRow, Live
<1> QED
  BY <1>1, <1>2, <1>3, Typed DEF g

\* The handler that rotated has its answer, or is done.
LEMMA AnswerGood ==
  ASSUME SessionInv, NEW c \in Calls, UnderWay(c), call[c].request # CodeRequest,
         session.generation + 1 \in Generations, call' = Answered(c)
  PROVE  /\ call' \in [Calls -> CallRow(session.generation + 1)]
         /\ \A d \in Calls : RowGood(call'[d], session.generation + 1)
         /\ \A d \in Calls : d # c => call'[d] = call[d]
         /\ \/ ~call[c].awaited /\ call'[c] = Quiet
            \/ /\ call[c].awaited /\ call'[c].awaited /\ call'[c].pc = "answered"
               /\ call'[c].answer = session.generation + 1
               /\ call'[c].request = call[c].request /\ call'[c].token = call[c].token
<1> DEFINE g == session.generation + 1
<1>1. /\ g \in Generations /\ session.generation <= g /\ g \in 1..g /\ g \in Nat
      /\ g \in 0..(MaxGeneration + MaxCodes) /\ 0..session.generation \subseteq 0..g
  BY Typed, Constants DEF Generations
<1>2. CASE ~call[c].awaited
  <2>1. call' = [call EXCEPT ![c] = Quiet]
    BY <1>2 DEF Answered, Answer
  <2> HIDE DEF g
  <2>2. /\ call' \in [Calls -> CallRow(g)] /\ call'[c] = Quiet
        /\ \A d \in Calls : d # c => call'[d] = call[d]
        /\ \A d \in Calls : RowGood(call'[d], g)
    BY <1>1, <2>1, QuietGood, CallStep
  <2> QED
    BY <1>2, <2>2 DEF g
<1>3. CASE call[c].awaited
  <2>1. PICK row : /\ row = [call[c] EXCEPT !.pc = "answered", !.answer = g]
                   /\ call' = [call EXCEPT ![c] = row]
    BY <1>3 DEF Answered, Answer
  <2>2. PICK mid : mid = [call[c] EXCEPT !.pc = "answered"]
    OBVIOUS
  <2> HIDE DEF g
  <2>3. row = [mid EXCEPT !.answer = g]
    BY <2>1, <2>2
  <2>4. /\ mid \in CallRow(g) /\ mid.pc = "answered" /\ mid.request = call[c].request
        /\ mid.token = call[c].token /\ mid.awaited = call[c].awaited
    BY <1>1, <2>2, CallUnderWay DEF CallRow
  <2>5. /\ row \in CallRow(g) /\ row.pc = "answered" /\ row.answer = g
        /\ row.request = call[c].request /\ row.token = call[c].token
        /\ row.awaited = call[c].awaited
    BY <1>1, <2>3, <2>4 DEF CallRow
  <2>6. RowGood(row, g)
    BY <1>1, <1>3, <2>5, CallUnderWay DEF RowGood, UnderWay
  <2>7. call' = [call EXCEPT ![c] = row]
    BY <2>1
  <2>8. /\ call' \in [Calls -> CallRow(g)] /\ call'[c] = row
        /\ \A d \in Calls : d # c => call'[d] = call[d]
        /\ \A d \in Calls : RowGood(call'[d], g)
    BY <1>1, <2>5, <2>6, <2>7, CallStep
  <2> QED
    BY <1>3, <2>5, <2>8 DEF g
<1> QED
  BY <1>2, <1>3

LEMMA NotedTyped ==
  ASSUME SessionInv, NEW c \in Calls, Noted(c)
  PROVE  Flags'
BY FlagsTyped, Zenon DEF Noted, Flags

\* A snapshot is one of a generation.
LEMMA SnapshotNat ==
  ASSUME SessionInv, NEW c \in Calls, NEW n \in Snapshots(c)
  PROVE  n \in Nat /\ n <= session.generation /\ call[c].since <= n /\ call[c].since \in Nat
<1>1. call[c].since \in 0..session.generation
  BY Typed DEF CallRow
<1> QED
  BY <1>1, Typed DEF Snapshots

\* A rotation with its answer, whatever it records.
LEMMA RotationKeeps ==
  ASSUME SessionInv, NEW c \in Calls, UnderWay(c), call[c].request # CodeRequest,
         Live, Room, NEW n \in Nat, Rotated(n), Noted(c), call' = Answered(c),
         receipt' \in [AllRequests -> ReceiptRow], CodeNamed',
         UNCHANGED <<code, store>>
  PROVE  SessionInv'
<1>1. /\ session' \in SessionRow /\ session'.generation = session.generation + 1
      /\ session.generation + 1 \in Generations
      /\ access' \subseteq Generations
  BY RotationMoves
<1>2. /\ call' \in [Calls -> CallRow(session'.generation)]
      /\ \A d \in Calls : RowGood(call'[d], session'.generation)
  BY <1>1, AnswerGood
<1>3. store' \in StoreRow(session'.generation)
  <2>1. 0..session.generation \subseteq 0..session'.generation
    BY <1>1, Typed
  <2> QED
    BY <2>1, Typed DEF StoreRow
<1>4. Flags'
  BY NotedTyped
<1> QED
  BY <1>1, <1>2, <1>3, <1>4, Typed, PartsMake, Zenon

\* The session's status changes and tokens may go; no generation comes.
LEMMA EndingKeeps ==
  ASSUME SessionInv, NEW status \in {"expired", "replayed", "revoked"},
         session' = [session EXCEPT !.status = status], access' \subseteq access,
         code' \in [Codes -> CodeRow],
         UNCHANGED <<receipt, store, crossed, overtaken, adrift, doubled>>,
         call' \in [Calls -> CallRow(session.generation)],
         \A d \in Calls : RowGood(call'[d], session.generation)
  PROVE  SessionInv'
<1>1. session' \in SessionRow /\ session'.generation = session.generation
  BY Typed DEF SessionRow
<1>2. access' \subseteq Generations
  BY Typed
<1>3. CodeNamed'
  BY Typed, Zenon DEF CodeNamed
<1>4. Flags'
  BY FlagsTyped, Zenon DEF Flags
<1> QED
  BY <1>1, <1>2, <1>3, <1>4, Typed, PartsMake, Zenon

\* What the statement of a refresh may come to.
LEMMA RefreshOutcome ==
  ASSUME SessionInv, NEW c \in Calls, RefreshDeviceSession(c)
  PROVE  /\ UNCHANGED <<code, store>> /\ UnderWay(c) /\ call[c].pc = "claimed"
         /\ call[c].request # CodeRequest
         /\ \E n \in Snapshots(c) :
              \/ /\ GateOpen(receipt[call[c].request]) /\ call[c].token = session.generation
                 /\ Live /\ Room /\ Rotated(n) /\ Noted(c) /\ call' = Answered(c)
                 /\ receipt' = [receipt EXCEPT ![call[c].request] =
                                  Complete(receipt[call[c].request], 1)]
              \/ /\ GateOpen(receipt[call[c].request])
                 /\ ~(call[c].token = session.generation /\ Live)
                 /\ LooksStolen(call[c].token, n) /\ ReplayRevoked(n) /\ call' = Refused(c)
                 /\ UNCHANGED <<receipt, crossed, overtaken, adrift, doubled>>
              \/ /\ \/ ~GateOpen(receipt[call[c].request])
                    \/ ~(call[c].token = session.generation /\ Live)
                       /\ ~LooksStolen(call[c].token, n)
                 /\ call' = Refused(c)
                 /\ UNCHANGED <<session, access, receipt, crossed, overtaken, adrift, doubled>>
<1>1. /\ UNCHANGED <<code, store>> /\ UnderWay(c) /\ call[c].pc = "claimed"
      /\ call[c].request # CodeRequest
  BY DEF RefreshDeviceSession, UnderWay
<1> QED
  BY <1>1, Zenon DEF RefreshDeviceSession, rows, history

\* A handler that is refused moves alone.
LEMMA RefusedMoves ==
  ASSUME SessionInv, NEW c \in Calls, UnderWay(c), call' = Refused(c)
  PROVE  /\ call' \in [Calls -> CallRow(session.generation)]
         /\ \A d \in Calls : RowGood(call'[d], session.generation)
         /\ \A d \in Calls : d # c => call'[d] = call[d]
         /\ call'[c].pc = "refused" /\ call'[c].request = call[c].request
         /\ call'[c].token = call[c].token /\ call'[c].awaited = call[c].awaited
<1>1. PICK row \in CallRow(session.generation) :
           /\ call' = [call EXCEPT ![c] = row] /\ RowGood(row, session.generation)
           /\ row.pc = "refused" /\ row.request = call[c].request
           /\ row.token = call[c].token /\ row.awaited = call[c].awaited
  BY Refuses, Zenon
<1>2. session.generation \in Generations /\ session.generation <= session.generation
  BY Typed DEF SessionRow
<1>3. /\ call' \in [Calls -> CallRow(session.generation)] /\ call'[c] = row
      /\ \A d \in Calls : d # c => call'[d] = call[d]
      /\ \A d \in Calls : RowGood(call'[d], session.generation)
  BY <1>1, <1>2, CallStep
<1> QED
  BY <1>1, <1>3

LEMMA RefreshKeeps ==
  ASSUME SessionInv, NEW c \in Calls, RefreshDeviceSession(c)
  PROVE  SessionInv'
<1>1. /\ UNCHANGED <<code, store>> /\ UnderWay(c)
      /\ call[c].pc = "claimed" /\ call[c].request # CodeRequest
  BY RefreshOutcome, Zenon
<1>2. PICK r \in AllRequests : r = call[c].request
  BY <1>1, CallUnderWay
<1>3. ASSUME NEW n \in Snapshots(c), Live, Room, Rotated(n), Noted(c), call' = Answered(c),
             receipt' = [receipt EXCEPT ![r] = Complete(receipt[r], 1)]
      PROVE  SessionInv'
  <2>1. Complete(receipt[r], 1) \in ReceiptRow
    BY ReceiptRows, Constants
  <2>2. receipt' \in [AllRequests -> ReceiptRow] /\ CodeNamed'
    BY <1>1, <1>2, <1>3, <2>1, ReceiptUpdate
  <2> QED
    BY <1>1, <1>3, <2>2, SnapshotNat, RotationKeeps, Zenon
<1>4. ASSUME NEW n \in Snapshots(c), ReplayRevoked(n), call' = Refused(c),
             UNCHANGED <<receipt, crossed, overtaken, adrift, doubled>>
      PROVE  SessionInv'
  <2>1. /\ call' \in [Calls -> CallRow(session.generation)]
        /\ \A d \in Calls : RowGood(call'[d], session.generation)
    BY <1>1, <1>4, RefusedMoves
  <2>2. PICK status \in {"expired", "replayed", "revoked"} :
          session' = [session EXCEPT !.status = status]
    BY <1>4 DEF ReplayRevoked
  <2>3. access' \subseteq access
    BY <1>4 DEF ReplayRevoked
  <2> QED
    BY <1>1, <1>4, <2>1, <2>2, <2>3, Typed, EndingKeeps
<1>5. ASSUME call' = Refused(c),
             UNCHANGED <<session, access, receipt, crossed, overtaken, adrift, doubled>>
      PROVE  SessionInv'
  <2>1. /\ call' \in [Calls -> CallRow(session.generation)]
        /\ \A d \in Calls : RowGood(call'[d], session.generation)
    BY <1>1, <1>5, RefusedMoves
  <2>2. CodeNamed'
    BY <1>5, Typed, Zenon DEF CodeNamed
  <2>3. Flags'
    BY <1>5, FlagsTyped, Zenon DEF Flags
  <2> QED
    BY <1>1, <1>5, <2>1, <2>2, <2>3, Typed, LocalStep, Zenon
<1> QED
  BY <1>2, <1>3, <1>4, <1>5, RefreshOutcome, Zenon

\* What issuing credentials again may come to.
LEMMA ReissueOutcome ==
  ASSUME SessionInv, NEW c \in Calls, ReissueSessionCredentials(c)
  PROVE  /\ UNCHANGED <<code, receipt, store>> /\ UnderWay(c) /\ call[c].pc = "replay"
         /\ call[c].request # CodeRequest
         /\ \/ /\ Live /\ Room /\ Noted(c) /\ call' = Answered(c)
               /\ \E n \in Snapshots(c) : Rotated(n)
            \/ /\ ~Live /\ UNCHANGED <<session, access, crossed, overtaken, adrift, doubled>>
               /\ call' = [call EXCEPT ![c] =
                             Answer(c, [call[c] EXCEPT !.pc = "unauthenticated"])]
<1>1. /\ UNCHANGED <<code, receipt, store>> /\ UnderWay(c) /\ call[c].pc = "replay"
      /\ call[c].request # CodeRequest
  BY DEF ReissueSessionCredentials, UnderWay
<1> QED
  BY <1>1 DEF ReissueSessionCredentials, Reissuable, rows, history

LEMMA ReissueKeeps ==
  ASSUME SessionInv, NEW c \in Calls, ReissueSessionCredentials(c)
  PROVE  SessionInv'
<1>1. UNCHANGED <<code, receipt, store>> /\ UnderWay(c) /\ call[c].request # CodeRequest
  BY ReissueOutcome, Zenon
<1>2. ASSUME NEW n \in Snapshots(c), Live, Room, Rotated(n), Noted(c), call' = Answered(c)
      PROVE  SessionInv'
  <2>1. receipt' \in [AllRequests -> ReceiptRow]
    BY <1>1, Typed, Zenon
  <2>2. CodeNamed'
    BY <1>1, Typed, Zenon DEF CodeNamed
  <2> QED
    BY <1>1, <1>2, <2>1, <2>2, SnapshotNat, RotationKeeps, Zenon
<1>3. ASSUME UNCHANGED <<session, access, crossed, overtaken, adrift, doubled>>,
             call' = [call EXCEPT ![c] = Answer(c, [call[c] EXCEPT !.pc = "unauthenticated"])]
      PROVE  SessionInv'
  <2>1. PICK row \in CallRow(session.generation) :
          call' = [call EXCEPT ![c] = row] /\ RowGood(row, session.generation)
    BY <1>1, <1>3, TurnsAway
  <2>2. Flags'
    BY <1>3, FlagsTyped, Zenon DEF Flags
  <2> QED
    BY <1>1, <1>3, <2>1, <2>2, HandlerStep
<1> QED
  BY <1>2, <1>3, ReissueOutcome, Zenon

\* What a revocation leaves.
LEMMA Revoked ==
  ASSUME SessionInv, RevokeDevice
  PROVE  /\ session' = [session EXCEPT !.status = "revoked"] /\ access' \subseteq access
         /\ code' \in [Codes -> CodeRow]
         /\ \A k \in Codes : /\ code'[k].status = code[k].status \/ code'[k].status = "revoked"
                             /\ code[k].status = "none" => code'[k].status = "none"
                             /\ code[k].status # "none" => code'[k].status # "none"
         /\ UNCHANGED <<receipt, store, call, crossed, overtaken, adrift, doubled>>
<1>1. PICK j \in 0..MaxCodes :
        code' = [k \in Codes |-> IF k <= j /\ code[k].status = "live"
                                 THEN [code[k] EXCEPT !.status = "revoked"] ELSE code[k]]
  BY DEF RevokeDevice
<1>2. \A k \in Codes : /\ [code[k] EXCEPT !.status = "revoked"] \in CodeRow /\ code[k] \in CodeRow
                       /\ [code[k] EXCEPT !.status = "revoked"].status = "revoked"
  BY Typed DEF CodeRow
<1>3. code' \in [Codes -> CodeRow]
  BY <1>1, <1>2
<1>4. \A k \in Codes :
        \/ code'[k] = [code[k] EXCEPT !.status = "revoked"] /\ code[k].status = "live"
        \/ code'[k] = code[k]
  BY <1>1
<1>5. \A k \in Codes : /\ code'[k].status = code[k].status \/ code'[k].status = "revoked"
                       /\ code[k].status = "none" => code'[k].status = "none"
                       /\ code[k].status # "none" => code'[k].status # "none"
  BY <1>2, <1>4
<1> QED
  BY <1>3, <1>5 DEF RevokeDevice, history

LEMMA RevokeKeeps ==
  ASSUME SessionInv, RevokeDevice
  PROVE  SessionInv'
<1>1. /\ session' = [session EXCEPT !.status = "revoked"] /\ access' \subseteq access
      /\ code' \in [Codes -> CodeRow]
      /\ UNCHANGED <<receipt, store, call, crossed, overtaken, adrift, doubled>>
  BY Revoked, Zenon
<1> QED
  BY <1>1, CallsStay, EndingKeeps

LEMMA ExpireSessionKeeps ==
  ASSUME SessionInv, ExpireSession
  PROVE  SessionInv'
BY Typed, CallsStay, EndingKeeps DEF ExpireSession, history

-----------------------------------------------------------------------------
(* Codes.                                                                  *)

LEMMA CreateKeeps ==
  ASSUME SessionInv, NEW c \in Calls, CreatePairingCode(c)
  PROVE  SessionInv'
<1>1. /\ UNCHANGED <<session, access, store, crossed, overtaken, adrift, doubled>> /\ UnderWay(c)
      /\ CodeRequest \in AllRequests
  BY DEF CreatePairingCode, rows, history, UnderWay, AllRequests
<1>f. Flags'
  BY <1>1, FlagsTyped, Zenon DEF Flags
<1>2. CASE call' = Refused(c) /\ UNCHANGED <<code, receipt>>
  <2>1. /\ call' \in [Calls -> CallRow(session.generation)]
        /\ \A d \in Calls : RowGood(call'[d], session.generation)
    BY <1>1, <1>2, RefusedMoves
  <2>2. CodeNamed'
    BY <1>2, Typed, Zenon DEF CodeNamed
  <2> QED
    BY <1>1, <1>f, <1>2, <2>1, <2>2, Typed, LocalStep, Zenon
<1>3. ASSUME NEW k \in Codes, call' = [call EXCEPT ![c] = Quiet],
             code' = [code EXCEPT ![k] = [status |-> "live", token |-> call[c].token]],
             receipt' = [receipt EXCEPT ![CodeRequest] = Complete(receipt[CodeRequest], k)]
      PROVE  SessionInv'
  <2>1. [status |-> "live", token |-> call[c].token] \in CodeRow
    BY <1>1, CallUnderWay DEF CodeRow
  <2>2. code' \in [Codes -> CodeRow]
    BY <1>3, <2>1, Typed
  <2>3. k \in 0..(MaxCodes + 1)
    BY Constants DEF Codes
  <2>4. receipt' \in [AllRequests -> ReceiptRow] /\ CodeNamed'
    BY <1>1, <1>3, <2>3, ReceiptRows, ReceiptUpdate
  <2>5. session.generation \in Generations /\ session.generation <= session.generation
    BY Typed DEF SessionRow
  <2>6. /\ call' \in [Calls -> CallRow(session.generation)]
        /\ \A d \in Calls : RowGood(call'[d], session.generation)
    BY <1>3, <2>5, Typed, QuietGood, CallStep
  <2> QED
    BY <1>1, <1>f, <2>2, <2>4, <2>6, Typed, LocalStep, Zenon
<1> QED
  BY <1>2, <1>3 DEF CreatePairingCode

\* The code rows after a replacement.
LEMMA Replaced ==
  ASSUME SessionInv, NEW k \in Codes, NEW j \in Codes,
         code' = [RetiredCode(k) EXCEPT ![j] = [status |-> "live", token |-> code[k].token]]
  PROVE  /\ code' \in [Codes -> CodeRow] /\ code'[j].status = "live"
         /\ (k # j => code'[k].status = "revoked")
         /\ \A i \in Codes : (i # j /\ i # k) => code'[i] = code[i]
<1>1. PICK row : row = [status |-> "live", token |-> code[k].token]
                 /\ code' = [RetiredCode(k) EXCEPT ![j] = row]
  OBVIOUS
<1>2. row \in CodeRow /\ row.status = "live"
  BY <1>1, Typed DEF CodeRow
<1>3. PICK old : old = [code[k] EXCEPT !.status = "revoked"]
                 /\ RetiredCode(k) = [code EXCEPT ![k] = old]
  BY DEF RetiredCode
<1>4. old \in CodeRow /\ old.status = "revoked"
  BY <1>3, Typed DEF CodeRow
<1>5. code' = [[code EXCEPT ![k] = old] EXCEPT ![j] = row]
  BY <1>1, <1>3
<1>6. code \in [Codes -> CodeRow]
  BY Typed
<1> QED
  BY <1>2, <1>4, <1>5, <1>6

LEMMA ReplaceKeeps ==
  ASSUME SessionInv, NEW c \in Calls, ReplacePairingCode(c)
  PROVE  SessionInv'
<1>1. /\ UNCHANGED <<session, access, store, crossed, overtaken, adrift, doubled>>
      /\ UnderWay(c) /\ CodeRequest \in AllRequests
      /\ call' = [call EXCEPT ![c] = Quiet]
  BY DEF ReplacePairingCode, rows, history, UnderWay, AllRequests
<1>f. Flags'
  BY <1>1, FlagsTyped, Zenon DEF Flags
<1>2. PICK k \in Codes : k = call[c].answer
  BY <1>1, CallUnderWay DEF ReplacePairingCode, RowGood
<1>3. session.generation \in Generations /\ session.generation <= session.generation
  BY Typed DEF SessionRow
<1>4. /\ call' \in [Calls -> CallRow(session.generation)]
      /\ \A d \in Calls : RowGood(call'[d], session.generation)
  BY <1>1, <1>3, Typed, QuietGood, CallStep
<1>5. CASE UNCHANGED <<code, receipt>>
  <2>1. CodeNamed'
    BY <1>5, Typed, Zenon DEF CodeNamed
  <2> QED
    BY <1>1, <1>f, <1>4, <1>5, <2>1, Typed, LocalStep, Zenon
<1>6. ASSUME NEW j \in Codes, receipt' = [receipt EXCEPT ![CodeRequest].outcome = j],
             code' = [RetiredCode(k) EXCEPT ![j] = [status |-> "live", token |-> code[k].token]]
      PROVE  SessionInv'
  <2>1. PICK row : row = [receipt[CodeRequest] EXCEPT !.outcome = j]
                   /\ receipt' = [receipt EXCEPT ![CodeRequest] = row]
    BY <1>6
  <2>2. j \in 0..(MaxCodes + 1)
    BY Constants DEF Codes
  <2>3. row \in ReceiptRow /\ row.outcome = j
    BY <1>1, <2>1, <2>2, ReceiptRows DEF ReceiptRow, ReceiptOf
  <2>4. receipt' \in [AllRequests -> ReceiptRow] /\ CodeNamed'
    <3>1. receipt' = [receipt EXCEPT ![CodeRequest] = row]
      BY <2>1
    <3> QED
      BY <1>1, <2>3, <3>1, ReceiptUpdate
  <2>5. code' \in [Codes -> CodeRow]
    BY <1>6, Replaced
  <2> QED
    BY <1>1, <1>f, <1>4, <2>4, <2>5, Typed, LocalStep, Zenon
<1> QED
  BY <1>2, <1>5, <1>6 DEF ReplacePairingCode

LEMMA PairKeeps ==
  ASSUME SessionInv, NEW k \in Codes, PairDevice(k)
  PROVE  SessionInv'
<1>1. /\ UNCHANGED <<session, access, receipt, store, call, crossed, overtaken, adrift, doubled>>
      /\ code' = [code EXCEPT ![k].status = "consumed"]
  BY DEF PairDevice, rows, history
<1>2. code' \in [Codes -> CodeRow]
  BY <1>1, Typed DEF CodeRow
<1>3. CodeNamed'
  BY <1>1, Typed, Zenon DEF CodeNamed
<1>4. Flags'
  BY <1>1, FlagsTyped, Zenon DEF Flags
<1> QED
  BY <1>1, <1>2, <1>3, <1>4, Typed, CallsStay, LocalStep, Zenon

-----------------------------------------------------------------------------
LEMMA InitKeeps == Init => SessionInv
<1> SUFFICES ASSUME Init PROVE SessionInv
  OBVIOUS
<1>1. session \in SessionRow /\ session.generation = 1 /\ session.status = "live"
  BY Constants DEF Init, SessionRow, Generations
<1>2. access \subseteq Generations /\ access = {1}
  BY Constants DEF Init, Generations
<1>3. code \in [Codes -> CodeRow]
  BY Constants DEF Init, CodeRow
<1>4. receipt \in [AllRequests -> ReceiptRow] /\ receipt[CodeRequest].status = "absent"
  <2>1. Absent(0) \in ReceiptRow /\ Absent(0).status = "absent"
    BY Constants DEF Absent, ReceiptRow, ReceiptOf
  <2> QED
    BY <2>1 DEF Init, AllRequests
<1>5. store \in StoreRow(session.generation)
  BY <1>1 DEF Init, StoreRow
<1>6. /\ call \in [Calls -> CallRow(session.generation)]
      /\ \A c \in Calls : RowGood(call[c], session.generation)
  BY <1>1, QuietGood DEF Init
<1>7. Flags
  BY Zenon DEF Init, Flags
<1>8. CallsGood /\ CodeNamed
  BY <1>4, <1>6 DEF CallsGood, CodeNamed
<1>9. /\ \A c \in Calls : UnderWay(c) => call[c].request # NoRequest /\ call[c].token > 0
      /\ \A c \in Calls : call[c].pc = "answered" => call[c].answer \in 1..session.generation
      /\ \A c \in Calls : call[c].pc \in {"answered", "unauthenticated"} => call[c].awaited
  BY <1>6, Zenon DEF RowGood, UnderWay
<1>10. TypeOK
  BY <1>1, <1>2, <1>3, <1>4, <1>5, <1>6, <1>7, <1>9, Zenon
     DEF TypeOK, Flags, SessionRow, CodeRow, AllRequests, ReceiptRow, StoreRow, CallRow
<1> QED
  BY <1>8, <1>10 DEF SessionInv

LEMMA StutterKeeps ==
  ASSUME SessionInv, UNCHANGED vars
  PROVE  SessionInv'
<1>1. CodeNamed'
  BY Typed, Zenon DEF CodeNamed, vars
<1>2. Flags'
  BY FlagsTyped, Zenon DEF Flags, vars
<1> QED
  BY <1>1, <1>2, Typed, CallsStay, LocalStep, Zenon DEF vars

\* Types and tokens hold of every reachable state.
LEMMA SessionInvariant == Spec => []SessionInv
<1>1. SessionInv /\ [Next]_vars => SessionInv'
  <2> SUFFICES ASSUME SessionInv, [Next]_vars PROVE SessionInv'
    OBVIOUS
  <2>1. CASE BeRefused
    BY <2>1, DeviceKeeps
  <2>2. ASSUME NEW c \in Calls, NEW r \in Requests, StartRefresh(c, r) PROVE SessionInv'
    BY <2>2, StartRefreshKeeps
  <2>3. ASSUME NEW c \in Calls, StartCode(c) PROVE SessionInv'
    BY <2>3, StartCodeKeeps
  <2>4. ASSUME NEW c \in Calls, GiveUp(c) PROVE SessionInv'
    BY <2>4, GiveUpKeeps
  <2>5. ASSUME NEW c \in Calls, Receive(c) PROVE SessionInv'
    BY <2>5, ReceiveKeeps
  <2>6. ASSUME NEW c \in Calls, ClaimReceipt(c) PROVE SessionInv'
    BY <2>6, ClaimKeeps
  <2>7. ASSUME NEW c \in Calls, ResolveRefused(c) PROVE SessionInv'
    BY <2>7, ResolveKeeps
  <2>8. ASSUME NEW c \in Calls, Die(c) PROVE SessionInv'
    BY <2>8, DieKeeps
  <2>9. ASSUME NEW c \in Calls, RefreshDeviceSession(c) PROVE SessionInv'
    BY <2>9, RefreshKeeps
  <2>10. ASSUME NEW c \in Calls, ReissueSessionCredentials(c) PROVE SessionInv'
    BY <2>10, ReissueKeeps
  <2>11. ASSUME NEW c \in Calls, CreatePairingCode(c) PROVE SessionInv'
    BY <2>11, CreateKeeps
  <2>12. ASSUME NEW c \in Calls, ReplacePairingCode(c) PROVE SessionInv'
    BY <2>12, ReplaceKeeps
  <2>13. ASSUME NEW k \in Codes, PairDevice(k) PROVE SessionInv'
    BY <2>13, PairKeeps
  <2>14. CASE RevokeDevice
    BY <2>14, RevokeKeeps
  <2>15. CASE ExpireSession
    BY <2>15, ExpireSessionKeeps
  <2>16. ASSUME NEW r \in AllRequests, ExpireReceipt(r) PROVE SessionInv'
    BY <2>16, ExpireReceiptKeeps
  <2>17. CASE UNCHANGED vars
    BY <2>17, StutterKeeps
  <2> QED
    BY <2>1, <2>2, <2>3, <2>4, <2>5, <2>6, <2>7, <2>8, <2>9, <2>10, <2>11, <2>12, <2>13,
       <2>14, <2>15, <2>16, <2>17 DEF Next, Device, Handle, AllRequests
<1> QED
  BY <1>1, InitKeeps, PTL DEF Spec

\* Every reachable state of a device's credentials is well typed: a call under
\* way presents a token that was issued, and an answer is one too
\* (device_sessions, device_refresh_token_history).
THEOREM TypeCorrect == Spec => []TypeOK
BY SessionInvariant, PTL DEF SessionInv

\* Only a live session rotates, and nothing makes one live again.
LEMMA EndedStep ==
  ASSUME SessionInv, Next, ~Live
  PROVE  /\ session'.generation = session.generation /\ session'.status # "live"
         /\ access' \subseteq access
<1> USE DEF Live
<1>1. session \in SessionRow
  BY Typed
<1>2. CASE UNCHANGED <<session, access>>
  BY <1>2
<1>3. ASSUME NEW n, ReplayRevoked(n)
      PROVE  /\ session'.generation = session.generation /\ session'.status # "live"
             /\ access' \subseteq access
  BY <1>1, <1>3 DEF ReplayRevoked, SessionRow
<1>4. CASE RevokeDevice
  BY <1>1, <1>4, Revoked DEF SessionRow
<1>5. ~ExpireSession
  BY DEF ExpireSession
<1>6. ASSUME NEW c \in Calls, RefreshDeviceSession(c)
      PROVE  \/ \E n \in Snapshots(c) : ReplayRevoked(n)
             \/ UNCHANGED <<session, access>>
  BY <1>6, RefreshOutcome
<1>7. ASSUME NEW c \in Calls, ReissueSessionCredentials(c) PROVE UNCHANGED <<session, access>>
  BY <1>7, ReissueOutcome
<1>8. ASSUME NEW c \in Calls, Device(c) PROVE UNCHANGED <<session, access>>
  BY <1>8 DEF Device, StartRefresh, StartCode, GiveUp, Receive, rows
<1>9. ASSUME NEW c \in Calls, ClaimReceipt(c) \/ ResolveRefused(c) \/ Die(c)
                              \/ CreatePairingCode(c) \/ ReplacePairingCode(c)
      PROVE  UNCHANGED <<session, access>>
  BY <1>9, Zenon DEF ClaimReceipt, ResolveRefused, Die, CreatePairingCode, ReplacePairingCode, rows
<1>10. ASSUME NEW k \in Codes, PairDevice(k) PROVE UNCHANGED <<session, access>>
  BY <1>10 DEF PairDevice, rows
<1>11. ASSUME NEW r \in AllRequests, ExpireReceipt(r) PROVE UNCHANGED <<session, access>>
  BY <1>11 DEF ExpireReceipt, rows
<1>12. ASSUME BeRefused PROVE UNCHANGED <<session, access>>
  BY <1>12 DEF BeRefused, rows
<1> QED
  BY <1>2, <1>3, <1>4, <1>5, <1>6, <1>7, <1>8, <1>9, <1>10, <1>11, <1>12
     DEF Next, Handle, AllRequests

\* A session that ended stays ended: neither a completed receipt nor a statement
\* that was under way gives it a generation or a token (active_session).
THEOREM EndIsFinal == Spec => EndedStaysEnded
<1>1. SessionInv /\ [Next]_vars =>
        [~Live => /\ session'.generation = session.generation /\ session'.status # "live"
                  /\ access' \subseteq access]_vars
  BY EndedStep
<1> QED
  BY <1>1, SessionInvariant, PTL DEF Spec, EndedStaysEnded

-----------------------------------------------------------------------------
\* A refresh has a request of its own.
LEMMA RefreshRequest ==
  ASSUME SessionInv, NEW c \in Calls, Refreshing(c)
  PROVE  /\ UnderWay(c) /\ call[c].request \in Requests /\ call[c].request \in AllRequests
         /\ call[c].request # CodeRequest /\ call[c].request # NoRequest
         /\ call[c].token \in 1..session.generation
BY CallUnderWay, Constants DEF Refreshing, AllRequests

LEMMA Moved ==
  ASSUME SessionInv, NEW c \in Calls, NEW row, call' = [call EXCEPT ![c] = row]
  PROVE  call'[c] = row /\ \A d \in Calls : d # c => call'[d] = call[d]
BY Typed

-----------------------------------------------------------------------------
(* One access token.  A statement revokes what its snapshot has: enough    *)
(* when no rotation came between the step before it and the statement.     *)

Reissuing(c) == Refreshing(c) /\ call[c].pc = "replay"

CrossParts ==
  /\ \A c \in Calls : Reissuing(c) => call[c].since = session.generation
  /\ Live => access \subseteq {session.generation}

CrossInv == ~crossed => CrossParts

\* A step that rotates nothing.
LEMMA CrossFrame ==
  ASSUME CrossParts, session'.generation = session.generation, Live' => Live,
         access' \subseteq access,
         \A d \in Calls : Reissuing(d)' => \/ Reissuing(d) /\ call'[d].since = call[d].since
                                           \/ call'[d].since = session.generation
  PROVE  CrossParts'
<1>1. \A d \in Calls : Reissuing(d)' => call'[d].since = session'.generation
  BY Zenon DEF CrossParts
<1>2. Live' => access' \subseteq {session'.generation}
  BY DEF CrossParts
<1> QED
  BY <1>1, <1>2, Zenon DEF CrossParts

\* One handler moves.
LEMMA ReissuingFrame ==
  ASSUME SessionInv, NEW c \in Calls, NEW row, call' = [call EXCEPT ![c] = row],
         \/ row.pc # "replay" \/ row.since = session.generation
         \/ row.pc = call[c].pc /\ row.request = call[c].request /\ row.since = call[c].since
  PROVE  \A d \in Calls : Reissuing(d)' => \/ Reissuing(d) /\ call'[d].since = call[d].since
                                           \/ call'[d].since = session.generation
<1>1. call'[c] = row /\ \A d \in Calls : d # c => call'[d] = call[d]
  BY Moved
<1> QED
  BY <1>1 DEF Reissuing, Refreshing, UnderWay

\* The device's steps.
LEMMA CrossDevice ==
  ASSUME SessionInv, CrossParts,
         \/ BeRefused \/ UNCHANGED vars \/ \E c \in Calls : Device(c) \/ Die(c)
  PROVE  CrossParts'
<1> DEFINE Steady == \A d \in Calls : Reissuing(d)' =>
                       \/ Reissuing(d) /\ call'[d].since = call[d].since
                       \/ call'[d].since = session.generation
<1>1. UNCHANGED <<session, access>>
  BY DEF BeRefused, Device, StartRefresh, StartCode, GiveUp, Receive, Die, vars, rows
<1>2. Steady
  <2>1. ASSUME UNCHANGED call PROVE Steady
    BY <2>1 DEF Reissuing, Refreshing, UnderWay
  <2>2. ASSUME NEW c \in Calls, NEW r \in AllRequests, store.token # 0,
               call' = [call EXCEPT ![c] = Sent(r)]
        PROVE  Steady
    BY <2>2, SentGood, ReissuingFrame
  <2>3. ASSUME NEW c \in Calls, NEW r \in Requests, StartRefresh(c, r) PROVE Steady
    BY <2>2, <2>3 DEF StartRefresh, AllRequests
  <2>4. ASSUME NEW c \in Calls, StartCode(c) PROVE Steady
    <3>1. /\ call' = [call EXCEPT ![c] = Sent(CodeRequest)] /\ CodeRequest \in AllRequests
          /\ store.token # 0
      BY <2>4, Typed DEF StartCode, AllRequests, Generations
    <3> QED
      BY <2>2, <3>1, Zenon
  <2>5. ASSUME NEW c \in Calls, Receive(c) \/ Die(c) PROVE Steady
    <3>1. call' = [call EXCEPT ![c] = Quiet]
      BY <2>5 DEF Receive, Die
    <3> QED
      BY <3>1, Typed, QuietGood, ReissuingFrame
  <2>6. ASSUME NEW c \in Calls, GiveUp(c) PROVE Steady
    <3>1. PICK row : /\ call' = [call EXCEPT ![c] = row]
                     /\ \/ row.pc = "idle"
                        \/ /\ row.pc = call[c].pc /\ row.request = call[c].request
                           /\ row.since = call[c].since
      BY <2>6, GivesUp
    <3> QED
      BY <3>1, ReissuingFrame
  <2> HIDE DEF Steady
  <2> QED
    BY <2>1, <2>3, <2>4, <2>5, <2>6, Zenon DEF Device, BeRefused, vars
<1> QED
  BY <1>1, <1>2, CrossFrame DEF Live

\* The rows others change.
LEMMA CrossRows ==
  ASSUME SessionInv, CrossParts,
         \/ RevokeDevice \/ ExpireSession \/ (\E k \in Codes : PairDevice(k))
         \/ (\E r \in AllRequests : ExpireReceipt(r))
  PROVE  CrossParts'
<1>1. UNCHANGED call
  BY DEF RevokeDevice, ExpireSession, PairDevice, ExpireReceipt
<1>2. \A d \in Calls : Reissuing(d)' => Reissuing(d) /\ call'[d].since = call[d].since
  BY <1>1 DEF Reissuing, Refreshing, UnderWay
<1>3. session'.generation = session.generation /\ (Live' => Live) /\ access' \subseteq access
  <2>1. CASE UNCHANGED <<session, access>>
    BY <2>1 DEF Live
  <2>2. CASE RevokeDevice \/ ExpireSession
    BY <2>2, Typed, Revoked DEF ExpireSession, Live, SessionRow
  <2> QED
    BY <2>1, <2>2 DEF PairDevice, ExpireReceipt, rows
<1> QED
  BY <1>2, <1>3, CrossFrame

\* The handlers that do not rotate.
LEMMA CrossHandlers ==
  ASSUME SessionInv, CrossParts, NEW c \in Calls,
         \/ ClaimReceipt(c) \/ ResolveRefused(c) \/ CreatePairingCode(c) \/ ReplacePairingCode(c)
  PROVE  CrossParts'
<1> DEFINE Steady == \A d \in Calls : Reissuing(d)' =>
                       \/ Reissuing(d) /\ call'[d].since = call[d].since
                       \/ call'[d].since = session.generation
<1>1. UNCHANGED <<session, access>> /\ UnderWay(c)
  BY Zenon DEF ClaimReceipt, ResolveRefused, CreatePairingCode, ReplacePairingCode, rows, UnderWay
<1>2. ASSUME call' = Refused(c) PROVE Steady
  BY <1>1, <1>2, RefusedMoves DEF Reissuing, Refreshing, UnderWay
<1>3. ASSUME call' = [call EXCEPT ![c] = Quiet] PROVE Steady
  BY <1>3, Typed, QuietGood, ReissuingFrame
<1>4. ASSUME ClaimReceipt(c), ~ClaimRefused(receipt[call[c].request]) PROVE Steady
  BY <1>4, Claims, ReissuingFrame
<1>5. ASSUME ResolveRefused(c), Resolve(receipt[call[c].request], call[c].token) = "recorded"
      PROVE  Steady
  BY <1>5, Resolves, ReissuingFrame
<1>6. ASSUME call[c].request # CodeRequest,
             call' = [call EXCEPT ![c] = Answer(c, [call[c] EXCEPT !.pc = "unauthenticated"])]
      PROVE  Steady
  BY <1>1, <1>6, TurnsAway, ReissuingFrame
<1>7. Steady
  <2> HIDE DEF Steady
  <2>1. ASSUME ClaimReceipt(c) PROVE Steady
    BY <1>2, <1>4, <2>1, Zenon DEF ClaimReceipt
  <2>2. ASSUME ResolveRefused(c) PROVE Steady
    BY <1>3, <1>5, <1>6, <2>2, ResolvesNot, Zenon
  <2>3. ASSUME CreatePairingCode(c) \/ ReplacePairingCode(c) PROVE Steady
    BY <1>2, <1>3, <2>3, Zenon DEF CreatePairingCode, ReplacePairingCode
  <2> QED
    BY <2>1, <2>2, <2>3
<1> QED
  BY <1>1, <1>7, CrossFrame DEF Live

\* A rotation whose snapshot is of the current generation, with no other
\* handler about to rotate.
LEMMA CrossRotates ==
  ASSUME SessionInv, CrossParts, NEW c \in Calls, UnderWay(c), call[c].request # CodeRequest,
         Live, Room, NEW n \in Nat, n = session.generation, Rotated(n), Noted(c),
         call' = Answered(c), ~crossed'
  PROVE  CrossParts'
<1>1. /\ session'.generation = session.generation + 1 /\ session.generation + 1 \in Generations
      /\ access' = (access \ 1..n) \cup {session.generation + 1}
  BY RotationMoves
<1>2. access' \subseteq {session'.generation}
  BY <1>1, Typed DEF CrossParts
<1>3. /\ \A d \in Calls : d # c => call'[d] = call[d]
      /\ call'[c] = Quiet \/ call'[c].pc = "answered"
  BY <1>1, AnswerGood
<1>4. \A d \in Calls : d # c => ~Reissuing(d)
  BY Zenon DEF Noted, Reissuing
<1>5. \A d \in Calls : ~Reissuing(d)'
  BY <1>3, <1>4, Typed, QuietGood DEF Reissuing, Refreshing, UnderWay
<1> QED
  BY <1>2, <1>5, Zenon DEF CrossParts

LEMMA CrossRefreshes ==
  ASSUME SessionInv, CrossParts, NEW c \in Calls, RefreshDeviceSession(c), ~crossed'
  PROVE  CrossParts'
<1>1. /\ UnderWay(c) /\ call[c].pc = "claimed" /\ call[c].request # CodeRequest
  BY RefreshOutcome, Zenon
<1>2. ASSUME NEW n \in Snapshots(c), call[c].token = session.generation,
             Live, Room, Rotated(n), Noted(c), call' = Answered(c)
      PROVE  CrossParts'
  <2>1. n \in Nat /\ n = session.generation
    <3>1. call[c].token <= call[c].since
      BY <1>1, CallUnderWay DEF RowGood
    <3> QED
      BY <1>2, <3>1, SnapshotNat, Typed
  <2> QED
    BY <1>1, <1>2, <2>1, CrossRotates, Zenon
<1>3. ASSUME call' = Refused(c), session'.generation = session.generation, Live' => Live,
             access' \subseteq access
      PROVE  CrossParts'
  BY <1>1, <1>3, RefusedMoves, CrossFrame DEF Reissuing, Refreshing, UnderWay
<1>4. ASSUME NEW n, ReplayRevoked(n)
      PROVE  /\ session'.generation = session.generation /\ (Live' => Live)
             /\ access' \subseteq access
  BY <1>4, Typed DEF ReplayRevoked, SessionRow, Live
<1>5. ASSUME UNCHANGED <<session, access>>
      PROVE  /\ session'.generation = session.generation /\ (Live' => Live)
             /\ access' \subseteq access
  BY <1>5 DEF Live
<1> QED
  BY <1>2, <1>3, <1>4, <1>5, RefreshOutcome, Zenon

LEMMA CrossReissues ==
  ASSUME SessionInv, CrossParts, NEW c \in Calls, ReissueSessionCredentials(c), ~crossed'
  PROVE  CrossParts'
<1>1. /\ UnderWay(c) /\ call[c].pc = "replay" /\ call[c].request # CodeRequest
  BY ReissueOutcome, Zenon
<1>2. ASSUME NEW n \in Snapshots(c), Live, Room, Rotated(n), Noted(c), call' = Answered(c)
      PROVE  CrossParts'
  <2>1. n \in Nat /\ n = session.generation
    <3>1. call[c].since = session.generation
      BY <1>1 DEF CrossParts, Reissuing, Refreshing
    <3> QED
      BY <1>2, <3>1, SnapshotNat, Typed
  <2> QED
    BY <1>1, <1>2, <2>1, CrossRotates, Zenon
<1>3. ASSUME UNCHANGED <<session, access>>,
             call' = [call EXCEPT ![c] = Answer(c, [call[c] EXCEPT !.pc = "unauthenticated"])]
      PROVE  CrossParts'
  <2>1. \A d \in Calls : Reissuing(d)' => \/ Reissuing(d) /\ call'[d].since = call[d].since
                                          \/ call'[d].since = session.generation
    BY <1>1, <1>3, TurnsAway, ReissuingFrame
  <2> QED
    BY <1>3, <2>1, CrossFrame DEF Live
<1> QED
  BY <1>2, <1>3, ReissueOutcome, Zenon

LEMMA CrossInit == Init => CrossParts
<1> SUFFICES ASSUME Init PROVE CrossParts
  OBVIOUS
<1>1. \A c \in Calls : ~Reissuing(c)
  BY DEF Init, Reissuing, Refreshing, UnderWay, Quiet
<1>2. access \subseteq {session.generation}
  BY DEF Init
<1> QED
  BY <1>1, <1>2, Zenon DEF CrossParts

\* What the history notes it does not forget.
LEMMA NotedStays ==
  ASSUME [Next]_vars
  PROVE  (crossed => crossed') /\ (overtaken => overtaken') /\ (adrift => adrift')
<1>1. CASE UNCHANGED <<crossed, overtaken, adrift>>
  BY <1>1
<1>2. ASSUME NEW c \in Calls, Noted(c) PROVE (crossed => crossed') /\ (overtaken => overtaken')
                                              /\ (adrift => adrift')
  BY <1>2, Zenon DEF Noted
<1>3. ASSUME NEW c \in Calls, Device(c) PROVE UNCHANGED <<crossed, overtaken, adrift>>
  BY <1>3, Zenon DEF Device, StartRefresh, StartCode, GiveUp, Receive, history
<1>4. ASSUME NEW c \in Calls, Handle(c)
      PROVE  Noted(c) \/ UNCHANGED <<crossed, overtaken, adrift>>
  BY <1>4, Zenon DEF Handle, ClaimReceipt, ResolveRefused, Die, RefreshDeviceSession,
     ReissueSessionCredentials, CreatePairingCode, ReplacePairingCode, history
<1>5. CASE BeRefused
  <2>1. UNCHANGED <<crossed, overtaken>> /\ adrift' = (adrift \/ Live)
    BY <1>5 DEF BeRefused
  <2> QED
    BY <2>1, Zenon
<1>6. ASSUME NEW r \in AllRequests, ExpireReceipt(r)
      PROVE  UNCHANGED <<crossed, overtaken>> /\ (adrift => adrift')
  BY <1>6, Zenon DEF ExpireReceipt
<1>7. CASE RevokeDevice \/ ExpireSession \/ \E k \in Codes : PairDevice(k)
  BY <1>1, <1>7, Zenon DEF RevokeDevice, ExpireSession, PairDevice, history
<1> QED
  BY <1>1, <1>2, <1>3, <1>4, <1>5, <1>6, <1>7, Zenon DEF Next, AllRequests, vars

LEMMA CrossInvariant == Spec => []CrossInv
<1>1. Init => CrossInv
  BY CrossInit DEF CrossInv
<1>2. SessionInv /\ CrossInv /\ [Next]_vars => CrossInv'
  <2> SUFFICES ASSUME SessionInv, CrossInv, [Next]_vars, ~crossed' PROVE CrossParts'
    BY Zenon DEF CrossInv
  <2>1. CrossParts
    BY NotedStays, Zenon DEF CrossInv
  <2>2. CASE BeRefused \/ UNCHANGED vars
    BY <2>1, <2>2, CrossDevice
  <2>3. ASSUME NEW c \in Calls, Device(c) \/ Die(c) PROVE CrossParts'
    BY <2>1, <2>3, CrossDevice
  <2>4. ASSUME NEW c \in Calls, Handle(c) PROVE CrossParts'
    BY <2>1, <2>3, <2>4, CrossHandlers, CrossRefreshes, CrossReissues DEF Handle
  <2>5. CASE \/ RevokeDevice \/ ExpireSession \/ (\E k \in Codes : PairDevice(k))
             \/ (\E r \in AllRequests : ExpireReceipt(r))
    BY <2>1, <2>5, CrossRows
  <2> QED
    BY <2>2, <2>3, <2>4, <2>5, Zenon DEF Next, AllRequests
<1> QED
  BY <1>1, <1>2, SessionInvariant, PTL DEF Spec

\* For any number of refreshes, replays, retries and revocations in flight, an
\* access token of a live session is the current generation's, although every
\* statement revokes only what its own snapshot has, unless a rotation came
\* between a recorded refresh and the statement that issued its credentials
\* again (refreshDeviceSession, reissueSessionCredentials).
THEOREM CredentialIsOne == Spec => []OneCredential
<1>1. CrossInv => OneCredential
  BY Zenon DEF CrossInv, CrossParts, OneCredential
<1> QED
  BY <1>1, CrossInvariant, PTL

-----------------------------------------------------------------------------
(* The refreshes of a device that no rotation overtook.                    *)

Completed(r) == receipt[r].status = "completed"

\* A refresh whose rotation is still to come, from this call or another.
Open(c) == Refreshing(c) /\ ~Completed(call[c].request)

\* The stored token is current or its rotation is recorded under the pending
\* id; only calls with that id present it, and no answer under way is older.
HeldBy(c) ==
  /\ call[c].token <= store.token
  /\ call[c].request # store.pending => call[c].token < store.token
  /\ Open(c) => call[c].request = store.pending
  /\ call[c].pc = "answered" => /\ call[c].answer = session.generation
                                /\ store.token < session.generation

HeldGood ==
  store.token # 0 =>
    /\ \/ store.token = session.generation
       \/ store.pending # NoRequest /\ Completed(store.pending)
    /\ (store.pending # NoRequest /\ receipt[store.pending].status # "absent")
         => receipt[store.pending].fingerprint = store.token
    /\ \A c \in Calls : Refreshing(c) => HeldBy(c)

\* A rotation still to come is of the current token, for one request.
OpenGood ==
  /\ \A c \in Calls : Open(c) => call[c].token = session.generation
  /\ \A c, d \in Calls : (Open(c) /\ Open(d)) => call[c].request = call[d].request
  /\ \A c, d \in Calls : (call[c].pc = "answered" /\ call[d].pc = "answered") => c = d
  /\ \A c \in Calls : Refreshing(c) =>
       /\ call[c].pc = "replay" => Completed(call[c].request)
       /\ call[c].pc = "claimed" => receipt[call[c].request].status # "absent"

\* A device that is not adrift has its session, and every answer it waits for
\* can still be given.
KeptGood ==
  (Live /\ ~adrift) =>
    /\ store.token # 0
    /\ \A r \in Requests : (Needed(r) /\ Completed(r)) => ~receipt[r].expired
    /\ \A c \in Calls : Refreshing(c) =>
         /\ call[c].pc # "unauthenticated"
         /\ call[c].pc = "refused" => Completed(call[c].request)

RefreshParts == session.status # "replayed" /\ HeldGood /\ OpenGood /\ KeptGood

RefreshInv == ~overtaken => RefreshParts

\* How a refresh may move when nothing is rotated or recorded.
Moves(d) ==
  /\ Refreshing(d) /\ call'[d].token = call[d].token /\ call'[d].request = call[d].request
  /\ \/ call'[d].pc = call[d].pc /\ call'[d].answer = call[d].answer
     \/ call'[d].pc = "refused" /\ (Completed(call[d].request) \/ ~Live)
     \/ call'[d].pc = "replay" /\ Completed(call[d].request)
     \/ call'[d].pc = "unauthenticated" /\ (~Live \/ adrift')

\* A step that starts no refresh, rotates nothing and records nothing for one.
LEMMA RefreshFrame ==
  ASSUME SessionInv, RefreshParts, adrift => adrift',
         session'.generation = session.generation, session'.status # "replayed", Live' => Live,
         \A r \in Requests : /\ receipt'[r].status = receipt[r].status
                             /\ receipt'[r].fingerprint = receipt[r].fingerprint
                             /\ (Needed(r) /\ Completed(r) /\ ~adrift' /\ ~receipt[r].expired)
                                  => ~receipt'[r].expired,
         store' = store \/ (store' = Forgotten /\ (~Live \/ adrift')),
         \A r \in Requests : Needed(r)' => Needed(r),
         \A d \in Calls : Refreshing(d)' => Moves(d),
         \A d \in Calls : call'[d].pc = "answered" => call[d].pc = "answered"
  PROVE  RefreshParts'
<1>1. \A r \in Requests : Completed(r)' <=> Completed(r)
  BY Zenon DEF Completed
<1>2. \A d \in Calls : Refreshing(d) => call[d].request \in Requests
  BY RefreshRequest
<1>3. \A d \in Calls : Open(d)' => Open(d) /\ call'[d].request = call[d].request
  BY <1>1, <1>2, Zenon DEF Open, Moves
<1>4. HeldGood'
  <2> SUFFICES ASSUME store'.token # 0 PROVE HeldGood'
    BY Zenon DEF HeldGood
  <2>1. store' = store
    BY ForgottenTyped, Typed
  <2>2. store.pending # NoRequest => store.pending \in Requests
    BY Typed DEF StoreRow
  <2>3. \A d \in Calls : Refreshing(d)' => HeldBy(d)'
    <3> SUFFICES ASSUME NEW d \in Calls, Refreshing(d)' PROVE HeldBy(d)'
      OBVIOUS
    <3>1. Moves(d) /\ HeldBy(d)
      BY <2>1, Zenon DEF RefreshParts, HeldGood, Moves
    <3>2. call'[d].pc = "answered" => call[d].pc = "answered" /\ call'[d].answer = call[d].answer
      BY <3>1 DEF Moves
    <3> QED
      BY <1>3, <2>1, <3>1, <3>2, Zenon DEF HeldBy, Moves
  <2> QED
    BY <1>1, <2>1, <2>2, <2>3, Zenon DEF RefreshParts, HeldGood
<1>5. OpenGood'
  <2>1. \A c \in Calls : Open(c)' => call'[c].token = session'.generation
    BY <1>3, Zenon DEF RefreshParts, OpenGood, Moves, Open
  <2>2. \A c, d \in Calls : (Open(c)' /\ Open(d)') => call'[c].request = call'[d].request
    <3> SUFFICES ASSUME NEW c \in Calls, NEW d \in Calls, Open(c)', Open(d)'
                 PROVE  call'[c].request = call'[d].request
      OBVIOUS
    <3>1. call[c].request = call[d].request
      BY <1>3, Zenon DEF RefreshParts, OpenGood
    <3> QED
      BY <1>3, <3>1
  <2>3. \A c, d \in Calls : (call'[c].pc = "answered" /\ call'[d].pc = "answered") => c = d
    BY Zenon DEF RefreshParts, OpenGood
  <2>4. \A c \in Calls : Refreshing(c)' =>
          /\ call'[c].pc = "replay" => Completed(call[c].request)'
          /\ call'[c].pc = "claimed" => receipt'[call'[c].request].status # "absent"
    <3> SUFFICES ASSUME NEW c \in Calls, Refreshing(c)'
                 PROVE  /\ call'[c].pc = "replay" => Completed(call[c].request)'
                        /\ call'[c].pc = "claimed" => receipt'[call'[c].request].status # "absent"
      OBVIOUS
    <3>1. /\ Moves(c) /\ call[c].request \in Requests
          /\ call[c].pc = "replay" => Completed(call[c].request)
          /\ call[c].pc = "claimed" => receipt[call[c].request].status # "absent"
      BY <1>2, Zenon DEF RefreshParts, OpenGood, Moves
    <3>2. /\ call'[c].pc = "replay" => Completed(call[c].request)
          /\ call'[c].pc = "claimed" => receipt[call[c].request].status # "absent"
      BY <3>1 DEF Moves
    <3>3. call'[c].request = call[c].request
      BY <3>1 DEF Moves
    <3> QED
      BY <3>1, <3>2, <3>3 DEF Completed
  <2> QED
    BY <2>1, <2>2, <2>3, <2>4, Zenon DEF OpenGood
<1>6. KeptGood'
  <2> SUFFICES ASSUME Live', ~adrift' PROVE KeptGood'
    BY Zenon DEF KeptGood
  <2>1. Live /\ ~adrift /\ store' = store
    BY Zenon
  <2>2. store'.token # 0
    BY <2>1, Zenon DEF RefreshParts, KeptGood
  <2>3. \A r \in Requests : (Needed(r)' /\ Completed(r)') => ~receipt'[r].expired
    BY <1>1, <2>1, Zenon DEF RefreshParts, KeptGood
  <2>4. \A c \in Calls : Refreshing(c)' =>
          /\ call'[c].pc # "unauthenticated"
          /\ call'[c].pc = "refused" => Completed(call[c].request)'
    <3> SUFFICES ASSUME NEW c \in Calls, Refreshing(c)'
                 PROVE  /\ call'[c].pc # "unauthenticated"
                        /\ call'[c].pc = "refused" => Completed(call[c].request)'
      OBVIOUS
    <3>1. /\ Moves(c) /\ call[c].request \in Requests
          /\ call[c].pc # "unauthenticated"
          /\ call[c].pc = "refused" => Completed(call[c].request)
      BY <1>2, <2>1, Zenon DEF RefreshParts, KeptGood, Moves
    <3>2. /\ call'[c].pc # "unauthenticated"
          /\ call'[c].pc = "refused" => Completed(call[c].request)
      BY <2>1, <3>1 DEF Moves
    <3>3. call'[c].request = call[c].request
      BY <3>1 DEF Moves
    <3> QED
      BY <3>1, <3>2, <3>3 DEF Completed
  <2> QED
    BY <2>2, <2>3, <2>4, Zenon DEF KeptGood
<1> QED
  BY <1>4, <1>5, <1>6, Zenon DEF RefreshParts

\* One handler moves: what the device waits for does not grow.
LEMMA NeededFrame ==
  ASSUME SessionInv, NEW c \in Calls, NEW row, call' = [call EXCEPT ![c] = row],
         row.awaited => \/ call[c].awaited /\ row.request = call[c].request
                        \/ row.request \notin Requests,
         store'.pending = store.pending \/ store'.pending = NoRequest
  PROVE  \A r \in Requests : Needed(r)' => Needed(r)
<1> SUFFICES ASSUME NEW r \in Requests, Needed(r)' PROVE Needed(r)
  OBVIOUS
<1>1. call'[c] = row /\ \A d \in Calls : d # c => call'[d] = call[d]
  BY Moved
<1>2. r # NoRequest
  BY Constants
<1>3. CASE store'.pending = r
  BY <1>2, <1>3 DEF Needed
<1>4. ASSUME NEW d \in Calls, call'[d].request = r, call'[d].awaited PROVE Needed(r)
  <2>1. CASE d = c
    BY <1>1, <1>4, <2>1 DEF Needed
  <2>2. CASE d # c
    BY <1>1, <1>4, <2>2 DEF Needed
  <2> QED
    BY <2>1, <2>2
<1> QED
  BY <1>3, <1>4, Zenon DEF Needed

\* One handler moves, and the rows it does not touch are as they were.
LEMMA HandlerFrame ==
  ASSUME SessionInv, RefreshParts, adrift => adrift', UNCHANGED session,
         \A r \in Requests : receipt'[r] = receipt[r],
         store' = store \/ (store' = Forgotten /\ (~Live \/ adrift')),
         NEW c \in Calls, NEW row, call' = [call EXCEPT ![c] = row],
         row.awaited => \/ call[c].awaited /\ row.request = call[c].request
                        \/ row.request \notin Requests,
         \/ row.pc = "idle"
         \/ row.request = CodeRequest /\ row.pc # "answered"
         \/ /\ Refreshing(c) /\ row.token = call[c].token /\ row.request = call[c].request
            /\ \/ row.pc = call[c].pc /\ row.answer = call[c].answer
               \/ row.pc = "refused" /\ (Completed(call[c].request) \/ ~Live)
               \/ row.pc = "replay" /\ Completed(call[c].request)
               \/ row.pc = "unauthenticated" /\ (~Live \/ adrift')
  PROVE  RefreshParts'
<1>1. call'[c] = row /\ \A d \in Calls : d # c => call'[d] = call[d]
  BY Moved
<1>2. store'.pending = store.pending \/ store'.pending = NoRequest
  BY ForgottenTyped, Typed
<1>3. \A r \in Requests : Needed(r)' => Needed(r)
  BY <1>2, NeededFrame
<1>4. \A d \in Calls : Refreshing(d)' => Moves(d)
  <2> SUFFICES ASSUME NEW d \in Calls, Refreshing(d)' PROVE Moves(d)
    OBVIOUS
  <2>1. CASE d # c
    BY <1>1, <2>1 DEF Refreshing, UnderWay, Moves
  <2>2. CASE d = c
    <3>1. row.pc # "idle" /\ row.request # CodeRequest
      BY <1>1, <2>2 DEF Refreshing, UnderWay
    <3> QED
      BY <1>1, <2>2, <3>1, Zenon DEF Moves
  <2> QED
    BY <2>1, <2>2
<1>5. \A d \in Calls : call'[d].pc = "answered" => call[d].pc = "answered"
  BY <1>1
<1>6. session'.generation = session.generation /\ session'.status # "replayed" /\ (Live' => Live)
  BY DEF RefreshParts, Live
<1>7. \A r \in Requests : /\ receipt'[r].status = receipt[r].status
                          /\ receipt'[r].fingerprint = receipt[r].fingerprint
                          /\ receipt'[r].expired = receipt[r].expired
  OBVIOUS
<1> QED
  BY <1>3, <1>4, <1>5, <1>6, <1>7, RefreshFrame, Zenon

\* The steps of the device that start no refresh, but for an answer it takes.
LEMMA RefreshDevice ==
  ASSUME SessionInv, RefreshParts, adrift => adrift', NEW c \in Calls,
         \/ StartCode(c) \/ GiveUp(c) \/ Die(c)
  PROVE  RefreshParts'
<1>1. UNCHANGED <<session, receipt, store>>
  BY Zenon DEF StartCode, GiveUp, Die, rows
<1>2. CASE StartCode(c)
  <2>1. /\ call' = [call EXCEPT ![c] = Sent(CodeRequest)] /\ CodeRequest \in AllRequests
        /\ store.token # 0
    BY <1>2, Typed DEF StartCode, AllRequests, Generations
  <2>2. PICK row : /\ call' = [call EXCEPT ![c] = row] /\ row.request = CodeRequest
                   /\ row.pc = "sent"
    BY <2>1, SentGood, Zenon
  <2> QED
    BY <1>1, <2>2, Constants, HandlerFrame
<1>3. CASE Die(c)
  <2>1. call' = [call EXCEPT ![c] = Quiet]
    BY <1>3 DEF Die
  <2> QED
    BY <1>1, <2>1, HandlerFrame DEF Quiet
<1>4. CASE GiveUp(c)
  <2>1. PICK row : /\ call' = [call EXCEPT ![c] = row] /\ ~row.awaited
                   /\ \/ row.pc = "idle"
                      \/ /\ row.pc = call[c].pc /\ row.request = call[c].request
                         /\ row.token = call[c].token /\ row.answer = call[c].answer
    BY <1>4, GivesUp
  <2>2. Refreshing(c)
    BY <1>4 DEF GiveUp
  <2> QED
    BY <1>1, <2>1, <2>2, HandlerFrame
<1> QED
  BY <1>2, <1>3, <1>4

LEMMA RefreshStutter ==
  ASSUME SessionInv, RefreshParts,
         UNCHANGED <<session, store, call, adrift>>, \A r \in Requests : receipt'[r] = receipt[r]
  PROVE  RefreshParts'
<1>1. \A r \in Requests : Needed(r)' => Needed(r)
  BY DEF Needed
<1>2. \A d \in Calls : Refreshing(d)' => Moves(d)
  BY DEF Refreshing, UnderWay, Moves
<1>3. session'.generation = session.generation /\ session'.status # "replayed" /\ (Live' => Live)
  BY DEF RefreshParts, Live
<1> QED
  BY <1>1, <1>2, <1>3, RefreshFrame, Zenon

LEMMA RefreshTurnedAway ==
  ASSUME SessionInv, RefreshParts, BeRefused
  PROVE  RefreshParts'
<1>1. /\ UNCHANGED <<session, receipt, call>> /\ store' = Forgotten
      /\ adrift' = (adrift \/ Live)
  BY Zenon DEF BeRefused, rows
<1>2. \A r \in Requests : Needed(r)' => Needed(r)
  <2>1. store'.pending \notin Requests
    BY <1>1, Constants DEF Forgotten
  <2> QED
    BY <1>1, <2>1 DEF Needed
<1>3. \A d \in Calls : Refreshing(d)' => Moves(d)
  BY <1>1 DEF Refreshing, UnderWay, Moves
<1>4. session'.generation = session.generation /\ session'.status # "replayed" /\ (Live' => Live)
  BY <1>1 DEF RefreshParts, Live
<1>5. ~Live \/ adrift'
  BY <1>1, Zenon
<1>6. adrift => adrift'
  BY <1>1, Zenon
<1> QED
  BY <1>1, <1>2, <1>3, <1>4, <1>5, <1>6, RefreshFrame, Zenon

\* The rows others change.
LEMMA RefreshRows ==
  ASSUME SessionInv, RefreshParts, adrift => adrift',
         \/ RevokeDevice \/ ExpireSession \/ (\E k \in Codes : PairDevice(k))
         \/ (\E r \in AllRequests : ExpireReceipt(r))
  PROVE  RefreshParts'
<1>1. UNCHANGED <<store, call>>
  BY DEF RevokeDevice, ExpireSession, PairDevice, ExpireReceipt
<1>2. \A r \in Requests : Needed(r)' => Needed(r)
  BY <1>1 DEF Needed
<1>3. \A d \in Calls : Refreshing(d)' => Moves(d)
  BY <1>1 DEF Refreshing, UnderWay, Moves
<1>4. session'.generation = session.generation /\ session'.status # "replayed" /\ (Live' => Live)
  <2>1. CASE UNCHANGED session
    BY <2>1 DEF RefreshParts, Live
  <2>2. CASE RevokeDevice \/ ExpireSession
    BY <2>2, Typed, Revoked DEF ExpireSession, Live, SessionRow
  <2> QED
    BY <2>1, <2>2 DEF PairDevice, ExpireReceipt, rows
<1>5. \A r \in Requests : /\ receipt'[r].status = receipt[r].status
                          /\ receipt'[r].fingerprint = receipt[r].fingerprint
                          /\ (Needed(r) /\ Completed(r) /\ ~adrift' /\ ~receipt[r].expired)
                               => ~receipt'[r].expired
  <2>1. ASSUME UNCHANGED receipt
        PROVE  \A r \in Requests : receipt'[r] = receipt[r]
    BY <2>1
  <2>2. ASSUME NEW q \in AllRequests, ExpireReceipt(q), NEW r \in Requests
        PROVE  /\ receipt'[r].status = receipt[r].status
               /\ receipt'[r].fingerprint = receipt[r].fingerprint
               /\ (Needed(r) /\ Completed(r) /\ ~adrift' /\ ~receipt[r].expired)
                    => ~receipt'[r].expired
    <3>1. /\ receipt' = [receipt EXCEPT ![q] = Expire(receipt[q])] /\ r \in AllRequests
          /\ r # CodeRequest
      BY <2>2, Constants DEF ExpireReceipt, AllRequests
    <3>2. CASE q # r
      BY <3>1, <3>2, Typed
    <3>3. CASE q = r
      <4>1. receipt'[r] = Expire(receipt[r])
        BY <3>1, <3>3, Typed
      <4>2. (Completed(r) /\ Needed(r)) => adrift'
        BY <2>2, <3>1, <3>3, Zenon DEF ExpireReceipt, Completed
      <4> QED
        BY <3>1, <4>1, <4>2, ReceiptRows, Zenon
    <3> QED
      BY <3>2, <3>3
  <2> QED
    BY <2>1, <2>2 DEF RevokeDevice, ExpireSession, PairDevice
<1>6. \A d \in Calls : call'[d].pc = "answered" => call[d].pc = "answered"
  BY <1>1
<1> QED
  BY <1>1, <1>2, <1>3, <1>4, <1>5, <1>6, RefreshFrame, Zenon

\* The parts one refresh is said to have, together.
LEMMA RefreshOf ==
  ASSUME SessionInv, RefreshParts, NEW c \in Calls, Refreshing(c)
  PROVE  /\ store.token # 0 => HeldBy(c)
         /\ Open(c) => call[c].token = session.generation
         /\ call[c].pc = "replay" => Completed(call[c].request)
         /\ call[c].pc = "claimed" => receipt[call[c].request].status # "absent"
BY Zenon DEF RefreshParts, HeldGood, OpenGood

\* A refresh starts, with the pending id or a new one.
LEMMA RefreshStarts ==
  ASSUME SessionInv, RefreshParts, NEW c \in Calls, NEW r \in Requests, StartRefresh(c, r)
  PROVE  RefreshParts'
<1>1. /\ UNCHANGED <<session, receipt, adrift>> /\ store.token # 0 /\ RequestChosen(r)
      /\ store' = [store EXCEPT !.pending = r] /\ call' = [call EXCEPT ![c] = Sent(r)]
  BY DEF StartRefresh, rows, history
<1>2. r \in AllRequests /\ r # NoRequest /\ r # CodeRequest
  BY Constants DEF AllRequests
<1>3. /\ store'.token = store.token /\ store'.pending = r /\ store.token \in Nat
      /\ store.token <= session.generation
  BY <1>1, Typed DEF StoreRow
<1>4. /\ call'[c].pc = "sent" /\ call'[c].request = r /\ call'[c].token = store.token
      /\ \A d \in Calls : d # c => call'[d] = call[d]
  <2>1. PICK row : row = Sent(r) /\ call' = [call EXCEPT ![c] = row]
    BY <1>1
  <2>2. row.pc = "sent" /\ row.request = r /\ row.token = store.token
    BY <1>1, <1>2, <2>1, SentGood
  <2> QED
    BY <2>1, <2>2, Moved
<1>5. \A d \in Calls : d # c => (Refreshing(d)' <=> Refreshing(d)) /\ (Open(d)' <=> Open(d))
  BY <1>1, <1>4 DEF Refreshing, UnderWay, Open, Completed
<1>6. Refreshing(c)' /\ (Open(c)' <=> ~Completed(r))
  BY <1>1, <1>2, <1>4 DEF Refreshing, UnderWay, Open, Completed
\* what the choice of the id means
<1>7. /\ ~Completed(r) => store.token = session.generation
      /\ receipt[r].status # "absent" => receipt[r].fingerprint = store.token
      /\ \A d \in Calls : (d # c /\ Refreshing(d)) =>
           /\ call[d].request # r => call[d].token < store.token
           /\ Open(d) => call[d].request = r
      /\ (Needed(r) \/ receipt[r].status = "absent")
      /\ store.pending = r \/ store.pending = NoRequest
  <2>1. CASE store.pending # NoRequest
    <3>1. r = store.pending
      BY <1>1, <2>1 DEF RequestChosen
    <3> QED
      BY <1>1, <1>2, <3>1, Zenon DEF RefreshParts, HeldGood, HeldBy, Needed
  <2>2. CASE store.pending = NoRequest
    <3>1. receipt[r].status = "absent"
      BY <1>1, <2>2 DEF RequestChosen
    <3>2. store.token = session.generation
      BY <1>1, <2>2 DEF RefreshParts, HeldGood
    <3>3. \A d \in Calls : Refreshing(d) => /\ call[d].request # NoRequest /\ HeldBy(d)
      BY <1>1, RefreshRequest, RefreshOf
    <3> QED
      BY <2>2, <3>1, <3>2, <3>3 DEF HeldBy
  <2> QED
    BY <2>1, <2>2
<1>8. HeldGood'
  <2>1. \/ store'.token = session'.generation
        \/ store'.pending # NoRequest /\ Completed(store.pending)'
    BY <1>1, <1>2, <1>3, <1>7 DEF Completed
  <2>2. receipt'[store'.pending].status # "absent"
          => receipt'[store'.pending].fingerprint = store'.token
    BY <1>1, <1>3, <1>7
  <2>3. \A d \in Calls : Refreshing(d)' => HeldBy(d)'
    <3> SUFFICES ASSUME NEW d \in Calls, Refreshing(d)' PROVE HeldBy(d)'
      OBVIOUS
    <3>1. CASE d = c
      BY <1>3, <1>4, <3>1 DEF HeldBy
    <3>2. CASE d # c
      <4>1. /\ Refreshing(d) /\ call'[d] = call[d] /\ (Open(d)' => Open(d))
        BY <1>4, <1>5, <3>2
      <4>2. HeldBy(d)
        BY <1>1, <4>1, RefreshOf
      <4> QED
        BY <1>1, <1>3, <1>7, <3>2, <4>1, <4>2 DEF HeldBy
    <3> QED
      BY <3>1, <3>2
  <2> QED
    BY <2>1, <2>2, <2>3, Zenon DEF HeldGood
<1>9. OpenGood'
  <2>1. \A d \in Calls : Open(d)' => call'[d].token = session'.generation /\ call'[d].request = r
    <3> SUFFICES ASSUME NEW d \in Calls, Open(d)'
                 PROVE  call'[d].token = session'.generation /\ call'[d].request = r
      OBVIOUS
    <3>1. CASE d = c
      BY <1>1, <1>4, <1>6, <1>7, <3>1
    <3>2. CASE d # c
      <4>1. Open(d) /\ Refreshing(d)
        BY <1>5, <3>2 DEF Open
      <4> QED
        BY <1>1, <1>4, <1>7, <3>2, <4>1, RefreshOf
    <3> QED
      BY <3>1, <3>2
  <2>2. \A d, e \in Calls : (call'[d].pc = "answered" /\ call'[e].pc = "answered") => d = e
    BY <1>4 DEF RefreshParts, OpenGood
  <2>3. \A d \in Calls : Refreshing(d)' =>
          /\ call'[d].pc = "replay" => Completed(call[d].request)'
          /\ call'[d].pc = "claimed" => receipt'[call'[d].request].status # "absent"
    <3> SUFFICES ASSUME NEW d \in Calls, Refreshing(d)'
                 PROVE  /\ call'[d].pc = "replay" => Completed(call[d].request)'
                        /\ call'[d].pc = "claimed" => receipt'[call'[d].request].status # "absent"
      OBVIOUS
    <3>1. CASE d = c
      BY <1>4, <3>1
    <3>2. CASE d # c
      BY <1>1, <1>4, <1>5, <3>2, RefreshOf DEF Completed
    <3> QED
      BY <3>1, <3>2
  <2> QED
    BY <2>1, <2>2, <2>3, Zenon DEF OpenGood
<1>10. KeptGood'
  <2> SUFFICES ASSUME Live', ~adrift' PROVE KeptGood'
    BY Zenon DEF KeptGood
  <2>1. Live /\ ~adrift
    BY <1>1 DEF Live
  <2>2. \A q \in Requests : (Needed(q)' /\ Completed(q)') => ~receipt'[q].expired
    <3> SUFFICES ASSUME NEW q \in Requests, Needed(q)', Completed(q)' PROVE ~receipt'[q].expired
      OBVIOUS
    <3>1. Completed(q)
      BY <1>1 DEF Completed
    <3>2. Needed(q)
      <4>1. CASE q = r
        BY <1>7, <3>1, <4>1 DEF Completed
      <4>2. CASE q # r
        <5>1. PICK d \in Calls : call'[d].request = q /\ call'[d].awaited
          BY <1>3, <4>2 DEF Needed
        <5>2. d # c
          BY <1>4, <4>2, <5>1
        <5> QED
          BY <1>4, <5>1, <5>2 DEF Needed
      <4> QED
        BY <4>1, <4>2
    <3> QED
      BY <1>1, <2>1, <3>1, <3>2, Zenon DEF RefreshParts, KeptGood
  <2>3. \A d \in Calls : Refreshing(d)' =>
          /\ call'[d].pc # "unauthenticated"
          /\ call'[d].pc = "refused" => Completed(call[d].request)'
    <3> SUFFICES ASSUME NEW d \in Calls, Refreshing(d)'
                 PROVE  /\ call'[d].pc # "unauthenticated"
                        /\ call'[d].pc = "refused" => Completed(call[d].request)'
      OBVIOUS
    <3>1. CASE d = c
      BY <1>4, <3>1
    <3>2. CASE d # c
      BY <1>1, <1>4, <1>5, <2>1, <3>2 DEF RefreshParts, KeptGood, Completed
    <3> QED
      BY <3>1, <3>2
  <2> QED
    BY <1>1, <1>3, <2>2, <2>3, Zenon DEF KeptGood
<1>11. session'.status # "replayed"
  BY <1>1 DEF RefreshParts
<1> QED
  BY <1>8, <1>9, <1>10, <1>11, Zenon DEF RefreshParts

\* The device takes an answer.
LEMMA RefreshReceives ==
  ASSUME SessionInv, RefreshParts, NEW c \in Calls, Receive(c)
  PROVE  RefreshParts'
<1>1. /\ UNCHANGED <<session, receipt, adrift>> /\ call' = [call EXCEPT ![c] = Quiet]
  BY DEF Receive, rows, history
<1>2. /\ UnderWay(c) /\ call[c].request # CodeRequest
      /\ \/ store' = Forgotten /\ call[c].pc = "unauthenticated"
         \/ store' = store /\ store.token = 0
         \/ /\ store'.token = call[c].answer /\ store'.pending = NoRequest
            /\ call[c].pc = "answered" /\ store.token # 0
  BY Received, Zenon
<1>3. Refreshing(c)
  BY <1>2 DEF Refreshing
<1>4. CASE store' = Forgotten /\ call[c].pc = "unauthenticated"
  <2>1. ~Live \/ adrift'
    BY <1>1, <1>3, <1>4, Zenon DEF RefreshParts, KeptGood
  <2> QED
    BY <1>1, <1>4, <2>1, HandlerFrame DEF Quiet
<1>5. CASE store' = store
  BY <1>1, <1>5, HandlerFrame DEF Quiet
<1>6. CASE /\ store'.token = call[c].answer /\ store'.pending = NoRequest
           /\ call[c].pc = "answered" /\ store.token # 0
  <2>1. HeldBy(c) /\ call[c].answer = session.generation /\ store.token < session.generation
    BY <1>3, <1>6, RefreshOf DEF HeldBy
  <2>2. /\ call'[c] = Quiet /\ \A d \in Calls : d # c => call'[d] = call[d]
    BY <1>1, Moved
  <2>3. ~Refreshing(c)' /\ call'[c].pc # "answered" /\ ~call'[c].awaited
    BY <2>2 DEF Refreshing, UnderWay, Quiet
  <2>4. \A d \in Calls : Refreshing(d)' => d # c /\ Refreshing(d) /\ call'[d] = call[d]
    BY <2>2, <2>3 DEF Refreshing, UnderWay
  <2>5. \A d \in Calls : Refreshing(d) => /\ call[d].token < session.generation /\ ~Open(d)
                                          /\ call[d].token \in Nat
    <3> SUFFICES ASSUME NEW d \in Calls, Refreshing(d)
                 PROVE  call[d].token < session.generation /\ ~Open(d) /\ call[d].token \in Nat
      OBVIOUS
    <3>1. HeldBy(d) /\ (Open(d) => call[d].token = session.generation)
      BY <1>6, RefreshOf
    <3>2. call[d].token \in Nat /\ store.token \in Nat /\ session.generation \in Nat
      BY RefreshRequest, Typed DEF StoreRow
    <3>3. call[d].token <= store.token
      BY <3>1 DEF HeldBy
    <3>4. call[d].token < session.generation
      BY <2>1, <3>2, <3>3
    <3> QED
      BY <3>1, <3>2, <3>4
  <2>6. \A d \in Calls : ~Open(d)'
    BY <1>1, <2>4, <2>5 DEF Open, Completed
  <2>7. \A d \in Calls : call'[d].pc # "answered"
    BY <1>6, <2>2, <2>3 DEF RefreshParts, OpenGood
  <2>8. HeldGood'
    <3>1. \A d \in Calls : Refreshing(d)' => HeldBy(d)'
      <4> SUFFICES ASSUME NEW d \in Calls, Refreshing(d)' PROVE HeldBy(d)'
        OBVIOUS
      <4>1. call'[d].token < store'.token /\ call'[d].token <= store'.token
        BY <1>6, <2>1, <2>4, <2>5, Typed
      <4> QED
        BY <2>6, <2>7, <4>1, Zenon DEF HeldBy
    <3> QED
      BY <1>1, <1>6, <2>1, <3>1, Zenon DEF HeldGood
  <2>9. OpenGood'
    <3>1. \A d \in Calls : Refreshing(d)' =>
            /\ call'[d].pc = "replay" => Completed(call[d].request)'
            /\ call'[d].pc = "claimed" => receipt'[call'[d].request].status # "absent"
      BY <1>1, <2>4, RefreshOf DEF Completed
    <3> QED
      BY <2>6, <2>7, <3>1, Zenon DEF OpenGood
  <2>10. KeptGood'
    <3> SUFFICES ASSUME Live', ~adrift' PROVE KeptGood'
      BY Zenon DEF KeptGood
    <3>1. Live /\ ~adrift
      BY <1>1 DEF Live
    <3>2. \A r \in Requests : Needed(r)' => Needed(r)
      BY <1>1, <1>6, NeededFrame DEF Quiet
    <3>3. store'.token # 0
      BY <1>6, <2>1, Typed
    <3>4. \A d \in Calls : Refreshing(d)' =>
            /\ call'[d].pc # "unauthenticated"
            /\ call'[d].pc = "refused" => Completed(call[d].request)'
      BY <1>1, <2>4, <3>1 DEF RefreshParts, KeptGood, Completed
    <3>5. \A r \in Requests : (Needed(r)' /\ Completed(r)') => ~receipt'[r].expired
      BY <1>1, <3>1, <3>2 DEF RefreshParts, KeptGood, Completed
    <3> QED
      BY <3>3, <3>4, <3>5, Zenon DEF KeptGood
  <2>11. session'.status # "replayed"
    BY <1>1 DEF RefreshParts
  <2> QED
    BY <2>8, <2>9, <2>10, <2>11, Zenon DEF RefreshParts
<1> QED
  BY <1>2, <1>4, <1>5, <1>6

\* The calls about a code leave the refreshes alone.
LEMMA RefreshCodes ==
  ASSUME SessionInv, RefreshParts, NEW c \in Calls,
         CreatePairingCode(c) \/ ReplacePairingCode(c)
  PROVE  RefreshParts'
<1>1. /\ UNCHANGED <<session, store, adrift>> /\ UnderWay(c) /\ call[c].request = CodeRequest
  BY Zenon DEF CreatePairingCode, ReplacePairingCode, rows, history, UnderWay
<1>2. \A r \in Requests : receipt'[r] = receipt[r]
  <2>1. UNCHANGED receipt \/ \E row : receipt' = [receipt EXCEPT ![CodeRequest] = row]
    BY DEF CreatePairingCode, ReplacePairingCode
  <2> QED
    BY <2>1, Typed, Constants DEF AllRequests
<1>3. CASE call' = [call EXCEPT ![c] = Quiet]
  BY <1>1, <1>2, <1>3, HandlerFrame DEF Quiet
<1>4. CASE call' = Refused(c)
  <2>1. PICK row : /\ call' = [call EXCEPT ![c] = row] /\ row.pc = "refused"
                   /\ row.request = call[c].request /\ row.awaited = call[c].awaited
    BY <1>1, <1>4, Refuses
  <2> QED
    BY <1>1, <1>2, <2>1, HandlerFrame
<1> QED
  BY <1>3, <1>4, Zenon DEF CreatePairingCode, ReplacePairingCode

\* A refresh that claims its receipt is of the token the store has.
LEMMA RefreshClaims ==
  ASSUME SessionInv, RefreshParts, NEW c \in Calls, ClaimReceipt(c)
  PROVE  RefreshParts'
<1>1. UNCHANGED <<session, store, adrift>> /\ UnderWay(c)
  BY DEF ClaimReceipt, rows, history, UnderWay
<1>2. CASE ClaimRefused(receipt[call[c].request])
  <2>1. UNCHANGED receipt /\ call' = Refused(c) /\ Completed(call[c].request)
    BY <1>2 DEF ClaimReceipt, ClaimRefused, Completed
  <2>2. PICK row : /\ call' = [call EXCEPT ![c] = row] /\ row.pc = "refused"
                   /\ row.request = call[c].request /\ row.awaited = call[c].awaited
                   /\ row.token = call[c].token
    BY <1>1, <2>1, Refuses
  <2> QED
    BY <1>1, <2>1, <2>2, HandlerFrame DEF Refreshing
<1>3. CASE ~ClaimRefused(receipt[call[c].request])
  <2>1. PICK r \in AllRequests : r = call[c].request
    BY <1>1, CallUnderWay
  <2>2. /\ receipt' = [receipt EXCEPT ![r] = Claim(receipt[r], call[c].token)]
        /\ receipt[r].status # "completed"
    BY <1>3, <2>1 DEF ClaimReceipt, ClaimRefused
  <2>3. PICK row : /\ call' = [call EXCEPT ![c] = row] /\ row.pc = "claimed"
                   /\ row.request = r /\ row.token = call[c].token
                   /\ row.awaited = call[c].awaited
    BY <1>3, <2>1, Claims
  <2>4. CASE r = CodeRequest
    <3>1. \A q \in Requests : receipt'[q] = receipt[q]
      BY <2>2, <2>4, Typed, Constants DEF AllRequests
    <3> QED
      BY <1>1, <2>1, <2>3, <2>4, <3>1, HandlerFrame
  <2>5. CASE r # CodeRequest
    <3>1. Refreshing(c) /\ Open(c) /\ r \in Requests
      BY <1>1, <2>1, <2>2, <2>5 DEF Refreshing, Open, Completed, AllRequests
    <3>2. /\ receipt'[r].status = "claimed" /\ receipt'[r].fingerprint = call[c].token
          /\ \A q \in AllRequests : q # r => receipt'[q] = receipt[q]
      BY <1>1, <2>2, Typed, CallUnderWay, ReceiptRows
    <3>3. \A q \in Requests : (Completed(q)' <=> Completed(q)) /\ q \in AllRequests
      BY <2>2, <3>2 DEF Completed, AllRequests
    <3>4. call'[c] = row /\ \A d \in Calls : d # c => call'[d] = call[d]
      BY <2>3, Moved
    <3>5. \A d \in Calls : /\ call'[d].request = call[d].request /\ call'[d].token = call[d].token
                           /\ call'[d].awaited = call[d].awaited
                           /\ Refreshing(d)' <=> Refreshing(d)
      BY <2>1, <2>3, <3>1, <3>4 DEF Refreshing, UnderWay
    <3>6. \A d \in Calls : Open(d)' <=> Open(d)
      BY <3>3, <3>5, RefreshRequest DEF Open, Completed
    <3>7. \A d \in Calls : d # c => call'[d].pc = call[d].pc /\ call'[d].answer = call[d].answer
      BY <3>4
    <3>8. call'[c].pc = "claimed"
      BY <2>3, <3>4
    <3>9. HeldGood'
      <4> SUFFICES ASSUME store'.token # 0 PROVE HeldGood'
        BY Zenon DEF HeldGood
      <4>1. store.token # 0 /\ HeldBy(c) /\ call[c].token = session.generation
        BY <1>1, <3>1, RefreshOf
      <4>2. store.pending = r /\ store.token = session.generation
        <5>1. call[c].token <= store.token /\ call[c].request = store.pending
          BY <3>1, <4>1 DEF HeldBy
        <5> QED
          BY <2>1, <4>1, <5>1, Typed DEF StoreRow
      <4>3. \A d \in Calls : Refreshing(d)' => HeldBy(d)'
        <5> SUFFICES ASSUME NEW d \in Calls, Refreshing(d)' PROVE HeldBy(d)'
          OBVIOUS
        <5>1. HeldBy(d)
          BY <3>5, <4>1, RefreshOf
        <5>2. call'[d].pc = "answered" => call[d].pc = "answered" /\ call'[d].answer = call[d].answer
          BY <3>7, <3>8
        <5> QED
          BY <1>1, <3>5, <3>6, <5>1, <5>2, Zenon DEF HeldBy
      <4> QED
        BY <1>1, <3>2, <4>1, <4>2, <4>3 DEF HeldGood
    <3>10. OpenGood'
      <4>1. \A d \in Calls : Open(d)' => call'[d].token = session'.generation
        BY <1>1, <3>5, <3>6 DEF RefreshParts, OpenGood
      <4>2. \A d, e \in Calls : (Open(d)' /\ Open(e)') => call'[d].request = call'[e].request
        BY <3>5, <3>6 DEF RefreshParts, OpenGood
      <4>3. \A d, e \in Calls : (call'[d].pc = "answered" /\ call'[e].pc = "answered") => d = e
        BY <3>7, <3>8 DEF RefreshParts, OpenGood
      <4>4. \A d \in Calls : Refreshing(d)' =>
              /\ call'[d].pc = "replay" => Completed(call[d].request)'
              /\ call'[d].pc = "claimed" => receipt'[call'[d].request].status # "absent"
        <5> SUFFICES ASSUME NEW d \in Calls, Refreshing(d)'
                     PROVE  /\ call'[d].pc = "replay" => Completed(call[d].request)'
                            /\ call'[d].pc = "claimed" =>
                                 receipt'[call'[d].request].status # "absent"
          OBVIOUS
        <5>1. CASE d = c
          BY <2>1, <3>2, <3>5, <3>8, <5>1
        <5>2. CASE d # c
          <6>1. /\ call[d].pc = "replay" => Completed(call[d].request)
                /\ call[d].pc = "claimed" => receipt[call[d].request].status # "absent"
                /\ call[d].request \in AllRequests
            BY <3>5, RefreshOf, RefreshRequest
          <6>2. \/ receipt'[call[d].request].status = receipt[call[d].request].status
                \/ receipt'[call[d].request].status = "claimed" /\ call[d].request = r
            BY <3>2, <6>1
          <6> QED
            BY <2>2, <3>5, <3>7, <5>2, <6>1, <6>2 DEF Completed
        <5> QED
          BY <5>1, <5>2
      <4> QED
        BY <4>1, <4>2, <4>3, <4>4, Zenon DEF OpenGood
    <3>11. KeptGood'
      <4> SUFFICES ASSUME Live', ~adrift' PROVE KeptGood'
        BY Zenon DEF KeptGood
      <4>1. Live /\ ~adrift
        BY <1>1 DEF Live
      <4>2. \A q \in Requests : (Needed(q)' /\ Completed(q)') => ~receipt'[q].expired
        <5> SUFFICES ASSUME NEW q \in Requests, Needed(q)', Completed(q)' PROVE ~receipt'[q].expired
          OBVIOUS
        <5>1. Completed(q) /\ q # r
          BY <2>2, <3>3 DEF Completed
        <5>2. Needed(q)
          BY <1>1, <3>5 DEF Needed
        <5> QED
          BY <3>2, <3>3, <4>1, <5>1, <5>2 DEF RefreshParts, KeptGood
      <4>3. \A d \in Calls : Refreshing(d)' =>
              /\ call'[d].pc # "unauthenticated"
              /\ call'[d].pc = "refused" => Completed(call[d].request)'
        <5> SUFFICES ASSUME NEW d \in Calls, Refreshing(d)'
                     PROVE  /\ call'[d].pc # "unauthenticated"
                            /\ call'[d].pc = "refused" => Completed(call[d].request)'
          OBVIOUS
        <5>1. CASE d = c
          BY <3>8, <5>1
        <5>2. CASE d # c
          <6>1. /\ call[d].pc # "unauthenticated"
                /\ call[d].pc = "refused" => Completed(call[d].request)
                /\ call[d].request \in Requests
            BY <3>5, <4>1, RefreshRequest DEF RefreshParts, KeptGood
          <6> QED
            BY <3>3, <3>5, <3>7, <5>2, <6>1 DEF Completed
        <5> QED
          BY <5>1, <5>2
      <4>4. store'.token # 0
        BY <1>1, <4>1 DEF RefreshParts, KeptGood
      <4> QED
        BY <4>2, <4>3, <4>4, Zenon DEF KeptGood
    <3>12. session'.status # "replayed"
      BY <1>1 DEF RefreshParts
    <3> QED
      BY <3>9, <3>10, <3>11, <3>12, Zenon DEF RefreshParts
  <2> QED
    BY <2>4, <2>5
<1> QED
  BY <1>2, <1>3

\* A refused refresh reads its receipt back: while the device waits for it the
\* answer is there.
LEMMA RefreshResolves ==
  ASSUME SessionInv, RefreshParts, NEW c \in Calls, ResolveRefused(c)
  PROVE  RefreshParts'
<1>1. /\ UNCHANGED <<session, receipt, store, adrift>> /\ UnderWay(c) /\ call[c].pc = "refused"
  BY DEF ResolveRefused, rows, UnderWay
<1>2. CASE Resolve(receipt[call[c].request], call[c].token) = "recorded"
  <2>1. PICK row : /\ call' = [call EXCEPT ![c] = row] /\ row.pc = "replay"
                   /\ row.request = call[c].request /\ row.token = call[c].token
                   /\ row.awaited = call[c].awaited
    BY <1>2, Resolves
  <2>2. Completed(call[c].request)
    BY <1>2 DEF Resolve, Completed
  <2> QED
    BY <1>1, <2>1, <2>2, HandlerFrame DEF Refreshing
<1>3. CASE call' = [call EXCEPT ![c] = Quiet]
  BY <1>1, <1>3, HandlerFrame DEF Quiet
<1>4. CASE /\ Resolve(receipt[call[c].request], call[c].token) = "failed"
           /\ call[c].request # CodeRequest
           /\ call' = [call EXCEPT ![c] = Answer(c, [call[c] EXCEPT !.pc = "unauthenticated"])]
  <2>1. Refreshing(c) /\ call[c].request \in Requests
    BY <1>1, <1>4, RefreshRequest DEF Refreshing
  <2>2. PICK row : /\ call' = [call EXCEPT ![c] = row]
                   /\ \/ row.pc = "idle" /\ ~row.awaited
                      \/ /\ row.pc = "unauthenticated" /\ row.request = call[c].request
                         /\ row.token = call[c].token /\ row.awaited /\ call[c].awaited
    BY <1>1, <1>4, TurnsAway
  <2>3. CASE row.pc = "idle" /\ ~row.awaited
    BY <1>1, <2>2, <2>3, HandlerFrame
  <2>4. CASE /\ row.pc = "unauthenticated" /\ row.request = call[c].request
             /\ row.token = call[c].token /\ row.awaited /\ call[c].awaited
    <3>1. Needed(call[c].request)
      BY <2>4 DEF Needed
    <3>2. ~Live \/ adrift
      <4>1. ~Completed(call[c].request) \/ receipt[call[c].request].expired
        BY <1>4 DEF Resolve, Completed
      <4> QED
        BY <1>1, <2>1, <3>1, <4>1, Zenon DEF RefreshParts, KeptGood
    <3> QED
      BY <1>1, <2>1, <2>2, <2>4, <3>2, HandlerFrame
  <2> QED
    BY <2>2, <2>3, <2>4
<1> QED
  BY <1>2, <1>3, <1>4, ResolvesNot, Zenon

\* A rotation for a device that is not overtaken.
LEMMA RefreshRotates ==
  ASSUME SessionInv, RefreshParts, NEW c \in Calls, Refreshing(c), Live, Room,
         NEW n \in Nat, Rotated(n), Noted(c), ~overtaken', call' = Answered(c), UNCHANGED store,
         store.pending = call[c].request,
         \A r \in Requests : /\ receipt'[r].fingerprint = receipt[r].fingerprint
                             /\ receipt'[r].expired = receipt[r].expired
                             /\ r # call[c].request => receipt'[r].status = receipt[r].status,
         receipt[call[c].request].status # "absent",
         call[c].pc = "claimed" \/ Completed(call[c].request),
         adrift => adrift',
         receipt'[call[c].request].status = "completed"
  PROVE  RefreshParts'
<1>1. /\ session'.generation = session.generation + 1 /\ session'.status = "live"
      /\ session.generation + 1 \in Generations
  BY RotationMoves
<1>2. /\ \A d \in Calls : d # c => call'[d] = call[d]
      /\ \/ call'[c] = Quiet
         \/ /\ call[c].awaited /\ call'[c].awaited /\ call'[c].pc = "answered"
            /\ call'[c].answer = session.generation + 1
            /\ call'[c].request = call[c].request /\ call'[c].token = call[c].token
  BY <1>1, AnswerGood DEF Refreshing
<1>3. store.token = call[c].token /\ \A d \in Calls : call[d].pc # "answered"
  BY Zenon DEF Noted, Overtaking
<1>4. /\ store.token \in Nat /\ store.token # 0 /\ store.token <= session.generation
      /\ session.generation \in Nat /\ call[c].request \in Requests
      /\ call[c].request # NoRequest
  BY <1>3, RefreshRequest, Typed DEF StoreRow
<1>5. \A d \in Calls : Refreshing(d)' =>
        /\ Refreshing(d) /\ call'[d].token = call[d].token /\ call'[d].request = call[d].request
        /\ call'[d].pc = "answered" \/ (d # c /\ call'[d] = call[d])
        /\ call'[d].pc = "answered" => call'[d].answer = session'.generation
  BY <1>1, <1>2, <1>3 DEF Refreshing, UnderWay, Quiet
<1>6. \A r \in Requests : Completed(r) => Completed(r)'
  BY DEF Completed
<1>7. \A d \in Calls : ~Open(d)'
  <2> SUFFICES ASSUME NEW d \in Calls, Open(d)' PROVE FALSE
    OBVIOUS
  <2>1. Refreshing(d) /\ call'[d].request = call[d].request /\ ~Completed(call[d].request)'
    BY <1>5 DEF Open
  <2>2. call[d].request \in Requests
    BY <2>1, RefreshRequest
  <2>3. receipt'[call[d].request].status # "completed"
    BY <2>1 DEF Completed
  <2>4. Open(d)
    BY <2>1, <2>2, <2>3 DEF Open, Completed
  <2>5. HeldBy(d)
    BY <1>4, <2>1, RefreshOf
  <2> QED
    BY <2>3, <2>4, <2>5 DEF HeldBy
<1>8. HeldGood'
  <2>1. \A d \in Calls : Refreshing(d)' => HeldBy(d)'
    <3> SUFFICES ASSUME NEW d \in Calls, Refreshing(d)' PROVE HeldBy(d)'
      OBVIOUS
    <3>1. HeldBy(d)
      BY <1>4, <1>5, RefreshOf
    <3>2. store'.token < session'.generation
      BY <1>1, <1>4
    <3> QED
      BY <1>5, <1>7, <3>1, <3>2, Zenon DEF HeldBy
  <2>2. receipt'[store'.pending].status = "completed"
    OBVIOUS
  <2>3. receipt[store.pending].fingerprint = store.token
    BY <1>4 DEF RefreshParts, HeldGood
  <2>4. receipt'[store'.pending].fingerprint = store'.token
    BY <1>4, <2>3
  <2>5. store'.pending # NoRequest
    BY <1>4
  <2> QED
    BY <2>1, <2>2, <2>4, <2>5, Zenon DEF HeldGood, Completed
<1>9. OpenGood'
  <2>1. \A d, e \in Calls : (call'[d].pc = "answered" /\ call'[e].pc = "answered") => d = e
    BY <1>2, <1>3
  <2>2. \A d \in Calls : Refreshing(d)' =>
          /\ call'[d].pc = "replay" => Completed(call[d].request)'
          /\ call'[d].pc = "claimed" => receipt'[call'[d].request].status # "absent"
    <3> SUFFICES ASSUME NEW d \in Calls, Refreshing(d)', call'[d].pc # "answered"
                 PROVE  /\ call'[d].pc = "replay" => Completed(call[d].request)'
                        /\ call'[d].pc = "claimed" => receipt'[call'[d].request].status # "absent"
      BY Zenon
    <3>1. /\ Refreshing(d) /\ call'[d] = call[d]
          /\ call[d].pc = "replay" => Completed(call[d].request)
          /\ call[d].pc = "claimed" => receipt[call[d].request].status # "absent"
          /\ call[d].request \in Requests
      BY <1>5, RefreshOf, RefreshRequest
    <3> QED
      BY <3>1 DEF Completed
  <2> QED
    BY <1>7, <2>1, <2>2, Zenon DEF OpenGood
<1>10. KeptGood'
  <2> SUFFICES ASSUME ~adrift' PROVE KeptGood'
    BY Zenon DEF KeptGood
  <2>1. ~adrift
    BY Zenon
  <2>2. \A r \in Requests : (Needed(r)' /\ Completed(r)') => ~receipt'[r].expired
    <3> SUFFICES ASSUME NEW r \in Requests, Needed(r)', Completed(r)' PROVE ~receipt'[r].expired
      OBVIOUS
    <3>1. Needed(r)
      <4>1. ASSUME NEW d \in Calls, call'[d].request = r, call'[d].awaited PROVE Needed(r)
        <5>1. call[d].request = r /\ call[d].awaited
          BY <1>2, <4>1 DEF Quiet
        <5> QED
          BY <5>1 DEF Needed
      <4> QED
        BY <4>1, Zenon DEF Needed
    <3>2. CASE Completed(r)
      BY <2>1, <3>1, <3>2 DEF RefreshParts, KeptGood
    <3>3. CASE ~Completed(r)
      <4>1. r = call[c].request
        BY <3>3 DEF Completed
      <4>2. call[c].pc = "claimed"
        BY <3>3, <4>1
      <4>3. ~receipt[call[c].request].expired
        BY <4>2, Zenon DEF Noted
      <4> QED
        BY <4>1, <4>3
    <3> QED
      BY <3>2, <3>3
  <2>3. \A d \in Calls : Refreshing(d)' =>
          /\ call'[d].pc # "unauthenticated"
          /\ call'[d].pc = "refused" => Completed(call[d].request)'
    <3> SUFFICES ASSUME NEW d \in Calls, Refreshing(d)', call'[d].pc # "answered"
                 PROVE  /\ call'[d].pc # "unauthenticated"
                        /\ call'[d].pc = "refused" => Completed(call[d].request)'
      BY Zenon
    <3>1. /\ Refreshing(d) /\ call'[d] = call[d]
          /\ call[d].pc # "unauthenticated"
          /\ call[d].pc = "refused" => Completed(call[d].request)
          /\ call[d].request \in Requests
      BY <1>5, <2>1, RefreshRequest DEF RefreshParts, KeptGood
    <3> QED
      BY <3>1 DEF Completed
  <2>4. store'.token # 0
    BY <1>4
  <2> QED
    BY <2>2, <2>3, <2>4, Zenon DEF KeptGood
<1> QED
  BY <1>1, <1>8, <1>9, <1>10, Zenon DEF RefreshParts

LEMMA RefreshRefreshes ==
  ASSUME SessionInv, RefreshParts, NEW c \in Calls, RefreshDeviceSession(c), ~overtaken',
         adrift => adrift'
  PROVE  RefreshParts'
<1>1. /\ UNCHANGED store /\ UnderWay(c) /\ call[c].pc = "claimed" /\ call[c].request # CodeRequest
  BY RefreshOutcome, Zenon
<1>2. Refreshing(c) /\ call[c].request \in Requests /\ call[c].request \in AllRequests
      /\ call[c].token \in Nat
  BY <1>1, RefreshRequest DEF Refreshing
<1>3. GateOpen(receipt[call[c].request]) => Open(c) /\ call[c].token = session.generation
  BY <1>2, RefreshOf DEF GateOpen, Open, Completed
<1>4. ASSUME NEW n \in Snapshots(c), GateOpen(receipt[call[c].request]),
             Live, Room, Rotated(n), Noted(c), call' = Answered(c),
             receipt' = [receipt EXCEPT ![call[c].request] =
                           Complete(receipt[call[c].request], 1)]
      PROVE  RefreshParts'
  <2>1. PICK r \in Requests : r = call[c].request /\ r \in AllRequests
    BY <1>2
  <2>2. store.token = call[c].token /\ store.token # 0
    <3>1. store.token = call[c].token
      BY <1>4, Zenon DEF Noted, Overtaking
    <3> QED
      BY <1>2, <3>1, RefreshRequest
  <2>3. store.pending = r
    BY <1>2, <1>3, <1>4, <2>1, <2>2, RefreshOf DEF HeldBy
  <2>4. receipt[r].status # "absent"
    BY <1>1, <1>2, <2>1, RefreshOf
  <2>5. receipt' = [receipt EXCEPT ![r] = Complete(receipt[r], 1)]
    BY <1>4, <2>1
  <2>6. /\ Complete(receipt[r], 1).status = "completed"
        /\ Complete(receipt[r], 1).fingerprint = receipt[r].fingerprint
        /\ Complete(receipt[r], 1).expired = receipt[r].expired
    <3>1. receipt[r] \in ReceiptRow
      BY <2>1, ReceiptRows
    <3> QED
      BY <3>1 DEF Complete, ReceiptRow, ReceiptOf
  <2>7. receipt'[r] = Complete(receipt[r], 1)
        /\ \A q \in Requests : q # r => receipt'[q] = receipt[q]
    BY <2>1, <2>5, Typed DEF AllRequests
  <2>8. \A q \in Requests : /\ receipt'[q].fingerprint = receipt[q].fingerprint
                            /\ receipt'[q].expired = receipt[q].expired
                            /\ q # r => receipt'[q].status = receipt[q].status
    BY <2>6, <2>7
  <2>9. receipt'[r].status = "completed"
    BY <2>6, <2>7
  <2> QED
    BY <1>1, <1>2, <1>4, <2>1, <2>3, <2>4, <2>8, <2>9, SnapshotNat, RefreshRotates, Zenon
<1>5. ASSUME NEW n \in Snapshots(c), GateOpen(receipt[call[c].request]),
             ~(call[c].token = session.generation /\ Live), LooksStolen(call[c].token, n)
      PROVE  FALSE
  <2>1. call[c].token = session.generation /\ ~Live
    BY <1>3, <1>5
  <2>2. n \in Nat /\ n <= session.generation
    BY SnapshotNat
  <2> QED
    BY <1>5, <2>1, <2>2, Typed DEF LooksStolen
<1>6. ASSUME call' = Refused(c), UNCHANGED <<session, receipt, adrift>>,
             \/ ~GateOpen(receipt[call[c].request])
             \/ ~(call[c].token = session.generation /\ Live)
      PROVE  RefreshParts'
  <2>1. Completed(call[c].request) \/ ~Live
    BY <1>3, <1>6 DEF GateOpen, Completed
  <2>2. PICK row : /\ call' = [call EXCEPT ![c] = row] /\ row.pc = "refused"
                   /\ row.request = call[c].request /\ row.awaited = call[c].awaited
                   /\ row.token = call[c].token
    BY <1>1, <1>6, Refuses
  <2> QED
    BY <1>1, <1>2, <1>6, <2>1, <2>2, HandlerFrame
<1> QED
  BY <1>4, <1>5, <1>6, RefreshOutcome, Zenon

LEMMA RefreshReissues ==
  ASSUME SessionInv, RefreshParts, NEW c \in Calls, ReissueSessionCredentials(c), ~overtaken',
         adrift => adrift'
  PROVE  RefreshParts'
<1>1. /\ UNCHANGED <<receipt, store>> /\ UnderWay(c) /\ call[c].pc = "replay"
      /\ call[c].request # CodeRequest
  BY ReissueOutcome, Zenon
<1>2. Refreshing(c) /\ call[c].request \in Requests /\ Completed(call[c].request)
  BY <1>1, RefreshRequest, RefreshOf DEF Refreshing
<1>3. ASSUME NEW n \in Snapshots(c), Live, Room, Rotated(n), Noted(c), call' = Answered(c)
      PROVE  RefreshParts'
  <2>1. PICK r \in Requests : r = call[c].request
    BY <1>2
  <2>2. store.token = call[c].token
    BY <1>3, Zenon DEF Noted, Overtaking
  <2>3. store.token # 0 /\ store.token \in Nat
    BY <1>2, <2>2, RefreshRequest
  <2>4. HeldBy(c)
    BY <1>2, <2>3, RefreshOf
  <2>5. store.pending = r
    BY <2>1, <2>2, <2>3, <2>4 DEF HeldBy
  <2>6. receipt'[r].status = "completed" /\ receipt[r].status # "absent"
    BY <1>1, <1>2, <2>1 DEF Completed
  <2> QED
    BY <1>1, <1>2, <1>3, <2>1, <2>5, <2>6, SnapshotNat, RefreshRotates, Zenon
<1>4. ASSUME ~Live, UNCHANGED <<session, adrift>>,
             call' = [call EXCEPT ![c] = Answer(c, [call[c] EXCEPT !.pc = "unauthenticated"])]
      PROVE  RefreshParts'
  <2>1. PICK row : /\ call' = [call EXCEPT ![c] = row]
                   /\ \/ row.pc = "idle" /\ ~row.awaited
                      \/ /\ row.pc = "unauthenticated" /\ row.request = call[c].request
                         /\ row.token = call[c].token /\ row.awaited /\ call[c].awaited
    BY <1>1, <1>4, TurnsAway
  <2> QED
    BY <1>1, <1>2, <1>4, <2>1, HandlerFrame
<1> QED
  BY <1>3, <1>4, ReissueOutcome, Zenon

LEMMA RefreshInit == Init => RefreshParts
<1> SUFFICES ASSUME Init PROVE RefreshParts
  OBVIOUS
<1>1. \A c \in Calls : ~Refreshing(c) /\ call[c].pc # "answered" /\ ~Open(c) /\ ~call[c].awaited
  BY DEF Init, Refreshing, UnderWay, Quiet, Open
<1>2. session.generation = 1 /\ session.status # "replayed" /\ store.token = 1
      /\ store.pending = NoRequest
  BY DEF Init
<1>3. HeldGood
  BY <1>1, <1>2 DEF HeldGood
<1>4. OpenGood
  BY <1>1, Zenon DEF OpenGood
<1>5. KeptGood
  <2>1. \A r \in Requests : ~Needed(r)
    BY <1>1, <1>2, Constants DEF Needed
  <2> QED
    BY <1>1, <1>2, <2>1 DEF KeptGood
<1> QED
  BY <1>2, <1>3, <1>4, <1>5, Zenon DEF RefreshParts

LEMMA RefreshInvariant == Spec => []RefreshInv
<1>1. Init => RefreshInv
  BY RefreshInit DEF RefreshInv
<1>2. SessionInv /\ RefreshInv /\ [Next]_vars => RefreshInv'
  <2> SUFFICES ASSUME SessionInv, RefreshInv, [Next]_vars, ~overtaken' PROVE RefreshParts'
    BY Zenon DEF RefreshInv
  <2>1. RefreshParts /\ (adrift => adrift')
    BY NotedStays, Zenon DEF RefreshInv
  <2>2. CASE UNCHANGED vars
    BY <2>1, <2>2, RefreshStutter DEF vars
  <2>3. CASE BeRefused
    BY <2>1, <2>3, RefreshTurnedAway
  <2>4. ASSUME NEW c \in Calls, Device(c) PROVE RefreshParts'
    BY <2>1, <2>4, RefreshStarts, RefreshDevice, RefreshReceives DEF Device
  <2>5. ASSUME NEW c \in Calls, Handle(c) PROVE RefreshParts'
    BY <2>1, <2>5, RefreshDevice, RefreshClaims, RefreshResolves, RefreshRefreshes,
       RefreshReissues, RefreshCodes DEF Handle
  <2>6. CASE \/ RevokeDevice \/ ExpireSession \/ (\E k \in Codes : PairDevice(k))
             \/ (\E r \in AllRequests : ExpireReceipt(r))
    BY <2>1, <2>6, RefreshRows
  <2> QED
    BY <2>2, <2>3, <2>4, <2>5, <2>6, Zenon DEF Next, AllRequests
<1> QED
  BY <1>1, <1>2, SessionInvariant, PTL DEF Spec

\* However its calls are lost, retried or overlap, none of a device's refreshes
\* is taken for a stolen token unless credentials were issued past it; and unless
\* it was also turned away or outlived the receipt it needed, it holds the
\* current token or the id of the refresh that rotated it away, which the
\* receipt still answers (beginRefresh, refreshDeviceSession).
THEOREM AlwaysRecoverable == Spec => []Recoverable
<1>1. SessionInv /\ RefreshInv => Recoverable
  <2> SUFFICES ASSUME SessionInv, RefreshInv, ~overtaken PROVE Recoverable
    BY Zenon DEF Recoverable
  <2>1. RefreshParts
    BY Zenon DEF RefreshInv
  <2>2. session.status # "replayed"
    BY <2>1, Zenon DEF RefreshParts
  <2>3. ASSUME Live, ~adrift, store.token # session.generation
        PROVE  /\ store.pending # NoRequest
               /\ receipt[store.pending].status = "completed"
               /\ receipt[store.pending].fingerprint = store.token
               /\ ~receipt[store.pending].expired
    <3>1. store.token # 0
      BY <2>1, <2>3, Zenon DEF RefreshParts, KeptGood
    <3>2. /\ store.pending # NoRequest /\ Completed(store.pending)
          /\ receipt[store.pending].status # "absent" =>
               receipt[store.pending].fingerprint = store.token
      BY <2>1, <2>3, <3>1, Zenon DEF RefreshParts, HeldGood
    <3>3. store.pending \in Requests /\ Needed(store.pending)
      BY <3>2, Typed DEF StoreRow, Needed
    <3>4. ~receipt[store.pending].expired
      BY <2>1, <2>3, <3>2, <3>3, Zenon DEF RefreshParts, KeptGood
    <3> QED
      BY <3>2, <3>4 DEF Completed
  <2>4. Live /\ ~adrift => store.token # 0
    BY <2>1, Zenon DEF RefreshParts, KeptGood
  <2> QED
    BY <2>2, <2>3, <2>4, Zenon DEF Recoverable
<1> QED
  BY <1>1, SessionInvariant, RefreshInvariant, PTL

-----------------------------------------------------------------------------
(* The codes of one request.                                               *)

Usable(k) == code[k].status \in {"live", "consumed"}

Replacing(c) == call[c].pc = "replay" /\ call[c].request = CodeRequest

\* A code is usable only while the receipt names it, and the one replacement
\* under way is of the code the receipt names.
CodeParts ==
  /\ \A k \in Codes : Usable(k) => /\ receipt[CodeRequest].status = "completed"
                                   /\ receipt[CodeRequest].outcome = k
  /\ \A c \in Calls : Replacing(c) => /\ receipt[CodeRequest].status = "completed"
                                      /\ receipt[CodeRequest].outcome = call[c].answer
  /\ \A c, d \in Calls : (Replacing(c) /\ Replacing(d)) => c = d

CodeInv == ~doubled => CodeParts

\* A step that names no code and begins no replacement.
LEMMA CodeFrame ==
  ASSUME CodeParts,
         receipt'[CodeRequest].status = receipt[CodeRequest].status,
         receipt'[CodeRequest].outcome = receipt[CodeRequest].outcome,
         \A k \in Codes : Usable(k)' => Usable(k),
         \A c \in Calls : Replacing(c)' => Replacing(c) /\ call'[c].answer = call[c].answer
  PROVE  CodeParts'
BY Zenon DEF CodeParts

\* One handler moves and begins no replacement.
LEMMA ReplacingFrame ==
  ASSUME SessionInv, NEW c \in Calls, NEW row, call' = [call EXCEPT ![c] = row],
         row.pc # "replay" \/ row.request # CodeRequest \/ row = call[c]
  PROVE  \A d \in Calls : Replacing(d)' => Replacing(d) /\ call'[d].answer = call[d].answer
<1>1. call'[c] = row /\ \A d \in Calls : d # c => call'[d] = call[d]
  BY Moved
<1> QED
  BY <1>1 DEF Replacing

\* The device's steps and the deaths of its handlers.
LEMMA CodeDevice ==
  ASSUME SessionInv, CodeParts,
         \/ BeRefused \/ UNCHANGED vars
         \/ \E c \in Calls : Device(c) \/ Die(c)
  PROVE  CodeParts'
<1>1. UNCHANGED <<code, receipt>>
  BY DEF BeRefused, Device, StartRefresh, StartCode, GiveUp, Receive, Die, vars
<1>2. \A d \in Calls : Replacing(d)' => Replacing(d) /\ call'[d].answer = call[d].answer
  <2>1. CASE UNCHANGED call
    BY <2>1 DEF Replacing
  <2>2. ASSUME NEW c \in Calls, NEW r \in Requests, StartRefresh(c, r)
        PROVE  \A d \in Calls : Replacing(d)' => Replacing(d) /\ call'[d].answer = call[d].answer
    <3>1. call' = [call EXCEPT ![c] = Sent(r)] /\ store.token # 0 /\ r \in AllRequests
      BY <2>2 DEF StartRefresh, AllRequests
    <3> QED
      BY <3>1, SentGood, ReplacingFrame
  <2>3. ASSUME NEW c \in Calls, StartCode(c)
        PROVE  \A d \in Calls : Replacing(d)' => Replacing(d) /\ call'[d].answer = call[d].answer
    <3>1. /\ call' = [call EXCEPT ![c] = Sent(CodeRequest)] /\ CodeRequest \in AllRequests
          /\ store.token # 0
      BY <2>3, Typed DEF StartCode, AllRequests, Generations
    <3> QED
      BY <3>1, SentGood, ReplacingFrame
  <2>4. ASSUME NEW c \in Calls, Receive(c) \/ Die(c)
        PROVE  \A d \in Calls : Replacing(d)' => Replacing(d) /\ call'[d].answer = call[d].answer
    <3>1. call' = [call EXCEPT ![c] = Quiet]
      BY <2>4 DEF Receive, Die
    <3> QED
      BY <3>1, Typed, QuietGood, ReplacingFrame
  <2>5. ASSUME NEW c \in Calls, GiveUp(c)
        PROVE  \A d \in Calls : Replacing(d)' => Replacing(d) /\ call'[d].answer = call[d].answer
    <3>1. PICK row \in CallRow(session.generation) :
            /\ call' = [call EXCEPT ![c] = row]
            /\ row.request = NoRequest \/ row.request = call[c].request
      BY <2>5, GivesUp
    <3>2. row.request # CodeRequest
      BY <2>5, <3>1, Constants DEF GiveUp, Refreshing
    <3> QED
      BY <3>1, <3>2, ReplacingFrame
  <2> QED
    BY <2>1, <2>2, <2>3, <2>4, <2>5, Zenon DEF Device, BeRefused, vars
<1>3. \A k \in Codes : Usable(k)' => Usable(k)
  BY <1>1 DEF Usable
<1> QED
  BY <1>1, <1>2, <1>3, CodeFrame

\* The rows others change.
LEMMA CodeRows ==
  ASSUME SessionInv, CodeParts,
         \/ RevokeDevice \/ ExpireSession \/ (\E k \in Codes : PairDevice(k))
         \/ (\E r \in AllRequests : ExpireReceipt(r))
  PROVE  CodeParts'
<1>1. UNCHANGED call
  BY DEF RevokeDevice, ExpireSession, PairDevice, ExpireReceipt
<1>2. \A d \in Calls : Replacing(d)' => Replacing(d) /\ call'[d].answer = call[d].answer
  BY <1>1 DEF Replacing
<1>3. CodeRequest \in AllRequests /\ receipt \in [AllRequests -> ReceiptRow]
      /\ code \in [Codes -> CodeRow]
  BY Typed DEF AllRequests
<1>4. /\ receipt'[CodeRequest].status = receipt[CodeRequest].status
      /\ receipt'[CodeRequest].outcome = receipt[CodeRequest].outcome
  <2>1. CASE UNCHANGED receipt
    BY <2>1
  <2>2. ASSUME NEW r \in AllRequests, ExpireReceipt(r)
        PROVE  /\ receipt'[CodeRequest].status = receipt[CodeRequest].status
               /\ receipt'[CodeRequest].outcome = receipt[CodeRequest].outcome
    <3>1. receipt' = [receipt EXCEPT ![r] = Expire(receipt[r])]
      BY <2>2 DEF ExpireReceipt
    <3> QED
      BY <1>3, <3>1, ReceiptRows
  <2> QED
    BY <2>1, <2>2 DEF RevokeDevice, ExpireSession, PairDevice
<1>5. \A k \in Codes : Usable(k)' => Usable(k)
  <2>1. CASE UNCHANGED code
    BY <2>1 DEF Usable
  <2>2. ASSUME NEW k \in Codes, PairDevice(k) PROVE \A j \in Codes : Usable(j)' => Usable(j)
    <3>1. code[k].status = "live" /\ \A j \in Codes : j # k => code'[j] = code[j]
      BY <1>3, <2>2 DEF PairDevice, Redeemable
    <3> QED
      BY <3>1 DEF Usable
  <2>3. CASE RevokeDevice
    BY <2>3, Revoked DEF Usable
  <2> QED
    BY <2>1, <2>2, <2>3 DEF ExpireSession, ExpireReceipt
<1> QED
  BY <1>2, <1>4, <1>5, CodeFrame

\* A handler that is refused, or ends.
LEMMA CodeRefused ==
  ASSUME SessionInv, CodeParts, NEW c \in Calls, UnderWay(c), UNCHANGED <<code, receipt>>,
         \/ call' = Refused(c)
         \/ /\ call[c].request # CodeRequest
            /\ call' = [call EXCEPT ![c] = Answer(c, [call[c] EXCEPT !.pc = "unauthenticated"])]
         \/ call' = [call EXCEPT ![c] = Quiet]
  PROVE  CodeParts'
<1>1. PICK row : call' = [call EXCEPT ![c] = row] /\ row.pc # "replay"
  <2>1. CASE call' = [call EXCEPT ![c] = Quiet]
    BY <2>1, Typed, QuietGood
  <2>2. CASE call' = Refused(c)
    BY <2>2, Refuses
  <2>3. CASE /\ call[c].request # CodeRequest
             /\ call' = [call EXCEPT ![c] = Answer(c, [call[c] EXCEPT !.pc = "unauthenticated"])]
    BY <2>3, TurnsAway
  <2> QED
    BY <2>1, <2>2, <2>3
<1>2. \A d \in Calls : Replacing(d)' => Replacing(d) /\ call'[d].answer = call[d].answer
  BY <1>1, ReplacingFrame
<1>3. \A k \in Codes : Usable(k)' => Usable(k)
  BY DEF Usable
<1> QED
  BY <1>2, <1>3, CodeFrame

LEMMA CodeClaims ==
  ASSUME SessionInv, CodeParts, NEW c \in Calls, ClaimReceipt(c)
  PROVE  CodeParts'
<1>1. UNCHANGED code /\ UnderWay(c)
  BY DEF ClaimReceipt, UnderWay
<1>2. CASE ClaimRefused(receipt[call[c].request])
  BY <1>1, <1>2, CodeRefused DEF ClaimReceipt
<1>3. CASE ~ClaimRefused(receipt[call[c].request])
  <2>1. PICK r \in AllRequests : r = call[c].request
    BY <1>1, CallUnderWay
  <2>2. /\ receipt' = [receipt EXCEPT ![r] = Claim(receipt[r], call[c].token)]
        /\ receipt[r].status # "completed"
    BY <1>3, <2>1 DEF ClaimReceipt, ClaimRefused
  <2>3. PICK row : call' = [call EXCEPT ![c] = row] /\ row.pc = "claimed"
    BY <1>3, Claims
  <2>4. \A d \in Calls : Replacing(d)' => Replacing(d) /\ call'[d].answer = call[d].answer
    BY <2>3, ReplacingFrame
  <2>5. \A k \in Codes : Usable(k)' => Usable(k)
    BY <1>1 DEF Usable
  <2>6. CASE r = CodeRequest
    <3>1. /\ \A k \in Codes : ~Usable(k)
          /\ \A d \in Calls : ~Replacing(d)
      BY <2>2, <2>6 DEF CodeParts
    <3> QED
      BY <2>4, <2>5, <3>1, Zenon DEF CodeParts
  <2>7. CASE r # CodeRequest
    <3>1. receipt'[CodeRequest] = receipt[CodeRequest]
      BY <2>2, <2>7, Typed DEF AllRequests
    <3> QED
      BY <2>4, <2>5, <3>1, CodeFrame
  <2> QED
    BY <2>6, <2>7
<1> QED
  BY <1>2, <1>3

LEMMA CodeResolves ==
  ASSUME SessionInv, CodeParts, NEW c \in Calls, ResolveRefused(c), ~doubled'
  PROVE  CodeParts'
<1>1. UNCHANGED <<code, receipt>> /\ UnderWay(c)
  BY DEF ResolveRefused, UnderWay
<1>2. PICK r \in AllRequests : r = call[c].request
  BY <1>1, CallUnderWay
<1>3. PICK t : t = call[c].token
  OBVIOUS
<1>4. CASE Resolve(receipt[r], t) = "recorded"
  <2>1. PICK row : /\ call' = [call EXCEPT ![c] = row] /\ row.pc = "replay" /\ row.request = r
                   /\ r = CodeRequest => row.answer = receipt[CodeRequest].outcome
    BY <1>2, <1>3, <1>4, Resolves
  <2>2. \A k \in Codes : Usable(k)' => Usable(k)
    BY <1>1 DEF Usable
  <2>3. CASE r # CodeRequest
    <3>1. \A d \in Calls : Replacing(d)' => Replacing(d) /\ call'[d].answer = call[d].answer
      BY <2>1, <2>3, ReplacingFrame
    <3> QED
      BY <1>1, <2>2, <3>1, CodeFrame
  <2>4. CASE r = CodeRequest
    <3>1. \A d \in Calls : ~Replacing(d)
      BY <1>2, <1>3, <1>4, <2>4, Zenon DEF ResolveRefused, Replacing
    <3>2. call'[c] = row /\ \A d \in Calls : d # c => call'[d] = call[d]
      BY <2>1, Moved
    <3>3. \A d \in Calls : Replacing(d)' => d = c
      BY <3>1, <3>2 DEF Replacing
    <3>4. /\ receipt[CodeRequest].status = "completed"
          /\ call'[c].answer = receipt[CodeRequest].outcome
      BY <1>4, <2>1, <2>4, <3>2 DEF Resolve
    <3> QED
      BY <1>1, <2>2, <3>3, <3>4, Zenon DEF CodeParts
  <2> QED
    BY <2>3, <2>4
<1>5. CASE Resolve(receipt[r], t) # "recorded"
  BY <1>1, <1>2, <1>3, <1>5, CodeRefused, ResolvesNot
<1> QED
  BY <1>4, <1>5

\* The refreshes leave the codes and their receipt alone.
LEMMA CodeRotates ==
  ASSUME SessionInv, CodeParts, NEW c \in Calls,
         RefreshDeviceSession(c) \/ ReissueSessionCredentials(c)
  PROVE  CodeParts'
<1>1. UNCHANGED code /\ UnderWay(c) /\ call[c].request # CodeRequest
  BY DEF RefreshDeviceSession, ReissueSessionCredentials, UnderWay
<1>2. receipt'[CodeRequest] = receipt[CodeRequest]
  <2>1. PICK r \in AllRequests : r = call[c].request
    BY <1>1, CallUnderWay
  <2>2. UNCHANGED receipt \/ \E row : receipt' = [receipt EXCEPT ![r] = row]
    BY <2>1 DEF RefreshDeviceSession, ReissueSessionCredentials
  <2> QED
    BY <1>1, <2>1, <2>2, Typed DEF AllRequests
<1>3. \A d \in Calls : Replacing(d)' => Replacing(d) /\ call'[d].answer = call[d].answer
  <2>1. CASE call' = Answered(c) /\ Room
    <3>1. session.generation + 1 \in Generations
      BY <2>1, Typed, Constants DEF Room, Generations
    <3>2. /\ \A d \in Calls : d # c => call'[d] = call[d]
          /\ call'[c] = Quiet \/ call'[c].pc = "answered"
      BY <1>1, <2>1, <3>1, AnswerGood
    <3> QED
      BY <3>2, Typed, QuietGood DEF Replacing
  <2>2. CASE call' = Refused(c)
    BY <1>1, <2>2, RefusedMoves DEF Replacing
  <2>3. CASE call' = [call EXCEPT ![c] = Answer(c, [call[c] EXCEPT !.pc = "unauthenticated"])]
    BY <1>1, <2>3, TurnsAway, ReplacingFrame
  <2> QED
    BY <2>1, <2>2, <2>3, RefreshOutcome, ReissueOutcome, Zenon
<1>4. \A k \in Codes : Usable(k)' => Usable(k)
  BY <1>1 DEF Usable
<1> QED
  BY <1>2, <1>3, <1>4, CodeFrame

LEMMA CodeCreates ==
  ASSUME SessionInv, CodeParts, NEW c \in Calls, CreatePairingCode(c)
  PROVE  CodeParts'
<1>1. UnderWay(c)
  BY DEF CreatePairingCode, UnderWay
<1>2. CASE call' = Refused(c) /\ UNCHANGED <<code, receipt>>
  BY <1>1, <1>2, CodeRefused
<1>3. ASSUME NEW k \in Codes, call' = [call EXCEPT ![c] = Quiet], GateOpen(receipt[CodeRequest]),
             code' = [code EXCEPT ![k] = [status |-> "live", token |-> call[c].token]],
             receipt' = [receipt EXCEPT ![CodeRequest] = Complete(receipt[CodeRequest], k)]
      PROVE  CodeParts'
  <2>1. (\A j \in Codes : ~Usable(j)) /\ \A d \in Calls : ~Replacing(d)
    BY <1>3 DEF CodeParts, GateOpen
  <2>2. \A d \in Calls : ~Replacing(d)'
    BY <1>3, <2>1, Typed, QuietGood, ReplacingFrame
  <2>3. \A j \in Codes : j # k => ~Usable(j)'
    BY <1>3, <2>1, Typed DEF Usable
  <2>4. k \in 0..(MaxCodes + 1) /\ CodeRequest \in AllRequests
    BY Constants DEF Codes, AllRequests
  <2>5. receipt'[CodeRequest].status = "completed" /\ receipt'[CodeRequest].outcome = k
    BY <1>3, <2>4, Typed, ReceiptRows
  <2> QED
    BY <2>2, <2>3, <2>5, Zenon DEF CodeParts
<1> QED
  BY <1>2, <1>3 DEF CreatePairingCode

LEMMA CodeReplaces ==
  ASSUME SessionInv, CodeParts, NEW c \in Calls, ReplacePairingCode(c)
  PROVE  CodeParts'
<1>1. /\ UnderWay(c) /\ call' = [call EXCEPT ![c] = Quiet] /\ Replacing(c)
  BY DEF ReplacePairingCode, UnderWay, Replacing
<1>2. PICK k \in Codes : k = call[c].answer
  BY <1>1, CallUnderWay DEF Replacing, RowGood
<1>3. CASE UNCHANGED <<code, receipt>>
  BY <1>1, <1>3, CodeRefused
<1>4. ASSUME NEW j \in Codes, receipt' = [receipt EXCEPT ![CodeRequest].outcome = j],
             code' = [RetiredCode(k) EXCEPT ![j] = [status |-> "live", token |-> code[k].token]]
      PROVE  CodeParts'
  <2>1. receipt[CodeRequest].status = "completed" /\ receipt[CodeRequest].outcome = k
    BY <1>1, <1>2 DEF CodeParts
  <2>2. \A d \in Calls : ~Replacing(d)'
    <3>1. \A d \in Calls : Replacing(d)' => Replacing(d)
      BY <1>1, Typed, QuietGood, ReplacingFrame
    <3>2. ~Replacing(c)'
      BY <1>1, Moved, Typed, QuietGood DEF Replacing
    <3> QED
      BY <1>1, <3>1, <3>2 DEF CodeParts
  <2>3. \A i \in Codes : i # j => ~Usable(i)'
    <3> SUFFICES ASSUME NEW i \in Codes, i # j PROVE ~Usable(i)'
      OBVIOUS
    <3>1. CASE i = k
      BY <1>4, <3>1, Replaced DEF Usable
    <3>2. CASE i # k
      <4>1. code'[i] = code[i]
        BY <1>4, <3>2, Replaced
      <4>2. ~Usable(i)
        BY <2>1, <3>2 DEF CodeParts
      <4> QED
        BY <4>1, <4>2 DEF Usable
    <3> QED
      BY <3>1, <3>2
  <2>4. receipt'[CodeRequest].status = "completed" /\ receipt'[CodeRequest].outcome = j
    <3>1. CodeRequest \in AllRequests /\ receipt[CodeRequest] \in ReceiptRow
      BY Typed DEF AllRequests
    <3>2. PICK row : row = [receipt[CodeRequest] EXCEPT !.outcome = j]
                     /\ receipt' = [receipt EXCEPT ![CodeRequest] = row]
      BY <1>4
    <3>3. row.status = "completed" /\ row.outcome = j
      BY <2>1, <3>1, <3>2 DEF ReceiptRow, ReceiptOf
    <3> QED
      BY <3>1, <3>2, <3>3, Typed
  <2> QED
    BY <2>2, <2>3, <2>4, Zenon DEF CodeParts
<1> QED
  BY <1>2, <1>3, <1>4 DEF ReplacePairingCode

LEMMA CodeInit == Init => CodeParts
<1> SUFFICES ASSUME Init PROVE CodeParts
  OBVIOUS
<1>1. \A k \in Codes : ~Usable(k)
  BY DEF Init, Usable
<1>2. \A c \in Calls : ~Replacing(c)
  BY DEF Init, Replacing, Quiet
<1> QED
  BY <1>1, <1>2 DEF CodeParts

LEMMA CodeNext ==
  ASSUME SessionInv, CodeParts, ~doubled', [Next]_vars
  PROVE  CodeParts'
<1>1. CASE BeRefused \/ UNCHANGED vars
  BY <1>1, CodeDevice
<1>2. ASSUME NEW c \in Calls, Device(c) PROVE CodeParts'
  BY <1>2, CodeDevice
<1>3. ASSUME NEW c \in Calls, Handle(c) PROVE CodeParts'
  <2>1. CASE Die(c)
    BY <2>1, CodeDevice
  <2> QED
    BY <1>3, <2>1, CodeClaims, CodeResolves, CodeRotates, CodeCreates, CodeReplaces DEF Handle
<1>4. CASE \/ RevokeDevice \/ ExpireSession \/ (\E k \in Codes : PairDevice(k))
           \/ (\E r \in AllRequests : ExpireReceipt(r))
  BY <1>4, CodeRows
<1> QED
  BY <1>1, <1>2, <1>3, <1>4, Zenon DEF Next, AllRequests

\* Once two replacements were under way they were.
LEMMA DoubledStays ==
  ASSUME doubled, [Next]_vars
  PROVE  doubled'
<1>1. CASE UNCHANGED doubled
  BY <1>1
<1>2. ASSUME NEW c \in Calls, ResolveRefused(c) PROVE doubled'
  BY <1>2, Zenon DEF ResolveRefused
<1>3. ASSUME NEW c \in Calls, Device(c) PROVE UNCHANGED doubled
  BY <1>3, Zenon DEF Device, StartRefresh, StartCode, GiveUp, Receive, history
<1>4. ASSUME NEW c \in Calls, Handle(c), ~ResolveRefused(c) PROVE UNCHANGED doubled
  BY <1>4, Zenon DEF Handle, ClaimReceipt, Die, RefreshDeviceSession,
     ReissueSessionCredentials, CreatePairingCode, ReplacePairingCode, Noted, history
<1>5. CASE \/ BeRefused \/ RevokeDevice \/ ExpireSession
           \/ (\E k \in Codes : PairDevice(k)) \/ (\E r \in AllRequests : ExpireReceipt(r))
  BY <1>1, <1>5, Zenon DEF BeRefused, RevokeDevice, ExpireSession, PairDevice,
     ExpireReceipt, history
<1> QED
  BY <1>1, <1>2, <1>3, <1>4, <1>5, Zenon DEF Next, AllRequests, vars

LEMMA CodeInvariant == Spec => []CodeInv
<1>1. Init => CodeInv
  BY CodeInit DEF CodeInv
<1>2. SessionInv /\ CodeInv /\ [Next]_vars => CodeInv'
  <2> SUFFICES ASSUME SessionInv, CodeInv, [Next]_vars, ~doubled' PROVE CodeParts'
    BY Zenon DEF CodeInv
  <2>1. ~doubled
    BY DoubledStays, Zenon
  <2> QED
    BY <2>1, CodeNext, Zenon DEF CodeInv
<1> QED
  BY <1>1, <1>2, SessionInvariant, PTL DEF Spec

\* However often a pairing request is repeated, and whoever redeems what it was
\* answered with, one of its codes at most is live or was used, unless two
\* answers were under way at once (createPairingCode, replacePairingCode).
THEOREM CapabilityIsOne == Spec => []OneCapability
<1>1. CodeInv => OneCapability
  <2> SUFFICES ASSUME CodeParts
               PROVE  Cardinality({k \in Codes : code[k].status \in {"live", "consumed"}}) <= 1
    BY Zenon DEF CodeInv, OneCapability
  <2> DEFINE S == {k \in Codes : code[k].status \in {"live", "consumed"}}
             one == receipt[CodeRequest].outcome
  <2>1. S \subseteq {one}
    BY DEF CodeParts, Usable
  <2> HIDE DEF S, one
  <2>2. IsFiniteSet({one}) /\ Cardinality({one}) = 1
    BY FS_Singleton
  <2>3. Cardinality(S) <= Cardinality({one})
    BY <2>1, <2>2, FS_Subset
  <2>4. Cardinality(S) <= 1
    BY <2>2, <2>3
  <2> QED
    BY <2>4 DEF S
<1> QED
  BY <1>1, CodeInvariant, PTL
=============================================================================
