---------------------------- MODULE DeviceSession ----------------------------
(***************************************************************************)
(* The credentials of one paired device: the rows the control plane keeps  *)
(* of its session (sync/durable-runtime.ts), the copy the device keeps     *)
(* (DeviceSessionStore), the refresh calls between them, and the pairing   *)
(* codes the device issues while it is an administrator.                   *)
(*                                                                         *)
(* A rotation issues a refresh token and an access token together, so one  *)
(* number names both: the generation.  A handler is its receipt's claim,   *)
(* its statement and, when that found nothing to do, the receipt's answer  *)
(* and the statement that issues credentials again.  Every statement locks *)
(* the group's row first, so its writes are one step; but it began before  *)
(* it had the lock, and the rows it does not lock (the access tokens, the  *)
(* refresh history, the codes of a revoked device) it reads in a snapshot  *)
(* of that moment.  A snapshot is named by the generation it shows.        *)
(* Several of the device's calls may run at once: its timers do not wait   *)
(* for each other, and a call it gave up on runs on at the control plane.  *)
(***************************************************************************)
EXTENDS Naturals, FiniteSets, Receipts

CONSTANTS
  Calls,         \* calls in flight at once
  Requests,      \* request ids a refresh may mint
  NoRequest,     \* no pending id
  CodeRequest,   \* the id of a createPairingCode, which its caller may repeat
  MaxGeneration, \* bound on rotations
  MaxCodes,      \* bound on the pairing codes that request is answered with
  MaxIssued      \* bound on generations and codes together

ASSUME SessionAssumption ==
  /\ NoRequest \notin Requests /\ CodeRequest \notin Requests \cup {NoRequest}
  /\ MaxGeneration \in Nat \ {0}
  /\ MaxCodes \in Nat /\ MaxIssued \in Nat

VARIABLES
  session,    \* device_sessions: the generation, whose predecessors make up
              \* device_refresh_token_history, and how it ended
  access,     \* device_access_tokens that are not revoked
  code,       \* pairing_codes
  receipt,    \* mutation_receipts of both scopes
  store,      \* the stored session; token 0 is none
  call,       \* the handlers of the device's calls
  crossed,    \* history: credentials were about to be issued again when others were
  overtaken,  \* history: credentials were issued past the device
  adrift,     \* history: the device outlived a receipt it needed, or was turned away
  doubled     \* history: two replacements of a code were under way at once

rows == <<session, access>>
history == <<crossed, overtaken, adrift, doubled>>
vars == <<session, access, code, receipt, store, call, crossed, overtaken, adrift, doubled>>

Generations == 1..MaxGeneration
Codes == 1..MaxCodes

\* The bounds leave room for another rotation.
Room == /\ session.generation < MaxGeneration
        /\ \A k \in Codes : code[k].status # "none" => session.generation + k < MaxIssued

Quiet == [pc |-> "idle", request |-> NoRequest, token |-> 0, awaited |-> FALSE,
          answer |-> 0, since |-> 0]

\* pairDevice and #adoptSession: a first session, stored on both sides.
Init ==
  /\ session = [generation |-> 1, status |-> "live"]
  /\ access = {1}
  /\ code = [k \in Codes |-> [status |-> "none", token |-> 0]]
  /\ receipt = [r \in Requests \cup {CodeRequest} |-> Absent(0)]
  /\ store = [token |-> 1, pending |-> NoRequest]
  /\ call = [c \in Calls |-> Quiet]
  /\ crossed = FALSE
  /\ overtaken = FALSE
  /\ adrift = FALSE
  /\ doubled = FALSE

\* The joins of every statement here: session not revoked and not expired,
\* membership and device not revoked.
Live == session.status = "live"

-----------------------------------------------------------------------------
(* The device.                                                             *)

UnderWay(c) == call[c].pc # "idle"
Refreshing(c) == UnderWay(c) /\ call[c].request # CodeRequest

Sent(r) == [Quiet EXCEPT !.pc = "sent", !.request = r, !.token = store.token,
                         !.awaited = TRUE]

\* Mutant: every attempt mints an id of its own.
RequestMinted(r) == receipt[r].status = "absent" /\ r # store.pending

\* beginRefresh: the id of an unanswered attempt, or a new one.
RequestChosen(r) ==
  IF store.pending # NoRequest THEN r = store.pending
  ELSE /\ receipt[r].status = "absent"
       /\ \A c \in Calls : call[c].request # r

\* #ensureFreshSession and ControlPlaneClient.refresh up to its await, whenever
\* accessTokenExpiresAt comes within refreshLeadMs: token and id are read and the
\* id is stored in one turn of the event loop.
StartRefresh(c, r) ==
  /\ ~UnderWay(c)
  /\ store.token # 0
  /\ RequestChosen(r)
  /\ store' = [store EXCEPT !.pending = r]
  /\ call' = [call EXCEPT ![c] = Sent(r)]
  /\ UNCHANGED rows /\ UNCHANGED history /\ UNCHANGED <<code, receipt>>

\* createPairingCode or a repetition of it, past authenticateRequest; with room
\* for a code and its replacement.
StartCode(c) ==
  /\ ~UnderWay(c) /\ session.generation + 2 <= MaxIssued
  /\ Live /\ store.token \in access
  /\ call' = [call EXCEPT ![c] = Sent(CodeRequest)]
  /\ UNCHANGED rows /\ UNCHANGED history /\ UNCHANGED <<code, receipt, store>>

\* What becomes of a call that has its answer: nothing, when nobody awaits it.
Answer(c, row) == IF call[c].awaited THEN row ELSE Quiet

\* The device aborts, restarts or loses the connection; the call runs on.
GiveUp(c) ==
  /\ Refreshing(c) /\ call[c].awaited
  /\ call' = [call EXCEPT ![c] = IF @.pc \in {"answered", "unauthenticated"} THEN Quiet
                                 ELSE [@ EXCEPT !.awaited = FALSE]]
  /\ UNCHANGED rows /\ UNCHANGED history /\ UNCHANGED <<code, receipt, store>>

Forgotten == [token |-> 0, pending |-> NoRequest]

\* The answer.  completeRefresh writes the tokens and drops whatever id is
\* pending, unless it finds the store cleared; unauthenticated clears the store.
Receive(c) ==
  /\ \/ call[c].pc = "unauthenticated" /\ store' = Forgotten
     \/ /\ call[c].pc = "answered"
        /\ store' = IF store.token = 0 THEN store
                    ELSE [token |-> call[c].answer, pending |-> NoRequest]
  /\ call' = [call EXCEPT ![c] = Quiet]
  /\ UNCHANGED rows /\ UNCHANGED history /\ UNCHANGED <<code, receipt>>

\* authenticateAccessToken refuses any other call of the device, and its #record
\* forgets the session: a call sent now, or one sent with an earlier token that
\* arrives only after the rotation.
BeRefused ==
  /\ \E t \in 1..store.token : ~(Live /\ t \in access)
  /\ store' = Forgotten
  /\ adrift' = (adrift \/ Live)
  /\ UNCHANGED rows /\ UNCHANGED <<code, receipt, call, crossed, overtaken, doubled>>

-----------------------------------------------------------------------------
(* The receipts, of either scope.                                          *)

Refused(c) == [call EXCEPT ![c] = [@ EXCEPT !.pc = "refused", !.since = 0]]

ClaimReceipt(c) ==
  LET r == call[c].request
  IN  /\ call[c].pc = "sent"
      /\ IF ClaimRefused(receipt[r])
         THEN /\ call' = Refused(c)
              /\ UNCHANGED receipt
         ELSE /\ call' = [call EXCEPT ![c] = [@ EXCEPT !.pc = "claimed",
                                                       !.since = session.generation]]
              /\ receipt' = [receipt EXCEPT ![r] = Claim(@, call[c].token)]
      /\ UNCHANGED rows /\ UNCHANGED history /\ UNCHANGED <<code, store>>

\* resolveRefused.  The failure it raises for a refresh is unauthenticated; any
\* other refusal leaves the device as it was, and ends the call here.
ResolveRefused(c) ==
  LET r == call[c].request
      verdict == Resolve(receipt[r], call[c].token)
  IN  /\ call[c].pc = "refused"
      /\ call' = [call EXCEPT ![c] =
           IF verdict = "recorded"
           THEN [@ EXCEPT !.pc = "replay", !.since = session.generation,
                          !.answer = IF r = CodeRequest THEN receipt[r].outcome ELSE 0]
           ELSE IF verdict = "failed" /\ r # CodeRequest
           THEN Answer(c, [@ EXCEPT !.pc = "unauthenticated"]) ELSE Quiet]
      /\ doubled' = (doubled \/ /\ verdict = "recorded" /\ r = CodeRequest
                                /\ \E d \in Calls : call[d].pc = "replay"
                                                      /\ call[d].request = CodeRequest)
      /\ UNCHANGED rows /\ UNCHANGED <<code, receipt, store, crossed, overtaken, adrift>>

\* A handler's process dies; the device sees a lost connection.
Die(c) ==
  /\ call[c].pc \in {"sent", "claimed", "refused", "replay"}
  /\ call' = [call EXCEPT ![c] = Quiet]
  /\ UNCHANGED rows /\ UNCHANGED history /\ UNCHANGED <<code, receipt, store>>

\* The device has an answer to this refresh to come.
Needed(r) == \/ store.pending = r
             \/ \E c \in Calls : call[c].request = r /\ call[c].awaited

\* A receipt's expires_at passes: 24 hours, where a session lasts 30 days.
ExpireReceipt(r) ==
  /\ receipt[r].status # "absent" /\ ~receipt[r].expired
  /\ receipt' = [receipt EXCEPT ![r] = Expire(@)]
  /\ adrift' = (adrift \/ (receipt[r].status = "completed" /\ r # CodeRequest /\ Needed(r)))
  /\ UNCHANGED rows /\ UNCHANGED <<code, store, call, crossed, overtaken, doubled>>

-----------------------------------------------------------------------------
(* refreshDeviceSession.                                                   *)

\* Mutant: the access tokens of the generation before stay.
RotatedKeeping(n) ==
  /\ session' = [session EXCEPT !.generation = @ + 1]
  /\ access' = access \cup {session.generation + 1}

\* rotated_session, retired_refresh_token, retired_access_tokens and
\* issued_access_token.  Only the access tokens the snapshot has are revoked.
Rotated(n) ==
  /\ session' = [session EXCEPT !.generation = @ + 1]
  /\ access' = (access \ 1..n) \cup {session.generation + 1}

\* The snapshots a handler's statement may have: it began after the step before.
Snapshots(c) == call[c].since..session.generation

Answered(c) == [call EXCEPT ![c] =
                  Answer(c, [@ EXCEPT !.pc = "answered", !.answer = session.generation + 1])]

\* The credentials are issued past the device: it has others already, or it is
\* about to be given others.
Overtaking(c) ==
  \/ store.token # call[c].token
  \/ \E d \in Calls : call[d].pc = "answered"

\* What a rotation for c does to the history.
Noted(c) ==
  /\ crossed' = (crossed \/ \E d \in Calls \ {c} : call[d].pc = "replay" /\ Refreshing(d))
  /\ overtaken' = (overtaken \/ Overtaking(c))
  /\ adrift' = (adrift \/ (call[c].pc = "claimed" /\ receipt[call[c].request].expired))
  /\ UNCHANGED doubled

\* replay_revoked_sessions and replay_revoked_access_tokens.
ReplayRevoked(n) ==
  /\ session' = [session EXCEPT !.status = IF @ = "revoked" THEN @ ELSE "replayed"]
  /\ access' = access \ 1..n

\* A token is taken for stolen when the locked session row has it as its
\* previous one, or the snapshot's history has it.
LooksStolen(t, n) == (Live /\ t + 1 = session.generation) \/ t < n

\* The statement: rotate, revoke what looks stolen, or find nothing to do.
RefreshDeviceSession(c) ==
  LET r == call[c].request
      t == call[c].token
      gate == GateOpen(receipt[r])
      current == t = session.generation /\ Live
  IN  /\ call[c].pc = "claimed" /\ r # CodeRequest
      /\ \E n \in Snapshots(c) :
           \/ /\ gate /\ current /\ Room
              /\ Rotated(n) /\ Noted(c)
              /\ receipt' = [receipt EXCEPT ![r] = Complete(@, 1)]
              /\ call' = Answered(c)
           \/ /\ gate /\ ~current /\ LooksStolen(t, n)
              /\ ReplayRevoked(n)
              /\ call' = Refused(c)
              /\ UNCHANGED history /\ UNCHANGED receipt
           \/ /\ ~gate \/ (~current /\ ~LooksStolen(t, n))
              /\ call' = Refused(c)
              /\ UNCHANGED rows /\ UNCHANGED history /\ UNCHANGED receipt
      /\ UNCHANGED <<code, store>>

\* Mutant: the receipt is taken for authority.
ReissuableRecorded == Room

\* active_session of reissueSessionCredentials.
Reissuable == Live /\ Room

\* reissueSessionCredentials: a rotation on behalf of the recorded mutation.
ReissueSessionCredentials(c) ==
  /\ call[c].pc = "replay" /\ call[c].request # CodeRequest
  /\ \/ /\ Reissuable
        /\ \E n \in Snapshots(c) : Rotated(n)
        /\ Noted(c)
        /\ call' = Answered(c)
     \/ /\ ~Live
        /\ call' = [call EXCEPT ![c] = Answer(c, [@ EXCEPT !.pc = "unauthenticated"])]
        /\ UNCHANGED rows /\ UNCHANGED history
  /\ UNCHANGED <<code, receipt, store>>

\* revokeDevice, by an administrator elsewhere: the session, and the access
\* tokens and codes that the statement's snapshot has, the first so many.
RevokeDevice ==
  /\ session.status \in {"live", "expired"}
  /\ session' = [session EXCEPT !.status = "revoked"]
  /\ access' \in {access \ 1..n : n \in 1..session.generation}
  /\ code' \in {[k \in Codes |-> IF k <= j /\ code[k].status = "live"
                                 THEN [code[k] EXCEPT !.status = "revoked"]
                                 ELSE code[k]] : j \in 0..MaxCodes}
  /\ UNCHANGED history /\ UNCHANGED <<receipt, store, call>>

\* The session's expires_at passes.
ExpireSession ==
  /\ Live
  /\ session' = [session EXCEPT !.status = "expired"]
  /\ UNCHANGED history /\ UNCHANGED <<access, code, receipt, store, call>>

-----------------------------------------------------------------------------
(* Pairing codes.                                                          *)

\* A code nobody was given yet.
NewCode(k) == /\ code[k].status = "none" /\ \A j \in Codes : j < k => code[j].status # "none"
              /\ session.generation + k <= MaxIssued

\* The statement of createPairingCode: the code is bound to the credential
\* that asked for it.
CreatePairingCode(c) ==
  LET authorized == GateOpen(receipt[CodeRequest]) /\ Live /\ call[c].token \in access
  IN  /\ call[c].pc = "claimed" /\ call[c].request = CodeRequest
      /\ \/ /\ authorized
            /\ \E k \in Codes :
                 /\ NewCode(k)
                 /\ code' = [code EXCEPT ![k] = [status |-> "live", token |-> call[c].token]]
                 /\ receipt' = [receipt EXCEPT ![CodeRequest] = Complete(@, k)]
            /\ call' = [call EXCEPT ![c] = Quiet]
         \/ /\ ~authorized
            /\ call' = Refused(c)
            /\ UNCHANGED <<code, receipt>>
      /\ UNCHANGED rows /\ UNCHANGED history /\ UNCHANGED store

\* Mutant: the recorded code is left as it is.
RetiredNot(k) == code

\* retired_code
RetiredCode(k) == [code EXCEPT ![k].status = "revoked"]

\* replacePairingCode: the recorded code is retired and another takes its
\* place, unless it has been consumed.
ReplacePairingCode(c) ==
  LET k == call[c].answer
  IN  /\ call[c].pc = "replay" /\ call[c].request = CodeRequest
      /\ \/ /\ code[k].status # "consumed"
            /\ \E j \in Codes :
                 /\ NewCode(j)
                 /\ code' = [RetiredCode(k) EXCEPT ![j] = [status |-> "live",
                                                           token |-> code[k].token]]
                 /\ receipt' = [receipt EXCEPT ![CodeRequest].outcome = j]
         \/ code[k].status = "consumed" /\ UNCHANGED <<code, receipt>>
      /\ call' = [call EXCEPT ![c] = Quiet]
      /\ UNCHANGED rows /\ UNCHANGED history /\ UNCHANGED store

\* valid_pairing_code: neither consumed nor revoked, and the credential that
\* created it is live.
Redeemable(k) == code[k].status = "live" /\ Live /\ code[k].token \in access

\* pairDevice, of another device.
PairDevice(k) ==
  /\ Redeemable(k)
  /\ code' = [code EXCEPT ![k].status = "consumed"]
  /\ UNCHANGED rows /\ UNCHANGED history /\ UNCHANGED <<receipt, store, call>>

-----------------------------------------------------------------------------
Device(c) == \/ \E r \in Requests : StartRefresh(c, r)
             \/ StartCode(c) \/ GiveUp(c) \/ Receive(c)

Handle(c) == \/ ClaimReceipt(c) \/ ResolveRefused(c) \/ Die(c)
             \/ RefreshDeviceSession(c) \/ ReissueSessionCredentials(c)
             \/ CreatePairingCode(c) \/ ReplacePairingCode(c)

Next == \/ BeRefused
        \/ \E c \in Calls : Device(c) \/ Handle(c)
        \/ \E k \in Codes : PairDevice(k)
        \/ RevokeDevice \/ ExpireSession
        \/ \E r \in Requests \cup {CodeRequest} : ExpireReceipt(r)

Spec == Init /\ [][Next]_vars

-----------------------------------------------------------------------------
\* Type correctness; a call under way presents a token that was issued, and an
\* answer it has yet to give is awaited.
TypeOK ==
  /\ session \in [generation : Generations,
                  status : {"live", "expired", "replayed", "revoked"}]
  /\ access \subseteq Generations
  /\ code \in [Codes -> [status : {"none", "live", "consumed", "revoked"},
                         token : 0..MaxGeneration]]
  /\ receipt \in [Requests \cup {CodeRequest} ->
                    ReceiptOf(0..MaxGeneration, 0..(MaxCodes + 1))]
  /\ store \in [token : 0..session.generation, pending : Requests \cup {NoRequest}]
  /\ call \in [Calls -> [pc : {"idle", "sent", "claimed", "refused", "replay", "answered",
                               "unauthenticated"},
                         request : Requests \cup {NoRequest, CodeRequest},
                         token : 0..session.generation, awaited : BOOLEAN,
                         answer : 0..(MaxGeneration + MaxCodes),
                         since : 0..session.generation]]
  /\ \A c \in Calls : UnderWay(c) => call[c].request # NoRequest /\ call[c].token > 0
  /\ \A c \in Calls : call[c].pc = "answered" => call[c].answer \in 1..session.generation
  /\ \A c \in Calls : call[c].pc \in {"answered", "unauthenticated"} => call[c].awaited
  /\ crossed \in BOOLEAN
  /\ overtaken \in BOOLEAN
  /\ adrift \in BOOLEAN
  /\ doubled \in BOOLEAN

\* One credential at a time: however many refreshes, retries and pairing calls
\* overlap, an access token that authenticates is the current generation's,
\* unless another rotation came between a recorded refresh and the statement
\* that issued its credentials again.
OneCredential == (Live /\ ~crossed) => access \subseteq {session.generation}

\* A device that crashed, lost an answer or tried again can still come back.
\* Unless credentials were issued past it, none of its refreshes is taken for
\* a stolen token.  And unless it was also turned away or outlived the receipt
\* it needed, while its session lasts it holds the current token, or the id of
\* the refresh that rotated it away, which the receipt still answers.
Recoverable ==
  /\ ~overtaken => session.status # "replayed"
  /\ (Live /\ ~overtaken /\ ~adrift) =>
       /\ store.token # 0
       /\ \/ store.token = session.generation
          \/ /\ store.pending # NoRequest
             /\ receipt[store.pending].status = "completed"
             /\ receipt[store.pending].fingerprint = store.token
             /\ ~receipt[store.pending].expired

\* Nothing that is recorded brings a session back: once it ended, no
\* generation follows and no access token appears.
EndedStaysEnded ==
  [][~Live => /\ session'.generation = session.generation
              /\ session'.status # "live"
              /\ access' \subseteq access]_vars

\* A pairing request admits one device at most, however often it is repeated:
\* of all the codes it was answered with, one at most is live or was used,
\* unless two answers to it were under way at once.
OneCapability ==
  ~doubled => Cardinality({k \in Codes : code[k].status \in {"live", "consumed"}}) <= 1

\* No retry of the device's own is taken for a stolen token.
NeverTakenForTheft == session.status # "replayed"
=============================================================================
