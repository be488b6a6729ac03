# A TLA+ model of Headquarters' shared state

Headquarters is a set of wall screens and operator consoles that share one
group of devices. A control plane (Node, PostgreSQL, optionally Redis) keeps the
group's durable log, its membership, its settings and its materials; clients
(`apps/hq`) follow the log by socket or by polling, apply it, and publish to it.
This directory models what the devices share: how an event gets into the log
once, how it reaches every client in order, who may put it there, how a client
that fell behind gets back, how a device keeps its credentials, who is seen as
present, how settings travel, and how a file becomes a material and its
renditions.

Each definition is a translation of the lines `PROJECT.json` maps it to
("map"). Docs and comments only appear where the code does something else than
they say (section 4).

## 1. Inventory

| Part | State it keeps | Operations | What is hard about it |
| --- | --- | --- | --- |
| Durable group log (`control-plane/src/realtime/eventStore.ts`, `replayDecision.ts`) | `group_event_sequences.last_sequence`, `sync_events`, `document_snapshots` | `append` (INSERT, then DELETE), `appendAuthorized` (one statement), `replay`, `snapshot`, `decideReplay` | two statements per append, retention racing reads, the edge off by one |
| Realtime hub (`realtime/hub.ts`, `fanout.ts`, `redis/fanout.ts`) | per process: the group's listeners with `sentThrough`, buffer while replaying; the chain of drains | `publish`, `deliver`, `subscribe`, `announce`, `acceptRemote`, `drainRemote` | three delivery routes to one socket, awaits between append and dispatch, lost and reordered announcements, crashes |
| Realtime transport (`realtime/server.ts`, `sync/realtime-admission.ts`) | per socket: admission generation, release, revalidation timer, a serial queue | hello, admit, revalidate, ack, close | a close while `subscribe` awaits; authority checked now and used later |
| Mutation receipts (`sync/receipt-guard.ts`, `receipts.ts`) | `mutation_receipts`, one row per scope and request id | claim, complete, expire, resolve a refusal | take-over of an unfinished row, retry racing its original |
| Publication RPCs (`sync/service.ts`) | none of their own | `publishDocumentDelta`, `publishSessionCommand`, `readGroupEvents`, `getDocumentSnapshot` | role, mode and leader are read at the door and used after several awaits |
| Group administration (`sync/durable-runtime.ts`, `group-mutations.ts`) | `groups` (name, mode, leader, revision), `group_memberships` | `createGroup`, `updateGroup`, `setAuthorityMode`, `setLeader`, `setDeviceRole`, `revokeDevice` | statements that wait for the group lock with an older snapshot; death between commit and announcement |
| Device sessions and pairing (`sync/durable-runtime.ts`; on the device `DeviceSessionStore.ts`, `ControlPlaneClient.ts`) | pairing codes, access tokens, refresh tokens and their history; the stored session with its pending request id | issue code, `pairDevice`, authenticate, refresh, reissue, revoke | rotation racing its own retry; a crash between sending and storing |
| Presence (`sync/presence-store.ts`, `coordinated-presence-store.ts`, `redis/coordination.ts`) | rows in PostgreSQL, one key per device and one set per group in Redis | join, touch, report, leave, revoke, list | two stores, commands in flight together, keys and set that lapse apart |
| Materials (`material/store.ts`, `service.ts`, `storage/*`) | materials, versions, upload sessions, reference counts, the bucket | begin, create version, complete, cancel, trash, restore, purge | counts and bytes deduplicated by content while uploads, purges and aborts cross; counts made in an old snapshot; bytes that are not what was declared |
| Conversion queue (`conversion/*`) | jobs with state, attempt and lease; renditions | enqueue (two producers), claim, complete, fail, purge | a worker dies with the lease, or is only slow |
| Settings (`settings/store.ts`, `service.ts`) | the group's document, one row per revision, the draft | patch, discard, publish, reset, import, revert, watch | publication takes two calls and the draft is the group's |
| Group settings on the client (`hq/src/application/sync/GroupSettingsSync.ts`, `GroupSnapshotDownloader.ts`) | values on screen, the local copy, adoptions under way | change, reset, undo and import (not published), adopt on join and on a frame, absorb, offline start | adoptions side by side, compared now and written later, sessions that end meanwhile |
| Client channel and feeds (`hq/src/infrastructure/controlPlane/*`, `application/sync/groupEventFeed.ts`, `components/sync/GroupChannelRuntime.tsx`) | one cursor shared by all feeds; per feed its phase | deliver, poll, receive, resync, rewind, reconnect | several feeds moving one cursor, resync during delivery, subscribers that throw |
| Telemetry, integrations, layouts | single rows | upserts, calls to outside services | little beyond the receipts |
| Screen bus and playback (`BrowserScreenBus.ts`, `PlaybackSyncCoordinator.ts`) | commands scheduled ahead, measured drift | send, apply, catch up | real time |
| Domain algorithms (`packages/domain`, `packages/layout-engine`) | none | tile packing, information states, curves | boundaries |
| Operations store, interface, file bridge, native shell | values on screen, files, child processes | reduce, render, mirror, supervise, update | single-threaded, or operating-system I/O |

How they meet. A publishing RPC authenticates, claims its receipt, appends with
receipt completion in one statement, and hands the event to its process's hub;
the hub offers it to its listeners and announces the sequence, not the event, to
the other processes, which read the log themselves. A group mutation does the
same with the group's row in the place of the log, and publishes its new
revision afterwards. A client subscribes with the last sequence it applied; the
server replays from there or says `resync`; the client then reads a snapshot's
position and resumes. Settings travel beside the log: a change is staged and
published by two calls, and every device watches the document's revision and
reads the document itself. A completed upload records a version and queues its
jobs; a worker claims one, renders, stores the result and records it. Everything
shared between processes is in PostgreSQL; the carrier and the presence keys
(Redis) are allowed to fail at any time.

What makes each part correct: the log keeps its declared window and gives each
request one sequence; a socket is sent ascending sequences, each once, with no
silent hole, and nothing once its token has ended; a receipt and the mutation it
stands for agree; a mutation is performed only by somebody entitled to it at the
moment it commits; a group stays administrable; a device that lost an answer can
come back and a session that ended cannot; whoever left is gone and whoever
polls is seen; a count never lets bytes go that a version names; a job is ended
by one worker, and ends; a client applies each event once, skips nothing it
could have had, and reaches the head of the log; screens end with the group's
settings. "hazards" in `PROJECT.json` lists the lines where these are at risk
and the properties aimed at them.

## 2. Modules

| Module | Models | State ↔ code |
| --- | --- | --- |
| `ReplayWindow` | replay, `decideReplay`, retention | operators only; the log is the set of sequences still stored. Shared by the hub, the publications and the client |
| `RealtimeHub` | several processes over one log | `lastSequence`, `rows`: the tables; `conn[c]`: a `GroupListener` with `sentThrough`, `buffered` and the `subscribe` call around it; `pub[p]`: a publishing handler between its awaits; `wire`: announcements in the carrier; `pending`, `drain`: the promise chain of `acceptRemote`; `sent`: a history variable |
| `RealtimeConnection` | one socket of `server.ts` | `conn`: the variables of the connection's closure; `queue`, `run`: the serial queue and the operation between two of its awaits; `listener`: whether the hub has one; `valid`: the token |
| `Receipts` | `MutationReceiptGuard` | a receipt record and the five things that happen to it; used by the three modules below |
| `GroupPublication` | the two publishing RPCs, with retries | `attempt[a]`: one run of the handler; `log`, `receipt`, `role`, `mode`, `leader`: the tables |
| `OnceLog` | what a publishing RPC promises | the log of requests and what each caller was told; abstract, implemented by `GroupPublication` |
| `GroupAdministration` | the five group mutations, with retries | `op[o]`: one run of a handler with the snapshot of its statement; `history`: what each revision made of the group |
| `DeviceSession` | the credentials of one device, on both sides | `session`, `access`, `code`, `receipt`: the rows; `store`: the device's file; `call[c]`: a call on its way, with the generation (`since`) its statement's snapshot may go back to; `crossed`, `overtaken`, `adrift`, `doubled`: history |
| `Presence` | rows, keys and the set | `row`, `key`, `roster`, `rosterTtl`; `call[c]`: a handler with the Redis commands it has not run yet (`todo`), which run in any order; `disturbed`: history |
| `MaterialLibrary` | materials, uploads, reference counts, the bucket | `material`, `session`, `version`, `references`: the tables; `bucket`: the bytes under each content key; a session's `remote`, `target`, `stored`: what became of its upload in the bucket; the completing (assemble, verify, record) and cancelling handlers between their awaits; `checked`: history |
| `ConversionQueue` | jobs and workers | `version`, `job`, `renditions`: the rows; `bucket`, `rendered`: the objects; `worker[w]`: the pass it is in |
| `GroupSettings` | the settings document and the devices that follow it | `effective`, `recorded`, `draft`: the rows; `pub[s]`: a publication between its calls; `local`, `mirror`: the values on screen and the local copy; adoptions of both kinds (`join`, `watch`) and `late`, the ones whose session has ended; `missed`, `behind`: history |
| `GroupFeed` | one client: channel, sockets, pollers | `cursor`: `#appliedSequence`; `feed[f]`: the phase of a `RealtimeClient` or `GroupEventPoller`; `applied`, `rewound`, `lost`, `thrown`: history |
| `*Proofs` | the theorems of a module | `SocketPresenceProofs` holds those of `RealtimeConnection` and `Presence`, `ClientProofs` those of `GroupSettings` and `GroupFeed`; `Presence` and `GroupFeed` prefix their general names (`FeedNext`, `PresenceSpec`) so that both can be extended together |
| `MC*` | instances for TLC | symmetry sets, and for the administration a constraint and a view |

A step is what runs between two awaits: one SQL statement, or one synchronous
run of TypeScript. That is the atomicity Node and PostgreSQL give. `append` is
two statements and hence two steps; `appendAuthorized` is one statement with
CTEs and hence one. A group mutation is one statement, but under READ COMMITTED
its snapshot is taken before it waits for the group's row lock, so it is two
steps, `Begin` and `Commit`: the rows it locks (group, actor, target) are read
in their latest version, the rows it merely reads (administrator count, the
leader's membership) in the snapshot. The statements of the sessions and of the
library work the same way, but there the effect of an old snapshot can be said
without recording it, so they are one step that chooses its snapshot: a rotation
or revocation revokes the access tokens, and looks for the presented token in the
refresh history, as they were at some generation since its handler's last step
(`Snapshots`); a revocation ends the codes it saw; a purge counts the oldest so
many version rows of its material, and finds the object rows that were there then
(`SnapshotsOf`, `Finds`); a `beginUpload` may miss an object row inserted since.
The settings' statements read only rows they have locked. What the modules assume of
PostgreSQL is just that, and that a statement is a transaction. Of Redis they
assume that a command or a script is atomic, and nothing about the order of
commands issued together.

Abstractions. Events are their sequence numbers (and, where it matters, their
kind and author); payloads are model values; a fingerprint is the tuple of what
the code hashes, so the model has the collisions the code's choice of fields
causes and none that SHA-256 would. A refresh token and the access token issued
with it are one generation number. A content is its hash. Time is the order of
steps, except for presence, whose keys count polling intervals. The buffer a
listener keeps while it replays is the set of its events that can still be sent
(an event buffered behind a higher one never is). Groups share nothing, so one
group is modelled. The client's server in `GroupFeed` is the retained log with
the verdict of `decideReplay`; its socket stream is ascending and complete from
the resume point, which is what `SendsAscend` and `ReplayComplete` say of the
hub, and the losses section 4 lists for it are not the client's.

How the modules fit together. `RealtimeConnection` sees of the hub that it has a
listener or not; `RealtimeHub` sees of a connection its cursor and its end.
`GroupPublication`'s log is the one `RealtimeHub` distributes and `GroupFeed`
follows; `ReplayWindow` is common to the three. `ConversionQueue` sees of the
library the rows its statements join. `GroupAdministration` and `DeviceSession`
both end memberships; the publishing and presence modules take that as a step of
the environment at any time.

The abstract specification. `OnceLog` is the promise of the publishing RPCs: a
log that takes each request once, and tells a caller either nothing or the
position of its own request's event. `GroupPublication` instantiates it with its
log and its attempts' answers, and `KeepsPromise` (checked in `PublishRetries`,
proved in `GroupPublicationProofs`) says that receipts, take-overs, retries,
expiry and deaths implement it. A request is its id there, so the promise also
covers clients that reuse an id for another payload; that the payload is the
caller's own as well is `AckedIsMine`, which those clients do not get (section 4).

## 3. Runs

Times are for four workers; every run stays below five minutes with two.

| Run | Instance | Checks | Distinct states |
| --- | --- | --- | --- |
| `HubFanout` | 2 processes, 1 connection, 2 handlers, window 1, page 2, 3 events, crashes, lossy carrier | `WindowIntact`, `ReplayComplete`, `DrainComplete`, `SendsAscend` | 486 146 (14 s) |
| `HubLive` | 2 processes, 1 connection, 1 handler, window 1, 2 events, 1 retry, no failures | `CaughtUp` under `FairSpec` | 106 382 (20 s) |
| `HubConcurrentGap` | 1 process, 1 connection, 2 handlers | `NoSilentGap`: violated | |
| `SocketAdmission` | 3 messages, 3 frames | `ListenerOwned`, `NothingAfterRevocation`, `TimerReleased`; `RevokedIsCut` under `FairSpec` | 89 408 (7 s) |
| `PublishRetries` | 3 attempts, 2 devices, both RPCs, 1 request id, window 1, expiry | `ReceiptsMatchLog`, `AckedIsMine`, `WriterAuthorized`, `KeepsPromise` | 812 028 (62 s) |
| `AdminRaces` | 2 devices, 2 handlers, 1 request id, 6 revisions, overlap, deaths | `OncePerRequest`, `ReplayAnswersOwn`, `RevokedIsFinal`, `LastAdmin` | 3 030 858 (62 s) |
| `SessionRetries` | 2 calls, 2 request ids, 4 generations, 3 codes, 4 of both together | `OneCredential`, `Recoverable`, `OneCapability`, `EndedStaysEnded` | 1 863 101 (80 s) |
| `FeedMerged` | 1 socket, 1 poller, window 2, page 2, 4 events of 2 kinds, 2 failures | `FeedTypeOK`, `AppliedOnce`, `NoSkip`; `CatchesUp` under `FeedFairSpec` | 531 379 (35 s) |
| `PresenceLapse` | 2 devices, 2 handlers, a TTL of 2 polling intervals | `PresenceTypeOK`, `Withdrawn`, `Visible`; `StoppedIsNoticed` under `PresenceFairSpec` | 1 286 745 (104 s) |
| `LibraryRefs` | 2 materials, 2 upload sessions, 2 contents, either storage, right and wrong bytes, 3 revisions | `TypeOK`, `VersionsBacked`, `CurrentResolves`, `CompletedHasBytes` | 1 726 903 (144 s) |
| `QueueLive` | 2 versions of one content, 2 workers, 2 attempts | `RenditionBacked`, `OneOwner`, `EndsOnce`; `JobsEnd` under `FairSpec` | 65 859 (10 s) |
| `SettingsFollow` | 1 device, 1 setting of 2 values, 2 publications, 2 gestures, 1 fault, 1 outside call | `DraftAccounted`, `CopyAccounted`; `Settles` under `FairSpec` | 626 765 (55 s) |

A type invariant is checked by TLC where it says something of its own
(`FeedMerged`: neither the cursor nor a feed's position passes the log;
`PresenceLapse`: the set has a TTL exactly when it names somebody; `LibraryRefs`:
the versions of a material stay behind its revision). All of them are proved.

Several properties name an exception. Each exception is a failure the code
really has, stated as narrowly as it could be: the property says that this is
the only way to lose what it promises, and section 4 lists the failure. They are
`LastAdmin` (a count another statement made stale), `TimerReleased` (`torn`),
`OneCredential` (`crossed`: another rotation came between a recorded refresh and
the statement that issues its credentials again), `Recoverable` (`overtaken`:
credentials were issued to a device that has, or is about to be given, others;
`adrift`: a device came back after its receipt had run out, or one of its calls
arrived with a token rotated away), `OneCapability` (`doubled`), `AppliedOnce`
(`rewound`), `NoSkip` (`thrown`), `CatchesUp` (`SnapshotOutlived`), `JobsEnd`
(`Stranded`), `Withdrawn` and `Visible` (`disturbed`), `CompletedHasBytes`
(`Overwritten`: another upload assembled wrong bytes under the same key),
`CopyAccounted` (`behind`: a watch could not read or store what it was woken for,
or an absorb replaced the copy by an older one through a comparison made before
the newer one was there), `DraftAccounted` (a publication that abandoned its
draft) and `Settles` (`missed`: a failed adoption or publication, a join that
landed behind the watch, or an operator's undo or import, each only where it
leaves values on screen that differ from the document).

Refreshes that overlap are thus no exception in themselves. Two handlers of one
request id, a retry beside its original and a reissue beside a refresh are all
covered unless one of them really issues credentials past the device.

Why the bounds are enough.

* Hub: a window of one row with three events makes every kind of resume occur:
  covered, at the edge, and behind it; a page of two makes a page hold more and
  less than what is missing. Two processes are needed for an announcement, two
  handlers for two appends whose DELETEs or dispatches cross. A second
  connection adds nothing to a single connection's history except a lower
  `LowestCursor`, which an older cursor after a resume gives as well.
* Socket: two messages fill the queue behind a running one (a hello and a frame
  behind it), a third arrives after the close; three frames are enough for one
  before, one during and one after a revocation.
* Receipts: three attempts allow an original, a take-over and a late retry; one
  retained row makes a recorded event disappear.
* Administration: two devices and six revisions allow pairing, promotion, a
  second administrator, and the two mutations that lose both of them at once. Once the request id is in use
  the revisions are bounded by three (`Few`), which leaves an original, its
  retry and one mutation in between; what was announced is not part of a state's
  identity (`Unannounced`), because no property of the run reads it.
* Sessions: two calls can overlap, two ids are a retry and a new refresh, three
  generations give a stored token that is current, just retired, and long
  retired, and the fourth a rotation between two others, which is what a stale
  UPDATE takes. Three codes are a code and two replacements of it, which is what
  two answers at once make. Codes and rotations meet only in the credential a code
  is bound to, so their number is bounded together (`MaxIssued`).
* Feeds: four events over a two-row window let a feed fall behind twice; two
  failures let one link drop while the other's snapshot call fails.
* Presence: two handlers are what it takes to interleave a join with a leave, a
  revocation or another join; the second device keeps the set alive while the
  first one's key lapses. Two intervals separate a key that was renewed from one
  that was not.
* Library: two sessions of one content are needed for a shared count, two
  contents for a version that changes a material's bytes, three revisions for a
  material with a first upload, a second version and the mutation that trashes
  it, which a purge with an old snapshot then counts. A third session adds no new
  kind of conflict to the counts, since they are disturbed by pairs of statements;
  the one case it adds to the bytes is in section 4.
* Queue: two workers and two attempts give a stalled owner, its successor, and
  a last attempt. Two versions of one content share an object.
* Settings: one device suffices, because what other devices publish reaches it
  as outside calls and as its own second publication; two publications cross,
  and one outside call discards, imports, reverts or resets what they staged. Two
  gestures allow a change and its undo. The invariant behind `CopyAccounted`
  (`CopyInv`) was also checked with three gestures (8.8 million states).

Every property has a mutant of the code under which the same run finds it
violated ("mutants").

Deadlock is checked in the hub, feed and presence runs. Elsewhere handlers,
revisions, uploads or gestures are bounded or a connection is over for good, so
a behaviour may stop and the check is off.

Fairness. In every module: a statement or call that was awaited returns, a
queued callback runs, a timer that was set fires. Nobody is obliged to publish,
subscribe, join, change a setting, hang up, crash or fail; what fails is bounded
by a constant (`MaxDrops`, `MaxFaults`) or switched off, which stands for links
that fail finitely often.

* `RealtimeHub`: `PruneStep`, `Dispatch`, `ReadReplay`, `FlushReplay`,
  `StartDrain`, `ReadDrain`, `DeliverDrain`, and the delivery of each
  announcement by a carrier that works: the code promises liveness only while
  the carrier is up.
* `RealtimeConnection`: the queue runs its operations, and the revalidation
  interval fires on a connection that has one.
* `GroupFeed`: each feed goes on with its call, page, frame, snapshot or rewind.
* `Presence`: time passes for the keys, and a handler that did not die runs its
  commands.
* `ConversionQueue`: each worker that is not stalled or dead goes on with its
  pass, and leases run out.
* `GroupSettings`: each call of a publication and of an adoption is answered, a
  changed revision produces a watch frame, and an adoption whose session ended
  still lands.

## 4. What the code does and its comments deny

`HubConcurrentGap` is the one run that expects a violation ("findings"):
`publish` awaits its append before it dispatches, so two publications may be
dispatched in the other order; `offer` drops the lower one as already seen
(`hub.ts:183`), and the client's next resume starts above it.

The modules reproduce the following ones too. Each shows as a violation of the
definition named, under the configuration given; all of them need only a change
to one of the configurations above.

| Definition | Configuration | What happens |
| --- | --- | --- |
| `RealtimeHub!NoSilentGap` | `HubLive.cfg` with `Spec` | with two processes one handler is enough: a local event overtakes a sibling's announced one and moves the cursor past it. With `LossyCarrier = TRUE` the announcement is simply lost; `hub.ts:270-273` says the loss "costs liveness only" |
| `RealtimeHub!ResyncSkipsThePage` | `HubFanout.cfg`, `MaxSequence = 4` | the page holds events above the announced sequence and a connection just told to resync is sent those; `hub.ts:383-384` says it "drops them on its own" |
| `GroupPublication!LeaderDrives` | `PublishRetries.cfg` | session authority is checked at the door only (`service.ts:527`); the append rechecks the role, not mode and leader, so a former leader's command enters the log; lines 984-985 say "exactly one device drives the group" |
| `GroupPublication!AckedIsMine` | `PublishRetries.cfg`, `Kinds = {"document"}`, two attempts, two payloads, `ReusedIds = TRUE` | a take-over replaces the fingerprint of an unfinished receipt, and is then answered with the first attempt's event; `receipt-guard.ts:121-123` says a completed row "means a previous attempt already performed this exact mutation" |
| `GroupPublication!AckedIsMine` | the same with `Kinds = {"session"}` | two session commands have one fingerprint (`eventStore.ts:272`); `receipts.ts:8-9` calls it one "of the semantic request payload" |
| the exception of `GroupAdministration!LastAdmin` | `AdminRaces.cfg` with `Admins # {}` as an invariant | `active_admin_count` is read in the snapshot, not under the lock (`group-mutations.ts:70`): two administrators that step down at once both count two; `durable-runtime.ts:1888-1891` says this is "enforced under the membership lock" |
| `GroupAdministration!LeaderCanAct` | `AdminRaces.cfg` without the constraint and the view (three minutes) | a switch to LEADER that waited behind the leader's revocation sees the leader in its snapshot (`durable-runtime.ts:1755`); lines 1732-1734 say it is refused |
| `GroupAdministration!LeaderMayDrive` | `AdminRaces.cfg` | leadership can be given to a viewer, and then nobody may publish a session command |
| `GroupAdministration!ReplayedSnapshot` | `AdminRaces.cfg` | a retry gets the recorded revision with the group's present fields; `service.ts:1024-1025` says it is the snapshot "the original call produced" |
| `GroupAdministration!ReplayedIsAnnounced` | `AdminRaces.cfg` with `FairSpec`, `MaxRevision = 2`, no symmetry, constraint or view | a handler dies between commit and announcement; the retry is marked replayed and announces nothing |
| `DeviceSession!NeverTakenForTheft` (the exception `overtaken`) | `SessionRetries.cfg` | the device's two timers may refresh at once (`ControlPlaneRuntime.tsx:248-262`); the second answer reissues and rotates the stored token away, and the next refresh is taken for a replay and ends the session. `DeviceSessionStore.ts:97-103` says that the shared id makes the retry safe |
| the exception of `DeviceSession!OneCredential` | `SessionRetries.cfg` with `~crossed` removed | the UPDATE that revokes access tokens does not see one issued since its snapshot (`durable-runtime.ts:1041-1048`, `1095-1102`, `2259-2266`): two reissues of one recorded refresh that wait for the group's lock together leave two tokens, and both authenticate until they expire or the next rotation sees them |
| the exception `adrift` of `DeviceSession!Recoverable` | `SessionRetries.cfg` with `~adrift` removed | a completed receipt lives 24 hours and a session 30 days: a device that lost an answer and comes back the day after is refused, and `ControlPlaneClient.ts:730-732` clears its store; it has to be paired again although its session is live. `DeviceSessionStore.ts:97-98` says "the retry then carries the same id and the receipt answers it" |
| the same | `SessionRetries.cfg` with `adrift` unchanged in `BeRefused` | any other call sent with an access token that a refresh has rotated away before it arrives is answered with unauthenticated, and the client forgets the session it has just renewed (`ControlPlaneSession.ts:590-605`) |
| the exception of `DeviceSession!OneCapability` | `SessionRetries.cfg` with `~doubled =>` removed | two repetitions of one `createPairingCode` at once each replace the recorded code (`durable-runtime.ts:556-656`), and both codes are live; the comment at 530-539 promises one |
| the exception of `RealtimeConnection!TimerReleased` | `SocketAdmission.cfg` with `torn` removed | a socket that closes inside `hub.subscribe` gets its revalidation interval afterwards (`server.ts:135`), and nothing clears it |
| the exception of `GroupFeed!CatchesUp` | `FeedMerged.cfg` with the second disjunct removed | snapshots outlive the window, and a resync moves the cursor to one that the window no longer covers, again and again (`GroupChannelRuntime.tsx:196`, `groupEventFeed.ts:164-166`) |
| the exception of `GroupFeed!AppliedOnce` | `FeedMerged.cfg` with `rewound` removed | the resync of one feed rewinds the shared cursor behind what another delivered meanwhile; `GroupChannelRuntime.tsx:243-245` says an event that arrived twice is applied once |
| `GroupFeed!DocumentCurrent` | `FeedMerged.cfg` with `FeedSpec`, `MaxDrops = 0` | the cursor moves to the snapshot's sequence and the snapshot's bytes are dropped; `eventStore.ts:444-445` says the client applies them |
| the exceptions of `Presence` | `PresenceLapse.cfg` with `disturbed` removed | a join's commands that run after a concurrent leave or revocation bring the key back; a handler that dies between row and Redis leaves them apart; EXPIRE before SADD leaves a set without TTL, and a set that lapses between the two leaves a renewing device unlisted |
| `MaterialLibrary!ReadyHasBytes` | `LibraryRefs.cfg` | content is deduplicated against an object whose first upload is still under way (`store.ts:948-972`): the second material is READY at once, without bytes, and stays so if the first upload is cancelled; the comment says "the bytes exist" |
| the exception of `MaterialLibrary!CompletedHasBytes` | `LibraryRefs.cfg` with `Overwritten` removed | a version upload of content that is already stored is assembled under the same key, whatever was sent; the check then refuses it and leaves the object, so a version recorded long before has wrong bytes. `service.ts:787-792` says that leaving it protects "bytes another material may already point at" and that "an unverified object is harmless while it is unreferenced" |
| the premises of `MaterialLibrary!CompletedHasBytes` | `LibraryRefs.cfg` with the premise removed | with Vercel Blob a cancelled upload deletes the content-addressed object another session stored (`vercel-blob-grant-issuer.ts:188-197`), and bytes arrive under the key as they are sent; a session without upload id is completed unverified (`service.ts:805`) |
| the same, with `checked # NoHash` for the premise | `LibraryRefs.cfg` with one material, three sessions, five revisions | a completion is verified against the material's present hash (`service.ts:809-824`), which another version of equal size has moved, and recorded after a third one has moved it back |
| the exception of `ConversionQueue!JobsEnd` | `QueueLive.cfg` with `Stranded` removed | a worker lost on the last attempt leaves its job RUNNING: the claim takes only jobs with an attempt left (`conversion/store.ts:335`), and `worker.ts:207-210` counts on the lease. A render may take ten minutes and a lease lasts five |
| `GroupSettings!CopyNeverOlder` | `SettingsFollow.cfg` with `Spec` | the copy is compared, then the log position awaited, then the copy replaced; another adoption may have replaced it by a newer one. `GroupSnapshotDownloader.ts:62-64`: "either exactly what it was … or … strictly newer … There is no third outcome" |
| `GroupSettings!PreviewIsPublished` | `SettingsFollow.cfg` with `Spec`, two settings | a draft starts empty and publishing it replaces the document, so publishing `y` drops an earlier `x`; `settings/service.ts:104` says the previewer "sees exactly what publishing it would produce" |
| `GroupSettings!NoEcho` | `SettingsFollow.cfg` with `Spec` | an adoption aborted with its session lands after the next session has connected, and its values are published back; `GroupSettingsSync.ts:107-113` guards against "two sessions echoing each other for ever" |
| the exceptions of `GroupSettings` | `SettingsFollow.cfg` with the exception removed | a publish that fails after its patch leaves the draft open ("rather than a draft left open for another device to find", `GroupSettingsSync.ts:96`); crossed adoptions of join and watch, or a read that fails after a frame, leave old values on screen or an old copy in storage until the next revision |
| the exception `missed` of `GroupSettings!Settles` | `SettingsFollow.cfg` with `\ missed` removed | undo, redo, discard, restore, import and `resetWorld` write group-scoped values and publish none (`operationsStore.ts:1179-1371`, `1400-1414`), where change and reset publish (`1080-1178`): the device stays off the document it is said to follow until somebody else changes it |

More that no property speaks of, met while reading: `getEffectiveSettings`
answers with the device document's revision when there is one, and the local copy
compares it with the group's; a version created over an upload already begun
leaks the first upload's reference, so its object is never deleted; a purge that
waited for its locks may count fewer versions than it deletes, or miss an object
row inserted meanwhile, and leaks references the same way (`Counted` says that it
is never the reverse); and a repeated `beginUpload` is given the key of the
material's present content (`store.ts:2174`), not of the one it reserved.

## 5. What is proved

Each theorem holds for sets of any size and every value of the constants that
the module's named assumption allows; these assumptions (limits positive, bounds
natural, the `No…` values outside their sets) are evaluated by TLC on every run.

`RealtimeHubProofs`:

* `TypeCorrect`: `Spec => []TypeOK`. Inductive as it stands; one lemma per
  group of actions (`PublishType`, `ConnectionType`, `ProcessType`,
  `CarrierType`), resting on what `Oldest`, `Highest`, `LowestCursor` and
  `Replay` return. Those are CHOOSEs, so the lemmas start from the existence of
  least and greatest elements (`LeastExists` from the well-foundedness of `<`).
* `WindowKept`: `Spec => []WindowIntact`. A DELETE computes its bound from the
  sequence its own INSERT got, which may be older than the log's head; the
  strengthening `WindowInv` adds that no handler holds a sequence above the head
  (`LogBehind`), so an old bound only deletes less.
* `DeliveryAscends`: `Spec => SendsAscend`. The strengthening is
  `CursorCovers`: everything a connection was sent is at or below its cursor
  while it is live, and nothing was sent while it replays. Each of the three
  routes then sends only above the cursor: `OfferAscends` for dispatch and
  drain, `FlushAscends` for the replay with its buffer.
* `ResumeComplete`: `Spec => []ReplayComplete`. A page without holes needs a log
  without holes: from any row still there up to the head every row is there, in
  whatever order the DELETEs arrive (`LogContiguous`). `PagesHeld` then says of a
  page that was read, and keeps for as long as it is held, that between its
  cursor and its last event it misses only what was older than the oldest row
  (`PageFrom`); where that is anything at all, the verdict is a resync.
* `AnnouncementComplete`:
  `HistoryLimit <= ReplayLimit + 1 /\ Spec => []DrainComplete`. On top of that,
  while a drain is under way no listener it will offer its page to is behind the
  cursor it reads from, the ones that resumed meanwhile included
  (`NoneBehindDrain`): an announced event is settled (`AnnouncedSettled`: all that
  fell out of its window has been deleted), so the page of a resume below the
  drain's cursor reaches up to it. That last step needs the hypothesis. It is met
  by the defaults (512 and 512, `eventStore.ts:59`), but the two limits are
  independent options of the hub and of the store. It is sharp: with a window of
  3 and a page of 1, TLC finds a client that closes, resumes lower while a drain
  is reading, and is then offered the drain's page across a hole; with a window
  of 2 and a page of 1 it finds none.

`AnnouncedSettled` depends on what a retried `appendAuthorized` may find: the
retention of the event it delivers again rode the statement that appended it, and
`ReplayAuthorized` says so.

`SocketPresenceProofs`, the socket: `TypeCorrect`; `NoOrphanListener`
(`ListenerOwned`), `RevocationHolds` (`NothingAfterRevocation`) and
`IntervalReleased` (`TimerReleased`). What makes them inductive is the tie
between the running operation and the closure's flags (`ConnectionInv`): a hello
that is pending is the operation that runs, a generation taken by an operation is
never ahead of the connection's and equals it only on an admitted connection, and
a frame that passed its check was offered while the token was valid.

`SocketPresenceProofs`, presence: `PresenceTypes` (`PresenceTypeOK`),
`WithdrawalHolds` (`Withdrawn`) and `LiveKeyIsSeen` (`Visible`), for any number of
devices and handlers and any TTL. The properties speak of a device none of whose
joins, leaves and revocations is under way; the invariant has to say what holds
while one is. `PresenceInv` says it of every device that is not `disturbed`: one
handler at most writes for it; if that handler issues its Redis commands, the
commands it has already run still have their effect (`Recorded` for a join,
`Forgotten` for a leave or a revocation); and with no such handler the stores agree
(`StoresAgree`). Three things could undo the effect of a command. Handlers of
other devices touch the one set they share, but only so that this device's entry
and a full TTL stay (`Spares`). Polls and reports renew what is alive and bring
nothing back. And the clock takes from the key and from the set alike; where it
passes in the middle of a join the two may come apart, which is one of the events
that make a device `disturbed`.

`GroupPublicationProofs`:

* `TypeCorrect`: it bounds every receipt and answer by the log's length. One
  case per step of the handler, through `MoveType`.
* `ReceiptsAgree`: `Spec => []ReceiptsMatchLog`, with the inductive invariant
  `ReceiptInv == TypeOK /\ ReceiptsMatchLog`. The append is the only step with
  content (`AppendMatches`): its gate found the receipt uncompleted, so by the
  invariant no event carries that request yet.
* `AppendedOnce`: `Spec => []OnceOnly`, a consequence: two events of one request
  would both be the one its receipt names.
* `WritersAuthorized`: `Spec => WriterAuthorized`.
* `PublicationKeepsPromise`: `Spec => KeepsPromise`, step simulation of
  `OnceLog`: an append that goes through is the abstract log taking a request, an
  answer is a caller being told, and everything else stutters.
* `AcksOwn`: `~ReusedIds /\ Spec => []AckedIsMine`. The invariant `AnswerInv`
  speaks of requests rather than of receipts: attempts with one request id ask
  for one event (`OneMeaning`), and every event was asked for by an attempt that
  is still known (`EventsWereAsked`). Then the event a receipt names can only be
  the caller's own. The hypothesis is what `AckedIsMine` needs (section 4);
  clients that reuse an id keep the weaker `KeepsPromise`.

`GroupAdministrationProofs`, statements that overlap and handlers that die
included:

* `TypeCorrect`; `AdministratorsAct`, `LeaderStays`: `Spec => AdminActs`,
  `Spec => LeaderKept`. `GroupWriters` shows that only a statement that goes
  through and a new membership touch the group; both conditions read locked
  rows, which is why they hold however old the statement's snapshot is (and why
  the ones of `LastAdmin` and `LeaderCanAct`, read in the snapshot, do not).
* `RevocationFinal`: `Spec => RevokedIsFinal`. The strengthening
  `RevokedWerePaired` says that a revoked device has a role: without it a new
  pairing could give it one.
* `MovedOnce`, `AnsweredWithOwn`: `Spec => []OncePerRequest`,
  `Spec => []ReplayAnswersOwn`, both from the inductive invariant `ReplayInv`:
  completed receipts and revisions name each other (`ReceiptsMatchHistory`), and
  a retry copies its revision from a completed receipt.
* `LastAdminKept`: `Spec => LastAdmin`. A statement writes one membership
  (`AdminTakenFrom`), so the administrator it takes was the only one left; a
  count of one that is current refuses, hence the snapshot's was stale.

`ConversionQueueProofs`: `TypeCorrect`; `RenditionsBacked`, `AttemptFences`
(`OneOwner`) and `JobsEndOnce` (`EndsOnce`) from `QueueInv`: the attempt a
worker holds is never above its job's, two workers never hold the same attempt
of one job, a worker past its upload has stored the object, and a job goes with
its version.

`MaterialLibraryProofs`, all four invariants of `LibraryRefs`, for any number of
materials, uploads and contents:

* `LibraryTypes`, `CurrentIsAVersion` and `ReferencesHold`
  (`Spec => []VersionsBacked`) from `CountInv`. The count cannot be justified by
  what `purgeMaterial` subtracts: `held_references` counts version rows, plus one
  for a first upload without any, and an upload that completes beside a newer
  version adds a row without a reference. What is inductive is the other side
  (`Counted`): every upload session whose material is still there, finished,
  open or cancelled, holds one reference to its content. `HeldBySessions` then
  shows that a purge subtracts no more than the purged material's own sessions
  hold, whichever version rows its snapshot shows it: they are sessions
  (`VersionOfSession`), and the content it reserves is one that a session of it was
  opened for (`Reserved`). The count may stay too high (a cancelled first upload
  whose material moved on to another content, a purge that saw too little); it is
  never too low. `CountInv` held on `LibraryRefs` before it was
  proved.
* `RecordedBytes` (`Spec => []CompletedHasBytes`) from `BytesInv`, which adds what
  holds between the two bucket calls and the statement (`UploadInv`): a completion
  that is past assembling has no upload left that could put other bytes under its
  own key, so from a successful verification on only another
  upload's assembly can put other bytes there, and it leaves its trace
  (`Overwritten`, which stays).

Sixteen actions reduce to five kinds of step (`StepKinds`): a session is opened,
a material's own columns change, a material is purged, a version is recorded, or
sessions move on and the other tables stay (`Carried`).

`DeviceSessionProofs`: `TypeCorrect` and `EndIsFinal` (`EndedStaysEnded`) from
`SessionInv` (types, and what a handler's state says of its request).
`CredentialIsOne` (`OneCredential`) from `CrossInv == ~crossed => CrossParts`: a
statement revokes the tokens of its snapshot, which is all of them if no rotation
came since its handler's last step. A refresh
that rotates presents the current token, which was there before its snapshot, so
the snapshot is current. Of a reissue the invariant says that its handler's last
step (`since`) was in the current generation.
`AlwaysRecoverable` (`Recoverable`) needs `RefreshInv == ~overtaken =>
RefreshParts`: the session was not taken for stolen; the stored token is the
current one, or its rotation is recorded under the pending id, and only calls with
that id present it (`HeldGood`); a rotation still to come is of the current token
and of one request (`OpenGood`); and until `adrift` the device has its session and
the receipts it needs have not run out, so nothing it awaits is refused
(`KeptGood`). `CapabilityIsOne`
(`OneCapability`) needs `CodeInv == ~doubled => CodeParts`: a code is live or used
only while the receipt names it, and the one replacement under way is of the code
the receipt names.

`ClientProofs`, the settings: `TypeCorrect`; `DraftsAccounted` from `SettingsInv
== TypeOK /\ DraftAccounted`: the draft is open only while some publication is
between its two calls, or was abandoned there (`leftOpen`), or an outside client
staged it. `CopiesAccounted` (`CopyAccounted`) from `CopyInv`, which says of every
device that the copy and every answer is the document of its revision, never a
later one (`TrueCopy`), and that the watch's answer is at least as new as the
frame it was woken by. What makes the two adoptions cross is that one of them may
have looked at the copy before the other replaced it. If the watch looked last it
replaces whatever is older; if the join put an older copy under it, the watch
may keep that one (`Misled`), and then the join is over and the device is `behind`
until the next revision.

`ClientProofs`, the feeds: `FeedTypes` (`FeedTypeOK`), `AppliedAtMostOnce`
(`AppliedOnce`) and `NothingSkipped` (`NoSkip`), for any number of sockets and
pollers and every window and page. All three follow from `FeedInv`.

* For `AppliedOnce` it adds that an event above the cursor was never applied unless
  the cursor was taken back across it (`ChannelInv`): the channel's comparison with
  the cursor is what keeps the second copy out, whichever feed brings it.
* For `NoSkip` the cursor alone is not enough, since it may be moved by a feed
  whose page was read long before: a rewind sets it to a floor, a page to its last
  event. Hence everything at or below the cursor, a feed's position or its floor
  is covered, that is applied, lost or thrown at (`CoveredTo`), which only grows;
  and a page follows on from its feed's position (`FollowsOn`).
* That last part is where the server comes in (`AnswerFollowsOn`): the retained
  window is an end of the log, so a page that is not answered with a resync starts
  right above the position it was asked for, and has no hole up to its last event.

`FeedInv` and `PresenceInv` held on `FeedMerged` and `PresenceLapse` before they
were proved.

Proved and not run, because a property the runs check implies or contains them:
`OnceOnly`, `AdminActs`, `LeaderKept`, and the `TypeOK` of those modules.

Every invariant and every action property of the passing runs is thus also a
theorem (`AckedIsMine` and `DrainComplete` under the hypotheses named above).

Only model-checked: the liveness properties (`CaughtUp`, `RevokedIsCut`,
`CatchesUp`, `StoppedIsNoticed`, `JobsEnd`, `Settles`), because temporal reasoning
with fairness and ENABLED is out of the prover's reach.

## 6. Plan

1. An abstract ordered log that `RealtimeHub` with one process and one handler
   implements, and that `GroupFeed` takes as its server.
2. Layout documents beside the settings; the choice among several planes on the
   client.
3. Pure operators against reference definitions: information states, tile
   packing.

## 7. Not modelled

* The in-memory doubles of the stores: tests only, one process, no durability.
* Telemetry, simulation profiles and integrations: independent rows over the
  receipts already modelled, and calls to an outside service.
* Layout documents: one row at a time by the kind of statement `GroupSettings`
  models for the settings; the device's own settings scope, which no other
  device reads.
* `createGroup` beyond the state it leaves, and the wiring of the configured
  lifecycle; the choice among planes and the capability probes of the client,
  which decide whom to ask and not what is stored.
* Playback synchronisation and the screen bus: corrections of media clocks by
  measured drift, a matter of real time and tolerances.
* Domain algorithms and the layout engine: pure functions, most of them over
  floating-point values, tested at their boundaries.
* The operations store beyond the actions that write the settings, and the
  interface: a single-threaded reducer and rendering.
* The file bridge and the native shell: file-system and process glue. Database
  schema, drivers, generated protocol code, setting and asset catalogues:
  declarations.

These make up most of the repository's lines: the interface, the generated
protocol, the setting schema and the catalogues alone are well over half of
them, and the map's share of the whole is small for that reason. It is large
where state is shared.

Within the modelled parts: the rate limiter (it only ends an attempt, which
`Abandon` does), logging, wire encodings, the orderly shutdown of a process (a
crash that loses less), poll cadence and backoff delays (they only decide when a
step happens), listings of materials, the signing of grants, the rendering of a
conversion, and what a device reports of its screen. A presence handler that fails
gives up the Redis commands it has not seen answered; that one of them arrives
later, behind the device's next join or leave, is not modelled.
