# Verification of camrelay

camrelay reaches Dahua-style cameras through the vendor's P2P service, offers
each as a local RTSP port, records segments with ffmpeg, archives them with
rclone, and serves an HTTP API. This directory holds TLA+ models of its core,
TLC runs over them, and proofs checked by TLAPS. Paths below are relative to the
repository root; every definition that models code names its lines in
`PROJECT.json` ("map").

## Inventory

| Component | State | Operations | Interacts with |
| --- | --- | --- | --- |
| TunnelManager (`src/tunnel.rs`) | status map, handle map, two tasks per start | start, stop, status | API handlers, auto-start, the reconcile loop read and drive it |
| Tunnel relay (`src/tunnel.rs`, `src/process.rs`) | bounded channels, realm maps, four kinds of task | accept, connect, relay both ways, heartbeat | local TCP clients, the device over PTCP/UDP |
| PTCP session and codec (`src/ptcp.rs`) | byte counters, packet ids | send, recv, parse, serialize | dh_writer and dh_reader share it under a lock |
| Provider handshake (`src/dh.rs`) | sockets, CSeq | probe, online, relay, p2p-channel, NAT punching | run_tunnel awaits it |
| Recording index and archive (`src/recordings.rs`) | index in memory and in a JSON file, upload tasks | reconcile, archive, cleanup_retention | ffmpeg's files, rclone, API handlers |
| Recorder processes (`src/recordings.rs`) | one ffmpeg per camera | start, stop inactive, reap | TunnelManager status, RTSP proxy |
| Live gateway (`src/live.rs`) | one ffmpeg per camera | start, stop, is_running | RTSP proxy, MediaMTX |
| RTSP credential proxy (`src/rtsp_proxy.rs`) | listener per camera, digest state per connection | ensure, stop, proxy_connection | recorder, live gateway, tunnel port |
| Sessions, tickets, WHEP (`src/web.rs`) | session cache, three ticket maps | login, logout, rotate, issue and use tickets | SQLite |
| Camera, provider, token CRUD (`src/web.rs`, `crates/camrelay-storage`, `src/main.rs`) | SQLite or whole JSON files | read-modify-write, legacy import at start | TunnelManager, live gateway |
| Contract types, configuration, router, web console, mobile client, deploy | none of their own | - | - |

What is hard in it: the two maps of TunnelManager are locked one after the other
while tasks of earlier starts still run; the relay's tasks wait for one another
through full channels; the recording index is changed by a loop, its upload
tasks and API calls, saved outside its lock, and read back after a restart; viewers
and the recorder share a proxy that either of them may stop; a session lives in a
cache and in a table that are changed one after the other; cameras are read, changed
and written back in separate steps, over files that no lock protects; the handshake
takes whatever datagram comes next for the answer it waits for.
`PROJECT.json` ("hazards") lists each such point with its line and the
properties that cover it.

What makes each component correct:

- TunnelManager: a status that refuses a start is backed by a task, a start or a stop
  of that camera (a task whose waiter was aborted counts, and may never end); one
  tunnel per port; Starting ends; a lost tunnel shows.
- Relay: nothing lost, doubled or reordered behind the UDP socket; a device
  sees connect, data, disconnect in order, and data only for a realm it has answered
  for; no wait that only full channels cause.
- Recordings: what the index claims of the archive is true; retention never
  removes the only copy; an upload ends, short of a restart or a dropped request.
- Recorders, live gateway, proxy: every recorder can be found and stopped (a live ffmpeg
  need not be, as the run `media_gateway_kept` shows); no proxy listener without an
  owner; a camera is recorded again after a failure, unless its proxy entry is dead.
- Sessions: in the table, a session that was revoked stays revoked and a login has
  one row at most; no session gets lost or changes its principal. (In memory a lookup
  under way may bring a revoked token back until a restart.) WHEP: a session that is open
  is known to its viewer, being handled, or accounted for by an expired ticket or a lost
  answer.
- CRUD and import: with SQLite, an answered change that no other overlapped stays until
  an import of the legacy files; a deleted provider stays deleted.
- Handshake and PTCP: it ends, as long as the device sends a bounded number of Empty
  packets; without duplicated datagrams no answer is taken for another's; both ends count
  the same bytes. Proxied connection: request and answer stay in step unless a frame of
  media comes before the answer to PLAY.
- Range requests: the bytes asked for, no others, with the right length.

## Modules

| Module | Models | Checked by |
| --- | --- | --- |
| `TunnelManager` | `src/tunnel.rs`, the manager and the life of its tasks | `MCTunnelManager` |
| `TunnelManagerProofs` | theorems about it | TLAPS |
| `TunnelRelay` | a running tunnel: `src/tunnel.rs` 145-209, `src/process.rs` | `MCTunnelRelay` |
| `RealmStreams` | the abstract promise of a tunnel to each client, which `TunnelRelay` implements | `MCTunnelRelay` |
| `TunnelRelayProofs` | theorems about it, the refinement among them | TLAPS |
| `Recordings` | `src/recordings.rs` without the recorder processes | `MCRecordings` |
| `RecordingsProofs` | theorems about it | TLAPS |
| `MediaGateway` | recorder processes (`src/recordings.rs` 341-551), `src/live.rs`, `src/rtsp_proxy.rs` 39-87 | `MCMediaGateway` |
| `MediaGatewayProofs` | theorems about it | TLAPS |
| `AuthSessions` | authentication: `src/web.rs` 90-405 over `camrelay-storage` | `MCAuthSessions` |
| `AuthSessionsProofs` | theorems about it | TLAPS |
| `ConfigStore` | camera and provider handlers of `src/web.rs`, `camrelay-storage`, `src/config.rs` 193-203, the import of `src/main.rs` 35-59 | `MCConfigStore` |
| `ConfigStoreProofs` | theorems about it | TLAPS |
| `P2PHandshake` | `p2p_handshake` of `src/dh.rs`, the counters of `src/ptcp.rs` | `MCViewPath` |
| `RtspProxy` | `proxy_connection` of `src/rtsp_proxy.rs` | `MCViewPath` |
| `WhepSessions` | live tickets and WHEP: `src/web.rs` 2358-2670 | `MCViewPath` |
| `ViewPath` | the three above composed | `MCViewPath` |
| `ViewPathProofs` | theorems about the handshake, the proxy and the viewers in it | TLAPS |
| `RangeRequest` | `parse_range` and its caller, `src/web.rs` 2762-2865 | `MCRecordings` |
| `RangeRequestProofs` | theorems about it | TLAPS |

A definition whose comment begins with "Mutant" is a plausible bug, kept beside
the definition it replaces; it shows that a property can fail and belongs to no
specification.

### TunnelManager

`status` and `handles` are the two maps; a call of start or stop is a member of
`Requests` and moves through `pc`, one action per lock acquisition or spawn. A
start `r` spawns outer task `r` (awaits, reports, removes the handle), which
spawns inner task `r` (`run_tunnel`). `Abort` is tokio's `abort()` on the outer
task: it ends at its await and detaches the inner one. `listener` is the TCP
port, held from a successful bind until `run_tunnel` returns. The handshake is
one step with two outcomes, the accept loop one state that can be lost.

### TunnelRelay

A client is named by its realm. `events` is the channel of capacity 128 into
dh_writer, `channel[c]` the one of a realm; a send waits for room and fails when
the receiver is gone, so the guards of `SendConnect`, `Push` and `Forward` carry
both. The device and the UDP wires are external: datagrams keep their order,
`Transmit` may lose one, and `Answer` may refuse, with a status that dh_reader passes
over or with none. `upLog`, `taken`, `delivered`
and `mishap` are history variables. Realms, random u32 in the code, are taken to
be fresh. `StreamsKept` says that all of this implements
`RealmStreams`: per client a stream that opens once, takes chunks, hands over each
that came, in order, and closes; `down` is its state. `CHECK_DEADLOCK FALSE`: after dh_reader or dh_writer has stopped, the
accept loop may wait for ever on its oneshot. That wedge is in the code
(`src/tunnel.rs` 200 has no timeout), and it is why the liveness properties
excuse `mishap`.

### Recordings

A record is named by its segment. An index change is an action that also queues a
snapshot (`Commit`); `Clone`, `Write` and `WritesMix` are `persist`, which takes
the lock a second time and writes outside it. A task goes on only when its own
snapshot is written (`Ready`). `loop` walks through `reconcile`; `task` holds the
upload tasks and the API calls with the copy of the record that they work on,
which is why a checksum or a decision may be stale. `Crash` is a restart: memory
becomes what the disk says, or empty when a write was cut short. `DropCall` is a
request whose client went away. ffmpeg and rclone are external: a copy replaces
the remote object or leaves it. A file may be quiet for 8 seconds while ffmpeg still
writes it (`MayStall`); `early` are the segments that were indexed so.

### MediaGateway

A task is an HTTP handler or the reconcile loop; `task` holds its label and its
locals. `entries` is the proxy registry and `listening` the accept loops that run: they
part when a listener waits for its registration or has died (`AcceptFails`).
`live` and `recorders` are the two maps of processes, `child` the processes
themselves, because a dropped `Child` runs on. A proxied connection outlives its
listener, so `StopProxy` ends no stream. `StopInactive` kills and stops the proxy
in one step: what could come between sees either the old entry or none, as it does
before or after the step. `failures` bounds lost tunnels, failed binds, spawns
and accepts, and exits of ffmpeg while its tunnel is up. A tunnel is up or down
here; how it gets there is TunnelManager's business. Cameras are not edited or
deleted: the handlers of a delete are modelled as far as they stop things. A port
that was another camera's a moment ago is not told from a fresh one.

### AuthSessions

`rows` is the table auth_sessions, `cache` the map `sessions`; a call is one HTTP
request and moves through `pc`, one step per await of the storage or per lock that
another call can notice. `origin` ties a token to the login it stems from through
any number of refreshes. Each storage operation may fail; `Disconnect` drops a
handler at an await, `Restart` all handlers and the map. `database` is chosen once
and covers both modes in one run. The expiry of a row is a failure of `Find`, which
may happen at any time; the map never looks at it, and neither does `Rotate`.
`RevokedStaysRevoked` is about the table: the code puts the answer of the storage
into the map after an await (`src/web.rs` 188-201), so a logout in between is undone in
memory until a restart, and a logout whose DELETE fails leaves the row and answers 204
(`src/web.rs` 331-346). Both are steps of the model. They disagree with "logout revokes
the SQLite session" (`docs/api-v1.md` 118) and "server-side and revocable"
(`docs/architecture.md` 48); no run states those two sentences.

### ConfigStore

`table` and `providers` are SQLite, `file` is `cameras.json`. A statement is one step
and may fail; saving a file is two, `Truncate` and `Write`, because `fs::write`
empties it first, and what is read in between is an empty list. An edit is
`FindCamera` and `UpsertRow`, or with files `FindCamera`, `LoadAgain` and the save.
`promised` is what the answers so far make of each row, `Unknown` where edits or
deletions of one camera overlapped, because the code orders them in no way. `Start`
imports the file at every start, as the code does, in the order of the file and in one
transaction with the mark (`marker`), which nobody reads; an import is a change of the
cameras that the file lists, so `ChangesAreKept` speaks of the time up to it, and the run
`store_import` shows what it undoes. Of the files nothing is promised: either half of a
save may fail, the legacy edit and deletion answer as if it had not (`src/web.rs` 1943,
1962), and a crash or a second writer leaves a file that reads as empty. `Check` and
`DropProvider` are separate statements: "A provider in use by a camera cannot be deleted"
(`docs/api-v1.md` 130) fails when the cameras cannot be read, which counts as not in use,
and when a camera is written after the check; `InUseIsChecked` proves that these are the
only two ways. The database is chosen at the first start and kept: that a
later start falls back to files when it cannot be opened (`src/main.rs` 51-54) is
left out.

### P2PHandshake, RtspProxy, WhepSessions and ViewPath

`Plan` lists the requests of the handshake; `Send` and `Read` walk through it,
`Timeout` ends it when nothing comes. `peer` is what each socket is connected to: a
datagram from anybody else is dropped when it arrives, and not later, which is what
keeps most late answers out although no CSeq is compared. `air` is the network: it
loses, delays, reorders and duplicates. `sess` and `dev` are the counters of both
ends, modulo `Width`. The servers, the relay and the device are external; a datagram
under 20 bytes is refused where a raw one is awaited. The code reads Empty packets
without a limit (`src/dh.rs` 304, 447): `HandshakeEnds` holds for a device that sends
a bounded number of them.

`RtspProxy` is one connection: `conn` is where `proxy_connection` is, `auth` its
digest state, `toCam` and `toProxy` the tunnel. The camera may challenge anything
again, with a new nonce or one it gave before (`given`; `shown` is what it has been
shown), and may be eager, that is send a frame of media before its answer to PLAY,
which the proxy then takes for the answer. Every challenge starts the count anew
(`src/rtsp_proxy.rs` 121), so a repeated nonce is shown again with count 1:
`NonceCountOnce` allows that as often as the camera gave the nonce, and no more.

`WhepSessions` has `grant` and `entry` for the maps live_tickets and webrtc_sessions,
and `remote` for MediaMTX. A handler is where its lock or its request to MediaMTX
splits it (`call`); a post enters its session (`PostEnters`) before it reads the rest of
MediaMTX's answer, which may not come (`PostUnanswered`). `known` are the sessions whose
id a viewer has got. An answer of MediaMTX to DELETE counts as the end of the session
whatever its status, as it does in the code (`src/web.rs` 2660-2669).

`ViewPath` couples them: the local port answers once the tunnel is Running, a
ticket is issued only then, and MediaMTX opens a session only while the gateway's
ffmpeg plays. `CHECK_DEADLOCK FALSE`: a handshake that failed and a view that is over
take no further step.

### RangeRequest

A pure algorithm: `ParseRange` against `Wanted`, the bytes a client asked for; a bound
of 2^64 (`U64`) or more is refused.
`MCRecordings` evaluates it for every small file and range (`RangesServed`), and
`RangeRequestProofs` proves it for all.

## Runs

| Run | Bounds | Shows |
| --- | --- | --- |
| `tunnel_manager` | 2 cameras on 1 port, 3 calls | `TypeOK`, `StatusIsBacked`, `OneListenerPerPort`, `StartingEnds`, `LossIsReported` |
| `tunnel_stop` | the same, 2 calls | violation of `StopEndsTunnel` |
| `tunnel_relay` | 2 clients, channels of 1, wires of 2; one client sends 1 chunk and gets 1, the other gets 2 | `TypeOK`, `NothingLost`, `RealmProtocol`, `DataAfterConfirm`, `StreamsKept` (refines `RealmStreams`), `AwaitEnds`, `ReaderMovesOn` |
| `recordings` | 1 segment that may stall, 1 API call beside the worker, 1 restart | `TypeOK`, `ArchiveClaims`, `NeverLastCopy`, `UploadHasOwner`, `UploadEnds` |
| `recordings_closed` | 1 segment that may stall | violation of `IndexedIsClosed` |
| `recordings_worker` | 1 segment, 1 restart | violation of `SegmentsUploaded` |
| `media_gateway` | 1 camera, 2 handlers, 3 ports, 2 recorder processes, 1 live process, 1 failure | `TypeOK`, `RecorderKept`, `ListenerOwned`, `RecorderEnds`, `RecorderComesBack` |
| `media_gateway_kept` | the same, no failure | violation of `LiveKept` |
| `sessions` | 2 requests at a time, 3 session tokens, 1 API token; both modes | `SessionTypeOK`, `RevokedStaysRevoked`, `SessionDoesNotFork`, `SessionKept`, `PrincipalIsJustified` |
| `store` | 2 cameras, 2 ports, 1 provider with 2 ids, 2 requests at a time and 3 in all, 2 restarts; both modes | `StoreTypeOK`, `ChangesAreKept`, `ProviderStaysDeleted` |
| `store_import` | the same | violation of `RestartKeepsCameras` |
| `view_path` | 1 handshake with 1 duplicate, counters modulo 20, 1 connection of 2 requests and 2 challenges, 2 tickets, sessions and viewers | `ViewTypeOK`, `OwnAnswers`, `CountersAgree`, `HandshakeEnds`, `AnswersInOrder`, `NonceCountOnce`, `ClientIsAnswered`, `RemoteAccounted` |

Why the bounds are enough. The races of TunnelManager are between a call, a task
of an earlier start and the report of a third: three calls give each a part, and
two cameras with one port make both kinds of competition (one camera twice, two
cameras). Calls start in order of their name, which only removes symmetric
initial states. Channels of one are full after one message, so every sender
meets a full one; two clients show interference, two chunks reordering.
Segments meet only in the loop and in a snapshot, both of which take the whole
index, so one is enough for properties of each segment. The worker's upload, an API
slot that serves one archive or cleanup after the other, and a restart give three
writers of its record, with late snapshots of each; that more calls at a time change
nothing is what the theorems say, for all but `UploadEnds`. Cameras of the media
gateway share only the order of the loop, so one is enough; three ports cover three
tasks that bind at once, two handlers and the loop make every pair of
viewer, stop and recorder meet, and each handler runs any number of times, so the
runs are long although the tasks are few. A run with liveness has no symmetry. The races of
sessions are between two requests that present one token, and a third token lets both of
them draw a new one. Two requests at a time are any pair of an edit, a create, a delete
and a provider check; a third leaves room for what they follow or for what shows their
effect. In `view_path` only the sum of the counters matters, not where it wraps: 20 is
less than what a handshake counts, so they do wrap; two packets in the second round of punches
have a first and a last; a duplicate may be of any datagram. Two requests are one
before the challenge and PLAY with credentials; two challenges allow one of the retry
and a later one, with the same nonce or another. Two viewers with two tickets and two sessions make every pair
of WHEP calls, on one session and on different ones. `CHECK_DEADLOCK FALSE` in
the TunnelManager runs: all calls may have returned with no tunnel left.

What the violations show. `StopEndsTunnel`: stop aborts only the task that awaits
the tunnel, against "Stop a tunnel." (`README.md` 345); the tunnel keeps its port
and its session. `IndexedIsClosed`: a file counts as closed 8 seconds after its
last write, against `README.md` 270; with a stalled stream the hash and the
archived object are of a part of the segment. The passing run has such segments too
(`MayStall`), and its properties say what still holds of them. `SegmentsUploaded`: the status `uploading` is
saved before the upload, and a restart in between strands the segment, against
`README.md` 278. `LiveKept`: two viewers at once start two live ffmpeg, and the first
one drops out of the map, against "Every long-running task accepts cancellation"
(`docs/architecture.md` 59). `RestartKeepsCameras`: the legacy files are imported at
every start, against "A migration marker prevents duplicate imports" (`docs/migration-plan.md`
29); edits of the cameras they list are undone and deletions reversed. Without runs of
their own: the two sentences on logout and the one on providers in use (see
AuthSessions and ConfigStore above), and the recorder
"starts only while the camera tunnel is running" (`README.md` 270), yet the
status is read before the awaits of `ensure`; `RecorderEnds` shows that the
loop repairs this.

### Fairness

Weak fairness of a task's steps stands for the tokio runtime, which polls every
ready task, and for the timeouts that end every wait of the handshake. Nobody is
assumed to call start or stop, a tunnel may serve for ever, and no fairness is
put on faults (`WriteFails` and `DeliverFails` occur only as alternatives inside a
fair action) nor on restarts and dropped calls. `SendConnect` and `Push` have strong
fairness because an mpsc channel serves its waiting senders in order, so a sender
cannot be overtaken for ever. In Recordings the loop's timer ticks, spawned
tasks run, rclone ends and file writes complete (`Fairness`, for `SegmentsUploaded`);
`UploadEnds` is checked with only the part of it that an upload needs once it is due,
`UploadFairness`: the loop goes on to spawn it, writes complete and its steps run. In ViewPath the handshake's own
steps are fair, because every read in it has a timeout (`src/dh.rs` 99, 648), and so are the proxy's task and the
camera, which answers what it gets; `ClientIsAnswered` names the two cases in which the code
leaves a client waiting, an end of stream taken for an empty answer and an eager
camera. Nobody has to connect, to ask or to leave. In MediaGateway only the loop and the
answer to a connect are fair: `RecorderComesBack` holds although a
handler may rest half way for ever.

## Proofs

`TunnelManagerProofs` proves, for every set of cameras, ports and calls and from
`TunnelAssumption` alone (each camera has a port; "no task" is not a call):

- `TypeCorrect`: `Spec => []TypeOK`.
- `OneListener`: `Spec => []OneListenerPerPort`. The property is not inductive: it
  does not say who a bound port belongs to. `ListenerHeld` does (a task past its
  bind is the one in `listener`), and two holders of one port are then equal.
- `StatusBacked`: `Spec => []StatusIsBacked`. It needs two more facts. `Phases`
  relates the three program counters of one start: without it, a task could be
  reported while its inner task still announces Running. `HandlesOwnCamera` says
  that a stored handle belongs to a task of that camera: without it, `StopTask`
  could abort a task of another camera and take away what stood behind its status.
  `BackedStep` then has one case per action; all but `StopTask` fall under two
  patterns, a step that keeps the status and everything behind it, and one
  that writes the status of its camera and is itself what stands behind it. At
  `StopTask` the aborted task no longer backs Starting, and the stop, which is
  about to overwrite the status, takes its place.
- `OwnCameraStopped`: `Spec => StopsOwnCamera`, an action property from
  `HandlesOwnCamera`: a stop aborts only a task of its own camera.

`RecordingsProofs` proves, for every set of segments and calls and every number of
restarts, from `RecordingsAssumption` alone (no segment is a call):

- `TypeCorrect`: `Spec => []TypeOK`. The types are not inductive without `Queue`:
  a segment's own worker is an upload of that segment, and the uploads that the
  loop is about to spawn are waiting for it.
- `UploadsOwned`: `Spec => []UploadHasOwner`. `OwnersKept` is the pattern of most
  steps: a task leaves no `uploading` that it owned and makes none that it does
  not own. `ScheduleUploads` overwrites worker tasks and is the step to look at:
  by `Queue` it takes no owner away from another segment.
- `ArchiveTrue`: `Spec => []ArchiveClaims`, and `LastCopyKept`: `Spec => []NeverLastCopy`,
  also when files stall and grow again.

The last two follow from two inductive invariants. `Safe` is about the segments that were
not indexed early, those nothing reads before they are closed. `ArchiveClaims` alone
says nothing of the snapshots that will overwrite the disk nor of what a task in the
middle of an upload believes. `SoundIndexes` asks of every index (memory, disk, each
snapshot) that its records are of kept files, that an archived one has a whole object and
a verified one also its checksum. `SoundWork` asks it of the tasks: a checksum they carry
is the record's, past the copy the object is whole, and what a scan took for
archived still has its object. The argument is that all this only grows (`Grows`:
files stay kept, whole objects whole, known checksums known, early segments early), so
that what one task or one old snapshot knows survives every step of the others
(`TaskStays`, `IndexFrame`), and only the step's own task has to be looked at
(`UploadFrame`, `CallFrame`, `LoopFrame`); of an early segment nothing is to be shown
(`EarlyUpload`). `Held` is about all segments: the object of an early one may be of a part of the
file, but what any index calls archived has one, and with archiving enabled retention
deletes no segment that was never copied. It says as much of every snapshot, of an
upload past its copy and of what is left of a scan; no step takes an object away
(`HeldFrame`).

`MediaGatewayProofs` proves, from `GatewayAssumption` alone (the loop is no handler,
the two kinds of process differ, `None` is none of them):

- `TypeCorrect`: `Spec => []TypeOK`, with `Locals`: a task has the camera, port and
  process that its label says.
- `RecordersKept`: `Spec => []RecorderKept`. It needs `LoopClear`: from the decision
  to start a recorder until it is stored, through the three steps of `ensure`, the map
  has no recorder of that camera. `HandlerApart` shows that no handler touches it.
- `ListenersOwned`: `Spec => []ListenerOwned`, which is inductive with the types; the
  work is in `Insert`, where the caller that comes second closes its own listener
  and no other.

`TunnelRelayProofs` proves, for every set of clients, every capacity and every number of
chunks, from `RelayAssumption` alone:

- `TypeCorrect`: `Spec => []TypeOK`.
- `NothingLostCorrect`: `Spec => []NothingLost`. It needs `ServedOnce`, that a client
  the accept loop has not served yet has no channel and no writer, and no client is
  served twice; without it a second channel could start empty in the middle of a stream.
- `StreamsCorrect`: `Spec => StreamsKept`, the refinement: the initial states are those of
  `RealmStreams`, and each action is one of its steps or leaves its variables alone. `NothingLost`
  is the invariant that makes the step of `Deliver` hand over the chunk that is next.
- `ProtocolKept`: `Spec => []RealmProtocol`, and `ConfirmedFirst`: `Spec =>
  []DataAfterConfirm`. What is written on the wire was put into the shared channel
  earlier, so `Uplink` relates, client by client, the log, the channel and the task.
  `Unannounced`: until its turn in the accept loop a client has nothing in the channel,
  and nothing written. `Ordered`: while its one connect is queued nothing is written,
  chunks are queued only by a client that runs, and nothing follows a disconnect. `Heard`:
  the task of a client runs only after the device has answered, hence after its connect was
  written; this puts connect before data although different tasks queue them.
- `AwaitAnswered`: `Spec => []AwaitIsAnswered`, and `BlockedReaderFreed`: `Spec =>
  []BlockedReaderIsFreed`, the safety behind the two liveness properties of this module:
  while no datagram was lost and no task died, what the accept loop waits for is on its way through
  tasks that run, and a reader that waits for room waits for somebody who need not wait for it.
  Their invariant is `Flow`. `ConfirmedBefore`: a realm's confirmation is ahead of its
  chunks, so a reader with a chunk in hand has fired the oneshot. `Turn`: a realm that fired
  and has no writer is the one the accept loop is about to bridge. It rests on `Uplink`,
  without which a confirmation could find no realm registered.

`AuthSessionsProofs` proves, for every set of requests in flight, of tokens and of users,
with any number of restarts, from `SessionAssumption` alone:

- `SessionsTyped`: `SessionSpec => []SessionTypeOK`.
- `RevokedForGood`: `SessionSpec => RevokedStaysRevoked`, an action property. A row comes
  from a login, whose token has no origin yet, or from a refresh that finds the row of
  the token it was given, which then has that row's origin.
- `NoFork`: `SessionSpec => []SessionDoesNotFork`. `Carried`: between the transaction
  of a refresh and its response the new row has taken the place of the old one, and
  only this call knows its token.
- `SessionsKept`: `SessionSpec => []SessionKept`, from `Survives`, which follows a login
  through every refresh: it is known and stored, or in the hand of exactly such a call.
- `PrincipalsJustified`: `SessionSpec => []PrincipalIsJustified`. `Principals` adds
  to the property what a call is about to put into the map, read before its await.

`ConfigStoreProofs` proves, for every set of cameras, ports and requests in flight, with
any number of failures and restarts, from `StoreAssumption`
(there are finitely many cameras; "no camera" and "an empty file" are neither a camera nor
a file; the two bounds are numbers):

- `StoreTypesHold`: `Spec => []StoreTypeOK`, the UNIQUE constraint on ports included. The
  work is in the import (`ImportIs`): of two rows that it inserts the later one was
  compared with the earlier one, and with every row that the file does not list.
- `AnsweredChangesAreKept`: `Spec => []ChangesAreKept`. The property says nothing of what a
  request in flight is about to write. `RowsKept` adds it: an edit that nobody
  overlapped holds the row as the table still has it, with its own change, and of
  two edits of one row each is marked. It needs `DrawnOnce` (a create takes an id that no
  row, file or request in flight has; otherwise it could change a row under an edit that
  does not know of it) and `Quiet` (no request is in flight when an import changes rows).
- `DeletedProvidersStay`: `Spec => ProviderStaysDeleted`, an action property: only a
  create adds a row, and it draws a new id.
- `InUseIsChecked`: `Spec => InUseDeletedOnlySo`. Not the promise of `docs/api-v1.md` 130,
  which the code breaks, but the exact extent of it: the last provider of a name goes
  only in a deletion that knows (`late`) every camera still under it, because it could not
  read the cameras or because the camera was written after its check (`LateKnown`).

`ViewPathProofs` proves for the composition, from `WhepAssumption`, `RtspAssumption` and
`P2PAssumption` (the counters can count to 2; the rest says that bounds are numbers).
About the handshake, for every width of the counters and every number of duplicates, and
whatever is lost, delayed and reordered:

- `EachItsOwnAnswer`: `ViewSpec => []OwnAnswers`. `InFlight`: a datagram answers a request
  that was made, on the socket that made it. `OneAnswer`: without duplicates, apart from
  the answers that come in numbers (`Loose`), there is at most one datagram about, and it answers the
  request whose answer is awaited; for a request is made only when the one before it was
  answered. `OwnKind` then goes through the requests: on the same socket and with a kind the
  step takes, none of the loose answers fits but its own.
- `CountersStartEqual`: `ViewSpec => []CountersAgree`. `Counting` says, for each of the last
  three requests and each half of it, what both ends have counted; the device has
  counted a command as soon as an answer to it is about. A session that is used on with
  the device would start from another sum.
- `ViewTypes`: `ViewSpec => []ViewTypeOK`. For the handshake `HandshakeTypes`, with the
  counters below their width; for the proxy `ProxyBounds`, which needs `EagerEnds` (after an eager
  answer nothing is left to ask, and so nothing is signed beyond the bound); for the whole
  `NobodyYet`: until the tunnel is Running nothing is connected and no ticket issued.

About the proxied connection and the viewers:

- `NoReplay`: `ViewSpec => []NonceCountOnce`, for every choice of nonces, repeated ones
  included. `SignedInOrder`: what is under way to the camera, and then what the proxy will
  sign with, come in the order of challenge and count, after everything the camera has
  seen. `ChallengesNew`: a challenge on its way back is newer than the digest state, so
  starting to count anew does not repeat a signature of the same challenge (`ShownOnce`).
  Each sighting of a nonce with a count is then of a challenge of its own, so that there
  are no more of them than challenges with that nonce (`NonceCounted`).
- `AnswersOrdered`: `ViewSpec => []AnswersInOrder`, because there is one request on the way or one
  answer, and never both, while no camera is eager (`Outstanding`, `Answered`).
- `SessionsAccounted`: `ViewSpec => []RemoteAccounted`. A session has the owner it was opened
  with, and the call or the map entry that holds it has that ticket (`OpenedOwned`,
  `EntriesOwned`), so that what `retain` throws out belongs to an expired one; the other two parts
  say that such tickets were issued.

`RangeRequestProofs` proves `RangeServed` and `WholeServed`, from `RangeAssumption` (`U64` is
a number): a range gets exactly the bytes of the file that it asks for, for files and
ranges of every size.

Every invariant and every action property that a passing run checks is proved. Only
model-checked: liveness (`StartingEnds`, `LossIsReported`, `AwaitEnds`, `ReaderMovesOn`,
`UploadEnds`, `RecorderEnds`, `RecorderComesBack`, `HandshakeEnds`, `ClientIsAnswered`),
because fairness and ENABLED are beyond the prover. For `AwaitEnds` and
`ReaderMovesOn` the safety they rest on is proved (`AwaitAnswered`, `BlockedReaderFreed`).

## Not modelled, and why

- Formatting, logging, names, thumbnails, static files, the contract types, the
  clients of the API and the deployment keep no state of the server.
- Encryption, password hashes, digests, SQL text, JSON and XML parsing, the bytes of
  PTCP: data, abstracted to what the properties tell apart. The packet id of PTCP, which
  runs out after 65535 packets (`src/ptcp.rs` 276), has no property because
  the repository does not say what should follow.
- Users and audit events (written, and read by no decision but the login), API tokens
  and `brands.json` in `ConfigStore` (handled as cameras are), playback tickets (one lock
  each time), HLS (reads files), `probe_provider` (the requests of the handshake, with
  nothing kept), relay mode (no caller sets it).
- Edits of a camera are not coupled to its running tunnel, recorder and proxy: the code
  does not propagate them, and states nowhere when they should take effect.
- A database that cannot be opened at a later start.
- One handshake and one proxied connection at a time: they share nothing with others but the
  tunnel, whose own concurrency is in `TunnelManager` and `TunnelRelay`.
