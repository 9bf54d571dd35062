# A TLA+ verification of calcar

calcar lets an Owner's phone supervise coding agents that run on the Owner's
computers. This directory holds TLA+ models of the parts of the repository whose
correctness depends on the order of things: two stores changed in separate round
trips, sockets replaced while they are torn down, commits a crash can separate,
threads that wait for a process that waits for them, answers that arrive after
the question no longer matters. Each model is
translated from the code it names and checked by TLC on small instances; what
each of them promises at every moment is also proved with TLAPS, for every instance.

- `X.tla`: the model of a component. `MCX.tla` and `MCX*.cfg`: its instances.
- `X_proofs.tla`: theorems and proofs about `X`, for `Pairing`, `Auth`, `Hub`,
  `AgentStore`, `AgentRequests`, `Plain`, `Pty` and `Realtime`. `Plain_proofs` also
  holds those about `Adapters`, which read a plain child, and `Realtime_proofs` those
  about `AddComputer`, the phone's other part with calls in flight.
- `PROJECT.json`: components, runs, mutants, the map from definitions to source
  lines, findings, hazards and theorems.

To repeat a run: `tlc -workers 2 -config MCHub.cfg MCHub`. To repeat the proofs:
`tlapm Pairing_proofs.tla`, and the same for the others.


## 1. Inventory

### Backend (Go)

| part | state | operations |
|---|---|---|
| pairing API, `api/pairing.go` over `store/combined.go` | a session twice: Postgres audit row (status, expiry, join) and Redis hash with a TTL; trust grants; request ids | create, get, join, approve, reject |
| identity API, `api/server.go` | device rows with a revoked flag (Postgres); challenges, access and refresh tokens with one index set per device (Redis) | bootstrap, challenge, verify, refresh, register, revoke, any authenticated call |
| presence, attention and push handlers, `api/server.go` 745-918 | presence keys, attention queue, push tokens | get and set presence, poll, register a push token |
| hub, `ws/hub.go` | one registered socket per device, send buffer per socket, notify queue, last-seen times | handshake, replace, read, write, notify, fan out, liveness check, close |
| trust rules, `trust/trust.go` | seen ids, approval registry, session | canonical encoding, signatures, one-shot resolution |
| stores, `store/*` | the two databases | one command or one transaction each |
| binaries, `cmd/*` | none of their own (an in-memory store for development) | wiring, a join client, an end-to-end driver |

### Agent (Rust)

| part | state | operations |
|---|---|---|
| `calcar-storage` | workflows, session bindings, event ring, truncation marker, outbox, pending requests (SQLite) | append with trim, drain, mark, insert, resolve, expire |
| `calcar-workflow` | none (over storage) | create, transition, bind, reconcile; deliver an input |
| `calcar-connect` | registry in memory and in a file | routes for inputs, approvals, snapshots |
| `calcar-adapters`, permission manager | bindings of approvals to devices | request, resolve, sweep |
| `calcar-adapters`, one per provider behind a registry | a child; per stream a cursor and a held-back tail; session pointer; stopping and terminal flags (the generic adapter: lines sent, started, completed) | spawn, stop, drain, snapshot |
| `calcar-pty`, `PlainChild` (plain.rs) | a process in a kill-on-close job, three pipes, two pump threads with capped sinks, a stdin writer, the cached exit | spawn, kill, wait, snapshot, join, drop |
| `calcar-pty`, `WorkflowPty` (lib.rs) | a process on a pseudo console in a job, a pump thread, a bounded channel | spawn, read, read until a marker, kill, wait, drop |
| `calcar-agent` | none | command line, self-diagnosis |

### Phone (Dart)

| part | state | operations |
|---|---|---|
| Add Computer flow, `screens/wired/add_computer_controller.dart` | stage, session, join card, poll timer | create, poll, decide, tick, dispose |
| realtime, `realtime/*`, `state/realtime_binding.dart` | binding, client, channel, timers, inbound buffer | resume, pause, rotate token, redial, heartbeat, receive |
| connection banner and workflow view | connected, needs catch-up; frozen, loading | mark, freeze, load a snapshot |
| device, computer, workflow lists | lists loaded over HTTP | refresh, apply a delta |
| update, push, cache, keys, sign-in | a few fields each | sequential flows over plugins |

### Interactions

The phone and the computer reach the backend by HTTP only; the backend answers
from Postgres and Redis, and after a change tells the hub, which signals the
phone's socket without data ("something changed, fetch it"). The phone reaches
an agent's connect server by HTTP. The agent's crates share one SQLite file. No
two components share memory, so what is hard is always the same thing: a step
of one actor falls between two steps of another.

### What is hard

- Handlers make several round trips without a transaction around them, to two
  stores that expire, lose and round things differently; a handler can die, or
  a retry start, between any two.
- The hub's handler, loops and `Close` race on a socket's registration.
- The agent commits one statement at a time and must come back from a crash
  between any two of them.
- A child process, its descendants, the pipes between them and the agent's
  threads end in any order; who holds which end decides who waits for ever, and
  every failing call of a spawn has to undo the ones before it.
- An adapter sees the output of its child in pieces and the exit at another time
  than the output, and is asked again and again.
- The phone applies an answer to whatever its state is when the answer comes.

`PROJECT.json` lists these as hazards at the lines where they bite, each with
the property that would catch it or a note why none does.


## 2. Modules

### Pairing, PairingLatch

`Pairing` has one action per round trip. `pg` and `rd` are the two copies of a
session; `pc`, `arg`, `res` are the handlers in flight. A join goes
`JoinStart, JoinGet, MarkRequest, RedisJoinRead, RedisJoinClaim, RedisJoinTTL,
RedisJoinFields, PgJoin` and, when Postgres refuses it, `RedisMark`; a decision
goes `DecideStart, MarkRequest, DecideGet, RegisterComputer, CheckPairingLive,
PgDecide, RedisMark`. `PgJoin` and `PgDecide` are the transactions of
`postgres.go`, and each may commit and have its answer lost. `Abort` ends a
handler anywhere, `RedisLoses` drops a hash, `Tick` moves the clock and expires
keys. Postgres keeps `expires_at` in full and Redis in whole seconds, so time has
a resolution (`TicksPerSecond`), and the two copies disagree as they do in the
code. Creation is one action with its four possible prefixes, because nobody
knows the id before the answer.

`PairingLatch` is what a session promises: pending, at most one join, at most one
verdict, a grant together with the approval and for the joined key.
`Pairing` implements it (`ImplementsLatch`), under the mapping that reads the
audit row and the grants.

### Auth

`Auth` has one action per round trip of verify, refresh, an authenticated call,
register and revoke, behind the shared steps `Resolve, LoadDevice, CheckRevoked,
MarkRequest`. Tokens are numbers, each key bound to a device; the index sets
that `RevokeDeviceTokens` reads are separate from the tokens, and read, deleted
and cleared in separate steps as in `redis.go`. `IsRevoked` may err, which
counts as not revoked. `late` remembers that a request started after its device's
revocation was committed.

### Hub

A handler per socket (`phase`), its two loops (`reader`, `writer`), the hub loop
(`Fanout`, `CheckLiveness`), `Close` in its steps and presence. The liveness check
collects the silent sockets under the mutex (`stale`) and closes them afterwards, one
by one (`CloseStale`), so a socket may be replaced or leave in between; the loop does
nothing else until it is through. `cut` is the
cancelled context. Time is counted in heartbeat windows.

### AgentStore

The SQLite tables below the workflow lifecycle. An operation of the lifecycle is
several commits, so `pc` holds what the running one has yet to do; `Fail` and
`Crash` end it there. `AppendEvent` is the one transaction of `append_event` with
`trim_ring`. `OutboxDrain` and `MarkPublished` are the store's two operations for a
publisher that is not in the repository; `Send` is that publisher and its consumer,
as the store's interface lets them be: entries are taken in drain order and marked one
by one after they were sent. An outbox row holds a workflow and a number and nothing of
the event, so the publisher reads the event from the ring, and passes over one that
`trim_ring` has deleted. `now_millis` is the wall clock, and may step back. `Snapshot` is what a phone that opens a workflow
is given: one read past the whole ring, cut to the newest events. `log`, `seen`, `created` and `cleanFailed` are
history.

### AgentRequests

The `pending_requests` table with its three users: the input route (claim, then
resolve, then run), the approval route (expire, resolve, then the registry in memory,
then its file, each a step of its own) and the permission manager. Two servers may share
a database, and then they share the registry file too, which lies in the database's
directory: `sidecar` is what a load of it would give. `fs::write` truncates
(`SaveTruncate`) and then writes (`SaveWrite`); a file that is torn, by a death between
the two, by a failed write or by the other server, loads as an empty registry. Any
statement may fail (`Fail`, `ManagerFail`), as it does when the other server has the lock.

### Plain

`PlainChild` and its only caller with a deadline, `run_generic` of the connect
server. `spawn` is one action per call that opens or starts something
(`SpawnOpen` for the three pipes and the job, `CreateProcess`, `AssignJob`,
`StartThread`), each with its failing twin. A handle is in `owned` while an
`OwnedHandle` closes it and in `filed` once it is detached into a `File`;
`closes` counts the closes of each. The two pumps and the stdin writer are
processes of their own; `join` is the wait, the polling of the pumps, the grace
period with the kill behind it and the final collection, and `Inner::drop` is the
termination, the joins of the threads and the closing. `wait` with a timeout is
one step, because nothing happens in it but the passing of time. Bytes are
counted: one pump reads a stream, so what is kept of it is a prefix. `TextOf` is the
text of a tail file when both streams are UTF-8; `from_utf8_lossy` turns bytes that are
not into U+FFFD, of three bytes each, so the decoding of n bytes is any of the lengths
`Lossy(n)` and `run_generic` writes one of `Texts`. A grandchild
may be started at any moment, and inherits what `Inherits` allows.

### Pty

`WorkflowPty`. `spawn` works on raw handles here, with ten calls and a list of
handles to close for each failure; `SpawnCall`, `SpawnFails` and `Cleanup` follow
these lists. The pump moves one chunk at a time from the console's pipe through
its hand into the channel of `Capacity` slots, and blocks there; the consumer
reads a chunk, reads until a marker, or drops. Closing the pseudo console ends
the processes attached to it, which is how the console library is modelled; any process,
the direct child too, may have left the console before (`LeavesConsole`), and a
grandchild has the one of its parent. When a read of the console's pipe fails the pump
stops and closes the pipe: what is left in it, or written later, is in `lost`.

### Adapters

The adapters over a `PlainChild`, of which only what they use is kept: whether the
child and its tree run, how far the pumps have come, whether the exit is cached.
A line is cut once, at any byte: it is two pieces, the second with the newline, and
`Lines` says for each line what `parse_line` reads in the whole of it and in each part by
itself. So there are lines whose parts are not in the grammar (a cut inside the prefix or
the verb), lines whose first part is a marker with half its text, and lines whose second
part is a marker of its own. A drain that has seen the exit flushes the part it has;
`torn` remembers the lines this left in two. A kill ends the child now or later and need
not reach all of its tree (`KillTree`, `TreeExits`). A drain is two steps, since the pumps go on between its poll of the
exit and its read of the output (the marker adapters poll first, the generic one
reads first). claude.rs, codex.rs and opencode.rs hold the same code with three
prefixes; each has its own actions over the shared definitions.

### AddComputer

The controller of the phone's flow, its calls in flight and, as the backend, the
statuses of `PairingLatch`, which `Pairing` is shown to implement, with one more: a
session whose Redis hash reads "consumed" although no verdict is recorded (`stamped`). A
join that won the hash and whose audit row Postgres then refused marks the hash so
(combined.go:104-108, `AuditFails`), as does a decision on a row that is over (134-135,
`ServeDecide`); `api/pairing.go` serves that status, and
the phone shows it as done. An answer is
applied to the state of the moment it arrives, as the Dart code does. `applyJoin` has no
caller in the repository and is left out.

### Realtime

The binding, the clients it builds and disposes, their channels, timers, miss
counts and inbound buffers, the banner and the open view. An action is one Dart
callback. A dial fails before the channel is made, or after, when the subscribe message
cannot be written: that channel stays open with no client holding it ("orphan") until
its far end goes (`OrphanGone`).


## 3. Runs

| run | shows |
|---|---|
| `pairing` | over all interleavings of three requests: every answered verdict is the recorded one, the Redis latch never claims an unrecorded verdict, the two copies never name different keys, and the whole implements `PairingLatch`: one join, one verdict, a grant with the approval and for the joined key, all for good |
| `auth` | a request that starts after the revocation is refused whatever it holds; a refresh token rotates once; a role and a revocation are permanent |
| `hub` | a device revoked before dialling is never registered; a served socket is the one signals go to; signals arrive in order whatever is dropped |
| `hub_live` | a silent socket is cut, and a cut socket is torn down completely |
| `store` | the ring is the longest suffix within both bounds and the marker says so; a snapshot names the newest event and shows the last ones without a gap; restart recovery never gives up a bound workflow; an event still in the ring that the consumer lacks is in the outbox; the consumer is given events in order, but for those between which the clock stepped back |
| `requests` | an input runs at most once, with two servers too; one applied verdict per approval, in time, and the registry shows only verdicts the store holds, in memory and in the file both servers write |
| `plain` | every handle is closed once and nothing in the job outlives its owner, whichever call of spawn fails; a join returns all the output or says that it was cut; a tail file without its mark has the whole decoded text of all the output; join, drop and `run_generic` return |
| `pty` | no error path of spawn leaks a handle or leaves a process that is in the job or on the console, and nothing is closed twice; no chunk is lost but after a failed read, none is reordered, and the end is reported after the last one; drop returns when the unread output fits |
| `adapters` | a line seen whole and not torn by the exit is reported once, in order and as what the whole line says, a part of one only after the exit; one exit event per run, nothing after it from the generic adapter; the session pointer is of the current child; every exit is reported |
| `add` | a live session is never replaced; "done" is always backed by a session that the backend has closed and the Owner was shown; every session on the screen ends |
| `realtime` | only the mounted binding's client has a timer or holds a channel, and a channel nobody holds is one whose subscribe threw; offline always means one redial is due; no channel is dropped early, and a dead one is dropped |
| `pty_drop` | expected violation, section 5 |

Each module also states its type invariant, `TypeOK`, and some statements beside
the ones its run checks. `TypeOK` is proved, with the invariant behind it, for all
modules. `SingleGrant`, `AuditIsAppendOnly`,
`RevokerWasActiveOwner`, `RegistrationsHeld` (`Hub_proofs`) and the frozen rows of
`SettledRowsStay` (`AgentRequests_proofs`) have proofs and no run of their own.

Every property of a passing run has a mutant: a changed definition, kept next to
the original, that a plausible mistake in the code would produce and that
violates the property under the same configuration.

### Bounds

Every bound is a CONSTANT of the module.

- `pairing`: three requests (a join, an approval and a rejection race, or any
  two and a retry), two keys, one session (sessions share nothing but request
  ids), `PairingTTL = 1` and `MaxNow = 2`, so that both copies of a session
  expire under any request, and one created on the last tick is already over in
  Redis only; `MaxRedisLosses = 1` loses the hash before that. `ConsumedKeep`
  outlives the run, as the tombstone outlives a session.
- `auth`: two requests in flight, which the races need (a revoke and the call,
  verify or refresh it competes with, two refreshes, two registrations); five
  tokens, of which three may be minted in the run when it starts from a logged-in
  pair; `Starts` also has the empty system, so bootstrap is in it. `MayExpire`
  names the token whose TTL may run out; `MaxChallenges` and `MaxNow` are 1. The
  run's `ChallengeTTL` is one minute to let it pass.
- `hub`: two sockets of one device (replacement is per device), a send buffer of
  one and a notify queue of two, three events: both queues overflow. Windows are
  left to `hub_live`, which has three, enough for `MaxMissed = 1` to be exceeded
  and a socket to be cut.
- `store`: sizes 1 and 3 against bounds of 2 events and 2 bytes, so that each
  bound alone, both, and one event larger than a bound occur; three events, one
  crash, a clock that steps forward and back, `DrainLimit` below the outbox's size; `RingReadLimit` is the size of a
  full ring and `ActivityCap` half of it, as 5500 and 500 are to 5000.
- `requests`: two servers, one input, one approval, six calls, two crashes, a
  clock that reaches and passes the deadline.
- `plain`: a stream of two bytes, a sink of one and a read of up to two, so that a
  chunk fits, is cut and is dropped; three bytes of input against a pipe of two,
  so that the writer blocks; a tail file of four bytes with characters of two, which
  the bytes fit and their replacements need not; a grandchild with all pipes, with stdin only, with none.
- `pty`: five chunks, more than the pipe (two), the pump's hand (one) and the
  channel (two) hold together, so that the pump, then the process, block; a child and
  a grandchild, each on the console or off it.
- `adapters`: two runs; two lines on stdout for `claude`, two and one on stderr for
  `generic`, one and one for `codex` and one for `opencode`, which repeat the code of
  `claude`; a cap of three
  pieces, which cuts the second line in two. Three lines: a marker cut inside its prefix,
  neither part of which reads as anything; one cut in its text, whose first part reads as
  the marker; a session whose second part reads as a marker of another kind.
- `add`: two sessions (a late answer meets the next one), one read and one
  decision in flight.
- `realtime`: two clients and channels, all that rotation can hold at once (the
  stale one is closed in the step that builds the new one); two token changes;
  a buffer of two. Its state space is finite without a bound on time.

Symmetry is used over sets of model values the actions treat alike, in safety
runs only. `CHECK_DEADLOCK FALSE` is set where the instance ends by its bounds;
`realtime` has none that ends it and checks deadlock.

### Fairness

- `Hub`: weak fairness of the handler's steps, of the loop's fan-out and
  liveness check with its closing of each socket found, of the ticker, and of the
  loops of a cut socket. The Go
  scheduler runs every goroutine and the ticker fires; nothing is assumed of
  clients, of `Close` or of the control plane.
- `Plain`: weak fairness of the pumps and the writer, of the steps of a call that
  has begun and of its timeouts. The processes owe nothing: they may run for ever,
  never read and never write.
- `Pty`: weak fairness of the pump, of the steps of drop and of the deadline of a
  read. Neither the processes nor the consumer owe anything.
- `Adapters`: weak fairness of the pumps, which are threads, and of the drain. The
  second is an assumption on a caller, for nothing in the repository drains on a timer:
  the one caller, `examples/e2e_exec.rs` (441-450, 502-511), repeats the drain until the
  first completion event. `ExitIsReported` says what a caller gets that goes on until
  then. The child may never exit, and nobody need stop it.
- `AddComputer`: weak fairness of the clock and of the screen's one-second
  ticker, which runs while the screen is mounted. Nothing is assumed of the
  network: calls may stay unanswered for ever.
- `Realtime`: weak fairness of each client's heartbeat, redial and stream-end
  callbacks, which the event loop runs. Nothing is assumed of the network, of the
  app's lifecycle or of the Owner.

The other runs check safety only.


## 4. Proofs

Every theorem is about `Spec` of its module, for any sets, bounds and limits that
the module's ASSUME allows; a further hypothesis is named where there is one. Each
safety theorem follows the same path: an inductive invariant that contains the
property, `Init` implies it, every action keeps it (one step of the proof per
action), and `PTL` combines these. What is told below is what the invariant had to
add, and why the property alone is not inductive. `Adapters` and `AddComputer` share
a proof module with a neighbour, so their specifications have names of their own:
`AdapterSpec` and `AddSpec`, and the same prefix for `Init`, `Next` and `TypeOK`.

### Pairing

`Pairing_proofs.tla` proves, for any sets of sessions, keys, requests and request
ids, any TTLs, any clock bound and any number of Redis losses, from
`ConstantsAssumption` alone:

| theorem | states |
|---|---|
| `TypeCorrect` | `Spec => []TypeOK` |
| `SingleGrantHolds` | `Spec => []SingleGrant` |
| `AnsweredDecisionsStand` | `Spec => []AnsweredDecisionStands` |
| `LatchVerdictsAreDurable` | `Spec => []LatchVerdictIsDurable` |
| `AuditAppendOnly` | `Spec => AuditIsAppendOnly` |
| `RefinesLatch` | `Spec => ImplementsLatch` |
| `KeysAgree` | `Spec => []JoinedKeysAgree` |

The argument goes through what a step can do to the audit row. `RowStep`
classifies every step of `Next` as one that leaves rows and grants alone, creates
a row, joins a pending row without a join, or closes a pending row (with a grant
exactly if it approves); `StepIsRowStep` proves the classification, one case per
action. From it follow the append-only property, `SingleGrant` (which is
inductive with `TypeOK`) and the simulation of `PairingLatch`
(`RowStepRefines`), without looking at the actions again.

The verdict properties are not inductive: between `PgDecide` and `RedisMark` a
handler carries an outcome that has not been answered. `HandlerInv` says what a
handler's outcome can be at each place of its program, and `VerdictInv`
strengthens "answered" to "decided": a handler whose outcome is ok has its verdict
in the row already. With it `LatchStep` shows that the only step that writes a
verdict into Redis, `RedisMark`, writes the row's.

`KeysAgree` is about two round trips of different handlers: the fields a join writes
into the hash and the row it then writes. `KeyInv` says that, as long as a hash has
the fields of its creation (it was not lost and made again by a join), at most one
request is between its claim and its fields, that the hash has no key until then, and
that a request about to write the row is the one whose key the hash has. `KnownInv`
keeps requests away from sessions that are not there yet.

### Auth

`Auth_proofs.tla` proves, for any devices, requests, request ids, tokens,
challenges, lifetimes and starting populations, from `AuthAssumption` alone:

| theorem | states |
|---|---|
| `TypeCorrect` | `Spec => []TypeOK` |
| `RevokedRefused` | `Spec => []RevokedIsRefused` |
| `RevokerActiveOwner` | `Spec => []RevokerWasActiveOwner` |
| `RefreshSingleUse` | `Spec => []RefreshIsSingleUse` |
| `IdentityPermanent` | `Spec => IdentityIsPermanent` |

None of the three invariants is inductive: a request of a revoked device is
several round trips from its refusal, and in between only the row, read at one of
them, stops it. `LateFits` says where such a request can be (before the row is
read, or over) and that the row it is about to read carries the flag, through the
token it presents if it has not resolved it yet. `RoleFits` says that the role a
handler remembers is still the row's; `ArgFits` and `PcFits` give each place of a
handler its operation and the fields it relies on. `TokenInv` says that tokens to
come are nobody's and that a spent refresh token is gone.

Handlers are many and each step moves one, so the proof separates the two. Every
step keeps `RowsStay` (a row is written once, a flag stays) and `TokensStay` (a
minted token is its device's until it is nobody's); `SameKeeps` shows that these
two are all the other requests need, and `OneRequest` leaves each action with the
facts of its own request. `IdentityIsPermanent` is `RowsStay`, read as an action
property.

### Hub

`Hub_proofs.tla`, for any finite set of sockets (the code's map of them is finite),
any devices, buffers, windows and events:

| theorem | states |
|---|---|
| `TypeCorrect` | `Spec => []Inv`, types and the invariant below |
| `RevokedStayOut` | `Spec => []RevokedNeverConnects` |
| `LiveSocketReachable` | `Spec => []LiveSocketIsReachable` |
| `SignalsOrdered` | `Spec => []SignalsInOrder` |
| `LiveNeverDropped` | `Spec => RegistrationsHeld`: a device's registration changes hands only when the socket that held it is closed by then |

A late dialler is refused three round trips after it dialled: `LateStopped` says that
until then its device is revoked and it has not passed the row's flag, so that an
error of `IsRevoked` does not matter. `LiveSocketIsReachable` needs `RegistryFits`, the
registry names a device's own socket and only a served one, or a tear-down could take
a newer socket's entry. Order needs the whole path of a signal: `ConnOrder` says that
what the client has is older than what waits in the send buffer, and both older than
what waits in the notify queue, so dropping at either buffer leaves the rest in order.

### AgentStore

`AgentStore_proofs.tla`, for any workflows, sessions, event sizes, ring bounds, drain
limits and numbers of crashes:

| theorem | states |
|---|---|
| `TypeCorrect` | `Spec => [](TypeOK /\ \A w \in Workflows : RingFits(w))` |
| `RingLongest` | `Spec => []RingIsLongestSuffix` |
| `SnapshotHighWater` | `Spec => []SnapshotIsHighWater` |
| `RecoveryKeepsBound` | `Spec => []CleanFailOnlyUnbound` |
| `NothingIsLost` | `Spec => []NothingLost` |
| `SeenOrdered` | `Spec => []SeenInOrder` |

The next sequence number is computed from the ring, so even the types need `RingFits`:
the ring is the run from the marker to the last event ever appended, and never empty
once there was one, or a number could be given out twice. `TrimmedRun` shows that what
a trim removes is a run at the old end. For the longest run, `AppendTrims` says what the
trim's walk decided: the last row it took still exceeded a bound, the next one did not.
With that, nothing before the marker fits (`FitsUpward`: if an older start fitted, so
would a newer one) and, when nothing was trimmed, what did not fit before does not fit
now (`FitsShrinks`). Both are monotonicity of a sum, and the sum is a fold over a set:
`FoldExists`, `BytesRec`, `BytesAdd` and `BytesMonotone` derive what the fold computes
from its recursion, each by taking a smallest set for which it would fail (`LeastSet`,
from the well-foundedness of the naturals). `SnapshotHighWater` adds `RingBounded`: the
ring holds at most `MaxRingEvents` rows, so one read of `RingReadLimit` sees them all.

`BindInv` orders the commits of a creation: a workflow about to be announced with a
session is bound, and one given up has a row and is not under creation. `OutboxInv` says
that what is to be marked was taken by the consumer or is below the truncation marker,
which is what a crash between sending and marking, or between two marks, depends on.
`OrderInv` is about every pair of
events of a workflow of which the consumer has the younger: the older was given before
it, or is below the marker, or was stamped later, and is then excused. `Preceded`
says it of what was given and `Handled` of what a drained batch still holds, so a
batch that is cut short by a crash and drained again adds nothing out of turn. A
clock that steps back only makes more pairs excused, so the theorem needs no hypothesis
on it; the plain statement, `SeenInSequence`, is false (section 5).

### AgentRequests

`AgentRequests_proofs.tla`, for any servers, inputs, approvals, devices and numbers of
calls and crashes:

| theorem | states |
|---|---|
| `TypeCorrect` | `Spec => []TypeInv` |
| `InputsRunOnce` | `Spec => []InputRunsAtMostOnce` |
| `VerdictsStand` | `Spec => []AppliedVerdictStands`, if `TTL > 0` |
| `SnapshotsMatch` | `Spec => []SnapshotMatchesStore` |
| `SettledRowsStay` | no step changes a resolved or expired row |

`RunsFit` adds that a request about to run a command is alone with its key and that the
command has not run: two servers can both have claimed it, one of them found the row
pending. `SnapshotMatchesStore` is inductive with what a server between its commit and
its listing carries, a verdict that the row has: every registry, and the file whoever
wrote it last, then holds only such verdicts, torn or not. `InTime` adds that a request between its expiry and its resolve, which would
still find the row pending, read the clock before the deadline. A row may be inserted
between the two statements; with a lifetime of zero it would be resolved at its
deadline, so `TTL > 0` is a hypothesis. `request` itself takes any lifetime; the one
caller that passes zero, an example, wants a row that is over at once.

### Plain and Pty

`Plain_proofs.tla` and `Pty_proofs.tla`, for any sizes of streams, chunks, pipes, sinks,
channels and tail files:

| theorem | states |
|---|---|
| `TypeCorrect` (both) | `Spec => []Inv`, types and the invariant below |
| `HandlesClosedOnce` (both) | `Spec => []ClosedOnce` |
| `NoProcessLeft` (both) | `Spec => []NothingLeftRunning` |
| `OutputWhole` (`Pty`) | `Spec => []OutputIsWhole` |
| `JoinedComplete` (`Plain`) | `Spec => []JoinedOutputIsComplete` |
| `TailWhole` (`Plain`) | `Spec => []UnmarkedTailIsWhole` |

"Closed once" at the end needs to know what is open at each step before it: in `Pty` the
open handles during spawn are exactly the list the next error path closes
(`OpenFits`), in `Plain` they are what `OwnedAt` and `FiledFits` say, the second as the
files of the threads that run. `ClosesFit` says that nothing closed is open or still to
be opened. `ProcsFit` places the child in the job from its assignment on, and says that
a process that was not created is in no job and on no console. `SinksFit`
says that a sink holds what fits of what was read and that a pump ends only when
everything was read and no process holds the pipe, which is why what join returns is
complete; `StreamFits` is the same for the console's chunks, of which some may be lost
once the pump is done. `TailWhole` is about the decoded text: a tail without its mark is
one of the texts the complete output can decode to, at its full length.

### Realtime

`Realtime_proofs.tla` proves, for any numbers of clients, channels and tokens, any
buffer and any number of heartbeats missed before a drop, from
`RealtimeAssumption` alone:

| theorem | states |
|---|---|
| `TypeCorrect` | `Spec => []TypeOK` |
| `OnlyBindingDials` | `Spec => []OnlyTheBindingDials` |
| `NeverStuckOffline` | `Spec => []OfflineMeansRedial` |
| `SilenceIsMeasured` | `Spec => []NoHastyDrop` |

`OfflineMeansRedial` needs that the binding's current client is live, or a timer
could be the timer of a disposed client; `NoHastyDrop` needs that a client's count
of missed heartbeats is a count of silent heartbeats of the channel it has now.
`OnlyTheBindingDials` needs `HeldIsOpen`: the channel a client holds is an open one, so
that a channel left by a failed subscribe is not mistaken for it. The invariant is the
conjunction of the checked ones with these facts. The
field updates (`Built`, `Attached`, `Scheduled`, `Dropped`) are proved once, as
lemmas on a client record, and hidden in the steps that use them.

### AddComputer

The second half of `Realtime_proofs.tla`, for any numbers of sessions, polls and
decisions in flight, with no assumption:

| theorem | states |
|---|---|
| `AddTypeCorrect` | `AddSpec => []AddTypeOK` |
| `LiveSessionsStay` | `AddSpec => []LiveNeverReplaced` |
| `DoneEarned` | `AddSpec => []DoneIsEarned` |

A late answer is applied to whatever is on the screen, so neither property is
inductive by itself. `ScreenIsShown` says that a session shown as over is spent, which
is what lets a new one take its place; `MintingIsBlank`, that nothing is on the screen
of an open flow while an answer to `create` is under way, so that its arrival replaces nothing.
`CallsAreOfShown` says that a verdict or a "consumed" in a reply, however old, is of a
session this flow has shown and that the backend has closed: that is what "done" rests
on. `ShownExist` says that these sessions are the backend's; a verdict there is final, and
so is the stamp.

### Adapters

The second half of `Plain_proofs.tla`, for any lines a CLI may print, any number of
them, any cap on the sinks and any number of runs, from `AdaptersAssumption` alone:

| theorem | states |
|---|---|
| `AdapterTypeCorrect` | `AdapterSpec => []AdapterTypeOK` |
| `LinesOnce` | `AdapterSpec => []LinesReportedOnce` |
| `ExitOnceHolds` | `AdapterSpec => []ExitReportedOnce` |
| `SessionCurrent` | `AdapterSpec => []SessionIsCurrent` |

`MarkerInv` says that what was reported is exactly what lies before the held back tail:
an event lies at or before `base` (`Placed`), and each line that ends there either was
torn or has the event its whole text makes, and no other (`Settled`); a line the tail
begins inside is torn. `CutsAreFinal` says that this takes an exit that has been seen. A drain parses from `base` on (`CutSays` gives the lines
it cuts and which part of each it sees), so it repeats nothing and skips nothing.
`GenericInv` says the same of the count the
generic adapter keeps, and `BusyInv` what a drain between its two steps still knows: the
child is the same one, an exit it saw was seen, and the bytes it read are still there.
`Bounds` keeps cursors, sinks and what was written in order. What a drain adds is a walk
over its lines, a recursive function (`Parsed`). Induction over it is done by hand: if
the walk were wrong at some line there would be a least such line, by the
well-foundedness of `<` on the naturals, and one unfolding of the function contradicts
it.

### Only model-checked

Liveness, which rests on fairness and is outside the prover: `SilentSocketIsCut`,
`ClosedSocketLeaves`, `CallsReturn`, `DropReturnsWhenRead`, `ExitIsReported`,
`SessionEnds`, `DeadChannelIsDropped`. Every other property of a passing run has a
theorem.


## 5. Divergences

One run is expected to fail, a finding in `PROJECT.json` with the quoted text:
`pty_drop`, `DropReturns`. `Inner::drop` closes the console and joins the pump
while the channel's receiver, a field, is still alive. With more unread output
than the channel holds the pump is blocked in `send`, nobody receives and nobody
disconnects, and the drop never returns. `DropReturnsWhenRead` is what holds.

The modules also state what other comments and docs say; the code refutes these
on the instance given, and they have no run of their own.

| formula | instance | why it fails |
|---|---|---|
| `Pairing!SameProxy` | one key, two requests, `PairingTTL = 2`, `TicksPerSecond = 2`, one Redis loss | the card showed the truncated expiry, the decision reads the full one from Postgres: BAD_SIGNATURE |
| `Pairing!EveryKeyHasTTL` | one key, no loss | creation dies before its third command, or an ignored Expire error |
| `Auth!ChallengeIsSingleUse` | two verifies | a challenge is read, then deleted (redis.go:360); both requests read it |
| `Auth!ChallengeLivesAsAdvertised` | `ChallengeTTL = 5`, `Advertised = 2`, `MaxNow = 4` | the store keeps a challenge 5 minutes, the API and `docs/slos.md` say 2 |
| `Auth!RevokeDropsEveryToken` | a pair, one verify, one revoke | a token written but not yet indexed survives the clean-up (it is still refused: `RevokedIsRefused`) |
| `Auth!SingleOwner` | a revoked Owner, two registrations | the check and the insert are separate statements |
| `Auth!ReplayMeansDone` | two revokes with one id | the id is marked before the work, and not released when the work fails |
| `Hub!CloseStopsEverySocket` | one socket | registration does not look at `closed` (hub.go:383) |
| `Hub!RevokedSocketIsCut` | one socket, one window | the liveness check looks at silence only |
| `Hub!OnlineWhileSocketLives` | one socket, four windows, `PresenceWindows = 3` | presence is written once and its key expires |
| `Hub!OfflineAfterSocketEnds` | one socket | the offline write carries no connection id and is refused |
| `AgentStore!SeenInSequence` | as `store` | "Drain order is seq order per workflow" (migrations/0001_init.sql): the drain orders by wall clock, which steps back between two appends |
| `AgentStore!StateCarriesItsReason` | one crash | state and event are two commits |
| `AgentRequests!PendingForIsAccurate` | one approval, three calls | the other route settles the row, the manager's map does not know |
| `AgentRequests!DeliveredIsRun` | one input | the row is resolved before the command is spawned, and spawning fails |
| `Plain!TreeIsEnded` | as `plain` | a grandchild started between CreateProcess and AssignProcessToJobObject is in no job and survives ("the whole tree", plain.rs:6) |
| `Plain!JoinReturnsWithInput` | as `plain` | the grace period (plain.rs:622) covers the pumps only: with these done the job is not killed, and a grandchild that holds stdin without reading it blocks the writer, which join waits for |
| `Plain!TailIsVerbatim` | as `plain` | output that is not UTF-8 is replaced by U+FFFD, and the tail does not say so |
| `Pty!TreeIsKilled` | as `pty` | "killing the job or dropping the handle ends the whole tree, grandchildren included" (lib.rs:4-5): a process older than the assignment is not in the job, and may have left the console |
| `Pty!ExitEndsStream` | as `pty` | the agent keeps its own write end of the console's output until drop, so the end of the process does not end the stream |
| `Adapters!TerminalOnce` | as `adapters` | an EXIT ok line and the exit code 0 both make WorkflowCompleted ("fires exactly once", claude.rs:82) |
| `Adapters!FinishedLineIsWhole` | as `adapters` | the exit is seen before the pumps have delivered the line: its first half is reported as a line |
| `Adapters!EveryLineIsReported` | as `adapters` | the exit is seen inside a marker's prefix: both parts are parsed alone (claude.rs:231-241) and neither is in the grammar, so a line that was printed whole makes no event |
| `AddComputer!OneDecisionAtATime` | (1, 1, 2) | a read answered during a decision re-opens the card, whose second tap sends a second decision |
| `AddComputer!TerminalStays`, `ClosedFlowHasNoTimer` | (1, 1, 1) | a late read re-opens an ended session; a late create arms the timer of a closed flow |
| `AddComputer!CardIsOfSession` | (2, 1, 1) | a late answer is applied to the next session |
| `AddComputer!DoneMeansDecided` | (1, 1, 1) | a hash marked consumed without a verdict is shown as done |
| `Realtime!EverySocketIsTheBindings` | as `realtime` | `sink.add` throws after the channel was made (socket_client.dart:147-150): the channel is neither kept nor closed |
| `Realtime!ReconnectRefetches` | as `realtime` | nothing calls `markConnected` or `markCaughtUp`: the banner stays up and the frozen view is never refetched |
| `Realtime!DialsTheLatestToken` | two tokens | a token that arrives during a rotation is dropped |

One comment promises less than the code gives. router.rs:19-21: "Two threads delivering
the same UUID concurrently can both read Delivered. The input path must serialize
deliveries per workflow." The model has two servers that deliver one id at once, each
statement a step, and `InputRunsAtMostOnce` holds and is proved: Delivered is given to
whoever finds the row pending in the resolve, an UPDATE whose WHERE clause asks for that
(`resolve_pending_request`), and only one of them does. Without that condition, as in the
property's mutant, the comment would be right.

Read in the code while modelling, without a formula: an approval whose decide
fails after `RegisterComputer` leaves a device row with which the computer
authenticates, though pairing.go:335 says that trust lives in the grant;
a console's backlog is one chunk more than its channel, the one in the pump's hand;
a child that has ended and is replaced before the next drain never reports its
exit; the comment at combined.go:117
speaks of a compensating mark on any Postgres failure, the code marks terminal
outcomes only; a decision's request id contains the clock, so a retry is not a
replay (add_computer_controller.dart:233); nothing drains the inbound buffer;
the reconnect policy is reset at each dial, before it succeeds, so its delay does
not grow; a device list
refresh that was asked for before a revocation can be applied after it
(devices_controller.dart:99-165).


## 6. Not modelled

Cryptography, encodings and text; the environment-probing, discovery, JSON,
configuration and doctor code of the agent; widgets, cache and platform plugins of the phone; migrations,
generated code, drivers and examples. `PROJECT.json` gives the reason for each
component. Of modelled components: the reconnect delay, the contents of
snapshots, and which workflow an event belongs to on the phone; of `calcar-pty` the
stub for other systems, quoting and the environment block, console input and
resizing, and an output pipe of a `PlainChild` whose read fails before its end (the pump
then ends without a mark, which `JoinedOutputIsComplete` leaves out); of the
adapters `inject` and `respond_approval`, which refuse without a change of state.


## 7. Plan

Done first, because the product's trust rests on it: pairing, identity, the hub,
the agent's store and requests, the phone's two ends of these; then the agent's
processes, from their handles to the events made of their output. Next, in order:

1. `Update` (`update_controller.dart`): check, download, verify and install under
   cancellation and late completions.
2. `Trust` (`trust.go`): seen ids at their limit and the one-shot approval
   registry, refined by `AgentRequests`' approvals.
3. Presence, attention and push handlers with the hub's side of them; the phone's
   device and workflow lists as deltas over snapshots.
4. A composition of `Pairing`'s latch with `AddComputer` by INSTANCE instead of by
   statuses.
