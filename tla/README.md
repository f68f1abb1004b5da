# A TLA+ model of gpipe

gpipe is a tunnel server in Go.  A *server* process (`cmd/server`) and any number of *client*
processes (`cmd/client`, one *player* each) keep one framed connection per client (TCP, WebSocket,
QUIC or KCP).  A *tunnel* joins an inlet, which listens on one player's machine (or on the server's,
player 0), to an outlet, which connects to targets on another's.  Everything a tunnel carries is cut into
proxy messages (`I2O...` from inlet to outlet, `O2I...` back) that travel over those connections, routed by
the server's hub.

Paths below are relative to `src/internal/`.

## Inventory

| part | state | operations | correctness |
|---|---|---|---|
| flow control (`proxy/common.go`) | bytes in flight, closed flag, condition variable | Acquire, Release, Close | no credit drifts, no wake-up is lost, nothing goes through a closed window |
| session queues (`proxy/queue.go`) | ring buffer, closed flag, condition variable | Push, Pop, Close | a bounded FIFO; its goroutine never sleeps on work and always ends |
| inlet (`proxy/inlet.go`, `context*.go`, `writer.go`) | listener, session map, slots, per session: context mutex, ready and closed channels, window, queue, two goroutines | accept, runTCPConn, message loop, Input, shutdown, Stop | slots balance, Stop leaves nothing, nothing follows a goodbye, a session ends when it should |
| outlet (`proxy/outlet.go`) | session map, connect attempts, per session: window, queue, worker, reader | Input, connect attempt, worker, reader, Stop | no target connection is lost, attempts do not disturb one another, order is kept |
| proxy manager (`proxy/manager.go`) | inlets and outlets by tunnel, synchronised configuration | SyncTunnels, UpdateTunnel, HandlePB, routing | what runs is what was configured last; an answer finds its session |
| server session (`server/session.go`) | player, write queue, registration in the hub, once of its Close | login, routing, offline replies, pushes, Close | one reachable session per player; login answer before pushes; messages between the right players |
| player and tunnel managers (`manager/`) | players and their connection, tunnels, runtime states | BindClient, updates, notifications | the bound connection is the one that is alive; listeners end with the newest state |
| upgrade (`manager/upgrade_manager.go`, `upgrade/`) | task per player, download state on disk, apply state on disk | Offer, chunks, status, apply, rollback, completion at login | resumable, at most once, a runnable binary after every crash |
| client loop (`client/client.go`) | connection, pending requests, proxy manager | dial, login, readLoop, ping, close, reconnect | a lost connection stops every tunnel; the next login starts them |
| codec, messages (`codec/`, `proto/`, `pb/`) | none | frames and messages to bytes and back | round trip |
| ciphers (`proxy/crypto.go`, `shadowsocks.go`) | keys, nonces | encode, decode | round trip |
| transports, storage, web, builds, configuration, logging, front end | connections, tables, files | I/O | outside the model |

The parts meet in these ways.  A session's goroutines share its queue, its window and (in the inlet) its
context mutex `ctxMu`.  Both ends are driven through `Input`, called by one routing goroutine: the read loop
of the connection.  Output goes through the connection's write queue and so keeps its order.  The hub and the
managers call each other through interfaces and notify listeners outside their locks.

What is hard here is concurrency: five goroutines per session that close it from different ends, a mutex held
while waiting for credit, condition variables, queues that overflow, and, in the control plane, notifications
and logins that overtake one another.  The upgrade adds crashes between steps that are persisted.
`PROJECT.json` lists these hazards at the lines where they bite.

## Modules

| module | what it is |
|---|---|
| `FlowController` | the send window, condition variable included |
| `BoundedFifo` | what a session queue promises (abstract) |
| `ProxyQueue` | the ring buffer of `queue.go`, refining `BoundedFifo` |
| `Session_proofs` | the theorems about the window and the queue that every session has, the refinement among them |
| `Inlet`, `Inlet_proofs`, `MCInlet` | a TCP inlet with `UniversalContext`; its theorems; the inlet with the most general outlet that speaks the protocol |
| `Outlet`, `Outlet_proofs`, `MCOutlet` | an outlet; its theorems; the outlet with the most general inlet that speaks the protocol |
| `BytePipe` | what one direction of a tunnel promises (abstract) |
| `Tunnel`, `Tunnel_proofs`, `MCTunnel` | an `Inlet` and an `Outlet` joined by two FIFO routes, refining `BytePipe` twice; its theorems, the refinements among them; without Stop, for the runs |
| `Contexts`, `MCContexts` | one session of each context that is not universal: SOCKS5, HTTP, Shadowsocks, UDP; the clients of its run |
| `Hub`, `Hub_proofs`, `MCHub` | the server's sessions and its two tables of players; its theorems; three connections of two players |
| `Control`, `Control_proofs`, `MCControl` | from a tunnel's configuration to listeners, through managers, connections and clients; its theorems; one tunnel between two players and the server |
| `Upgrade`, `Upgrade_proofs`, `MCUpgrade` | the remote upgrade of a client; its theorems; a bound on faults |
| `Codec` | the protocol messages and frames, as operators |
| `Wire`, `Wire_proofs`, `MCWire` | one direction of a control connection over `Codec`; the theorems of both; messages and cuts for the run |

`Inlet`, `Outlet` and `Contexts` use the queue and the window in the form in which the first modules establish them:
a bounded FIFO, and a credit that a sender waits for and gets when there is room.

### FlowController

`inflight`, `closed` and the condition variable are the struct's fields; `pc` tells where each caller of
Acquire stands (`asleep` in `cond.Wait`, `awake` from a Broadcast until it has the mutex again), and `asked` the
size it asks for.  `unacked` counts the payloads whose result the peer owes; it is the environment's side
and makes the balance expressible.  Acquire clamps its request to the window, Release subtracts the unclamped
size with a floor of zero: `NoCreditDrift` shows that the two still balance.  The sum it speaks of is the number of bytes
of the unacknowledged payloads, counted as elements of a set (`Charged`).  The run has one caller, which is what the
program has per window (the inlet acquires under `ctxMu`, the outlet in its only reader) and what `AcquireReturns` needs;
the safety properties are proved for any number.

### ProxyQueue

`items`, `head`, `count` (the field `size`), `queueClosed` (`closed`) are the fields; `consumer` is the goroutine in its Pop loop.  `accepted` and
`got` hold the last results, so that the refinement speaks about what callers see.  The mapping reads the ring
from `head` for `count` slots.  `byteQueue` in the same file is the same code over payloads.  Names that `FlowController` has
too carry a prefix here (`QueueInit`, `NoLostSignal`), because one module proves about both.

### Inlet

A session id stands for the accepted connection, its session and its goroutines, since ids are drawn once per
connection.  `acc` is the accept loop, `main` `runTCPConn`, `loop` `runProxyMessageLoop`, `stopPc` Stop;
`by` says which goroutine won `removeSession` and now runs `shutdown`, whose steps are the last phases of `sess`.
`ctxMu` has a holder, because two things block under it: the wait for credit (`main = "credit"`) and the write
to the local client (`loop = "write"`).  A session that is removed by `Input` blocks the routing goroutine until its
shutdown is over (`InputIdle`).  Payloads are numbered and weigh one unit of the window.

Not in the module: the table of UDP peers and its idle watcher, temporary accept errors (the loop just
waits and tries again), the permanent one that ends the loop (listed as a hazard), and decoding errors.

### Outlet

Maps are keyed by session id, goroutines belong to an attempt; the two are distinct so that an id can be used
again.  `go` is the connect goroutine (dial, install, announce, finish), `worker` the input worker, `reader`
readTCP with its deferred clean-up in three steps, and `closing` the work left to whoever detached a session:
ending the window and the queue under the lock, then closing the connection, then saying goodbye.  The lookups
that the code does by id (the worker's, the reader's removal) are by id here.  `readUDP` has the shape of readTCP;
`onSendToData` is seen from a session's side in `Contexts`.

### Tunnel

`Inlet` and `Outlet` instantiated over the same `i2o` and `o2i`; an id is connected once.  `UpIsPipe` and `DownIsPipe` map
the payloads read on one side and written on the other to `BytePipe`.

### Contexts

One session whose context decides where it connects.  `script` is its client: a sequence of protocol elements
(a greeting, a request, a header, a sealed chunk, a datagram), each cut into cells, and every read takes any number of
them, so elements arrive in pieces or together.  `ctx` holds the context's fields by the code's names (`status`,
`buffer`, `pending`, `connectIsTCP`, ...).  What a handler sends under `ctxMu` is in `todo` and goes out message by
message, each waiting for credit (`Emit`).  `reader` and `loop` are the session's two goroutines, `udp` the reader of an
associated UDP socket, `later` the timer of CloseLater, `life` and `by` the shutdown.  The outlet answers, refuses, sends,
acknowledges and leaves.

Not in the module: full queues and the race of Input with a shutdown (`Inlet` has them), write errors on UDP sockets,
the ciphers and their framing (a chunk or packet is sealed rightly or not).  A message is one unit of the window.  Bytes
a client sends on the control connection of a UDP association are no datagrams.

### Hub

`hub` is `Hub.sessions`, `bound` the session of each `PlayerState` (online is having one), `runtime` the tunnels with a
record in `TunnelRuntimeStore`.  A connection has a reader (`readLoop` and what it calls, `onLogin` in six
steps), a writer (Deliver, WriteFails) and a Close (`closer`).  Whoever calls Close first runs it and others wait for its
end (`sync.Once`), so Close is a process of its own and every caller waits for `closer = "done"`; the part under
no other goroutine's eyes, closing the channel and the write queue, happens with the call.  `tell` is the progress of a
broadcast to players: by a login, by a Close, or by the web request that changes a tunnel (one at a time).
Each push loads the target's session first and uses it afterwards.  `sync.Map` operations and the critical sections of
the player manager are single steps; `unregisterPlayer` is two, for its Load and Delete are.

`early` is a history variable: the sessions whose Close looked at `playerID` and the hub before their own
login had bound them.  Steps neither read it nor are restricted by it.

### Control

What `Hub` leaves out: the contents.  `conf` is the tunnel table, `record` the runtime store, `bound` the player's session.
A *teller* is whichever goroutine computes and sends notifications outside the managers' locks: a login, a Close or a web
request.  Its `jobs` are the pushes still to send, and calls of the server's own proxy manager, which take their own steps
(decide, stop, open, install), because several tellers meet there.  `mgr[h]` holds the `tunnels`, `inlets` and `outlets` of a
proxy manager, `listening` the sockets that are really open; an address can be taken by another program.  `down` and `up` are
the two directions of a connection, `client` is `runOne`.

Assumptions: a login registers and binds in one step, and a client handles one message in one step, as its read loop is the
only goroutine that uses its manager while the session lasts (the exception is a hazard in the list).  `mixed` is a history
variable: since the server started two notifications overlapped, or a report and the clearing of records, or a session's Close
cleared them when a later session of its player had been answered.

### Upgrade

One player.  The server's side is the task and the session's timer, with a former connection whose last reports are
handled late (`late`, `lateOpen`); the client's is the process (`prog`, `ver`), the `Receiver`'s fields, and its disk, which
survives everything: the installed binary `target`, per task `backup`, `installing` and `cand`, and the files `download.json`,
`pending.json`, `last-result.json` and the health files.  A step that syncs a file is a step here; between any two of them
the connection may break, the client crash, or the machine lose power, which tears a write that is under way.  `helper[t]` is
the program counter of `apply-update` for a task, in steps of what it persists, stops or starts.  `mode` says whether the
client runs under a service manager, which restarts it, or in the foreground.  A binary is its version, or `Torn`.

Assumptions: an offer arrives only while no helper of another task is at work.  The code has no lock for it; the time limit of a
task that is being applied (5 minutes, `upgrade_manager.go` 20) is longer than the helper's waits, so it takes an
administrator who starts a second task within the moments after the first has been reported as failed.  Contents are not
corrupted, and the disk does not fail but in the rename of the switch and the directory sync behind it; stopping the service
does not fail in a rollback; the server's offers are well formed.

### Codec and Wire

`Codec` has, per message, the fields `marshal` appends in their order and those `unmarshal` knows with their wire types, the
frame around them, and the translation between `pb` proxy messages and protocol messages.  A value is a token, the empty one
is the zero value that is not written.  Messages nest three deep at most, so `Marshal` and `Unmarshal` are written as three
levels of one operator (`MarshalWith`, `UnmarshalWith`) that takes the level below as its argument.  `Sendable` is what the
program gives the codec: a value for every field, and one message at most in a nested field that is neither list nor map.  A
nested message may be all zero: the server sends a point with an empty address for a tunnel that has no endpoint
(`session.go` 567-568; SOCKS5, HTTP and Shadowsocks tunnels need none).  Marshal leaves it out (`helpers.go` 57-60), so it is
read as nil, which `manager.go` (273-280, 456-464) takes for the empty address.  `SenseOf` is a message as its reader
understands it: itself, but that nested messages whose fields are all zero are not there.  It changes only the points of
tunnels, as a tunnel has its ID and an entry of a map its key (`tunnel_manager.go` 317-325).

`Wire` is one direction of a connection: senders (the server's write queue and its
loop, or the client's goroutines under `writeMu`), a byte stream or websocket messages in arbitrary pieces, and the read loop
with its cache: growing, compacting, taking frames out, refusing one that is too long.  `mem` is the memory the cache lies in,
because the data of a datagram stay a slice of it while the message waits in a session's queue.

Not in the modules: what TCP, TLS, KCP and QUIC do below a stream, what follows a packet of which only a part was written,
forwarding of illegal traffic, and widths of numbers.

## Runs

| run | instance | shows |
|---|---|---|
| `flow_window` | one caller, sizes 1, 2, 3 and 8, window 7 | a size above the window, sizes that fill it exactly and sizes that leave a rest; every race of Acquire, Release and Close |
| `session_queue` | three messages, capacity 3 | the ring wraps, is full, and is closed in every state, with the consumer asleep, woken or running |
| `inlet_sessions` | a session with two payloads up and one down, another connection refused for want of a slot, queue 1, window 1 | slots balance, Stop returns and leaves nothing but what Input is closing, nothing follows a goodbye |
| `outlet_sessions` | one attempt, three payloads up and two down, queue 1, window 1 | no unmanaged target connection, Stop leaves nothing, what was given up is reclaimed |
| `tunnel_pipes` | one session, queue 1, window 2, two payloads each way | both directions are pipes, credit is conserved |
| `tunnel_ends` | one session, queue 1, window 1, two payloads up | when one side ends so does the other; payloads arrive |
| `client_protocols` | 23 clients of five protocols, window 1, reads of any size | sessions connect where the client asks, hand over all of its payload once and in order, answer as the protocol promises, and end in full |
| `hub_sessions` | two connections of one player, one of another, one tunnel, queue 1, three events | a replaced session is closed, a closed one is in no table, closings end |
| `control_plane` | one tunnel, the same connections and the server, three events from five starts | managers run what they want, no socket is lost, what runs is what is configured, the web page tells the truth |
| `upgrade` | two tasks of two chunks, two faults | artifacts are kept and removed, downloads have no hole, the old binary is kept, no client is left stopped, tasks end |
| `upgrade_rollback` | the same, one fault | a counterexample, see *Finding* |
| `control_wire` | every message type with a second message behind some, cut anywhere, queue 1, frames at the limit | what is handed on is what was sent, field by field but for nil and all-zero nested messages; queued datagrams stay as they were; everything arrives |

### Bounds

`MaxUp`, `MaxDown`, `MaxSends` and `MaxDatagrams` bound what the environment sends; `Ids`, `Attempts`, `Conns` and `Tasks` the
actors.  Queues of one message and windows of one or two payloads are the smallest that overflow and block.  In the inlet's
and the outlet's runs the peer may acknowledge or not, answer or not, and leave at any time, so it is more general than the
module on the other side.

In `inlet_sessions` the second connection is a *latecomer*: it comes while the only slot is taken and is refused.  This lets the
run have traffic both ways and Stop with it.  Two sessions at once share slots, Stop and Input only; `SlotsBalance` and
`StopIsComplete` are proved for any number of them.

In the runs of `Hub` and `Control` an event is something a client, a connection or a web request does unasked (a login, a message, a
broken connection, a changed tunnel, a restart of the server); what follows from events is not bounded.  Three events are, for
instance, a second login of a player, a third one elsewhere and a broken connection.  Starts with sessions logged in are
states the modules reach by themselves, and save events.  In `MCHub` steps that no other goroutine can see (`Local`) are taken
at once.  In `MCControl` a tunnel that has an end on the server keeps one and one that has none gets none (`KeepsServer`, see
*Observations*); the tunnel goes across, within one player, into the server (also at an address that is taken there), and
out of it to either player.

Two faults of an upgrade are, for instance, a power loss that tears a chunk and a crash of the client that resumes; or a
failed health check and a crash in the middle of its rollback.  Task ids are interchangeable, `MCUpgrade` takes them in
one order.  The invariants were proved for any number of faults.

The clients of `client_protocols` are chosen so that each state of each context is left through each of its branches: served with
payload right behind the request, and refused at each stage.  A protocol element is two cells, so it arrives whole, in
halves, or with its neighbours.  `control_wire` has a first message of every type with every field set or zero and, behind a few,
a second one; among what the server sends are tunnels without endpoint (`MCUnbound`), for which the equality without `SenseOf`
is violated in this run; `MCCut` cuts behind the flag, in the middle or nowhere, and a frame may be as long as allowed or longer.

Deadlock checking is off where the system may really stop: all sessions over, or a bounded client with nothing
more to say.  It is on in `flow_window` and `session_queue`.

### Fairness

Goroutines that can run do run (weak fairness per goroutine).  Where two goroutines compete for `ctxMu` again and
again the waiter gets it in the end (strong fairness of those steps: `sync.Mutex` hands itself over to a waiter
that has starved for a millisecond).  A dial ends, for `net.Dialer` has a timeout, and so does the wait for the
answer to a connect (`waitReady` has a timer).  A local client or target takes the bytes written to it or hangs up;
without this no write ends, for there are no write deadlines on these connections.  Nobody is obliged to connect,
send, acknowledge, disconnect or stop.  In `Hub` logins, the rest of a message's handling, closings and broadcasts go on;
the writer need not, for a client may stop reading (the write deadline then ends the session, which is not assumed
either).  In `FlowController` an open peer acknowledges what it was sent, and in `Contexts` the outlet answers and
acknowledges.  In `Upgrade` the server's reader and the timer of an offer run, the client runs and is started again, and a helper goes on; faults are
never obliged, and a timeout of a helper that waits in vain for a client that cannot come is part of its steps.  In `Wire` writes go on and what was written is read.
`Control` states no liveness: `Converged` and `StatusTruthful` are about states in which nothing is under way.

### Exceptions the properties state

`handlePeerData` waits for credit with `ctxMu` locked.  While it does, the session's message loop cannot process the
disconnect the outlet has sent, and if the outlet is gone the credit never comes: the session, its slot and its
client connection stay until Stop, or until the queue overflows and Input closes the session.  `NoOrphanSession` and
`Delivered` of `Tunnel` hold with this exception and say so.  `StopComplete` of the inlet excepts a session that Input is still
shutting down, which Stop does not wait for.  `ClosesReturn` of the hub holds as long as no session registers after its own
Close.  `Converged` and `StatusTruthful` hold as long as no two notifications overlapped, nor a notification of one session and
the records of another (`mixed`), and the theorem about `Converged` as long as the administrator moves no end of a tunnel to
the server or away from it (`KeepsServer`).  `Faithful` of `Contexts`
excepts a grant whose answer could not be written (`GrantLost`), `Faithful` of `Wire` a packet that was written in part;
it takes a nested message that is all zero and nil for the same, as their readers do.
`NotLeftStopped` and `Settles` except the two failures after which `apply.go` starts nothing.

### Finding

`upgrade_rollback`: when the health check fails, `ApplyUpdate` writes `last-result.json` (`apply.go` 84) before it stops the new
client and restores the backup (146-171).  `receiver.go` 334 protects the backup only while a switch is pending and has no
result.  A client that starts in between cleans the backup up, the restore fails, and the helper returns without having
started anything.  README.md 215 says that the backup is restored and the old version restarted.  One crash of the new
client under a service manager is enough.

## Observations

Behaviour that was met while modelling and that no doc or test of the repository contradicts outright.  The models have
these behaviours unless noted; the properties are stated with the exceptions above.

* `outlet.go` 345: the reader of a session cleans up by session id.  If the id is used again, as a restarted inlet
  process does, a late reader detaches the new session.  `Managed` and `StopComplete` are proved for ids used once.
* `session.go` 485, 500, 195: `onLogin` registers its session without asking whether it has been closed meanwhile, and Close
  looks at `playerID` once.  A closed session can stay reachable; if its peers' queues are full their Closes can wait for
  each other in `sync.Once`.
* `session.go` 523: a session can be reached before its LoginAck is queued.  What is pushed first makes the client drop the
  connection (`client.go` 396); `Converged` shows that the next login repairs it.
* `session.go` 133, 500: of two concurrent logins of a player one may be registered last and the other bound last.
* `session.go` 199-206, 154-161: a session that was replaced clears the records of all its player's tunnels whenever its Close gets
  there.  With three sessions of a player in a row, the first one's Close may come after the third was answered and has
  reported: its tunnels run and stay "unconfirmed" until they next change.
* `manager.go` 231: an outlet routes its answers by the tunnel it was started with, and the server's manager hears of a tunnel's
  updates only while the tunnel has an end there.  A tunnel that moves to other ends keeps stale ends (`KeepsServer` leaves
  such updates out of the run).
* README.md 212 describes the digest check of a candidate; `apply.go` 38 checks it and 131 copies the file later, without a
  second look.
* `inlet.go` 623: a SOCKS5, HTTP or Shadowsocks request read before a Stop is sent as `I2OConnect` after the goodbye.
* `context_socks5.go` 371, `inlet.go` 634: an answer handled after OnStop opens a UDP socket that nobody closes.
* `context_socks5.go` 311, `context_http.go` 177-183: the status says "running" before the answer that grants it was written.
* `context_socks5.go` 99: an `O2IRecvDataFrom` that finds no client address is dropped without a result, so its bytes stay
  charged to the outlet's window.
* `outlet.go` 309: one UDP target that cannot be resolved ends the whole association.
* `context_http.go`: behind the first request of a keep-alive connection everything goes raw to the first target.
* `client.go` 530: a write that times out within a packet fails for its sender only and the next packet follows it.
* A frame of 2 MB (to the server) or 5 MB (to the client) closes the connection; no sender checks.
* A nested message with only zero fields is not written and comes back as nil.
* An inlet on the server gives a message up when the player's write queue is full.

## Proofs

TLAPS proves, for all values of the constants that satisfy the assumption named in the module:

* `Session_proofs`, the window (`WindowAssumption`): `TypeCorrect`, which includes that the bytes in flight
  never exceed the window; `WaitersJustified`, for any number of callers; `ClosedWindowStaysShut`; `CreditDoesNotDrift`.  The
  invariant of the second is `NoLostWakeup` with the type invariant: a sleeper cannot be served.  It is inductive because every step
  that makes room (Release) or closes the window wakes all sleepers, and every other step only takes room.
  The third follows per step from the guard of Acquire and the second look at `closed` in Recheck.  The fourth
  rests on `OneMoreCharged` (a payload adds its clamped size in bytes) and on the type invariant: an oversized payload
  fills the window, so it is alone when its unclamped release takes the count to zero.

* `Session_proofs`, the queue (`QueueAssumption`): `QueueTypeCorrect`, `WaiterJustified`, and `RingImplementsFifo`: initial states map
  to initial states and each step to a step of `BoundedFifo` or a stutter.  It rests on lemmas about reading a
  ring: writing the slot behind the newest message appends to what is read, clearing the head slot removes the first
  element.  The arithmetic of `%` is proved from the range of the indices, one wrap at most.

* `Inlet_proofs` (`InletAssumption`): `TypeCorrect`, `SlotsBalance`, `StopIsComplete` and `GoodbyeIsTheEnd`, all of `Inlet!Spec`, in which
  the other end is `AnyOutlet`: it takes messages and sends any message at any time, so the steps of `MCInlet`'s outlet
  and of `Tunnel`'s are among its steps.  The invariants build on one another:
  * `Typed` adds to `TypeOK` what the goroutines have in hand: the accept loop a connection, the message
    loop a message, which is a payload while it is being written.
  * `SlotInv` adds `Ownership`, the passing of a connection from the accept loop to its goroutine to its session.
    Without it a connection could own two slots, or none.  Each step is either quiet (nobody's ownership
    changes), or one connection takes a slot and the count goes up, or one gives it back and the count goes down.
  * `StopInv` adds who shuts a session down and that this goroutine outlives the shutdown (`ClosersKnown`), who holds
    `ctxMu` (`LocksHeld`), that a connection without a goroutine is closed or about to be (`ConnsClosed`), and that
    Stop's mark and what it has waited for last (`StopHolds`).  At Stop's return every remaining phase of
    shutdown then belongs to Input.
  * `GoodbyeIsTheEnd`, an action property, needs only that a step appends at most one message and which goroutine in which
    state says what (`Speaks`): those that connect or send payload have looked at `closed`, or at the window, under `ctxMu`.

* `Outlet_proofs` (`OutletAssumption`), against `AnyInlet`: `TypeCorrect`; `ConnectionsManaged` and `StopIsComplete` under the
  assumption `[]OneAttemptPerId`; and `OldAttemptsDoNoHarm`, an action property, without it.
  * `Typed` says where each goroutine can be and what it has in hand.
  * `Fresh` says that an attempt that was not started has nothing, `Keyed` that the two maps point to attempts of the id they
    are asked for, and `Answered` that an open connection is in the map or has a goroutine that will close it.  With ids used
    again the last is not inductive, and indeed false: the late reader of *Observations* breaks it.
  * `StopHolds` says that after Stop's mark no attempt is dialling that could still install, which is why the
    second look at `stopped` under the lock in `installConnectedSession` is needed.
  * An entry in `connecting` changes only by its own attempt, a disconnect of its id, or Stop (`PlacesKept`).

* `Tunnel_proofs` (`TunnelAssumption`): `EndsAreComponents`, `TargetsManaged`, `UplinkIsPipe`, `DownlinkIsPipe` and
  `CreditIsConserved`, for any number of sessions that share the route, any capacity and window, Stop of both ends included.
  It builds on the two modules above: each end is an instance, so their invariants and their lemmas on single steps
  (`Advances` of the inlet, `KeepsPace` of the outlet: what one step may do to one session) are cited for the tunnel.
  * `Ends` is the invariants of both ends and `Once`: an id that has no session yet, or whose connect is still on the route, has
    no attempt.  It discharges the outlet's assumption `OneAttemptPerId`.
  * `Evidence` says that whatever a session of the inlet has received from a target was sent by a reader that has begun.
    A payload that arrives therefore belongs to the one attempt of its id.
  * `UpLine` and `DownLine` say where the payloads of a session are: one in hand, then those in the queue, then those on the
    route, numbered without a gap up to the last one read (`Chain`), as long as the session is in its map; afterwards
    what is in hand is still the next one and the rest will be dropped.  A write then appends the number after the last, which
    is `BytePipe`'s step; reading is the other.  The mapping of the downlink goes through `AttemptOf`, which the start of an
    attempt changes and `Once` pins down.
  * `Credit` counts: per session and direction the window is the number of payloads and acknowledgements on both routes, in the
    queue and in hand (`CountOther` and `CountSkips` say which steps leave a count alone).  It needs that both ends are up: a
    session that leaves its map lets what it has queued go.

* `Hub_proofs` (`HubAssumption`): `TypeCorrect`, `PlayerHasOneSession` and `NothingLeftBehind`, for any players, connections,
  tunnels and queue capacity.
  * `TypeInv` adds to `TypeOK` that whoever is in the middle of a login, a push or a Close knows its player and its
    peer (`Known`), and that a broadcast waits only for a session it has (`Telling`).
  * `OneSession` is inductive with it: only Bind makes a session lose its player, and Bind leaves the duty to close it
    with the session that took its place.
  * `Left` strengthens `NoGhost` by the stages of a Close, and by: a table refers to a session only under the session's
    own player.  A Close that came after the binding finds in the hub either its own entry or another's, and since
    a connection logs in once nothing it removed returns.  `QuietSteps` sorts out the actions that leave the tables alone.

* `Control_proofs` (`ControlAssumption`: a stored configuration can be disabled, its ends are players or the server, there are
  finitely many tunnels): `TypeCorrect`, `ManagersFit`, `SocketsKept`, `ConfigurationsConverge` and `StatusIsTruthful`, for any
  players, connections, tunnels and requests.
  * `Typed` bundles the server's tables, the sessions, the links, the tellers and the managers.  The type of what a client
    receives depends on what was sent before it: `Acks` says that a connection carries at most one LoginAck, which is why a
    client never synchronises twice.
  * `Silent` says that a login or a Close tells only while its session is at that stage, `Standing` that only a session that has
    logged in is a player's or is being closed, `Erasing` that a tunnel being deleted is still configured and has one eraser.
  * `Fits` is then inductive: every step of a manager stores the configuration together with stopping what contradicts it, and
    the server's opens a socket and looks at the configuration again before it installs.
  * `NoLostSocket` needs `Clients`: a client that is not logged in has an empty manager, so a login finds no socket of its own.
  * `ConfigurationsConverge` is `Spec /\ [][KeepsServer]_vars => []Converged`.  Its invariant `NotifyInv` says, of every moment and
    as long as `mixed` is false, what each manager has been told.  `Right(p, t, k)`: player `p` may have been told that tunnel `t`
    is `k`, because `k` is what the tables say with the presence of this moment, or somebody owes `p` another word on `t`
    (`Pending`, `Rewritten`), or the teller who will owe it has not begun (`Shaky`).  The server's own manager holds what is
    right (`ServerTold`); a client's manager will after the messages on their way (`ClientsTold`, by the `Course` of its views),
    and no view on the way asks for an address twice (`Harmless`), so no inlet fails for a neighbour that is about to stop.
    `JobsOk` and `HandsOk` say that what a teller will send, or has made up, is what the tables hold or is followed by it;
    `Solo`, that there is one teller at a time, is what `mixed` stands for.  `ClientsDone` and `ServerDone`: what was told has been
    done, but for a failing address (`Untaken`) or a teller at work on it.  Connections come in as `Live`: up, bound, not being
    closed, and not about to fail its login because a push overtook the LoginAck.  When all is `Quiet` nothing is owed, a
    client that is logged in is live, a player is available exactly when its client is there, and `Converged` follows.
  * `StatusIsTruthful` is `Spec /\ [][KeepsServer]_vars => []StatusTruthful`.  `RecordInv` follows the reports as `NotifyInv`
    follows the pushes.  For a client that has been told of a tunnel and should run its inlet (`Informed`), the last report about
    the tunnel on its connection, or the one in its session's hands, or else the record, says what has become of the inlet
    (`Says`); every other session of the player has ended its clearing, or is about to spoil that (`Trailing`), which it then does
    before a new session is answered or while `mixed` turns true.  A record is cleared only together with a duty to tell the
    receiver (`RecordStays`): an update is told to the receiver last (`ReceiverLast`), so also when the inlet leaves the server and
    its stopping overwrites the record (`MovesAway`).  On the server a failed start is on record before the teller goes on
    (`FailureKept`), and a socket in a teller's hands is installed by nobody else (`SocketsInHand`).  A report in a session's hands is
    about a tunnel that its player still receives, or that is gone (`HeldRight`, `HeldOk`).  When all is `Quiet` nothing is on its
    way and nobody trails, so the record is the outcome, and `Converged` says which outcome it is.

* `Upgrade_proofs` (`UpgradeAssumption`: at least one chunk, distinct markers): `TypeCorrect`, `ArtifactsKept`,
  `DownloadsWhole`, `PredecessorKept` and `ClientComesBack`, for any number of tasks, chunks and faults.
  * `Typed` is four parts: the server (`Serving`), the connection (`Talking`: one login, then reports one way and pushes
    the other, none before the login), the receiver (`Receiving`) and the disk with the helpers (`Installed`).
  * `StagedWhileRunning` and `NoHole` are inductive with it.
  * `OldKept` needs the whole of `Switching`: a helper is alone (`Alone`), the running program is the installed one and only the
    old one takes offers (`Genuine`), no client runs or may be started while files are switched (`Still`), the old
    binary is installed up to the switch and nobody calls it healthy (`Trial`), and a switch is on record (`Noted`), so every
    clean-up spares its backup.  Even the type of `target` rests on it: the switch and its undoing find their files.
  * `Relaunches` strengthens `NotLeftStopped`: a helper that has stopped the client is before a step that starts it (`Due`), and
    not merely somewhere, for in its last steps it starts nothing any more.

* `Wire_proofs` (`WireAssumption`: positive capacities, a buffer for the cache, one for every slice and one to copy into, and
  messages the program can send): `RoundTrip`, `PacketIsDecoded`, `FramesAreWhole`, `WireInvariant`, `WireStable` and
  `WireFaithful`, for any messages, senders, cuts, capacities and frame limit; nested messages may be all zero.
  * What is encoded or under way is a `FlattenSeq` of parts, which is defined by recursion.  Its laws (of one part more, of two
    sequences joined, of singletons) are proved by induction.  The library's induction theorems take an operator; here the
    predicate is a set, and the principle (`Induction`) comes from the well-foundedness of inclusion between finite sets.
  * `RoundTrip`: `Unmarshal` of `Marshal` is `Sense`, and `Marshal` writes nothing exactly when `Sense` is `Blank`.  It is shown
    in two steps.  Values in which no nested message is blank come back as they are, by three levels of one lemma
    (`MessageLevel`): the fields marshal writes are the fields unmarshal knows, with distinct numbers (`WellCoded`, checked per
    message type), so `LastOf` and the list of a repeated field find exactly the cells of their field; a field that was
    left out reads as zero.  And `Sense` of a value is such a value and has the same cells (`SiftedCells`, `MessageSense`).
    `PacketIsDecoded` adds ids, serials and the bridge: a packet decodes to `Understood` of what was sent, and for proxy
    messages, which nest none, that is the message itself (`ProxySense`).
  * `FramesAreWhole`: in any cut of a stream of packets a frame is only taken when the packet at the front is there whole.
  * `WireInv` is the invariant.  `Stream`: unless a packet was torn, what was handed on and a rest `todo` make up what was sent
    as its reader understands it (`AsRead`),
    and the cells in the cache, on the wire and still to be written are those of the packets of `todo`, followed by at most one
    packet whose write failed for good (`spill`).  `MemInv`: the cells of a queued datagram lie before the cache in its buffer or in
    another buffer, so neither `append` nor the compaction writes them.  `Room`: there is a fresh buffer, because datagrams
    that wait are not more than messages that were sent.

The type invariants of these modules are therefore not repeated in the runs.

Only model-checked: every liveness property (fairness and ENABLED are out of the prover's reach), and everything about
`Contexts`: its two invariants compare what five protocols make of whole streams.

## Not modelled

* `proxy/crypto.go`, the framing of Shadowsocks, compression: functions on bytes without state that is shared; their
  round trips need real bytes.
* Transports (`transport`, `wsconn` but for message boundaries): dialling and listening are library calls.
* Storage beyond the table of tunnels as an atomic map, and its schema and migrations.
* Web administration but for the requests that change tunnels and start upgrades: login sessions, paging, validation.
* Client builds: generation and caching of files, sequential but for a cache of finished builds.
* Entry points, configuration, logging, scripts and the front end.
* In modelled parts: the table of UDP peers of an inlet and its idle watcher; adding and deleting players; forwarding of
  illegal traffic; the client's ping timing and its choice of a transport; `client.close` interleaved with the middle
  of a message; an accept error that is not temporary; a target that answers everything and reads nothing.

What would come next: the UDP peers of an inlet with their idle watcher; tunnels that move to other ends, with the stale
routes of *Observations* in the model; for `Hub` and `Control` one directory "player to live session" that both refine.
