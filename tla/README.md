# TLA+ models of the mothra network core

This directory holds TLA+ models of the libp2p network core in
`src/core/network/src/` and the TLC configurations that check them. Every
operator is translated from the Rust source. The exception is a part whose
code is not under `src/` (the per-connection handlers, the peer manager,
gossipsub, identify): that part is the environment of the model. It is
written from `spec.md` and marked `spec_modelled` in `PROJECT.json`.

## 1. The system

| Part | Source | State | Operations |
|---|---|---|---|
| Composite behaviour (driver) | `core/network/src/behaviour/mod.rs` | `events` (public event FIFO), `peers_to_dc` (pending-disconnect FIFO), `meta_data`/`ping_data` snapshots, `seen_gossip_messages` (unused) | `poll`, `custom_poll`, `inject_*`, `on_gossip_event`, `on_rpc_event`, `on_identify_event`, `send_request`, `send_successful_response`, `_send_error_reponse`, `subscribe`/`unsubscribe`, `publish`, `propagate_message` |
| RPC behaviour | `core/network/src/rpc/mod.rs` | `events`: a Vec of actions drained with `remove(0)` | `send_request`, `send_response`, `inject_connected`, `inject_event`, `poll` |
| Per-connection handler | `behaviour/handler.rs`, `rpc/handler.rs` (not in `src/`) | substreams per connection, shutdown state | receives NotifyHandler actions and emits `RPCReceived`/`HandlerErr` |
| Gossipsub, identify, peer manager | external crates and a module not in `src/` | their own | queues of outputs the driver drains |
| Shared globals | `core/network/src/types/globals.rs` | subscription set, metadata, ping data, peers | locked accessors; only the subscription set is written after construction |
| Legacy wrapper behaviour | `core/src/libp2p-wrapper/src/behaviour.rs` | event Vec, LRU of seen gossip ids, `enr_fork_id` | `inject_event` (gossipsub, RPC, identify, discovery), `poll`, `subscribe`/`unsubscribe`, `update_fork_version`, `publish`, `send_rpc` |
| Network service | `src/api_libp2p/network.rs` | command channel, the service mutex, exit oneshot | a futures 0.1 task: drain the channel, then poll the swarm |
| Example CLI | `examples/rust/src/main.rs` | the main thread and a blocking publisher thread | startup, `block_on` until Ctrl-C, exit signal, `shutdown_timeout`; `Mothra::new` and a sleep/gossip loop |

**How the parts interact.** The swarm calls `inject_*` on the behaviour
between polls. It then calls `poll` repeatedly. One `poll` does three things:

- It drains gossipsub, then the RPC, then identify. Each child event goes
  through `on_*_event`, and each child NotifyHandler is wrapped in a
  `Delegate` envelope.
- It then runs `custom_poll`. That pops one pending disconnect. Next, it loops
  over the peer manager's commands. Finally, it pops the public event queue.
- It returns at the first action it produces.

Some child events cause more work. An RPC event can queue a reply (a
ping/metadata reply) in the RPC's own queue. It can also queue a public event
or push the peer onto `peers_to_dc` (on a goodbye). A peer-manager command can
queue RPC requests or return a goodbye shutdown at once.

**Hard behaviours.** These are what the models target:

- **Priority of the child sub-behaviours.** The pending disconnects and public
  events wait behind every gossip, RPC and identify action.
- **Two-step disconnect.** `DisconnectPeer` first sends `Shutdown(Some(goodbye))`
  to *Any* connection. A later `Shutdown(None)` then goes to *All* connections.
- **Internal requests.** Requests issued under the sentinel id
  `RequestId::Behaviour` must never surface to the application.
- **Response routing.** A response is routed by the pair
  `(ConnectionId, SubstreamId)`.
- **Concurrency with the peer.** Connections open, close and are lost
  concurrently with requests in flight.

## 2. Modules and how they correspond to the code

- **`RpcBehaviour.tla`** models `rpc/mod.rs`. The RPC's only state is its
  action queue, and each method is an operator from the queue to the new
  queue: `send_response`, `send_request`, `inject_connected`, `inject_event`.
  `RpcPollReady` is the `poll` test. The composite owns the queue as its
  variable `rpc`.

- **`MothraBehaviour.tla`** is the composite driver with its environment.
  - **Behaviour state.** `phase`, `gossipsub`, `rpc`, `identify`,
    `peerManager`, `events`, `peers_to_dc` and `identified`. `identified` is
    what was passed to `peer_manager.identify`.
  - **Environment state.** `conn` (the lifecycle of each connection),
    `outstanding` (the handlers' outbound substreams), `inbound` (a history of
    inbound requests), `out` (a history of returned actions) and the
    application's `appIds`/`appAnswered`. `budget` bounds spontaneous inputs.
  - **The poll.** One call of `poll` is a run of steps tagged by `phase`
    (`Gossipsub`, `RPC`, `Identify`, `Custom`), one step per loop iteration of
    the code:
    - `GossipsubGenerateEvent` / `RpcGenerateEvent` / `IdentifyGenerateEvent`:
      a `GenerateEvent` given to the `on_*_event` handler, and the loop
      continues.
    - `*NotifyHandler`: the action wrapped in `Delegate` and returned.
    - `*Pending`: move on to the next child.
    - `CustomPollDisconnect`, `CustomPollPeerManager`, `CustomPollEvents`:
      the three parts of `custom_poll`. A peer-manager `Ping`/`MetaData`
      queues an RPC request and continues the loop. Every other command
      returns.
  - **The swarm task's wake-up.** `awake` says whether the swarm's task will
    poll the behaviour. `PollStepScheduled` starts a poll only when `awake`
    holds. After a `Ready` return the swarm polls again. After `Pending` the
    task sleeps. `EnvironmentWakes` sets `awake`: any swarm `inject_*` call,
    child output or application call wakes the task. No child in `src/`
    registers the `Context` it is given. `RPC::poll` ignores its `_cx`
    (`rpc/mod.rs:189`), so a request that `custom_poll` queues into the RPC
    after the RPC was polled does not wake the task.
  - **Returning.** `Return` appends the action to `out` and hands it to the
    handlers (`Deliver`, spec.md 4.1).
  - **Environment actions.** These are enabled only when `phase = "Idle"`,
    because `poll` holds `&mut self`:
    - connections are established, lost and closed;
    - peers send requests;
    - inbound substreams fail;
    - outbound requests get responses or errors;
    - gossipsub, identify and the peer manager produce output;
    - the application sends requests and answers the `RequestReceived` it was
      given.
  - **Payloads.** They are abstracted to the protocol name. Ids, peers,
    connections and substreams are model values.

- **`MC_MothraBehaviour.tla`** instantiates the constants: one peer with its
  connections, substreams and application ids.

- **`GossipSubscriptions.tla`** models the legacy wrapper's `subscribe`,
  `unsubscribe` and `update_fork_version` with the globals' subscription set.
  - **State.** `gossipsub_subscriptions` (the globals), `mesh` (the gossipsub
    engine's subscriptions, outside the sources), `enr_fork_id`, `enr_eth2`
    (the ENR's fork id), and the locals of `update_fork_version`: its
    snapshot `subscribed_topics`, the topics each loop has visited, `pc`.
  - **Topics.** A `GossipTopic` (a type outside the sources) is a record of a
    kind and a fork digest.
  - **Actions.** `Subscribe(t)`/`Unsubscribe(t)` write the globals and then
    the engine. `update_fork_version` is one step per statement or loop
    iteration: `UpdateForkVersionBegin` (ENR update and snapshot),
    `...Unsubscribe` (first loop), `...Unsubscribed` (loop exit),
    `...Resubscribe` (second loop), `...End` (`self.enr_fork_id = ...`).
    Each loop iteration takes the globals' lock on its own, so the steps
    are observable in between; the behaviour's `&mut self` keeps the
    application's calls out until `pc = "idle"`.
  - The core behaviour has the same `subscribe`/`unsubscribe` code, but no
    `update_fork_version`. It is modelled separately in `CoreSubscriptions`,
    because the two behaviours are different structs.

- **`CoreSubscriptions.tla`** models the core behaviour's gossip API
  (`behaviour/mod.rs:289-335`).
  - **Actions.** `subscribe_kind`, `unsubscribe_kind`, `publish` and
    `propagate_message`. The first two go through the private
    `subscribe`/`unsubscribe`, which write the globals' set and then call the
    engine.
  - **Topics.** `GossipTopic::new(kind)` takes only the kind, so a topic is
    its kind.
  - **The engine.** It is `mesh`, the histories `published`/`propagated`, and
    `returned`, the bool the last call returned.
  - **`last`.** It records the previous call and the set before it, so that
    the returned bool can be judged.
  - **Interleaving.** Every call holds `&mut self`, so calls do not
    interleave and each is one step.

- **`WrapperBehaviour.tla`** models the wrapper's event side: `events` (the
  `Vec` `poll` drains with `remove(0)`), `seen_gossip_messages` (the LRU, as a
  recency list, most recent first), and histories `gossipIn`/`gossipOut` of the
  gossip messages handled and forwarded. `LruPut` is the lru crate's `put`:
  a hit moves the id to the front; a miss inserts it and drops the least
  recently used when full. The forwarding decision is judged against a
  recursive reference, `RecentDistinct`, the `n` most recent distinct ids of
  the history. `LruPut` itself models the external crate: the repository's
  part is the `put(..).is_none()` call at `behaviour.rs:227`. The
  identify and discovery handlers change no state (the truncation is of a
  copy that is only logged) and are not actions.

- **`NetworkService.tla`** (EXTENDS `WrapperBehaviour`) composes the service
  task with the wrapper behaviour its swarm drives. `eth2_libp2p::Service` is
  outside the sources; the model takes it to poll this behaviour, and to hand
  what `send_rpc`/`publish` queued to the connections.
  - **State.** `channel` (the unbounded mpsc of numbered `NetworkMessage`s),
    `swarmOut` (queued in the swarm), `transmitted`, `polledEvents`, the task's
    `task` ("idle", "channel", "swarm", "done"), the futures 0.1 wake-up state
    `notified`, `chanWaker`, `swarmWaker`, and `exit` (the oneshot).
  - **Messages.** A `NetworkMessage` is a `Send` (the peer and RPC event
    abstracted away) or a `Publish` with a list of topics (`Topic`, up to
    `MaxTopics`). `ChannelMessage` hands it to the wrapper: `send_rpc` queues
    one item in the swarm, and `publish` (`behaviour.rs:131-135`) one
    gossipsub publish per topic. So an empty list queues nothing, and a list
    of k topics queues k items. Items are `<<message number, part>>`.
  - **Task steps.** One per loop iteration of `network_service`:
    `ChannelMessage` (`Ready(Some)`), `ChannelNotReady` (break, registering
    with the channel), `SwarmTransmit`/`SwarmEvent` (`Ready(Some)` from the
    swarm's poll), `SwarmNotReady` (break, registering with the swarm) and
    `SwarmError` (`Err(_) => break`, no registration). `TaskReturn` is the
    `Select` with the exit oneshot in `spawn_service`, polled after the service.
  - **Environment.** The application's `Send`, network activity
    (`NetworkEvent`: a wrapper `inject_event`, waking the task if the swarm
    holds its registration), and `Exit` (the `Network` is dropped).
  - The `Ready(None)` branch of the channel is unreachable: the service holds
    a sender of its own channel (`_network_send`).

- **`MessageForwarder.tla`** is the abstract specification of the service.
  Its state is the count `sent`, sets of pending and delivered
  `<<message, part>>` pairs, and `closed`. A message asks for some number of
  parts, and each part is sent out once. `NetworkService` instantiates it
  with this refinement mapping:
  - `pending` is the parts of the messages in the channel, plus `swarmOut`;
  - `delivered` is `transmitted`;
  - `closed` is `task = "done"`.

  It checks `Forwarder!Spec` as a property.

- **`DisconnectSequencer.tla`** is the abstract specification of
  disconnection in the composite (spec.md §4.5.1 and the two-phase close of
  §9).
  - **State.** `owed` is a bag of peers owed a final close. `shutdowns` is
    the history of the shutdowns handed to the swarm.
  - **Actions.** `PeerSaidGoodbye(p)` makes `p` owed. `DecideDisconnect(p)`
    makes it owed and sends a goodbye to Any connection in the same step.
    `Close(p)` sends an owed peer's Shutdown(None) to All.
  - **Fairness.** Weak fairness of each `Close(p)`.

  `MothraBehaviour` instantiates it with `owed <- ToBag(peers_to_dc)` and
  `shutdowns <-` the Shutdown actions in `out`. `owed` is a bag because the
  code queues a peer again without merging (see `disconnect_queue_dup`).

- **`ExampleApp.tla`** models `examples/rust/src/main.rs` as two threads.
  - **`main`.** `Startup`, or `StartupFails` (the `unwrap`s of
    `subcommand_matches("mothra")` and `Runtime::new`); then `block_on`,
    where `ListenFails` (the `expect` on `ctrl_c`) may happen. That panic
    unwinds main and drops the Runtime, and the drop waits without a timeout
    for the blocking pool (`RuntimeDropped`). It completes only if the
    publisher has panicked; otherwise the process hangs until a SIGINT kills
    it. Otherwise main continues with
    `Shutdown` on Ctrl-C (firing the exit signal), and `ShutdownTimeout`
    (`shutdown_timeout(300 ms)`, after which main returns).
  - **`publisher`.** The `spawn_blocking` closure: `MothraNew`
    (`Mothra::new(..).unwrap()`, which succeeds or panics) and the endless
    `Gossip` loop. Both run only while the process is alive.
  - **The user.** `Sigint` is the user's Ctrl-C. Before `block_on` installs
    the listener, or after the listener failed to install, it takes the
    default disposition and kills the process.
  - **Outside the sources.** The `mothra` crate (`Mothra::new`, `gossip`)
    is not under `src/`. The `Subscriber` callbacks only print.

- **`MC_GossipSubscriptions.tla`**, **`MC_NetworkService.tla`**,
  **`MC_CoreSubscriptions.tla`** give the
  constants their model values.

## 3. Runs

| Run | cfg | Expect | Checks |
|---|---|---|---|
| `mothra_core` | `MC_MothraBehaviour.cfg` | pass | `TypeOK`, `ResponseRouting`, `InternalOutcomesSilent`, `InboundRequestsServed`, `DisconnectSequenced` |
| `disconnect_queue_dup` | `MC_DisconnectQueue.cfg` | violation | `DisconnectQueueNoDup` |
| `gossip_subscriptions` | `MC_GossipSubscriptions.cfg` | pass | `TypeOK`, `SubscriptionsMirrored`, `ForkUpdateKeepsKinds` |
| `fork_digest` | `MC_ForkDigest.cfg` | violation | `ForkUpdateMovesTopics` |
| `network_service` | `MC_NetworkService.cfg` | pass | `ForwarderRefined`, `EventsPolled` |
| `wrapper_gossip` | `MC_WrapperGossip.cfg` | pass | `ForwardedIffFresh` |
| `swarm_error_stall` | `MC_SwarmError.cfg` | violation | `ForwarderRefined` |
| `rpc_wakeup` | `MC_RpcWakeup.cfg` | violation | `RpcQueueDrained` |
| `core_subscriptions` | `MC_CoreSubscriptions.cfg` | pass | `SubscriptionsMirrored` |
| `example_app` | `MC_ExampleApp.cfg` | pass | `SigintExits` |

The properties:

- **`ResponseRouting`** (spec.md §8). Every RPC response the behaviour
  returns goes to the connection of an inbound request and carries its
  substream id. It answers that request's protocol, and it is the only
  response on that substream.
- **`InternalOutcomesSilent`** (spec.md §8). Every `ResponseReceived` or
  `RPCFailed` given to the application carries an application id. A request
  with that id was sent earlier to that peer. Outcomes of the behaviour's own
  metadata/ping/goodbye requests never surface.
- **`InboundRequestsServed`** (liveness). Every inbound request is
  eventually served, in one of these ways:
  - a Ping is answered with a Pong;
  - a MetaData request is answered with metadata;
  - a Goodbye is answered with a shutdown of every connection of the peer;
  - a Status request is handed to the application.

  Every reply is queued and drained within the poll that handles the
  request, so this checks that `on_rpc_event` dispatches each protocol. With
  finitely many inputs it cannot show starvation by an endless stream of
  sub-behaviour output.
- **`TypeOK`**. It includes that `identified[p]` never exceeds
  `MAX_IDENTIFY_ADDRESSES`, which is the truncation boundary of
  `on_identify_event`. Only this upper bound is checked: a truncation to
  fewer addresses would pass.
- **`DisconnectQueueNoDup`** (spec.md §3, invariant 4, and §8). The check
  finds this violated:
  1. a peer sends Goodbye on two substreams before the next poll;
  2. the RPC queue is drained in one poll, so `on_rpc_event` pushes the peer
     onto `peers_to_dc` twice (`behaviour/mod.rs:534`);
  3. the peer is then sent `Shutdown(None)` twice.

  The same happens when a peer-manager `DisconnectPeer` (line 622) meets an
  inbound Goodbye. This is recorded as a finding in `PROJECT.json`.

The properties of the later modules:

- **`SubscriptionsMirrored`** (spec.md §3, invariant 3). Whenever no
  `update_fork_version` is running, the globals' set equals the engine's.
- **`ForkUpdateKeepsKinds`** (action property). When `update_fork_version`
  returns, the engine is subscribed to exactly the kinds its first loop
  unsubscribed from. Both loops must use the one snapshot taken before the
  first loop empties the globals.
- **`ForkUpdateMovesTopics`** (the comment at `behaviour.rs:192`). When
  `update_fork_version(f)` returns, every subscribed topic carries `f`'s
  digest. The check finds it violated: subscribe to a topic on `d0`, then
  update to `d1`; the topic is re-subscribed on `d0`, because the digest line
  (208) is commented out.
- **`ForwardedIffFresh`**. The messages forwarded to the application are
  exactly those whose id is not among the `SEEN_CAP` distinct ids seen just
  before, in order. A duplicate inside the window is dropped; one evicted from
  it is delivered again. This is what the wrapper's own comment
  (`behaviour.rs:42-43`) promises; spec.md §9 leaves open whether this
  file's suppression should stay, so it is not reported against §4.3, which
  is about the core's cache.
- **`ForwarderRefined`**. The service implements `MessageForwarder`. No
  part of a message is sent out twice or before the message was sent. The
  mapping counts a message's parts from the message alone (`PartCount`: one
  for a send, one per topic of a publish), not from `publish`, so a publish
  that hands the swarm fewer or more calls than topics is caught. While the service runs, a
  pending part is eventually sent out. This needs both loops'
  registrations: the task only returns after the channel and the swarm both
  returned NotReady.
- **`EventsPolled`** (liveness). Every event the wrapper queues is eventually
  taken by the service, unless it has shut down.
- **`swarm_error_stall`**. With one swarm poll error allowed,
  `ForwarderRefined` is violated: a message is handed to the swarm, the next
  swarm poll fails, and the task returns NotReady with no swarm registration
  (`network.rs:136`). spec.md §5 says a Pending return promises a re-wake.
  Whether `eth2_libp2p::Service::poll` can fail is outside the sources, so
  the passing run sets `MaxSwarmErrors = 0`.
- **`RpcQueueDrained`** (liveness, spec.md §5: a Pending return promises a
  re-wake through a child's registration). Whenever the RPC queue holds an
  action, it is eventually drained. The check finds it violated in this way:
  1. the peer manager yields `Ping` (or `MetaData`, the same path);
  2. the task polls gossipsub, the RPC (empty) and identify;
  3. `custom_poll` queues the request into the RPC
     (`behaviour/mod.rs:616-621`) and returns `Pending`;
  4. no registration exists, so the task sleeps with the request unsent.

  This is recorded as a finding.
- **`SubscriptionsMirrored`** in `CoreSubscriptions` (spec.md §3 invariant 3
  and §8). After every call, the globals' set equals the engine's. A
  subscribe or unsubscribe returns `true` exactly when it changed the set.
- The set keeps no count, so an `unsubscribe_kind(k)` right after
  `subscribe_kind(k)` leaves `k` unsubscribed when it was subscribed before.
  spec.md §8 (line 206) says the round trip restores the set. Every
  set-based implementation behaves this way, so no run states it; it is
  listed as a hazard.
- **`DisconnectSequenced`** (refinement). The composite implements
  `DisconnectSequencer`. A peer enters `peers_to_dc` only in two ways:
  - by a Goodbye it sent;
  - in the same step as the one goodbye to Any that `DisconnectPeer`
    returns.

  Every Shutdown(None) to All pops one entry. No other Shutdown is returned.
  Every entry is eventually popped, whatever the sub-behaviours queue ahead
  of it.
- **`SigintExits`** (liveness). After Ctrl-C the process exits, although
  the publisher's loop never returns. It exits because main stops waiting
  for the blocking pool after `shutdown_timeout`.
Each property of a passing run has a mutant in `PROJECT.json`. A mutant is a
plausible fault in the code, defined just before the operator it replaces,
that makes the property fail:

- the metadata reply answered with a Pong;
- the sentinel guard dropped from the outbound-failure path;
- a Ping left unanswered;
- the identify truncation removed;
- the globals left untouched by `unsubscribe` (wrapper), or the engine left
  untouched by it (core);
- the snapshot re-read after the unsubscribe loop;
- a publish that calls gossipsub for the first topic only;
- the head of `peers_to_dc` read but not popped;
- a shutdown that waits for the blocking pool;
- one swarm event handled per poll;
- an LRU that does not refresh on a hit.

## 4. Bounds, and why they are enough

**`mothra_core`.** The bounds are:

- one peer with two connections, so that *Any* and *All* differ;
- two substreams, so that two concurrent inbound requests and two Goodbyes can
  share a connection;
- one application id, distinct from the sentinel;
- all four inbound protocols and all six peer-manager commands;
- every gossipsub and identify output, with address counts 10 and 11 (on
  either side of the truncation boundary);
- `MaxInputs = 3` spontaneous inputs.

Reactions do not consume the budget. These are connection closes, outcomes
of outbound requests and application answers, so every started exchange can
finish.

Three inputs are enough for these cases:

- a connection plus two requests (the duplicate disconnect);
- a connection, a request and a loss (a closing race);
- a peer-manager command and two inbound requests arriving together.

They also reach the peer's two Goodbyes queued together, and a
`DisconnectPeer` meeting an inbound Goodbye, which `DisconnectSequenced`
needs. This run has about 377,000 distinct states and takes about 75
seconds.

**`gossip_subscriptions`.** Two kinds and two digests (four topics), five
application calls: enough for two subscriptions and a fork update, or a
subscribe and an unsubscribe around one. About 1,800 distinct states.

**`core_subscriptions`.** Two kinds, one message id, one peer and five
calls: a kind is subscribed twice, unsubscribed once and published around
that. About 1,700 distinct states.

**`rpc_wakeup`.** This run uses the bounds of `disconnect_queue_dup`. One
peer-manager `Ping` or `MetaData` is enough to reach the lost wake-up.

**`network_service`.** The bounds are:

- one peer, two message ids, a cache of one;
- three network inputs;
- two commands, each a `Send` or a `Publish` of zero, one or two topics
  (`Topic = {t1}`, `MaxTopics = 2`);
- no swarm errors.

Each wake-up registration is lost and found in both loops, and a publish
of several parts is interleaved with another message. About 270,000
states, under a minute.

**`wrapper_gossip`.** Three ids and a cache of two, five inputs: a duplicate
inside the window, an eviction and a re-delivery all fit. The publish shapes
do not matter to the cache, so `MaxTopics = 1`. One swarm error is allowed,
so this run also fires `SwarmError`. About 4.1 million states in just over
a minute.

**`example_app`.** `MaxGossip = 20` loop iterations. The count only records
how long the application ran, and every ordering of the two threads and the
user appears with any bound of at least one. The bound keeps the graph a
little larger; there are 142 states.

## 5. Fairness

`MothraBehaviour`'s `Spec` assumes only `WF_vars(PollStepScheduled)`. A poll
in progress runs to its return. A woken task is polled, because the swarm
polls again after every `Ready`. A poll starts only when the task is awake.
After `Pending` it waits for `EnvironmentWakes`, which has no fairness. So
the liveness properties hold only when the code itself schedules the work.

The `MothraBehaviour` cfgs, and `CoreSubscriptions`', say
`CHECK_DEADLOCK FALSE`. Once the inputs are spent and the task sleeps, the
system really stops. Work left undone at that point is caught by the liveness
properties.

Peers, the peer manager and the application get no fairness. They may stop
at any time. Handler reactions get no fairness either: connection close and
the outcome of a request are not guaranteed by the code in `src/`. The
liveness properties are therefore stated so that they are met either by the
behaviour's own steps or by the connection closing.

`NetworkService` and `CoreSubscriptions` keep a `TypeOK` that documents the
shape of their state. No run checks it, because no plausible change to the
code could break it.

`GossipSubscriptions` assumes weak fairness of its steps while
`pc # "idle"`: `update_fork_version` is one synchronous call that runs to its
end. `NetworkService` assumes `WF_vars(TaskStep)`: an executor polls a task
that has been notified, and a poll in progress runs to its return. The
application, the network and the exit signal get no fairness.

`ExampleApp` assumes weak fairness of main's own steps (startup, the return
of `block_on` after Ctrl-C, the expiry of `shutdown_timeout`, and a Runtime
drop that has nothing left to wait for). It also
assumes weak fairness of `Mothra::new` on the blocking pool. Failing to
listen for the signal is a possible outcome, never an obligation, so it has
no fairness. The user may never press Ctrl-C. Its cfgs say
`CHECK_DEADLOCK FALSE`, because the process really ends.

## 6. Not modelled yet, and the plan

These are in order of importance:

1. **Metadata/ping snapshot** (`behaviour/mod.rs:257-259`). The behaviour
   copies the globals' metadata once. Nothing in the sources writes it
   afterwards (the update at line 399 is commented out), so the copy cannot
   go stale in this code.
2. **Request/Response conversions** (`behaviour/mod.rs:679-722`). Each one
   renames an enum variant and keeps the payload bytes. With payloads
   abstracted to the protocol name, nothing is left to check.
3. **Cancellation after an inbound failure** (`behaviour/mod.rs:491`).
   spec.md §5 and §7 leave stopping the work to the embedder. Inbound
   errors reach only the peer manager, and the late response is dropped by
   the handler, which is not under `src/`. No consequence is visible in the
   sources.
4. **Direct use of the service mutex** (`network.rs:51`), which queues work
   without waking the task; no caller in the sources does it.

The rest of the globals (`globals.rs`) are read-only accessors of values set
at construction or of the peer DB, which is outside the sources. The wrapper's
identify and discovery handlers change no state. The core behaviour's ENR
and discovery accessors, `peer_banned` and `update_metadata` change no state
in the sources: they are no-ops, or their body is commented out. The
wrapper's `propagate_message` and its discovery delegations only forward to
crates outside the sources, and nothing in the sources calls them. The
example application's `Subscriber` callbacks only print.
