# Interplex: a verification development

Interplex connects peers by way of rendezvous servers: a node registers its
addresses with a server for a limited time, finds other nodes through it, and
registers again before its time is over. This directory holds TLA+ modules that
model that protocol's two ends, the server's store, the two ends together over a
network, and the event loop a node runs the client in; TLC configurations that
check them on small instances; and proofs, checked by TLAPS, of what holds for
every instance. `PROJECT.json` maps every definition to the lines it models.

## The system

| component | source | state | operations |
|---|---|---|---|
| identities and keys | `interplex_common/src/identification.rs` | none | `group()`, `key()` |
| messages | `rendezvous/message.rs` | none | five commands, their responses |
| registration store | `rendezvous/registrations.rs` | two LMDB databases: registrations by locator key, and an index of expirations by second | `register`, `deregister`, `poll`, `discover`, `get`, `groups` |
| rendezvous server | `rendezvous/server.rs` | the store, a lifetime, libp2p's request queue | `poll` (expirations first, then one request), `handle_request` |
| rendezvous client | `rendezvous/client.rs` | requests under way, known peers, rendezvous nodes it is registered at, two sets of timers, external addresses | five requests, `on_swarm_event`, `poll` |
| network event loop | `interplex/src/network.rs` | the swarm, streams, topics, rendezvous points and peers, each behind an async mutex | the `select!` loop and the handlers it spawns |
| node handle | `interplex/src/node.rs`, `netwrapper.rs` | command and event channels (`ipc.rs`) | unfinished |
| server binary | `bin/interplex_rendezvous` | command line, key file | starts the server with `--ttl` hours |
| test client, errors | `bin/test_rdv_client`, `error.rs` | none | none |

How they interact. The node's commands travel over a channel to the event loop,
which calls the client behaviour inside the swarm. The client sends requests
through libp2p's request-response behaviour, which gives each request exactly
one outcome, in any order: a response, or a failure (no connection, timeout,
closed connection). On the other side the server's `poll` takes requests one by
one, runs each as one LMDB transaction, and hands the response to the channel
of the request. Expiry is found on both sides separately: the server compares
the oldest index entry with its clock whenever it is polled, the client sets a
timer for each entry of its two tables.

What is hard here:

* the two databases of the store must move together, and `deregister` touches
  only one of them;
* expirations, requests, closing connections and crashes interleave at the
  server, and expirations go first;
* on the client the timers of renewed entries stay behind and fire later; a Uuid
  tells the current timer from them;
* a client and a server each have an opinion on who is registered, and responses
  may be lost, late, or overtaken by later calls;
* the event loop runs every event and command in a task of its own, holds several
  locks across awaits, and aborts the tasks wherever they are when it is left.

What makes each part correct:

* store: what is registered is filed under its own key and can be found by the
  expiry scan, within one second as across seconds;
* server: the store holds what was accepted last and changes only as the request
  that is being handled says, Discover answers exactly what the source may see,
  every request is answered, expiry concerns only registrations that were not
  refreshed;
* client: an entry lapses when its current content says so, not earlier and not
  never; every request is reported on with an event;
* client and server together: a node that believes to be registered is, for at
  least as long as it believes, unless somebody deregistered it, and no expiry is
  announced before the time that a response promised;
* event loop: unless the loop is left, every command is answered and every event
  handled, through any order of the tasks; the node registers with its rendezvous
  nodes, none of which it forgets, and what the user was told of streams is what
  the table holds.

## Modules

* `Clock`: `Utc::now()` as a counter of ticks, shared by all parts, and the
  conversion to whole seconds the index uses. `MaxNow` bounds it.
* `Identification`, `Message`: the data. A name is the sequence of its
  "/"-separated segments, so that joining names into a key is `\o` and a prefix
  scan is `IsPrefix`, with the ambiguities the program has.
* `Registrations`: the store. `rdb` and `edb` are the two databases; each
  writing operation is one step, as it is one transaction under LMDB's writer
  lock. `poll` is three actions: it announces a registration, drops an entry
  that has none, or finds nothing.
* `Directory`: the abstract directory that the server implements: what it holds
  changes only by a request that is in `asked`, to what that request says.
  `RendezvousServer` maps both: `Published` reads the directory off the store,
  and `AskedOfDirectory` is the request that `handle_request` is about to
  handle. So a step in which `poll` removes a registration, or a renewal keeps an
  old field, is not a step of the directory.
* `RendezvousServer` extends `Registrations` with the process: `phase` is the
  half of `poll` that comes next, `inbox` libp2p's queue, `closed` the requests
  whose response channel is gone. Crash and restart keep the store only. The
  history `accepted` records what was asked and accepted last under each key.
* `RendezvousClient`: one client. Names are those of the struct's fields;
  `turn` is the part of `poll` that comes next. A new timer first runs when it is
  polled, and takes its delay from the clock then, as the `async` blocks do.
* `Leases`: the abstract lease table. Both tables of the client implement it,
  with the deadline taken from the content of the entry.
* `Rendezvous` extends the client's and the server's module: one client, the
  server, other nodes, and between them `wire`, the requests under way. A request
  may never arrive, arrive late or overtaken; its response goes back to it, as
  each request has a substream of its own, in any order with others, or is given
  up. `origin` matches the two sides' request ids. All that is nondeterministic in
  either module's environment is replaced by the other module, except failures,
  the clock, crashes and other nodes' requests. `Self` is the client's identity and
  `StrangerRequests` what other nodes ask. Since `handle_request` ignores which peer
  the connection is with, their requests may carry any identity, the client's own
  among them. The history `withdrawn` remembers which requests were answered
  before the last Deregister under the client's key, whoever sent it.
* `EventLoop`: one node's loop and its tasks (`network.rs`, `ipc.rs`). `loop` is
  where the loop is, `tasks` the tasks it spawned, each with its job and the lock
  it is at. A tokio mutex is the queue of those who called `lock()`; its head owns
  it. A handler is one step from its last lock to its end, except where it awaits
  something else: there it stays, with its locks. The commands are effects, and
  `HandleCommand` adds what they have in common, the locks and the response.
  `CloseStream` is two steps, as the code awaits `close()` between taking the stream
  out of the table (`StartsClosing`) and announcing it (`Closes`). The loop is left
  by `OnExit`, `AcceptFails` (`accept(...)?`) and `Panics` (the client panics
  while the loop polls it); `Leave` is the drop of the JoinSet that follows.
  Of the rendezvous client it has what decides where the node is registered:
  `registers` and `withdrawals` under way, the table `registered`, and
  `AddressesChange`, which registers again at every node of that table. The
  histories `outrun`, `missed` and `broken` hold what the properties have to
  name: points removed while a Register was under way, points whose attempt or
  registration ended, and streams whose `close()` failed or was aborted.
* `MC...`: instances.
* `IdentificationProofs` (lemmas about keys), `RegistrationsProofs`,
  `RendezvousServerProofs`, `RendezvousClientProofs`, `RendezvousProofs`,
  `EventLoopProofs`: the proofs about the modules they are named after.

Operators introduced as mistakes are not part of a specification; each is a
plausible variant of the definition after it and shows that a property can fail.

## Runs

| run | question | instance |
|---|---|---|
| `registrations` | do the two databases stay in step? | two peers, one of them with two identities of one key; two lifetimes; two ticks to a second; 6 ticks |
| `server` | does the store hold what was accepted last, is it a directory, do overdue entries drain and are requests behind them answered, through everything that goes wrong? | one node with two identities of one key, lifetimes 0 and 1, 3 requests, 3 ticks, failing transactions, crashes, restarts with the other lifetime |
| `server_discovery` | does the prefix scan find exactly the visible peers? | five identities, one of them hidden, two namespaces, two groups, both spellings of the default group, 3 requests |
| `client` | are both tables leases, does each entry keep its timer and lapse, is every request reported on with an event? | one peer in two groups, one server, 2 requests among them Find, 3 ticks |
| `rendezvous` | is a client that believes to be registered backed by the server, are promises kept, and is the client alone checked against enough? | one client, which also looks itself up; another node that deregisters as the client; 2 requests each side, 3 ticks, two to a second, crashes and failing transactions |
| `event_loop` | is every command answered, and once, every event handled, every rendezvous node and stream accounted for, up to the moment the loop is left? | one remote, which is the rendezvous node and, once removed, a peer like any other; 9 commands of which any 2 are sent, 2 tasks at a time, 1 stream, 1 change of the network |

The bounds are small but let the cases happen that matter: two operations on one
key within one second and across a second; a leftover entry followed by a new
registration and its expiry (three requests); two responses about one peer with
different expirations, so that the older timer fires while the newer entry is
there; two registrations of one peer in one response; a renewal that overtakes
the registration before it, or whose response is lost while the server stores it;
a discovery whose expiry is handled first; a rendezvous node removed between its
connection and the task that registers, or while its Register is under way, and
registered at again when the addresses change; a loop that is left while a stream
is closing; a read that waits for a remote while another command waits for the
locks. In `event_loop`, two tasks are enough for a circle of waits, since there
are two locks. `Change` bounds what the network does of itself: a connection from
outside or one that closes, a failing dial or Discover, a stream that arrives, an
expiry, and a change of the addresses after the first. What follows from an
earlier step is not counted: the connection of a peer that was dialed, the answers
to queries, Registers and Deregisters, the first external address. Nor are events
without effect, so that the loop turns for ever. In `rendezvous`, what others register,
under the client's key or their own, is left to the proof, which allows every
request of others; the run has the foreign Deregister, which is what a belief can
break on. The
clock stops at `MaxNow`; liveness properties speak of entries that are overdue by
then. The registrations of `client` reach their expiry but do not pass it; those of
`rendezvous` and the store's runs do.

Six runs refute a statement of the repository; `PROJECT.json` quotes each.

* `server_expires_early`: register, deregister, register: the entry the first
  registration left in the index is overdue before the second is, and the server
  announces the expiry of a live registration.
* `server_expired_stays`: `poll` deletes under the key of the index entry instead
  of the locator key, so an expired registration is served forever. The two
  defects hide each other: with only this one repaired, a leftover entry would
  take out a live registration.
* `server_groups`: nodes without a group are stored under "default", which the
  Groups response leaves out.
* `server_nested_names`: "lab/" is a prefix of the keys of namespace "lab/ops".
  `DiscoverIsExact` is therefore checked for names of one segment.
* `server_closed_channel`: a request whose connection closes while it waits is
  handled, and sending its response panics.
* `rendezvous_expired_peer`: a client that finds a registration whose time is over
  when the new timer is first polled panics, since the remaining time is negative
  and `to_std()` fails before `max(0)` applies. A response that comes late is
  enough; since the store goes on serving what it expired, every later Find of such
  a registration does it, too.

What the passing runs show of the code as it is:

* `ImplementsClient` says that client and server together are a behaviour of the
  client alone, so that what `client` shows holds with the real server. It also
  fixes what a server may answer: a Register response can come long after the
  server gave it, hence with any earlier time.
* `ImplementsDirectory`: nothing but a request being handled changes what the
  server publishes, and it changes it to what the request says. Expiry, the
  cleaning of the index, merging, failing transactions and restarts are invisible.
* `RequestsAreReported`: every request that is under way later leaves
  `processing_requests` together with an event that carries its id.
* `BeliefIsBacked` excepts a belief that is `Revoked`: a Deregister under the client's
  key was carried out after the Register that the belief is from. It may be the
  client's own (`deregister()` forgets the node at once, and the response to an
  earlier Register brings it back) or another node's, which the server does not
  tell from the client. `PromisesAreKept` is stated for as long as there was no such
  Deregister. Both compare times only while the lifetime stays the same: `poll()`
  applies the running server's lifetime to all that is stored. A promise is kept
  up to the fraction of a second that the index rounds off; the run has two ticks to
  a second, so that half a second can be lost, and is.
* `CommandsAreAnswered` and `EventsAreHandled` are stated up to leaving the loop, in
  whichever of the three ways. In a loop that goes on there are three ways in which
  a command or event is left behind, all with the swarm locked: a task locks
  `peers` twice (`SelfLocked`); `open_stream()` to a peer without a connection needs
  the swarm its own task keeps (`AwaitsSwarm`); a read, write or close waits for the
  remote (`AwaitsRemote`).
* `CommandsAreHandledOnce`: a command that is not answered is in the channel or in
  one task, until the loop is left and aborts the tasks that have not answered. None
  is answered twice.
* `PointsAreRegisteredAt` names two exceptions. A node that the user removed while a
  Register was under way (`outrun`) may be registered at afterwards, and again when
  the addresses change, since its response brings it back into the client's
  table. And a rendezvous node may have been `missed`: its dial or Register failed,
  its connection came before the node had an external address, its registration
  expired, or the late answer to a Deregister took it out after it was added
  again. None of these is tried again.
* `StreamsAreAnnounced` names one: a stream whose `close()` failed, or was aborted
  with the loop, is removed silently (`broken`).
* The first discovery that names a peer is the hang `SelfLocked`, so that no peer is
  ever known and `ListPeers` is always empty. The code for known peers is
  modelled, but not reached at this commit.

## Fairness

* `FairServerSpec` has weak fairness on `Poll`. The server binary's loop polls
  its swarm forever; the autonat behaviour in it re-arms its own timers, so the
  task is woken even when no peer sends anything. It has strong fairness on the
  first half of `poll` succeeding: of the transactions begun over and over not
  all fail. While they do, the code announces one expiry for ever.
* `FairClientSpec` has weak fairness on `ClientPoll` (other behaviours of the
  node's swarm, such as ping, wake the task), on the timers, and on the outcomes
  of requests (libp2p times out every request). The client's own wake-up can be
  lost: when a timer of the past is polled, `poll` returns Pending although
  further timers may have fired. That only delays an expiry until the next
  wake-up, which the fairness assumes.
* `FairLoopSpec` has weak fairness on the loop's own steps and on each task's
  (tokio runs every task that can run, and its mutexes are fair), and on
  `OnSwarmEvent`: autonat probes at intervals whether there is a connection or
  not, so the swarm never falls silent. It has strong fairness on taking a command
  and on taking an inbound stream: `select!` looks at its branches in random
  order, so a branch that is ready in every turn is taken. Nothing is assumed of
  remotes: `Transfer`, `Closes` and a dial that succeeds are not fair. Nor are
  failures: that `accept()` may fail or the client panic is never what a property
  waits for.

The safety properties need no fairness.

## Proofs

### The store

`RegistrationsProofs` proves, for every set of nodes, addresses and lifetimes and
every resolution of the clock, that the store keeps its types
(`StoreTypeCorrect`), keeps every unexpired registration in the index
(`UnexpiredIndexed`) and never lets a leftover outlast the current entry
(`LeftoversOlder`). The assumptions are the named ones on the constants: nodes are
identifiers, lifetimes are not negative, a second has at least one tick.

The inductive invariant `StoreInv` is the conjunction of the three, and of
`FiledUnderOwnKey`, that a registration is filed under the key of the identity it
holds. They need one another: what `register` stores is built from what is stored
under the key, so it is filed right only if that was; a leftover entry of an
unregistered key becomes an entry of a registered one, so it is not younger only
because no entry is from the future, which is part of the types; dropping the
overdue entry of a registration is allowed because it then is overdue at every
later time (`OverdueStays`). `TimestampMonotone` and `MergeKeepsKey` carry the
arithmetic and the merging of identities. `EntriesAreNoKeys` shows that the delete
of `poll` touches no registration: an index key has two parts, a locator key at
least three.

### The server

`RendezvousServerProofs` extends these to the server's process, through failing
transactions, crashes and restarts with another lifetime. By
`ServerImplementsStore` every step of the server is one of the store or leaves
the databases alone, so the store's theorems carry over; `ProcessInv` is what the
queue and the request ids keep on top (`ServerTypeCorrect`).

* `ServerImplementsDirectory`: `RegisterIsServed` shows that a Register leaves under
  its key exactly what the request says, whatever was merged, for which the stored
  registration has to be filed under its own key; `DeregisterIsServed` that a
  Deregister removes that key and no other; `NextIsAsked` that the request being
  handled is the one the directory is asked. For all other steps nothing published
  changes, since the delete of `poll` finds no registration (`EntriesAreNoKeys`).
* `HoldsAccepted`: inductive together with the two invariants above. The step that
  needs them is `poll`'s: it deletes nothing that is registered
  (`EntriesAreNoKeys`), so cleaning the index never contradicts the history.
* `DiscoverExact` has a hypothesis, `OneSegmentNames`: namespaces and groups are
  single segments, as in the instance of `server_discovery`. Then keys have three
  segments and a prefix tells namespaces and groups apart. Without it the statement
  is false, which is what `server_nested_names` shows. `AcceptedUnderOwnKey` ties
  the node of the history to the key it is kept under.

### The client

`RendezvousClientProofs` proves types (`ClientTypeCorrect`), that each entry has
its timer (`EntriesAreTimed`), and that both tables refine `Leases` (`PeersLease`,
`PointsLease`), for every set of servers, whatever they answer and however late,
as long as the answer suits the request. `ClientInv` adds three things to the
properties:

* the Uuid of a timer belongs to a request that is over (`Spent`), so no later
  response draws it again; within one response a Uuid is told apart by the locator
  key, and a store holds one registration under each key (`Found`). This is
  what makes the Uuid tell the current timer from those left behind;
* a timer that fired is due (`FiredAreDue`), so the entry whose timer it is may
  lapse;
* a peer is filed under its own id, a timer names a holder of its table, and each
  outcome in the queue has a request of its own (`TablesInv`, `TimersInv`,
  `RequestsInv`).

### Client, network and server

`RendezvousProofs` composes the two, for any other nodes and whatever they ask.
`CompositionInv` is `ClientInv`, the server's invariants, and `NetworkInv`: what is
on the wire, in the server's queue or among the responses for the client is
something it asked for, or suits that. From it follow `ComposedClient` and
`ComposedServer`: each step of the composition is a step of the client alone and
one of the server alone, or a stutter. The first closes the circle for
`RendezvousClient`, whose environment is assumed there and supplied here: what it
is proved against is all that this server can answer.

`BeliefBacked` and `PromisesKept` rest on two more invariants, which TLC checked
on the instance of `rendezvous` before they were proved:

* `PromisesInv` follows a promise from the response through the queue of outcomes
  into `rendezvous_points`. `Promised` holds of a request under every step until it
  is in `withdrawn`: a request under another key leaves the entry alone; whoever
  registers under the client's only moves the expiry on; a Deregister under it
  puts every answered request into `withdrawn`; and the delete of `poll` finds no
  registration;
* `OwnEntryInv`: until somebody withdraws it, the client's key has one entry in the
  index, the current one. `register` takes the previous one out because the entry is
  filed under the second of `last_registration`, which is what it looks for.

An expiry announced for the client's key is thus that of the current entry, and
`RoundedOff` bounds what the rounding to seconds loses, for every resolution.

### The event loop

`EventLoopProofs` proves the four safety properties of the loop for every set of
remotes, rendezvous nodes and commands, every bound, and every order of the
tasks, the three ways out of the loop included.

* `LoopTypeCorrect`: the inductive invariant `LoopInv` has the queues of the two
  locks as its core (`LocksInv`): the queue of the swarm holds those beyond their
  call of `lock()`, once each, and whoever is at the streams, closing one, or at
  `peers` owns it. A task that ends owns what it called for (`HandlersOwn`), so
  `Ends` leaves nobody behind; `QueueGrows` and `QueueShrinks` say what `lock()`
  and a dropped guard do to a queue. `BoundInv` counts the streams on their way
  with those opened, `RemotesInv` types the jobs of the tasks and what libp2p and the
  client hold. The invariant was checked by TLC on the instance of `event_loop` first.
* `StreamsAnnounced` needs that no event, no failed close and no close under way
  tells of a stream that is yet to be opened (`StreamInv`): a new stream would
  otherwise count as closed when it enters the table. `ToldOfOneMore` is what an event
  adds; `SpawnCloses`, `MoveCloses` and `EndCloses` what a task does to `Closing`.
* `PointsRegisteredAt` is inductive with the types. `SpawnAwaits`, `MoveAwaits` and
  `EndAwaits` say what a step does to the connections whose task is still to run: a
  point leaves `dialing` when such a task is spawned, and leaves those when the task
  ends and a Register is under way or missed. `PointsOfClient` treats the client's
  own steps: an address change registers only at nodes already attached, a Register
  that ends moves its node from `registers` to the table or to `missed`, and a
  node becomes one of `outrun` exactly when it is removed with a Register under way.
* `CommandsHandledOnce` is the safety half of `CommandsAreAnswered`, inductive
  given the types of the channel and of the tasks: the channel holds the latest
  commands in the order of the calls, so what was taken is an initial segment of
  the ids, and each of these has one task or an answer. `TakenFromChannel` says
  that the loop takes the next of them.

All four use the named assumption on the constants: bounds are natural numbers, the
rendezvous nodes are among the remotes, and a rendezvous node that a command names
is one of `Remotes`, which is the type of peer ids.

### Only model-checked

All liveness properties: `OverdueEntriesDrain` and `RequestsAreAnswered` of the
server, `EntriesLapse` and `RequestsAreReported` of the client,
`CommandsAreAnswered` and `EventsAreHandled` of the loop. They rest on fairness,
and on ENABLED, which are out of the prover's reach. Every safety property that a
passing run checks is also proved. The six refuted statements are counterexamples
and need no proof.

## Not modelled

* `node.rs` and `netwrapper.rs`: they do not compile at this commit
  (`Network::Stopped` does not exist), `start()` is a stub and
  `activate_network()` empty.
* What streams and floodsub messages carry, and the role of a stream.
* In `Rendezvous`: requests that reach a client (nothing sends them by itself; in
  `EventLoop` they are among the causes of `Panics`), the addresses of a registration
  that change while a Register is under way, two servers or two clients at once.
* In the store: an entry of the database that cannot be decoded (`rdb.get` in `poll`,
  `discover` and `get`); the server writes what it reads. The size at which LMDB's map
  is full.
* In `EventLoop`: which expiry each response carries, and the client's timers, which are
  `RendezvousClient`'s; only that a registration may end is there.
* The server binary's key file and listeners, the test client, the error values.
* Alias and metadata of a node, which are only copied; the dial addresses that
  `handle_pending_outbound_connection` reads; different clocks on the two sides.
* libp2p, heed and the timers are modelled from how the code uses them.

## Plan

1. Done: `Clock`, `Identification`, `Message`, `Registrations`, `Directory`,
   `RendezvousServer`, `Leases`, `RendezvousClient`, their runs, and the proofs
   about the store.
2. Done: `Rendezvous` and `EventLoop` with their runs.
3. Done: proofs of every safety property of the passing runs, for the store, the
   server, the client, their composition and the event loop.
4. Worth having: what the client announces as theorems of the composition
   (`PeersLease` and `PointsLease` follow from `ComposedClient`, and are about the
   same variables); a proof that a Discover response read by the composed client
   names only nodes the server accepted.
