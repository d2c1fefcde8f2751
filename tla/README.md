# A verification of skyring

Skyring is a distributed timer service. A client posts a timer to any node of a
cluster; the node that owns the timer's id on a consistent hash ring keeps it,
stores it, and calls a transport (http, tcp, zmq) when it expires. The ring is
kept by ringpop, a SWIM-style gossip membership protocol that is part of the
repository (`packages/ringpop`). When a node shuts down it hands its timers to
the others over NATS; when the ring grows a node hands over the timers it no
longer owns.

This directory holds TLA+ models of that code, the TLC configurations that check
them on small instances, and proofs, checked by TLAPS, that the main properties
hold for every value of the constants. Line numbers below are of the files under
`packages/`.

## 1. The system

### Components

| component | state | operations | how it meets the others |
|---|---|---|---|
| **Timer cache** `skyring/lib/timer.js` | a Map id → record with an armed `setTimeout`; a levelup store id → row; a nats subscription | `create`, `success`, `failure`, `cancel`, `kRemove`, `update`, `recover`, `rebalance`, `shutdown`, `watch`, `disconnect` | called by the HTTP routes and by nats; calls a transport, which calls `success` or `failure` back |
| **Transports** `skyring/lib/transports`, `tcp-transport`, `zmq-transport` | a registry; connection pools and sockets by address | load, `exec`, `shutdown` | called by a timeout; report to the cache |
| **Storage backends** memdown, leveldown, `scylladown` | rows | `put`, `del`, `batch`, read stream | called by the cache, answer asynchronously |
| **HTTP server and router** `skyring/lib/server` | routes with chains of middleware, open sockets | `listen`, `close`, `proxy`, `rebalance` on SIGUSR2, a request on its way through its chain | dispatches to the cache; asks the node who owns an id |
| **Node** `skyring/lib/server/node.js` | a ringpop instance | `join`, `handleOrProxy`, `owns`, `close` | between the server and ringpop |
| **Membership** `ringpop/lib/membership`, `lib/on_membership_event.js` | member list, local member | `update`, `set`, `makeChange`, `evict` | its events drive the four components below |
| **State transitions** `ringpop/lib/gossip/state_transitions.js` | one timer entry per address | schedule, cancel, enable, disable | suspect → faulty → tombstone → evicted |
| **Dissemination** `ringpop/lib/gossip/dissemination.js` | changes with piggyback counts | record, issue, full sync | fed by the membership, read by pings |
| **Hash ring** `ringpop/lib/ring` | servers, replica points in a red-black tree | add, remove, lookup | fed by the membership, read by every lookup |
| **Gossip** `ringpop/lib/gossip` | protocol period, iterator | ping, ping-req, suspicion | sends and applies changes |
| **Joiner** `ringpop/lib/gossip/joiner.js` | rounds of candidate nodes | join, retry, give up | its merged responses become the first member list |
| **Self eviction** `ringpop/lib/self-evict.js` | phase, hooks | `initiate` and its phases | a graceful shutdown: faulty, pings, hooks |
| **Request proxy** `ringpop/lib/request-proxy` | in-flight count, send objects | `proxyReq`, retries, `handleRequest`, back pressure | carries a request to the owner of a key |
| **Client** `ringpop/client.js`, `client_request.js`, `lib/middleware` | requests by id, the timer of the scan | request, answer, scan for wedged requests | carries pings, ping-reqs, joins and damp-reqs over TChannel |
| **Damper** `ringpop/lib/gossip/damper.js` | flappers, damped members, two timers; scores of the members | damp timer, damp-req subprotocol, expiration, decay | observes the updates of the membership, asks other nodes |
| **Healer** `ringpop/lib/partition_healing` | one loop with a timer, heals under way | `start`, `stop`, `heal` | discovers hosts, joins them, sends them changes |
| **Discovery** `ringpop/discover-providers.js`, `lib/backoff.js` | attempts and their delay | ask, retry, give up | its hosts are who the joiner and the healer ask |
| **Tracing** `ringpop/lib/trace`, `server/trace.js` | tracers by traced event, each with a sink, a listener, a timer | add, renew, remove, expire | operators ask for it; listens to the membership, sends to a log or another host |
| **Life of a node** `ringpop/index.js`, `lib/on_ringpop_event.js` | ready, destroyed | `bootstrap`, `destroy` | its events start and stop gossip, damper, healer |

### Interactions

* A request for an id: router → `proxy` middleware → `node.handleOrProxy` → the
  cache of this node, or the request proxy → the same route of another node.
* A timeout: `setTimeout` → `transport.exec` → `cache.success` or
  `cache.failure` → `kRemove` → store.
* A change of membership: ping, ping-req or join response →
  `membership.update`/`set` → `updated`/`set` event → state transitions,
  hash ring, dissemination, in this order → `ringChanged` → `rebalance`.
* A shutdown: `server.close` → `node.close` (self eviction) → `timers.shutdown`
  → nats request per timer → `watch` of some other node → `proxy` to its owner.

### What is hard about it

JavaScript runs one callback at a time, so nothing races inside a callback and
everything races between two. The behaviours a unit test hardly reaches:

* **Check, await, set.** `create` looks into the Map, waits for the store, and
  sets the Map; `kRemove` waits for the store and then reads the Map; `update`
  is one after the other. Executions, cancellations, other creates and
  recoveries of the same id come in between.
* **Store and memory.** The store may answer late, in another order than it was
  asked (leveldown works on a thread pool, scylladown on a network), or with an
  error; the process may die between a row and the record it stands for.
* **Late and repeated gossip.** Changes arrive late, twice and out of order,
  and race with the timeouts that the earlier changes set.
* **Operator actions.** Leave, rejoin, reap and a graceful shutdown disable and
  enable what is under way.
* **Timers and callbacks that outlive what they were set for.** Each of the gossip
  loop, the damper and the healer keeps a handle of one timer and is started and
  stopped by several callers. A callback that was under way when its loop was
  stopped finds, when it ends, a loop that was started again.
* **Lost answers.** A change is told a bounded number of times and then
  forgotten, heard or not; an inflight count has to come back to zero through
  time-outs, retries and answers that come too late.
* **Hand-over.** A timer leaves the Map of one node before the other one has
  it; acknowledgements come before anything is stored; two nodes may close at
  once; requests are retried.

`PROJECT.json` lists every such hazard at its line, with the properties that
would catch it going wrong.

### What makes the components correct

* Timer cache: Map and store agree when nothing is under way; a timer runs at
  most once; a cancelled timer never runs; no id is blocked for ever; every
  stored timer is resolved; an id has one timeout.
* Membership: beliefs only get newer, whatever the network does; only the node
  itself decides its own status; ring, rumors and timeouts follow the member
  list; every suspect is decided, every faulty member removed.
* Hand-over: a timer is at one node, and at least at one; rows of timers that
  moved are deleted; a shutdown ends.
* Dissemination: a change reaches everybody although each node drops it after a
  bounded number of tellings; the slots of full syncs are not lost.
* Joiner: one callback, enough hosts, nothing forgotten of what they said.
  Discovery: an attempt ends. Healer: a partition heals, and its own updates make nobody unpingable.
* Gossip: no member waits long for a ping, the loop goes on, and ends when it is
  stopped. Damper: flappers are asked about, damped members are let go again.
  Tracing: a tracer that listens ends some day, and who asks for one with a sink that exists is told.
* Self eviction: its phases in order, and an end. Hash ring: the owners depend on
  the servers only, not on the order in which they came.
* Router and request proxy: an answer per request, a true one, no request that goes
  round, an exact inflight count. Client: a callback per request, no place of the
  limit lost. Transports: what was given out is delivered before a pool is closed.

## 2. The models

| module | models |
|---|---|
| `TimerStore` | the cache of one node with its store, its transports and crashes of its process |
| `TimerStoreInv` | the inductive invariants behind its properties |
| `TimerStoreProofs` | proofs: what holds with any backend, what holds with an ordered one |
| `MCTimerStore` | its instances for TLC |
| `Membership` | one node's member list, state transitions, ring servers and pending changes, against any network |
| `MembershipInv`, `MembershipProofs` | its inductive invariant and the proofs |
| `MCMembership` | its instances for TLC |
| `Handoff` | several nodes: where each timer is kept, and how it gets from node to node over nats and the request proxy |
| `HandoffInv` | the inductive invariant under its properties, and the hand-over as `Custody` sees it |
| `Custody` | what hand-over promises: the abstract specification of `Handoff` |
| `HandoffProofs` | proofs about it |
| `MCHandoff` | its instances for TLC |
| `Joiner` | how a node joins: groups of bootstrap hosts, answers, retries, the merged list |
| `Dissemination` | several nodes: how changes spread by pings, ping-reqs and full syncs |
| `Healer` | two sides of a partition and the node that heals it |
| `ViewProofs` | proofs about `Joiner`, `Dissemination` and `Healer` |
| `Lifecycle` | bootstrap and destruction of a ringpop instance; extended by `Gossip`, `Damper`, `SelfEvict`, by `Healer` and by `TracerStore` |
| `Gossip` | the gossip loop of a node: timers, rounds, the iterator |
| `Damper` | flap damping of a node |
| `SelfEvict` | a node's eviction of itself |
| `LoopProofs` | proofs about `Gossip`, `Damper`, `SelfEvict` and `TracerStore` |
| `RBTree`, `HashRing` | the red-black tree, and the ring built on it |
| `Ring` | what a ring promises: the abstract specification of `HashRing` |
| `RingProofs` | proofs about `RBTree` and `HashRing` |
| `TracerStore` | the tracers of a node, from an operator's request to their expiry |
| `Service`, `ServiceProofs` | HTTP requests through the routers and request proxies of several nodes |
| `ClientRequests` | requests between ringpop nodes: limit, wedged requests, tombstone middleware |
| `Transports` | deliveries over http, callback, tcp and zmq, with the pools and the shutdown |
| `TrafficProofs` | proofs about `ClientRequests` and `Transports` |
| `Discovery` | discover providers and the backoff |
| `MCViews` | instance of `Dissemination`, `Joiner`, `Healer` |
| `MCNode` | instance of `Gossip`, `Damper`, `SelfEvict`, `HashRing`, `TracerStore` |
| `MCTraffic` | instance of `Service`, `ClientRequests`, `Transports`, `Discovery` |

The modules that interact through shared state are one specification:
`Membership` holds member list, transitions, ring and rumors, which the code
updates in one callback; `Handoff` composes caches, rings, nats and proxies;
`Service` composes routers, proxies and rings. Those that meet only
through a call whose outcome may be anything are apart: `Gossip` does not look at
what a ping carries, `Dissemination` not at when it is sent.

`MCViews`, `MCNode` and `MCTraffic` each check several modules in one run.
Their parts have no variable in common, except that `Gossip`, `Damper`, `SelfEvict`,
`Healer` and `TracerStore` read the life of the node. A variable `part`, chosen once, names the
part that moves; the others stay where they started, and what is shared is moved by
the part that reads it. Such a run has the sum of the parts' states,
not their product, and says of each part what a run of its own would say: an
invariant of a resting part is checked in its initial state, and its fairness
asks for nothing, because what a resting part waits for has not begun.

Operators whose comment begins with *Faulty variant* are not part of the
specifications. Each is a plausible mistake in the definition that follows it;
with it in that definition's place some property must fail, which shows that
the property depends on the code. `PROJECT.json` pairs them ("mutants").

### TimerStore

One action is one callback. A call of the store takes three: it is issued,
the backend applies it, it is called back; other callbacks run in between. Time
is abstract: an armed timeout may fire in any later state, which covers every
timeout value and every clock.

| TLA+ | code |
|---|---|
| `timers`, `armed` | the Map; records whose `setTimeout` is pending. They are apart because a record may outlive its timeout, and a timeout its record |
| `disk`, `stage`, `ahead` | the store, the calls in flight, and which call was issued before which |
| `immediate`, `execs`, `resuming` | `setImmediate` of a late execution; executions a transport has not answered; updates between their two halves |
| `scan` | rows the read stream of `recover` has yet to deliver |
| `Create`, `Post`, `PutDone` | `create` 163–242 up to the put, the POST handler, the put's callback |
| `Cancel`, `Update`, `Resume` | `cancel` 302–314, `update` 437–443 and its second half |
| `DelDone`, `DelMissed` | the callback of `kRemove` 316–338, with and without a record |
| `Fire`, `FireLate`, `Finish` | a timeout, a late execution (183–203), `success`/`failure` 251–293 |
| `Apply`, `Fault`, `MayApply` | the backend: applies a call, fails it, in which order |
| `Crash`, `Restart`, `RecoverRow`, `Recovered` | the process dies; `recover` 386–413 |

A *body* stands for what one POST or PUT submits: two requests with equal
content are two bodies, so "this timer ran" has a meaning when an id is reused.
`removedBy`, `ran` and `spoiled` are history: which caller of `kRemove` took a
body out of the Map, which bodies were handed to a transport since the process
started, for which ids the store failed to delete a row.

`Ordered` says whether the backend completes the calls of one key in the order
they were issued. memdown does; leveldown and scylladown do not promise it. What
the backend applied survives a crash: that is leveldown and scylladown. With
memdown a crash loses every row, which is the start of the system again.

### Membership

One node, and a network that may deliver any batch of changes at any time:
anything another implementation of the protocol, a late packet or a duplicate
could say, except that nobody knows an incarnation of this node that it never
had. A property of the node against this network holds in every cluster.

| TLA+ | code |
|---|---|
| `members`, `timers`, `enabled` | `membersByAddress`; the entries and the flag of the state transitions. An entry stays, spent, when its timeout has fired (`live`), as in the code |
| `ring`, `rumors` | servers of the hash ring; changes of the dissemination |
| `clock` | `Date.now()`, which incarnations of this node are taken from; it may stand still |
| `Apply`, `ShouldProcess`, `Newer` | `membership.update` 375–436, `Member.shouldProcessGossip` |
| `Announce` = `Schedule`, `RingAfter` | the `updated` handlers: state transitions, ring, dissemination |
| `Bootstrap`, `Joined` | `makeLocalAlive` before the join; `set` 329–373 after it |
| `Update`, `Suspect` | a batch from a ping or a full sync; ping-reqs that failed |
| `SuspectToFaulty`, `FaultyToTombstone`, `TombstoneToEvict` | the three timeouts |
| `Leave`, `Rejoin`, `Reap`, `SelfEvict` | `/admin/member/*` and a graceful shutdown |
| `Forget` | a change that was piggybacked often enough |

### Handoff

Several nodes, each with a ring of its own that may differ from the others'. The
finer steps of a cache are in `TimerStore`; here a call of the store is issued and
later completed, in order. A timer is created once, by one POST with an id of its
own, since what matters is where it goes from there. The module has no ids on a
circle either: `Rank` says how far each node is clockwise from each timer.

| TLA+ | code |
|---|---|
| `life` | how far a node is on its way out: self eviction, draining of the channel, destruction of the ring, shutdown of the cache, each waits for the one before |
| `view`, `Lookup` | servers of the node's ring; `RingPop.lookup` 500–519, which answers with the node itself when the ring is empty |
| `held`, `armed`, `running`, `rows`, `calls` | the Map, its timeouts, transports at work, the store, its calls in flight |
| `handed`, `awaited`, `asks`, `replies` | `shutdown` 470–526: the batch of deletes, the replies it counts, nats requests and replies under way |
| `posts` | requests of the proxies: `send.js`, and `handleRequest` at the other end |
| `Take`, `Create` | the middleware of POST /timer: create here, or proxy to the owner |
| `Submit` | a client's POST |
| `Rebalance` | `rebalance` 340–384 |
| `Send`, `Refuse`, `Timeout`, `Reattempt` | `send.js`: a first connection, the errors that are retried, a retry with a new lookup |
| `Arrive`, `Answered` | `handleRequest` 207–318, which refuses a sender with another ring |
| `LearnGone`, `LearnUp`, `Doubt` | what `Membership` does to the ring |
| `Evict`, `Drain`, `Destroy`, `Shutdown`, `Disconnect`, `Reply` | `server.close`, `node.close`, `timers.shutdown` |
| `RouteAsk`, `HandleAsk` | the nats queue group; `watch` 534–543 |
| `Crash`, `Start` | the process dies; `recover`, then `join` |

`Custody` knows keepers only: a node, or a request or question that has the timer. A
timer is submitted to one keeper, passed from its one keeper to another, never from
node to node without a message, and is never back once it is gone. The refinement
mapping (`Keepers` of `HandoffInv`) counts as a node's what it has in the Map, has a
put under way for, or would recover: a row without a call, that was not handed over.
The promise ends with the first crash or time-out (`Calm`).

A request that timed out stays in `posts` as one whose answer nobody hears, next to
the retry of it. A node learns that another one has gone as soon as that one
evicted itself, or any time later.

### Joiner

One node that joins, against bootstrap hosts that answer at any time, with any list,
or fail. The answers of a group come back one by one; the group is complete when
all have, or enough; the answers that are still out then come later and are heard by
nobody. The join calls its callback once for success, for the time that is over, or
for its destruction.

| TLA+ | code |
|---|---|
| `phase` | idle, waiting for a group, waiting for the delay, over (the two flags `calledBack`, the timer of 316) |
| `round`, `Round` | `roundPreferredNodes` and `roundNonPreferredNodes`; `init` 153–165, which refills them without those who joined |
| `Groups`, `JoinGroup` | `selectGroup` 412–450, `joinGroup` 324–338; the random choice is `\E` |
| `flying`, `answered`, `refused` | requests that are out, `nodesJoined` and `nodesFailed` of the group |
| `joined`, `count` | `nodesJoined` and `numJoined` of the join, which the code counts apart |
| `Answer`, `Refuse`, `Collect`, `GroupDone` | the callback of a request 391–409, of a node 340–374, of a group 200–321 |
| `responses`, `Merge`, `MergeChangesets` | `joinResponses`; `join-response-merge.js`, `merge.js` |
| `NextGroup`, `Expire`, `Destroy` | the delay ends; `maxJoinDuration` passes; the node is destroyed |
| `told` | history: what each host answered last |

A member list is a function from addresses to incarnations. Statuses are left out: the
merge does not look at them, so of two answers with one incarnation the first wins.
`JoinerAssumption` says what the code presumes: a bootstrap list with somebody else in
it and a join size above 0. A list of nothing but this node several times, or a
join size of 0, makes a group of nobody, and a join that never calls back.

### Dissemination

Several nodes that ping each other. What a node believes of a watched member is a
*version*: unknown, alive, faulty, tombstone, alive again, in the order in which
`Member.shouldProcessGossip` lets one override the other; that a suspicion becomes
a fault is in `Membership`.

| TLA+ | code |
|---|---|
| `node` | per node: its beliefs, the changes it tells with their source and count, `maxPiggybackCount` |
| `calls` | pings and ping-reqs, from the request to the end on both sides; the caller may give up while the other side works |
| `syncs`, `jobs` | reverse full syncs, and `reverseFullSyncJobs` |
| `Declare`, `Learn` | news a node finds out; `membership.update` with its handlers |
| `Unfiltered`, `Issued`, `Spent`, `Drop`, `Bump` | `_issueAs` 175–219, `issueAsSender`, `issueAsReceiver`: what is told, what is dropped, when a telling counts |
| `FullSync`, `Reply` | the whole list as an answer when there is nothing to tell and the checksums differ |
| `Ping`, `HandlePing`, `HandlePingReq`, `Deliver`, `RefuseCall`, `Fail`, `Timeout` | `ping-sender.js`, `ping-req-sender.js`, `server/protocol` |
| `Sync`, `AnswerSync`, `FailSync`, `EndSync` | `reverseFullSync` and the join request it makes |
| `Restart`, `BootstrapNode` | a node that comes back without beliefs, and takes the list of another |

### Healer

The sides of a partition have a view each, since the members of one side agree. One
node heals, by its loop or at an operator's request.

| TLA+ | code |
|---|---|
| `view` | status and incarnation of every host, on each side |
| `healTimer`, `healArmed`, `healStopped` | the handle, the timers that will fire, `isStopped` of `discover_provider_healer.js` |
| `heals` | heals under way: hosts yet to try, failures, the target and its list, the changes already sent |
| `StartHealing`, `StopHealing`, `RunHeal`, `SkipHeal`, `AdminHeal` | the loop 58–93, the dice, the admin endpoint |
| `Discovered`, `JoinHandled`, `JoinAnswered`, `ChangesHandled`, `FailHeal` | `heal` 108–197, `attemptHeal` (`healer.js`) and its requests |
| `syncing`, `MayFullSync`, `ReverseFullSync` | the target's answer to the ping that carries the changes (`ping.js` 65–73): with nothing to tell and another checksum it joins the healer and applies its list (`dissemination.js` 116–147, 221–286) |
| `Applied`, `WouldBecomeUnpingable`, `Suspected` | `membership.update` with the refutation of a host about itself, `nodeWouldBecomeUnPingable`, `generateChanges` |
| `Contact`, `Refute`, `Suspect`, `SuspicionExpires` | gossip between pingable hosts; a host that hears of its suspicion; one that does not answer a ping, and one that does not refute in time |

### Lifecycle, Gossip, Damper, SelfEvict

A timer is a token. A handle (`handle`, `damper.timer`, `healTimer`) and the set of
timers that will fire (`armed`) are apart, since the code overwrites and forgets
handles.

| TLA+ | code |
|---|---|
| `Bootstrap`, `BootstrapFails`, `JoinDone`, `DestroyNode` | `index.js` 223–394; what starts and stops with them (`on_ringpop_event.js`) is a parameter |
| `Gossip`: `order`, `index`, `NextShuffling` | `membership/iterator.js` with the shuffle at the end of a turn |
| `GossipTimer`, `AdminTick`, `BeginRound`, `EndRound` | `run` and `tick` of `gossip/index.js`, `isPinging` |
| `PingFails`, `HelperFails`, `HelpersDecide` | ping-reqs to helpers |
| `Damper`: `SetMembers`, `ChangeStatus` | the list a node gets when it becomes ready, before which updates are only stashed (`membership/index.js` 329–391); who can be pinged |
| `score`, `Update`, `Decay` | damp scores of `member.js`, the decayer |
| `AddFlapper`, `DampTimer`, `DampReqAnswered`, `DampReqFailed`, `Continue` | flappers and the subprotocol, which schedules the next run when it ends |
| `ToDamp`, `DampMembers`, `Damped`, `Expire` | who is damped by the answers, for a time |
| `EvictMember`, `CreateMember` | members that leave the list and come back |
| `SelfEvict`: `Initiate`, `RunHooks`, `HookDone`, `Evict`, `AfterPing`, `PostEvict`, `Done` | `self-evict.js`; `left` is the count of the pending `_.after` |

### TracerStore

One traced event, which is all the code has. A tracer is known by the request that
made it; what it sends is left out.

| TLA+ | code |
|---|---|
| `requests`, `Told` | who waits for the next `'add'` the store emits (`once`, 56): all at once, whoever caused it |
| `tracers`, `store` | each tracer that was made; the list of those that are in the store |
| `traceTicks`, `TraceTick` | what `process.nextTick` has in hand, in order |
| `AddTracer`, `Matching`, `IndexOf`, `Defaulted` | `add` 52–99: refused, renewed, or new and checked once more; `matches` looks at options without their defaults, the constructor fills them in |
| `SinkTypes` | `types.js`: a sink of another type has no constructor, and `add` throws |
| `Connected`, `SinkIdentified` | `onConnect` 83–92; a log is connected on the next tick, a host when the channel has identified it, or fails |
| `RemoveTracer`, `TakeOut`, `Expiring`, `ExpireTracer` | `remove` 101–122 with both `disconnectSink`s, `_updateExpiration` 141–155 |
| `DestroyTracers` | `destroy` 157–163 of a store that was never used; see below for one that was |

### RBTree, HashRing, Ring

`RBTree` has the code's top-down insertion and removal, pass by pass: a walk is a
function of the number of its passes (`InsertStep`, `RemoveStep`), defined up to more of
them than it needs; that they are over by then is proved (`InsertFits`, `RemoveWalked`).
A node is known by its key; where `remove` copies a key from one node into another,
`Splice` renames the node. `HashRing` has the servers with
their replica points, additions and removals one by one and in lists, `lookup` and
`lookupN`. The hash function is any table of numbers. `Ring` knows of no tree: the
owners of a key are the servers in the order in which a walk from the key's hash
meets their first points. `HashRing` implements it (`RingImplements`, the
refinement mapping is the identity on `servers`, `checksum` and `found`). Every server
has a point at least (`HashRingAssumption`): `replicaPoints` is `options.replicaPoints || 100`,
which is never 0.

### Service

A *task* is a request in the hands of one node, at one stage of its chain. The owner of
a timer is the nearest server of a node's ring; the rings of the nodes may differ.

| TLA+ | code |
|---|---|
| `Stack`, `Following`, `Api` | the chains of `server/api`: methods, order of the middleware, where a request ends early |
| `Submit`, `ReadBody`, `Validate`, `Route`, `Handled` | `router.js`, `route.js` and the middleware `json`, `validate`, `proxy`, the handler |
| `Local`, `Sent`, `Send`, `OnWire`, `Deliver`, `OnProxy` | `handleOrProxy`, `send.js`, `handleRequest` 207–318 |
| `Timeout`, `Reattempt`, `turned` | the errors that are retried, a retry with a new lookup, whether the ring changed after the lookup |
| `Increment`, `Decrement`, `TooMany`, `Sample` | the inflight count 320–343 with its corrections, `backpressureEnabled`, the lag of the event loop |
| `ChangeRing`, `Stop` | the membership, a node that stops with requests in hand |

### ClientRequests, Transports, Discovery

| TLA+ | code |
|---|---|
| `calls[c].stage` | a request from `_request` over the identification of the peer to the answer; `canceled`, `calledBack` and `scans` are the flags of `client_request.js` |
| `RequestCall`, `NextTick`, `Identified`, `HandleCall`, `Responded` | `client.js` 174–217, `client_request.js` |
| `ScanForWedged`, `DestroyClient` | `client.js` 106–134, 199–210 |
| `PatchRequest`, `PatchAnswer` | `middleware/stack.js`, `tombstone.js` on both sides |
| `Transports`: `Loads` | `kLoad`: a name twice throws |
| `ExecHttp`, `RespondHttp`, `ExecZmq`, `ExecTcp`, `Acquire`, `Written` | `exec` of each transport; a pool lends a connection, the connection is written to |
| `BreakConnection`, `BreakSocket` | an error or close of a connection, also of one that is lent |
| `Shutdown`, `ShutSimple`, `ShutTcp`, `Drained` | the registry shuts the transports down one by one, tcp its pools one by one |
| `Discovery`: `Ask`, `Retry`, `DelayOver`, `MaxRetriesReached`, `Delays` | `retryDiscoverProvider`, `backoff.js` with its fuzz and its limits |

## 3. What the runs check

| run | question | result |
|---|---|---|
| `store` | ordered backend: do Map and store agree when nothing is in flight, does a cancelled timer stay cancelled, does a record block its id for ever, may a timer run twice between two crashes, is every stored timer executed, cancelled or replaced in the end, or being delivered to an endpoint that does not answer, through a crash and a failed call? | holds |
| `store_duplicate` | has an id one timeout at a time? | violated |
| `membership` | any network: do ring, rumors and timeouts follow the member list, do beliefs only get newer, is a watched suspect decided? | holds |
| `membership_suspect` | is every suspect decided? | violated |
| `handoff` | nodes that start, close, crash, are doubted and rebalance: does a timer pass from keeper to keeper as `Custody` has it, so that it has one at most, and has every row of a running node somebody who will delete it? | holds |
| `handoff_shutdown` | does a shutdown with several timers end, although requests time out, when another node stays? | holds |
| `handoff_lost` | does a timer survive when nodes move? | violated |
| `handoff_closing` | does a shutdown end when two nodes close together? | violated |
| `views` | gossip: do views converge through lost answers and restarts, is no change forgotten too early, no slot lost? Joining: hosts that answer early, late, with different lists or not at all. Healing: does a partition heal, by one loop, and does no update of a heal make a host unpingable that a side pings? | holds |
| `node` | gossip: is every member pinged soon, does the loop go on and end? Damping: do timers fit the sets, are flappers asked about, damped members let go? Eviction: phases in order, and an end? Tracing: has a tracer that listens a timer, does it go, is everybody answered? Ring: a red-black tree, and the owners of `Ring`? | holds |
| `damper_loops` | is there one chain of runs of the damper? | violated |
| `traffic` | service: are all requests answered, truly, do they go straight, is the inflight count exact? Clients: is every request called back, the limit kept, no tombstone lost? Transports: does a delivery end when its own endpoint answers, whatever the others do, and are pools drained before they are closed? Discovery: does it end? | holds |

The five violations are disagreements of the code with what its documentation,
comments or tests say of it:

1. **Two creates of one id** (`timer.js:172`). The id is looked up before the put
   and recorded in its callback. Two creates that overlap both answer 201 and arm
   a timeout each, one of which nothing can clear. The documentation speaks of "a
   unique Id", and a test expects `EKEYEXISTS`.
2. **A suspect for ever** (`state_transitions.js:114`). A suspect that is
   suspected again in a newer incarnation keeps the timeout of the old one, whose
   change is then rejected as old news. Nothing schedules another.
3. **A timer lost between two nodes** (`timer.js:538`). The node that gets a
   timer from nats replies before it takes it, and the sender deletes its row on
   the reply. When the receiver has not heard of the eviction yet (only some members
   are pinged about it, and pings get lost), the owner by its ring is the node
   that closed; no connection can be made, and such a failure is not retried. A
   test is named "should survive a nodes moving".
4. **A close that does not end** (`timer.js:505`). `shutdown` counts replies. Of two
   nodes that close together, the later one asks a queue group without
   subscribers, or one whose subscriber is unsubscribing.
5. **Two chains of damping runs** (`damper.js:513`). A comment says that no run is
   scheduled when the timer was stopped during a subprotocol. The code looks whether
   a timer is set: one that was stopped and started again is, and then two timers will
   fire, each of which starts a subprotocol, and the handle knows one of them. In
   the trace a node is bootstrapped, a member flaps, and while the subprotocol asks
   about it its score decays and rises again. `OneDampLoop` counts the timers that will
   fire and not the subprotocols: one that is still under way does no harm as
   long as it schedules nothing.

More was seen, and is stated in the modules without a run of its own:

* **The wrong timer is acknowledged** (`timer.js:251`;
  `TimerStore!DeliveredBeforeAcknowledged`). `success` knows the id only. If the timer
  was replaced while it was being executed, the new timer is removed, its timeout
  cleared, and a success event published for it.
* **A faulty member for ever** (`state_transitions.js:156`;
  `Membership!FaultyIsRemoved`). Leaving clears the timeouts of all members,
  rejoining schedules none of them again.
* **Success of a write that failed** (`tcp.js:21`; `Transports!SuccessIsDelivered`).
  The tcp transport reports success whatever the callback of the write says.
* **An answer without an HTTP status** (`response.js:40`; `Service!AnswersHaveStatus`).
  An error's `code` is used as the status also when it is a word, as in `EKEYEXISTS`.
  `traffic` leaves that refusal out: its requests are refused with `ENOENT`.
* `update` (`timer.js:437`) removes the old timer before `create` looks at the new
  body, and a refusal (unknown transport, or another create of the id came first)
  leaves the id without a timer.
* A proxied request takes its destination from one lookup and its checksum from the
  ring when it is sent (`send.js`): a change between the two lets it through
  to a node that is not the owner. This is the `turned` of `Service`, and the reason why
  `PassedOnAgainOnlyIfTurned` has its last word.
* **A tracer for ever** (`lib/trace/store.js:83`; `TracerStore!RemovedIsSilent`). A
  tracer that is removed while its sink connects begins to listen when it has, and
  its timer then looks for it in vain.
* **Two tracers of one sink** (`lib/trace/store.js:66`; `TracerStore!OneTracerPerSink`).
  `test/unit/trace-test.js:42` adds twice and "should end with one tracer". A sink whose name is left to
  the default matches none, and the timer of the second tracer removes the first.
* **A refusal that is not heard** (`lib/trace/store.js:56`; `TracerStore!RefusedIsTold`).
  Callers share one event: one whose options are refused may be told of the success of another.
* **A caller that is told nothing** (`lib/trace/store.js:69`). The type of the sink is not
  checked. With one that does not exist `add` throws after the callback was
  registered, and the callback stays until another addition is answered.
  `TracersComeAndGo` excepts such a caller.
* **No new tracer with `expiresAt`** (`lib/trace/store.js:70`). A new tracer checks its
  options a second time, when the constructor has filled in `expiresIn`, and having both
  is an error. Only a tracer that exists can be given an `expiresAt`.
* The tracer store's `destroy` takes each list of tracers for a tracer and throws once
  there is a list, also an empty one, and with it `RingPop.destroy` (`index.js:235`).
  `DestroyTracers` therefore has `~known` as its guard. A tracer that is renewed with
  an `expiresAt` that has passed gets no timer and stays; `TracersComeAndGo` excepts it.
* **A host that came back between a join and the merge** (`healer.js:82`). `attemptHeal`
  compares the two member lists as they were when the join was answered, and sends
  the result later. A host that both sides had as faulty at the time, which came back on the
  target's side and then failed on the other's, is made faulty on the target's side at
  once, without the suspicion that "nodes that need to be reincarnated" get. This is the
  `CameBack` of `HealKeepsPingable`, the only exception among the updates of a heal.
* **A full sync behind a heal** (`ping.js:68`; `Healer!HealBringsNoFaults`). The
  suspicions a heal sends name no source, "to prevent bi-directional full sync"
  (`healer.js:113`), and a heal should not merge while hosts have to reincarnate. But
  a suspicion the target has already changes nothing there: after two heals in a row, the
  second before the host has reincarnated, the target has nothing to tell, its
  checksum differs, and it takes over the healer's list, in which the host is
  faulty in the incarnation it is suspect in. It is then unpingable on both sides until it
  refutes. `HealKeepsPingable` speaks of the updates that are the heal's own.
* The pools of an address leave the map of the tcp transport when any connection
  of it breaks (`tcp.js:62`), with connections of theirs still lent; `shutdown`, which
  walks the map, does not wait for those. `DrainedBeforeClosed`
  claims nothing once a connection broke. The promise of a pool's `clear` is not
  waited for (`tcp.js:42`): what is closed is asked to close.
* A delivery by http has no timeout (`http.js:62`), see *Fairness*: an endpoint that never
  answers keeps the row and the record of its timer for ever.

### Bounds, and why they are enough

* *One id.* No step of `TimerStore` reads or writes two ids; the ids of a cache
  are as many independent copies of one. `MCTimerStore` submits every body under
  the same id. The proofs are for any set of ids.
* *Three bodies and one DELETE.* Every body is once a POST or a PUT, so
  three bodies and a DELETE give all interleavings of up to four client calls
  with executions, recoveries and each other: two callers of `kRemove` with a
  create between them is the deepest race the code has.
* *One crash, one failed call.* `MaxCrashes`, `MaxFaults`. A second crash finds
  the same kind of state as the first: the only thing that survives is `disk`.
* *One other address.* A step about one address touches nothing of another
  (lists, timers and ring are per address), so one other member is enough; the
  flag `enabled` is shared and is exercised with this one.
* *Three incarnations, two leaves.* `MaxInc` is the clock's end and the
  incarnations the network speaks of: a member can be older, equal and newer than
  a change, with room for one in between.

* *One timer and three nodes, or two timers and two nodes.* The copies of a timer are
  what `PassedOn` compares, and no step of `Handoff` relates two timers except a
  rebalance and a shutdown, which take all that a node has: `handoff_shutdown` has
  two. With three nodes a request can meet a third one, which neither the sender nor
  the receiver had in mind; the third starts late, so that rings grow too.
* *One rebalance, one doubt, one time-out, one crash, one start, one retry.*
  `MaxBalances`, `MaxDoubts`, `MaxTimeouts`, `MaxCrashes`, `MaxStarts`, `MaxRetries`.
  Each is enough for the step to meet every other one in any order; the default
  number of retries is 3, and each of them does what the first does.
  `handoff` has no time-outs and `handoff_shutdown` one.
* *`PassedOn` claims nothing after a crash or a time-out.* A process that dies
  between proxying its timers and deleting their rows has both when it comes back,
  and a request that timed out may have been executed. The code does not claim
  otherwise. That a connection between two nodes that run is reset, and the request
  sent again, is not modelled; it would be one more way to the same two copies.
* *Four bootstrap hosts, a join size of two, groups of up to four.* A first group
  has all four, so answers are left over when two have come. When fewer than two come
  back, the next group starts the round over with those that did not join: refusals
  lead to any number of rounds, without a bound, since a round leaves nothing behind
  but who joined. Two lists that disagree are enough for both ways of merging.

* *Three nodes, one watched member, three versions, two events* (`Dissemination`). An
  event is news, a time-out or a restart: two suffice for one of them to meet another
  in any order. Changes of two members meet only in a node's count of
  servers. Each node pings one other, in a ring, so news reach the third node only
  by being passed on; `Limit` is 1 or 2 tellings, so they are forgotten on the way.
* *One near and two far hosts, one heal, one reverse full sync at a time, one fault*
  (`Healer`). A reverse full sync is over before a second bootstrap begins.
  Two targets are what `FailHeal` and the choice of the next target need;
  `MaxHealTimers` of two leaves room for the second loop that must not be. Heals
  that overlap, and a host that fails during a heal, need two heals and two
  faults, which is millions of states: `HealsSpare` and `HealsInOneLoop` prove for any
  number of both what the run shows for one.
* *Three peers, two starts* (`Gossip`): enough for a loop that was stopped to meet
  one that was started, and for a member to be overtaken at a shuffle.
* *Three mates of which two flap, one stops being pingable, is evicted and comes back
  (`Fading`); two timers and subprotocols; one bootstrap* (`Damper`). With
  `MaxPercentage` 30 one damped member reaches the limit. Overlapping bootstraps meet
  the damper only in the list, which the first of them fills.
* *Three requests of operators* (`TracerStore`): two that add and one that removes or
  renews, each between any two steps of the others; a log and a host, an expiry that
  lies ahead, one that has passed and one that is refused, options that are refused at the second
  look, and a sink of a type that there is not.
* *Two hooks, one with a postEvict only in part, two members, two initiates*
  (`SelfEvict`): both an empty and a full round of hooks and of pings happen.
* *Three servers with three replicas, hashes that collide* between servers and
  within one (`HashRing`): up to nine points, so that every rotation happens.
* *Three nodes, one of them mortal and moving, two requests, one retry, a limit of
  one* (`Service`). The limit is met by the second request; the ring changes once
  under a request, between any two of its steps. One request is a PUT of any kind, a GET
  or a HEAD, the other a POST that is valid and must not be refused as malformed. The default number of retries is 3; each does
  what the first does.
* *Two calls, a limit of one* (`ClientRequests`): refused, wedged and late ones.
* *Three jobs, pools of one connection, one error* (`Transports`): one waits for the
  connection of another; two addresses, so that `shutdown` has two pools to visit.
* *Delays of 2 to 7, limits of no, two or any retries and of 5 or 9 ticks*
  (`Discovery`): each limit is met first by some behaviour, the maximum delay
  within the fuzz of the third attempt.

Runs say `CHECK_DEADLOCK FALSE` because the systems may stop: a cache whose
requests are all served and a cluster in which nobody speaks rest for ever.

### Fairness

* `TimerStore!FairSpec`: the event loop runs each callback that is due, the
  backend applies and answers each call, and an armed timeout fires. Weak fairness per
  callback is what an event loop gives.
  Nothing is assumed of clients, of crashes, of whoever restarts the process, or of
  the endpoints: `http.js` 62–66 sets no timeout, and needle's own covers the
  connection only, so an endpoint that accepts a delivery and never answers keeps it
  under way for ever. `StoredTimerResolved` excuses a process that is down and a
  delivery under way.
* `Membership!FairSpec`: a timeout that is set fires. Nothing is assumed of the
  network, of operators or of the clock, not even that anything arrives.

* `Handoff!FairSpec`: calls of the store complete, replies and requests of nats and
  of the proxies are processed, and a node that has begun to close takes its next
  step when it is due. Nothing is assumed of clients, of crashes and starts, or of
  what nodes learn of each other. `handoff_shutdown` lets only one node leave:
  the other one subscribes all the time.
* `Joiner!JoinFairness`: every request is answered or times out (`joinTimeout`), the delay
  before the next group ends, and time passes, so that `maxJoinDuration` is over some
  time. Nothing is assumed of whether hosts agree to be joined.
* `Dissemination`: requests are handled or fail, syncs are answered or end, a starting
  node joins. Strong fairness of each ping that may happen: the iterator of a node
  visits all its members in turn, so one that can be pinged again and again is. Nothing
  is assumed of which answers arrive.
* `Healer`: timers fire, and each heal goes on, also beside another; gossip reaches who can be reached, and a
  host that hears of its suspicion refutes it. Strong fairness of `RunHeal`: the loop
  heals with a probability above 0 at each turn.
* `Gossip`, `Damper`, `SelfEvict`: timers fire, requests are answered or time out,
  hooks call back, and the suppress duration of a member ends.
* `TracerStore`: ticks run, timers fire, a host is identified or that fails.
* `Service`: a callback that is due comes, and a request over the network times out
  if nothing else happens. That it is ever delivered is not assumed.
* `ClientRequests`: ticks and the scan's timer come. Nothing is assumed of TChannel:
  that every request is called back is the work of the scan.
* `Transports`: a connection is lent when one is free, a transport given as a function calls
  back, the steps of a shutdown follow each other. Nothing is assumed of the
  endpoints: an http response may never come and a write to a stalled peer never end.
  What `DeliveriesEnd` says of a delivery has as its premise that the endpoint it goes
  to attends to its requests (`Attends`), and what it says of the shutdown that tcp writes are read.
* `Discovery`: a provider answers, a timer fires, a callback runs.

## 4. What is proved

Every theorem is checked for all values of the constants, under the assumptions
named in the modules (`TimerStoreAssumption`, `MembershipAssumption`,
`NoneAssumption`, `HandoffAssumption`, `JoinerAssumption`, `DisseminationAssumption`,
`HealerAssumption`, `LifecycleAssumption`, `GossipAssumption`, `DamperAssumption`,
`SelfEvictAssumption`, `TracerAssumption`, `ServiceAssumption`, `ClientAssumption`,
`TransportsAssumption`, `RBTreeAssumption`, `HashRingAssumption`): ids,
bodies, addresses, nodes and timers are any sets, finite where the code counts them, the
bounds any natural numbers, and a value that stands for nothing (`None`, `Idle`, ...) is
none of the things.

| theorem | statement |
|---|---|
| `TimerStoreProofs!TypeCorrect` | `Spec => []TypeOK` |
| `TimerStoreProofs!NoRecordIsAZombie` | `Spec => []NoZombieTimer` |
| `TimerStoreProofs!RunsAtMostOnce` | `Spec => AtMostOncePerSession` |
| `TimerStoreProofs!InvHolds` | `Spec => []Inv` |
| `TimerStoreProofs!StorageAgrees` | `Ordered => (Spec => []MapAgreesWithStorage)` |
| `TimerStoreProofs!CancelledNeverRuns` | `Ordered => (Spec => CancelIsFinal)` |
| `MembershipProofs!InvHolds`, `TypeCorrect` | `Spec => []Inv`, `Spec => []TypeOK` |
| `MembershipProofs!RingIsMembers`, `GossipIsBelief`, `TimeoutsFit` | the three invariants of the run `membership` |
| `MembershipProofs!BeliefsOnlyGetNewer` | its action property |
| `MembershipProofs!DecayIsTracked`, `OwnStatusHolds` | every member on its way out has its entry; gossip never changes a node's own status |
| `HandoffProofs!TypeCorrect`, `RowsHaveOwners` | `Spec => []TypeOK`, `Spec => []RowsAreOwned` |
| `HandoffProofs!KeeperInvariant`, `OneKeeperAlways` | `Spec => []KeeperInv`, `Spec => []OneKeeper` |
| `HandoffProofs!HandoffPassesOn` | `Spec => PassedOn`: `Handoff` implements `Custody` |
| `ViewProofs!InvHolds` | `Spec => []Inv` of `Joiner` |
| `ViewProofs!JoinedMeansEnough`, `NothingOlderIsMerged`, `CallsBackOnce` | the invariants of a join that `views` checks, and that it calls back once |
| `ViewProofs!HealsInOneLoop`, `HealsSpare` | `HealSpec => []OneHealLoop`, `HealSpec => HealKeepsPingable` |
| `ViewProofs!SyncSlotsAreCounted`, `ForgottenWhenTold` | `DisseminationSpec => []SlotsAreCounted`, `DisseminationSpec => DroppedWhenTold` |
| `LoopProofs!NobodyIsForgotten` | `GossipSpec => []NobodyWaitsLong` |
| `LoopProofs!DampTimersFit` | `DampSpec => []TimersFitSets` |
| `LoopProofs!PhasesComeInOrder` | `EvictSpec => []PhasesInOrder` |
| `LoopProofs!TracersListen` | `TraceSpec => [](AllNamed => StoredListen)`, the safety part of `TracersComeAndGo` |
| `ServiceProofs!TypeCorrect`, `RequestsGoStraight`, `AnswersAreTrueOnes`, `CountIsExact` | `ServiceSpec =>` `[]ServiceTypeOK`, `[]PassedOnAgainOnlyIfTurned`, `[]AnswersAreTrue`, `[]InflightIsExact` |
| `TrafficProofs!ClientHolds` | `ClientSpec => []ClientInv` |
| `TrafficProofs!ShutdownDrains` | `TransportsSpec => []DrainedBeforeClosed` |
| `RingProofs!RingIsRedBlack` | `RingSpec => []TreeIsRedBlack` |
| `RingProofs!RingAnswersAsAbstract` | `RingSpec => RingImplements`: `HashRing` implements `Ring` |
| `RingProofs!PreferenceIsOrder` | the preferences of a key in `Ring` are all servers, each once, the ones met earlier first |
| `RingProofs!InsertSound`, `RemoveSound` | insertion and removal of any key leave a red-black tree of the keys with it or without it |

With them every invariant, every action property and every refinement that a run checks
is a theorem.

**The cache.** None of its properties is inductive. `Life` says where a body may
be: in one of the places it can run from, or in a call of the store, never in
two; never again where it has run. It needs the calls in flight on a key to be
totally ordered (`CallOrder`), and the rows a recovery has yet to read to belong
to ids nothing happens to (`ScanIsQuiet`), since a crash empties every other
place. `Life` gives `NoZombieTimer` and `AtMostOncePerSession` with any backend.
For an ordered backend two more parts are needed: `StoreFollowsCalls`, that the
row of an id is what the last applied call left, and the record what will be
there when the callbacks still due have run; and `RemovedIsGone`, that a body
`kRemove` took out of the Map is nowhere it could run from. With them
`MapAgreesWithStorage` is the case of no call in flight.

**The membership.** The four invariants are nearly inductive together. Missing
are three facts about time: before the join is complete the node knows nobody
else (`JoinerKnowsNobody`), so that `set`, which compares nothing, overwrites
nothing; the local member exists from the bootstrap on and is not from the future
(`LocalMember`); only leaving disables the transitions (`PausedWhenDisabled`).

**The hand-over.** `RowsAreOwned` is inductive with the types. Most steps keep every
owner a row has (`OwnersKept`); the others take a record, an execution or a process
away, and put a deletion, a batch or a row of a node that is down in its place.
`LookupNearest` is the lemma that a lookup in a ring with servers finds the nearest
one; it rests on the well-foundedness of the distances.

`OneKeeper` and `PassedOn` say more: where a timer is, relative to all the rows, calls,
requests and questions of all nodes. `KeeperInv` is about the keepers of a timer, a node
that keeps it, a request that has it and a question that has it alike: there is one at
most (`OnePlace`), none before it is submitted. For a step to keep that, a node must
store a timer once and not while it has it (`StoredOnce`); a process that is down must
have nothing but rows (`DeadIsEmpty`); the replies that a closing node counts must be to
questions of its own, to a node that is there (`HandedByShutdown`); and a node must not
be destroyed before the requests it is at work on are answered (`WorkIsReachable`). All of
it is claimed as long as the system is calm only, because a crash between a hand-over
and the deletion of the row leaves two copies. The refinement then has one case per kind
of step: most leave the keepers alone, a rebalance passes each timer it gives away from
the node to a request, a shutdown to a question, a proxied request that arrives or is
refused to a node or back. That the steps are those of `Custody` needs that what a node
gives up is not what another one keeps, which is `OnePlace` again.

**The join.** That `numJoined` is the number of different hosts needs to know that
nobody is asked who has joined (`AskedOnce`): the hosts of a group are disjoint
from those before it, and a group is asked only when no request of the last one is
out, which is a counting argument about `Collect`. That nothing said is lost needs
the answers of the joined hosts to be at hand until they are merged (`Kept`), and
that a list which comes late is from a host that does not count as joined.
`MergeKnows` is about the merge alone; that a set of incarnations has a newest one
(`NewestExists`) rests on there being a largest number (`MaxInc`).

**The healer.** `LoopInv` says that a timer of the loop waits, or one heal of it is under
way, and not both; and, which is what makes it inductive, that neither is so without a
handle until the node is destroyed: `start` looks at the handle. That heals spare the
pingable, whatever full syncs come between, needs what a heal carries from one callback to the next (`HealShape`): the
changes on their way to the target make nobody unpingable whom the target's answer had as
pingable (`Sparing`). `NewerSpares` is the lemma behind it: of two states of a host, of
which neither would make the other unpingable, the newer is unpingable only when both are.

**The dissemination.** `SyncsInv` gives each sync a slot of its node, so that there is a
free one when the count is below the limit (`FreeSlotIs`, a pigeon-hole argument), and
says that only nodes that run have syncs, since a restart drops both. For `DroppedWhenTold` a
node must have told a change at least as often as it counts (`NodeOK`): then a count that
reaches the limit, which is all `Drop` and `Bump` look at, means as many tellings. A call
holds what its sender told, and is given up by a restart (`CallsInv`), so that a late
answer never counts for another life of the node.

**The gossip.** Who waits longest? `Waited` relates how long a member has waited to its
place in the list: a member the iterator passed in this turn waits at most since then, one
ahead of it at most since the last turn and for those before it. A shuffle moves every
member to any place, at the moment when all have been passed. That there are never more
timers than starts (`LoopsInv`) is needed for a free token.

**The damper.** `TimersFitSets` is nearly inductive: missing are that each round of
questions has a token (`DampInv`), and that damping the members of a round, in any
order and up to the limit, leaves each of them in one of the two sets (`DampIs`).

**The client.** `Fits` says what a request is at each stage: what is on the wire is
what the middleware of the other end will turn back into what was said, and a
canceled request has been called back. The count against the limit is then that of
`registered`, which each step changes by one request.

**Self eviction.** That a phase begins when the one before has ended is not
inductive: the code counts the callbacks that are out, in `_.after`. `EvictInv` says
that the count is the number of hooks and pings under way, and `AtPhase` what is
under way and scheduled in each phase; the last callback, and only that one,
schedules the next phase.

**The tracers.** Timers and failures remove by options, not by tracer, so that a tracer
that was removed while its sink connected can take out a later one. What keeps those of
the store right is that their sinks differ (`OneEach`), which needs that all are named: a
tracer that fails, or whose time has come, is then itself the one that matches, or has left the
store before. So the store has no failed tracer and none without its timer (`TracersInv`).
What is to be disconnected on a later tick has left the store (`TicksFit`), and cannot come
back, as a request makes one tracer.

**The service.** `Good` says of a task, at each stage, where its destination comes
from: at sending it is the nearest server of the ring whose checksum is sent along;
on the wire, unless the ring turned in between, so is the receiver. A receiver
with that checksum has that ring, so it is the owner itself and passes nothing on:
`OwnerIsBest` and `BestInside`, which rests on the well-foundedness of the
distances. `InflightIsExact` counts two sets of tasks per node; `CountInv` adds that
tasks are finitely many and told apart by their ways (`Lineage`), and its lemmas say of
each shape of step (a task replaced, answered, passed on, all of a node removed) what it does to
both counts. The true answers need that a node which tells of success has added
the request to `done`, that one which tells of a malformed body had such a body in hand
(`Malformed`), and that no handler is reached around the validation (`StackOrder`).

**The transports.** While nothing breaks an address has one pool in the map, of which all
connections and all who wait are (`Kept`), and the shutdown, which walks the map from the
oldest pool on, has passed none by. What a transport has once it is shut down came later
(`Emptied`). The four parts of `TransportInv` are proved together, since a step of the
shutdown ends one part's premise and begins the next one's.

**The tree.** `IsRedBlack` speaks of paths, of which a turn moves many at once. The proofs
keep evidence that is local to a node and its children (`Certified`): the points that may
be in a node's place (`Spans`), whose halves are left to its two children, and the
number of black nodes above it (`Even`). One turn changes both at two nodes only
(`TurnOrder`, `RotateAt`), and `CertifiedIsRedBlack` gets the paths back from them: a node
is below another when it is in its interval (`UnderSpan`), and the evidence for the
heights counts the black nodes on the way (`BlackCount`).

`InsertInv` says where the walk of an insertion can be: at the root, below a parent with
at most one red child, below nodes whose colours were just flipped, or two levels further
up after a double turn, whose `p`, `gp` and `ggp` are then stale. In the last place the
code turns nothing until it is back down, which is why its stale variables do no harm; a
proof has to say so (`AtTwice`). There is one lemma per case of a pass (`StepRoot`,
`StepPlain`, `StepFlipped`, `StepPainted`, `StepClash`, `StepAttach`, `StepTwice`), and each
pass leaves less below it (`Room`), which bounds their number.

`RemoveInv` is simpler: the node the walk is at is red, or the child it goes to is, and
nothing else is wrong (`PushedAt`, with one lemma per way the red is pushed down). Where
the walk ends (`RemoveWalked`), the node is red and has no child, or is the only one, and no key
lies between it and the one to be removed (`Near`). To write the key of a leaf over another
node and cut the leaf is to cut a leaf and rename the others in an order-preserving way
(`IsCut`). This is shown on another form of the order, `Ordered`, which speaks of the subtrees;
`SpansOrdered` and `OrderedSpans` go between the two.

The loops run over numbers, for which `Inductive` does the induction by the
well-foundedness of their order. What remains for the ring is that the tree has the points
of its servers (`RingInv`); hashes that collide are told apart by the address.

**The ring.** That lookups in the tree answer as `Ring` does, which knows of no tree, goes
in three steps. The iterator first: `IsIter` says that the ancestors it keeps are the way
from the root to its cursor; the least key after a node is at the left end of its right
half (`MinNodeAt`) or, if it has none, the last ancestor greater than it (`BackUp`). From
these, `next` finds the next key (`NextOfAt`) and `upperBound` the first one from the
hash on (`UpperBoundAt`). Then the circle: `Before` orders the points (`CircleOrder`), so that each server has a first point
and a rank of its own, and `PreferenceIsOrder` says what `CHOOSE` in `Preference` chooses.
Last, the two together: `Ranked` says that servers are listed by their ranks and are those
of the points met so far, and `RankedMore` that it stays so with the next point, whose server
is either listed or the next in rank. `RoundInv` is the invariant of the
loop of `lookupN`; each pass meets one more point (`Met`), so that as many passes as the
tree has nodes are enough, though one of them is spent at the end of the line, where the
iterator starts over (`CircleStep`).

**Only model-checked:**

* `StoredTimerResolved`, `WatchedSuspectIsDecided`, `ShutdownEnds`, `JoinEnds`, `Converges`,
  `PartitionHeals`, `GossipGoesOn`, `EvictionEnds`, `DampingGoesOn`, `TracersComeAndGo`,
  `RequestsAreAnswered`, `CallsReturn`, `DeliveriesEnd`, `DiscoveryEnds`: liveness under
  fairness, which the prover does not reach. The first conjunct of `TracersComeAndGo`
  is safety, and proved (`TracersListen`).

The violated properties have nothing to prove.

## 5. What is not modelled

* Contents: bodies, callbacks, event payloads, what a path, a header or a field of a
  body must look like. `elapsed` and `timeout` are the choice whether a body is late;
  a body of `Service` is valid, invalid or no JSON.
* The events on nats that only inform (`skyring:events`, `skyring:node`).
* Lengths of delays, except in `Discovery`: protocol period, suspicion periods, damp
  timers and time-outs may end at any time. What is shown holds for all lengths; how
  long something takes is not.
* Requests with keys of several owners (`request-proxy/index.js`, `send.js`, the
  "keys diverged" path): skyring gives each request one key.
* Rollups, statistics, logs, what a tracer sends, configuration: no property of a timer or of the
  membership depends on them. A checksum is modelled as what it is computed from, so
  two lists with the same checksum by accident are left out.
* The validators of the protocol endpoints, which refuse malformed requests of nodes of
  another version, and a cluster of a single node that joins itself.
* Storage backends: `memdown`, `leveldown` and `scylladown` are taken as a store that
  applies each call once. The iterator of `scylladown` reads the first page of a result
  only; `recover` with more rows than a page holds is not covered by `TimerStore`.
* In `Handoff`: failing stores, DELETE and PUT, transports that fail, the inflight
  count of the proxy (which is in `Service`), a suspicion before it is decided, and nats
  itself failing.
* In `Transports`: a `zmq` socket is reused for its address whatever the method of
  the timer is, so a job may go out by the method of an earlier one.
* The documentation site, benchmarks, the console of the tests.

## 6. Plan

What would come next is composition: `Dissemination` with the transitions of `Membership`,
so that suspicions decide and spread in one model, and `Service` with `Handoff`.
