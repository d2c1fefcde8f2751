------------------------------- MODULE Handoff -------------------------------
(***************************************************************************)
(* The timers of a skyring cluster: where each one is kept and how it gets *)
(* from node to node.  A node hands timers over when it finds it no longer *)
(* owns them (timer.js rebalance) and when it shuts down (server/index.js  *)
(* close, node.js close, timer.js shutdown); the other nodes take them     *)
(* from a nats queue (timer.js watch) or through the request proxy of      *)
(* ringpop (lib/request-proxy).                                            *)
(*                                                                         *)
(* Every action is one callback of one node, or one step of nats.  A call  *)
(* of the store takes two: it is issued, and it is completed - applied and *)
(* called back - in the order of issue; TimerStore has the finer steps and *)
(* the backends that keep no order.  A timer here is one created with an   *)
(* id of its own, by one POST, and not cancelled.  The view of a node is   *)
(* the servers of its ring; the alive members are the same set, since a    *)
(* suspicion is not told from its end.  An answer 409 is not told from 201 *)
(* either: both say that the node has the timer.                           *)
(***************************************************************************)
EXTENDS Naturals, Sequences

CONSTANTS
  Node, Timer,
  Rank,         \* Rank[t][n]: how far node n is clockwise from timer t
  Founders,     \* the nodes that are up in the beginning
  Leavers,      \* the nodes that may close or crash
  None,         \* "not routed yet"
  MaxRetries,   \* requestProxy.maxRetries
  MaxBalances,  \* bound: rebalances
  MaxDoubts,    \* bound: nodes suspected although they are up
  MaxTimeouts,  \* bound: proxied requests that time out
  MaxStarts,    \* bound: nodes started after the beginning
  MaxCrashes    \* bound: processes that die

ASSUME HandoffAssumption ==
  /\ Rank \in [Timer -> [Node -> Nat]]
  /\ \A t \in Timer : \A m, n \in Node : Rank[t][m] = Rank[t][n] => m = n
  /\ Founders \subseteq Node /\ Leavers \subseteq Node
  /\ Node \cap {None, "unused", "acked", "refused"} = {}
  /\ MaxRetries \in Nat /\ MaxBalances \in Nat /\ MaxDoubts \in Nat
  /\ MaxTimeouts \in Nat /\ MaxStarts \in Nat /\ MaxCrashes \in Nat

VARIABLES
  life,      \* how far a node is on its way from "up" to "down"
  view,      \* servers of a node's hash ring
  held,      \* <<n, t>>: t has a record in the Map of n
  armed,     \* <<n, t>>: that record's timeout is pending
  running,   \* <<n, t>>: a transport of n executes t
  rows,      \* <<n, t>>: t has a row in the store of n
  calls,     \* the calls of the store in flight, per node and timer
  handed,    \* <<n, t>>: t is in the batch of deletes of n's shutdown
  awaited,   \* <<n, t>>: the shutdown of n has no reply for t yet
  asks,      \* nats requests under way
  replies,   \* <<n, t>>: the reply to n's request for t
  posts,     \* requests in the hands of the request proxies
  client,    \* what the client of each timer knows: the node it waits for, ...
  ran,       \* timers that were handed to a transport
  balances, doubts, timeouts, starts, crashes

storeVars == <<held, armed, running, rows, calls>>
closeVars == <<handed, awaited, asks, replies>>
boundVars == <<balances, doubts, timeouts, starts, crashes>>
vars == <<life, view, storeVars, closeVars, posts, client, ran, boundVars>>

At == Node \X Timer
Lives == {"up", "evicted", "draining", "destroyed", "shutting", "down"}
Asks == [from : Node \cup {None}, to : Node \cup {None}, timer : Timer]
Posts == [from : Node, to : Node, timer : Timer, sum : SUBSET Node,
          tries : Nat, back : {"client", "peer", "nobody"},
          at : {"ready", "sent", "handling", "failed", "waiting"}]

TypeOK ==
  /\ life \in [Node -> Lives]
  /\ view \in [Node -> SUBSET Node]
  /\ held \subseteq At /\ armed \subseteq At /\ running \subseteq At
  /\ rows \subseteq At /\ handed \subseteq At /\ awaited \subseteq At
  /\ calls \in [At -> Seq({"put", "del", "wipe"})]
  /\ asks \subseteq Asks /\ replies \subseteq At
  /\ posts \subseteq Posts
  /\ client \in [Timer -> {"unused", "acked", "refused"} \cup Node]
  /\ ran \subseteq Timer
  /\ balances \in Nat /\ doubts \in Nat /\ timeouts \in Nat
  /\ starts \in Nat /\ crashes \in Nat

Init ==
  /\ life = [n \in Node |-> IF n \in Founders THEN "up" ELSE "down"]
  /\ view = [n \in Node |-> IF n \in Founders THEN Founders ELSE {}]
  /\ held = {} /\ armed = {} /\ running = {} /\ rows = {}
  /\ calls = [x \in At |-> <<>>]
  /\ handed = {} /\ awaited = {} /\ asks = {} /\ replies = {} /\ posts = {}
  /\ client = [t \in Timer |-> "unused"]
  /\ ran = {}
  /\ balances = 0 /\ doubts = 0 /\ timeouts = 0
  /\ starts = 0 /\ crashes = 0

----------------------------------------------------------------------------
(* Nodes. *)

Gossiping(n) == life[n] \in {"up", "evicted", "draining"}
Reachable(n) == Gossiping(n)          \* its channel is open
Subscribed(n) == life[n] \in {"up", "evicted", "draining", "destroyed"}

(* RingPop.lookup: the first server clockwise, or the node itself when its *)
(* ring is empty.                                                          *)
Lookup(n, t) ==
  IF view[n] = {} THEN n
  ELSE CHOOSE m \in view[n] : \A o \in view[n] : Rank[t][m] <= Rank[t][o]

----------------------------------------------------------------------------
(* The timer cache of a node, as far as hand-over goes. *)

Issue(n, t, op) == calls' = [calls EXCEPT ![<<n, t>>] = Append(@, op)]

(* create (163-242).  A timer that is past its time, which one that was     *)
(* handed over or recovered may be, is executed at once.                   *)
Create(n, t) ==
  \/ /\ <<n, t>> \in held
     /\ UNCHANGED <<calls, running, ran>>
  \/ /\ <<n, t>> \notin held
     /\ Issue(n, t, "put")
     /\ UNCHANGED <<running, ran>>
  \/ /\ <<n, t>> \notin held
     /\ client[t] \notin Node
     /\ running' = running \cup {<<n, t>>}
     /\ ran' = ran \cup {t}
     /\ UNCHANGED calls

(* back: who the answer is for: a client, the request of a peer that this  *)
(* node passed on, or nobody (the mock response of server.proxy).          *)
Post(from, to, t, back) ==
  [from |-> from, to |-> to, timer |-> t, sum |-> {}, tries |-> 0, back |-> back,
   at |-> "ready"]

(* The middleware of POST /timer (api/middleware/proxy.js): the owner      *)
(* creates the timer, any other node proxies the request to the owner.     *)
(* others: the requests of the proxies that this one is added to.          *)
Take(n, t, back, others) ==
  \/ /\ Lookup(n, t) = n
     /\ posts' = others
     /\ Create(n, t)
  \/ /\ Lookup(n, t) # n
     /\ posts' = others \cup {Post(n, Lookup(n, t), t, back)}
     /\ UNCHANGED <<calls, running, ran>>

(* A client's POST. *)
Submit(n, t) ==
  /\ life[n] = "up" /\ client[t] = "unused"
  /\ client' = [client EXCEPT ![t] = n]
  /\ \/ /\ Lookup(n, t) = n
        /\ Issue(n, t, "put")
        /\ UNCHANGED posts
     \/ /\ Lookup(n, t) # n
        /\ posts' = posts \cup {Post(n, Lookup(n, t), t, "client")}
        /\ UNCHANGED calls
  /\ UNCHANGED <<life, view, held, armed, running, rows, closeVars, ran, boundVars>>

(* The store completes the oldest of its calls for a timer. *)
Stored(n, t) ==
  /\ calls[<<n, t>>] # <<>>
  /\ calls' = [calls EXCEPT ![<<n, t>>] = Tail(@)]
  /\ \/ /\ Head(calls[<<n, t>>]) = "put"
        /\ rows' = rows \cup {<<n, t>>}
        /\ held' = held \cup {<<n, t>>}
        /\ armed' = armed \cup {<<n, t>>}
        /\ client' = IF client[t] = n /\ \A p \in posts : p.timer = t => p.back # "client"
                     THEN [client EXCEPT ![t] = "acked"] ELSE client
     \/ /\ Head(calls[<<n, t>>]) = "del"
        /\ rows' = rows \ {<<n, t>>}
        /\ held' = held \ {<<n, t>>}
        /\ armed' = armed \ {<<n, t>>}
        /\ UNCHANGED client
     \/ /\ Head(calls[<<n, t>>]) = "wipe"
        /\ rows' = rows \ {<<n, t>>}
        /\ UNCHANGED <<held, armed, client>>
  /\ UNCHANGED <<life, view, running, closeVars, posts, ran, boundVars>>

Fire(n, t) ==
  /\ <<n, t>> \in armed
  /\ armed' = armed \ {<<n, t>>}
  /\ running' = running \cup {<<n, t>>}
  /\ ran' = ran \cup {t}
  /\ UNCHANGED <<life, view, held, rows, calls, closeVars, posts, client, boundVars>>

(* success or failure: kRemove. *)
Finish(n, t) ==
  /\ <<n, t>> \in running
  /\ running' = running \ {<<n, t>>}
  /\ Issue(n, t, "del")
  /\ UNCHANGED <<life, view, held, armed, rows, closeVars, posts, client, ran,
                 boundVars>>

(* Faulty variant: the records stay in the Map, and their timeouts pending. *)
RebalanceKeeping(n) ==
  LET moved == {t \in Timer : <<n, t>> \in held /\ Lookup(n, t) # n} IN
  /\ moved # {} /\ life[n] # "down" /\ balances < MaxBalances
  /\ balances' = balances + 1
  /\ UNCHANGED <<held, armed>>
  /\ calls' = [x \in At |-> IF x \in {n} \X moved THEN Append(calls[x], "wipe")
                                                  ELSE calls[x]]
  /\ posts' = posts \cup {Post(n, Lookup(n, t), t, "nobody") : t \in moved}
  /\ UNCHANGED <<life, view, running, rows, closeVars, client, ran, doubts, timeouts,
                 starts, crashes>>

(* Faulty variant: the batch of deletes is never written. *)
RebalanceUnwiped(n) ==
  LET moved == {t \in Timer : <<n, t>> \in held /\ Lookup(n, t) # n} IN
  /\ moved # {} /\ life[n] # "down" /\ balances < MaxBalances
  /\ balances' = balances + 1
  /\ held' = held \ ({n} \X moved)
  /\ armed' = armed \ ({n} \X moved)
  /\ UNCHANGED calls
  /\ posts' = posts \cup {Post(n, Lookup(n, t), t, "nobody") : t \in moved}
  /\ UNCHANGED <<life, view, running, rows, closeVars, client, ran, doubts, timeouts,
                 starts, crashes>>

(* rebalance (340-384), on SIGUSR2 or when servers were added to the ring. *)
Rebalance(n) ==
  LET moved == {t \in Timer : <<n, t>> \in held /\ Lookup(n, t) # n} IN
  /\ moved # {} /\ life[n] # "down" /\ balances < MaxBalances
  /\ balances' = balances + 1
  /\ held' = held \ ({n} \X moved)
  /\ armed' = armed \ ({n} \X moved)
  /\ calls' = [x \in At |-> IF x \in {n} \X moved THEN Append(calls[x], "wipe")
                                                  ELSE calls[x]]
  /\ posts' = posts \cup {Post(n, Lookup(n, t), t, "nobody") : t \in moved}
  /\ UNCHANGED <<life, view, running, rows, closeVars, client, ran, doubts, timeouts,
                 starts, crashes>>

----------------------------------------------------------------------------
(* The request proxy (request-proxy/index.js, send.js). *)

(* The request is over.  The client is told; a request that was passed on  *)
(* fails in the hands of the node that passed it on.                       *)
Failed(p, q) ==
  IF p.back = "peer" /\ q.at = "handling" /\ q.to = p.from /\ q.timer = p.timer
  THEN [q EXCEPT !.at = "failed"] ELSE q

Told(p, what) ==
  client' = IF p.back = "client" THEN [client EXCEPT ![p.timer] = what] ELSE client

Fail(p, others) ==
  /\ posts' = {Failed(p, q) : q \in others}
  /\ Told(p, "refused")

(* send (231-268): without a connection there is no retry. *)
Send(p) ==
  /\ p.at = "ready"
  /\ \/ /\ Reachable(p.from) /\ Reachable(p.to)
        /\ posts' = (posts \ {p}) \cup {[p EXCEPT !.at = "sent", !.sum = view[p.from]]}
        /\ UNCHANGED client
     \/ /\ ~Reachable(p.from) \/ ~Reachable(p.to)
        /\ Fail(p, posts \ {p})
  /\ UNCHANGED <<life, view, storeVars, closeVars, ran, boundVars>>

(* onSend (270-297): an error after the request was sent. *)
Retry(p, others) ==
  \/ /\ p.tries < MaxRetries
     /\ posts' = others \cup {[p EXCEPT !.at = "waiting"]}
     /\ UNCHANGED client
  \/ /\ p.tries >= MaxRetries
     /\ Fail(p, others)

(* The channel broke, or is draining, or handleRequest (222-242) found     *)
(* that the two rings differ.                                              *)
Refuse(p) ==
  /\ p.from # p.to
  /\ \/ p.at \in {"sent", "handling", "failed"} /\ ~Reachable(p.to)
     \/ p.at = "sent" /\ (life[p.to] = "draining" \/ p.sum # view[p.to])
  /\ Retry(p, posts \ {p})
  /\ UNCHANGED <<life, view, storeVars, closeVars, ran, boundVars>>

(* No answer in time.  The other node may still get the request, or go on  *)
(* with it, but nobody hears its answer.                                   *)
Timeout(p) ==
  /\ p.at \in {"sent", "handling", "failed"} /\ p.from # p.to
  /\ p.tries # MaxRetries \/ p.back # "nobody"
  /\ timeouts < MaxTimeouts
  /\ timeouts' = timeouts + 1
  /\ Retry(p, (posts \ {p}) \cup {[p EXCEPT !.back = "nobody", !.tries = MaxRetries]})
  /\ UNCHANGED <<life, view, storeVars, closeVars, ran, balances, doubts, starts,
                 crashes>>

Arrive(p) ==
  /\ p.at = "sent" /\ life[p.to] \in {"up", "evicted"} /\ p.sum = view[p.to]
  /\ Take(p.to, p.timer, "peer", (posts \ {p}) \cup {[p EXCEPT !.at = "handling"]})
  /\ UNCHANGED <<life, view, held, armed, rows, closeVars, client, boundVars>>

(* The answer comes when the timer is stored or was refused, and from      *)
(* where the request was passed on to.                                     *)
Answered(p) ==
  /\ p.at \in {"handling", "failed"}
  /\ p.from = p.to \/ Reachable(p.to)
  /\ calls[<<p.to, p.timer>>] = <<>>
  /\ \A q \in posts :
       q.back = "peer" => q.from # p.to \/ q.timer # p.timer \/ p.at = "failed"
  /\ \/ p.at = "handling" /\ posts' = posts \ {p} /\ Told(p, "acked")
     \/ p.at = "failed" /\ Fail(p, posts \ {p})
  /\ UNCHANGED <<life, view, storeVars, closeVars, ran, boundVars>>

(* attemptRetry (107-209): where the timer belongs may have changed, even  *)
(* to this node, which then handles the request itself.                    *)
Reattempt(p) ==
  LET to == Lookup(p.from, p.timer)
      next == [p EXCEPT !.to = to, !.tries = @ + 1]
  IN
  /\ p.at = "waiting"
  /\ \/ /\ to = p.from
        /\ posts' = (posts \ {p}) \cup {[next EXCEPT !.at = "handling"]}
        /\ Create(p.from, p.timer)
     \/ /\ to # p.from
        /\ posts' = (posts \ {p}) \cup {[next EXCEPT !.at = "ready"]}
        /\ UNCHANGED <<calls, running, ran>>
  /\ UNCHANGED <<life, view, held, armed, rows, closeVars, client, boundVars>>

----------------------------------------------------------------------------
(* What a node learns of the others (see Membership). *)

LearnGone(n, m) ==
  /\ Gossiping(n) /\ m \in view[n] \ {n} /\ life[m] # "up"
  /\ view' = [view EXCEPT ![n] = @ \ {m}]
  /\ UNCHANGED <<life, storeVars, closeVars, posts, client, ran, boundVars>>

LearnUp(n, m) ==
  /\ Gossiping(n) /\ m \notin view[n] /\ life[m] = "up" /\ m # n
  /\ view' = [view EXCEPT ![n] = @ \cup {m}]
  /\ UNCHANGED <<life, storeVars, closeVars, posts, client, ran, boundVars>>

Doubt(n, m) ==
  /\ Gossiping(n) /\ m \in view[n] \ {n} /\ life[m] = "up" /\ doubts < MaxDoubts
  /\ view' = [view EXCEPT ![n] = @ \ {m}]
  /\ doubts' = doubts + 1
  /\ UNCHANGED <<life, storeVars, closeVars, posts, client, ran, balances,
                 timeouts, starts, crashes>>

----------------------------------------------------------------------------
(* Closing a node. *)

(* server.close: the clients are served, then the node evicts itself. *)
Evict(n) ==
  /\ n \in Leavers /\ life[n] = "up"
  /\ \A t \in Timer : client[t] # n
  /\ life' = [life EXCEPT ![n] = "evicted"]
  /\ view' = [view EXCEPT ![n] = @ \ {n}]
  /\ UNCHANGED <<storeVars, closeVars, posts, client, ran, boundVars>>

(* The pings of the eviction, to some of the members, were answered or     *)
(* failed: the channel drains.                                             *)
Drain(n) ==
  /\ life[n] = "evicted"
  /\ life' = [life EXCEPT ![n] = "draining"]
  /\ UNCHANGED <<view, storeVars, closeVars, posts, client, ran, boundVars>>

(* ringpop.destroy: no retry that is waiting will be attempted. *)
Destroy(n) ==
  /\ life[n] = "draining"
  /\ \A p \in posts :
       p.from # p.to => /\ p.from = n => p.at \notin {"sent", "handling", "failed"}
                        /\ p.to = n => p.at \notin {"handling", "failed"}
  /\ life' = [life EXCEPT ![n] = "destroyed"]
  /\ posts' = {p \in posts : p.from = n => p.at # "waiting"}
  /\ UNCHANGED <<view, storeVars, closeVars, client, ran, boundVars>>

(* The end of a process: what it had in memory is gone. *)
Ended(n) ==
  LET rest(S) == {x \in S : x[1] # n} IN
  /\ life' = [life EXCEPT ![n] = "down"]
  /\ view' = [view EXCEPT ![n] = {}]
  /\ held' = rest(held) /\ armed' = rest(armed) /\ running' = rest(running)
  /\ calls' = [x \in At |-> IF x[1] = n THEN <<>> ELSE calls[x]]
  /\ handed' = rest(handed) /\ awaited' = rest(awaited)
  /\ posts' = {p \in posts : p.from # n}
  /\ client' = [t \in Timer |-> IF client[t] = n THEN "refused" ELSE client[t]]

(* What its store holds once it has completed every call: closing waits.   *)
RowsAfter(n) ==
  {x \in At : IF x[1] # n \/ calls[x] = <<>> THEN x \in rows
             ELSE calls[x][Len(calls[x])] = "put"}

(* shutdown (470-526) of a node with timers, 100 ms after the destruction. *)
Shutdown(n) ==
  LET sent == {t \in Timer : <<n, t>> \in held} IN
  /\ life[n] = "destroyed" /\ view[n] # {} /\ sent # {}
  /\ life' = [life EXCEPT ![n] = "shutting"]
  /\ armed' = armed \ ({n} \X sent)
  /\ held' = held \ ({n} \X sent)
  /\ handed' = handed \cup ({n} \X sent)
  /\ awaited' = awaited \cup ({n} \X sent)
  /\ asks' = {a \in asks : a.to # n}
             \cup {[from |-> n, to |-> None, timer |-> t] : t \in sent}
  /\ UNCHANGED <<view, running, rows, calls, replies, posts, client, ran, boundVars>>

(* The replies to requests; a node that died hears none. *)
Answers(A) == {<<a.from, a.timer>> : a \in {a \in A : a.from # None}}

(* A node without timers, or the last node, disconnects at once.  Requests *)
(* it was given are still replied to, although its store is closed.        *)
Disconnect(n) ==
  /\ life[n] = "destroyed"
  /\ view[n] = {} \/ \A t \in Timer : <<n, t>> \notin held
  /\ Ended(n)
  /\ rows' = RowsAfter(n)
  /\ asks' = {a \in asks : a.to # n}
  /\ replies' = replies \cup Answers({a \in asks : a.to = n})
  /\ UNCHANGED <<ran, boundVars>>

(* nats gives a request to one subscriber of the queue group, or to nobody *)
(* when there is none.                                                     *)
RouteAsk(a) ==
  /\ a.to = None
  /\ \/ \E m \in Node : /\ Subscribed(m)
                        /\ asks' = (asks \ {a}) \cup {[a EXCEPT !.to = m]}
     \/ /\ \A m \in Node : ~Subscribed(m)
        /\ asks' = asks \ {a}
  /\ UNCHANGED <<life, view, storeVars, handed, awaited, replies, posts, client, ran,
                 boundVars>>

(* Faulty variant: a timer is taken without a reply. *)
HandleUnreplied(a) ==
  /\ a.to # None
  /\ asks' = asks \ {a}
  /\ Take(a.to, a.timer, "nobody", posts)
  /\ UNCHANGED <<life, view, held, armed, rows, handed, awaited, replies, client,
                 boundVars>>

(* watch (534-543) and server.proxy: replied to first, then taken. *)
HandleAsk(a) ==
  /\ a.to # None
  /\ asks' = asks \ {a}
  /\ replies' = replies \cup Answers({a})
  /\ Take(a.to, a.timer, "nobody", posts)
  /\ UNCHANGED <<life, view, held, armed, rows, handed, awaited, client, boundVars>>

(* A reply; the last one lets the batch be written and the node disconnect. *)
Reply(n, t) ==
  LET left == {x \in awaited : x[1] = n} \ {<<n, t>>} IN
  /\ <<n, t>> \in replies
  /\ \/ /\ left # {}
        /\ replies' = replies \ {<<n, t>>}
        /\ awaited' = awaited \ {<<n, t>>}
        /\ UNCHANGED <<life, view, held, armed, running, rows, calls, handed, posts,
                       client>>
     \/ /\ left = {}
        /\ rows' = {x \in RowsAfter(n) : x[1] = n => x \notin handed}
        /\ replies' = {x \in replies : x[1] # n}
        /\ Ended(n)
  /\ UNCHANGED <<asks, ran, boundVars>>

----------------------------------------------------------------------------
(* Crashes and starts. *)

Crash(n) ==
  /\ n \in Leavers /\ life[n] # "down" /\ crashes < MaxCrashes
  /\ crashes' = crashes + 1
  /\ Ended(n)
  /\ asks' = {IF a.from = n THEN [a EXCEPT !.from = None] ELSE a :
                a \in {a \in asks : a.to # n}}
  /\ replies' = {x \in replies : x[1] # n}
  /\ UNCHANGED <<rows, ran, balances, doubts, timeouts, starts>>

(* The constructor of Timer recovers every row, then the node joins. *)
Start(n) ==
  LET mine == {t \in Timer : <<n, t>> \in rows} IN
  /\ life[n] = "down" /\ starts < MaxStarts
  /\ starts' = starts + 1
  /\ life' = [life EXCEPT ![n] = "up"]
  /\ view' = [view EXCEPT ![n] = {n} \cup {m \in Node : life[m] = "up"}]
  /\ \E late \in SUBSET mine :
       /\ running' = running \cup ({n} \X late)
       /\ ran' = ran \cup late
       /\ calls' = [x \in At |-> IF x \in {n} \X (mine \ late) THEN <<"put">>
                                                               ELSE calls[x]]
  /\ UNCHANGED <<held, armed, rows, closeVars, posts, client, balances, doubts,
                 timeouts, crashes>>

----------------------------------------------------------------------------
Proxying(p) == Send(p) \/ Refuse(p) \/ Arrive(p) \/ Answered(p) \/ Reattempt(p)
Closing(n) == Drain(n) \/ Destroy(n) \/ Shutdown(n) \/ Disconnect(n)

Next ==
  \/ \E n \in Node, t \in Timer :
       Submit(n, t) \/ Stored(n, t) \/ Fire(n, t) \/ Finish(n, t) \/ Reply(n, t)
  \/ \E n \in Node : Rebalance(n) \/ Evict(n) \/ Closing(n) \/ Crash(n) \/ Start(n)
  \/ \E m, n \in Node : LearnGone(n, m) \/ LearnUp(n, m) \/ Doubt(n, m)
  \/ \E p \in posts : Proxying(p) \/ Timeout(p)
  \/ \E a \in asks : RouteAsk(a) \/ HandleAsk(a)

Spec == Init /\ [][Next]_vars

FairSpec ==
  /\ Spec
  /\ \A n \in Node, t \in Timer : WF_vars(Stored(n, t)) /\ WF_vars(Reply(n, t))
  /\ \A n \in Node : WF_vars(Closing(n))
  /\ WF_vars(\E a \in asks : RouteAsk(a) \/ HandleAsk(a))
  /\ WF_vars(\E p \in posts : Proxying(p))

----------------------------------------------------------------------------
(* Where a timer may still come from: pending timeouts, rows on their way into a   *)
(* store, requests, rows of nodes that are down.                                   *)
Carriers(t) ==
  {<<"armed", x>> : x \in {x \in armed : x[2] = t}}
  \cup (UNION {{<<"put", x, i>> : i \in {i \in DOMAIN calls[x] : calls[x][i] = "put"}}
               : x \in {x \in At : x[2] = t}})
  \cup {<<"post", p>> : p \in {p \in posts : p.timer = t /\ p.at \notin {"handling", "failed"}}}
  \cup {<<"ask", a>> : a \in {a \in asks : a.timer = t}}
  \cup {<<"row", x>> : x \in {x \in rows : x[2] = t /\ life[x[1]] = "down"}}

(* As long as no process dies and no request times out, a timer is in one  *)
(* place only: whatever nodes join, leave, are doubted, restart with the   *)
(* same store and hand timers to each other (timer.js 340-384, 470-526,    *)
(* send.js), no hand-over leaves a second copy behind.                     *)
OneKeeper ==
  crashes + timeouts = 0 => \A t \in Timer : \A c, d \in Carriers(t) : c = d

(* No row of a running node is an orphan, which a restart would bring back *)
(* to life: its timer has a record or is being executed, or its deletion   *)
(* is on the way, in a call of its own or in the batch of rebalance (381)  *)
(* or shutdown (508).                                                      *)
RowsAreOwned ==
  \A x \in rows :
    \/ x \in held \cup running \cup handed
    \/ calls[x] # <<>>
    \/ life[x[1]] = "down"

(* A shutdown ends (timer.js 505-511): every timer that was handed to nats *)
(* is replied to, so that the callback of close is called.                 *)
ShutdownEnds ==
  \A n \in Node : life[n] = "shutting" ~> life[n] # "shutting"

(* "Should survive a nodes moving": as long as no process dies, a timer    *)
(* its client was told is created was executed or is still somewhere.      *)
(* watch (538) replies, and the sender deletes, before the timer is stored *)
(* again, and a request that cannot connect is not retried (send.js 247).  *)
NoTimerLost ==
  crashes = 0 =>
    \A t \in Timer : client[t] = "acked" => t \in ran \/ Carriers(t) # {}
=============================================================================
