------------------------------ MODULE Transports ------------------------------
(***************************************************************************)
(* The transports that carry a timer out when it fires: their registry     *)
(* (skyring/lib/transports/index.js), http and callback, and the packages  *)
(* tcp-transport, with a pool of connections per address, and zmq-         *)
(* transport, with a socket per address.  The pools are generic-pool's,    *)
(* modelled from how tcp.js uses them.                                     *)
(***************************************************************************)
EXTENDS Integers, FiniteSets, Sequences

CONSTANTS
  Job,        \* timers that fire
  Ways,       \* set of [Job -> "http", "callback", "tcp" or "zmq"]: what they go out by
  Addr,       \* [Job -> where its callback goes]
  Odd,        \* jobs whose method is none the transport knows
  Paths,      \* the names of the configured transports, in order
  Nobody,
  PoolMax,    \* connections of a pool (max)
  MaxErrors   \* bound: connections and sockets that fail

(* A timer of a transport that is not configured goes nowhere (timer.js    *)
(* 165-168); it is none of the jobs.                                       *)
ASSUME TransportsAssumption ==
  /\ Ways \subseteq [Job -> {"http", "callback", "tcp", "zmq"}] /\ DOMAIN Addr = Job
  /\ Odd \subseteq Job /\ Nobody \notin Job
  /\ Paths \in Seq(STRING)
  /\ \A w \in Ways, j \in Job : w[j] \in {"tcp", "zmq"} => \E i \in DOMAIN Paths : Paths[i] = w[j]
  /\ PoolMax \in Nat \ {0} /\ MaxErrors \in Nat

VARIABLES
  way,        \* one of Ways
  jobs,
  pools,      \* every pool there was: <<[addr, draining]>>
  inMap,      \* connections (tcp.js): the pools exec and shutdown find, oldest first
  conns,      \* every connection of a pool: <<[pool, user, state]>>
  sockets,    \* connections (zmq.js): addresses with a socket
  closing,    \* names of the transports still to be shut down; <<"open">> before that
  cursor,     \* the pool the shutdown of tcp is at
  faults

transportVars == <<way, jobs, pools, inMap, conns, sockets, closing, cursor, faults>>

(* kLoad (120-154): a second transport of a name throws, and none starts.  *)
Loads(paths) == \A i, j \in DOMAIN paths : i # j => paths[i] # paths[j]
Registry == <<"http", "callback">> \o Paths

Open == <<"open">>

TransportsInit ==
  /\ Loads(Registry) /\ way \in Ways
  /\ jobs = [j \in Job |-> [stage |-> "idle", pool |-> 0, delivered |-> FALSE, late |-> FALSE]]
  /\ pools = <<>> /\ inMap = {} /\ conns = <<>> /\ sockets = {}
  /\ closing = Open /\ cursor = 0 /\ faults = 0

Concluded(j) == jobs[j].stage \in {"success", "failure"}
Oldest(ps) == CHOOSE p \in ps : \A q \in ps : p <= q

----------------------------------------------------------------------------
(* Executing a timer. *)

Become(j, stage) ==
  jobs' = [jobs EXCEPT ![j].stage = stage, ![j].late = closing # Open,
                       ![j].delivered = stage = "success"]

(* http.js 47-58, callback.js 13-18 *)
ExecHttp(j) ==
  /\ jobs[j].stage = "idle" /\ way[j] \in {"http", "callback"}
  /\ Become(j, IF way[j] = "http" /\ j \in Odd THEN "failure" ELSE "request")
  /\ UNCHANGED <<way, pools, inMap, conns, sockets, closing, cursor, faults>>

(* The response (http.js 66-81), or setImmediate. *)
RespondHttp(j) ==
  /\ jobs[j].stage = "request"
  /\ \/ jobs' = [jobs EXCEPT ![j].stage = "success", ![j].delivered = TRUE]
     \/ way[j] = "http" /\ jobs' = [jobs EXCEPT ![j].stage = "failure"]
  /\ UNCHANGED <<way, pools, inMap, conns, sockets, closing, cursor, faults>>

(* zmq.js 54-75 and 90-124: an existing socket is used whatever the method. *)
ExecZmq(j) ==
  /\ jobs[j].stage = "idle" /\ way[j] = "zmq"
  /\ \/ /\ Addr[j] \in sockets \/ j \notin Odd
        /\ Become(j, "success")
        /\ sockets' = sockets \cup {Addr[j]}
     \/ /\ Addr[j] \notin sockets          \* not a method, or the bind failed
        /\ Become(j, "failure")
        /\ UNCHANGED sockets
  /\ UNCHANGED <<way, pools, inMap, conns, closing, cursor, faults>>

(* tcp.js 16-18 and 52-88: a new pool starts with a connection, and a pool *)
(* that drains gives none.                                                 *)
ExecTcp(j) ==
  LET found == {p \in inMap : pools[p].addr = Addr[j]}
      at == IF found # {} THEN Oldest(found) ELSE Len(pools) + 1
  IN
  /\ jobs[j].stage = "idle" /\ way[j] = "tcp"
  /\ IF found # {} THEN UNCHANGED <<pools, inMap, conns>>
     ELSE /\ pools' = Append(pools, [addr |-> Addr[j], draining |-> FALSE])
          /\ inMap' = inMap \cup {at}
          /\ conns' = Append(conns, [pool |-> at, user |-> Nobody, state |-> "open"])
  /\ jobs' = [jobs EXCEPT ![j].pool = at, ![j].late = closing # Open,
                ![j].stage = IF found # {} /\ pools[at].draining THEN "failure" ELSE "acquire"]
  /\ UNCHANGED <<way, sockets, closing, cursor, faults>>

----------------------------------------------------------------------------
(* The connections of a pool. *)

Of(p) == {i \in DOMAIN conns : conns[i].pool = p /\ conns[i].state # "gone"}
Lent(p) == {i \in Of(p) : conns[i].user # Nobody}

(* What is left of the idle connections after a look at them (validate). *)
Valid(p) ==
  [i \in DOMAIN conns |-> IF i \in Of(p) \ Lent(p) /\ conns[i].state = "broken"
                          THEN [conns[i] EXCEPT !.state = "gone"] ELSE conns[i]]

(* acquire resolves, and the payload is written. *)
Acquire(j) ==
  LET p == jobs[j].pool
      idle == {i \in Of(p) \ Lent(p) : conns[i].state = "open"}
  IN
  /\ jobs[j].stage = "acquire"
  /\ \/ /\ idle # {}
        /\ conns' = [Valid(p) EXCEPT ![Oldest(idle)].user = j]
     \/ /\ idle = {} /\ Cardinality(Lent(p)) < PoolMax
        /\ conns' = Append(Valid(p), [pool |-> p, user |-> j, state |-> "open"])
  /\ jobs' = [jobs EXCEPT ![j].stage = "write"]
  /\ UNCHANGED <<way, pools, inMap, sockets, closing, cursor, faults>>

(* Faulty variant: the connection is not released. *)
WrittenKept(j) ==
  /\ jobs[j].stage = "write"
  /\ jobs' = [jobs EXCEPT ![j].stage = "success", ![j].delivered = TRUE]
  /\ UNCHANGED <<way, pools, inMap, conns, sockets, closing, cursor, faults>>

(* The callback of write (21-24).  It takes no error: it comes as well when *)
(* the connection broke first.                                             *)
Written(j) ==
  LET i == CHOOSE i \in DOMAIN conns : conns[i].user = j IN
  /\ jobs[j].stage = "write"
  /\ jobs' = [jobs EXCEPT ![j].stage = "success", ![j].delivered = conns[i].state = "open"]
  /\ conns' = [conns EXCEPT ![i].user = Nobody]
  /\ UNCHANGED <<way, pools, inMap, sockets, closing, cursor, faults>>

(* The error of a connection (62-66): a lent one leaves its pool; destroy  *)
(* refuses an idle one.  Whatever pool is in the map for the address then  *)
(* is forgotten.                                                           *)
BreakConnection(i) ==
  /\ faults < MaxErrors /\ conns[i].state = "open"
  /\ faults' = faults + 1
  /\ conns' = [conns EXCEPT ![i].state = IF conns[i].user = Nobody THEN "broken" ELSE "gone"]
  /\ inMap' = {p \in inMap : pools[p].addr # pools[conns[i].pool].addr}
  /\ UNCHANGED <<way, jobs, pools, sockets, closing, cursor>>

(* zmq.js 115-121 *)
BreakSocket(a) ==
  /\ faults < MaxErrors /\ a \in sockets
  /\ faults' = faults + 1 /\ sockets' = sockets \ {a}
  /\ UNCHANGED <<way, jobs, pools, inMap, conns, closing, cursor>>

----------------------------------------------------------------------------
(* Shutting down: the last registered first. *)

Shutdown ==
  /\ closing = Open
  /\ closing' = Registry
  /\ UNCHANGED <<way, jobs, pools, inMap, conns, sockets, cursor, faults>>

Turn == closing \notin {Open, <<>>}
Current == closing[Len(closing)]
Rest == SubSeq(closing, 1, Len(closing) - 1)

(* run (158-166), for a transport that is done at once (transport.js 17-19, *)
(* zmq.js 77-88).                                                          *)
ShutSimple ==
  /\ Turn /\ Current # "tcp"
  /\ sockets' = IF Current = "zmq" THEN {} ELSE sockets
  /\ closing' = Rest
  /\ UNCHANGED <<way, jobs, pools, inMap, conns, cursor, faults>>

(* run (36-39): the iterator goes on to the next pool in the map, one that *)
(* came while it waited included, and drains it; or tcp is done.           *)
Visit(map) ==
  LET ahead == {p \in map : p > cursor} IN
  /\ inMap' = map
  /\ IF ahead = {} THEN closing' = Rest /\ cursor' = 0 /\ UNCHANGED pools
     ELSE /\ cursor' = Oldest(ahead)
          /\ pools' = [pools EXCEPT ![Oldest(ahead)].draining = TRUE]
          /\ UNCHANGED closing

ShutTcp ==
  /\ Turn /\ Current = "tcp" /\ cursor = 0
  /\ Visit(inMap)
  /\ UNCHANGED <<way, jobs, conns, sockets, faults>>

(* Faulty variant: a pool is not drained before it is cleared. *)
DrainedAtOnce ==
  /\ cursor # 0
  /\ Visit({p \in inMap : pools[p].addr # pools[cursor].addr})
  /\ conns' = [i \in DOMAIN conns |-> IF i \in Of(cursor) \ Lent(cursor)
                                      THEN [conns[i] EXCEPT !.state = "gone"] ELSE conns[i]]
  /\ UNCHANGED <<way, jobs, sockets, faults>>

(* drain has resolved (41-46): all that waited had a connection, and gave  *)
(* it back.  What the map has for the address goes, and the idle           *)
(* connections with it.                                                    *)
Drained ==
  /\ cursor # 0
  /\ \A j \in Job : jobs[j].pool = cursor => Concluded(j) \/ jobs[j].stage = "idle"
  /\ Visit({p \in inMap : pools[p].addr # pools[cursor].addr})
  /\ conns' = [i \in DOMAIN conns |-> IF i \in Of(cursor)
                                      THEN [conns[i] EXCEPT !.state = "gone"] ELSE conns[i]]
  /\ UNCHANGED <<way, jobs, sockets, faults>>

TransportsNext ==
  \/ \E j \in Job : ExecHttp(j) \/ RespondHttp(j) \/ ExecZmq(j) \/ ExecTcp(j)
                    \/ Acquire(j) \/ Written(j)
  \/ \E i \in DOMAIN conns : BreakConnection(i)
  \/ \E a \in sockets : BreakSocket(a)
  \/ Shutdown \/ ShutSimple \/ ShutTcp \/ Drained

(* Callbacks and promises come, and a free connection is given to someone  *)
(* who waits for one.  Nothing is assumed of the endpoints: http.js 62-66  *)
(* sets no timeout for a response, tcp.js 20-24 none for a write.          *)
TransportsFairness ==
  /\ WF_transportVars(\E j \in Job : \/ Acquire(j)
                                     \/ way[j] = "callback" /\ RespondHttp(j))
  /\ WF_transportVars(ShutSimple \/ ShutTcp \/ Drained)

TransportsSpec == TransportsInit /\ [][TransportsNext]_transportVars /\ TransportsFairness

----------------------------------------------------------------------------
(* Every variable has its type. *)
TransportsTypeOK ==
  /\ jobs \in [Job -> [stage : {"idle", "request", "acquire", "write", "success", "failure"},
                       pool : 0 .. Len(pools), delivered : BOOLEAN, late : BOOLEAN]]
  /\ \A p \in DOMAIN pools : pools[p].draining \in BOOLEAN
  /\ inMap \subseteq DOMAIN pools
  /\ \A i \in DOMAIN conns : /\ conns[i].pool \in DOMAIN pools
                             /\ conns[i].user \in Job \cup {Nobody}
                             /\ conns[i].state \in {"open", "broken", "gone"}
  /\ cursor \in 0 .. Len(pools) /\ faults \in 0 .. MaxErrors

(* While no connection breaks, every timer that was handed to a transport  *)
(* with connections before the shutdown is done with when the shutdown     *)
(* calls back, and no connection or socket is left open but for timers     *)
(* that fired during it (tcp.js 34-50, zmq.js 77-88).  With connections    *)
(* that break it is not so: a pool is forgotten with the others' lent      *)
(* connections in it (62-66).                                              *)
DrainedBeforeClosed ==
  /\ TransportsTypeOK
  /\ closing = <<>> /\ faults = 0 =>
    /\ \A j \in Job : way[j] \in {"tcp", "zmq"} /\ ~jobs[j].late =>
         jobs[j].stage \in {"idle", "success", "failure"}
    /\ \A i \in DOMAIN conns : conns[i].state = "open" => \E j \in Job : jobs[j].late
    /\ sockets # {} => \E j \in Job : jobs[j].late

(* The endpoint at an address leaves no request without an answer, and no  *)
(* write unread, for ever.                                                 *)
Attends(addr) ==
  []<>(\A j \in Job : Addr[j] = addr /\ way[j] # "callback" =>
                        jobs[j].stage \notin {"request", "write"})

(* A timer that is executed concludes, whatever breaks and during a        *)
(* shutdown too (exec of http.js, tcp.js and zmq.js), if the endpoint it   *)
(* goes to attends to what it is sent: whatever the other endpoints do, no *)
(* timer waits for ever for a connection.  And if whoever a timer is       *)
(* written to by tcp reads it, the shutdown of the transports calls back,  *)
(* which the server's close waits for (timer.js 451, 474).                 *)
DeliveriesEnd ==
  /\ \A j \in Job : Attends(Addr[j]) => []<>(jobs[j].stage = "idle" \/ Concluded(j))
  /\ (\A j \in Job : []<>(jobs[j].stage # "write")) => []<>(closing \in {Open, <<>>})

(* A timer acknowledged as delivered successfully (timer.js, success) was. *)
SuccessIsDelivered == \A j \in Job : jobs[j].stage = "success" => jobs[j].delivered
=============================================================================
