------------------------------- MODULE MCTraffic ------------------------------
(***************************************************************************)
(* What a node sends and receives besides gossip, side by side: requests   *)
(* for timers and their way through the cluster, requests between ringpop  *)
(* nodes, deliveries of timers that fired, and attempts to discover hosts. *)
(* They share nothing, so every behaviour moves one of them, which `part`  *)
(* names, and leaves the others where they started.                        *)
(***************************************************************************)
EXTENDS Service, ClientRequests, Transports, Discovery

CONSTANTS a, b, c, r1, r2, c1, c2, j1, j2, j3

\* Two requests, whose timers belong to different nodes.  The second one is a
\* POST without a retry; the first one may be anything, and is retried once.
Closest == [r \in Request |-> [n \in Peers |->
              CASE n = c -> 1 [] n = a -> (IF r = r1 THEN 2 ELSE 3)
                              [] n = b -> (IF r = r1 THEN 3 ELSE 2)]]
Methods == [r \in Request |->
              IF r = r1 THEN {"PUT"} \X {"valid", "invalid", "broken"}
                             \cup {"GET", "HEAD"} \X {"valid"}
              ELSE {<<"POST", "valid">>}]
Tries == [r \in Request |-> IF r = r1 THEN 1 ELSE 0]

Endpoints == [x \in Call |-> IF x = c1 THEN "join" ELSE "ping"]

\* Timers go out over one transport or over two.
By(x, y, z) == [j \in Job |-> CASE j = j1 -> x [] j = j2 -> y [] j = j3 -> z]
SomeWays == {By("tcp", "tcp", "tcp"), By("zmq", "tcp", "zmq"), By("http", "callback", "http")}
Where == [j \in Job |-> IF j = j3 THEN "far" ELSE "near"]
Extra == <<"tcp", "zmq">>

Limits == {0, 2, Unlimited}

VARIABLE part
all == <<serviceVars, clientVars, transportVars, discoverVars, part>>

Init ==
  /\ part \in {"service", "clients", "transports", "discovery"}
  /\ ServiceInit /\ ClientInit /\ TransportsInit /\ DiscoverInit
  /\ part # "service" => pressure
  /\ part # "transports" => way = By("tcp", "tcp", "tcp")
  /\ part # "discovery" => policy = CHOOSE p \in Policies : TRUE

Next ==
  /\ UNCHANGED part
  /\ \/ /\ part = "service" /\ ServiceNext
        /\ UNCHANGED <<clientVars, transportVars, discoverVars>>
     \/ /\ part = "clients" /\ ClientNext
        /\ UNCHANGED <<serviceVars, transportVars, discoverVars>>
     \/ /\ part = "transports" /\ TransportsNext
        /\ UNCHANGED <<serviceVars, clientVars, discoverVars>>
     \/ /\ part = "discovery" /\ DiscoverNext
        /\ UNCHANGED <<serviceVars, clientVars, transportVars>>

Spec == /\ Init /\ [][Next]_all
        /\ ServiceFairness /\ ClientFairness /\ TransportsFairness
        /\ DiscoverFairness
=============================================================================
