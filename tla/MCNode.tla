-------------------------------- MODULE MCNode --------------------------------
(***************************************************************************)
(* What a ringpop node does about its members, side by side: its protocol  *)
(* periods, the damping of members that flap, its own eviction, its ring,  *)
(* and its tracers.  The five share the life of the node and write nothing *)
(* of each other, so every behaviour moves one of them, which `part`       *)
(* names, and leaves the others where they started.                        *)
(***************************************************************************)
EXTENDS Gossip, Damper, SelfEvict, HashRing, TracerStore

VARIABLE part
all == <<gossipVars, dampVars, evictVars, ringVars, traceVars, lifeVars, part>>

\* Hashes that collide between servers, and within one server's replicas.
Hashes == << <<1, 5, 7>>, <<5, 2, 7>>, <<4, 6, 6>> >>

\* A sink that is named and one left to the default, of the two kinds of sink
\* and of one that does not exist, and expiries that lie ahead, have passed, or
\* say nothing.  The second "past" is an expiresAt, which only renews.
Adds ==
  {[type |-> "log", name |-> Omitted, expires |-> "later", valid |-> TRUE],
   [type |-> "log", name |-> DefaultName, expires |-> "later", valid |-> TRUE],
   [type |-> "log", name |-> DefaultName, expires |-> "past", valid |-> TRUE],
   [type |-> "tchannel", name |-> DefaultName, expires |-> "later", valid |-> TRUE],
   [type |-> "tchannel", name |-> DefaultName, expires |-> "past", valid |-> FALSE],
   [type |-> "log", name |-> Omitted, expires |-> "unclear", valid |-> TRUE],
   [type |-> "file", name |-> DefaultName, expires |-> "later", valid |-> TRUE]}
Rems == {<<"log", DefaultName>>, <<"tchannel", DefaultName>>}

Init ==
  /\ part \in {"gossip", "damping", "eviction", "ring", "tracing"}
  /\ LifeInit /\ GossipInit /\ DampInit /\ EvictInit /\ RingInit /\ TraceInit
  /\ part # "gossip" => order = SetToSeq(Peer)

Next ==
  /\ UNCHANGED part
  /\ \/ part = "gossip" /\ GossipNext /\ UNCHANGED <<dampVars, evictVars, ringVars, traceVars>>
     \/ /\ part = "damping" /\ DampNext /\ bootstraps' <= 1   \* bound
        /\ UNCHANGED <<gossipVars, evictVars, ringVars, traceVars>>
     \/ part = "eviction" /\ EvictNext /\ UNCHANGED <<gossipVars, dampVars, ringVars, traceVars>>
     \/ /\ part = "ring" /\ RingNext
        /\ UNCHANGED <<gossipVars, dampVars, evictVars, traceVars, lifeVars>>
     \/ part = "tracing" /\ TraceNext /\ UNCHANGED <<gossipVars, dampVars, evictVars, ringVars>>

Spec ==
  /\ Init /\ [][Next]_all
  /\ GossipFairness /\ DampFairness /\ EvictFairness /\ TraceFairness
=============================================================================
