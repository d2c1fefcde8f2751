-------------------------------- MODULE MCViews -------------------------------
(***************************************************************************)
(* How the nodes' views of the cluster come together: by joining, by       *)
(* gossip once a node is part of the cluster, and by healing when gossip   *)
(* no longer crosses a partition.  Every behaviour moves one of the three, *)
(* which `part` names, and leaves the others where they started.           *)
(***************************************************************************)
EXTENDS Dissemination, Joiner, Healer

CONSTANTS a, b, c, me, h1, h2, h3, h4, g1, g2, g3

\* Three nodes, of which each is pinged by one other, and one watched member.
LimitDef == [k \in 0..Cardinality(Watched) |-> 1 + k]
PingsDef == {<<a, b>>, <<b, c>>, <<c, a>>}

\* Two hosts that agree or disagree about each other, and about the node.
Lists ==
  { [x \in {h1, h2} |-> 1],
    [x \in {h1, h2, me} |-> IF x = h1 THEN 2 ELSE 1] }

VARIABLE part
all == <<disseminationVars, vars, healVars, lifeVars, part>>

ViewsInit ==
  /\ part \in {"gossip", "joining", "healing"}
  /\ Init /\ LifeInit /\ HealInit
  /\ part # "healing" => \A g, h \in Hosts :
                           Home(g) # Home(h) => ~IsPingable(view[Home(g)][h])
  /\ IF part = "gossip" THEN DisseminationInit
     ELSE /\ node = [n \in Node |-> NewNode(0)]
          /\ calls = {} /\ syncs = {} /\ events = 0 /\ jobs = [n \in Node |-> 0]

ViewsNext ==
  /\ UNCHANGED part
  /\ \/ /\ part = "gossip" /\ DisseminationNext
        /\ UNCHANGED <<vars, healVars, lifeVars>>
     \/ /\ part = "joining" /\ Next
        /\ UNCHANGED <<disseminationVars, healVars, lifeVars>>
     \/ /\ part = "healing" /\ HealNextState
        /\ syncing' # {} => bootstraps' <= 1   \* bound
        /\ UNCHANGED <<disseminationVars, vars>>

ViewsSpec ==
  /\ ViewsInit /\ [][ViewsNext]_all
  /\ DisseminationFairness /\ JoinFairness /\ HealFairness
=============================================================================
