------------------------------- MODULE HashRing -------------------------------
(***************************************************************************)
(* The consistent hash ring (lib/ring/index.js): every server has a point  *)
(* for each of its replicas, the points are kept in a red-black tree, and  *)
(* a key belongs to the server of the next point.  The hashes are any      *)
(* table of numbers, with collisions.  HashRing implements Ring.           *)
(***************************************************************************)
EXTENDS RBTree, FiniteSetsExt, SequencesExt

CONSTANTS
  Server,       \* the servers, as numbers: their addresses are ordered
  HashOf,       \* HashOf[s][i]: the hash of replica i of server s
  KeyHash,      \* the hashes of the keys that are looked up
  MaxWanted     \* bound: n of lookupN

ASSUME HashRingAssumption ==
  /\ IsFiniteSet(Server) /\ Server \subseteq Nat \ {0} /\ MaxWanted \in Nat
  /\ \A s \in Server : HashOf[s] \in Seq(Nat) /\ HashOf[s] # << >>
  /\ KeyHash \subseteq Nat /\ Nil \notin Nat

VARIABLES
  tree,       \* rbtree
  servers,    \* servers
  checksum,   \* of the names of servers: a hash that knows every set
  found       \* what the last lookup answered, and to what
ringVars == <<tree, servers, checksum, found>>

RingInit == tree = EmptyTree /\ servers = {} /\ checksum = Nil /\ found = Nil

----------------------------------------------------------------------------
(* addServerReplicas, removeServerReplicas (73-91, 172-180). *)
AddReplicas(t, s) ==
  LET walk[i \in 0..Len(HashOf[s])] ==
        IF i = 0 THEN t ELSE Insert(walk[i - 1], <<HashOf[s][i], s>>)
  IN walk[Len(HashOf[s])]
RemoveReplicas(t, s) ==
  LET walk[i \in 0..Len(HashOf[s])] ==
        IF i = 0 THEN t ELSE RemoveNode(walk[i - 1], <<HashOf[s][i], s>>)
  IN walk[Len(HashOf[s])]

(* Nothing if there is nothing to do. *)
WithServer(r, s) ==
  IF s \in r.servers THEN r
  ELSE [servers |-> r.servers \cup {s}, tree |-> AddReplicas(r.tree, s)]
WithoutServer(r, s) ==
  IF s \notin r.servers THEN r
  ELSE [servers |-> r.servers \ {s}, tree |-> RemoveReplicas(r.tree, s)]
WithServers(r, list) ==
  LET walk[i \in 0..Len(list)] == IF i = 0 THEN r ELSE WithServer(walk[i - 1], list[i])
  IN walk[Len(list)]
WithoutServers(r, list) ==
  LET walk[i \in 0..Len(list)] == IF i = 0 THEN r ELSE WithoutServer(walk[i - 1], list[i])
  IN walk[Len(list)]

Ring == [servers |-> servers, tree |-> tree]
Becomes(r) ==
  /\ servers' = r.servers /\ tree' = r.tree /\ checksum' = r.servers
  /\ UNCHANGED found
(* addServer (62-71), removeServer (161-170). *)
AddServer(s) == s \notin servers /\ Becomes(WithServer(Ring, s))
RemoveServer(s) == s \in servers /\ Becomes(WithoutServer(Ring, s))

(* addRemoveServers (93-129): all additions come first. *)
AddRemoveServers(toAdd, toRemove) ==
  \E between \in {WithServers(Ring, toAdd)} :
    \E after \in {WithoutServers(between, toRemove)} :
      /\ ~(between.servers = servers /\ after.servers = between.servers)
      /\ Becomes(after)

Owner(point) == IF point = Nil THEN Nil ELSE point[2]
(* Faulty variant: the ring is a line. *)
LookupInLine(t, h) == Owner(UpperBound(t, <<h, 0>>).cursor)
(* lookup (182-192). *)
LookupIn(t, h) ==
  LET i == UpperBound(t, <<h, 0>>) IN
  IF i.cursor # Nil THEN Owner(i.cursor)
  ELSE IF Root(t) = Nil THEN Nil ELSE Owner(MinNode(t, << >>, Root(t)).cursor)

(* lookupN (195-228): at most once around. *)
LookupNIn(t, h, n) ==
  LET start == UpperBound(t, <<h, 0>>)
      wanted == Min({n, Cardinality(servers)})
      walk[k \in 0..Cardinality(t.nodes)] ==
        IF k = 0 THEN [iter |-> start, result |-> << >>, done |-> FALSE]
        ELSE LET w == walk[k - 1]
                 s == Owner(w.iter.cursor)
                 result == IF s = Nil \/ s \in Range(w.result) THEN w.result
                           ELSE Append(w.result, s)
                 next == NextOf(t, IF s = Nil THEN NoIterator ELSE w.iter)
             IN IF w.done THEN w
                ELSE [iter |-> next, result |-> result,
                      done |-> Len(result) >= wanted \/ next.cursor = start.cursor]
  IN walk[Cardinality(t.nodes)].result

Lookup(h) ==
  /\ found' = [hash |-> h, n |-> 0, answer |-> <<LookupIn(tree, h)>>]
  /\ UNCHANGED <<tree, servers, checksum>>
LookupN(h, n) ==
  /\ found' = [hash |-> h, n |-> n, answer |-> LookupNIn(tree, h, n)]
  /\ UNCHANGED <<tree, servers, checksum>>

(* The lists of servers that arrive together are short (bound). *)
Lists == {<< >>} \cup {<<s>> : s \in Server} \cup {l \in Server \X Server : l[1] # l[2]}
RingNext ==
  \/ \E s \in Server : AddServer(s) \/ RemoveServer(s)
  \/ \E add, remove \in Lists : AddRemoveServers(add, remove)
  \/ \E h \in KeyHash : Lookup(h) \/ \E n \in 1..MaxWanted : LookupN(h, n)
RingSpec == RingInit /\ [][RingNext]_ringVars

----------------------------------------------------------------------------
(* Whatever the order in which servers come and go, and whichever hashes   *)
(* collide, the tree is a red-black tree of the points of the servers      *)
(* (rbtree.js 72-234).                                                     *)
TreeIsRedBlack ==
  /\ IsRedBlack(tree)
  /\ KeysOf(tree) = UNION {{<<HashOf[s][i], s>> : i \in DOMAIN HashOf[s]} : s \in servers}

(* The ring answers as the abstract ring does, which knows its servers     *)
(* only.                                                                   *)
Abstract == INSTANCE Ring WITH
  servers <- servers, checksum <- checksum, found <- found
RingImplements == Abstract!Spec
=============================================================================
