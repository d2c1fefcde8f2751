--------------------------------- MODULE Ring ---------------------------------
(***************************************************************************)
(* What a consistent hash ring promises: the servers stand at their points *)
(* on a circle, and a key belongs to the servers one meets when one walks  *)
(* on from its hash, in that order.  How the points are stored, and in     *)
(* which order servers came, does not matter.                              *)
(***************************************************************************)
EXTENDS Integers, Sequences, FiniteSets

CONSTANTS Nil, Server, HashOf, KeyHash, MaxWanted

VARIABLES servers, checksum, found
vars == <<servers, checksum, found>>

Points == UNION {{<<HashOf[s][i], s>> : i \in DOMAIN HashOf[s]} : s \in servers}

(* Walking on from hash h, one meets p before q. *)
Before(h, p, q) ==
  \/ p[1] >= h /\ q[1] < h
  \/ /\ p[1] >= h <=> q[1] >= h
     /\ p[1] < q[1] \/ (p[1] = q[1] /\ p[2] < q[2])
FirstOf(h, s) ==
  CHOOSE p \in Points : p[2] = s /\ \A q \in Points \ {p} : q[2] = s => Before(h, p, q)

(* The servers in the order in which their first points are met. *)
Rank(h, s) ==
  1 + Cardinality({x \in servers \ {s} : Before(h, FirstOf(h, x), FirstOf(h, s))})
Preference(h) ==
  [k \in 1..Cardinality(servers) |-> CHOOSE s \in servers : Rank(h, s) = k]

Init == servers = {} /\ checksum = Nil /\ found = Nil

Change == /\ servers' \in SUBSET Server /\ checksum' = servers'
          /\ UNCHANGED found
Lookup(h) ==
  /\ found' = [hash |-> h, n |-> 0,
               answer |-> <<IF servers = {} THEN Nil ELSE Preference(h)[1]>>]
  /\ UNCHANGED <<servers, checksum>>
LookupN(h, n) ==
  /\ found' = [hash |-> h, n |-> n,
               answer |-> SubSeq(Preference(h), 1,
                            IF n < Cardinality(servers) THEN n ELSE Cardinality(servers))]
  /\ UNCHANGED <<servers, checksum>>

Next == Change \/ \E h \in KeyHash : Lookup(h) \/ \E n \in 1..MaxWanted : LookupN(h, n)
Spec == Init /\ [][Next]_vars
=============================================================================
