-------------------------------- MODULE Joiner -------------------------------
(***************************************************************************)
(* How a node joins a cluster (ringpop/lib/gossip/joiner.js): it asks      *)
(* groups of bootstrap hosts for their member lists until enough of them   *)
(* have answered, merges the answers, and gives them to its membership.    *)
(*                                                                         *)
(* An action is a callback: an answer, a request that failed, the delay    *)
(* before the next group, the destruction of the node.  The length of the  *)
(* delays is left out.                                                     *)
(***************************************************************************)
EXTENDS Naturals, Sequences, FiniteSets

CONSTANTS
  Host,       \* bootstrap hosts other than this node
  Preferred,  \* those on another machine than this node
  JoinSize,   \* how many should answer
  Factor,     \* parallelismFactor
  Self,       \* this node, which other nodes may list too
  MaxInc,     \* the newest incarnation there can be
  List        \* member lists a host may answer with: address -> incarnation

ASSUME JoinerAssumption ==
  /\ IsFiniteSet(Host) /\ Host # {} /\ Preferred \subseteq Host /\ Self \notin Host
  /\ JoinSize \in Nat \ {0} /\ Factor \in Nat \ {0}
  /\ MaxInc \in Nat
  /\ \A l \in List : \A a \in DOMAIN l : l[a] \in 0..MaxInc

VARIABLES
  phase,      \* of the join: "idle", "asking", "delayed", "joined", "failed"
  round,      \* hosts that this round has not asked yet
  group,      \* hosts asked last
  flying,     \* hosts whose answer is still out
  answered,   \* hosts of the group that answered
  refused,    \* hosts of the group that failed
  joined,     \* hosts of earlier groups that answered
  count,      \* numJoined
  responses,  \* joinResponses, until the join is complete
  merged,     \* what the membership was given
  told,       \* history: the lists the hosts answered with
  overdue,    \* maxJoinDuration has passed
  destroyed,
  called      \* how often the callback of join was called

groupVars == <<group, answered, refused>>
joinVars == <<phase, joined, count, merged, called>>
vars == <<round, groupVars, joinVars, flying, responses, told, overdue, destroyed>>

TypeOK ==
  /\ phase \in {"idle", "asking", "delayed", "joined", "failed"}
  /\ round \subseteq Host /\ group \subseteq Host /\ flying \subseteq Host
  /\ answered \subseteq group /\ refused \subseteq group
  /\ joined \subseteq Host /\ count \in Nat
  /\ responses \in Seq(List)
  /\ DOMAIN told \subseteq Host /\ \A h \in DOMAIN told : told[h] \in List
  /\ overdue \in BOOLEAN /\ destroyed \in BOOLEAN /\ called \in Nat

NoList == [a \in {} |-> 0]

Init ==
  /\ phase = "idle"
  /\ round = {} /\ group = {} /\ flying = {} /\ answered = {} /\ refused = {}
  /\ joined = {} /\ count = 0 /\ responses = <<>> /\ merged = NoList
  /\ told = NoList
  /\ overdue = FALSE /\ destroyed = FALSE /\ called = 0

----------------------------------------------------------------------------
(* Needed: no more can join than there are. *)
Needed == IF JoinSize <= Cardinality(Host) THEN JoinSize ELSE Cardinality(Host)

(* Faulty variant: a new round has the hosts that joined before, too. *)
RoundUnfiltered(done) == IF round = {} THEN Host ELSE round

(* The hosts to choose from: a new round starts when one is exhausted. *)
Round(done) == IF round = {} THEN Host \ done ELSE round

(* selectGroup (412-450): a multiple of what is missing, or all there are, *)
(* those on other machines first.                                          *)
Groups(done) ==
  LET from == Round(done)
      want == (Needed - Cardinality(done)) * Factor
      size == IF want <= Cardinality(from) THEN want ELSE Cardinality(from)
  IN {G \in SUBSET from :
        /\ Cardinality(G) = size
        /\ G \subseteq Preferred \/ from \cap Preferred \subseteq G}

(* joinGroup (324-379) *)
JoinGroup(done) ==
  /\ \E G \in Groups(done) :
       /\ group' = G
       /\ round' = Round(done) \ G
       /\ flying' = flying \cup G
  /\ answered' = {} /\ refused' = {}

Call == called' = called + 1

(* mergeMembershipChangesets: the newest of what is said of each address. *)
MergeChangesets(all) ==
  LET said == (UNION {DOMAIN all[i] : i \in DOMAIN all}) \ {Self}
      incs(a) == {all[i][a] : i \in {i \in DOMAIN all : a \in DOMAIN all[i]}}
  IN [a \in said |-> CHOOSE m \in incs(a) : \A o \in incs(a) : o <= m]

(* mergeJoinResponses: when the checksums are equal so are the lists, and  *)
(* the first one is taken as it is.                                        *)
Merge(all) ==
  IF all = <<>> THEN NoList
  ELSE IF \A i, j \in DOMAIN all : all[i] = all[j] THEN all[1]
  ELSE MergeChangesets(all)

(* The group is complete: onJoin of join (200-321) is called with the hosts *)
(* that answered.                                                           *)
GroupDone(good, all) ==
  \/ /\ destroyed
     /\ phase' = "failed" /\ Call
     /\ UNCHANGED <<joined, count, merged>>
  \/ /\ ~destroyed
     /\ joined' = joined \cup good
     /\ count' = count + Cardinality(good)
     /\ \/ /\ count' >= Needed
           /\ merged' = Merge(all)
           /\ phase' = "joined" /\ Call
        \/ /\ count' < Needed /\ overdue
           /\ phase' = "failed" /\ Call
           /\ UNCHANGED merged
        \/ /\ count' < Needed /\ ~overdue
           /\ phase' = "delayed"
           /\ UNCHANGED <<merged, called>>

(* Faulty variant: only answers complete a group, failures do not. *)
CollectGood(good, bad, all) ==
  LET complete == Cardinality(good) >= Needed - Cardinality(joined)
  IN
  /\ answered' = good /\ refused' = bad
  /\ \/ /\ complete
        /\ GroupDone(good, all)
     \/ /\ ~complete
        /\ UNCHANGED joinVars
  /\ UNCHANGED group

(* onJoin of joinGroup (340-374): complete when every host has answered or  *)
(* failed, or enough of them answered.                                      *)
Collect(good, bad, all) ==
  LET complete == \/ Cardinality(good) >= Needed - Cardinality(joined)
                  \/ Cardinality(good) + Cardinality(bad) >= Cardinality(group)
  IN
  /\ answered' = good /\ refused' = bad
  /\ \/ /\ complete
        /\ GroupDone(good, all)
     \/ /\ ~complete
        /\ UNCHANGED joinVars
  /\ UNCHANGED group

----------------------------------------------------------------------------
(* join (167-198) *)
Join ==
  /\ phase = "idle"
  /\ \/ /\ ~destroyed
        /\ JoinGroup({})
        /\ phase' = "asking"
        /\ UNCHANGED called
     \/ /\ destroyed
        /\ phase' = "failed" /\ Call
        /\ UNCHANGED <<round, groupVars, flying>>
  /\ UNCHANGED <<joined, count, merged, responses, told, overdue, destroyed>>

(* Faulty variant: the group is told of an answer before it is kept. *)
AnswerUnkept(h, l) ==
  /\ h \in flying
  /\ flying' = flying \ {h}
  /\ told' = [x \in DOMAIN told \cup {h} |-> IF x = h THEN l ELSE told[x]]
  /\ \/ /\ phase = "asking"
        /\ Collect(answered \cup {h}, refused, responses)
        /\ responses' = IF phase' = "joined" THEN <<>> ELSE Append(responses, l)
     \/ /\ phase # "asking"
        /\ responses' = IF phase = "joined" THEN responses ELSE Append(responses, l)
        /\ UNCHANGED <<groupVars, joinVars>>
  /\ UNCHANGED <<round, overdue, destroyed>>

(* joinNode (381-410): host h answers with list l.  After the join is over  *)
(* nobody hears it; after a successful one it is not kept either.           *)
Answer(h, l) ==
  /\ h \in flying
  /\ flying' = flying \ {h}
  /\ told' = [x \in DOMAIN told \cup {h} |-> IF x = h THEN l ELSE told[x]]
  /\ \/ /\ phase = "asking"
        /\ Collect(answered \cup {h}, refused, Append(responses, l))
        /\ responses' = IF phase' = "joined" THEN <<>> ELSE Append(responses, l)
     \/ /\ phase # "asking"
        /\ responses' = IF phase = "joined" THEN responses ELSE Append(responses, l)
        /\ UNCHANGED <<groupVars, joinVars>>
  /\ UNCHANGED <<round, overdue, destroyed>>

(* A request failed, or timed out. *)
Refuse(h) ==
  /\ h \in flying
  /\ flying' = flying \ {h}
  /\ \/ /\ phase = "asking"
        /\ Collect(answered, refused \cup {h}, responses)
     \/ /\ phase # "asking"
        /\ UNCHANGED <<groupVars, joinVars>>
  /\ UNCHANGED <<round, responses, told, overdue, destroyed>>

(* The delay before the next group is over. *)
NextGroup ==
  /\ phase = "delayed"
  /\ phase' = "asking"
  /\ JoinGroup(joined)
  /\ UNCHANGED <<joined, count, merged, called, responses, told, overdue, destroyed>>

(* Time passes. *)
Expire ==
  /\ phase \in {"asking", "delayed"} /\ ~overdue
  /\ overdue' = TRUE
  /\ UNCHANGED <<round, groupVars, joinVars, flying, responses, told, destroyed>>

Destroy ==
  /\ ~destroyed
  /\ destroyed' = TRUE
  /\ UNCHANGED <<round, groupVars, joinVars, flying, responses, told, overdue>>

Next ==
  \/ Join \/ NextGroup \/ Expire \/ Destroy
  \/ \E h \in Host : Refuse(h) \/ \E l \in List : Answer(h, l)

Spec == Init /\ [][Next]_vars

(* Every request is answered or times out, delays end and time passes. *)
JoinFairness ==
  /\ WF_vars(NextGroup) /\ WF_vars(Expire)
  /\ \A h \in Host : WF_vars(Refuse(h) \/ \E l \in List : Answer(h, l))

FairSpec == Spec /\ JoinFairness

----------------------------------------------------------------------------
(* A join succeeds only when enough different hosts have answered, even    *)
(* when rounds start over and answers come late (joiner.js 221-226, 436).  *)
EnoughJoined ==
  phase = "joined" => Cardinality(joined) >= Needed /\ joined \subseteq DOMAIN told

(* What the membership is given knows all that the joined hosts knew, in   *)
(* an incarnation at least as new, whichever way it was merged.            *)
MergedIsNewest ==
  phase = "joined" =>
    \A h \in joined : \A a \in DOMAIN told[h] \ {Self} :
      a \in DOMAIN merged /\ told[h][a] <= merged[a]

(* The callback of join is called once at most, whatever answers arrive    *)
(* afterwards (calledBack, 198-216 and 344).                               *)
CalledAtMostOnce == called <= 1

(* A join that has begun ends: the callback is called (joiner.js 167).     *)
JoinEnds == phase = "asking" ~> called = 1

----------------------------------------------------------------------------
(* What the proofs rest on. *)

(* The join has counted whom it knows to have joined, and called back once *)
(* when it is over.                                                        *)
Counted ==
  /\ count = Cardinality(joined)
  /\ called = IF phase \in {"joined", "failed"} THEN 1 ELSE 0

(* A host is asked once in a round, and not again when it has joined; a    *)
(* group is asked when the one before is complete.                         *)
AskedOnce ==
  /\ round \cap (joined \cup group) = {}
  /\ flying \cap (joined \cup answered \cup refused) = {} /\ answered \cap refused = {}
  /\ flying \subseteq group
  /\ phase = "asking" => group = flying \cup answered \cup refused /\ group \cap joined = {}
  /\ phase = "delayed" => flying = {}
  /\ phase = "idle" => round \cup flying \cup joined \cup answered = {}

(* What the hosts said is at hand until it is merged. *)
Kept ==
  /\ joined \cup answered \subseteq DOMAIN told
  /\ phase \in {"asking", "delayed"} =>
       \A h \in joined \cup answered : \E i \in DOMAIN responses : responses[i] = told[h]

(* The inductive invariant: a join asks each host until it has joined,     *)
(* keeps what it said, and ends once (joiner.js 167-450).                  *)
Inv == TypeOK /\ Counted /\ AskedOnce /\ Kept /\ EnoughJoined /\ MergedIsNewest
=============================================================================
