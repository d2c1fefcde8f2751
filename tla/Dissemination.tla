---------------------------- MODULE Dissemination ----------------------------
(***************************************************************************)
(* How changes of the membership spread through a ringpop cluster          *)
(* (packages/ringpop): the changes a node still has to tell and how often  *)
(* it told them (lib/gossip/dissemination.js), the pings and ping-reqs     *)
(* that carry them (ping-sender.js, ping-req-sender.js) with their         *)
(* handlers (server/protocol), and the two full syncs that repair what     *)
(* was dropped: the whole member list as the answer to a ping, and the     *)
(* reverse full sync, a join request to the node that pinged.              *)
(*                                                                         *)
(* A belief is a version of a watched member: 0 is "not in the list", then *)
(* alive, faulty, tombstone, alive in the next incarnation, and so on, in  *)
(* the order of Member.shouldProcessGossip.  Requests may time out, before *)
(* or after they are handled, and a node may restart.                      *)
(***************************************************************************)
EXTENDS Integers, FiniteSetsExt

CONSTANTS
  Node,          \* the nodes of the cluster, which all ping each other
  Watched,       \* the members whose versions are told
  None,          \* "no change to tell", "nobody"
  FirstVersion,  \* what every node has in its list when the run begins
  MaxVersion,    \* bound: versions of a member
  PingReqSize,   \* ringpop.pingReqSize
  MaxSyncs,      \* ringpop.maxReverseFullSyncJobs
  Limit,         \* maxPiggybackCount for a number of watched members in the ring
  Pings,         \* bound: who pings whom (a node's iterator visits every member)
  Declarers,     \* bound: the nodes that find out news by themselves
  MaxCalls,      \* bound: requests under way when a ping is sent
  MaxEvents      \* bound: news, timeouts and restarts

ASSUME DisseminationAssumption ==
  /\ IsFiniteSet(Node) /\ IsFiniteSet(Watched)
  /\ None \notin [src : (Node \X (0..MaxEvents)) \cup {None}, count : Nat]
  /\ Pings \subseteq Node \X Node /\ Declarers \subseteq Node
  /\ FirstVersion \in 0..MaxVersion
  /\ MaxVersion \in Nat /\ PingReqSize \in Nat /\ MaxEvents \in Nat
  /\ MaxSyncs \in Nat \ {0} /\ MaxCalls \in Nat \ {0}
  /\ Limit \in [0..Cardinality(Watched) -> Nat \ {0}]

VARIABLES
  node,    \* per node: ready, inc, belief, pending changes, maxPiggybackCount
  calls,   \* pings and ping-reqs of which one side has not seen the end
  syncs,   \* reverse full syncs under way
  jobs,    \* reverseFullSyncJobs
  events   \* bound

disseminationVars == <<node, calls, syncs, jobs, events>>

(* Member.Status of a version, and its part in the ring and the checksum,  *)
(* which leaves tombstones out (generateChecksumString).                   *)
Status(v) == IF v = 0 THEN "unknown" ELSE <<"tombstone", "alive", "faulty">>[(v % 3) + 1]
Servers(b) == {x \in Watched : Status(b[x]) = "alive"}
Checksum(b) == [x \in {y \in Watched : Status(b[y]) \in {"alive", "faulty"}} |-> b[x]]

(* Member.shouldProcessGossip (227-254): a tombstone of an unknown member  *)
(* is not taken.                                                           *)
Newer(v, own) == v > own /\ ~(own = 0 /\ Status(v) = "tombstone")

Origins == (Node \X (0..MaxEvents)) \cup {None}
Pending == [src : Origins, count : Nat] \cup {None}
News == UNION {[S -> [version : 1..MaxVersion, src : Origins]] : S \in SUBSET Watched}
Nothing == [x \in {} |-> None]

(* adjustMaxPiggybackCount (42-59). *)
LimitOf(b) == Limit[Cardinality(Servers(b))]

(* A node that starts, and one whose list was set to the versions b. *)
NewNode(inc) ==
  [ready |-> FALSE, inc |-> inc, belief |-> [x \in Watched |-> 0],
   pending |-> [x \in Watched |-> None], told |-> [x \in Watched |-> 0], limit |-> 1]
Booted(s, b) ==
  [s EXCEPT !.ready = TRUE, !.belief = b, !.limit = LimitOf(b)]

DisseminationInit ==
  /\ node = [n \in Node |-> Booted(NewNode(0), [x \in Watched |-> FirstVersion])]
  /\ calls = {} /\ syncs = {} /\ events = 0
  /\ jobs = [n \in Node |-> 0]

----------------------------------------------------------------------------
(* membership.update (membership/index.js 375-436) and the handlers of     *)
(* 'updated': beliefs that are newer are taken and become changes to tell  *)
(* (recordChange, 156-161); when the servers of the ring changed,          *)
(* maxPiggybackCount is adjusted (152-154).  `told` counts the same as     *)
(* piggybackCount, and is kept when the change is dropped.                 *)
Learn(s, news) ==
  LET fresh == {x \in DOMAIN news : Newer(news[x].version, s.belief[x])}
      after == [x \in Watched |-> IF x \in fresh THEN news[x].version ELSE s.belief[x]]
  IN [s EXCEPT
       !.belief = after,
       !.pending = [x \in Watched |-> IF x \in fresh
                      THEN [src |-> news[x].src, count |-> 0] ELSE @[x]],
       !.told = [x \in Watched |-> IF x \in fresh THEN 0 ELSE @[x]],
       !.limit = IF Servers(after) # Servers(s.belief)
                 THEN LimitOf(after) ELSE @]

(* _issueAs (175-219): the changes to put in a message, and what is left   *)
(* when those told often enough are dropped.  `from` is the sender whose   *)
(* own changes are not sent back to it, or None.                           *)
Unfiltered(s, from) ==
  {x \in Watched : s.pending[x] # None /\ (from = None \/ s.pending[x].src # from)}
Spent(s, from) == {x \in Unfiltered(s, from) : s.pending[x].count >= s.limit}
Issued(s, from) ==
  [x \in Unfiltered(s, from) \ Spent(s, from) |->
     [version |-> s.belief[x], src |-> s.pending[x].src]]
Drop(s, from) ==
  [s EXCEPT !.pending = [x \in Watched |-> IF x \in Spent(s, from) THEN None ELSE @[x]]]

(* piggybackCount++ of the changes that are still the ones issued. *)
Current(s, news) ==
  {x \in DOMAIN news : s.pending[x] # None /\ s.belief[x] = news[x].version}
Count(s, xs) ==
  [s EXCEPT !.pending = [x \in Watched |-> IF x \in xs
                         THEN [s.pending[x] EXCEPT !.count = @ + 1] ELSE s.pending[x]]]
MostTold == Max({Limit[k] : k \in DOMAIN Limit})
Tell(s, xs) ==
  [s EXCEPT !.told = [x \in Watched |-> IF x \in xs
                    THEN Min({@[x] + 1, MostTold}) ELSE @[x]]]
Bump(s, news) == Tell(Count(s, Current(s, news)), Current(s, news))

(* membershipAsChanges (65-80). *)
FullList(s) ==
  [x \in {y \in Watched : s.belief[y] > 0} |-> [version |-> s.belief[x], src |-> None]]

(* Faulty variant: a receiver that has nothing to tell sends nothing. *)
FullSyncNever(s, c) == FALSE
(* issueAsReceiver (113-150): what is answered to call c, whether it is a  *)
(* full sync, and the state of the receiver afterwards.                    *)
FullSync(s, c) ==
  Issued(s, <<c.from, c.inc>>) = Nothing /\ Checksum(s.belief) # c.sum
Reply(s, c) ==
  IF FullSync(s, c) THEN FullList(s) ELSE Issued(s, <<c.from, c.inc>>)
Issuer(s, c) == Bump(Drop(s, <<c.from, c.inc>>), Issued(s, <<c.from, c.inc>>))

(* A request of node `from` in state s (issueAsSender, sendChanges). *)
Request(kind, from, to, target, for, s) ==
  [kind |-> kind, from |-> from, to |-> to, target |-> target, for |-> for,
   news |-> Issued(s, None), inc |-> s.inc, sum |-> Checksum(s.belief),
   stage |-> "sent", open |-> TRUE, reply |-> Nothing]

(* The callback of handlePingReq, once the ping made on behalf of `for`    *)
(* has ended: the calls afterwards, and the state of the node that answers.*)
Relayed(c) == {r \in calls : r.kind = "ping-req" /\ r.stage = "relayed"
                             /\ r.from = c.for /\ r.to = c.from /\ r.target = c.to}
Answered(s, r) ==
  IF r.open THEN {[r EXCEPT !.stage = "answered", !.reply = Reply(s, r)]} ELSE {}

(* What follows a ping that ended: its node is in state s.  A ping on      *)
(* behalf of another node answers the ping-req; a failed one of its own is *)
(* followed by ping-reqs to other nodes (gossip/index.js 170-198).         *)
After(c, s, failed) ==
  IF c.for # None
  THEN \E r \in Relayed(c) :
         /\ node' = [node EXCEPT ![c.from] = Issuer(s, r)]
         /\ calls' = (calls \ {c, r}) \cup Answered(s, r)
  ELSE IF failed /\ c.kind = "ping"
  THEN \E helpers \in kSubset(Min({PingReqSize, Cardinality(Node) - 2}),
                                Node \ {c.from, c.to}) :
         /\ node' = [node EXCEPT ![c.from] = IF helpers = {} THEN s ELSE Drop(s, None)]
         /\ calls' = (calls \ {c})
                       \cup {Request("ping-req", c.from, h, c.to, None, s) : h \in helpers}
  ELSE /\ node' = [node EXCEPT ![c.from] = s]
       /\ calls' = calls \ {c}

----------------------------------------------------------------------------
(* The node learns by itself of a new version of x: a timeout of a state,  *)
(* an unanswered ping, a member that joined through it.                    *)
Declare(n, x) ==
  /\ n \in Declarers /\ node[n].ready /\ node[n].belief[x] < MaxVersion
  /\ events < MaxEvents /\ events' = events + 1
  /\ node' = [node EXCEPT ![n] = Learn(@, [y \in {x} |->
       [version |-> @.belief[x] + 1, src |-> <<n, @.inc>>]])]
  /\ UNCHANGED <<calls, syncs, jobs>>

(* PingSender.send, from a protocol period of n: one at a time. *)
Ping(n, m) ==
  /\ node[n].ready /\ <<n, m>> \in Pings /\ n # m
  /\ ~\E c \in calls : c.from = n /\ c.for = None /\ c.open
  /\ Cardinality(calls) < MaxCalls
  /\ node' = [node EXCEPT ![n] = Drop(@, None)]
  /\ calls' = calls \cup {Request("ping", n, m, m, None, node[n])}
  /\ UNCHANGED <<syncs, jobs, events>>

(* tryStartReverseFullSync (221-245).  The slot only keeps apart two syncs *)
(* with one target.                                                        *)
FreeSlot(n) == Min({k \in 1..MaxSyncs : \A y \in syncs : y.node = n => y.slot # k})
Sync(n, target) ==
  IF jobs[n] >= MaxSyncs THEN UNCHANGED <<syncs, jobs>>
  ELSE /\ syncs' = syncs \cup {[node |-> n, slot |-> FreeSlot(n), target |-> target,
                                stage |-> "asked", list |-> Nothing]}
       /\ jobs' = [jobs EXCEPT ![n] = @ + 1]

(* handlePing (server/protocol/ping.js 26-74). *)
HandlePing(c) ==
  LET s == Learn(node[c.to], c.news) IN
  /\ c \in calls /\ c.kind = "ping" /\ c.stage = "sent" /\ node[c.to].ready
  /\ node' = [node EXCEPT ![c.to] = Issuer(s, c)]
  /\ IF FullSync(s, c) THEN Sync(c.to, c.from) ELSE UNCHANGED <<syncs, jobs>>
  /\ calls' = (calls \ {c}) \cup
       (IF c.open THEN {[c EXCEPT !.stage = "answered", !.reply = Reply(s, c)]} ELSE {})
  /\ UNCHANGED events

(* handlePingReq (server/protocol/ping-req.js 29-66): the changes are      *)
(* taken, the target is pinged, and the answer is made when that has ended.*)
HandlePingReq(c) ==
  LET s == Learn(node[c.to], c.news) IN
  /\ c \in calls /\ c.kind = "ping-req" /\ c.stage = "sent" /\ node[c.to].ready
  /\ node' = [node EXCEPT ![c.to] = Drop(s, None)]
  /\ calls' = (calls \ {c}) \cup {[c EXCEPT !.stage = "relayed"],
                                  Request("ping", c.to, c.target, c.target, c.from, s)}
  /\ UNCHANGED <<syncs, jobs, events>>

(* A node that is not ready refuses (ping.js 29-33, ping-req.js 32-36). *)
RefuseCall(c) ==
  /\ c \in calls /\ c.stage = "sent" /\ ~node[c.to].ready
  /\ calls' = (calls \ {c}) \cup (IF c.open THEN {[c EXCEPT !.stage = "failed"]} ELSE {})
  /\ UNCHANGED <<node, syncs, jobs, events>>

(* The answer arrives.  A ping counts what it told and then takes what it  *)
(* was told (ping-sender.js 84-89); a ping-req the other way round         *)
(* (ping-req-sender.js 74-77).                                             *)
Deliver(c) ==
  LET s == node[c.from] IN
  /\ c \in calls /\ c.stage = "answered"
  /\ After(c, IF c.kind = "ping" THEN Learn(Bump(s, c.news), c.reply)
              ELSE Bump(Learn(s, c.reply), c.news), FALSE)
  /\ UNCHANGED <<syncs, jobs, events>>

(* Faulty variant: what a failed request told is counted as told. *)
FailBumped(c) ==
  /\ c \in calls /\ c.stage = "failed"
  /\ After(c, Count(node[c.from], Current(node[c.from], c.news)), TRUE)
  /\ UNCHANGED <<syncs, jobs, events>>
(* The request failed: nothing is counted (issueAsSender 90-101). *)
Fail(c) ==
  /\ c \in calls /\ c.stage = "failed"
  /\ After(c, node[c.from], TRUE)
  /\ UNCHANGED <<syncs, jobs, events>>

(* pingTimeout or pingReqTimeout: the sender gives up.  The request may be *)
(* handled later, or never.                                                *)
Timeout(c) ==
  /\ c \in calls /\ c.open /\ c.stage # "failed" /\ events < MaxEvents
  /\ events' = events + 1
  /\ \E left \in {{}} \cup (IF c.stage = "answered" THEN {}
                           ELSE {{[c EXCEPT !.open = FALSE]}}) :
       /\ c.stage = "relayed" => left # {}
       /\ calls' = (calls \ {c}) \cup left \cup {[c EXCEPT !.stage = "failed"]}
  /\ UNCHANGED <<node, syncs, jobs>>

(* The join request of a reverse full sync is answered, by any node that   *)
(* runs (server/protocol/join.js 115-147), or fails.                       *)
AnswerSync(y) ==
  /\ y \in syncs /\ y.stage = "asked"
  /\ syncs' = (syncs \ {y}) \cup {[y EXCEPT !.stage = "answered",
                                            !.list = FullList(node[y.target])]}
  /\ UNCHANGED <<node, calls, jobs, events>>
FailSync(y) ==
  /\ y \in syncs /\ y.stage = "asked" /\ events < MaxEvents
  /\ events' = events + 1
  /\ syncs' = (syncs \ {y}) \cup {[y EXCEPT !.stage = "failed"]}
  /\ UNCHANGED <<node, calls, jobs>>

(* Faulty variant: the job of a failed sync is not given back. *)
EndSyncKept(y) ==
  /\ y \in syncs /\ y.stage # "asked"
  /\ syncs' = syncs \ {y}
  /\ node' = [node EXCEPT ![y.node] = Learn(@, y.list)]
  /\ jobs' = [jobs EXCEPT ![y.node] = IF y.stage = "failed" THEN @ ELSE @ - 1]
  /\ UNCHANGED <<calls, events>>
(* onJoin and onReverseFullSync (240-284). *)
EndSync(y) ==
  /\ y \in syncs /\ y.stage # "asked"
  /\ syncs' = syncs \ {y}
  /\ node' = [node EXCEPT ![y.node] = Learn(@, y.list)]
  /\ jobs' = [jobs EXCEPT ![y.node] = @ - 1]
  /\ UNCHANGED <<calls, events>>

(* The process of n dies and starts again, with nothing but its addresses. *)
(* Its own requests and syncs are gone, but a node that pings on its       *)
(* behalf goes on; those that wait for such a ping of n see it fail.       *)
Relays(n) == {c \in calls : c.to = n /\ c.stage = "relayed"}
Restart(n) ==
  /\ node[n].ready /\ events < MaxEvents
  /\ events' = events + 1
  /\ node' = [node EXCEPT ![n] = NewNode(@.inc + 1)]
  /\ calls' = {c \in calls \ Relays(n) : c.from # n}
                \cup {[c EXCEPT !.stage = "failed"] : c \in {d \in Relays(n) : d.open}}
                \cup {[c EXCEPT !.open = FALSE] :
                        c \in {d \in calls : d.from = n /\ d.stage = "relayed"}}
  /\ syncs' = {y \in syncs : y.node # n}
  /\ jobs' = [jobs EXCEPT ![n] = 0]

(* bootstrap (index.js 286-394): the list of a node that answered the join *)
(* is set, without telling it (membership/index.js 329-373): tombstones    *)
(* are left out.                                                           *)
BootstrapNode(n, m) ==
  LET list == node[m].belief IN
  /\ ~node[n].ready /\ node[m].ready
  /\ LET taken == [x \in Watched |-> IF Status(list[x]) = "tombstone" THEN 0 ELSE list[x]]
     IN node' = [node EXCEPT ![n] = Booted(@, taken)]
  /\ UNCHANGED <<calls, syncs, jobs, events>>

DisseminationNext ==
  \/ \E n \in Node : \/ \E x \in Watched : Declare(n, x)
                     \/ \E m \in Node : Ping(n, m) \/ BootstrapNode(n, m)
                     \/ Restart(n)
  \/ \E c \in calls : \/ HandlePing(c) \/ HandlePingReq(c) \/ RefuseCall(c)
                      \/ Deliver(c) \/ Fail(c) \/ Timeout(c)
  \/ \E y \in syncs : AnswerSync(y) \/ FailSync(y) \/ EndSync(y)

(* Requests are answered or time out, syncs end, a starting node joins,    *)
(* and the round robin of MembershipIterator lets a node that pings at all *)
(* ping every other one again and again.                                   *)
DisseminationFairness ==
  /\ WF_disseminationVars(\E c \in calls :
       HandlePing(c) \/ HandlePingReq(c) \/ RefuseCall(c) \/ Deliver(c) \/ Fail(c))
  /\ WF_disseminationVars(\E y \in syncs : AnswerSync(y) \/ EndSync(y))
  /\ \A n \in Node : WF_disseminationVars(\E m \in Node : BootstrapNode(n, m))
  /\ \A p \in Pings : SF_disseminationVars(Ping(p[1], p[2]))

DisseminationSpec ==
  DisseminationInit /\ [][DisseminationNext]_disseminationVars /\ DisseminationFairness

----------------------------------------------------------------------------
(* Every variable has its type. *)
DisseminationTypeOK ==
  /\ node \in [Node -> [ready : BOOLEAN, inc : Nat, belief : [Watched -> 0..MaxVersion],
                        pending : [Watched -> Pending], told : [Watched -> Nat],
                        limit : Nat \ {0}]]
  /\ \A c \in calls : c.from \in Node /\ c.to \in Node /\ c.news \in News /\ c.reply \in News
  /\ \A y \in syncs : /\ y.node \in Node /\ y.slot \in 1..MaxSyncs
                       /\ y.target \in Node /\ y.list \in News
  /\ jobs \in [Node -> 0..MaxSyncs] /\ events \in 0..MaxEvents

(* Although a node forgets a change after maxPiggybackCount tellings,      *)
(* whether or not anybody heard it (issueAsReceiver 130-138 counts         *)
(* blindly), and although answers are lost and nodes restart without their *)
(* changes, in the end all nodes have the same checksum: the full syncs    *)
(* repair what piggybacking loses.                                         *)
Converges == <>[](\A n, m \in Node : Checksum(node[n].belief) = Checksum(node[m].belief))

(* A change is forgotten without a newer one only when it was passed on    *)
(* maxPiggybackCount times in answers or in requests that were answered:   *)
(* requests that failed do not use it up (issueAsSender 90-110).           *)
DroppedWhenTold ==
  [][\A n \in Node, x \in Watched :
       (node[n].pending[x] # None /\ node'[n].pending[x] = None /\ node'[n].ready)
         => node'[n].told[x] >= node'[n].limit]_disseminationVars

(* reverseFullSyncJobs counts the reverse full syncs that run, and never   *)
(* more than maxReverseFullSyncJobs do, whatever fails (221-245): no slot  *)
(* is lost for good.                                                       *)
SlotsAreCounted ==
  /\ DisseminationTypeOK
  /\ \A n \in Node : /\ jobs[n] <= MaxSyncs
                     /\ jobs[n] = Cardinality({y \in syncs : y.node = n})
=============================================================================
