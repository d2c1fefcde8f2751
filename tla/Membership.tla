------------------------------ MODULE Membership -----------------------------
(***************************************************************************)
(* One ringpop node's view of its cluster (packages/ringpop): the member   *)
(* list (lib/membership), the timers that turn a suspect into a faulty, a  *)
(* tombstone and a forgotten member (lib/gossip/state_transitions.js), the *)
(* servers of the hash ring and the changes waiting to be gossiped, the    *)
(* last three updated by the handlers of lib/on_membership_event.js.       *)
(*                                                                         *)
(* Every action is one JavaScript callback.  The network is whatever other *)
(* nodes may say: a batch of changes with at most one change per address   *)
(* (the sender keeps its changes in an object keyed by address), old or    *)
(* new, in any order and any number of times.  Date.now() is `clock`: it   *)
(* never goes back, and may stand still between two callbacks.             *)
(***************************************************************************)
EXTENDS Naturals

CONSTANTS
  Addr,        \* the addresses of the cluster
  Self,        \* the address of this node
  None,        \* "not a member", "no timer", "nothing to gossip"
  MaxInc,      \* bound: the clock, and the incarnations other nodes speak of
  MaxLeaves    \* bound: how often an operator makes this node leave

ASSUME MembershipAssumption ==
  /\ Self \in Addr
  /\ MaxInc \in Nat \ {0} /\ MaxLeaves \in Nat

VARIABLES
  phase,      \* "new", "joining" (makeLocalAlive called) or "ready"
  members,    \* membersByAddress: address -> status and incarnation, or None
  timers,     \* stateTransitions.timers: address -> the entry, or None
  enabled,    \* stateTransitions.enabled
  ring,       \* servers of the hash ring
  rumors,     \* dissemination.changes: address -> the change, or None
  clock,      \* Date.now()
  leaves, paused  \* bound, and whether state transitions were ever disabled

vars == <<phase, members, timers, enabled, ring, rumors, clock, leaves, paused>>

(* Member.Status and Member.statusPrecedence. *)
Status == {"alive", "suspect", "faulty", "leave", "tombstone"}
Precedence ==
  [alive |-> 0, suspect |-> 1, faulty |-> 2, leave |-> 3, tombstone |-> 4]
Pingable(s) == s \in {"alive", "suspect"}
Decaying == {"suspect", "faulty", "tombstone"}

State(s, i) == [status |-> s, inc |-> i]
States == [status : Status, inc : Nat]
Entry(s, i, live) == [state |-> s, inc |-> i, live |-> live]
Entries == [state : Decaying, inc : Nat, live : BOOLEAN]

ASSUME NoneAssumption == None \notin States /\ None \notin Entries

(* What other nodes may say; of this node they know no incarnation that it *)
(* has not had, so none from the future.                                   *)
Batches ==
  {batch \in UNION {[S -> [status : Status, inc : 1..MaxInc]] : S \in SUBSET Addr} :
     Self \in DOMAIN batch => batch[Self].inc <= clock}

TypeOK ==
  /\ phase \in {"new", "joining", "ready"}
  /\ members \in [Addr -> States \cup {None}]
  /\ timers \in [Addr -> Entries \cup {None}]
  /\ enabled \in BOOLEAN /\ paused \in BOOLEAN
  /\ ring \subseteq Addr
  /\ rumors \in [Addr -> States \cup {None}]
  /\ clock \in Nat /\ leaves \in Nat

Init ==
  /\ phase = "new"
  /\ members = [a \in Addr |-> None]
  /\ timers = [a \in Addr |-> None]
  /\ enabled = TRUE /\ paused = FALSE
  /\ ring = {}
  /\ rumors = [a \in Addr |-> None]
  /\ clock = 1 /\ leaves = 0

----------------------------------------------------------------------------
(* Member.shouldProcessGossip (227-254). *)
Newer(g, m) ==
  \/ g.inc > m.inc
  \/ g.inc = m.inc /\ Precedence[g.status] > Precedence[m.status]

(* Faulty variant: the status alone decides. *)
ShouldProcessStatus(m, g) ==
  m = None \/ Precedence[g.status] > Precedence[m.status]

ShouldProcess(m, g) ==
  IF m = None THEN g.status # "tombstone" ELSE Newer(g, m)

(* Faulty variant: a refutation does not cancel. *)
EntryUncancelled(a, s, old) ==
  IF s.status \notin Decaying \/ ~enabled \/ a = Self THEN old
  ELSE IF old # None /\ old.state = s.status THEN old
  ELSE Entry(s.status, s.inc, TRUE)

(* stateTransitions.handleUpdate (55-154): the entry of an address, `old`  *)
(* before, once its new state was announced.                               *)
EntryAfter(a, s, old) ==
  IF s.status \notin Decaying THEN None
  ELSE IF ~enabled \/ a = Self THEN old
  ELSE IF old # None /\ old.state = s.status THEN old
  ELSE Entry(s.status, s.inc, TRUE)

(* Faulty variant: only faulty and tombstone leave the ring. *)
RingKeepingLeavers(news) ==
  (ring \cup {a \in DOMAIN news : Pingable(news[a].status)})
    \ {a \in DOMAIN news : news[a].status \in {"faulty", "tombstone"}}

(* The handlers of 'updated' (113-149), given the states announced and the *)
(* timers before: Self's and others' changes alike are gossiped.           *)
RingAfter(news) ==
  (ring \cup {a \in DOMAIN news : Pingable(news[a].status)})
    \ {a \in DOMAIN news : ~Pingable(news[a].status)}
Schedule(news, old) ==
  timers' = [a \in Addr |-> IF a \in DOMAIN news THEN EntryAfter(a, news[a], old[a])
                                                 ELSE old[a]]
(* Faulty variant: a change is recorded once, and not replaced. *)
AnnounceOnce(news, old) ==
  /\ Schedule(news, old)
  /\ ring' = RingAfter(news)
  /\ rumors' = [a \in Addr |-> IF a \in DOMAIN news /\ rumors[a] = None
                               THEN news[a] ELSE rumors[a]]
Announce(news, old) ==
  /\ Schedule(news, old)
  /\ ring' = RingAfter(news)
  /\ rumors' = [a \in Addr |-> IF a \in DOMAIN news THEN news[a] ELSE rumors[a]]

(* membership.update (375-436) of a node that is ready.  A change that is  *)
(* news about this node is answered by a new incarnation of it.            *)
Apply(batch, old) ==
  LET applied == {a \in DOMAIN batch : ShouldProcess(members[a], batch[a])}
      news == [a \in applied |-> IF a = Self THEN State(members[Self].status, clock)
                                             ELSE batch[a]] IN
  /\ members' = [a \in Addr |-> IF a \in applied THEN news[a] ELSE members[a]]
  /\ Announce(news, old)

(* makeChange (266-280). *)
Change(a, s, i, old) == Apply([x \in {a} |-> State(s, i)], old)

(* setLocalStatus (227-247). *)
SetLocal(s, old) ==
  LET news == [x \in {Self} |-> State(s, clock)] IN
  /\ members' = [members EXCEPT ![Self] = State(s, clock)]
  /\ Announce(news, old)

----------------------------------------------------------------------------
(* bootstrap (286-448): the local member is alive, the joiner sets out. *)
Bootstrap ==
  /\ phase = "new"
  /\ phase' = "joining"
  /\ SetLocal("alive", timers)
  /\ UNCHANGED <<enabled, clock, leaves, paused>>

(* The handler of 'set': nothing is gossiped, and nobody leaves the ring.  *)
OnSet(news) ==
  /\ Schedule(news, timers)
  /\ ring' = ring \cup {a \in DOMAIN news : Pingable(news[a].status)}

(* The join is complete: set() (329-373) and its handler take the merged   *)
(* members of the join responses, tombstones only as far as their timer.   *)
Joined(batch) ==
  LET news == [a \in DOMAIN batch \ {Self} |-> batch[a]] IN
  /\ phase = "joining"
  /\ phase' = "ready"
  /\ members' = [a \in Addr |->
       IF a \in DOMAIN news /\ news[a].status # "tombstone" THEN news[a] ELSE members[a]]
  /\ OnSet(news)
  /\ UNCHANGED <<enabled, rumors, clock, leaves, paused>>

(* Changes in a ping, a ping-req, their responses or a full sync. *)
Update(batch) ==
  /\ phase = "ready"
  /\ Apply(batch, timers)
  /\ UNCHANGED <<phase, enabled, clock, leaves, paused>>

(* Neither a ping nor the ping-reqs reached the member (125-277): it is    *)
(* suspected in the incarnation it has when the last answer comes in.      *)
Suspect(a) ==
  /\ phase = "ready" /\ a # Self /\ members[a] # None
  /\ Change(a, "suspect", members[a].inc, timers)
  /\ UNCHANGED <<phase, enabled, clock, leaves, paused>>

(* A state transition's timeout.  Its entry stays in timers, spent, unless *)
(* the change it makes replaces it.                                        *)
Spent(a) == [timers EXCEPT ![a].live = FALSE]
Due(a, s) == timers[a] # None /\ timers[a].live /\ timers[a].state = s

(* Faulty variant: the timeout does nothing. *)
SuspectForgotten(a) ==
  /\ Due(a, "suspect")
  /\ timers' = Spent(a)
  /\ UNCHANGED <<phase, members, enabled, ring, rumors, clock, leaves, paused>>

SuspectToFaulty(a) ==
  /\ Due(a, "suspect")
  /\ Change(a, "faulty", timers[a].inc, Spent(a))
  /\ UNCHANGED <<phase, enabled, clock, leaves, paused>>

FaultyToTombstone(a) ==
  /\ Due(a, "faulty")
  /\ Change(a, "tombstone", timers[a].inc, Spent(a))
  /\ UNCHANGED <<phase, enabled, clock, leaves, paused>>

(* evict (317-323) never evicts the local member, and tells no one. *)
TombstoneToEvict(a) ==
  /\ Due(a, "tombstone")
  /\ members' = IF a = Self THEN members ELSE [members EXCEPT ![a] = None]
  /\ timers' = Spent(a)
  /\ UNCHANGED <<phase, enabled, ring, rumors, clock, leaves, paused>>

Transition(a) == SuspectToFaulty(a) \/ FaultyToTombstone(a) \/ TombstoneToEvict(a)

(* disable (156-177) clears every timeout. *)
Cleared == [a \in Addr |-> None]

(* /admin/member/leave: LocalMemberLeaveEvent disables the transitions,    *)
(* clearing their timeouts, before the status changes.                     *)
Leave ==
  /\ phase # "new" /\ members[Self].status # "leave" /\ leaves < MaxLeaves
  /\ enabled' = FALSE /\ paused' = TRUE
  /\ leaves' = leaves + 1
  /\ SetLocal("leave", Cleared)
  /\ UNCHANGED <<phase, clock>>

(* /admin/member/join of a node that left. *)
Rejoin ==
  /\ phase # "new" /\ members[Self].status = "leave"
  /\ SetLocal("alive", timers)
  /\ enabled' = TRUE
  /\ UNCHANGED <<phase, clock, leaves, paused>>

(* /admin/member/reap: every faulty member, one update each. *)
Reap ==
  LET faulty == {a \in Addr : members[a] # None /\ members[a].status = "faulty"} IN
  /\ phase = "ready" /\ faulty # {}
  /\ Apply([a \in faulty |-> State("tombstone", members[a].inc)], timers)
  /\ UNCHANGED <<phase, enabled, clock, leaves, paused>>

(* selfEvict: a graceful shutdown declares the node faulty. *)
SelfEvict ==
  /\ phase # "new" /\ members[Self].status # "faulty"
  /\ SetLocal("faulty", timers)
  /\ UNCHANGED <<phase, enabled, clock, leaves, paused>>

(* A change that was piggybacked often enough is forgotten. *)
Forget(a) ==
  /\ rumors[a] # None
  /\ rumors' = [rumors EXCEPT ![a] = None]
  /\ UNCHANGED <<phase, members, timers, enabled, ring, clock, leaves, paused>>

Tick ==
  /\ clock < MaxInc
  /\ clock' = clock + 1
  /\ UNCHANGED <<phase, members, timers, enabled, ring, rumors, leaves, paused>>

Next ==
  \/ Bootstrap \/ Leave \/ Rejoin \/ Reap \/ SelfEvict \/ Tick
  \/ \E batch \in Batches : Joined(batch) \/ Update(batch)
  \/ \E a \in Addr : Suspect(a) \/ Transition(a) \/ Forget(a)

Spec == Init /\ [][Next]_vars

(* A timeout that is set fires in the end.  Nothing is assumed of the      *)
(* network, of operators or of the clock.                                  *)
FairSpec == Spec /\ \A a \in Addr : WF_vars(Transition(a))

----------------------------------------------------------------------------
(* Properties. *)

(* The servers of the hash ring are the members that can be pinged: the    *)
(* ring is maintained from the announcements, by adding and removing, and  *)
(* never falls out of step with the member list.                           *)
RingFollowsMembers ==
  ring = {a \in Addr : members[a] # None /\ Pingable(members[a].status)}

(* What the node gossips about a member is what it believes of it. *)
GossipsItsBeliefs ==
  \A a \in Addr : (rumors[a] # None /\ members[a] # None) => rumors[a] = members[a]

(* A timeout that may still fire belongs to the status the member has: it  *)
(* was cancelled or replaced by whatever made it a thing of the past.  The *)
(* one exception is the tombstone of a member set() did not take.          *)
TimeoutFitsStatus ==
  \A a \in Addr : (timers[a] # None /\ timers[a].live) =>
    /\ a # Self /\ enabled
    /\ IF members[a] = None THEN timers[a].state = "tombstone"
       ELSE timers[a].state = members[a].status /\ timers[a].inc <= members[a].inc

(* As long as the node never left, a member that is suspect, faulty or a   *)
(* tombstone has an entry for that status, if not a live one.              *)
DecayHasEntry ==
  ~paused => \A a \in Addr \ {Self} :
    (members[a] # None /\ members[a].status \in Decaying) =>
      timers[a] # None /\ timers[a].state = members[a].status

(* What the node believes of another member only gets newer, and only a    *)
(* tombstone is forgotten, whatever order the network delivers changes in. *)
BeliefsGetNewer ==
  [][\A a \in Addr \ {Self} : members[a] # None =>
       \/ members'[a] = members[a]
       \/ members'[a] # None /\ Newer(members'[a], members[a])
       \/ members'[a] = None /\ members[a].status = "tombstone"]_vars

(* Nobody but the node itself decides about its status: gossip about it    *)
(* only makes it choose a newer incarnation.                               *)
OwnStatusIsOwn ==
  [][(\E batch \in Batches : Update(batch)) =>
       /\ members'[Self].status = members[Self].status
       /\ members'[Self].inc >= members[Self].inc]_vars

(* A suspect whose timeout was set for its incarnation does not stay one:  *)
(* it is decided, or a newer incarnation is suspected, or the node leaves. *)
WatchedSuspectIsDecided ==
  \A a \in Addr \ {Self} : \A i \in 1..MaxInc :
    (members[a] = State("suspect", i) /\ timers[a] = Entry("suspect", i, TRUE))
      ~> (members[a] # State("suspect", i) \/ ~enabled)

(* What the documentation says, and the code does not do.                  *)

(* "It will become a suspect for a period before it's marked as faulty and *)
(* removed from the ring".                                                 *)
SuspectIsDecided ==
  \A a \in Addr \ {Self} :
    (members[a] # None /\ members[a].status = "suspect")
      ~> (members[a] = None \/ members[a].status # "suspect")

(* Nodes marked as faulty "will be automatically removed". *)
FaultyIsRemoved ==
  \A a \in Addr \ {Self} :
    (members[a] # None /\ members[a].status = "faulty")
      ~> (members[a] = None \/ members[a].status # "faulty")
=============================================================================
