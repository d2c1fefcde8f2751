---------------------------- MODULE MembershipInv ----------------------------
(* The inductive invariant of Membership: its properties, and the facts    *)
(* about the time before the join is complete on which they rest.          *)
EXTENDS Membership

(* Until the join is complete the node knows nobody else, so set() never   *)
(* overwrites a member and never meets a timeout.                          *)
JoinerKnowsNobody ==
  phase # "ready" =>
    /\ \A a \in Addr \ {Self} : members[a] = None /\ rumors[a] = None
    /\ \A a \in Addr : timers[a] = None

(* The local member exists from the bootstrap on, in an incarnation that   *)
(* is not in the future.                                                   *)
LocalMember ==
  /\ phase = "new" => members[Self] = None
  /\ phase # "new" => members[Self] # None /\ members[Self].inc <= clock

(* Only leaving the cluster disables the state transitions. *)
PausedWhenDisabled == ~enabled => paused

(* Everything above, with the properties of the model that hold in every   *)
(* state: an invariant that every step preserves.                          *)
Inv ==
  /\ TypeOK
  /\ JoinerKnowsNobody
  /\ LocalMember
  /\ PausedWhenDisabled
  /\ RingFollowsMembers
  /\ GossipsItsBeliefs
  /\ TimeoutFitsStatus
  /\ DecayHasEntry
=============================================================================
