-------------------------------- MODULE Gossip --------------------------------
(***************************************************************************)
(* The gossip loop of one ringpop node (lib/gossip/index.js): protocol     *)
(* periods that ping the next member of the list (membership/iterator.js), *)
(* ping-reqs to other members when the ping fails (ping-req-sender.js),    *)
(* and start, stop and tick, which operators may call at any time          *)
(* (server/admin/gossip.js).  What the messages carry is in Dissemination, *)
(* what a suspicion does in Membership.                                    *)
(*                                                                         *)
(* A start while a tick of an earlier loop is under way leaves two loops:  *)
(* that tick finds the gossip started, and goes on.                        *)
(***************************************************************************)
EXTENDS Lifecycle, FiniteSetsExt, SequencesExt

CONSTANTS
  Peer,          \* the other members of the list
  Idle,          \* "no ping under way", "no timer"
  PingReqSize,   \* ringpop.pingReqSize
  MaxStarts      \* bound: starts of the gossip, and so its loops

ASSUME GossipAssumption == /\ IsFiniteSet(Peer) /\ Idle \notin Nat
                           /\ PingReqSize \in Nat /\ MaxStarts \in Nat \ {0}

VARIABLES
  isStopped, isPinging,
  armed,      \* the timers of protocol periods that will fire
  handle,     \* protocolPeriodTimer
  round,      \* the ping or ping-req under way, or Idle
  order,      \* membership.members
  index,      \* memberIterator.currentIndex + 1
  pingable,   \* the members that are alive or suspect
  starts,     \* bound
  unpinged    \* pings of others since a pingable member was pinged
gossipVars == <<isStopped, isPinging, armed, handle, round, order, index,
                pingable, starts, unpinged>>

GossipTypeOK ==
  /\ isStopped \in BOOLEAN /\ isPinging \in BOOLEAN
  /\ armed \subseteq 1..MaxStarts /\ handle \in (1..MaxStarts) \cup {Idle}
  /\ order \in SetToSeqs(Peer) /\ index \in 0..Cardinality(Peer)
  /\ pingable \subseteq Peer /\ starts \in 0..MaxStarts

GossipInit ==
  /\ isStopped = TRUE /\ isPinging = FALSE
  /\ armed = {} /\ handle = Idle /\ round = Idle
  /\ order \in SetToSeqs(Peer) /\ index = 0
  /\ pingable = Peer /\ starts = 0
  /\ unpinged = [m \in Peer |-> 0]

----------------------------------------------------------------------------
(* run (70-96): a new timer, whose handle replaces the one before.         *)
Run(timers) ==
  LET t == Min((1..MaxStarts) \ timers) IN armed' = timers \cup {t} /\ handle' = t

(* start (98-114): the list is shuffled, and the loop runs. *)
StartGossip ==
  IF ~isStopped THEN UNCHANGED gossipVars
  ELSE /\ order' \in SetToSeqs(Peer)
       /\ Run(armed) /\ isStopped' = FALSE
       /\ starts' = starts + 1 /\ unpinged' = [m \in Peer |-> 0]
       /\ UNCHANGED <<isPinging, round, index, pingable>>

(* stop (123-142). *)
StopGossip ==
  IF isStopped THEN UNCHANGED gossipVars
  ELSE /\ armed' = armed \ {handle} /\ handle' = Idle
       /\ isStopped' = TRUE
       /\ UNCHANGED <<isPinging, round, order, index, pingable, starts, unpinged>>

(* onMemberPinged (80-94): the loop goes on unless the gossip is stopped.  *)
Loop(timers) == IF isStopped THEN armed' = timers /\ UNCHANGED handle ELSE Run(timers)

(* MembershipIterator.next (29-52): the member at or after position p that *)
(* is pingable, past the end from the front of a list shuffled again.      *)
Ahead(list, p) == {q \in (p + 1)..Len(list) : list[q] \in pingable}
(* Faulty variant: the list is shuffled for every member. *)
NextShuffling(m) ==
  \E list \in SetToSeqs(Peer) :
    /\ Ahead(list, 0) # {} /\ index' = Min(Ahead(list, 0))
    /\ order' = list /\ m = list[index']
NextMember(m) ==
  IF Ahead(order, index) # {}
  THEN /\ index' = Min(Ahead(order, index))
       /\ order' = order /\ m = order[index']
  ELSE \E list \in SetToSeqs(Peer) :
         /\ index' = Min(Ahead(list, 0))
         /\ order' = list /\ m = list[index']

(* Nobody is pingable: everybody is visited, and the list shuffled on the  *)
(* way unless the walk began at its front.                                 *)
WalkInVain ==
  IF index = 0 THEN index' = Len(order) /\ UNCHANGED order
  ELSE \E list \in SetToSeqs(Peer) :
         /\ order' = list
         /\ index' = Max({q \in 1..Len(list) : \E k \in 1..index : order[k] = list[q]})

(* tick (144-200), up to the ping: `loop` tells whether its callback goes  *)
(* on with the loop.                                                       *)
CanPing == ~isPinging /\ isReady /\ pingable # {}
NoRound ==
  /\ IF isPinging \/ ~isReady THEN UNCHANGED <<order, index>> ELSE WalkInVain
  /\ UNCHANGED <<isPinging, round, unpinged>>
BeginRound(loop) ==
  \E m \in pingable :
    /\ NextMember(m)
    /\ isPinging' = TRUE
    /\ round' = [member |-> m, waiting |-> {}, loop |-> loop]
    /\ unpinged' = [x \in Peer |-> IF x = m \/ x \notin pingable THEN 0
                                   ELSE unpinged[x] + 1]

(* onGossipTimer (77-80). *)
GossipTimer(t) ==
  /\ t \in armed
  /\ IF CanPing THEN /\ BeginRound(TRUE)
                     /\ armed' = armed \ {t}
                     /\ UNCHANGED handle
     ELSE Loop(armed \ {t}) /\ NoRound
  /\ UNCHANGED <<isStopped, pingable, starts, lifeVars>>

(* gossipTick (server/admin/gossip.js 37-50). *)
AdminTick ==
  /\ ~isDestroyed
  /\ IF CanPing THEN BeginRound(FALSE) ELSE NoRound
  /\ UNCHANGED <<isStopped, armed, handle, pingable, starts, lifeVars>>

(* Faulty variant: the callback of the ping-reqs leaves isPinging set. *)
EndRoundPinging ==
  /\ isPinging' = (round.waiting # {}) /\ round' = Idle
  /\ IF round.loop THEN Loop(armed) ELSE UNCHANGED <<armed, handle>>
  /\ UNCHANGED <<isStopped, order, index, pingable, starts, unpinged, lifeVars>>
(* The callbacks of the ping and the ping-reqs (188-199). *)
EndRound ==
  /\ isPinging' = FALSE /\ round' = Idle
  /\ IF round.loop THEN Loop(armed) ELSE UNCHANGED <<armed, handle>>
  /\ UNCHANGED <<isStopped, order, index, pingable, starts, unpinged, lifeVars>>

(* The ping is answered (197-198), or fails and nobody can be asked        *)
(* (ping-req-sender.js 140-147).                                           *)
PingEnds == round # Idle /\ round.waiting = {} /\ EndRound

(* The ping fails: random other pingable members are asked (174-194,       *)
(* ping-req-sender.js 149-168).                                            *)
PingFails ==
  /\ round # Idle /\ round.waiting = {}
  /\ LET others == pingable \ {round.member} IN
     \E helpers \in kSubset(Min({PingReqSize, Cardinality(others)}), others) :
       /\ helpers # {}
       /\ round' = [round EXCEPT !.waiting = helpers]
  /\ UNCHANGED <<isStopped, isPinging, armed, handle, order, index, pingable,
                 starts, unpinged, lifeVars>>

(* onPingReq (170-264): the first good answer ends the round, and so does  *)
(* the last error, which may make the member a suspect.                    *)
HelperFails(h) ==
  /\ round # Idle /\ h \in round.waiting /\ round.waiting # {h}
  /\ round' = [round EXCEPT !.waiting = @ \ {h}]
  /\ UNCHANGED <<isStopped, isPinging, armed, handle, order, index, pingable,
                 starts, unpinged, lifeVars>>
HelpersDecide == round # Idle /\ round.waiting # {} /\ EndRound

(* Updates of the membership change who may be pinged. *)
ChangePingable(m) ==
  /\ pingable' = IF m \in pingable THEN pingable \ {m} ELSE pingable \cup {m}
  /\ unpinged' = [unpinged EXCEPT ![m] = 0]
  /\ UNCHANGED <<isStopped, isPinging, armed, handle, round, order, index,
                 starts, lifeVars>>

(* gossipStart, gossipStop (server/admin/gossip.js 23-35). *)
AdminStart == /\ ~isDestroyed /\ starts < MaxStarts
              /\ StartGossip /\ UNCHANGED lifeVars
AdminStop == ~isDestroyed /\ StopGossip /\ UNCHANGED lifeVars

GossipRound == PingEnds \/ PingFails \/ HelpersDecide \/ \E h \in Peer : HelperFails(h)
GossipNext ==
  \/ (Bootstrap \/ BootstrapFails) /\ UNCHANGED gossipVars
  \/ starts < MaxStarts /\ JoinDone(StartGossip, UNCHANGED gossipVars)
  \/ DestroyNode(StopGossip)
  \/ AdminStart \/ AdminStop \/ AdminTick
  \/ \E t \in 1..MaxStarts : GossipTimer(t)
  \/ GossipRound
  \/ \E m \in Peer : ChangePingable(m)

(* Timers fire, and requests are answered or time out. *)
GossipFairness ==
  /\ \A t \in 1..MaxStarts : WF_<<gossipVars, lifeVars>>(GossipTimer(t))
  /\ WF_<<gossipVars, lifeVars>>(GossipRound)

GossipSpec == LifeInit /\ GossipInit /\ [][GossipNext]_<<gossipVars, lifeVars>>
                /\ GossipFairness

----------------------------------------------------------------------------
(* However the loops of several starts interleave with ticks of operators, *)
(* no pingable member waits for more than two rounds of the list: the      *)
(* iterator visits everybody before it shuffles (iterator.js 33-41).       *)
NobodyWaitsLong ==
  /\ GossipTypeOK
  /\ \A m \in pingable : unpinged[m] <= 2 * (Cardinality(Peer) - 1)

(* A node that gossips keeps pinging, whatever requests fail and whoever   *)
(* ticks: isPinging never stays behind (gossip/index.js 145-200).  And     *)
(* after a stop or a destroy all loops end, also the one whose tick was    *)
(* under way and those whose timer no handle is left for (80-94, 123-142). *)
GossipGoesOn ==
  /\ []<>(round # Idle \/ isStopped \/ ~isReady \/ pingable = {})
  /\ []<>(~isStopped \/ (armed = {} /\ round = Idle))
=============================================================================
