-------------------------------- MODULE Healer --------------------------------
(***************************************************************************)
(* Partition healing (lib/partition_healing).  The cluster is split in two *)
(* sides that declared each other's hosts faulty; the members of one side  *)
(* agree, so a side has one view.  The node `Me` heals: its loop, or an    *)
(* operator (server/admin/partition-healing.js), asks the discover         *)
(* provider for hosts, joins one that is faulty, and either has the hosts  *)
(* that a merge would make unpingable suspected, so that they reincarnate, *)
(* or merges the two views.                                                *)
(*                                                                         *)
(* A status is its precedence (Member.statusPrecedence): 0 alive, 1        *)
(* suspect, 2 faulty.                                                      *)
(***************************************************************************)
EXTENDS Lifecycle, FiniteSetsExt

CONSTANTS
  Near, Far,      \* the hosts of the two sides
  Me,             \* the host that heals
  NoHealTimer,    \* healTimer is null
  MaxFailures,    \* discoverProviderHealerMaxFailures
  MaxFaults,      \* bound: requests that fail, suspicions that time out
  MaxHealTimers,  \* bound: timers of the loop at a time
  MaxHeals        \* bound: heals at a time

ASSUME HealerAssumption ==
  /\ IsFiniteSet(Near \cup Far) /\ Near \cap Far = {} /\ Me \in Near
  /\ NoHealTimer \notin Nat /\ MaxHealTimers \in Nat \ {0} /\ MaxHeals \in Nat
  /\ MaxFailures \in Nat \ {0} /\ MaxFaults \in Nat

VARIABLES
  view,        \* of each side: status and incarnation of every host
  healStopped, healTimer, healArmed,   \* isStopped, healTimer, timers that will fire
  heals,       \* the heals under way
  syncing,     \* hosts that began a reverse full sync with Me
  healFaults   \* bound
healVars == <<view, healStopped, healTimer, healArmed, heals, syncing, healFaults>>

Hosts == Near \cup Far
Sides == {"near", "far"}
Home(h) == IF h \in Near THEN "near" ELSE "far"
Admin == 0
HealTokens == 1..MaxHealTimers

HealInit ==
  /\ view \in [Sides -> [Hosts -> [status : {0, 2}, inc : {1}]]]
  /\ \A s \in Sides, h \in Hosts : Home(h) = s => view[s][h].status = 0
  /\ \A h, g \in Far : view["near"][h] = view["near"][g]
  /\ \A h, g \in Near : view["far"][h] = view["far"][g]
  /\ healStopped = TRUE /\ healTimer = NoHealTimer /\ healArmed = {}
  /\ heals = {} /\ syncing = {} /\ healFaults = 0

----------------------------------------------------------------------------
IsPingable(m) == m.status \in {0, 1}
Overrides(new, old) ==
  new.inc > old.inc \/ (new.inc = old.inc /\ new.status > old.status)

(* Membership.update on side s; the member `self` that applies it          *)
(* reincarnates instead of taking a newer status of itself.                *)
Applied(v, changes, self) ==
  [h \in Hosts |->
     IF h \notin DOMAIN changes \/ ~Overrides(changes[h], v[h]) THEN v[h]
     ELSE IF h = self THEN [status |-> 0, inc |-> changes[h].inc + 1]
     ELSE changes[h]]

(* Faulty variant: statuses of the same incarnation are not compared. *)
UnpingableByIncarnation(current, new) ==
  IsPingable(current) /\ ~IsPingable(new) /\ new.inc > current.inc
(* nodeWouldBecomeUnPingable (healer.js 124-146). *)
WouldBecomeUnpingable(current, new) ==
  IsPingable(current) /\ ~IsPingable(new) /\ Overrides(new, current)

(* generateChanges (82-122): who is to be suspected, as the other knows it.*)
Suspected(mine, theirs) ==
  [h \in {x \in Hosts : WouldBecomeUnpingable(mine[x], theirs[x])} |->
     [status |-> 1, inc |-> theirs[h].inc]]

----------------------------------------------------------------------------
(* scheduleNext (discover_provider_healer.js 89-93). *)
ScheduleHeal(armed) ==
  LET t == Min(HealTokens \ armed) IN
  healArmed' = armed \cup {t} /\ healTimer' = t
(* Faulty variant: a start does not look for the timer of another. *)
StartHealingAgain ==
  /\ ScheduleHeal(healArmed) /\ healStopped' = FALSE
  /\ UNCHANGED <<view, heals, syncing, healFaults>>
(* start (58-64): without a timer, _run waits a period first (81-93). *)
StartHealing ==
  IF healTimer # NoHealTimer THEN UNCHANGED healVars
  ELSE /\ ScheduleHeal(healArmed) /\ healStopped' = FALSE
       /\ UNCHANGED <<view, heals, syncing, healFaults>>
(* stop (66-72). *)
StopHealing ==
  /\ healStopped' = TRUE /\ healTimer' = NoHealTimer
  /\ healArmed' = healArmed \ {healTimer}
  /\ UNCHANGED <<view, heals, syncing, healFaults>>

NewHeal(t) == [token |-> t, stage |-> "discover", potential |-> {}, failures |-> 0,
               target |-> Me, theirs |-> << >>, changes |-> << >>, reached |-> {}]

(* _run (74-87), at the timer: with some probability it heals. *)
SkipHeal(t) ==
  /\ t \in healArmed
  /\ IF healStopped THEN healArmed' = healArmed \ {t} /\ UNCHANGED healTimer
                    ELSE ScheduleHeal(healArmed \ {t})
  /\ UNCHANGED <<view, healStopped, heals, syncing, healFaults, lifeVars>>
RunHeal(t) ==
  /\ t \in healArmed /\ ~healStopped /\ isReady /\ Cardinality(heals) < MaxHeals
  /\ healArmed' = healArmed \ {t} /\ heals' = heals \cup {NewHeal(t)}
  /\ UNCHANGED <<view, healStopped, healTimer, syncing, healFaults, lifeVars>>
(* handleHealViaDiscoverProvider (admin/partition-healing.js 23-33). *)
AdminHeal ==
  /\ isReady /\ ~isDestroyed /\ Cardinality(heals) < MaxHeals /\ \A x \in heals : x.token # Admin
  /\ heals' = heals \cup {NewHeal(Admin)}
  /\ UNCHANGED <<view, healStopped, healTimer, healArmed, syncing, healFaults, lifeVars>>

(* onHeal (82-84): the heal is over, and the loop goes on, stopped or not. *)
Finished(x) ==
  /\ heals' = heals \ {x}
  /\ IF x.token = Admin THEN UNCHANGED <<healArmed, healTimer>>
     ELSE ScheduleHeal(healArmed)

(* healNext, healTarget (152-185): y is the heal x after what just         *)
(* happened; the next target, or the end.                                  *)
HealNext(x, y) ==
  IF y.potential # {} /\ y.failures < MaxFailures
  THEN /\ \E t \in y.potential :
            heals' = (heals \ {x}) \cup
              {[y EXCEPT !.stage = "join", !.target = t, !.potential = @ \ {t},
                         !.theirs = << >>, !.changes = << >>, !.reached = {}]}
       /\ UNCHANGED <<healArmed, healTimer>>
  ELSE Finished(x)
Goes(x, y) == heals' = (heals \ {x}) \cup {y} /\ UNCHANGED <<healArmed, healTimer>>

(* done (healer.js 180-191), and onHealAttempt: who the target can reach   *)
(* is no target any more (179-183).                                        *)
Reached(x, y) == HealNext(x, [y EXCEPT !.potential = @ \ y.reached])
(* An attempt fails (164-177), or the provider does (137-143).             *)
Missed(x) ==
  /\ healFaults < MaxFaults /\ healFaults' = healFaults + 1
  /\ IF x.stage = "discover" THEN Finished(x)
     ELSE HealNext(x, [x EXCEPT !.failures = @ + 1])
FailHeal(x) == x \in heals /\ Missed(x) /\ UNCHANGED <<view, healStopped, syncing, lifeVars>>

(* Faulty variant: faulty members are no targets. *)
TargetsAboveFaulty == {h \in Hosts \ {Me} : view["near"][h].status > 2}
(* _getTargets (210-230). *)
Targets == {h \in Hosts \ {Me} : view["near"][h].status >= 2}
(* onHostsDiscovered (136-150). *)
Discovered(x) ==
  /\ x \in heals /\ x.stage = "discover"
  /\ HealNext(x, [x EXCEPT !.potential = Targets])
  /\ UNCHANGED <<view, healStopped, syncing, healFaults, lifeVars>>

(* The target handles the join request, with the view of its side. *)
JoinHandled(x) ==
  /\ x \in heals /\ x.stage = "join"
  /\ Goes(x, [x EXCEPT !.stage = "joined", !.theirs = view[Home(x.target)]])
  /\ UNCHANGED <<view, healStopped, syncing, healFaults, lifeVars>>

(* onJoin (healer.js 73-79), generateChanges, processChanges, reincarnate  *)
(* and merge (82-178): the local update, and the changes sent to the       *)
(* target.                                                                 *)
JoinAnswered(x) ==
  /\ x \in heals /\ x.stage = "joined"
  /\ LET mine == view["near"]
         changesA == Suspected(mine, x.theirs)
         changesB == Suspected(x.theirs, mine)
         merge == DOMAIN changesA = {} /\ DOMAIN changesB = {}
         after == Applied(mine, IF merge THEN x.theirs ELSE changesA, Me)
         y == [x EXCEPT !.reached = {h \in Hosts : IsPingable(x.theirs[h])}]
     IN /\ view' = [view EXCEPT !["near"] = after]
        /\ IF ~merge /\ DOMAIN changesB = {} THEN Reached(x, y)
           ELSE Goes(x, [y EXCEPT !.stage = "send",
                                  !.changes = IF merge THEN after ELSE changesB])
  /\ UNCHANGED <<healStopped, syncing, healFaults, lifeVars>>

(* issueAsReceiver (dissemination.js 116-147) calls for a full sync when   *)
(* the target has nothing to issue and another checksum than the healer.   *)
(* What suspicions changed is issued, and its own reincarnation; what a    *)
(* merge changed is not, for it names the healer as its source.  Whether   *)
(* there was something else to issue is left open, and so are the          *)
(* checksums when no whole list was sent.                                  *)
MayFullSync(x) ==
  LET mine == view[Home(x.target)]
      after == Applied(mine, x.changes, x.target)
  IN IF DOMAIN x.changes = Hosts
     THEN after # x.changes /\ after[x.target] = mine[x.target]
     ELSE after = mine

(* The target handles the ping (ping.js 65-73): it applies the changes and *)
(* may begin a reverse full sync (bound: one at a time).  The answer of    *)
(* the ping may be lost.                                                   *)
ChangesHandled(x) ==
  /\ x \in heals /\ x.stage = "send"
  /\ view' = [view EXCEPT ![Home(x.target)] = Applied(@, x.changes, x.target)]
  /\ \/ UNCHANGED syncing
     \/ syncing = {} /\ MayFullSync(x) /\ syncing' = {x.target}
  /\ \/ Reached(x, x) /\ UNCHANGED healFaults
     \/ Missed(x)
  /\ UNCHANGED <<healStopped, lifeVars>>

(* tryStartReverseFullSync (dissemination.js 221-286): the target joins Me *)
(* and applies the whole list, unless there are too many such jobs or the  *)
(* join fails.                                                             *)
ReverseFullSync(h) ==
  /\ h \in syncing /\ syncing' = syncing \ {h}
  /\ \/ view' = [view EXCEPT ![Home(h)] = Applied(@, view["near"], h)]
     \/ UNCHANGED view
  /\ UNCHANGED <<healStopped, healTimer, healArmed, heals, healFaults, lifeVars>>

(* Gossip between the sides: host g, of one side, pings host h of the      *)
(* other, which it sees pingable; their lists differ, and both ways of a   *)
(* full sync follow (Dissemination).                                       *)
Contact(g, h) ==
  LET s == Home(g)
      there == Applied(view[Home(h)], view[s], h)
  IN /\ Home(h) # s /\ IsPingable(view[s][h])
     /\ view' = [view EXCEPT ![Home(h)] = there, ![s] = Applied(@, there, g)]
     /\ UNCHANGED <<healStopped, healTimer, healArmed, heals, syncing, healFaults, lifeVars>>
(* Gossip in its side tells a host that it is not said to be alive.        *)
Refute(h) ==
  /\ view[Home(h)][h].status # 0
  /\ view' = [view EXCEPT ![Home(h)][h] = [status |-> 0, inc |-> @.inc + 1]]
  /\ UNCHANGED <<healStopped, healTimer, healArmed, heals, syncing, healFaults, lifeVars>>

(* A host does not answer a ping of another, of its side or not. *)
Suspect(h, s) ==
  /\ \E g \in Hosts \ {h} : Home(g) = s
  /\ view[s][h].status = 0 /\ healFaults < MaxFaults /\ healFaults' = healFaults + 1
  /\ view' = [view EXCEPT ![s][h].status = 1]
  /\ UNCHANGED <<healStopped, healTimer, healArmed, heals, syncing, lifeVars>>
(* The suspicion of a host that was not reached in time becomes faulty.    *)
SuspicionExpires(h, s) ==
  /\ view[s][h].status = 1 /\ healFaults < MaxFaults /\ healFaults' = healFaults + 1
  /\ view' = [view EXCEPT ![s][h].status = 2]
  /\ UNCHANGED <<healStopped, healTimer, healArmed, heals, syncing, lifeVars>>

HealStep(x) ==
  Discovered(x) \/ JoinHandled(x) \/ JoinAnswered(x) \/ ChangesHandled(x)
HealProgress(t) == \E x \in heals : x.token = t /\ HealStep(x)
HealNextState ==
  \/ (Bootstrap \/ BootstrapFails) /\ UNCHANGED healVars
  \/ JoinDone(StartHealing, UNCHANGED healVars)
  \/ DestroyNode(StopHealing)
  \/ \E t \in HealTokens : SkipHeal(t) \/ RunHeal(t)
  \/ AdminHeal
  \/ \E t \in HealTokens \cup {Admin} : HealProgress(t)
  \/ \E x \in heals : FailHeal(x)
  \/ \E h \in Hosts : ReverseFullSync(h)
  \/ \E g, h \in Hosts : Contact(g, h)
  \/ \E h \in Hosts : Refute(h) \/ \E s \in Sides : Suspect(h, s) \/ SuspicionExpires(h, s)

(* Timers fire and heals go on; the dice are fair; gossip reaches whom it  *)
(* can reach.                                                              *)
HealFairness ==
  /\ SF_<<healVars, lifeVars>>(\E t \in HealTokens : RunHeal(t))
  /\ \A t \in HealTokens \cup {Admin} : WF_<<healVars, lifeVars>>(HealProgress(t))
  /\ WF_<<healVars, lifeVars>>(\E g, h \in Hosts : Contact(g, h))
  /\ WF_<<healVars, lifeVars>>(\E h \in Hosts : Refute(h))

HealSpec == LifeInit /\ HealInit /\ [][HealNextState]_<<healVars, lifeVars>>
              /\ HealFairness

----------------------------------------------------------------------------
(* Every variable has its type. *)
HealerTypeOK ==
  /\ view \in [Sides -> [Hosts -> [status : 0..4, inc : Nat]]]
  /\ healStopped \in BOOLEAN /\ healArmed \subseteq HealTokens
  /\ healTimer \in HealTokens \cup {NoHealTimer} /\ syncing \subseteq Hosts

(* The updates of a heal, its own and those it sends (healer.js 124-178),  *)
(* make no host unpingable that a side pings: whoever a merge would make   *)
(* so is suspected first, and gets the time to reincarnate (42-44, 99-109),*)
(* also when two heals overlap, when views have moved on since the target  *)
(* answered, and when an answer is lost.  The one exception: a host the    *)
(* target had as unpingable when it answered, which came back on its side  *)
(* and failed on the other's before the changes arrived.  It is not said   *)
(* of the full sync the target may start when it has nothing to tell       *)
(* (ReverseFullSync), which is no update of the heal: it brings the whole  *)
(* list, and a host that is suspect there and faulty here, in the same     *)
(* incarnation, is faulty there after it.                                  *)
CameBack(x, s, h) ==
  x.stage = "send" /\ s = Home(x.target) /\ ~IsPingable(x.theirs[h])
HealKeepsPingable ==
  [][\A x \in heals : HealStep(x) =>
       \A s \in Sides, h \in Hosts :
         IsPingable(view[s][h]) => IsPingable(view'[s][h]) \/ CameBack(x, s, h)
    ]_<<healVars, lifeVars>>

(* "Calling this function does not result in a heal if there are nodes     *)
(* that need to be reincarnated" (healer.js 42-44), and the suspicions it  *)
(* sends name no source "to prevent bi-directional full sync" (113): a     *)
(* host that is pinged stays so whatever a heal brings about.  A suspicion *)
(* the target has already is not news to it, and a full sync follows.      *)
HealBringsNoFaults ==
  [][\A g \in Hosts : ReverseFullSync(g) =>
       \A h \in Hosts : IsPingable(view[Home(g)][h]) => IsPingable(view'[Home(g)][h])
    ]_<<healVars, lifeVars>>

(* One loop, however bootstraps overlap: the handle of a timer that fired  *)
(* is never cleared, and keeps start from starting another                 *)
(* (discover_provider_healer.js 59-61).                                    *)
OneHealLoop ==
  /\ HealerTypeOK
  /\ Cardinality(healArmed) + Cardinality({x \in heals : x.token # Admin}) <= 1

(* The partition heals: each side sees all hosts pingable in the end,      *)
(* unless the healer is stopped before.  For whatever fails, a heal of the *)
(* loop ends and another one follows: the callback runs on every path      *)
(* (discover_provider_healer.js 82-84, 121-143, 152-197).                  *)
Healing(t) == \E x \in heals : x.token = t
Healed == \A s \in Sides, h \in Hosts : IsPingable(view[s][h])
PartitionHeals ==
  /\ []<>(healStopped \/ Healed)
  /\ []<>(healStopped \/ Healing(1)) /\ []<>~Healing(1)
=============================================================================
