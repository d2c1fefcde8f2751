-------------------------------- MODULE Damper --------------------------------
(***************************************************************************)
(* Flap damping on one ringpop node: the damp scores of its members        *)
(* (lib/membership/member.js, raised by every update, lowered by time),    *)
(* the members whose score crossed a limit (lib/gossip/damper.js), and the *)
(* damp-req subprotocol that asks other nodes for their scores before a    *)
(* flapper is damped for a while.                                          *)
(*                                                                         *)
(* A timer is a token: `timer` is the handle dampTimer, `armed` the timers *)
(* that will fire.  They differ when the timer is stopped and started      *)
(* while a subprotocol runs: its callback finds a timer enabled, the new   *)
(* one, and schedules another run.  Scores are small numbers; time is any  *)
(* drop of a score, and the duration of any damped member may be over.      *)
(***************************************************************************)
EXTENDS Lifecycle, Integers, FiniteSetsExt

CONSTANTS
  Mates,         \* the other members of the list
  Flaky,         \* bound: those whose updates arrive
  NoTimer,       \* dampTimer is null
  ScoreMax, Penalty, SuppressLimit, ReuseLimit,  \* dampScoring...
  NVal, RVal,    \* dampReqNVal, dampReqRVal
  MaxPercentage, \* dampedMaxPercentage
  MaxRuns,       \* bound: damp timers and subprotocols at a time
  Fading         \* bound: those that stop being pingable, or are evicted

ASSUME DamperAssumption ==
  /\ IsFiniteSet(Mates) /\ Flaky \subseteq Mates /\ NoTimer \notin Nat
  /\ ScoreMax \in Nat /\ Penalty \in Nat /\ SuppressLimit \in Nat /\ ReuseLimit \in Nat
  /\ NVal \in Nat /\ RVal \in Nat \ {0} /\ MaxPercentage \in Nat
  /\ MaxRuns \in Nat \ {0} /\ Fading \subseteq Mates

VARIABLES
  listed,     \* the members that are in the list
  askable,   \* those of them that are alive or suspect
  score,      \* dampScore of a member
  damper,     \* flappers, dampedMembers, both timers
  subs,       \* the subprotocols under way
  decaying    \* the timer of the decayer runs
dampVars == <<listed, askable, score, damper, subs, decaying>>

Tokens == 1..MaxRuns
DamperStates ==
  [flappers : SUBSET Mates, damped : SUBSET Mates, timer : Tokens \cup {NoTimer},
   armed : SUBSET Tokens, expiring : BOOLEAN]

DampInit ==
  /\ listed = {} /\ askable = {} /\ score = [m \in Mates |-> 0]
  /\ damper = [flappers |-> {}, damped |-> {}, timer |-> NoTimer, armed |-> {},
               expiring |-> FALSE]
  /\ subs = {} /\ decaying = TRUE

----------------------------------------------------------------------------
Running(d) == d.armed \cup {s.token : s \in subs}
Enabled(d) == d.timer # NoTimer

(* schedule, of _startDampTimer (501-516). *)
Schedule(d, busy) ==
  LET t == Min(Tokens \ busy) IN [d EXCEPT !.timer = t, !.armed = @ \cup {t}]
(* _stopDampTimer (546-559). *)
StopTimer(d) == [d EXCEPT !.armed = @ \ {d.timer}, !.timer = NoTimer]

(* Faulty variant: a flapper that is damped already starts over. *)
AddDamped(d, m) ==
  IF m \in d.flappers THEN d
  ELSE LET e == [d EXCEPT !.flappers = @ \cup {m}] IN
       IF d.flappers = {} /\ ~Enabled(d) THEN Schedule(e, Running(d)) ELSE e
(* addFlapper (129-165). *)
AddFlapper(d, m) ==
  IF m \in d.damped \cup d.flappers THEN d
  ELSE LET e == [d EXCEPT !.flappers = @ \cup {m}] IN
       IF d.flappers = {} /\ ~Enabled(d) THEN Schedule(e, Running(d)) ELSE e

(* removeFlapper (375-403), for each member of a set. *)
RemoveFlappers(d, S) ==
  LET e == [d EXCEPT !.flappers = @ \ S] IN
  IF d.flappers \cap S # {} /\ e.flappers = {} /\ Enabled(d) THEN StopTimer(e) ELSE e

(* _validateDampedClusterLimits (576-590). *)
WithinLimit(d) ==
  Cardinality(d.damped) * 100 < MaxPercentage * (Cardinality(listed) + 1)

(* dampMember (167-211), for each member of a set of listed flappers. *)
DampMembers(d, S) ==
  IF S = {} THEN d
  ELSE [RemoveFlappers(d, S) EXCEPT !.damped = @ \cup S, !.expiring = TRUE]

----------------------------------------------------------------------------
(* onJoin (index.js 346-378): set() fills the list of a node that becomes  *)
(* ready (membership/index.js 329-375); some come later.                   *)
SetMembers ==
  IF isReady THEN UNCHANGED dampVars
  ELSE /\ \E later \in SUBSET Fading : listed' = Mates \ later
       /\ askable' = listed'
       /\ UNCHANGED <<score, damper, subs, decaying>>

(* The status of m changes, and so perhaps whether m is pingable.         *)
ChangeStatus(m) == askable' \in {askable \cup {m}, askable \ ({m} \cap Fading)}

(* update (membership/index.js 376-429) stashes what comes before the node *)
(* is ready.  After that, applyUpdate and _applyUpdatePenalty (member.js   *)
(* 105-159): the score is decayed to v, below the reuse limit perhaps, and *)
(* the penalty added.                                                      *)
Update(m) ==
  /\ isReady
  /\ m \in Flaky \cap listed /\ ChangeStatus(m)
  /\ Running(damper) # Tokens
  /\ \E v \in 0..score[m] :
       LET new == Min({v + Penalty, ScoreMax})
           d == IF score[m] > ReuseLimit /\ v <= ReuseLimit
                THEN RemoveFlappers(damper, {m}) ELSE damper
       IN /\ score' = [score EXCEPT ![m] = new]
          /\ damper' = IF v < SuppressLimit /\ new >= SuppressLimit
                       THEN AddFlapper(d, m) ELSE d
  /\ UNCHANGED <<listed, subs, decaying, lifeVars>>

(* The tick of the decayer (membership/index.js 480-488, member.js 68-102).*)
Decay ==
  /\ decaying
  /\ \E after \in [Mates -> 0..ScoreMax] :
       /\ \A m \in Mates : IF m \in listed THEN after[m] <= score[m]
                                           ELSE after[m] = score[m]
       /\ score' = after
       /\ damper' = RemoveFlappers(damper,
            {m \in listed : score[m] > ReuseLimit /\ after[m] <= ReuseLimit})
  /\ UNCHANGED <<listed, askable, subs, decaying, lifeVars>>

(* A member is evicted from the list, and may be created anew: its score   *)
(* is gone, a flapper it stays (membership/index.js 306-323).              *)
EvictMember(m) ==
  /\ m \in Fading \cap listed
  /\ listed' = listed \ {m} /\ askable' = askable \ {m}
  /\ UNCHANGED <<score, damper, subs, decaying, lifeVars>>
CreateMember(m) ==
  /\ isReady /\ m \in Mates \ listed /\ ChangeStatus(m)
  /\ listed' = listed \cup {m} /\ score' = [score EXCEPT ![m] = 0]
  /\ UNCHANGED <<damper, subs, decaying, lifeVars>>

(* Faulty variant: a run that did nothing does not schedule the next. *)
CallbackLost(d, token) == [d EXCEPT !.armed = @ \ {token}]
(* onSubprotocol (509-514): the next run, if a timer is enabled. *)
Callback(d, token) ==
  LET e == [d EXCEPT !.armed = @ \ {token}] IN
  IF Enabled(d) THEN Schedule(e, Running(d) \ {token}) ELSE e

(* initiateSubprotocol (277-321): rVal requests out of those sent to       *)
(* pingable members (membership/index.js 162-171) must be answered.        *)
(* `tally` is the number of scores reported of a flapper, all of them      *)
(* above the limit, or -1.                                                 *)
Asked(d) == {members \in SUBSET (askable \ d.flappers) :
  Cardinality(members) = Min({NVal, Cardinality(askable \ d.flappers)})}
DampTimer(t) ==
  /\ UNCHANGED <<listed, askable, score, decaying, lifeVars>>
  /\ t \in damper.armed
  /\ \E members \in Asked(damper) :
       IF ~WithinLimit(damper) \/ members = {}
       THEN damper' = Callback(damper, t) /\ UNCHANGED subs
       ELSE /\ damper' = [damper EXCEPT !.armed = @ \ {t}]
            /\ subs' = subs \cup
                 {[token |-> t, waiting |-> members, results |-> 0,
                   rVal |-> Min({RVal, Cardinality(members)}),
                   tally |-> [m \in damper.flappers |-> 0]]}

(* What a member answers of the flappers it is asked about                 *)
(* (server/protocol/damp_req.js, collectDampScores): a score above the     *)
(* limit, a lower one, or none.                                            *)
Reports == {"high", "low", "none"}
Tally(old, report) ==
  [m \in DOMAIN old |-> CASE report[m] = "none" -> old[m]
                          [] report[m] = "low" \/ old[m] = -1 -> -1
                          [] OTHER -> old[m] + 1]

(* getMembersToDamp (68-121) and onFanout (346-371): one member after the  *)
(* other, in any order, is damped while the limit lets (186-193).          *)
ToDamp(s) == {m \in DOMAIN s.tally : s.tally[m] >= s.rVal}
Damped(d, members) ==
  {DampMembers(d, S) : S \in {T \in SUBSET (members \cap listed \cap d.flappers) :
    /\ \A m \in T : WithinLimit(DampMembers(d, T \ {m}))
    /\ T = members \cap listed \cap d.flappers \/ ~WithinLimit(DampMembers(d, T))}}

(* onDampReq (429-466): s is the subprotocol after an answer or an error.  *)
Continue(old, s) ==
  IF s.results >= s.rVal
  THEN /\ subs' = subs \ {old}
       /\ \E d \in Damped(damper, ToDamp(s)) : damper' = Callback(d, s.token)
  ELSE IF Cardinality(s.waiting) < s.rVal - s.results
  THEN subs' = subs \ {old} /\ damper' = Callback(damper, s.token)
  ELSE subs' = (subs \ {old}) \cup {s} /\ UNCHANGED damper

DampReqAnswered(s, h, report) ==
  /\ s \in subs /\ h \in s.waiting
  /\ Continue(s, [s EXCEPT !.waiting = @ \ {h}, !.results = @ + 1,
                           !.tally = Tally(@, report)])
DampReqFailed(s, h) ==
  /\ s \in subs /\ h \in s.waiting
  /\ Continue(s, [s EXCEPT !.waiting = @ \ {h}])

(* The expiration timer (529-543) and expireDampedMembers (213-250): the   *)
(* suppress duration of `gone` is over.                                    *)
Expire(gone) ==
  /\ UNCHANGED <<listed, askable, score, subs, decaying, lifeVars>>
  /\ damper.expiring /\ gone \subseteq damper.damped
  /\ damper' = [damper EXCEPT !.damped = @ \ gone,
                              !.expiring = (gone = {} \/ gone # damper.damped)]

(* onDestroyed (on_ringpop_event.js 23-30): Damper.destroy and the decayer.*)
StopDamping ==
  /\ damper' = IF Enabled(damper) THEN [StopTimer(damper) EXCEPT !.expiring = FALSE]
                                  ELSE [damper EXCEPT !.expiring = FALSE]
  /\ decaying' = FALSE
  /\ UNCHANGED <<listed, askable, score, subs>>

SubProgress ==
  /\ UNCHANGED <<listed, askable, score, decaying, lifeVars>>
  /\ \E s \in subs : \E h \in s.waiting :
       \/ \E report \in [DOMAIN s.tally -> Reports] : DampReqAnswered(s, h, report)
       \/ DampReqFailed(s, h)
DampNext ==
  \/ (Bootstrap \/ BootstrapFails) /\ UNCHANGED dampVars
  \/ JoinDone(SetMembers, UNCHANGED dampVars)
  \/ DestroyNode(StopDamping)
  \/ \E m \in Mates : Update(m) \/ EvictMember(m) \/ CreateMember(m)
  \/ Decay
  \/ \E gone \in SUBSET Mates : Expire(gone)
  \/ \E t \in Tokens : DampTimer(t)
  \/ SubProgress

(* Timers fire, requests are answered or time out, and time passes. *)
DampFairness ==
  /\ WF_<<dampVars, lifeVars>>(\E t \in Tokens : DampTimer(t))
  /\ WF_<<dampVars, lifeVars>>(SubProgress)
  /\ \A m \in Flaky : WF_<<dampVars, lifeVars>>
       (\E gone \in SUBSET Mates : m \in gone /\ Expire(gone))

DampSpec == LifeInit /\ DampInit /\ [][DampNext]_<<dampVars, lifeVars>> /\ DampFairness

----------------------------------------------------------------------------
(* Every variable has its type. *)
DamperTypeOK ==
  /\ listed \subseteq Mates /\ askable \subseteq listed
  /\ score \in [Mates -> 0..ScoreMax]
  /\ damper \in DamperStates /\ decaying \in BOOLEAN

(* Until the node is destroyed, the damp timer is enabled exactly while    *)
(* there are flappers and the expiration timer exactly while there are     *)
(* damped members (damper.js 57-63), nobody is both, and an enabled damp   *)
(* timer is one that will fire or a subprotocol that will schedule one.    *)
TimersFitSets ==
  /\ DamperTypeOK
  /\ damper.flappers \cap damper.damped = {}
  /\ ~isDestroyed =>
       /\ Enabled(damper) <=> damper.flappers # {}
       /\ damper.expiring <=> damper.damped # {}
       /\ Enabled(damper) => Running(damper) # {}

LimitReached == \E d \in {damper} : ~WithinLimit(d)
AskedAbout(m) == \E s \in subs : m \in DOMAIN s.tally

(* A damped member is damped for a while only: the expiration timer keeps  *)
(* running until the last one is gone (241-247, 541).  A flapper that      *)
(* stays one is asked about, unless nobody can be asked or the limit of    *)
(* damped members is reached: the chain of damp timers and subprotocols    *)
(* never breaks (509-514).                                                 *)
DampingGoesOn ==
  \A m \in Flaky :
    /\ []<>(m \notin damper.damped \/ isDestroyed)
    /\ []<>(\/ m \notin damper.flappers \/ isDestroyed \/ LimitReached
            \/ askable \subseteq damper.flappers \/ AskedAbout(m))

(* "It may be the case that the damp timer is stopped while in the middle  *)
(* of a subprotocol.  Make sure we don't schedule another run if that      *)
(* happens." (510-512): a subprotocol under way when the timer was stopped *)
(* and started again ends beside the new timer, and sets no second one.    *)
OneDampLoop == ~isDestroyed => Cardinality(damper.armed) <= 1
=============================================================================
