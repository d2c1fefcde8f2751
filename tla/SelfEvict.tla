------------------------------- MODULE SelfEvict -------------------------------
(***************************************************************************)
(* Self eviction of a ringpop node (lib/self-evict.js): the preEvict hooks *)
(* run in parallel, the node declares itself faulty and pings some members *)
(* with that, the postEvict hooks run, and the callback tells that the     *)
(* process may stop.  Phases follow each other through process.nextTick,   *)
(* so hooks may be registered and everything else may happen in between.   *)
(***************************************************************************)
EXTENDS Lifecycle, FiniteSetsExt, Sequences

CONSTANTS
  Hook,           \* the hooks that are registered some time
  Pre, Post,      \* those with a preEvict and with a postEvict method
  Comrade,        \* the other members
  MaxPiggyback,   \* dissemination.maxPiggybackCount
  PingRatio,      \* selfEvictionMaxPingRatio, in percent
  MaxInitiates    \* bound: calls of selfEvict

ASSUME SelfEvictAssumption ==
  /\ IsFiniteSet(Hook) /\ Pre \cup Post = Hook /\ IsFiniteSet(Comrade)
  /\ MaxPiggyback \in Nat /\ PingRatio \in 0..100 /\ MaxInitiates \in Nat \ {0}

VARIABLES
  hooks,       \* names of registered hooks
  phases,      \* the history of phases
  ownStatus,   \* of the local member
  left,        \* what the pending _.after still counts
  running,     \* hooks that were called and have not called back
  pinged,      \* members whose ping is under way
  ticks,       \* steps scheduled by process.nextTick
  answers,     \* [err, ok]: what callbacks of initiate were told
  pingable2,   \* members that are alive or suspect
  initiates    \* bound
evictVars == <<hooks, phases, ownStatus, left, running, pinged, ticks, answers,
               pingable2, initiates>>

Phases == <<"pre_evict", "evicting", "post_evict", "done">>
Methods(type) == IF type = "preEvict" THEN Pre ELSE Post

EvictInit ==
  /\ hooks = {} /\ phases = << >> /\ ownStatus = "none" /\ left = 0
  /\ running = {} /\ pinged = {} /\ ticks = {} /\ answers = [err |-> 0, ok |-> 0]
  /\ pingable2 = Comrade /\ initiates = 0

----------------------------------------------------------------------------
(* registerHooks (117-153): a name twice is an error. *)
RegisterHook(h) ==
  /\ h \notin hooks /\ hooks' = hooks \cup {h}
  /\ UNCHANGED <<phases, ownStatus, left, running, pinged, ticks, answers,
                 pingable2, initiates, lifeVars>>

(* Faulty variant: without hooks of the type nobody goes on. *)
RunHooksOrWait(type, then) ==
  LET names == hooks \cap Methods(type) IN
  left' = Cardinality(names) /\ running' = names /\ ticks' = {}
(* _runHooks (306-366): the names are those registered now; each hook is   *)
(* called in a tick of its own.                                            *)
RunHooks(type, then) ==
  LET names == hooks \cap Methods(type) IN
  IF names = {} THEN ticks' = {then} /\ UNCHANGED <<left, running>>
  ELSE /\ left' = Cardinality(names) /\ running' = names
       /\ ticks' = {}

(* initiate (168-193). *)
Initiate ==
  /\ initiates < MaxInitiates /\ initiates' = initiates + 1
  /\ IF phases # << >>
     THEN /\ answers' = [answers EXCEPT !.err = @ + 1]
          /\ UNCHANGED <<phases, left, running, ticks>>
     ELSE /\ phases' = <<"pre_evict">>
          /\ RunHooks("preEvict", "evict")
          /\ UNCHANGED answers
  /\ UNCHANGED <<hooks, ownStatus, pinged, pingable2, lifeVars>>

(* Faulty variant: _.after counts one call too few. *)
AfterEarly(then) == left' = left - 1 /\ ticks' = IF left <= 2 THEN {then} ELSE ticks
(* _.after: the function runs from the last call on.                       *)
After(then) == left' = left - 1 /\ ticks' = IF left <= 1 THEN {then} ELSE ticks

(* hookDone (355-363), which may be called in the tick after its hook ran. *)
HookDone(h) ==
  /\ h \in running /\ running' = running \ {h}
  /\ After(IF Len(phases) = 1 THEN "evict" ELSE "done")
  /\ UNCHANGED <<hooks, phases, ownStatus, pinged, answers, pingable2, initiates, lifeVars>>

(* _getMembersToPing (195-212): the first ones of the list, in any order.  *)
NumberOfPings ==
  LET n == Cardinality(pingable2) IN
  Min({MaxPiggyback, (n * PingRatio + 99) \div 100, n})
(* _evict (214-249). *)
Evict ==
  /\ "evict" \in ticks
  /\ phases' = Append(phases, "evicting") /\ ownStatus' = "faulty"
  /\ \E members \in kSubset(NumberOfPings, pingable2) :
       /\ pinged' = members /\ left' = Cardinality(members)
       /\ ticks' = IF members = {} THEN {"postEvict"} ELSE {}
  /\ UNCHANGED <<hooks, running, answers, pingable2, initiates, lifeVars>>
(* afterPing (235-240): an answer or an error. *)
AfterPing(m) ==
  /\ m \in pinged /\ pinged' = pinged \ {m}
  /\ After("postEvict")
  /\ UNCHANGED <<hooks, phases, ownStatus, running, answers, pingable2, initiates, lifeVars>>

(* _postEvict (251-258). *)
PostEvict ==
  /\ "postEvict" \in ticks
  /\ phases' = Append(phases, "post_evict")
  /\ RunHooks("postEvict", "done")
  /\ UNCHANGED <<hooks, ownStatus, pinged, answers, pingable2, initiates, lifeVars>>
(* _done (260-271). *)
Done ==
  /\ "done" \in ticks /\ ticks' = {}
  /\ phases' = Append(phases, "done")
  /\ answers' = [answers EXCEPT !.ok = @ + 1]
  /\ UNCHANGED <<hooks, ownStatus, left, running, pinged, pingable2, initiates, lifeVars>>

(* onHostsDiscovered: a bootstrap that got its hosts makes the local       *)
(* member alive (index.js 337), evicted or not.                            *)
HostsDiscovered ==
  /\ joining > 0 /\ ownStatus' = "alive"
  /\ UNCHANGED <<hooks, phases, left, running, pinged, ticks, answers, pingable2,
                 initiates, lifeVars>>
ChangeComrade(m) ==
  /\ pingable2' = IF m \in pingable2 THEN pingable2 \ {m} ELSE pingable2 \cup {m}
  /\ UNCHANGED <<hooks, phases, ownStatus, left, running, pinged, ticks, answers,
                 initiates, lifeVars>>

EvictStep ==
  \/ Evict \/ PostEvict \/ Done
  \/ \E h \in Hook : HookDone(h)
  \/ \E m \in Comrade : AfterPing(m)
EvictNext ==
  \/ HostsDiscovered
  \/ (Bootstrap \/ BootstrapFails \/ JoinDone(TRUE, TRUE) \/ DestroyNode(TRUE)) /\ UNCHANGED evictVars
  \/ \E h \in Hook : RegisterHook(h)
  \/ Initiate \/ EvictStep
  \/ \E m \in Comrade : ChangeComrade(m)

(* Hooks call back, pings are answered or time out. *)
EvictFairness == WF_<<evictVars, lifeVars>>(EvictStep)
EvictSpec == LifeInit /\ EvictInit /\ [][EvictNext]_<<evictVars, lifeVars>> /\ EvictFairness

----------------------------------------------------------------------------
(* Every variable has its type. *)
SelfEvictTypeOK ==
  /\ hooks \subseteq Hook /\ running \subseteq Hook /\ pinged \subseteq Comrade
  /\ left \in 0..(Cardinality(Hook) + Cardinality(Comrade))
  /\ ticks \subseteq {"evict", "postEvict", "done"} /\ pingable2 \subseteq Comrade

(* The phases come in their order, each once, and a phase starts when all  *)
(* hooks and pings of the one before have called back, whatever hooks are  *)
(* registered and whoever else calls selfEvict meanwhile.                  *)
PhasesInOrder ==
  /\ SelfEvictTypeOK
  /\ phases = SubSeq(Phases, 1, Len(phases)) /\ Cardinality(ticks) <= 1
  /\ ticks # {} => running = {} /\ pinged = {}
  /\ Len(phases) = 4 => answers.ok = 1

(* The one who started the eviction is called back. *)
EvictionEnds == []<>(phases = << >> \/ answers.ok = 1)
=============================================================================
