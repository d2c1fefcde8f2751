------------------------------ MODULE LoopProofs ------------------------------
(***************************************************************************)
(* What a ringpop node does about its members, for any members, limits and *)
(* bounds: the protocol periods leave nobody out (Gossip), the timers of   *)
(* the damper fit its sets (Damper), the phases of an eviction come in     *)
(* order (SelfEvict), and its tracers listen (TracerStore).                *)
(***************************************************************************)
EXTENDS Gossip, Damper, SelfEvict, TracerStore, FiniteSetTheorems,
        FunctionTheorems, SequenceTheorems, WellFoundedInduction, TLAPS

(* Some number of a set is the first. *)
LEMMA MinIs ==
  ASSUME NEW S \in SUBSET Nat, S # {}
  PROVE  Min(S) \in S /\ \A y \in S : Min(S) <= y
<1>1. PICK x \in S : \A y \in S : ~(<<y, x>> \in OpToRel(<, Nat))
  BY NatLessThanWellFounded, WFMin
<1>2. \A y \in S : x <= y
  <2> SUFFICES ASSUME NEW y \in S PROVE x <= y
    OBVIOUS
  <2>1. x \in Nat /\ y \in Nat
    OBVIOUS
  <2>2. ~(<<y, x>> \in {ss \in Nat \X Nat : ss[1] < ss[2]})
    BY <1>1 DEF OpToRel
  <2>3. ~(y < x)
    BY <2>1, <2>2
  <2> QED
    BY <2>1, <2>3
<1> QED
  BY <1>2 DEF Min


----------------------------------------------------------------------------
PeerCount == Cardinality(Peer)
PeerLists == {f \in [1..PeerCount -> Peer] : \A i, j \in 1..PeerCount : i # j => f[i] # f[j]}
RoundType == [member : Peer, waiting : SUBSET Peer, loop : BOOLEAN]

(* The loops there are: timers, and a round that will set one. *)
Looping == round # Idle /\ round.loop
Loops == Cardinality(armed) + IF Looping THEN 1 ELSE 0

(* Who has been visited since the list was shuffled waits for the rest of  *)
(* it; who has not waited at most for the others, and for those before it. *)
Waited(m) ==
  \E k \in 1..PeerCount : /\ order[k] = m
                  /\ IF k <= index THEN unpinged[m] + k <= index ELSE unpinged[m] + 1 <= PeerCount + index

VisitInv ==
  /\ order \in PeerLists /\ index \in 0..PeerCount
  /\ pingable \subseteq Peer /\ unpinged \in [Peer -> Nat]
  /\ \A m \in pingable : Waited(m)

LoopsInv ==
  /\ isStopped \in BOOLEAN /\ isPinging \in BOOLEAN
  /\ armed \subseteq 1..MaxStarts /\ handle \in (1..MaxStarts) \cup {Idle}
  /\ round \in RoundType \cup {Idle}
  /\ starts \in 0..MaxStarts /\ Loops <= starts

GossipInv == VisitInv /\ LoopsInv

(* There are finitely many peers. *)
LEMMA Sizes == IsFiniteSet(Peer) /\ PeerCount \in Nat
BY GossipAssumption, FS_CardinalityType DEF PeerCount


(* A list of the members has every member once. *)
LEMMA ListsAre ==
  /\ SetToSeqs(Peer) = PeerLists
  /\ \A list \in PeerLists : /\ list \in [1..PeerCount -> Peer] /\ Len(list) = PeerCount /\ DOMAIN list = 1..PeerCount
                         /\ \A m \in Peer : \E k \in 1..PeerCount : list[k] = m
<1>1. SetToSeqs(Peer) = PeerLists
  BY DEF SetToSeqs, PeerLists, PeerCount
<1>2. ASSUME NEW list \in PeerLists
      PROVE  /\ list \in [1..PeerCount -> Peer] /\ Len(list) = PeerCount /\ DOMAIN list = 1..PeerCount
             /\ \A m \in Peer : \E k \in 1..PeerCount : list[k] = m
  <2>1. list \in [1..PeerCount -> Peer]
    BY DEF PeerLists
  <2>2. DOMAIN list = 1..PeerCount /\ Len(list) = PeerCount
    <3>1. PeerCount \in Nat /\ DOMAIN list = 1..PeerCount
      BY <2>1, Sizes
    <3>2. list \in Seq(Peer)
      BY <2>1, <3>1
    <3> QED
      BY <3>1, <3>2
  <2>3. list \in Injection(1..PeerCount, Peer)
    BY <2>1 DEF PeerLists, Injection, IsInjective
  <2>4. Cardinality(1..PeerCount) = PeerCount
    BY Sizes, FS_Interval
  <2>5. list \in Surjection(1..PeerCount, Peer)
    BY <2>3, <2>4, Sizes, FS_Injection DEF PeerCount
  <2> QED
    BY <2>1, <2>2, <2>5 DEF Surjection
<1> QED
  BY <1>1, <1>2

(* While there are fewer loops than starts are counted, a timer is free.   *)
LEMMA RunSets ==
  ASSUME NEW timers \in SUBSET (1..MaxStarts), Cardinality(timers) < MaxStarts, Run(timers)
  PROVE  /\ armed' \subseteq 1..MaxStarts /\ handle' \in 1..MaxStarts
         /\ IsFiniteSet(timers) /\ Cardinality(armed') = Cardinality(timers) + 1
<1>1. MaxStarts \in Nat /\ IsFiniteSet(1..MaxStarts) /\ Cardinality(1..MaxStarts) = MaxStarts
  BY GossipAssumption, FS_Interval
<1>2. IsFiniteSet(timers)
  BY <1>1, FS_Subset
<1> DEFINE free == (1..MaxStarts) \ timers
<1>3. free \in SUBSET Nat /\ free # {}
  <2>1. timers # 1..MaxStarts
    BY <1>1
  <2>2. PICK t \in 1..MaxStarts : t \notin timers
    BY <2>1
  <2>3. free \subseteq 1..MaxStarts
    OBVIOUS
  <2> QED
    BY <1>1, <2>2, <2>3
<1>4. Min(free) \in free
  BY <1>3, MinIs
<1>5. armed' = timers \cup {Min(free)} /\ handle' = Min(free)
  BY DEF Run
<1> HIDE DEF free
<1>6. Min(free) \in 1..MaxStarts /\ Min(free) \notin timers
  BY <1>4 DEF free
<1>7. Cardinality(armed') = Cardinality(timers) + 1
  BY <1>2, <1>5, <1>6, FS_AddElement
<1> QED
  BY <1>2, <1>5, <1>6, <1>7

(* Some number of a bounded set is the last. *)
LEMMA MaxIs ==
  ASSUME NEW n \in Nat, NEW S \in SUBSET (0..n), S # {}
  PROVE  Max(S) \in S /\ \A y \in S : Max(S) >= y
<1> DEFINE T == {n - q : q \in S}
<1>1. T \in SUBSET Nat /\ T # {}
  <2>1. \A q \in S : q \in Int /\ 0 <= q /\ q <= n
    OBVIOUS
  <2>2. \A q \in S : n - q \in Nat
    BY <2>1
  <2>3. PICK q \in S : TRUE
    OBVIOUS
  <2>4. n - q \in T
    OBVIOUS
  <2> QED
    BY <2>2, <2>4
<1>2. Min(T) \in T /\ \A y \in T : Min(T) <= y
  <2> HIDE DEF T
  <2> QED
    BY <1>1, MinIs
<1>3. PICK x \in S : Min(T) = n - x
  BY <1>2
<1>4. \A y \in S : n - x <= n - y
  BY <1>2, <1>3
<1>5. \A y \in S : x >= y
  BY <1>4
<1> QED
  BY <1>5 DEF Max

(* A round pings the next member of the list, or the first one of a new    *)
(* list when there is none ahead.                                          *)
LEMMA BeginKeeps ==
  ASSUME VisitInv, NEW loop, BeginRound(loop), pingable' = pingable
  PROVE  VisitInv'
<1>1. PICK m \in pingable :
        /\ NextMember(m)
        /\ unpinged' = [x \in Peer |-> IF x = m \/ x \notin pingable THEN 0 ELSE unpinged[x] + 1]
  BY DEF BeginRound
<1>2. /\ PeerCount \in Nat /\ order \in PeerLists /\ index \in 0..PeerCount /\ pingable \subseteq Peer
      /\ unpinged \in [Peer -> Nat] /\ \A x \in pingable : Waited(x)
  BY Sizes DEF VisitInv
<1>3. unpinged' \in [Peer -> Nat]
  BY <1>1, <1>2
<1>4. \A x \in pingable : unpinged'[x] = IF x = m THEN 0 ELSE unpinged[x] + 1
  BY <1>1, <1>2
<1>5. \A list \in PeerLists, p \in 0..PeerCount :
        /\ Ahead(list, p) \in SUBSET Nat
        /\ \A q : q \in Ahead(list, p) <=> q \in 1..PeerCount /\ q > p /\ list[q] \in pingable
  <2> SUFFICES ASSUME NEW list \in PeerLists, NEW p \in 0..PeerCount
               PROVE  /\ Ahead(list, p) \in SUBSET Nat
                      /\ \A q : q \in Ahead(list, p) <=> q \in 1..PeerCount /\ q > p /\ list[q] \in pingable
    OBVIOUS
  <2>1. Ahead(list, p) = {q \in (p + 1)..PeerCount : list[q] \in pingable}
    BY ListsAre DEF Ahead
  <2>2. p \in Nat /\ \A q : q \in (p + 1)..PeerCount <=> q \in 1..PeerCount /\ q > p
    BY <1>2
  <2> QED
    BY <2>1, <2>2
<1>6. CASE Ahead(order, index) # {}
  <2>1. index' = Min(Ahead(order, index)) /\ order' = order /\ m = order[index']
    BY <1>1, <1>6 DEF NextMember
  <2>2. index' \in Ahead(order, index) /\ \A q \in Ahead(order, index) : index' <= q
    BY <1>2, <1>5, <1>6, <2>1, MinIs
  <2>3. index' \in 1..PeerCount /\ index' > index
    BY <1>2, <1>5, <2>2
  <2>4. ASSUME NEW x \in pingable PROVE Waited(x)'
    <3>1. CASE x = m
      <4>1. order'[index'] = x /\ unpinged'[x] = 0
        BY <1>4, <2>1, <3>1
      <4>2. PICK k \in 1..PeerCount : k = index'
        BY <2>3
      <4>3. order'[k] = x /\ k <= index' /\ unpinged'[x] + k <= index'
        <5>1. order'[k] = x /\ unpinged'[x] = 0
          BY <4>1, <4>2
        <5>2. k \in Nat
          BY <1>2
        <5>3. 0 + k = k /\ k <= k
          BY <5>2
        <5>4. unpinged'[x] + k <= k
          BY <5>1, <5>3
        <5> QED
          BY <4>2, <5>1, <5>3, <5>4
      <4> QED
        BY <4>3 DEF Waited, PeerCount
    <3>2. CASE x # m
      <4>1. PICK k \in 1..PeerCount : /\ order[k] = x
                              /\ IF k <= index THEN unpinged[x] + k <= index ELSE unpinged[x] + 1 <= PeerCount + index
        BY <1>2 DEF Waited
      <4>2. unpinged'[x] = unpinged[x] + 1 /\ unpinged[x] \in Nat /\ k # index'
        BY <1>2, <1>4, <2>1, <3>2, <4>1
      <4>3. CASE k <= index
        <5>1. k <= index' /\ unpinged'[x] + k <= index'
          BY <1>2, <2>3, <4>1, <4>2, <4>3
        <5> QED
          BY <2>1, <4>1, <5>1 DEF Waited, PeerCount
      <4>4. CASE k > index
        <5>1. k \in Ahead(order, index)
          BY <1>2, <1>5, <4>1, <4>4
        <5>2. k > index'
          BY <2>2, <2>3, <4>2, <5>1
        <5>3. unpinged'[x] + 1 <= PeerCount + index'
          BY <1>2, <2>3, <4>1, <4>2, <4>4
        <5>4. ~(k <= index')
          BY <2>3, <5>2
        <5> QED
          BY <2>1, <4>1, <5>3, <5>4 DEF Waited, PeerCount
      <4> QED
        BY <1>2, <4>3, <4>4
    <3> QED
      BY <3>1, <3>2
  <2> QED
    BY <1>2, <1>3, <2>1, <2>3, <2>4 DEF VisitInv, PeerCount
<1>7. CASE Ahead(order, index) = {}
  <2>1. PICK list \in PeerLists : index' = Min(Ahead(list, 0)) /\ order' = list /\ m = list[index']
    BY <1>1, <1>7, ListsAre DEF NextMember
  <2>2. PICK i \in 1..PeerCount : list[i] = m
    BY <1>1, <1>2, <2>1, ListsAre
  <2>3. i \in Ahead(list, 0)
    BY <1>1, <1>2, <1>5, <2>2
  <2>4. index' \in Ahead(list, 0) /\ \A q \in Ahead(list, 0) : index' <= q
    BY <1>2, <1>5, <2>1, <2>3, MinIs
  <2>5. index' \in 1..PeerCount
    BY <1>2, <1>5, <2>4
  <2>6. ASSUME NEW x \in pingable PROVE Waited(x)'
    <3>1. CASE x = m
      <4>1. order'[index'] = x /\ unpinged'[x] = 0
        BY <1>4, <2>1, <3>1
      <4>2. PICK k \in 1..PeerCount : k = index'
        BY <2>5
      <4>3. order'[k] = x /\ k <= index' /\ unpinged'[x] + k <= index'
        <5>1. order'[k] = x /\ unpinged'[x] = 0
          BY <4>1, <4>2
        <5>2. k \in Nat
          BY <1>2
        <5>3. 0 + k = k /\ k <= k
          BY <5>2
        <5>4. unpinged'[x] + k <= k
          BY <5>1, <5>3
        <5> QED
          BY <4>2, <5>1, <5>3, <5>4
      <4> QED
        BY <4>3 DEF Waited, PeerCount
    <3>2. CASE x # m
      <4>1. PICK k \in 1..PeerCount : /\ order[k] = x
                              /\ IF k <= index THEN unpinged[x] + k <= index ELSE unpinged[x] + 1 <= PeerCount + index
        BY <1>2 DEF Waited
      <4>2. k <= index
        <5>1. k \notin Ahead(order, index)
          BY <1>7
        <5> QED
          BY <1>2, <1>5, <4>1, <5>1
      <4>3. unpinged'[x] = unpinged[x] + 1 /\ unpinged[x] \in Nat
        BY <1>2, <1>4, <3>2
      <4>4. PICK l \in 1..PeerCount : list[l] = x
        BY <1>2, ListsAre
      <4>5. l \in Ahead(list, 0) /\ l # index'
        BY <1>2, <1>5, <2>1, <3>2, <4>4
      <4>6. ~(l <= index')
        BY <2>4, <2>5, <4>5
      <4>7. unpinged'[x] + 1 <= PeerCount + index'
        BY <1>2, <2>5, <4>1, <4>2, <4>3
      <4> QED
        BY <2>1, <4>4, <4>6, <4>7 DEF Waited, PeerCount
    <3> QED
      BY <3>1, <3>2
  <2> QED
    BY <1>2, <1>3, <2>1, <2>5, <2>6 DEF VisitInv, PeerCount
<1> QED
  BY <1>6, <1>7

(* Nobody is pinged. *)
LEMMA NoRoundKeeps ==
  ASSUME VisitInv, LoopsInv, NoRound, ~CanPing, pingable' = pingable
  PROVE  VisitInv' /\ UNCHANGED <<isPinging, round>>
<1>1. UNCHANGED <<isPinging, round, unpinged, pingable>>
  BY DEF NoRound
<1>2. CASE UNCHANGED <<order, index>>
  BY <1>1, <1>2 DEF VisitInv, Waited, PeerCount
<1>3. CASE pingable = {} /\ WalkInVain
  <2>0. order \in PeerLists /\ index \in 0..PeerCount /\ PeerCount \in Nat /\ unpinged \in [Peer -> Nat]
    BY Sizes DEF VisitInv
  <2>1. order' \in PeerLists /\ index' \in 0..PeerCount
    <3>1. CASE index = 0
      BY <1>3, <2>0, <3>1, ListsAre DEF WalkInVain
    <3>2. CASE index # 0
      <4>1. PICK list \in PeerLists :
              /\ order' = list
              /\ index' = Max({q \in 1..Len(list) : \E k \in 1..index : order[k] = list[q]})
        BY <1>3, <3>2, ListsAre DEF WalkInVain
      <4> DEFINE S == {q \in 1..Len(list) : \E k \in 1..index : order[k] = list[q]}
      <4>2. S \in SUBSET (0..PeerCount)
        BY <2>0, ListsAre
      <4>3. S # {}
        <5>1. 1 \in 1..index /\ 1 \in 1..PeerCount
          BY <2>0, <3>2
        <5>2. order[1] \in Peer
          BY <2>0, <5>1, ListsAre
        <5>3. PICK q \in 1..PeerCount : list[q] = order[1]
          BY <5>2, ListsAre
        <5> QED
          BY <5>1, <5>3, ListsAre
      <4> HIDE DEF S
      <4>4. Max(S) \in S
        BY <2>0, <4>2, <4>3, MaxIs
      <4> QED
        BY <4>1, <4>2, <4>4 DEF S
    <3> QED
      BY <3>1, <3>2
  <2> QED
    BY <1>1, <1>3, <2>0, <2>1 DEF VisitInv, PeerCount
<1> QED
  BY <1>1, <1>2, <1>3 DEF NoRound, CanPing, LoopsInv

(* The loops that a step leaves. *)
LEMMA LoopKeeps ==
  ASSUME LoopsInv, NEW timers \in SUBSET (1..MaxStarts), IsFiniteSet(timers),
         Cardinality(timers) < starts, Loop(timers),
         round' = Idle \/ ~round'.loop, round' \in RoundType \cup {Idle}, isPinging' \in BOOLEAN,
         UNCHANGED <<isStopped, starts>>
  PROVE  LoopsInv'
<1>1. ~Looping'
  BY DEF Looping
<1>2. starts \in Nat /\ MaxStarts \in Nat /\ starts <= MaxStarts /\ Cardinality(timers) \in Nat
  BY GossipAssumption, FS_CardinalityType DEF LoopsInv
<1>3. CASE isStopped
  <2>1. armed' = timers /\ handle' = handle
    BY <1>3 DEF Loop
  <2>2. Loops' <= starts'
    BY <1>1, <1>2, <2>1 DEF Loops
  <2> QED
    BY <2>1, <2>2 DEF LoopsInv
<1>4. CASE ~isStopped
  <2>1. Run(timers) /\ Cardinality(timers) < MaxStarts
    BY <1>2, <1>4 DEF Loop
  <2>2. armed' \subseteq 1..MaxStarts /\ handle' \in 1..MaxStarts
        /\ Cardinality(armed') = Cardinality(timers) + 1
    BY <2>1, RunSets
  <2>3. Loops' <= starts'
    BY <1>1, <1>2, <2>2 DEF Loops
  <2> QED
    BY <2>2, <2>3 DEF LoopsInv
<1> QED
  BY <1>3, <1>4

(* How many timers there are. *)
LEMMA ArmedAre ==
  ASSUME LoopsInv
  PROVE  /\ MaxStarts \in Nat /\ starts \in Nat /\ starts <= MaxStarts
         /\ IsFiniteSet(armed) /\ Cardinality(armed) \in Nat
         /\ Cardinality(armed) + (IF Looping THEN 1 ELSE 0) <= starts
<1>1. MaxStarts \in Nat /\ IsFiniteSet(1..MaxStarts)
  BY GossipAssumption, FS_Interval
<1>2. IsFiniteSet(armed)
  BY <1>1, FS_Subset DEF LoopsInv
<1>3. Cardinality(armed) \in Nat
  BY <1>2, FS_CardinalityType
<1> QED
  BY <1>1, <1>2, <1>3 DEF LoopsInv, Loops

(* One timer less. *)
LEMMA OneTimerLess ==
  ASSUME LoopsInv, NEW t
  PROVE  /\ IsFiniteSet(armed \ {t}) /\ Cardinality(armed \ {t}) \in Nat
         /\ Cardinality(armed \ {t}) <= Cardinality(armed)
         /\ t \in armed => Cardinality(armed \ {t}) = Cardinality(armed) - 1
<1>1. IsFiniteSet(armed) /\ Cardinality(armed) \in Nat
  BY ArmedAre
<1>2. IsFiniteSet(armed \ {t})
      /\ Cardinality(armed \ {t}) = IF t \in armed THEN Cardinality(armed) - 1 ELSE Cardinality(armed)
  BY <1>1, FS_RemoveElement
<1>3. Cardinality(armed \ {t}) \in Nat
  BY <1>2, FS_CardinalityType
<1> QED
  BY <1>1, <1>2, <1>3

(* A step of something else. *)
LEMMA StutterKeeps ==
  ASSUME GossipInv, UNCHANGED gossipVars
  PROVE  GossipInv'
BY DEF gossipVars, GossipInv, VisitInv, LoopsInv, Loops, Looping, Waited, PeerCount

(* A list that starts anew waits for nobody. *)
LEMMA StartKeeps ==
  ASSUME GossipInv, starts < MaxStarts, StartGossip
  PROVE  GossipInv'
<1>1. CASE ~isStopped
  BY <1>1, StutterKeeps DEF StartGossip
<1>2. CASE isStopped
  <2>1. /\ order' \in PeerLists /\ Run(armed) /\ isStopped' = FALSE /\ starts' = starts + 1
        /\ unpinged' = [m \in Peer |-> 0] /\ UNCHANGED <<isPinging, round, index, pingable>>
    BY <1>2, ListsAre DEF StartGossip
  <2>2. LoopsInv
    BY DEF GossipInv
  <2>3. Cardinality(armed) < MaxStarts
    BY <2>2, ArmedAre
  <2>4. armed' \subseteq 1..MaxStarts /\ handle' \in 1..MaxStarts
        /\ Cardinality(armed') = Cardinality(armed) + 1
    BY <2>1, <2>2, <2>3, RunSets DEF LoopsInv
  <2>5. Looping' = Looping
    BY <2>1 DEF Looping
  <2>6. Loops' <= starts' /\ starts' \in 0..MaxStarts
    BY <2>1, <2>2, <2>4, <2>5, ArmedAre DEF Loops
  <2>7. LoopsInv'
    BY <2>1, <2>2, <2>4, <2>6 DEF LoopsInv
  <2>8. ASSUME NEW m \in pingable PROVE Waited(m)'
    <3>1. m \in Peer /\ unpinged'[m] = 0 /\ index \in 0..PeerCount /\ PeerCount \in Nat /\ index' = index
      BY <2>1, Sizes DEF GossipInv, VisitInv
    <3>2. PICK k \in 1..PeerCount : order'[k] = m
      BY <2>1, <3>1, ListsAre
    <3>3. IF k <= index' THEN unpinged'[m] + k <= index' ELSE unpinged'[m] + 1 <= PeerCount + index'
      BY <3>1, <3>2
    <3> QED
      BY <3>2, <3>3 DEF Waited, PeerCount
  <2>9. unpinged' \in [Peer -> Nat]
    BY <2>1
  <2>10. VisitInv'
    BY <2>1, <2>8, <2>9 DEF GossipInv, VisitInv, PeerCount
  <2> QED
    BY <2>7, <2>10 DEF GossipInv
<1> QED
  BY <1>1, <1>2 DEF GossipInv, LoopsInv

(* A stop takes one timer away. *)
LEMMA StopKeeps ==
  ASSUME GossipInv, StopGossip
  PROVE  GossipInv'
<1>1. CASE isStopped
  BY <1>1, StutterKeeps DEF StopGossip
<1>2. CASE ~isStopped
  <2>1. /\ armed' = armed \ {handle} /\ handle' = Idle /\ isStopped' = TRUE
        /\ UNCHANGED <<isPinging, round, order, index, pingable, starts, unpinged>>
    BY <1>2 DEF StopGossip
  <2>2. LoopsInv
    BY DEF GossipInv
  <2>3. Looping' = Looping
    BY <2>1 DEF Looping
  <2>4. Cardinality(armed') <= Cardinality(armed) /\ Cardinality(armed') \in Nat
    BY <2>1, <2>2, OneTimerLess
  <2>5. Loops' <= starts'
    BY <2>1, <2>2, <2>3, <2>4, ArmedAre DEF Loops
  <2>6. LoopsInv'
    BY <2>1, <2>2, <2>5 DEF LoopsInv
  <2>7. VisitInv'
    BY <2>1 DEF GossipInv, VisitInv, Waited, PeerCount
  <2> QED
    BY <2>6, <2>7 DEF GossipInv
<1> QED
  BY <1>1, <1>2 DEF GossipInv, LoopsInv

(* A protocol period pings, or the loop goes on. *)
LEMMA TimerKeeps ==
  ASSUME GossipInv, NEW t \in 1..MaxStarts, GossipTimer(t)
  PROVE  GossipInv'
<1>1. /\ t \in armed /\ VisitInv /\ LoopsInv /\ UNCHANGED <<isStopped, pingable, starts>>
  BY DEF GossipTimer, GossipInv
<1>2. CASE CanPing /\ BeginRound(TRUE) /\ armed' = armed \ {t} /\ handle' = handle
  <2>1. VisitInv'
    BY <1>1, <1>2, BeginKeeps
  <2>2. PICK m \in pingable : /\ isPinging' = TRUE
                              /\ round' = [member |-> m, waiting |-> {}, loop |-> TRUE]
    BY <1>2 DEF BeginRound
  <2>3. round' \in RoundType
    BY <1>1, <2>2 DEF RoundType, VisitInv
  <2>4. Cardinality(armed') = Cardinality(armed) - 1
    BY <1>1, <1>2, OneTimerLess
  <2>5. Loops' <= starts'
    BY <1>1, <2>4, ArmedAre DEF Loops
  <2>6. LoopsInv'
    BY <1>1, <1>2, <2>2, <2>3, <2>5 DEF LoopsInv
  <2> QED
    BY <2>1, <2>6 DEF GossipInv
<1>3. CASE ~CanPing /\ Loop(armed \ {t}) /\ NoRound
  <2>1. VisitInv' /\ UNCHANGED <<isPinging, round>>
    BY <1>1, <1>3, NoRoundKeeps
  <2>2. Looping' = Looping
    BY <2>1 DEF Looping
  <2>3. /\ armed \ {t} \subseteq 1..MaxStarts /\ Cardinality(armed \ {t}) = Cardinality(armed) - 1
        /\ Cardinality(armed \ {t}) < MaxStarts
    <3>1. armed \ {t} \subseteq 1..MaxStarts
      BY <1>1 DEF LoopsInv
    <3>2. Cardinality(armed \ {t}) = Cardinality(armed) - 1
      BY <1>1, OneTimerLess
    <3>3. Cardinality(armed) <= MaxStarts /\ Cardinality(armed) \in Nat /\ MaxStarts \in Nat
      BY <1>1, ArmedAre
    <3> QED
      BY <3>1, <3>2, <3>3
  <2>4. CASE isStopped
    <3>1. armed' = armed \ {t} /\ handle' = handle
      BY <1>3, <2>4 DEF Loop
    <3>2. Loops' <= starts'
      BY <1>1, <2>2, <2>3, <3>1, ArmedAre DEF Loops
    <3>3. LoopsInv'
      BY <1>1, <2>1, <2>3, <3>1, <3>2 DEF LoopsInv
    <3> QED
      BY <2>1, <3>3 DEF GossipInv
  <2>5. CASE ~isStopped
    <3>1. Run(armed \ {t})
      BY <1>3, <2>5 DEF Loop
    <3>2. armed' \subseteq 1..MaxStarts /\ handle' \in 1..MaxStarts
          /\ Cardinality(armed') = Cardinality(armed)
      BY <1>1, <2>3, <3>1, RunSets, ArmedAre, OneTimerLess
    <3>3. Loops' <= starts'
      BY <1>1, <2>2, <3>2, ArmedAre DEF Loops
    <3>4. LoopsInv'
      BY <1>1, <2>1, <3>2, <3>3 DEF LoopsInv
    <3> QED
      BY <2>1, <3>4 DEF GossipInv
  <2> QED
    BY <2>4, <2>5
<1> QED
  BY <1>2, <1>3 DEF GossipTimer

(* A tick of an operator pings beside the loops. *)
LEMMA TickKeeps ==
  ASSUME GossipInv, AdminTick
  PROVE  GossipInv'
<1>1. /\ VisitInv /\ LoopsInv /\ UNCHANGED <<isStopped, armed, handle, pingable, starts>>
  BY DEF AdminTick, GossipInv
<1>2. CASE BeginRound(FALSE)
  <2>1. VisitInv'
    BY <1>1, <1>2, BeginKeeps
  <2>2. PICK m \in pingable : /\ isPinging' = TRUE
                              /\ round' = [member |-> m, waiting |-> {}, loop |-> FALSE]
    BY <1>2 DEF BeginRound
  <2>3. round' \in RoundType /\ ~Looping'
    BY <1>1, <2>2 DEF RoundType, VisitInv, Looping
  <2>4. Loops' <= starts'
    BY <1>1, <2>3, ArmedAre DEF Loops
  <2>5. LoopsInv'
    BY <1>1, <2>2, <2>3, <2>4 DEF LoopsInv
  <2> QED
    BY <2>1, <2>5 DEF GossipInv
<1>3. CASE ~CanPing /\ NoRound
  <2>1. VisitInv' /\ UNCHANGED <<isPinging, round>>
    BY <1>1, <1>3, NoRoundKeeps
  <2>2. LoopsInv'
    BY <1>1, <2>1 DEF LoopsInv, Loops, Looping
  <2> QED
    BY <2>1, <2>2 DEF GossipInv
<1> QED
  BY <1>2, <1>3 DEF AdminTick

(* A round ends, and its loop goes on. *)
LEMMA EndKeeps ==
  ASSUME GossipInv, round # Idle, EndRound
  PROVE  GossipInv'
<1>1. /\ VisitInv /\ LoopsInv /\ UNCHANGED <<isStopped, pingable, starts, order, index, unpinged>>
      /\ isPinging' = FALSE /\ round' = Idle
  BY DEF EndRound, GossipInv
<1>2. VisitInv'
  BY <1>1 DEF VisitInv, Waited, PeerCount
<1>3. CASE round.loop
  <2>1. Loop(armed) /\ Looping
    BY <1>3 DEF EndRound, Looping
  <2>2. Cardinality(armed) < starts /\ IsFiniteSet(armed)
    BY <1>1, <2>1, ArmedAre
  <2>3. armed \in SUBSET (1..MaxStarts)
    BY <1>1 DEF LoopsInv
  <2> QED
    BY <1>1, <1>2, <2>1, <2>2, <2>3, LoopKeeps DEF GossipInv
<1>4. CASE ~round.loop
  <2>1. armed' = armed /\ handle' = handle /\ ~Looping'
    BY <1>1, <1>4 DEF EndRound, Looping
  <2>2. Loops' <= starts'
    BY <1>1, <2>1, ArmedAre DEF Loops
  <2>3. LoopsInv'
    BY <1>1, <2>1, <2>2 DEF LoopsInv
  <2> QED
    BY <1>2, <2>3 DEF GossipInv
<1> QED
  BY <1>3, <1>4

(* Others are asked, or one of them fails. *)
LEMMA AskKeeps ==
  ASSUME GossipInv, NEW helpers \in SUBSET Peer, round # Idle,
         round' = [round EXCEPT !.waiting = helpers],
         UNCHANGED <<isStopped, isPinging, armed, handle, order, index, pingable, starts, unpinged>>
  PROVE  GossipInv'
<1>1. VisitInv /\ LoopsInv /\ round \in RoundType
  BY DEF GossipInv, LoopsInv
<1>2. VisitInv'
  BY <1>1 DEF VisitInv, Waited, PeerCount
<1>3. round' \in RoundType /\ round'.loop = round.loop
  BY <1>1 DEF RoundType
<1>4. Loops' <= starts'
  BY <1>1, <1>3, ArmedAre DEF Loops, Looping
<1>5. LoopsInv'
  BY <1>1, <1>3, <1>4 DEF LoopsInv
<1> QED
  BY <1>2, <1>5 DEF GossipInv

(* A member changes. *)
LEMMA ChangeKeeps ==
  ASSUME GossipInv, NEW m \in Peer, ChangePingable(m)
  PROVE  GossipInv'
<1>1. /\ VisitInv /\ LoopsInv
      /\ UNCHANGED <<isStopped, isPinging, armed, handle, round, order, index, starts>>
      /\ pingable' \subseteq pingable \cup {m}
      /\ unpinged' = [unpinged EXCEPT ![m] = 0]
  BY DEF ChangePingable, GossipInv
<1>2. /\ order \in PeerLists /\ index \in 0..PeerCount /\ unpinged \in [Peer -> Nat] /\ PeerCount \in Nat
  BY <1>1, Sizes DEF VisitInv
<1>3. unpinged' \in [Peer -> Nat] /\ unpinged'[m] = 0 /\ \A x \in Peer : x # m => unpinged'[x] = unpinged[x]
  BY <1>1, <1>2
<1>4. ASSUME NEW x \in pingable' PROVE Waited(x)'
  <2>1. CASE x = m
    <3>1. PICK k \in 1..PeerCount : order[k] = m
      BY <1>2, ListsAre
    <3>2. IF k <= index THEN unpinged'[m] + k <= index ELSE unpinged'[m] + 1 <= PeerCount + index
      BY <1>2, <1>3, <3>1
    <3> QED
      BY <1>1, <2>1, <3>1, <3>2 DEF Waited, PeerCount
  <2>2. CASE x # m
    <3>1. x \in pingable /\ x \in Peer
      BY <1>1, <2>2 DEF VisitInv
    <3>2. Waited(x) /\ unpinged'[x] = unpinged[x]
      BY <1>1, <1>3, <2>2, <3>1 DEF VisitInv
    <3> QED
      BY <1>1, <3>2 DEF Waited, PeerCount
  <2> QED
    BY <2>1, <2>2
<1>5. VisitInv'
  BY <1>1, <1>2, <1>3, <1>4 DEF VisitInv, PeerCount
<1>6. LoopsInv'
  BY <1>1 DEF LoopsInv, Loops, Looping
<1> QED
  BY <1>5, <1>6 DEF GossipInv

(* The first list is as good as any. *)
LEMMA InitGossip == GossipInit => GossipInv
<1> SUFFICES ASSUME GossipInit PROVE GossipInv
  OBVIOUS
<1>1. /\ isStopped = TRUE /\ isPinging = FALSE /\ armed = {} /\ handle = Idle /\ round = Idle
      /\ order \in PeerLists /\ index = 0 /\ pingable = Peer /\ starts = 0
      /\ unpinged = [m \in Peer |-> 0]
  BY ListsAre DEF GossipInit
<1>2. MaxStarts \in Nat /\ PeerCount \in Nat /\ Cardinality({}) = 0
  BY GossipAssumption, Sizes, FS_EmptySet
<1>3. LoopsInv
  <2>1. Loops = 0
    BY <1>1, <1>2 DEF Loops, Looping
  <2> QED
    <3>1. starts \in 0..MaxStarts /\ Loops <= starts
      BY <1>1, <1>2, <2>1
    <3>2. isStopped \in BOOLEAN /\ isPinging \in BOOLEAN
      BY <1>1
    <3>3. armed \subseteq 1..MaxStarts /\ handle \in (1..MaxStarts) \cup {Idle}
          /\ round \in RoundType \cup {Idle}
      BY <1>1
    <3> QED
      BY <3>1, <3>2, <3>3 DEF LoopsInv
<1>4. ASSUME NEW m \in Peer PROVE Waited(m)
  <2>1. PICK k \in 1..PeerCount : order[k] = m
    BY <1>1, ListsAre
  <2>2. IF k <= index THEN unpinged[m] + k <= index ELSE unpinged[m] + 1 <= PeerCount + index
    BY <1>1, <1>2, <2>1
  <2> QED
    BY <2>1, <2>2 DEF Waited
<1>5. VisitInv
  BY <1>1, <1>2, <1>4 DEF VisitInv
<1> QED
  BY <1>3, <1>5 DEF GossipInv

(* Every step keeps both. *)
LEMMA NextGossip == GossipInv /\ [GossipNext]_<<gossipVars, lifeVars>> => GossipInv'
<1> SUFFICES ASSUME GossipInv, [GossipNext]_<<gossipVars, lifeVars>> PROVE GossipInv'
  OBVIOUS
<1>1. CASE UNCHANGED gossipVars
  BY <1>1, StutterKeeps
<1>2. CASE starts < MaxStarts /\ JoinDone(StartGossip, UNCHANGED gossipVars)
  BY <1>1, <1>2, StartKeeps DEF JoinDone
<1>3. CASE DestroyNode(StopGossip)
  BY <1>3, StopKeeps DEF DestroyNode
<1>4. CASE AdminStart \/ AdminStop
  BY <1>4, StartKeeps, StopKeeps DEF AdminStart, AdminStop
<1>5. CASE GossipRound
  <2>1. CASE PingEnds \/ HelpersDecide
    BY <2>1, EndKeeps DEF PingEnds, HelpersDecide
  <2>2. CASE PingFails
    <3>1. PICK helpers \in SUBSET (pingable \ {round.member}) :
            round' = [round EXCEPT !.waiting = helpers]
      BY <2>2 DEF PingFails, kSubset
    <3>2. helpers \subseteq Peer
      BY DEF GossipInv, VisitInv
    <3> QED
      BY <2>2, <3>1, <3>2, AskKeeps DEF PingFails
  <2>3. ASSUME NEW h \in Peer, HelperFails(h) PROVE GossipInv'
    <3> DEFINE helpers == round.waiting \ {h}
    <3>1. round # Idle /\ round \in RoundType
      BY <2>3 DEF HelperFails, GossipInv, LoopsInv
    <3>2. helpers \subseteq Peer /\ round' = [round EXCEPT !.waiting = helpers]
      BY <2>3, <3>1 DEF HelperFails, RoundType
    <3> HIDE DEF helpers
    <3> QED
      BY <2>3, <3>1, <3>2, AskKeeps DEF HelperFails
  <2> QED
    BY <1>5, <2>1, <2>2, <2>3 DEF GossipRound
<1> QED
  BY <1>1, <1>2, <1>3, <1>4, <1>5, TimerKeeps, TickKeeps, ChangeKeeps DEF GossipNext

(* However many members, starts and ticks there are, nobody that can be    *)
(* pinged waits for more than two rounds of the list (gossip/index.js      *)
(* 70-200, iterator.js 29-52).                                             *)
THEOREM NobodyIsForgotten == GossipSpec => []NobodyWaitsLong
<1>1. GossipInv => NobodyWaitsLong
  <2> SUFFICES ASSUME GossipInv PROVE NobodyWaitsLong
    OBVIOUS
  <2>1. GossipTypeOK
    BY ListsAre DEF GossipInv, VisitInv, LoopsInv, GossipTypeOK, PeerCount
  <2>2. ASSUME NEW m \in pingable PROVE unpinged[m] <= 2 * (PeerCount - 1)
    <3>1. PICK k \in 1..PeerCount : IF k <= index THEN unpinged[m] + k <= index ELSE unpinged[m] + 1 <= PeerCount + index
      BY DEF GossipInv, VisitInv, Waited
    <3>2. PeerCount \in Nat /\ index \in 0..PeerCount /\ unpinged[m] \in Nat
      BY Sizes DEF GossipInv, VisitInv
    <3> QED
      BY <3>1, <3>2
  <2> QED
    BY <2>1, <2>2 DEF NobodyWaitsLong, PeerCount
<1> QED
  BY InitGossip, NextGossip, <1>1, PTL DEF GossipSpec

----------------------------------------------------------------------------
DampRuns == {s.token : s \in subs}
Stated(d) == d \in DamperStates /\ d.flappers \cap d.damped = {}
TimersOf(d) ==
  /\ Enabled(d) <=> d.flappers # {}
  /\ d.expiring <=> d.damped # {}

DampInv ==
  /\ listed \subseteq Mates /\ score \in [Mates -> 0..ScoreMax]
  /\ decaying \in BOOLEAN /\ isDestroyed \in BOOLEAN
  /\ Stated(damper)
  /\ \A s \in subs : "token" \in DOMAIN s /\ s.token \in Tokens
  /\ ~isDestroyed => TimersOf(damper) /\ (Enabled(damper) => Running(damper) # {})


(* A run is scheduled with a token that is free. *)
LEMMA ScheduleIs ==
  ASSUME NEW d, Stated(d), NEW busy, Tokens \ busy # {}
  PROVE  LET e == Schedule(d, busy) IN
         /\ Stated(e) /\ Enabled(e) /\ e.armed # {} /\ d.armed \subseteq e.armed
         /\ e.flappers = d.flappers /\ e.damped = d.damped /\ e.expiring = d.expiring
<1> DEFINE t == Min(Tokens \ busy)
           armed2 == d.armed \cup {t}
           e == [d EXCEPT !.timer = t, !.armed = armed2]
<1>1. t \in Tokens
  BY MinIs DEF Tokens
<1>2. d \in DamperStates /\ armed2 \subseteq Tokens
  BY <1>1 DEF Stated, DamperStates
<1>3. Schedule(d, busy) = e
  BY <1>2 DEF Schedule, DamperStates
<1>4. t \in armed2 /\ d.armed \subseteq armed2 /\ t # NoTimer
  BY <1>1, DamperAssumption DEF Tokens
<1> HIDE DEF t, armed2
<1>5. /\ e \in DamperStates /\ e.flappers = d.flappers /\ e.damped = d.damped
      /\ e.expiring = d.expiring /\ e.timer = t /\ e.armed = armed2
  BY <1>1, <1>2 DEF DamperStates
<1> HIDE DEF e
<1> QED
  BY <1>3, <1>4, <1>5 DEF Stated, Enabled

(* Members are flappers no more; the last one stops the timer. *)
LEMMA RemoveIs ==
  ASSUME NEW d, Stated(d), NEW S
  PROVE  LET e == RemoveFlappers(d, S) IN
         /\ Stated(e) /\ e.flappers = d.flappers \ S /\ e.damped = d.damped
         /\ e.expiring = d.expiring /\ e.armed \subseteq d.armed
         /\ Enabled(e) => Enabled(d) /\ e.armed = d.armed
         /\ (Enabled(d) <=> d.flappers # {}) => (Enabled(e) <=> e.flappers # {})
<1> DEFINE F == d.flappers \ S
           b == [d EXCEPT !.flappers = F]
           A == d.armed \ {d.timer}
           c == [b EXCEPT !.armed = A, !.timer = NoTimer]
<1>1. d \in DamperStates /\ F \subseteq d.flappers /\ A \subseteq d.armed
  BY DEF Stated
<1>2. /\ b \in DamperStates /\ b.flappers = F /\ b.damped = d.damped /\ b.expiring = d.expiring
      /\ b.armed = d.armed /\ b.timer = d.timer
  BY <1>1 DEF DamperStates
<1>3. RemoveFlappers(d, S) = IF d.flappers \cap S # {} /\ F = {} /\ Enabled(d) THEN c ELSE b
  <2>1. StopTimer(b) = c
    BY <1>2 DEF StopTimer, DamperStates
  <2>2. b = [d EXCEPT !.flappers = @ \ S]
    BY <1>1 DEF DamperStates
  <2> HIDE DEF b, c, F
  <2> QED
    BY <1>2, <2>1, <2>2 DEF RemoveFlappers, Enabled
<1> HIDE DEF b
<1>4. /\ c \in DamperStates /\ c.flappers = F /\ c.damped = d.damped /\ c.expiring = d.expiring
      /\ c.armed = A /\ c.timer = NoTimer
  BY <1>1, <1>2 DEF DamperStates
<1> HIDE DEF c
<1>5. F \cap d.damped = {} /\ (d.flappers \cap S = {} => F = d.flappers)
  BY DEF Stated
<1>6. CASE d.flappers \cap S # {} /\ F = {} /\ Enabled(d)
  BY <1>1, <1>3, <1>4, <1>5, <1>6 DEF Stated, Enabled
<1>7. CASE ~(d.flappers \cap S # {} /\ F = {} /\ Enabled(d))
  <2>1. RemoveFlappers(d, S) = b
    BY <1>3, <1>7
  <2>2. Enabled(b) <=> Enabled(d)
    BY <1>2 DEF Enabled
  <2>3. (Enabled(d) <=> d.flappers # {}) => (Enabled(b) <=> F # {})
    BY <1>1, <1>5, <1>7, <2>2
  <2> QED
    BY <1>1, <1>2, <1>5, <2>1, <2>2, <2>3 DEF Stated
<1> QED
  BY <1>6, <1>7

(* A new flapper has the timer started if there was none. *)
LEMMA AddIs ==
  ASSUME NEW d, Stated(d), NEW m \in Mates, Running(d) \subseteq Tokens, Running(d) # Tokens
  PROVE  LET e == AddFlapper(d, m) IN
         /\ Stated(e) /\ d.armed \subseteq e.armed
         /\ Enabled(e) => Enabled(d) \/ e.armed # {}
         /\ TimersOf(d) => TimersOf(e)
<1> DEFINE F == d.flappers \cup {m}
           b == [d EXCEPT !.flappers = F]
           c == Schedule(b, Running(d))
<1>1. CASE m \in d.damped \cup d.flappers
  BY <1>1 DEF AddFlapper
<1>2. CASE m \notin d.damped \cup d.flappers
  <2>1. d \in DamperStates /\ F \cap d.damped = {} /\ F \subseteq Mates /\ F # {}
    BY <1>2 DEF Stated, DamperStates
  <2>2. /\ b \in DamperStates /\ b.flappers = F /\ b.damped = d.damped /\ b.expiring = d.expiring
        /\ b.armed = d.armed /\ b.timer = d.timer
    BY <2>1 DEF DamperStates
  <2>3. AddFlapper(d, m) = IF d.flappers = {} /\ ~Enabled(d) THEN c ELSE b
    <3>1. b = [d EXCEPT !.flappers = @ \cup {m}]
      BY <2>1 DEF DamperStates
    <3> HIDE DEF b
    <3> QED
      BY <1>2, <3>1 DEF AddFlapper
  <2> HIDE DEF b
  <2>4. Stated(b) /\ (Enabled(b) <=> Enabled(d))
    BY <2>1, <2>2 DEF Stated, Enabled
  <2>5. Tokens \ Running(d) # {}
    OBVIOUS
  <2>6. /\ Stated(c) /\ Enabled(c) /\ c.armed # {} /\ b.armed \subseteq c.armed
        /\ c.flappers = b.flappers /\ c.damped = b.damped /\ c.expiring = b.expiring
    BY <2>4, <2>5, ScheduleIs
  <2> HIDE DEF c
  <2>7. CASE d.flappers = {} /\ ~Enabled(d)
    BY <2>1, <2>2, <2>3, <2>6, <2>7 DEF TimersOf
  <2>8. CASE ~(d.flappers = {} /\ ~Enabled(d))
    BY <2>1, <2>2, <2>3, <2>4, <2>8 DEF TimersOf
  <2> QED
    BY <2>7, <2>8
<1> QED
  BY <1>1, <1>2

(* A run that is over has the next one scheduled, if a timer is enabled.   *)
LEMMA CallbackIs ==
  ASSUME NEW d, Stated(d), NEW t \in Tokens
  PROVE  LET e == Callback(d, t) IN
         /\ Stated(e) /\ (Enabled(e) <=> Enabled(d)) /\ (Enabled(e) => e.armed # {})
         /\ e.flappers = d.flappers /\ e.damped = d.damped /\ e.expiring = d.expiring
<1> DEFINE A == d.armed \ {t}
           b == [d EXCEPT !.armed = A]
           c == Schedule(b, Running(d) \ {t})
<1>1. d \in DamperStates /\ A \subseteq Tokens
  BY DEF Stated, DamperStates
<1>2. /\ b \in DamperStates /\ b.flappers = d.flappers /\ b.damped = d.damped
      /\ b.expiring = d.expiring /\ b.timer = d.timer
  BY <1>1 DEF DamperStates
<1>3. Callback(d, t) = IF Enabled(d) THEN c ELSE b
  <2>1. b = [d EXCEPT !.armed = @ \ {t}]
    BY <1>1 DEF DamperStates
  <2> HIDE DEF b
  <2> QED
    BY <2>1 DEF Callback
<1> HIDE DEF b
<1>4. Stated(b) /\ (Enabled(b) <=> Enabled(d))
  BY <1>2 DEF Stated, Enabled
<1>5. Tokens \ (Running(d) \ {t}) # {}
  OBVIOUS
<1>6. /\ Stated(c) /\ Enabled(c) /\ c.armed # {}
      /\ c.flappers = b.flappers /\ c.damped = b.damped /\ c.expiring = b.expiring
  BY <1>4, <1>5, ScheduleIs
<1> HIDE DEF c
<1> QED
  BY <1>2, <1>3, <1>4, <1>6

(* Members are damped for a while. *)
LEMMA DampIs ==
  ASSUME NEW d, Stated(d), NEW S \in SUBSET d.flappers
  PROVE  LET e == DampMembers(d, S) IN
         /\ Stated(e) /\ (TimersOf(d) => TimersOf(e))
<1> DEFINE b == RemoveFlappers(d, S)
           D == b.damped \cup S
           c == [b EXCEPT !.damped = D, !.expiring = TRUE]
<1>1. CASE S = {}
  BY <1>1 DEF DampMembers
<1>2. CASE S # {}
  <2>1. /\ Stated(b) /\ b.flappers = d.flappers \ S /\ b.damped = d.damped
        /\ b.expiring = d.expiring
        /\ (Enabled(d) <=> d.flappers # {}) => (Enabled(b) <=> b.flappers # {})
    BY RemoveIs
  <2>2. DampMembers(d, S) = c
    BY <1>2 DEF DampMembers, Stated, DamperStates
  <2> HIDE DEF b
  <2>3. S \subseteq Mates /\ D \subseteq Mates /\ D # {} /\ b.flappers \cap D = {}
    BY <1>2, <2>1 DEF Stated, DamperStates
  <2> HIDE DEF D
  <2>4. /\ c \in DamperStates /\ c.flappers = b.flappers /\ c.damped = D /\ c.expiring = TRUE
        /\ c.timer = b.timer
    BY <2>1, <2>3 DEF Stated, DamperStates
  <2> HIDE DEF c
  <2>5. Stated(c)
    BY <2>3, <2>4 DEF Stated
  <2>6. TimersOf(d) => TimersOf(c)
    BY <2>1, <2>3, <2>4 DEF TimersOf, Enabled
  <2> QED
    BY <2>2, <2>5, <2>6
<1> QED
  BY <1>1, <1>2

(* A damper changes, the subprotocols stay: enabled, it still has a run.   *)
LEMMA DamperChangeKeeps ==
  ASSUME DampInv, NEW e, Stated(e),
         damper' = e, UNCHANGED <<listed, subs, decaying, lifeVars>>,
         score' \in [Mates -> 0..ScoreMax],
         ~isDestroyed => TimersOf(e) /\ (Enabled(e) => \/ e.armed # {}
                                                       \/ damper.armed \subseteq e.armed /\ Enabled(damper))
  PROVE  DampInv'
<1>1. Stated(damper)' /\ (TimersOf(damper)' <=> TimersOf(e)) /\ (Enabled(damper)' <=> Enabled(e))
  BY DEF Stated, DamperStates, TimersOf, Enabled, Tokens
<1>2. Running(damper)' = e.armed \cup {s.token : s \in subs}
  BY DEF Running, lifeVars
<1>3. /\ listed' \subseteq Mates /\ decaying' \in BOOLEAN /\ isDestroyed' \in BOOLEAN
      /\ (isDestroyed' <=> isDestroyed)
      /\ \A s \in subs' : "token" \in DOMAIN s /\ s.token \in Tokens'
  BY DEF DampInv, lifeVars, Tokens
<1>4. ASSUME ~isDestroyed, Enabled(e)
      PROVE  e.armed \cup {s.token : s \in subs} # {}
  BY <1>4 DEF DampInv, Running
<1> QED
  BY <1>1, <1>2, <1>3, <1>4 DEF DampInv

(* A penalty changes one score, and may make a flapper or end one. *)
LEMMA UpdateKeeps ==
  ASSUME DampInv, NEW m \in Mates, Update(m)
  PROVE  DampInv'
<1>1. PICK v \in 0..score[m] :
        LET new == Min({v + Penalty, ScoreMax})
            d == IF score[m] > ReuseLimit /\ v <= ReuseLimit
                 THEN RemoveFlappers(damper, {m}) ELSE damper
        IN /\ score' = [score EXCEPT ![m] = new]
           /\ damper' = IF v < SuppressLimit /\ new >= SuppressLimit
                        THEN AddFlapper(d, m) ELSE d
  BY DEF Update
<1> DEFINE new == Min({v + Penalty, ScoreMax})
           d == IF score[m] > ReuseLimit /\ v <= ReuseLimit
                THEN RemoveFlappers(damper, {m}) ELSE damper
           e == AddFlapper(d, m)
<1>2. /\ score \in [Mates -> 0..ScoreMax] /\ Stated(damper)
      /\ Running(damper) # Tokens /\ UNCHANGED <<listed, subs, decaying, lifeVars>>
  BY DEF Update, DampInv
<1>3. Running(damper) \subseteq Tokens /\ damper.armed \subseteq Running(damper)
  BY DEF DampInv, Stated, DamperStates, Running
<1>4. new \in 0..ScoreMax
  <2>1. v \in Nat /\ v + Penalty \in Nat /\ ScoreMax \in Nat
    BY <1>2, DamperAssumption
  <2>2. {v + Penalty, ScoreMax} \in SUBSET Nat /\ {v + Penalty, ScoreMax} # {}
    BY <2>1
  <2>3. new \in {v + Penalty, ScoreMax} /\ \A y \in {v + Penalty, ScoreMax} : new <= y
    BY <2>2, MinIs
  <2> QED
    BY <2>1, <2>3
<1>5. /\ Stated(d) /\ d.armed \subseteq damper.armed
      /\ Enabled(d) => Enabled(damper) /\ d.armed = damper.armed
      /\ TimersOf(damper) => TimersOf(d)
  <2>1. CASE score[m] > ReuseLimit /\ v <= ReuseLimit
    <3>1. d = RemoveFlappers(damper, {m})
      BY <2>1
    <3> QED
      BY <1>2, <3>1, RemoveIs DEF TimersOf
  <2>2. CASE ~(score[m] > ReuseLimit /\ v <= ReuseLimit)
    <3>1. d = damper
      BY <2>2
    <3> QED
      BY <1>2, <3>1
  <2> QED
    BY <2>1, <2>2
<1>6. score' \in [Mates -> 0..ScoreMax]
  BY <1>1, <1>2, <1>4
<1>7. damper' = e \/ damper' = d
  BY <1>1
<1> HIDE DEF new, d
<1>8. Running(d) \subseteq Tokens /\ Running(d) # Tokens
  BY <1>2, <1>3, <1>5 DEF Running
<1>9. /\ Stated(e) /\ d.armed \subseteq e.armed
      /\ Enabled(e) => Enabled(d) \/ e.armed # {}
      /\ TimersOf(d) => TimersOf(e)
  BY <1>5, <1>8, AddIs
<1> HIDE DEF e
<1>10. ~isDestroyed => TimersOf(damper)
  BY DEF DampInv
<1>11. CASE damper' = d
  BY <1>2, <1>5, <1>6, <1>10, <1>11, DamperChangeKeeps
<1>12. CASE damper' = e
  <2>1. Enabled(e) => \/ e.armed # {}
                      \/ damper.armed \subseteq e.armed /\ Enabled(damper)
    BY <1>5, <1>9
  <2>2. ~isDestroyed => TimersOf(e)
    BY <1>5, <1>9, <1>10
  <2> QED
    BY <1>2, <1>6, <1>9, <1>12, <2>1, <2>2, DamperChangeKeeps
<1> QED
  BY <1>7, <1>11, <1>12

(* Decay lowers scores, and whoever recovers is damped no longer. *)
LEMMA DecayKeeps ==
  ASSUME DampInv, Decay
  PROVE  DampInv'
<1>1. PICK after \in [Mates -> 0..ScoreMax] :
        /\ score' = after
        /\ damper' = RemoveFlappers(damper,
             {m \in listed : score[m] > ReuseLimit /\ after[m] <= ReuseLimit})
  BY DEF Decay
<1> DEFINE S == {m \in listed : score[m] > ReuseLimit /\ after[m] <= ReuseLimit}
           e == RemoveFlappers(damper, S)
<1>2. damper' = e /\ UNCHANGED <<listed, subs, decaying, lifeVars>>
  BY <1>1 DEF Decay
<1> HIDE DEF S
<1>3. /\ Stated(e) /\ e.flappers = damper.flappers \ S /\ e.damped = damper.damped
      /\ e.expiring = damper.expiring
      /\ Enabled(e) => Enabled(damper) /\ e.armed = damper.armed
      /\ (Enabled(damper) <=> damper.flappers # {}) => (Enabled(e) <=> e.flappers # {})
  BY RemoveIs DEF DampInv
<1> HIDE DEF e
<1>4. ~isDestroyed => TimersOf(e)
  BY <1>3 DEF DampInv, TimersOf
<1> QED
  BY <1>1, <1>2, <1>3, <1>4, DamperChangeKeeps

(* Members come and go without a word to the damper. *)
LEMMA MemberKeeps ==
  ASSUME DampInv, NEW m \in Mates, EvictMember(m) \/ CreateMember(m)
  PROVE  DampInv'
<1>1. listed' \subseteq Mates /\ score' \in [Mates -> 0..ScoreMax]
  <2>1. listed \subseteq Mates /\ score \in [Mates -> 0..ScoreMax] /\ 0 \in 0..ScoreMax
    BY DamperAssumption DEF DampInv
  <2> QED
    BY <2>1 DEF EvictMember, CreateMember
<1>2. UNCHANGED <<damper, subs, decaying, lifeVars>>
  BY DEF EvictMember, CreateMember
<1>3. Stated(damper)' /\ (TimersOf(damper)' <=> TimersOf(damper)) /\ (Enabled(damper)' <=> Enabled(damper))
  BY <1>2 DEF DampInv, Stated, DamperStates, TimersOf, Enabled, Tokens
<1>4. Running(damper)' = Running(damper) /\ (isDestroyed' <=> isDestroyed) /\ Tokens' = Tokens
  BY <1>2 DEF Running, lifeVars, Tokens
<1>5. /\ decaying' \in BOOLEAN /\ isDestroyed' \in BOOLEAN
      /\ \A s \in subs' : "token" \in DOMAIN s /\ s.token \in Tokens'
  BY <1>2, <1>4 DEF DampInv, lifeVars
<1> QED
  BY <1>1, <1>3, <1>4, <1>5 DEF DampInv

(* The expiration timer stops with the last damped member. *)
LEMMA ExpireKeeps ==
  ASSUME DampInv, NEW gone \in SUBSET Mates, Expire(gone)
  PROVE  DampInv'
<1> DEFINE D == damper.damped \ gone
           more == (gone = {} \/ gone # damper.damped)
           e == [damper EXCEPT !.damped = D, !.expiring = more]
<1>1. /\ Stated(damper) /\ damper \in DamperStates /\ D \subseteq damper.damped /\ more \in BOOLEAN
      /\ score \in [Mates -> 0..ScoreMax]
  BY DEF DampInv, Stated
<1>2. damper' = e
  BY <1>1 DEF Expire, DamperStates
<1>3. damper.expiring /\ gone \subseteq damper.damped /\ UNCHANGED <<listed, score, subs, decaying, lifeVars>>
  BY DEF Expire
<1>4. ~isDestroyed => (more <=> D # {})
  BY <1>3 DEF DampInv, TimersOf
<1> HIDE DEF D, more
<1>5. /\ e \in DamperStates /\ e.flappers = damper.flappers /\ e.damped = D /\ e.expiring = more
      /\ e.timer = damper.timer /\ e.armed = damper.armed
  BY <1>1 DEF DamperStates
<1> HIDE DEF e
<1>6. Stated(e) /\ (Enabled(e) <=> Enabled(damper))
  BY <1>1, <1>5 DEF Stated, Enabled
<1>7. ~isDestroyed => TimersOf(e)
  BY <1>4, <1>5, <1>6 DEF DampInv, TimersOf
<1>8. score' \in [Mates -> 0..ScoreMax]
  BY <1>1, <1>3
<1> QED
  BY <1>2, <1>3, <1>5, <1>6, <1>7, <1>8, DamperChangeKeeps

(* destroy stops both timers of the damper. *)
LEMMA DamperStopKeeps ==
  ASSUME DampInv, DestroyNode(StopDamping)
  PROVE  DampInv'
<1> DEFINE A == damper.armed \ {damper.timer}
           b == [damper EXCEPT !.armed = A, !.timer = NoTimer]
           e == [b EXCEPT !.expiring = FALSE]
           f == [damper EXCEPT !.expiring = FALSE]
<1>1. Stated(damper) /\ damper \in DamperStates /\ A \subseteq damper.armed
  BY DEF DampInv, Stated
<1>2. StopTimer(damper) = b
  BY <1>1 DEF StopTimer, DamperStates
<1>3. damper' = IF Enabled(damper) THEN e ELSE f
  BY <1>2 DEF DestroyNode, StopDamping
<1>4. Stated(e) /\ Stated(f)
  BY <1>1 DEF Stated, DamperStates
<1> HIDE DEF e, f
<1>5. Stated(damper)'
  <2>1. damper' = e \/ damper' = f
    BY <1>3
  <2> QED
    BY <1>4, <2>1 DEF Stated, DamperStates, Tokens
<1>6. isDestroyed' = TRUE /\ decaying' = FALSE /\ UNCHANGED <<listed, score, subs>>
  BY DEF DestroyNode, StopDamping
<1>7. /\ listed' \subseteq Mates /\ score' \in [Mates -> 0..ScoreMax]
      /\ \A s \in subs' : "token" \in DOMAIN s /\ s.token \in Tokens'
  BY <1>6 DEF DampInv, Tokens
<1> QED
  BY <1>5, <1>6, <1>7 DEF DampInv

(* A run is over: the next one is scheduled, or none is enabled. *)
LEMMA OverKeeps ==
  ASSUME DampInv, NEW t \in Tokens, NEW d, Stated(d), ~isDestroyed => TimersOf(d),
         damper' = Callback(d, t), UNCHANGED <<listed, score, decaying, lifeVars>>,
         subs' \subseteq subs
  PROVE  DampInv'
<1> DEFINE e == Callback(d, t)
<1>1. /\ Stated(e) /\ (Enabled(e) <=> Enabled(d)) /\ (Enabled(e) => e.armed # {})
      /\ e.flappers = d.flappers /\ e.damped = d.damped /\ e.expiring = d.expiring
  BY CallbackIs
<1> HIDE DEF e
<1>2. damper' = e
  BY DEF e
<1>3. ~isDestroyed => TimersOf(e)
  BY <1>1 DEF TimersOf
<1>4. /\ Stated(damper)' /\ (TimersOf(damper)' <=> TimersOf(e))
      /\ (Enabled(damper)' <=> Enabled(e))
  BY <1>1, <1>2 DEF Stated, DamperStates, TimersOf, Enabled, Tokens
<1>5. Running(damper)' = e.armed \cup {s.token : s \in subs'}
  BY <1>2 DEF Running
<1>6. /\ listed' \subseteq Mates /\ score' \in [Mates -> 0..ScoreMax]
      /\ decaying' \in BOOLEAN /\ isDestroyed' \in BOOLEAN /\ (isDestroyed' <=> isDestroyed)
      /\ \A s \in subs' : "token" \in DOMAIN s /\ s.token \in Tokens'
  BY DEF DampInv, lifeVars, Tokens
<1>7. ~isDestroyed => TimersOf(damper)' /\ (Enabled(damper)' => Running(damper)' # {})
  BY <1>1, <1>3, <1>4, <1>5
<1> QED
  BY <1>4, <1>6, <1>7 DEF DampInv

(* A run of the same token goes on. *)
LEMMA GoesOnKeeps ==
  ASSUME DampInv, NEW s, "token" \in DOMAIN s, s.token \in Tokens,
         s \in subs', \A u \in subs' : u \in subs \/ u = s,
         UNCHANGED <<listed, score, decaying, lifeVars>>,
         Stated(damper'), TimersOf(damper') <=> TimersOf(damper)
  PROVE  DampInv'
<1>1. Stated(damper)' /\ (~isDestroyed => TimersOf(damper)')
  BY DEF DampInv, Stated, DamperStates, TimersOf, Enabled, Tokens
<1>2. s.token \in Running(damper)'
  BY DEF Running
<1>3. /\ listed' \subseteq Mates /\ score' \in [Mates -> 0..ScoreMax]
      /\ decaying' \in BOOLEAN /\ isDestroyed' \in BOOLEAN /\ (isDestroyed' <=> isDestroyed)
      /\ \A u \in subs' : "token" \in DOMAIN u /\ u.token \in Tokens'
  BY DEF DampInv, lifeVars, Tokens
<1> QED
  BY <1>1, <1>2, <1>3 DEF DampInv

(* The damp timer asks the members, or is set again at once. *)
LEMMA DampTimerKeeps ==
  ASSUME DampInv, NEW t \in Tokens, DampTimer(t)
  PROVE  DampInv'
<1>1. PICK members \in Asked(damper) :
       IF ~WithinLimit(damper) \/ members = {}
       THEN damper' = Callback(damper, t) /\ UNCHANGED subs
       ELSE /\ damper' = [damper EXCEPT !.armed = @ \ {t}]
            /\ subs' = subs \cup
                 {[token |-> t, waiting |-> members, results |-> 0,
                   rVal |-> Min({RVal, Cardinality(members)}),
                   tally |-> [m \in damper.flappers |-> 0]]}
  BY DEF DampTimer
<1>2. UNCHANGED <<listed, score, decaying, lifeVars>>
  BY DEF DampTimer
<1>3. Stated(damper) /\ (~isDestroyed => TimersOf(damper))
  BY DEF DampInv
<1>4. CASE ~WithinLimit(damper) \/ members = {}
  <2>1. damper' = Callback(damper, t) /\ subs' \subseteq subs
    BY <1>1, <1>4
  <2> QED
    BY <1>2, <1>3, <2>1, OverKeeps
<1>5. CASE ~(~WithinLimit(damper) \/ members = {})
  <2> DEFINE s == [token |-> t, waiting |-> members, results |-> 0,
                   rVal |-> Min({RVal, Cardinality(members)}),
                   tally |-> [m \in damper.flappers |-> 0]]
             A == damper.armed \ {t}
             e == [damper EXCEPT !.armed = A]
  <2>1. "token" \in DOMAIN s /\ s.token = t
    OBVIOUS
  <2>2. subs' = subs \cup {s}
    BY <1>1, <1>5
  <2>3. damper \in DamperStates /\ A \subseteq Tokens
    BY <1>3 DEF Stated, DamperStates
  <2>4. damper' = e
    BY <1>1, <1>5, <2>3 DEF DamperStates
  <2> HIDE DEF s
  <2>5. Stated(e) /\ (TimersOf(e) <=> TimersOf(damper))
    BY <1>3, <2>3 DEF Stated, DamperStates, TimersOf, Enabled
  <2> HIDE DEF e
  <2>6. Stated(damper') /\ (TimersOf(damper') <=> TimersOf(damper))
    BY <2>4, <2>5
  <2>7. s \in subs' /\ \A u \in subs' : u \in subs \/ u = s
    BY <2>2
  <2> QED
    BY <1>2, <2>1, <2>6, <2>7, GoesOnKeeps
<1> QED
  BY <1>4, <1>5

(* With enough answers the round damps members and sets the timer again. *)
LEMMA ContinueKeeps ==
  ASSUME DampInv, NEW old \in subs, NEW s, "token" \in DOMAIN s, s.token = old.token,
         Continue(old, s), UNCHANGED <<listed, score, decaying, lifeVars>>
  PROVE  DampInv'
<1>1. s.token \in Tokens /\ Stated(damper) /\ (~isDestroyed => TimersOf(damper))
  BY DEF DampInv
<1>2. CASE s.results >= s.rVal
  <2>1. PICK d \in Damped(damper, ToDamp(s)) : damper' = Callback(d, s.token)
    BY <1>2 DEF Continue
  <2>2. PICK S \in SUBSET damper.flappers : d = DampMembers(damper, S)
    BY <2>1 DEF Damped
  <2>3. Stated(d) /\ (TimersOf(damper) => TimersOf(d))
    BY <1>1, <2>2, DampIs
  <2>4. subs' \subseteq subs
    BY <1>2 DEF Continue
  <2> QED
    BY <1>1, <2>1, <2>3, <2>4, OverKeeps
<1>3. CASE ~(s.results >= s.rVal) /\ Cardinality(s.waiting) < s.rVal - s.results
  <2>1. damper' = Callback(damper, s.token) /\ subs' \subseteq subs
    BY <1>3 DEF Continue
  <2> QED
    BY <1>1, <2>1, OverKeeps
<1>4. CASE ~(s.results >= s.rVal) /\ ~(Cardinality(s.waiting) < s.rVal - s.results)
  <2>1. subs' = (subs \ {old}) \cup {s} /\ damper' = damper
    BY <1>4 DEF Continue
  <2>2. s \in subs' /\ \A u \in subs' : u \in subs \/ u = s
    BY <2>1
  <2>3. Stated(damper') /\ (TimersOf(damper') <=> TimersOf(damper))
    BY <1>1, <2>1
  <2> QED
    BY <1>1, <2>2, <2>3, GoesOnKeeps
<1> QED
  BY <1>2, <1>3, <1>4

(* A round of questions ends at the last answer it still needs. *)
LEMMA SubKeeps ==
  ASSUME DampInv, SubProgress
  PROVE  DampInv'
<1>0. PICK s \in subs : \E h \in s.waiting :
       \/ \E report \in [DOMAIN s.tally -> Reports] : DampReqAnswered(s, h, report)
       \/ DampReqFailed(s, h)
  BY DEF SubProgress
<1>1. PICK h \in s.waiting :
       \/ \E report \in [DOMAIN s.tally -> Reports] : DampReqAnswered(s, h, report)
       \/ DampReqFailed(s, h)
  BY <1>0
<1>2. UNCHANGED <<listed, score, decaying, lifeVars>> /\ "token" \in DOMAIN s
  BY DEF SubProgress, DampInv
<1>3. CASE DampReqFailed(s, h)
  <2> DEFINE u == [s EXCEPT !.waiting = @ \ {h}]
  <2>1. "token" \in DOMAIN u /\ u.token = s.token
    BY <1>2
  <2>2. Continue(s, u)
    BY <1>3 DEF DampReqFailed
  <2> HIDE DEF u
  <2> QED
    BY <1>2, <2>1, <2>2, ContinueKeeps
<1>4. CASE \E report \in [DOMAIN s.tally -> Reports] : DampReqAnswered(s, h, report)
  <2>1. PICK report \in [DOMAIN s.tally -> Reports] : DampReqAnswered(s, h, report)
    BY <1>4
  <2> DEFINE u == [s EXCEPT !.waiting = @ \ {h}, !.results = @ + 1,
                            !.tally = Tally(@, report)]
  <2>2. "token" \in DOMAIN u /\ u.token = s.token
    BY <1>2
  <2>3. Continue(s, u)
    BY <2>1 DEF DampReqAnswered
  <2> HIDE DEF u
  <2> QED
    BY <1>2, <2>2, <2>3, ContinueKeeps
<1> QED
  BY <1>1, <1>3, <1>4

(* Nothing changes, but that a node begins to start or fails to. *)
LEMMA QuietKeeps ==
  ASSUME DampInv, UNCHANGED <<dampVars, isDestroyed>>
  PROVE  DampInv'
<1>1. UNCHANGED <<listed, score, damper, subs, decaying, isDestroyed>>
  BY DEF dampVars
<1> QED
  BY <1>1 DEF DampInv, Stated, DamperStates, TimersOf, Enabled, Running, Tokens

(* A node that becomes ready has a list, and its damper is as it was. *)
LEMMA SetMembersKeeps ==
  ASSUME DampInv, JoinDone(SetMembers, UNCHANGED dampVars)
  PROVE  DampInv'
<1>1. listed' \subseteq Mates
  <2>1. listed \subseteq Mates
    BY DEF DampInv
  <2>2. SetMembers \/ UNCHANGED dampVars
    BY DEF JoinDone
  <2> QED
    BY <2>1, <2>2 DEF SetMembers, dampVars
<1>2. UNCHANGED <<score, damper, subs, decaying, isDestroyed>>
  BY DEF JoinDone, SetMembers, dampVars
<1> QED
  BY <1>1, <1>2 DEF DampInv, Stated, DamperStates, TimersOf, Enabled, Running, Tokens

(* A damper starts with nobody damped and no timer. *)
LEMMA InitDamp ==
  ASSUME LifeInit, DampInit
  PROVE  DampInv
<1>1. 0 \in 0..ScoreMax
  BY DamperAssumption
<1>2. /\ damper.flappers = {} /\ damper.damped = {} /\ damper.timer = NoTimer
      /\ damper.armed = {} /\ damper.expiring = FALSE /\ damper \in DamperStates
  BY DEF DampInit, DamperStates
<1> QED
  BY <1>1, <1>2 DEF LifeInit, DampInit, DampInv, Stated, TimersOf, Enabled

(* Every step of the damper keeps its invariant. *)
LEMMA NextDamp ==
  ASSUME DampInv, [DampNext]_<<dampVars, lifeVars>>
  PROVE  DampInv'
<1>1. CASE DestroyNode(StopDamping)
  BY <1>1, DamperStopKeeps
<1>2. CASE \E m \in Mates : Update(m) \/ EvictMember(m) \/ CreateMember(m)
  BY <1>2, UpdateKeeps, MemberKeeps
<1>3. CASE Decay
  BY <1>3, DecayKeeps
<1>4. CASE \E gone \in SUBSET Mates : Expire(gone)
  BY <1>4, ExpireKeeps
<1>5. CASE \E t \in Tokens : DampTimer(t)
  BY <1>5, DampTimerKeeps
<1>6. CASE SubProgress
  BY <1>6, SubKeeps
<1>7. CASE UNCHANGED <<dampVars, lifeVars>>
  BY <1>7, QuietKeeps DEF lifeVars
<1>8. CASE (Bootstrap \/ BootstrapFails) /\ UNCHANGED dampVars
  BY <1>8, QuietKeeps DEF Bootstrap, BootstrapFails
<1>9. CASE JoinDone(SetMembers, UNCHANGED dampVars)
  BY <1>9, SetMembersKeeps
<1> QED
  BY <1>1, <1>2, <1>3, <1>4, <1>5, <1>6, <1>7, <1>8, <1>9 DEF DampNext

(* Only members of the list are pingable. *)
PingableListed == askable \subseteq listed
LEMMA NextPingable ==
  ASSUME PingableListed, [DampNext]_<<dampVars, lifeVars>>
  PROVE  PingableListed'
<1> USE DEF PingableListed
<1>1. CASE UNCHANGED <<listed, askable>>
  BY <1>1
<1>2. ASSUME NEW m \in Mates, Update(m) \/ EvictMember(m) \/ CreateMember(m)
      PROVE  askable' \subseteq listed'
  BY <1>2 DEF Update, EvictMember, CreateMember, ChangeStatus
<1>3. CASE JoinDone(SetMembers, UNCHANGED dampVars)
  BY <1>3 DEF JoinDone, SetMembers, dampVars
<1>4. CASE DestroyNode(StopDamping)
  BY <1>1, <1>4 DEF DestroyNode, StopDamping
<1>5. CASE Decay \/ SubProgress \/ UNCHANGED dampVars
  BY <1>1, <1>5 DEF Decay, SubProgress, dampVars
<1>6. CASE \E gone \in SUBSET Mates : Expire(gone)
  BY <1>1, <1>6 DEF Expire
<1>7. CASE \E t \in Tokens : DampTimer(t)
  BY <1>1, <1>7 DEF DampTimer
<1> QED
  BY <1>2, <1>3, <1>4, <1>5, <1>6, <1>7 DEF DampNext

(* The damp timer is enabled exactly while there are flappers and the      *)
(* expiration timer exactly while there are damped members, nobody is      *)
(* both, and the chain of damp timers and subprotocols never breaks        *)
(* (damper.js 57-63, 129-211, 277-371, 375-403, 509-514).                  *)
THEOREM DampTimersFit == DampSpec => []TimersFitSets
<1>1. LifeInit /\ DampInit => DampInv /\ PingableListed
  BY InitDamp DEF DampInit, PingableListed
<1>2. DampInv /\ PingableListed /\ [DampNext]_<<dampVars, lifeVars>>
      => DampInv' /\ PingableListed'
  BY NextDamp, NextPingable
<1>3. DampInv /\ PingableListed => TimersFitSets
  BY DEF PingableListed, DampInv, TimersFitSets, DamperTypeOK, Stated, TimersOf
<1> QED
  BY <1>1, <1>2, <1>3, PTL DEF DampSpec

----------------------------------------------------------------------------
AllVars == <<evictVars, lifeVars>>

PhaseNames == {"pre_evict", "evicting", "post_evict", "done"}

(* The phases so far are the first ones of the list. *)
InOrder ==
  /\ phases \in Seq(PhaseNames) /\ Len(phases) \in 0..4
  /\ \A i \in 1..Len(phases) : phases[i] = Phases[i]

(* Of each phase, what is under way in it and what comes next: its last    *)
(* hook or ping, and nothing else, sets the tick of the phase after it.    *)
AtPhase ==
  \/ /\ Len(phases) = 0 /\ running = {} /\ pinged = {} /\ ticks = {} /\ answers.ok = 0
  \/ /\ Len(phases) = 1 /\ pinged = {} /\ answers.ok = 0
     /\ ticks = IF running = {} THEN {"evict"} ELSE {}
  \/ /\ Len(phases) = 2 /\ running = {} /\ answers.ok = 0
     /\ ticks = IF pinged = {} THEN {"postEvict"} ELSE {}
  \/ /\ Len(phases) = 3 /\ pinged = {} /\ answers.ok = 0
     /\ ticks = IF running = {} THEN {"done"} ELSE {}
  \/ /\ Len(phases) = 4
     /\ running = {} /\ pinged = {} /\ ticks = {} /\ answers.ok = 1

(* What _.after counts is what has been called and has not called back.    *)
EvictInv ==
  /\ hooks \subseteq Hook /\ running \subseteq Hook /\ pinged \subseteq Comrade
  /\ pingable2 \subseteq Comrade
  /\ answers \in [err : Nat, ok : Nat]
  /\ left = Cardinality(running) + Cardinality(pinged)
  /\ InOrder /\ AtPhase

(* The hooks and pings under way are finitely many. *)
LEMMA Finitely ==
  ASSUME NEW H \in SUBSET Hook, NEW M \in SUBSET Comrade
  PROVE  /\ IsFiniteSet(H) /\ Cardinality(H) \in 0..Cardinality(Hook)
         /\ IsFiniteSet(M) /\ Cardinality(M) \in 0..Cardinality(Comrade)
         /\ Cardinality(Hook) \in Nat /\ Cardinality(Comrade) \in Nat
         /\ Cardinality(H) = 0 <=> H = {}
         /\ Cardinality(M) = 0 <=> M = {}
<1>1. IsFiniteSet(Hook) /\ IsFiniteSet(Comrade)
  BY SelfEvictAssumption
<1>2. IsFiniteSet(H) /\ Cardinality(H) <= Cardinality(Hook)
  BY <1>1, FS_Subset
<1>3. IsFiniteSet(M) /\ Cardinality(M) <= Cardinality(Comrade)
  BY <1>1, FS_Subset
<1>4. /\ Cardinality(H) \in Nat /\ Cardinality(M) \in Nat
      /\ Cardinality(Hook) \in Nat /\ Cardinality(Comrade) \in Nat
  BY <1>1, <1>2, <1>3, FS_CardinalityType
<1> QED
  BY <1>2, <1>3, <1>4, FS_EmptySet

(* One that calls back was counted, and counts for one. *)
LEMMA OneLess ==
  ASSUME NEW S, IsFiniteSet(S), NEW x \in S
  PROVE  /\ Cardinality(S \ {x}) = Cardinality(S) - 1
         /\ Cardinality(S) \in Nat /\ Cardinality(S) > 0
         /\ Cardinality(S) <= 1 <=> S \ {x} = {}
<1>1. Cardinality(S \ {x}) = Cardinality(S) - 1 /\ IsFiniteSet(S \ {x})
  BY FS_RemoveElement
<1>2. Cardinality(S) \in Nat /\ Cardinality(S \ {x}) \in Nat
  BY <1>1, FS_CardinalityType
<1>3. Cardinality(S \ {x}) = 0 <=> S \ {x} = {}
  BY <1>1, FS_EmptySet
<1> QED
  BY <1>1, <1>2, <1>3

(* The list of phases. *)
LEMMA PhaseList ==
  /\ Phases \in Seq(PhaseNames) /\ Len(Phases) = 4
  /\ Phases[1] = "pre_evict" /\ Phases[2] = "evicting"
  /\ Phases[3] = "post_evict" /\ Phases[4] = "done"
BY DEF Phases, PhaseNames

(* The next phase keeps the order. *)
LEMMA NextPhase ==
  ASSUME InOrder, Len(phases) < 4, phases' = Append(phases, Phases[Len(phases) + 1])
  PROVE  InOrder' /\ Len(phases') = Len(phases) + 1
<1>1. Phases[Len(phases) + 1] \in PhaseNames
  <2>1. Len(phases) + 1 \in 1..4
    BY DEF InOrder
  <2> QED
    BY <2>1, PhaseList
<1>2. /\ phases' \in Seq(PhaseNames) /\ Len(phases') = Len(phases) + 1
      /\ \A i \in 1..Len(phases) : phases'[i] = phases[i]
      /\ phases'[Len(phases) + 1] = Phases[Len(phases) + 1]
  BY <1>1, AppendProperties DEF InOrder
<1> QED
  BY <1>2 DEF InOrder

(* _runHooks counts the hooks it calls. *)
LEMMA HooksCounted ==
  ASSUME EvictInv, running = {}, pinged = {}, pinged' = pinged,
         NEW type, NEW then, RunHooks(type, then)
  PROVE  left' = Cardinality(running') + Cardinality(pinged') /\ running' \subseteq Hook
<1> DEFINE names == hooks \cap Methods(type)
<1>1. names \subseteq Hook /\ Cardinality({}) = 0
  BY FS_EmptySet DEF EvictInv
<1>2. Cardinality(names) \in Nat
  BY <1>1, Finitely
<1>3. \/ names = {} /\ left' = left /\ running' = running
      \/ left' = Cardinality(names) /\ running' = names
  BY DEF RunHooks
<1> HIDE DEF names
<1> QED
  BY <1>1, <1>2, <1>3 DEF EvictInv

(* It holds before anything happens. *)
LEMMA InitEvictInv == EvictInit => EvictInv
<1>1. Cardinality({}) = 0
  BY FS_EmptySet
<1>2. << >> \in Seq(PhaseNames) /\ Len(<< >>) = 0
  OBVIOUS
<1> QED
  BY <1>1, <1>2 DEF EvictInit, EvictInv, InOrder, AtPhase

(* initiate, and _runHooks of the preEvict hooks (168-193, 306-366).       *)
LEMMA InitiateKeeps ==
  ASSUME EvictInv, Initiate
  PROVE  EvictInv'
<1>1. CASE phases # << >>
  BY <1>1 DEF Initiate, EvictInv, InOrder, AtPhase
<1>2. CASE phases = << >>
  <2>1. /\ phases' = <<"pre_evict">> /\ answers' = answers /\ hooks' = hooks
        /\ pinged' = pinged /\ pingable2' = pingable2 /\ RunHooks("preEvict", "evict")
    BY <1>2 DEF Initiate
  <2>2. Len(phases) = 0 /\ running = {} /\ pinged = {} /\ answers.ok = 0
    BY <1>2 DEF EvictInv, AtPhase
  <2>3. InOrder' /\ Len(phases') = 1
    <3>1. <<"pre_evict">> \in Seq(PhaseNames) /\ Len(<<"pre_evict">>) = 1 /\ <<"pre_evict">>[1] = "pre_evict"
      BY DEF PhaseNames
    <3> QED
      BY <2>1, <3>1, PhaseList DEF InOrder
  <2>4. AtPhase'
    BY <2>1, <2>2, <2>3 DEF AtPhase, RunHooks
  <2>5. left' = Cardinality(running') + Cardinality(pinged') /\ running' \subseteq Hook
    BY <2>1, <2>2, HooksCounted
  <2> QED
    BY <2>1, <2>3, <2>4, <2>5 DEF EvictInv
<1> QED
  BY <1>1, <1>2

(* A hook calls back; the last one lets the eviction go on (355-363).      *)
LEMMA HookDoneKeeps ==
  ASSUME EvictInv, NEW h \in Hook, HookDone(h)
  PROVE  EvictInv'
<1>1. /\ h \in running /\ running' = running \ {h} /\ left' = left - 1
      /\ ticks' = IF left <= 1 THEN {IF Len(phases) = 1 THEN "evict" ELSE "done"} ELSE ticks
      /\ hooks' = hooks /\ phases' = phases /\ pinged' = pinged /\ answers' = answers
      /\ pingable2' = pingable2
  BY DEF HookDone, After
<1>2. /\ pinged = {} /\ ticks = {} /\ answers.ok = 0
      /\ Len(phases) = 1 \/ Len(phases) = 3
  BY <1>1 DEF EvictInv, AtPhase
<1>3. IsFiniteSet(running) /\ Cardinality({}) = 0
  BY Finitely, FS_EmptySet DEF EvictInv
<1>4. /\ Cardinality(running \ {h}) = Cardinality(running) - 1
      /\ Cardinality(running) \in Nat
      /\ Cardinality(running) <= 1 <=> running \ {h} = {}
  BY <1>1, <1>3, OneLess
<1>5. left = Cardinality(running)
  BY <1>2, <1>3, <1>4 DEF EvictInv
<1>6. left' = Cardinality(running') + Cardinality(pinged')
  BY <1>1, <1>2, <1>3, <1>4, <1>5
<1>7. left <= 1 <=> running' = {}
  BY <1>1, <1>4, <1>5
<1>8. AtPhase'
  BY <1>1, <1>2, <1>7 DEF AtPhase
<1> QED
  BY <1>1, <1>6, <1>8 DEF EvictInv, InOrder

(* _evict: the node is faulty, and some members are pinged (214-249).      *)
LEMMA EvictKeeps ==
  ASSUME EvictInv, Evict
  PROVE  EvictInv'
<1>1. PICK members \in kSubset(NumberOfPings, pingable2) :
        /\ pinged' = members /\ left' = Cardinality(members)
        /\ ticks' = IF members = {} THEN {"postEvict"} ELSE {}
  BY DEF Evict
<1>2. members \subseteq pingable2
  BY DEF kSubset
<1>3. /\ Len(phases) = 1 /\ running = {} /\ answers.ok = 0
  BY DEF Evict, EvictInv, AtPhase
<1>4. InOrder' /\ Len(phases') = 2
  BY <1>3, NextPhase, PhaseList DEF Evict, EvictInv
<1>5. Cardinality(members) \in Nat /\ Cardinality({}) = 0
  BY <1>2, Finitely, FS_EmptySet DEF EvictInv
<1>6. AtPhase'
  BY <1>1, <1>3, <1>4 DEF Evict, AtPhase
<1>7. left' = Cardinality(running') + Cardinality(pinged')
  BY <1>1, <1>3, <1>5 DEF Evict
<1> QED
  BY <1>1, <1>2, <1>4, <1>6, <1>7 DEF Evict, EvictInv

(* A ping is answered or fails; the last one lets the eviction go on.      *)
LEMMA AfterPingKeeps ==
  ASSUME EvictInv, NEW m \in Comrade, AfterPing(m)
  PROVE  EvictInv'
<1>1. /\ m \in pinged /\ pinged' = pinged \ {m} /\ left' = left - 1
      /\ ticks' = IF left <= 1 THEN {"postEvict"} ELSE ticks
      /\ hooks' = hooks /\ phases' = phases /\ running' = running /\ answers' = answers
      /\ pingable2' = pingable2
  BY DEF AfterPing, After
<1>2. /\ running = {} /\ ticks = {} /\ answers.ok = 0 /\ Len(phases) = 2
  BY <1>1 DEF EvictInv, AtPhase
<1>3. IsFiniteSet(pinged) /\ Cardinality({}) = 0
  BY Finitely, FS_EmptySet DEF EvictInv
<1>4. /\ Cardinality(pinged \ {m}) = Cardinality(pinged) - 1
      /\ Cardinality(pinged) \in Nat
      /\ Cardinality(pinged) <= 1 <=> pinged \ {m} = {}
  BY <1>1, <1>3, OneLess
<1>5. left = Cardinality(pinged)
  BY <1>2, <1>3, <1>4 DEF EvictInv
<1>6. left' = Cardinality(running') + Cardinality(pinged')
  BY <1>1, <1>2, <1>3, <1>4, <1>5
<1>7. left <= 1 <=> pinged' = {}
  BY <1>1, <1>4, <1>5
<1>8. AtPhase'
  BY <1>1, <1>2, <1>7 DEF AtPhase
<1> QED
  BY <1>1, <1>6, <1>8 DEF EvictInv, InOrder

(* _postEvict: the postEvict hooks that are registered by now (251-258).   *)
LEMMA PostEvictKeeps ==
  ASSUME EvictInv, PostEvict
  PROVE  EvictInv'
<1>1. /\ Len(phases) = 2 /\ running = {} /\ pinged = {}
      /\ answers.ok = 0
  BY DEF PostEvict, EvictInv, AtPhase
<1>2. InOrder' /\ Len(phases') = 3
  BY <1>1, NextPhase, PhaseList DEF PostEvict, EvictInv
<1>6. AtPhase'
  BY <1>1, <1>2 DEF PostEvict, AtPhase, RunHooks
<1>7. left' = Cardinality(running') + Cardinality(pinged') /\ running' \subseteq Hook
  BY <1>1, HooksCounted DEF PostEvict
<1> QED
  BY <1>2, <1>6, <1>7 DEF PostEvict, EvictInv

(* _done: the callback of the one who started it (260-271).                *)
LEMMA DoneKeeps ==
  ASSUME EvictInv, Done
  PROVE  EvictInv'
<1>1. /\ Len(phases) = 3 /\ running = {} /\ pinged = {}
      /\ answers.ok = 0 /\ answers \in [err : Nat, ok : Nat]
  BY DEF Done, EvictInv, AtPhase
<1>2. InOrder' /\ Len(phases') = 4
  BY <1>1, NextPhase, PhaseList DEF Done, EvictInv
<1>3. answers' \in [err : Nat, ok : Nat] /\ answers'.ok = 1
  BY <1>1 DEF Done
<1> QED
  BY <1>1, <1>2, <1>3 DEF Done, EvictInv, AtPhase

(* Every step keeps it. *)
LEMMA NextEvictInv == EvictInv /\ [EvictNext]_AllVars => EvictInv'
<1> SUFFICES ASSUME EvictInv, [EvictNext]_AllVars PROVE EvictInv'
  OBVIOUS
<1>1. CASE EvictStep
  BY <1>1, EvictKeeps, PostEvictKeeps, DoneKeeps, HookDoneKeeps, AfterPingKeeps DEF EvictStep
<1>2. CASE HostsDiscovered
  BY <1>2 DEF HostsDiscovered, EvictInv, InOrder, AtPhase
<1>3. CASE UNCHANGED evictVars
  BY <1>3 DEF evictVars, EvictInv, InOrder, AtPhase
<1>4. ASSUME NEW h \in Hook, RegisterHook(h) PROVE EvictInv'
  BY <1>4 DEF RegisterHook, EvictInv, InOrder, AtPhase
<1>5. ASSUME NEW m \in Comrade, ChangeComrade(m) PROVE EvictInv'
  BY <1>5 DEF ChangeComrade, EvictInv, InOrder, AtPhase
<1>6. CASE UNCHANGED AllVars
  BY <1>3, <1>6 DEF AllVars
<1> QED
  BY <1>1, <1>2, <1>3, <1>4, <1>5, <1>6, InitiateKeeps DEF EvictNext

(* It puts the phases in their order. *)
LEMMA InvGivesOrder == EvictInv => PhasesInOrder
<1> SUFFICES ASSUME EvictInv PROVE PhasesInOrder
  OBVIOUS
<1>1. SelfEvictTypeOK
  <2>1. Cardinality(running) + Cardinality(pinged) \in 0..(Cardinality(Hook) + Cardinality(Comrade))
    BY Finitely DEF EvictInv
  <2>2. ticks \subseteq {"evict", "postEvict", "done"}
    BY DEF EvictInv, AtPhase
  <2> QED
    BY <2>1, <2>2 DEF EvictInv, SelfEvictTypeOK
<1>2. phases = SubSeq(Phases, 1, Len(phases))
  <2> DEFINE first == SubSeq(Phases, 1, Len(phases))
  <2>1. /\ Len(phases) \in Nat /\ Len(phases) <= 4 /\ phases \in Seq(PhaseNames)
        /\ \A i \in 1..Len(phases) : phases[i] = Phases[i]
    <3>1. InOrder
      BY DEF EvictInv
    <3> QED
      BY <3>1 DEF InOrder
  <2>2. first = [i \in 1..Len(phases) |-> Phases[i]]
    BY <2>1, PhaseList
  <2>3. phases = [i \in 1..Len(phases) |-> phases[i]]
    BY <2>1
  <2> QED
    BY <2>1, <2>2, <2>3
<1>3. Cardinality(ticks) <= 1
  <2>1. ticks = {} \/ \E x : ticks = {x}
    BY DEF EvictInv, AtPhase
  <2>2. CASE ticks = {}
    BY <2>2, FS_EmptySet
  <2>3. CASE \E x : ticks = {x}
    BY <2>3, FS_Singleton
  <2> QED
    BY <2>1, <2>2, <2>3
<1>4. ticks # {} => running = {} /\ pinged = {}
  BY DEF EvictInv, AtPhase
<1>5. Len(phases) = 4 => answers.ok = 1
  BY DEF EvictInv, AtPhase
<1> QED
  BY <1>1, <1>2, <1>3, <1>4, <1>5 DEF PhasesInOrder

(* The phases of a self eviction come in order, each when everything of    *)
(* the one before has called back, for any number of hooks, registered at  *)
(* any time, any members and any number of callers (self-evict.js 117-366).*)
THEOREM PhasesComeInOrder == EvictSpec => []PhasesInOrder
<1>1. LifeInit /\ EvictInit => EvictInv
  BY InitEvictInv
<1>2. EvictInv /\ [EvictNext]_<<evictVars, lifeVars>> => EvictInv'
  BY NextEvictInv DEF AllVars
<1> QED
  BY <1>1, <1>2, InvGivesOrder, PTL DEF EvictSpec

----------------------------------------------------------------------------
(* The tracers of a node.                                                *)

(* What the variables of the tracer store hold. *)
Keys == {Defaulted(o) : o \in Additions}
Tracer ==
  [key : Keys, stage : {"connecting", "open", "failed"}, listening : BOOLEAN,
   armed : BOOLEAN, until : {"later", "past", "unclear"}]
AddRequest == [stage : {"waiting", "ok", "error"}, opts : Additions]
RequestState == [stage : {"idle", "removed"}] \cup AddRequest
TraceTicks ==
  [do : {"connect", "disconnect"}, what : TraceRequest] \cup [do : {"emit"}, what : {"ok", "error"}]

(* A list of different tracers of D. *)
Listed(list, D) ==
  /\ list \in Seq(D)
  /\ \A i, j \in 1..Len(list) : list[i] = list[j] => i = j
(* What is scheduled is about tracers that were made, and none that is to   *)
(* be disconnected is still in the store S.                                 *)
TicksFit(queue, D, S) ==
  /\ queue \in Seq(TraceTicks)
  /\ \A i \in 1..Len(queue) :
       /\ queue[i].do # "emit" => queue[i].what \in D
       /\ queue[i].do = "disconnect" => queue[i].what \notin S
TraceTypeOK ==
  /\ requests \in [TraceRequest -> RequestState]
  /\ DOMAIN tracers \subseteq TraceRequest /\ tracers \in [DOMAIN tracers -> Tracer]
  /\ \A t \in DOMAIN tracers : requests[t] \in AddRequest /\ tracers[t].key = Defaulted(requests[t].opts)
  /\ Listed(store, DOMAIN tracers)
  /\ TicksFit(traceTicks, DOMAIN tracers, Stored)

(* A tracer of the store has not failed, listens when it is open, and has  *)
(* a timer then if its time lies ahead.                                    *)
Proper(tracer) ==
  /\ tracer.stage # "failed"
  /\ IF tracer.stage = "open" THEN tracer.listening /\ (tracer.armed <=> tracer.until = "later")
                              ELSE ~tracer.listening
(* No two tracers of the store have a sink in common. *)
OneEach == \A t, u \in Stored : tracers[t].key = tracers[u].key => t = u

(* The inductive invariant of the store. *)
TracersInv ==
  /\ TraceTypeOK
  /\ AllNamed => OneEach /\ \A t \in Stored : Proper(tracers[t])

(* The first of the places where the store matches is one of them. *)
LEMMA IndexAt ==
  ASSUME Listed(store, DOMAIN tracers), NEW key, Matching(key) # {}
  PROVE  /\ IndexOf(key) \in 1..Len(store) /\ store[IndexOf(key)] \in Stored
         /\ tracers[store[IndexOf(key)]].key = key
  <1>1. store \in Seq(DOMAIN tracers) /\ Len(store) \in Nat /\ DOMAIN store = 1..Len(store) BY DEF Listed
  <1>2. Matching(key) \in SUBSET Nat BY <1>1 DEF Matching
  <1>3. IndexOf(key) \in Matching(key) BY <1>2, MinIs DEF IndexOf
  <1> QED BY <1>1, <1>3 DEF Matching, Stored

(* A list without one of its places: the element there is gone, the others *)
(* are as they were.                                                       *)
LEMMA OneOut ==
  ASSUME NEW D, NEW list, Listed(list, D), NEW i \in 1..Len(list)
  PROVE  LET rest == RemoveAt(list, i)
         IN /\ Listed(rest, D)
            /\ {rest[j] : j \in DOMAIN rest} = {list[j] : j \in DOMAIN list} \ {list[i]}
  <1> DEFINE n == Len(list)
             rest == RemoveAt(list, i)
  <1>1. list \in Seq(D) /\ n \in Nat /\ i \in Nat /\ 1 <= i /\ i <= n /\ DOMAIN list = 1..n BY DEF Listed
  <1>2. /\ SubSeq(list, 1, i - 1) \in Seq(D) /\ Len(SubSeq(list, 1, i - 1)) = i - 1
        /\ \A j \in 1..i - 1 : SubSeq(list, 1, i - 1)[j] = list[j]
    BY <1>1
  <1> DEFINE last == SubSeq(list, i + 1, n)
  <1>3. /\ last \in Seq(D) /\ Len(last) = n - i
        /\ \A j \in 1..n - i : last[j] = list[j + i]
    <2>1. i + 1 \in Int /\ n \in Int /\ n - (i + 1) + 1 = n - i /\ \A j \in i + 1..n : list[j] \in D BY <1>1
    <2>2. /\ last \in Seq(D) /\ Len(last) = (IF i + 1 <= n THEN n - (i + 1) + 1 ELSE 0)
          /\ \A j \in 1..n - (i + 1) + 1 : last[j] = list[(i + 1) + j - 1]
      BY <2>1, SubSeqProperties
    <2>3. \A j \in 1..n - i : (i + 1) + j - 1 = j + i BY <1>1
    <2> HIDE DEF last
    <2>4. Len(last) = n - i
      <3>1. Len(last) = (IF i + 1 <= n THEN n - i ELSE 0) BY <2>1, <2>2
      <3>2. n \in Nat /\ i \in Nat /\ i <= n BY <1>1
      <3> HIDE DEF n, last
      <3>3. i + 1 <= n \/ n - i = 0 BY <3>2
      <3> QED BY <3>1, <3>3, <3>2
    <2>5. \A j \in 1..n - i : j \in 1..n - (i + 1) + 1 BY <2>1
    <2>6. \A j \in 1..n - i : last[j] = list[j + i] BY <2>2, <2>3, <2>5
    <2> QED BY <2>2, <2>4, <2>6
  <1> DEFINE first == SubSeq(list, 1, i - 1)
  <1>4. rest = first \o last BY DEF RemoveAt
  <1> HIDE DEF rest, n, first, last
  <1>5. rest \in Seq(D) /\ Len(rest) = n - 1
        /\ \A j \in 1..n - 1 : rest[j] = IF j < i THEN list[j] ELSE list[j + 1]
    <2>1. first \in Seq(D) /\ Len(first) = i - 1 /\ \A j \in 1..i - 1 : first[j] = list[j]
      BY <1>2 DEF first
    <2>2. /\ rest \in Seq(D) /\ Len(rest) = (i - 1) + (n - i)
          /\ \A j \in 1..(i - 1) + (n - i) :
               rest[j] = IF j <= i - 1 THEN first[j] ELSE last[j - (i - 1)]
      BY <1>3, <1>4, <2>1, ConcatProperties
    <2>3. ASSUME NEW j \in 1..n - 1 PROVE rest[j] = IF j < i THEN list[j] ELSE list[j + 1]
      <3>1. j \in 1..(i - 1) + (n - i) BY <1>1
      <3>2. CASE j < i
        <4>1. j <= i - 1 /\ j \in 1..i - 1 BY <1>1, <3>2
        <4> QED BY <2>1, <2>2, <3>1, <3>2, <4>1
      <3>3. CASE ~(j < i)
        <4>1. ~(j <= i - 1) /\ j - (i - 1) \in 1..n - i /\ (j - (i - 1)) + i = j + 1 BY <1>1, <3>3
        <4>2. rest[j] = last[j - (i - 1)] BY <2>2, <3>1, <4>1
        <4>3. last[j - (i - 1)] = list[(j - (i - 1)) + i] BY <1>3, <4>1
        <4> QED BY <3>3, <4>1, <4>2, <4>3
      <3> QED BY <3>2, <3>3
    <2>4. (i - 1) + (n - i) = n - 1 BY <1>1
    <2> QED BY ONLY <2>2, <2>3, <2>4
  <1>6. \A j, k \in 1..n : list[j] = list[k] => j = k BY DEF Listed, n
  <1>7. DOMAIN rest = 1..n - 1 BY <1>5
  <1>8. ASSUME NEW j \in 1..n - 1, NEW k \in 1..n - 1, rest[j] = rest[k] PROVE j = k
    BY <1>1, <1>5, <1>6, <1>8
  <1>9. Listed(rest, D) BY <1>5, <1>8 DEF Listed
  <1>10. ASSUME NEW j \in 1..n - 1 PROVE \E k \in 1..n : rest[j] = list[k] /\ list[k] # list[i]
    <2>1. CASE j < i
      <3>1. rest[j] = list[j] /\ j \in 1..n /\ j # i BY <1>1, <1>5, <2>1
      <3> QED BY <1>1, <1>6, <3>1
    <2>2. CASE ~(j < i)
      <3>1. rest[j] = list[j + 1] /\ j + 1 \in 1..n /\ j + 1 # i BY <1>1, <1>5, <2>2
      <3> QED BY <1>1, <1>6, <3>1
    <2> QED BY <2>1, <2>2
  <1>11. ASSUME NEW k \in 1..n, k # i PROVE \E j \in 1..n - 1 : rest[j] = list[k]
    <2>1. CASE k < i
      <3>1. k \in 1..n - 1 /\ rest[k] = list[k] BY <1>1, <1>5, <2>1
      <3> QED BY <3>1
    <2>2. CASE ~(k < i)
      <3>1. k - 1 \in 1..n - 1 /\ rest[k - 1] = list[k] BY <1>1, <1>5, <1>11, <2>2
      <3> QED BY <3>1
    <2> QED BY <2>1, <2>2
  <1>12. {rest[j] : j \in 1..n - 1} = {list[j] : j \in 1..n} \ {list[i]}
    <2>1. \A x \in {rest[j] : j \in 1..n - 1} : x \in {list[j] : j \in 1..n} \ {list[i]} BY <1>10
    <2>2. \A x \in {list[j] : j \in 1..n} \ {list[i]} : x \in {rest[j] : j \in 1..n - 1}
      <3> SUFFICES ASSUME NEW k \in 1..n, list[k] # list[i] PROVE list[k] \in {rest[j] : j \in 1..n - 1}
        OBVIOUS
      <3>1. k # i OBVIOUS
      <3> QED BY <1>11, <3>1
    <2> QED BY <2>1, <2>2
  <1> QED BY <1>1, <1>7, <1>9, <1>12 DEF rest

(* One thing more, or one less, is scheduled. *)
LEMMA TickMore ==
  ASSUME NEW q, NEW D, NEW S, TicksFit(q, D, S), NEW tick \in TraceTicks,
         tick.do # "emit" => tick.what \in D, tick.do = "disconnect" => tick.what \notin S
  PROVE  TicksFit(Append(q, tick), D, S)
  <1>1. q \in Seq(TraceTicks) /\ Len(q) \in Nat BY DEF TicksFit
  <1>2. Append(q, tick) \in Seq(TraceTicks) /\ Len(Append(q, tick)) = Len(q) + 1 BY <1>1
  <1>3. \A i \in 1..Len(q) + 1 : Append(q, tick)[i] = IF i <= Len(q) THEN q[i] ELSE tick
    BY <1>1
  <1>4. \A i \in 1..Len(q) + 1 : i <= Len(q) => i \in 1..Len(q) BY <1>1
  <1> DEFINE p == Append(q, tick)
  <1> HIDE DEF p
  <1>5. ASSUME NEW i \in 1..Len(q) + 1
        PROVE  /\ p[i].do # "emit" => p[i].what \in D
               /\ p[i].do = "disconnect" => p[i].what \notin S
    <2>1. CASE i <= Len(q)
      <3>1. p[i] = q[i] /\ i \in 1..Len(q) BY <1>3, <1>4, <2>1 DEF p
      <3> QED BY <3>1 DEF TicksFit
    <2>2. CASE ~(i <= Len(q))
      <3>1. p[i] = tick BY <1>3, <2>2 DEF p
      <3> QED BY <3>1
    <2> QED BY <2>1, <2>2
  <1> QED BY <1>2, <1>5 DEF TicksFit, p
LEMMA TickLess ==
  ASSUME NEW q, NEW D, NEW S, TicksFit(q, D, S), q # << >>
  PROVE  /\ TicksFit(Tail(q), D, S) /\ Head(q) \in TraceTicks
         /\ Head(q).do # "emit" => Head(q).what \in D
  <1>1. q \in Seq(TraceTicks) /\ Len(q) \in Nat /\ Len(q) >= 1 BY DEF TicksFit
  <1>2. Tail(q) \in Seq(TraceTicks) /\ Len(Tail(q)) = Len(q) - 1 BY <1>1
  <1>3. \A i \in 1..Len(q) - 1 : Tail(q)[i] = q[i + 1] /\ i + 1 \in 1..Len(q) BY <1>1
  <1>4. Head(q) = q[1] /\ 1 \in 1..Len(q) BY <1>1
  <1>5. TicksFit(Tail(q), D, S)
    <2> DEFINE p == Tail(q)
    <2> HIDE DEF p
    <2>1. \A i \in 1..Len(q) - 1 : p[i] = q[i + 1] /\ i + 1 \in 1..Len(q) BY <1>3 DEF p
    <2>2. \A i \in 1..Len(p) : /\ p[i].do # "emit" => p[i].what \in D
                               /\ p[i].do = "disconnect" => p[i].what \notin S
      BY <1>2, <2>1 DEF TicksFit, p
    <2> QED BY <1>2, <2>2 DEF TicksFit, p
  <1>6. q[1] \in TraceTicks /\ (q[1].do # "emit" => q[1].what \in D) BY <1>1, <1>4 DEF TicksFit
  <1> QED BY <1>4, <1>5, <1>6

(* A step that makes no tracer keeps the invariant if it leaves those that  *)
(* stay in the store proper.                                                *)
LEMMA NoneMade ==
  ASSUME TracersInv, requests' \in [TraceRequest -> RequestState],
         \A r \in TraceRequest : requests[r] \in AddRequest
           => requests'[r] \in AddRequest /\ requests'[r].opts = requests[r].opts,
         tracers' \in [DOMAIN tracers -> Tracer],
         \A t \in DOMAIN tracers : tracers'[t].key = tracers[t].key,
         Listed(store', DOMAIN tracers), TicksFit(traceTicks', DOMAIN tracers, Stored'),
         Stored' \subseteq Stored,
         AllNamed /\ OneEach /\ (\A t \in Stored : Proper(tracers[t]))
           => \A t \in Stored' : Proper(tracers'[t])
  PROVE  TracersInv'
  <1>1. TraceTypeOK BY DEF TracersInv
  <1>2. DOMAIN tracers' = DOMAIN tracers OBVIOUS
  <1>3. DOMAIN tracers \subseteq TraceRequest BY <1>1 DEF TraceTypeOK
  <1>4. \A t \in DOMAIN tracers' : requests'[t] \in AddRequest /\ tracers'[t].key = Defaulted(requests'[t].opts)
    BY <1>1, <1>2, <1>3 DEF TraceTypeOK
  <1>5. TraceTypeOK'
    <2>1. DOMAIN tracers' \subseteq TraceRequest /\ tracers' \in [DOMAIN tracers' -> Tracer]
          /\ Listed(store', DOMAIN tracers') /\ TicksFit(traceTicks', DOMAIN tracers', Stored')
      BY <1>2, <1>3
    <2> QED BY <1>4, <2>1 DEF TraceTypeOK
  <1>6. ASSUME AllNamed' PROVE AllNamed
    <2> SUFFICES ASSUME NEW r \in TraceRequest, requests[r].stage \notin {"idle", "removed"}
                 PROVE  requests[r].opts.name # Omitted
      BY DEF AllNamed
    <2>1. requests[r] \in AddRequest BY <1>1 DEF TraceTypeOK, RequestState
    <2>2. requests'[r] \in AddRequest /\ requests'[r].opts = requests[r].opts BY <2>1
    <2>3. requests'[r].stage \notin {"idle", "removed"} BY <2>2 DEF AddRequest
    <2> QED BY <1>6, <2>2, <2>3 DEF AllNamed
  <1>7. ASSUME AllNamed' PROVE OneEach' /\ \A t \in Stored' : Proper(tracers'[t])
    <2>1. OneEach /\ \A t \in Stored' : Proper(tracers'[t]) BY <1>6, <1>7 DEF TracersInv
    <2>2. Stored \subseteq DOMAIN tracers BY <1>1 DEF TraceTypeOK, Listed, Stored
    <2>3. \A t, u \in Stored' : tracers'[t].key = tracers'[u].key => t = u
      BY <2>1, <2>2 DEF OneEach
    <2> QED BY <2>1, <2>3 DEF OneEach
  <1> QED BY <1>5, <1>7 DEF TracersInv

(* remove takes at most one tracer out of the store, the only one with the *)
(* key if all keys differ, and leaves those that stay alone.                *)
LEMMA TakenOut ==
  ASSUME TraceTypeOK, NEW ts \in [DOMAIN tracers -> Tracer],
         \A u \in DOMAIN tracers : ts[u].key = tracers[u].key,
         NEW key, NEW queue, TicksFit(queue, DOMAIN tracers, Stored), TakeOut(ts, key, queue)
  PROVE  /\ tracers' \in [DOMAIN tracers -> Tracer]
         /\ \A u \in DOMAIN tracers : tracers'[u].key = tracers[u].key
         /\ Listed(store', DOMAIN tracers) /\ TicksFit(traceTicks', DOMAIN tracers, Stored')
         /\ Stored' \subseteq Stored /\ \A u \in Stored' : tracers'[u] = ts[u]
         /\ OneEach => \A u \in Stored' : tracers[u].key # key
  <1> DEFINE D == DOMAIN tracers
  <1>0. Listed(store, D) /\ D \subseteq TraceRequest BY DEF TraceTypeOK
  <1>1. store \in Seq(D) /\ DOMAIN store = 1..Len(store) BY <1>0 DEF Listed
  <1>2. Stored \subseteq D BY <1>1 DEF Stored
  <1>3. CASE Matching(key) = {}
    <2>1. tracers' = ts /\ traceTicks' = queue /\ store' = store BY <1>3 DEF TakeOut
    <2>2. Stored' = Stored BY <2>1 DEF Stored
    <2>3. \A u \in Stored : tracers[u].key # key BY <1>3 DEF Matching, Stored
    <2> HIDE DEF D
    <2> QED BY <1>0, <2>1, <2>2, <2>3 DEF D
  <1>4. CASE Matching(key) # {}
    <2> DEFINE i == IndexOf(key)
               t == store[i]
    <2>1. i \in 1..Len(store) /\ t \in Stored /\ tracers[t].key = key BY <1>0, <1>4, IndexAt
    <2>2. t \in D BY <1>2, <2>1
    <2>3. /\ tracers' = [ts EXCEPT ![t].armed = FALSE, ![t].listening = FALSE]
          /\ store' = RemoveAt(store, i)
          /\ traceTicks' = IF key[1] = "log" THEN queue
                           ELSE Append(queue, [do |-> "disconnect", what |-> t])
      BY <1>4 DEF TakeOut
    <2> HIDE DEF i
    <2>4. Listed(store', D) /\ Stored' = Stored \ {t}
      <3>1. Listed(RemoveAt(store, i), D)
            /\ {RemoveAt(store, i)[j] : j \in DOMAIN RemoveAt(store, i)}
                 = {store[j] : j \in DOMAIN store} \ {t}
        BY <1>0, <2>1, OneOut
      <3> QED BY <2>3, <3>1 DEF Stored
    <2> HIDE DEF t
    <2> DEFINE new == [ts[t] EXCEPT !.armed = FALSE, !.listening = FALSE]
    <2>5. new \in Tracer /\ new.key = ts[t].key
      <3>1. ts[t] \in Tracer BY <2>2
      <3> QED BY ONLY <3>1 DEF Tracer
    <2>6. tracers' = [ts EXCEPT ![t] = new] BY <2>2, <2>3
    <2> HIDE DEF new
    <2>7. tracers' \in [D -> Tracer] BY <2>2, <2>5, <2>6
    <2>8. \A u \in D : tracers'[u].key = tracers[u].key /\ (u # t => tracers'[u] = ts[u])
      <3>1. tracers'[t] = new BY <2>2, <2>6
      <3>2. \A u \in D : u # t => tracers'[u] = ts[u] BY <2>2, <2>6
      <3>3. tracers'[t].key = ts[t].key BY <2>5, <3>1
      <3> QED BY <2>2, <3>2, <3>3
    <2>9. TicksFit(traceTicks', D, Stored')
      <3>1. TicksFit(queue, D, Stored') BY <2>4 DEF TicksFit
      <3> DEFINE tick == [do |-> "disconnect", what |-> t]
      <3>2. tick \in TraceTicks /\ tick.do = "disconnect" /\ tick.what = t BY <1>0, <2>2 DEF TraceTicks
      <3> HIDE DEF tick, D
      <3>3. TicksFit(Append(queue, tick), D, Stored')
        BY <2>2, <2>4, <3>1, <3>2, TickMore
      <3> QED BY <2>3, <3>1, <3>3 DEF tick
    <2>10. OneEach => \A u \in Stored' : tracers[u].key # key BY <2>1, <2>4 DEF OneEach
    <2>11. \A u \in Stored' : tracers'[u] = ts[u] BY <1>2, <2>4, <2>8
    <2> QED BY <2>4, <2>7, <2>8, <2>9, <2>10, <2>11
  <1> QED BY <1>3, <1>4

(* The empty store has the invariant. *)
LEMMA InitTracers == TraceInit => TracersInv
  <1> SUFFICES ASSUME TraceInit PROVE TracersInv
    OBVIOUS
  <1>1. tracers = << >> /\ store = << >> /\ traceTicks = << >> BY DEF TraceInit
  <1>2. Stored = {} /\ DOMAIN tracers = {} BY <1>1 DEF Stored
  <1>3. requests \in [TraceRequest -> RequestState] BY DEF TraceInit, RequestState
  <1>4. tracers \in [DOMAIN tracers -> Tracer] BY <1>1, <1>2
  <1>5. Listed(store, DOMAIN tracers) BY <1>1 DEF Listed
  <1>6. TicksFit(traceTicks, DOMAIN tracers, Stored) BY <1>1 DEF TicksFit
  <1>7. TraceTypeOK BY <1>2, <1>3, <1>4, <1>5, <1>6 DEF TraceTypeOK
  <1> QED BY <1>2, <1>7 DEF TracersInv, OneEach

(* What add was asked says when to expire. *)
LEMMA AddRequestIs ==
  ASSUME TraceTypeOK, NEW t \in DOMAIN tracers
  PROVE  /\ t \in TraceRequest /\ tracers[t] \in Tracer
         /\ requests[t].opts.expires \in {"later", "past", "unclear"}
  <1>1. requests[t] \in AddRequest /\ t \in TraceRequest /\ tracers[t] \in Tracer BY DEF TraceTypeOK
  <1>2. requests[t].opts \in Additions BY <1>1 DEF AddRequest
  <1> QED BY <1>1, <1>2, TracerAssumption

(* emit tells those who wait, and changes nothing that was asked (56-58). *)
LEMMA ToldIs ==
  ASSUME TraceTypeOK, NEW outcome \in {"ok", "error"}
  PROVE  /\ Told(outcome) \in [TraceRequest -> RequestState]
         /\ \A r \in TraceRequest : requests[r] \in AddRequest
              => Told(outcome)[r] \in AddRequest /\ Told(outcome)[r].opts = requests[r].opts
  <1>1. requests \in [TraceRequest -> RequestState] BY DEF TraceTypeOK
  <1>2. ASSUME NEW r \in TraceRequest
        PROVE  /\ Told(outcome)[r] \in RequestState
               /\ requests[r] \in AddRequest
                    => Told(outcome)[r] \in AddRequest /\ Told(outcome)[r].opts = requests[r].opts
    <2>1. CASE requests[r].stage = "waiting"
      <3>1. requests[r] \in AddRequest BY <1>1, <2>1 DEF RequestState
      <3>2. Told(outcome)[r] = [requests[r] EXCEPT !.stage = outcome] BY <2>1 DEF Told
      <3>3. Told(outcome)[r] \in AddRequest /\ Told(outcome)[r].opts = requests[r].opts
        BY <3>1, <3>2 DEF AddRequest
      <3> QED BY <3>3 DEF RequestState
    <2>2. CASE requests[r].stage # "waiting"
      <3>1. Told(outcome)[r] = requests[r] BY <2>2 DEF Told
      <3> QED BY <1>1, <3>1
    <2> QED BY <2>1, <2>2
  <1>3. Told(outcome) = [r \in TraceRequest |-> Told(outcome)[r]] BY DEF Told
  <1> QED BY <1>2, <1>3

(* A tracer with another expiry is as proper as before (141-155). *)
LEMMA ExpiringIs ==
  ASSUME NEW x \in Tracer, NEW e \in {"later", "past", "unclear"}
  PROVE  /\ Expiring(x, e) \in Tracer /\ Expiring(x, e).key = x.key
         /\ Proper(x) => Proper(Expiring(x, e))
  BY DEF Expiring, Tracer, Proper

(* A sink that is connected keeps the invariant (83-92). *)
LEMMA ConnectedKeeps ==
  ASSUME TracersInv, NEW t \in DOMAIN tracers, NEW queue,
         TicksFit(queue, DOMAIN tracers, Stored), Connected(t, queue)
  PROVE  TracersInv'
  <1> DEFINE D == DOMAIN tracers
             e == requests[t].opts.expires
             new == Expiring([tracers[t] EXCEPT !.stage = "open", !.listening = TRUE], e)
  <1>1. TraceTypeOK /\ (AllNamed => OneEach /\ \A u \in Stored : Proper(tracers[u])) BY DEF TracersInv
  <1>2. tracers[t] \in Tracer /\ e \in {"later", "past", "unclear"} BY <1>1, AddRequestIs
  <1>3. new \in Tracer /\ new.key = tracers[t].key /\ Proper(new)
    BY <1>2 DEF Expiring, Tracer, Proper
  <1>4. /\ tracers' = [tracers EXCEPT ![t] = new] /\ traceTicks' = Append(queue, Emit("ok"))
        /\ requests' = requests /\ store' = store
    BY DEF Connected
  <1> HIDE DEF new, e
  <1>5. tracers \in [D -> Tracer] BY <1>1 DEF TraceTypeOK
  <1>6. tracers' \in [D -> Tracer] /\ \A u \in D : tracers'[u] = IF u = t THEN new ELSE tracers[u]
    BY <1>3, <1>4, <1>5
  <1>7. Stored' = Stored BY <1>4 DEF Stored
  <1>8. TicksFit(traceTicks', D, Stored')
    <2>1. Emit("ok") \in TraceTicks /\ Emit("ok").do = "emit" BY DEF Emit, TraceTicks
    <2> QED BY <1>4, <1>7, <2>1, TickMore
  <1>9. Stored \subseteq D /\ Listed(store, D) /\ requests \in [TraceRequest -> RequestState]
    BY <1>1 DEF TraceTypeOK, Listed, Stored
  <1>10. \A u \in D : tracers'[u].key = tracers[u].key BY <1>3, <1>6
  <1>11. (\A u \in Stored : Proper(tracers[u])) => \A u \in Stored' : Proper(tracers'[u])
    BY <1>3, <1>6, <1>7, <1>9
  <1> HIDE DEF D
  <1> QED BY <1>4, <1>6, <1>7, <1>8, <1>9, <1>10, <1>11, NoneMade DEF D

(* A removal keeps the invariant if those that stay were proper before it,  *)
(* whoever is told what.                                                    *)
LEMMA TakeOutKeeps ==
  ASSUME TracersInv, requests' \in [TraceRequest -> RequestState],
         \A r \in TraceRequest : requests[r] \in AddRequest
           => requests'[r] \in AddRequest /\ requests'[r].opts = requests[r].opts,
         NEW ts \in [DOMAIN tracers -> Tracer],
         \A u \in DOMAIN tracers : ts[u].key = tracers[u].key,
         NEW key, TakeOut(ts, key, traceTicks),
         \A u \in Stored : tracers[u].key # key => ts[u] = tracers[u]
  PROVE  TracersInv'
  <1>1. TraceTypeOK /\ (AllNamed => OneEach /\ \A u \in Stored : Proper(tracers[u])) BY DEF TracersInv
  <1>2. TicksFit(traceTicks, DOMAIN tracers, Stored) BY <1>1 DEF TraceTypeOK
  <1>3. /\ tracers' \in [DOMAIN tracers -> Tracer]
        /\ \A u \in DOMAIN tracers : tracers'[u].key = tracers[u].key
        /\ Listed(store', DOMAIN tracers) /\ TicksFit(traceTicks', DOMAIN tracers, Stored')
        /\ Stored' \subseteq Stored /\ \A u \in Stored' : tracers'[u] = ts[u]
        /\ OneEach => \A u \in Stored' : tracers[u].key # key
    BY <1>1, <1>2, TakenOut
  <1>4. OneEach /\ (\A u \in Stored : Proper(tracers[u])) => \A u \in Stored' : Proper(tracers'[u])
    BY <1>3
  <1> QED BY <1>3, <1>4, NoneMade

(* add keeps the invariant (52-99): a new tracer has a sink of its own if   *)
(* all are named.                                                          *)
LEMMA AddKeeps ==
  ASSUME TracersInv, NEW r \in TraceRequest, NEW o \in Additions, AddTracer(r, o)
  PROVE  TracersInv'
  <1> DEFINE D == DOMAIN tracers
             key == <<o.type, o.name>>
             new == [key |-> Defaulted(o), stage |-> "connecting", listening |-> FALSE,
                     armed |-> FALSE, until |-> o.expires]
  <1>1. TraceTypeOK /\ (AllNamed => OneEach /\ \A u \in Stored : Proper(tracers[u])) BY DEF TracersInv
  <1>2. /\ requests \in [TraceRequest -> RequestState] /\ D \subseteq TraceRequest /\ tracers \in [D -> Tracer]
        /\ \A t \in D : requests[t] \in AddRequest /\ tracers[t].key = Defaulted(requests[t].opts)
        /\ Listed(store, D) /\ TicksFit(traceTicks, D, Stored)
    BY <1>1 DEF TraceTypeOK
  <1>3. Stored \subseteq D BY <1>2 DEF Listed, Stored
  <1>4. requests[r].stage = "idle" /\ requests' = [requests EXCEPT ![r] = [stage |-> "waiting", opts |-> o]]
    BY DEF AddTracer
  <1>5. requests[r] \notin AddRequest /\ r \notin D BY <1>2, <1>4 DEF AddRequest
  <1>6. /\ requests' \in [TraceRequest -> RequestState] /\ requests'[r] \in AddRequest /\ requests'[r].opts = o
        /\ \A x \in TraceRequest : x # r => requests'[x] = requests[x]
        /\ requests'[r].stage = "waiting"
    BY <1>2, <1>4 DEF RequestState, AddRequest
  <1>7. \A x \in TraceRequest : requests[x] \in AddRequest
          => requests'[x] \in AddRequest /\ requests'[x].opts = requests[x].opts
    BY <1>5, <1>6
  <1>8. \A w \in {"ok", "error"} : Emit(w) \in TraceTicks /\ Emit(w).do = "emit"
    BY DEF Emit, TraceTicks
  <1>9. o.expires \in {"later", "past", "unclear"}
    BY TracerAssumption
  <1>10. CASE traceTicks' = Append(traceTicks, Emit("error")) /\ UNCHANGED <<tracers, store>>
    <2>1. Stored' = Stored BY <1>10 DEF Stored
    <2>2. TicksFit(traceTicks', D, Stored') BY <1>2, <1>8, <1>10, <2>1, TickMore
    <2> HIDE DEF D
    <2>3. tracers' = tracers /\ store' = store BY <1>10
    <2> QED BY <1>2, <1>6, <1>7, <2>1, <2>2, <2>3, NoneMade DEF D
  <1>11. CASE /\ Matching(key) # {} /\ UNCHANGED store
              /\ tracers' = [tracers EXCEPT ![store[IndexOf(key)]] = Expiring(@, o.expires)]
              /\ traceTicks' = Append(traceTicks, Emit("ok"))
    <2> DEFINE x == store[IndexOf(key)]
               later == Expiring(tracers[x], o.expires)
    <2>1. x \in Stored BY <1>2, <1>11, IndexAt
    <2>2. x \in D /\ tracers[x] \in Tracer BY <1>2, <1>3, <2>1
    <2>3. /\ later \in Tracer /\ later.key = tracers[x].key
          /\ Proper(tracers[x]) => Proper(later)
      BY <1>9, <2>2, ExpiringIs
    <2>4. tracers' = [tracers EXCEPT ![x] = later] BY <1>11
    <2> HIDE DEF later, x
    <2>5. tracers' \in [D -> Tracer] /\ \A u \in D : tracers'[u] = IF u = x THEN later ELSE tracers[u]
      BY <1>2, <2>2, <2>3, <2>4
    <2>6. Stored' = Stored /\ store' = store BY <1>11 DEF Stored
    <2>7. TicksFit(traceTicks', D, Stored') BY <1>2, <1>8, <1>11, <2>6, TickMore
    <2>8. \A u \in D : tracers'[u].key = tracers[u].key BY <2>3, <2>5
    <2>9. (\A u \in Stored : Proper(tracers[u])) => \A u \in Stored' : Proper(tracers'[u])
      BY <1>3, <2>3, <2>5, <2>6
    <2> HIDE DEF D
    <2> QED BY <1>2, <1>6, <1>7, <2>5, <2>6, <2>7, <2>8, <2>9, NoneMade DEF D
  <1>12. CASE /\ Matching(key) = {} /\ store' = Append(store, r)
              /\ tracers' = [t \in DOMAIN tracers \cup {r} |-> IF t = r THEN new ELSE tracers[t]]
              /\ traceTicks' = IF o.type = "tchannel" THEN traceTicks
                               ELSE Append(traceTicks, [do |-> "connect", what |-> r])
    <2>1. new \in Tracer /\ new.key = Defaulted(o) /\ Proper(new)
      <3>1. Defaulted(o) \in Keys BY DEF Keys
      <3> QED BY <1>9, <3>1 DEF Tracer, Proper
    <2> HIDE DEF new
    <2> DEFINE E == D \cup {r}
    <2>2. /\ DOMAIN tracers' = E /\ tracers' \in [E -> Tracer] /\ tracers'[r] = new
          /\ \A u \in D : tracers'[u] = tracers[u]
      BY <1>2, <1>5, <1>12, <2>1
    <2>3. Listed(store', E) /\ Stored' = Stored \cup {r}
      <3>1. store \in Seq(D) /\ Len(store) \in Nat /\ \A i, j \in 1..Len(store) : store[i] = store[j] => i = j
        BY <1>2 DEF Listed
      <3>2. store \in Seq(E) /\ r \in E BY <3>1
      <3>3. /\ store' \in Seq(E) /\ Len(store') = Len(store) + 1
            /\ \A i \in 1..Len(store) + 1 : store'[i] = IF i <= Len(store) THEN store[i] ELSE r
        BY <1>12, <3>1, <3>2
      <3>4. \A i \in 1..Len(store) : store[i] \in D BY <3>1
      <3> DEFINE n == Len(store)
      <3> HIDE DEF D, E, n
      <3>5. \A i \in 1..n + 1 : i <= n \/ i = n + 1 BY <3>1 DEF n
      <3>6. \A i \in 1..n + 1 : i <= n => i \in 1..n BY <3>1 DEF n
      <3>7. \A i \in 1..n : store'[i] = store[i] /\ i \in 1..n + 1 BY <3>1, <3>3 DEF n
      <3>8. store'[n + 1] = r /\ n + 1 \in 1..n + 1 BY <3>1, <3>3 DEF n
      <3>9. \A i, j \in 1..n + 1 : store'[i] = store'[j] => i = j
        BY <1>5, <3>1, <3>4, <3>5, <3>6, <3>7, <3>8 DEF n
      <3>10. Listed(store', E) BY <3>3, <3>9 DEF Listed, n
      <3>11. DOMAIN store' = 1..n + 1 /\ DOMAIN store = 1..n BY <3>1, <3>3 DEF n
      <3>12. Stored' = Stored \cup {r} BY <3>5, <3>6, <3>7, <3>8, <3>11 DEF Stored
      <3> QED BY <3>10, <3>12
    <2>4. TicksFit(traceTicks', E, Stored')
      <3>1. TicksFit(traceTicks, E, Stored') BY <1>2, <1>5, <2>3 DEF TicksFit, TraceTicks
      <3> DEFINE tick == [do |-> "connect", what |-> r]
      <3>2. tick \in TraceTicks /\ tick.do = "connect" /\ tick.what = r BY DEF TraceTicks
      <3> HIDE DEF tick
      <3>3. TicksFit(Append(traceTicks, tick), E, Stored') BY <3>1, <3>2, TickMore
      <3> QED BY <1>12, <3>1, <3>3 DEF tick
    <2>5. \A t \in E : requests'[t] \in AddRequest /\ tracers'[t].key = Defaulted(requests'[t].opts)
      BY <1>2, <1>5, <1>6, <2>1, <2>2
    <2>6. TraceTypeOK' BY <1>2, <1>6, <2>2, <2>3, <2>4, <2>5 DEF TraceTypeOK
    <2>7. ASSUME AllNamed' PROVE OneEach' /\ \A t \in Stored' : Proper(tracers'[t])
      <3>1. AllNamed
        <4> SUFFICES ASSUME NEW x \in TraceRequest, requests[x].stage \notin {"idle", "removed"}
                     PROVE  requests[x].opts.name # Omitted
          BY DEF AllNamed
        <4>1. requests'[x] = requests[x] BY <1>4, <1>6
        <4> QED BY <2>7, <4>1 DEF AllNamed
      <3>2. OneEach /\ \A u \in Stored : Proper(tracers[u]) BY <1>1, <3>1
      <3>3. o.name # Omitted BY <1>6, <2>7 DEF AllNamed
      <3>4. new.key = key BY <2>1, <3>3 DEF Defaulted
      <3>5. \A u \in Stored : tracers[u].key # new.key BY <1>12, <3>4 DEF Matching, Stored
      <3>6. \A u \in Stored : u # r /\ u \in D BY <1>3, <1>5
      <3> HIDE DEF D, key
      <3>7. \A t, u \in Stored' : tracers'[t].key = tracers'[u].key => t = u
        BY <2>2, <2>3, <3>2, <3>5, <3>6 DEF OneEach
      <3>8. \A t \in Stored' : Proper(tracers'[t]) BY <2>1, <2>2, <2>3, <3>2, <3>6
      <3> QED BY <3>7, <3>8 DEF OneEach
    <2> QED BY <2>6, <2>7 DEF TracersInv
  <1>13. CASE UNCHANGED <<tracers, store, traceTicks>>
    <2>1. Stored' = Stored BY <1>13 DEF Stored
    <2> HIDE DEF D
    <2>2. tracers' = tracers /\ store' = store /\ traceTicks' = traceTicks BY <1>13
    <2> QED BY <1>2, <1>6, <1>7, <2>1, <2>2, NoneMade DEF D
  <1> QED BY <1>10, <1>11, <1>12, <1>13 DEF AddTracer

(* remove keeps the invariant (101-122). *)
LEMMA RemoveKeeps ==
  ASSUME TracersInv, NEW r \in TraceRequest, NEW key, RemoveTracer(r, key)
  PROVE  TracersInv'
  <1>1. requests \in [TraceRequest -> RequestState] /\ tracers \in [DOMAIN tracers -> Tracer]
    BY DEF TracersInv, TraceTypeOK
  <1>2. requests[r].stage = "idle" /\ requests' = [requests EXCEPT ![r] = [stage |-> "removed"]]
        /\ TakeOut(tracers, key, traceTicks)
    BY DEF RemoveTracer
  <1>3. requests[r] \notin AddRequest BY <1>2 DEF AddRequest
  <1>4. /\ requests' \in [TraceRequest -> RequestState]
        /\ \A x \in TraceRequest : requests[x] \in AddRequest
             => requests'[x] \in AddRequest /\ requests'[x].opts = requests[x].opts
    BY <1>1, <1>2, <1>3 DEF RequestState
  <1> QED BY <1>1, <1>2, <1>4, TakeOutKeeps

(* A sink that connects, or fails and takes whichever tracer matches out,   *)
(* keeps the invariant (83-92).                                            *)
LEMMA SinkKeeps ==
  ASSUME TracersInv, NEW t, SinkIdentified(t)
  PROVE  TracersInv'
  <1>1. TraceTypeOK BY DEF TracersInv
  <1>2. /\ tracers \in [DOMAIN tracers -> Tracer] /\ TicksFit(traceTicks, DOMAIN tracers, Stored)
        /\ t \in DOMAIN tracers
    BY <1>1 DEF TraceTypeOK, SinkIdentified
  <1>3. CASE Connected(t, traceTicks) BY <1>2, <1>3, ConnectedKeeps
  <1>4. CASE TakeOut([tracers EXCEPT ![t].stage = "failed"], tracers[t].key, traceTicks)
             /\ requests' = Told("error")
    <2> DEFINE ts == [tracers EXCEPT ![t].stage = "failed"]
    <2>1. ts \in [DOMAIN tracers -> Tracer] /\ ts[t].key = tracers[t].key
          /\ \A u \in DOMAIN tracers : u # t => ts[u] = tracers[u]
      BY <1>2 DEF Tracer
    <2> HIDE DEF ts
    <2>2. \A u \in DOMAIN tracers : ts[u].key = tracers[u].key BY <2>1
    <2>3. Stored \subseteq DOMAIN tracers BY <1>1 DEF TraceTypeOK, Listed, Stored
    <2>4. \A u \in Stored : tracers[u].key # tracers[t].key => ts[u] = tracers[u] BY <2>1, <2>3
    <2>5. /\ requests' \in [TraceRequest -> RequestState]
          /\ \A r \in TraceRequest : requests[r] \in AddRequest
               => requests'[r] \in AddRequest /\ requests'[r].opts = requests[r].opts
      BY <1>1, <1>4, ToldIs
    <2>6. TakeOut(ts, tracers[t].key, traceTicks) BY <1>4 DEF ts
    <2> QED BY <2>1, <2>2, <2>4, <2>5, <2>6, TakeOutKeeps
  <1> QED BY <1>3, <1>4 DEF SinkIdentified

(* A timer takes whichever tracer matches out: its own, if that is still   *)
(* in the store (144-154).                                                 *)
LEMMA ExpireKeepsTracers ==
  ASSUME TracersInv, NEW t, ExpireTracer(t)
  PROVE  TracersInv'
  <1>1. TraceTypeOK BY DEF TracersInv
  <1>2. /\ tracers \in [DOMAIN tracers -> Tracer] /\ t \in DOMAIN tracers
        /\ requests \in [TraceRequest -> RequestState] /\ requests' = requests
    BY <1>1 DEF TraceTypeOK, ExpireTracer
  <1> DEFINE ts == [tracers EXCEPT ![t].armed = FALSE]
  <1>3. ts \in [DOMAIN tracers -> Tracer] /\ ts[t].key = tracers[t].key
        /\ \A u \in DOMAIN tracers : u # t => ts[u] = tracers[u]
    BY <1>2 DEF Tracer
  <1>4. TakeOut(ts, tracers[t].key, traceTicks) BY DEF ExpireTracer
  <1> HIDE DEF ts
  <1>5. \A u \in DOMAIN tracers : ts[u].key = tracers[u].key BY <1>3
  <1>6. Stored \subseteq DOMAIN tracers BY <1>1 DEF TraceTypeOK, Listed, Stored
  <1>7. \A u \in Stored : tracers[u].key # tracers[t].key => ts[u] = tracers[u] BY <1>3, <1>6
  <1> QED BY <1>2, <1>3, <1>4, <1>5, <1>7, TakeOutKeeps

(* A tick keeps the invariant: whom it disconnects has left the store.     *)
LEMMA TraceTickKeeps ==
  ASSUME TracersInv, TraceTick
  PROVE  TracersInv'
  <1> DEFINE tick == Head(traceTicks)
             D == DOMAIN tracers
  <1>1. TraceTypeOK BY DEF TracersInv
  <1>2. /\ tracers \in [D -> Tracer] /\ TicksFit(traceTicks, D, Stored) /\ Listed(store, D)
        /\ requests \in [TraceRequest -> RequestState] /\ traceTicks # << >>
    BY <1>1 DEF TraceTypeOK, TraceTick
  <1>3. /\ TicksFit(Tail(traceTicks), D, Stored) /\ tick \in TraceTicks
        /\ tick.do # "emit" => tick.what \in D
    BY <1>2, TickLess
  <1>4. tick.do = "disconnect" => tick.what \notin Stored
    <2>1. traceTicks \in Seq(TraceTicks) /\ 1 \in 1..Len(traceTicks) /\ tick = traceTicks[1]
      BY <1>2 DEF TicksFit
    <2> QED BY <1>2, <2>1 DEF TicksFit
  <1>5. tick.do = "emit" => tick.what \in {"ok", "error"} BY <1>3 DEF TraceTicks
  <1> HIDE DEF tick
  <1>6. CASE tick.do = "connect" /\ Connected(tick.what, Tail(traceTicks))
    <2>1. tick.what \in D BY <1>3, <1>6
    <2> QED BY <1>3, <1>6, <2>1, ConnectedKeeps
  <1>7. CASE /\ tick.do = "emit" /\ requests' = Told(tick.what)
             /\ traceTicks' = Tail(traceTicks) /\ UNCHANGED <<tracers, store>>
    <2>1. /\ requests' \in [TraceRequest -> RequestState]
          /\ \A r \in TraceRequest : requests[r] \in AddRequest
               => requests'[r] \in AddRequest /\ requests'[r].opts = requests[r].opts
      BY <1>1, <1>5, <1>7, ToldIs
    <2>2. tracers' = tracers /\ store' = store /\ Stored' = Stored BY <1>7 DEF Stored
    <2>3. TicksFit(traceTicks', D, Stored') BY <1>3, <1>7, <2>2
    <2> HIDE DEF D
    <2> QED BY <1>2, <2>1, <2>2, <2>3, NoneMade DEF D
  <1>8. CASE /\ tick.do = "disconnect" /\ tracers' = [tracers EXCEPT ![tick.what].listening = FALSE]
             /\ traceTicks' = Tail(traceTicks) /\ UNCHANGED <<requests, store>>
    <2> DEFINE t == tick.what
    <2>1. t \in D /\ t \notin Stored BY <1>3, <1>4, <1>8
    <2>2. /\ tracers' \in [D -> Tracer] /\ tracers'[t].key = tracers[t].key
          /\ \A u \in D : u # t => tracers'[u] = tracers[u]
      BY <1>2, <1>8, <2>1 DEF Tracer
    <2>3. requests' = requests /\ store' = store /\ Stored' = Stored BY <1>8 DEF Stored
    <2>4. TicksFit(traceTicks', D, Stored') BY <1>3, <1>8, <2>3
    <2>5. Stored \subseteq D BY <1>2 DEF Listed, Stored
    <2> HIDE DEF t
    <2>6. \A u \in D : tracers'[u].key = tracers[u].key BY <2>2
    <2>7. (\A u \in Stored : Proper(tracers[u])) => \A u \in Stored' : Proper(tracers'[u])
      BY <2>1, <2>2, <2>3, <2>5
    <2> HIDE DEF D
    <2> QED BY <1>2, <2>2, <2>3, <2>4, <2>6, <2>7, NoneMade DEF D
  <1> QED BY <1>6, <1>7, <1>8 DEF TraceTick, tick

(* Every step keeps the invariant. *)
LEMMA NextTracers == TracersInv /\ [TraceNext]_<<traceVars, lifeVars>> => TracersInv'
  <1> SUFFICES ASSUME TracersInv, [TraceNext]_<<traceVars, lifeVars>> PROVE TracersInv'
    OBVIOUS
  <1>1. ASSUME UNCHANGED traceVars PROVE TracersInv'
    BY <1>1 DEF TracersInv, traceVars, TraceTypeOK, Stored, OneEach, AllNamed
  <1>2. CASE DestroyTracers BY <1>1, <1>2 DEF DestroyTracers, DestroyNode
  <1>3. CASE TraceNext
    BY <1>2, <1>3, AddKeeps, RemoveKeeps, SinkKeeps, ExpireKeepsTracers, TraceTickKeeps DEF TraceNext
  <1> QED BY <1>1, <1>3

(* Whatever operators ask for, in whichever order sinks answer, timers fire *)
(* and queue run, and though timers and failures remove tracers by their    *)
(* options: while all sinks are named, the tracers of the store listen      *)
(* when they should, and have a timer when they should (store.js 52-155).   *)
THEOREM TracersListen == TraceSpec => [](AllNamed => StoredListen)
  <1>1. TracersInv => (AllNamed => StoredListen) BY DEF TracersInv, StoredListen, Proper
  <1> QED BY InitTracers, NextTracers, <1>1, PTL DEF TraceSpec
===============================================================================
