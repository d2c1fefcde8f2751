------------------------------ MODULE ViewProofs ------------------------------
(***************************************************************************)
(* How the views of the nodes come together, for any nodes, answers and    *)
(* bounds: a join ends once and loses nothing it was told (Joiner), a node *)
(* has one loop of healing (Healer), and changes are told until they were  *)
(* told often enough while full syncs keep to their slots (Dissemination). *)
(***************************************************************************)
EXTENDS Dissemination, Joiner, Healer, FiniteSetTheorems, SequenceTheorems,
        WellFoundedInduction, TLAPS

(* Some number of a set is the first. *)
LEMMA MinIs ==
  ASSUME NEW S \in SUBSET Nat, S # {}
  PROVE  Min(S) \in S /\ \A y \in S : Min(S) <= y
<1>1. PICK x \in S : \A y \in S : ~(<<y, x>> \in OpToRel(<, Nat))
  BY NatLessThanWellFounded, WFMin
<1>2. \A y \in S : x <= y
  <2> SUFFICES ASSUME NEW y \in S PROVE x <= y
    OBVIOUS
  <2>1. x \in Nat /\ y \in Nat
    OBVIOUS
  <2>2. ~(<<y, x>> \in {ss \in Nat \X Nat : ss[1] < ss[2]})
    BY <1>1 DEF OpToRel
  <2>3. ~(y < x)
    BY <2>1, <2>2
  <2> QED
    BY <2>1, <2>3
<1> QED
  BY <1>2 DEF Min


----------------------------------------------------------------------------
(* A set of incarnations has a newest one. *)
LEMMA NewestExists ==
  ASSUME NEW S \in SUBSET (0..MaxInc), S # {}
  PROVE  \E m \in S : \A o \in S : o <= m
<1> DEFINE T == {MaxInc - x : x \in S}
<1>1. MaxInc \in Nat /\ \A x \in S : x \in Nat /\ MaxInc - x \in Nat
  BY JoinerAssumption
<1>2. T \subseteq Nat /\ T # {}
  BY <1>1
<1>3. PICK t \in T : \A y \in T : ~(<<y, t>> \in OpToRel(<, Nat))
  BY <1>2, NatLessThanWellFounded, WFMin
<1>4. \A y \in T : t <= y
  <2> SUFFICES ASSUME NEW y \in T PROVE t <= y
    OBVIOUS
  <2>1. t \in Nat /\ y \in Nat
    BY <1>2
  <2>2. ~(<<y, t>> \in {ss \in Nat \X Nat : ss[1] < ss[2]})
    BY <1>3 DEF OpToRel
  <2> HIDE DEF T
  <2>3. ~(y < t)
    BY <2>1, <2>2
  <2> QED
    BY <2>1, <2>3
<1>5. PICK m \in S : t = MaxInc - m
  OBVIOUS
<1>6. \A o \in S : MaxInc - m <= MaxInc - o
  BY <1>4, <1>5
<1> QED
  BY <1>1, <1>5, <1>6

(* Whatever one of the answers says, the merged list says as new or newer. *)
LEMMA MergeKnows ==
  ASSUME NEW all \in Seq(List), NEW i \in DOMAIN all,
         NEW a \in DOMAIN all[i], a # Self
  PROVE  a \in DOMAIN Merge(all) /\ all[i][a] <= Merge(all)[a]
<1>1. \A j \in DOMAIN all : all[j] \in List
  OBVIOUS
<1>2. \A j \in DOMAIN all : \A b \in DOMAIN all[j] : all[j][b] \in 0..MaxInc
  BY <1>1, JoinerAssumption
<1>3. all[i][a] \in 0..MaxInc /\ MaxInc \in Nat
  BY <1>2, JoinerAssumption
<1>4. CASE \A j, k \in DOMAIN all : all[j] = all[k]
  <2>1. all # <<>> /\ 1 \in DOMAIN all
    OBVIOUS
  <2>2. Merge(all) = all[1] /\ all[1] = all[i]
    BY <1>4, <2>1 DEF Merge
  <2> QED
    BY <1>3, <2>2
<1>5. CASE ~ \A j, k \in DOMAIN all : all[j] = all[k]
  <2> DEFINE said == (UNION {DOMAIN all[j] : j \in DOMAIN all}) \ {Self}
             incs(b) == {all[j][b] : j \in {j \in DOMAIN all : b \in DOMAIN all[j]}}
             merge == [b \in said |-> CHOOSE m \in incs(b) : \A o \in incs(b) : o <= m]
  <2>1. Merge(all) = merge
    BY <1>5 DEF Merge, MergeChangesets
  <2>2. a \in said
    OBVIOUS
  <2>3. incs(a) \subseteq 0..MaxInc /\ all[i][a] \in incs(a)
    BY <1>2
  <2>4. \E m \in incs(a) : \A o \in incs(a) : o <= m
    <3> HIDE DEF incs
    <3> QED
      BY <2>3, NewestExists
  <2>5. merge[a] = CHOOSE m \in incs(a) : \A o \in incs(a) : o <= m
    BY <2>2
  <2>6. \A o \in incs(a) : o <= merge[a]
    <3> HIDE DEF incs, merge
    <3> QED
      BY <2>4, <2>5
  <2> QED
    BY <2>1, <2>2, <2>3, <2>6
<1> QED
  BY <1>4, <1>5

(* Two groups of hosts without a common one. *)
LEMMA CardinalityOfBoth ==
  ASSUME NEW S, NEW T, IsFiniteSet(S), IsFiniteSet(T), S \cap T = {}
  PROVE  Cardinality(S \cup T) = Cardinality(S) + Cardinality(T)
<1>1. Cardinality(S) \in Nat /\ Cardinality(T) \in Nat
  BY FS_CardinalityType
<1>2. Cardinality(S \cap T) = 0
  BY FS_EmptySet
<1>3. Cardinality(S \cup T) = Cardinality(S) + Cardinality(T) - Cardinality(S \cap T)
  BY FS_Union
<1> QED
  BY <1>1, <1>2, <1>3

(* Needed is a number, and positive. *)
LEMMA NeededType == Needed \in Nat /\ Cardinality(Host) \in Nat /\ Needed > 0
<1>1. Cardinality(Host) \in Nat /\ Cardinality(Host) # 0
  BY JoinerAssumption, FS_CardinalityType, FS_EmptySet
<1> QED
  BY <1>1, JoinerAssumption DEF Needed

(* Asking the next group of a join: nobody is asked twice. *)
LEMMA JoinGroupKeeps ==
  ASSUME NEW done \in SUBSET Host, round \subseteq Host, round \cap done = {}, flying = {},
         JoinGroup(done)
  PROVE  /\ round' \subseteq Host /\ group' \subseteq Host /\ flying' = group'
         /\ round' \cap (done \cup group') = {} /\ group' \cap done = {}
         /\ answered' = {} /\ refused' = {}
<1>1. Round(done) \subseteq Host /\ Round(done) \cap done = {}
  BY DEF Round
<1>2. PICK G \in Groups(done) : group' = G /\ round' = Round(done) \ G /\ flying' = flying \cup G
  BY DEF JoinGroup
<1>3. G \subseteq Round(done)
  BY DEF Groups
<1> QED
  BY <1>1, <1>2, <1>3 DEF JoinGroup

----------------------------------------------------------------------------
(* An answer or a failure that somebody hears: the group may be complete   *)
(* with it, and the join.                                                  *)
LEMMA CollectKeeps ==
  ASSUME Inv, phase = "asking",
         NEW good \in SUBSET group, NEW bad \in SUBSET group, good \cap bad = {},
         flying' = group \ (good \cup bad),
         NEW all \in Seq(List),
         DOMAIN told' \subseteq Host, \A h \in DOMAIN told' : told'[h] \in List,
         \A h \in joined \cup good :
           h \in DOMAIN told' /\ \E i \in DOMAIN all : all[i] = told'[h],
         responses' \in Seq(List), phase' \in {"asking", "delayed"} => responses' = all,
         Collect(good, bad, all),
         UNCHANGED <<round, overdue, destroyed>>
  PROVE  Inv'
<1>1. /\ round \subseteq Host /\ group \subseteq Host /\ joined \subseteq Host
      /\ overdue \in BOOLEAN /\ destroyed \in BOOLEAN
      /\ group \cap joined = {} /\ round \cap (joined \cup group) = {}
      /\ count = Cardinality(joined) /\ called = 0
  BY DEF Inv, TypeOK, AskedOnce, Counted
<1>2. IsFiniteSet(joined) /\ IsFiniteSet(good) /\ IsFiniteSet(bad) /\ IsFiniteSet(group)
  BY <1>1, JoinerAssumption, FS_Subset
<1>3. /\ Cardinality(joined) \in Nat /\ Cardinality(good) \in Nat
      /\ Cardinality(bad) \in Nat /\ Cardinality(group) \in Nat
  BY <1>2, FS_CardinalityType
<1>4. answered' = good /\ refused' = bad /\ group' = group
  BY DEF Collect
<1>5. CASE UNCHANGED joinVars
  <2>1. TypeOK'
    BY <1>1, <1>3, <1>4, <1>5 DEF joinVars, TypeOK
  <2>2. Counted'
    BY <1>1, <1>5 DEF joinVars, Counted
  <2>3. AskedOnce'
    BY <1>1, <1>4, <1>5 DEF joinVars, AskedOnce
  <2>4. Kept'
    BY <1>4, <1>5 DEF joinVars, Kept
  <2> QED
    BY <1>5, <2>1, <2>2, <2>3, <2>4 DEF joinVars, Inv, EnoughJoined, MergedIsNewest
<1>6. CASE destroyed /\ phase' = "failed" /\ Call /\ UNCHANGED <<joined, count, merged>>
  <2>1. TypeOK'
    BY <1>1, <1>3, <1>4, <1>6 DEF Call, TypeOK
  <2>2. Counted' /\ AskedOnce' /\ Kept'
    BY <1>1, <1>4, <1>6 DEF Call, Counted, AskedOnce, Kept
  <2> QED
    BY <1>6, <2>1, <2>2 DEF Inv, EnoughJoined, MergedIsNewest
<1>7. ASSUME joined' = joined \cup good, count' = count + Cardinality(good)
      PROVE  /\ count' = Cardinality(joined') /\ count' \in Nat
             /\ joined' \subseteq Host /\ joined' \subseteq DOMAIN told'
             /\ round' \cap (joined' \cup group') = {}
             /\ flying' \cap (joined' \cup answered' \cup refused') = {}
             /\ answered' \cap refused' = {} /\ flying' \subseteq group'
  <2>1. joined \cap good = {}
    BY <1>1
  <2>2. Cardinality(joined \cup good) = Cardinality(joined) + Cardinality(good)
    BY <1>2, <1>3, <2>1, CardinalityOfBoth
  <2> QED
    BY <1>1, <1>3, <1>4, <1>7, <2>2
<1>8. CASE /\ joined' = joined \cup good /\ count' = count + Cardinality(good)
           /\ count' >= Needed /\ merged' = Merge(all) /\ phase' = "joined" /\ Call
  <2>1. TypeOK'
    BY <1>1, <1>4, <1>7, <1>8 DEF Call, TypeOK
  <2>2. Counted' /\ AskedOnce'
    BY <1>1, <1>4, <1>7, <1>8 DEF Call, Counted, AskedOnce
  <2>3. Kept'
    BY <1>4, <1>8 DEF Kept
  <2>4. EnoughJoined'
    BY <1>7, <1>8 DEF EnoughJoined, Needed
  <2>5. MergedIsNewest'
    <3> SUFFICES ASSUME NEW h \in joined', NEW a \in DOMAIN told'[h] \ {Self}
                 PROVE  a \in DOMAIN merged' /\ told'[h][a] <= merged'[a]
      BY DEF MergedIsNewest
    <3>1. PICK i \in DOMAIN all : all[i] = told'[h]
      BY <1>8
    <3> QED
      BY <1>8, <3>1, MergeKnows
  <2> QED
    BY <2>1, <2>2, <2>3, <2>4, <2>5 DEF Inv
<1>9. CASE /\ joined' = joined \cup good /\ count' = count + Cardinality(good)
           /\ phase' = "failed" /\ Call
  <2>1. TypeOK'
    BY <1>1, <1>4, <1>7, <1>9 DEF Call, TypeOK
  <2>2. Counted' /\ AskedOnce' /\ Kept'
    BY <1>1, <1>4, <1>7, <1>9 DEF Call, Counted, AskedOnce, Kept
  <2> QED
    BY <1>9, <2>1, <2>2 DEF Inv, EnoughJoined, MergedIsNewest
<1>10. CASE /\ joined' = joined \cup good /\ count' = count + Cardinality(good)
            /\ Cardinality(good) + Cardinality(bad) >= Cardinality(group)
            /\ phase' = "delayed" /\ UNCHANGED called
  <2>1. flying' = {}
    <3>1. /\ good \cup bad \subseteq group
          /\ Cardinality(good \cup bad) = Cardinality(good) + Cardinality(bad)
      BY <1>2, CardinalityOfBoth
    <3>2. Cardinality(good \cup bad) <= Cardinality(group)
      BY <1>2, <3>1, FS_Subset
    <3>3. Cardinality(group) = Cardinality(good \cup bad)
      BY <1>3, <1>10, <3>1, <3>2
    <3> QED
      BY <1>2, <3>1, <3>3, FS_Subset
  <2>2. TypeOK'
    BY <1>1, <1>4, <1>7, <1>10 DEF TypeOK
  <2>3. Counted' /\ AskedOnce' /\ Kept'
    BY <1>1, <1>4, <1>7, <1>10, <2>1 DEF Counted, AskedOnce, Kept
  <2> QED
    BY <1>10, <2>2, <2>3 DEF Inv, EnoughJoined, MergedIsNewest
<1>11. ASSUME joined' = joined \cup good, count' = count + Cardinality(good), count' < Needed,
              \/ Cardinality(good) >= Needed - Cardinality(joined)
              \/ Cardinality(good) + Cardinality(bad) >= Cardinality(group)
       PROVE  Cardinality(good) + Cardinality(bad) >= Cardinality(group)
  BY <1>1, <1>3, <1>11, NeededType
<1> QED
  BY <1>5, <1>6, <1>8, <1>9, <1>10, <1>11 DEF Collect, GroupDone

(* An answer or a failure nobody hears. *)
LEMMA UnheardKeeps ==
  ASSUME Inv, phase # "asking", phase # "delayed", phase # "idle",
         NEW h \in flying, flying' = flying \ {h},
         DOMAIN told \subseteq DOMAIN told', DOMAIN told' \subseteq Host,
         \A x \in DOMAIN told' : told'[x] \in List,
         \A x \in DOMAIN told \ {h} : told'[x] = told[x],
         responses' \in Seq(List),
         UNCHANGED <<round, groupVars, joinVars, overdue, destroyed>>
  PROVE  Inv'
<1>1. TypeOK'
  BY DEF Inv, TypeOK, groupVars, joinVars
<1>2. Counted'
  BY DEF Inv, Counted, groupVars, joinVars
<1>3. AskedOnce'
  BY DEF Inv, AskedOnce, groupVars, joinVars
<1>4. Kept' /\ EnoughJoined'
  BY DEF Inv, Kept, EnoughJoined, groupVars, joinVars, Needed
<1>5. h \notin joined /\ joined \subseteq DOMAIN told
  BY DEF Inv, AskedOnce, Kept
<1>6. MergedIsNewest'
  BY <1>5 DEF Inv, MergedIsNewest, joinVars
<1> QED
  BY <1>1, <1>2, <1>3, <1>4, <1>6 DEF Inv

----------------------------------------------------------------------------
(* A node that has not begun to join satisfies the invariant. *)
LEMMA InitInv == Init => Inv
<1> SUFFICES ASSUME Init PROVE Inv
  OBVIOUS
<1>1. TypeOK
  <2>1. DOMAIN told = {} /\ responses \in Seq(List)
    BY DEF Init, NoList
  <2> QED
    BY <2>1 DEF Init, TypeOK
<1>2. Counted
  BY FS_EmptySet DEF Init, Counted
<1>3. AskedOnce /\ Kept /\ EnoughJoined /\ MergedIsNewest
  BY DEF Init, AskedOnce, Kept, EnoughJoined, MergedIsNewest
<1> QED
  BY <1>1, <1>2, <1>3 DEF Inv

(* Every step keeps the invariant. *)
LEMMA NextInv == Inv /\ [Next]_vars => Inv'
<1> SUFFICES ASSUME Inv, [Next]_vars PROVE Inv'
  OBVIOUS
<1>1. CASE Join
  <2>1. /\ phase = "idle" /\ round = {} /\ flying = {} /\ joined = {} /\ answered = {}
        /\ count = Cardinality(joined) /\ called = 0
    BY <1>1 DEF Join, Inv, AskedOnce, Counted
  <2>2. CASE JoinGroup({}) /\ phase' = "asking" /\ UNCHANGED called
    <3>1. /\ round' \subseteq Host /\ group' \subseteq Host /\ flying' = group'
          /\ round' \cap group' = {} /\ answered' = {} /\ refused' = {}
      BY <2>1, <2>2, JoinGroupKeeps
    <3>2. UNCHANGED <<joined, count, merged, responses, told, overdue, destroyed>>
      BY <1>1 DEF Join
    <3>3. TypeOK'
      BY <2>2, <3>1, <3>2 DEF Inv, TypeOK
    <3>4. Counted' /\ AskedOnce' /\ Kept'
      BY <2>1, <2>2, <3>1, <3>2 DEF Counted, AskedOnce, Kept
    <3> QED
      BY <2>2, <3>3, <3>4 DEF Inv, EnoughJoined, MergedIsNewest
  <2>3. CASE phase' = "failed" /\ Call /\ UNCHANGED <<round, groupVars, flying>>
    <3>1. UNCHANGED <<joined, count, merged, responses, told, overdue, destroyed>>
      BY <1>1 DEF Join
    <3>2. TypeOK'
      BY <2>1, <2>3, <3>1 DEF Inv, TypeOK, Call, groupVars
    <3>3. Counted' /\ AskedOnce' /\ Kept'
      BY <2>1, <2>3, <3>1 DEF Inv, Counted, AskedOnce, Kept, Call, groupVars
    <3> QED
      BY <2>3, <3>2, <3>3 DEF Inv, EnoughJoined, MergedIsNewest
  <2> QED
    BY <1>1, <2>2, <2>3 DEF Join
<1>2. CASE NextGroup
  <2>1. /\ phase' = "asking" /\ JoinGroup(joined)
        /\ UNCHANGED <<joined, count, merged, called, responses, told, overdue, destroyed>>
    BY <1>2 DEF NextGroup
  <2>2. /\ phase = "delayed" /\ flying = {} /\ joined \subseteq Host /\ round \subseteq Host
        /\ round \cap joined = {} /\ count = Cardinality(joined) /\ called = 0
    BY <1>2 DEF NextGroup, Inv, TypeOK, AskedOnce, Counted
  <2>3. /\ round' \subseteq Host /\ group' \subseteq Host /\ flying' = group'
        /\ round' \cap (joined \cup group') = {} /\ group' \cap joined = {}
        /\ answered' = {} /\ refused' = {}
    BY <2>1, <2>2, JoinGroupKeeps
  <2>4. TypeOK'
    BY <2>1, <2>3 DEF Inv, TypeOK
  <2>5. Counted' /\ AskedOnce'
    BY <2>1, <2>2, <2>3 DEF Counted, AskedOnce
  <2>6. Kept'
    BY <2>1, <2>2, <2>3 DEF Inv, Kept
  <2> QED
    BY <2>1, <2>4, <2>5, <2>6 DEF Inv, EnoughJoined, MergedIsNewest
<1>3. CASE Expire
  BY <1>3 DEF Expire, Inv, TypeOK, Counted, AskedOnce, Kept, EnoughJoined, MergedIsNewest,
              groupVars, joinVars, Needed
<1>4. CASE Destroy
  BY <1>4 DEF Destroy, Inv, TypeOK, Counted, AskedOnce, Kept, EnoughJoined, MergedIsNewest,
              groupVars, joinVars, Needed
<1>5. ASSUME NEW h \in Host, Refuse(h) PROVE Inv'
  <2>1. /\ h \in flying /\ flying' = flying \ {h}
        /\ UNCHANGED <<round, responses, told, overdue, destroyed>>
    BY <1>5 DEF Refuse
  <2>2. CASE phase = "asking" /\ Collect(answered, refused \cup {h}, responses)
    <3>1. /\ group = flying \cup answered \cup refused
          /\ flying \cap (answered \cup refused) = {} /\ answered \cap refused = {}
      BY <2>2 DEF Inv, AskedOnce
    <3>2. /\ answered \in SUBSET group /\ refused \cup {h} \in SUBSET group
          /\ answered \cap (refused \cup {h}) = {}
          /\ flying' = group \ (answered \cup (refused \cup {h}))
      BY <2>1, <3>1
    <3>3. /\ responses \in Seq(List) /\ DOMAIN told \subseteq Host
          /\ \A x \in DOMAIN told : told[x] \in List
      BY DEF Inv, TypeOK
    <3>4. \A x \in joined \cup answered :
            x \in DOMAIN told /\ \E i \in DOMAIN responses : responses[i] = told[x]
      BY <2>2 DEF Inv, Kept
    <3> QED
      BY <2>1, <2>2, <3>2, <3>3, <3>4, CollectKeeps
  <2>3. CASE phase # "asking" /\ UNCHANGED <<groupVars, joinVars>>
    <3>1. phase # "delayed" /\ phase # "idle"
      BY <2>1 DEF Inv, AskedOnce
    <3>2. /\ responses \in Seq(List) /\ DOMAIN told \subseteq Host
          /\ \A x \in DOMAIN told : told[x] \in List
      BY DEF Inv, TypeOK
    <3> QED
      BY <2>1, <2>3, <3>1, <3>2, UnheardKeeps
  <2> QED
    BY <1>5, <2>2, <2>3 DEF Refuse
<1>6. ASSUME NEW h \in Host, NEW l \in List, Answer(h, l) PROVE Inv'
  <2>1. /\ h \in flying /\ flying' = flying \ {h}
        /\ told' = [x \in DOMAIN told \cup {h} |-> IF x = h THEN l ELSE told[x]]
        /\ UNCHANGED <<round, overdue, destroyed>>
    BY <1>6 DEF Answer
  <2>2. /\ responses \in Seq(List) /\ DOMAIN told \subseteq Host
        /\ \A x \in DOMAIN told : told[x] \in List
    BY DEF Inv, TypeOK
  <2>3. /\ DOMAIN told' = DOMAIN told \cup {h} /\ told'[h] = l
        /\ \A x \in DOMAIN told \ {h} : told'[x] = told[x]
    BY <2>1
  <2>4. /\ DOMAIN told' \subseteq Host /\ \A x \in DOMAIN told' : told'[x] \in List
    BY <2>2, <2>3
  <2> DEFINE all == Append(responses, l)
  <2>5. /\ all \in Seq(List) /\ \A i \in DOMAIN responses : i \in DOMAIN all /\ all[i] = responses[i]
        /\ \E i \in DOMAIN all : all[i] = l
    BY <2>2, AppendProperties
  <2>6. CASE /\ phase = "asking" /\ Collect(answered \cup {h}, refused, all)
             /\ responses' = IF phase' = "joined" THEN <<>> ELSE all
    <3>1. /\ group = flying \cup answered \cup refused
          /\ flying \cap (joined \cup answered \cup refused) = {} /\ answered \cap refused = {}
      BY <2>6 DEF Inv, AskedOnce
    <3>2. /\ answered \cup {h} \in SUBSET group /\ refused \in SUBSET group
          /\ (answered \cup {h}) \cap refused = {}
          /\ flying' = group \ ((answered \cup {h}) \cup refused)
      BY <2>1, <3>1
    <3>3. \A x \in joined \cup answered :
            x \in DOMAIN told /\ \E i \in DOMAIN responses : responses[i] = told[x]
      BY <2>6 DEF Inv, Kept
    <3>4. h \notin joined \cup answered
      BY <2>1, <3>1
    <3>5. \A x \in joined \cup (answered \cup {h}) :
            x \in DOMAIN told' /\ \E i \in DOMAIN all : all[i] = told'[x]
      <4> HIDE DEF all
      <4> QED
        BY <2>3, <2>5, <3>3, <3>4
    <3>6. responses' \in Seq(List) /\ (phase' \in {"asking", "delayed"} => responses' = all)
      BY <2>5, <2>6
    <3> HIDE DEF all
    <3> QED
      BY <2>1, <2>4, <2>5, <2>6, <3>2, <3>5, <3>6, CollectKeeps
  <2>7. CASE /\ phase # "asking" /\ UNCHANGED <<groupVars, joinVars>>
             /\ responses' = IF phase = "joined" THEN responses ELSE all
    <3>1. phase # "delayed" /\ phase # "idle"
      BY <2>1 DEF Inv, AskedOnce
    <3>2. responses' \in Seq(List)
      BY <2>2, <2>5, <2>7
    <3> QED
      BY <2>1, <2>3, <2>4, <2>7, <3>1, <3>2, UnheardKeeps
  <2> QED
    BY <1>6, <2>6, <2>7 DEF Answer
<1>7. CASE UNCHANGED vars
  BY <1>7 DEF vars, Inv, TypeOK, Counted, AskedOnce, Kept, EnoughJoined, MergedIsNewest,
              groupVars, joinVars, Needed
<1> QED
  BY <1>1, <1>2, <1>3, <1>4, <1>5, <1>6, <1>7 DEF Next

(* The invariant holds in every state of a join (joiner.js 167-450). *)
THEOREM InvHolds == Spec => []Inv
BY InitInv, NextInv, PTL DEF Spec

(* A join succeeds only with enough hosts that answered (joiner.js 224). *)
THEOREM JoinedMeansEnough == Spec => []EnoughJoined
<1>1. Inv => EnoughJoined
  BY DEF Inv
<1> QED
  BY InvHolds, <1>1, PTL

(* The membership is given all that the joined hosts said, and nothing     *)
(* older, whatever they disagree about (join-response-merge.js, merge.js). *)
THEOREM NothingOlderIsMerged == Spec => []MergedIsNewest
<1>1. Inv => MergedIsNewest
  BY DEF Inv
<1> QED
  BY InvHolds, <1>1, PTL

(* Whatever answers come, and when, the join calls back once at most       *)
(* (joiner.js 201).                                                        *)
THEOREM CallsBackOnce == Spec => []CalledAtMostOnce
<1>1. Inv => CalledAtMostOnce
  BY DEF Inv, Counted, CalledAtMostOnce
<1> QED
  BY InvHolds, <1>1, PTL

----------------------------------------------------------------------------
HealState == [status : 0..4, inc : Nat]
ViewType == [Hosts -> HealState]
ChangesType == UNION {[S -> HealState] : S \in SUBSET Hosts}
HealType ==
  [token : HealTokens \cup {Admin}, stage : {"discover", "join", "joined", "send"},
   potential : SUBSET Hosts, failures : Nat, target : Hosts,
   theirs : ViewType \cup {<< >>}, changes : ChangesType, reached : SUBSET Hosts]

(* Changes that make nobody unpingable whom the view has pingable.         *)
Sparing(theirs, changes) ==
  \A h \in DOMAIN changes : IsPingable(theirs[h]) => IsPingable(changes[h])

(* A heal has the view of its target once it joined, and sends it changes  *)
(* that spare this view.                                                   *)
HealShape(x) ==
  /\ x \in HealType
  /\ x.stage \in {"joined", "send"} => x.theirs \in ViewType
  /\ x.stage = "send" => Sparing(x.theirs, x.changes)
Looping == {x \in heals : x.token # Admin}

(* A timer of the loop waits, or one heal of it is under way; neither,     *)
(* while the node lives, unless a handle is kept.                          *)
LoopInv ==
  /\ view \in [Sides -> ViewType]
  /\ healStopped \in BOOLEAN /\ healArmed \subseteq HealTokens
  /\ healTimer \in HealTokens \cup {NoHealTimer}
  /\ \A x \in heals : HealShape(x)
  /\ \A x, y \in Looping : x = y
  /\ \A t, u \in healArmed : t = u
  /\ healArmed = {} \/ Looping = {}
  /\ ~isDestroyed /\ healTimer = NoHealTimer => healArmed = {} /\ Looping = {}


(* A timer that is free is set. *)
LEMMA ScheduleSets ==
  ASSUME ScheduleHeal({})
  PROVE  healTimer' \in HealTokens /\ healArmed' = {healTimer'}
<1>1. HealTokens \in SUBSET Nat /\ HealTokens # {}
  <2>1. 1 \in HealTokens
    BY HealerAssumption DEF HealTokens
  <2> QED
    BY <2>1 DEF HealTokens
<1>2. Min(HealTokens) \in HealTokens
  BY <1>1, MinIs
<1>3. HealTokens \ {} = HealTokens
  OBVIOUS
<1> QED
  BY <1>2, <1>3 DEF ScheduleHeal

(* What a view becomes is a view. *)
LEMMA AppliedIsView ==
  ASSUME NEW v \in ViewType, NEW changes, NEW self,
         \A h \in Hosts \cap DOMAIN changes : changes[h] \in HealState
  PROVE  Applied(v, changes, self) \in ViewType
<1> SUFFICES ASSUME NEW h \in Hosts
             PROVE  (IF h \notin DOMAIN changes \/ ~Overrides(changes[h], v[h]) THEN v[h]
                     ELSE IF h = self THEN [status |-> 0, inc |-> changes[h].inc + 1]
                     ELSE changes[h]) \in HealState
  BY DEF Applied, ViewType
<1>1. v[h] \in HealState
  BY DEF ViewType
<1>2. h \in DOMAIN changes => changes[h] \in HealState
  OBVIOUS
<1>3. h \in DOMAIN changes => [status |-> 0, inc |-> changes[h].inc + 1] \in HealState
  BY <1>1, <1>2 DEF HealState
<1> QED
  BY <1>1, <1>2, <1>3

(* A heal goes on, whatever comes of the views. *)
LEMMA GoesKeeps ==
  ASSUME LoopInv, NEW x \in heals, NEW y, HealShape(y), y.token = x.token,
         heals' = (heals \ {x}) \cup {y}, view' \in [Sides -> ViewType],
         UNCHANGED <<healStopped, healArmed, healTimer, isDestroyed>>
  PROVE  LoopInv'
<1>1. \A z \in heals' : HealShape(z)
  BY DEF LoopInv
<1>2. x.token = Admin => Looping' = Looping
  BY DEF Looping
<1>3. x.token # Admin => x \in Looping /\ Looping = {x} /\ Looping' = {y}
  BY DEF LoopInv, Looping
<1> QED
  BY <1>1, <1>2, <1>3 DEF LoopInv

(* A heal of the loop ends with a timer for the next. *)
LEMMA FinishedKeeps ==
  ASSUME LoopInv, NEW x \in heals, Finished(x), view' \in [Sides -> ViewType],
         UNCHANGED <<healStopped, isDestroyed>>
  PROVE  LoopInv'
<1>1. CASE x.token = Admin
  <2>1. Looping' = Looping /\ UNCHANGED <<healArmed, healTimer>>
    BY <1>1 DEF Finished, Looping
  <2>2. \A z \in heals' : HealShape(z)
    BY DEF Finished, LoopInv
  <2> QED
    BY <2>1, <2>2 DEF LoopInv
<1>2. CASE x.token # Admin
  <2>1. healArmed = {} /\ Looping' = {}
    BY <1>2 DEF LoopInv, Looping, Finished
  <2>2. healTimer' \in HealTokens /\ healArmed' = {healTimer'}
    BY <1>2, <2>1, ScheduleSets DEF Finished
  <2>3. \A z \in heals' : HealShape(z)
    BY DEF Finished, LoopInv
  <2>4. healTimer' # NoHealTimer
    BY <2>2, HealerAssumption DEF HealTokens
  <2> QED
    BY <2>1, <2>2, <2>3, <2>4 DEF LoopInv
<1> QED
  BY <1>1, <1>2

(* The next target, or the end. *)
LEMMA HealNextKeeps ==
  ASSUME LoopInv, NEW x \in heals, NEW y \in HealType, y.token = x.token,
         HealNext(x, y), view' \in [Sides -> ViewType], UNCHANGED <<healStopped, isDestroyed>>
  PROVE  LoopInv'
<1>1. CASE Finished(x)
  BY <1>1, FinishedKeeps
<1>2. ASSUME NEW t \in y.potential,
             heals' = (heals \ {x}) \cup
               {[y EXCEPT !.stage = "join", !.target = t, !.potential = @ \ {t},
                          !.theirs = << >>, !.changes = << >>, !.reached = {}]},
             UNCHANGED <<healArmed, healTimer>>
      PROVE  LoopInv'
  <2> DEFINE rest == y.potential \ {t}
             z == [y EXCEPT !.stage = "join", !.target = t, !.potential = rest,
                            !.theirs = << >>, !.changes = << >>, !.reached = {}]
  <2>1. t \in Hosts /\ rest \in SUBSET Hosts /\ << >> \in ChangesType
    <3>1. y.potential \in SUBSET Hosts
      BY DEF HealType
    <3>2. << >> \in [{} -> HealState]
      OBVIOUS
    <3> QED
      BY <3>1, <3>2 DEF ChangesType
  <2>2. heals' = (heals \ {x}) \cup {z}
    BY <1>2
  <2> HIDE DEF rest
  <2>3. z \in HealType /\ z.stage = "join" /\ z.token = y.token
    BY <2>1 DEF HealType
  <2> HIDE DEF z
  <2> QED
    BY <1>2, <2>2, <2>3, GoesKeeps DEF HealShape
<1> QED
  BY <1>1, <1>2 DEF HealNext

(* An attempt fails, or the provider does. *)
LEMMA MissedKeeps ==
  ASSUME LoopInv, NEW x \in heals, Missed(x), view' \in [Sides -> ViewType],
         UNCHANGED <<healStopped, isDestroyed>>
  PROVE  LoopInv'
<1>1. CASE Finished(x)
  BY <1>1, FinishedKeeps
<1>2. CASE HealNext(x, [x EXCEPT !.failures = @ + 1])
  <2>1. x \in HealType
    BY DEF LoopInv, HealShape
  <2> DEFINE y == [x EXCEPT !.failures = @ + 1]
             n == x.failures + 1
  <2>2. y \in HealType /\ y.token = x.token
    <3>1. n \in Nat
      BY <2>1 DEF HealType
    <3>2. y = [x EXCEPT !.failures = n]
      BY <2>1 DEF HealType
    <3> HIDE DEF n, y
    <3> QED
      BY <2>1, <3>1, <3>2 DEF HealType
  <2> HIDE DEF y
  <2> QED
    BY <1>2, <2>2, HealNextKeeps DEF y
<1> QED
  BY <1>1, <1>2 DEF Missed

(* Who the target reaches is no target any more. *)
LEMMA ReachedKeeps ==
  ASSUME LoopInv, NEW x \in heals, NEW y \in HealType, y.token = x.token, Reached(x, y),
         view' \in [Sides -> ViewType], UNCHANGED <<healStopped, isDestroyed>>
  PROVE  LoopInv'
<1> DEFINE z == [y EXCEPT !.potential = @ \ y.reached]
<1>1. z \in HealType /\ z.token = y.token
  BY DEF HealType
<1>2. HealNext(x, z)
  BY DEF Reached
<1> HIDE DEF z
<1> QED
  BY <1>1, <1>2, HealNextKeeps

(* The provider answers. *)
LEMMA DiscoveredKeeps ==
  ASSUME LoopInv, NEW x, Discovered(x)
  PROVE  LoopInv'
<1>1. x \in heals /\ x \in HealType /\ UNCHANGED <<view, healStopped, isDestroyed>>
  BY DEF Discovered, LoopInv, HealShape, lifeVars
<1> DEFINE y == [x EXCEPT !.potential = Targets]
<1>2. Targets \subseteq Hosts
  BY DEF Targets
<1>3. y \in HealType /\ y.token = x.token
  BY <1>1, <1>2 DEF HealType
<1>4. HealNext(x, y)
  BY DEF Discovered
<1>5. view' \in [Sides -> ViewType]
  BY <1>1 DEF LoopInv
<1> HIDE DEF y
<1> QED
  BY <1>1, <1>3, <1>4, <1>5, HealNextKeeps

(* The join request is handled. *)
LEMMA JoinHandledKeeps ==
  ASSUME LoopInv, NEW x, JoinHandled(x)
  PROVE  LoopInv'
<1>1. x \in heals /\ x \in HealType /\ UNCHANGED <<view, healStopped, isDestroyed>>
  BY DEF JoinHandled, LoopInv, HealShape, lifeVars
<1> DEFINE theirs == view[Home(x.target)]
           y == [x EXCEPT !.stage = "joined", !.theirs = theirs]
<1>2. theirs \in ViewType
  BY DEF LoopInv, Home, Sides
<1>3. /\ heals' = (heals \ {x}) \cup {y} /\ UNCHANGED <<healArmed, healTimer>>
  BY DEF JoinHandled, Goes
<1> HIDE DEF theirs
<1>4. y \in HealType /\ y.token = x.token /\ y.theirs = theirs /\ y.stage = "joined"
  BY <1>1, <1>2 DEF HealType
<1>5. view' \in [Sides -> ViewType]
  BY <1>1 DEF LoopInv
<1> HIDE DEF y
<1> QED
  BY <1>1, <1>2, <1>3, <1>4, <1>5, GoesKeeps DEF HealShape

(* Statuses are numbers, of which the first two are pingable. *)
LEMMA PingableIs ==
  ASSUME NEW m \in HealState
  PROVE  /\ IsPingable(m) <=> m.status < 2
         /\ m.status \in 0..4 /\ m.inc \in Nat
BY DEF IsPingable, HealState

(* Suspects are pingable. *)
LEMMA SuspectedIs ==
  ASSUME NEW v \in ViewType, NEW w \in ViewType
  PROVE  /\ \A h \in DOMAIN Suspected(v, w) : IsPingable(Suspected(v, w)[h])
         /\ DOMAIN Suspected(v, w) = {h \in Hosts : WouldBecomeUnpingable(v[h], w[h])}
BY DEF Suspected, IsPingable

(* When nobody is to be suspected, the newer of two states of a host is    *)
(* unpingable only if both are.                                            *)
LEMMA NewerSpares ==
  ASSUME NEW m \in HealState, NEW t \in HealState,
         ~WouldBecomeUnpingable(m, t), ~WouldBecomeUnpingable(t, m)
  PROVE  /\ Overrides(t, m) => (IsPingable(m) => IsPingable(t))
         /\ ~Overrides(t, m) => (IsPingable(t) => IsPingable(m))
BY PingableIs DEF WouldBecomeUnpingable, Overrides

(* What is sent to the target after its answer spares what it answered. *)
LEMMA SentIsSparing ==
  ASSUME NEW mine \in ViewType, NEW theirs \in ViewType,
         NEW changesA, changesA = Suspected(mine, theirs),
         NEW changesB, changesB = Suspected(theirs, mine)
  PROVE  LET merge == DOMAIN changesA = {} /\ DOMAIN changesB = {}
             after == Applied(mine, IF merge THEN theirs ELSE changesA, Me)
         IN  Sparing(theirs, IF merge THEN after ELSE changesB)
<1> DEFINE merge == DOMAIN changesA = {} /\ DOMAIN changesB = {}
           after == Applied(mine, theirs, Me)
<1>1. Sparing(theirs, changesB)
  BY SuspectedIs DEF Sparing
<1>2. ASSUME merge PROVE Sparing(theirs, after)
  <2> SUFFICES ASSUME NEW h \in Hosts, IsPingable(theirs[h])
               PROVE  IsPingable(after[h])
    BY DEF Sparing, Applied
  <2>1. mine[h] \in HealState /\ theirs[h] \in HealState /\ DOMAIN theirs = Hosts
    BY DEF ViewType
  <2>2. ~WouldBecomeUnpingable(mine[h], theirs[h]) /\ ~WouldBecomeUnpingable(theirs[h], mine[h])
    BY <1>2, SuspectedIs
  <2>3. after[h] = IF ~Overrides(theirs[h], mine[h]) THEN mine[h]
                   ELSE IF h = Me THEN [status |-> 0, inc |-> theirs[h].inc + 1]
                   ELSE theirs[h]
    BY <2>1 DEF Applied
  <2> QED
    BY <2>1, <2>2, <2>3, NewerSpares DEF IsPingable
<1> QED
  BY <1>1, <1>2

(* The join is answered: hosts are suspected, or the views merged. *)
LEMMA JoinAnsweredKeeps ==
  ASSUME LoopInv, NEW x, JoinAnswered(x)
  PROVE  LoopInv'
<1> DEFINE mine == view["near"]
           changesA == Suspected(mine, x.theirs)
           changesB == Suspected(x.theirs, mine)
           merge == DOMAIN changesA = {} /\ DOMAIN changesB = {}
           after == Applied(mine, IF merge THEN x.theirs ELSE changesA, Me)
           reached == {h \in Hosts : IsPingable(x.theirs[h])}
           y == [x EXCEPT !.reached = reached]
           changes == IF merge THEN after ELSE changesB
           z == [y EXCEPT !.stage = "send", !.changes = changes]
<1>1. /\ x \in heals /\ x \in HealType /\ x.theirs \in ViewType
      /\ UNCHANGED <<healStopped, isDestroyed>>
      /\ mine \in ViewType
  BY DEF JoinAnswered, LoopInv, HealShape, lifeVars, Sides
<1>2. changesA \in ChangesType /\ changesB \in ChangesType
  <2>1. ASSUME NEW v \in ViewType, NEW w \in ViewType PROVE Suspected(v, w) \in ChangesType
    <3> DEFINE S == {h \in Hosts : WouldBecomeUnpingable(v[h], w[h])}
    <3>1. \A h \in S : [status |-> 1, inc |-> w[h].inc] \in HealState
      BY <2>1 DEF ViewType, HealState
    <3>2. Suspected(v, w) \in [S -> HealState]
      BY <3>1 DEF Suspected
    <3> QED
      BY <3>2 DEF ChangesType
  <2> QED
    BY <1>1, <2>1
<1>3. \A c \in ChangesType : \A h \in Hosts \cap DOMAIN c : c[h] \in HealState
  BY DEF ChangesType
<1>4. \A h \in Hosts : x.theirs[h] \in HealState
  BY <1>1 DEF ViewType
<1>5. after \in ViewType
  <2> HIDE DEF changesA, mine, merge
  <2> QED
    BY <1>1, <1>2, <1>3, <1>4, AppliedIsView
<1>6. changes \in ChangesType
  <2>1. ViewType \subseteq ChangesType
    BY DEF ViewType, ChangesType
  <2> HIDE DEF after, changesB, merge
  <2> QED
    BY <1>2, <1>5, <2>1
<1>7. view' = [view EXCEPT !["near"] = after]
  BY DEF JoinAnswered
<1>8. Reached(x, y) \/ Goes(x, z)
  BY DEF JoinAnswered
<1> HIDE DEF after, changes, reached
<1>9. view' \in [Sides -> ViewType]
  BY <1>5, <1>7 DEF LoopInv
<1>10. reached \subseteq Hosts
  BY DEF reached
<1>11. y \in HealType /\ y.token = x.token /\ y.theirs = x.theirs
  BY <1>1, <1>10 DEF HealType
<1> HIDE DEF y
<1>12. /\ z \in HealType /\ z.token = y.token /\ z.stage = "send"
       /\ z.theirs = x.theirs /\ z.changes = changes
  BY <1>6, <1>11 DEF HealType
<1>15. Sparing(x.theirs, changes)
  BY <1>1, SentIsSparing DEF changes, after
<1> HIDE DEF z
<1>13. CASE Reached(x, y)
  BY <1>1, <1>9, <1>11, <1>13, ReachedKeeps
<1>14. CASE Goes(x, z)
  BY <1>1, <1>9, <1>11, <1>12, <1>14, <1>15, GoesKeeps DEF Goes, HealShape
<1> QED
  BY <1>8, <1>13, <1>14

(* The target takes the changes. *)
LEMMA ChangesHandledKeeps ==
  ASSUME LoopInv, NEW x, ChangesHandled(x)
  PROVE  LoopInv'
<1>1. /\ x \in heals /\ x \in HealType /\ UNCHANGED <<healStopped, isDestroyed>>
      /\ Reached(x, x) \/ Missed(x)
      /\ view' = [view EXCEPT ![Home(x.target)] = Applied(@, x.changes, x.target)]
  BY DEF ChangesHandled, LoopInv, HealShape, lifeVars
<1>2. view \in [Sides -> ViewType] /\ Home(x.target) \in Sides
  BY DEF LoopInv, Home, Sides
<1>3. \A h \in Hosts \cap DOMAIN x.changes : x.changes[h] \in HealState
  BY <1>1 DEF HealType, ChangesType
<1>4. Applied(view[Home(x.target)], x.changes, x.target) \in ViewType
  BY <1>2, <1>3, AppliedIsView
<1>5. view' \in [Sides -> ViewType]
  BY <1>1, <1>2, <1>4
<1> QED
  BY <1>1, <1>5, ReachedKeeps, MissedKeeps

(* Gossip and time change the views only. *)
LEMMA ViewsKeep ==
  ASSUME LoopInv, view' \in [Sides -> ViewType],
         UNCHANGED <<healStopped, healTimer, healArmed, heals, isDestroyed>>
  PROVE  LoopInv'
BY DEF LoopInv, Looping

(* Gossip between the sides. *)
LEMMA ContactKeeps ==
  ASSUME LoopInv, NEW g, NEW h, Contact(g, h)
  PROVE  LoopInv'
<1> DEFINE s == Home(g)
           there == Applied(view[Home(h)], view[s], h)
           here == Applied(view[s], there, g)
<1>1. /\ view \in [Sides -> ViewType] /\ s \in Sides /\ Home(h) \in Sides
  BY DEF LoopInv, Home, Sides
<1>2. \A v \in ViewType : \A x \in Hosts \cap DOMAIN v : v[x] \in HealState
  BY DEF ViewType
<1>3. there \in ViewType
  BY <1>1, <1>2, AppliedIsView
<1>4. Home(h) # s /\ view' = [view EXCEPT ![Home(h)] = there, ![s] = Applied(@, there, g)]
  BY DEF Contact
<1> HIDE DEF there
<1>5. here \in ViewType
  BY <1>1, <1>2, <1>3, AppliedIsView
<1>6. view' = [view EXCEPT ![Home(h)] = there, ![s] = here]
  BY <1>1, <1>4
<1> HIDE DEF here, s
<1>7. view' \in [Sides -> ViewType]
  BY <1>1, <1>3, <1>5, <1>6
<1> QED
  BY <1>7, ViewsKeep DEF Contact, lifeVars

(* A host reincarnates. *)
LEMMA RefuteKeeps ==
  ASSUME LoopInv, NEW h \in Hosts, Refute(h)
  PROVE  LoopInv'
<1> DEFINE s == Home(h)
           new == [status |-> 0, inc |-> view[s][h].inc + 1]
           v == [view[s] EXCEPT ![h] = new]
<1>1. view \in [Sides -> ViewType] /\ s \in Sides
  BY DEF LoopInv, Home, Sides
<1>2. view[s] \in ViewType /\ view[s][h] \in HealState
  BY <1>1 DEF ViewType
<1>3. view' = [view EXCEPT ![s] = v]
  BY DEF Refute
<1> HIDE DEF s
<1>4. new \in HealState
  BY <1>2 DEF HealState
<1> HIDE DEF new
<1>5. v \in ViewType
  BY <1>2, <1>4 DEF ViewType
<1> HIDE DEF v
<1>6. view' \in [Sides -> ViewType]
  BY <1>1, <1>3, <1>5
<1> QED
  BY <1>6, ViewsKeep DEF Refute, lifeVars

(* A host is suspected. *)
LEMMA SuspectKeeps ==
  ASSUME LoopInv, NEW h \in Hosts, NEW s \in Sides, Suspect(h, s)
  PROVE  LoopInv'
<1> DEFINE new == [view[s][h] EXCEPT !.status = 1]
           v == [view[s] EXCEPT ![h] = new]
<1>1. view \in [Sides -> ViewType]
  BY DEF LoopInv
<1>2. view[s] \in ViewType /\ view[s][h] \in HealState
  BY <1>1 DEF ViewType
<1>3. view' = [view EXCEPT ![s] = v]
  BY DEF Suspect
<1>4. new \in HealState
  BY <1>2 DEF HealState
<1> HIDE DEF new
<1>5. v \in ViewType
  BY <1>2, <1>4 DEF ViewType
<1> HIDE DEF v
<1>6. view' \in [Sides -> ViewType]
  BY <1>1, <1>3, <1>5
<1> QED
  BY <1>6, ViewsKeep DEF Suspect, lifeVars

(* A suspicion ends. *)
LEMMA SuspicionKeeps ==
  ASSUME LoopInv, NEW h \in Hosts, NEW s \in Sides, SuspicionExpires(h, s)
  PROVE  LoopInv'
<1> DEFINE new == [view[s][h] EXCEPT !.status = 2]
           v == [view[s] EXCEPT ![h] = new]
<1>1. view \in [Sides -> ViewType]
  BY DEF LoopInv
<1>2. view[s] \in ViewType /\ view[s][h] \in HealState
  BY <1>1 DEF ViewType
<1>3. view' = [view EXCEPT ![s] = v]
  BY DEF SuspicionExpires
<1>4. new \in HealState
  BY <1>2 DEF HealState
<1> HIDE DEF new
<1>5. v \in ViewType
  BY <1>2, <1>4 DEF ViewType
<1> HIDE DEF v
<1>6. view' \in [Sides -> ViewType]
  BY <1>1, <1>3, <1>5
<1> QED
  BY <1>6, ViewsKeep DEF SuspicionExpires, lifeVars

(* A new heal. *)
LEMMA NewHealIs ==
  ASSUME NEW t \in HealTokens \cup {Admin}
  PROVE  HealShape(NewHeal(t)) /\ NewHeal(t).token = t
<1>1. << >> \in ChangesType
  <2>1. << >> \in [{} -> HealState]
    OBVIOUS
  <2> QED
    BY <2>1 DEF ChangesType
<1>2. Me \in Hosts
  BY HealerAssumption DEF Hosts
<1> QED
  BY <1>1, <1>2 DEF HealShape, NewHeal, HealType

(* Timers: the loop is started once, and its timer fires once. *)
LEMMA TimerKeeps ==
  ASSUME LoopInv,
         \/ JoinDone(StartHealing, UNCHANGED healVars)
         \/ DestroyNode(StopHealing)
         \/ \E t \in HealTokens : SkipHeal(t) \/ RunHeal(t)
         \/ AdminHeal
  PROVE  LoopInv'
<1>0. 0 \notin HealTokens
  BY DEF HealTokens
<1>1. CASE JoinDone(StartHealing, UNCHANGED healVars)
  <2>1. isDestroyed' = isDestroyed
    BY <1>1 DEF JoinDone
  <2>2. CASE UNCHANGED healVars
    BY <2>1, <2>2 DEF LoopInv, Looping, healVars
  <2>3. CASE healTimer = NoHealTimer /\ ~isDestroyed /\ StartHealing
    <3>1. healArmed = {} /\ Looping = {}
      BY <2>3 DEF LoopInv
    <3>2. healTimer' \in HealTokens /\ healArmed' = {healTimer'}
      BY <2>3, <3>1, ScheduleSets DEF StartHealing
    <3>3. Looping' = {} /\ healStopped' \in BOOLEAN
          /\ view' = view /\ heals' = heals
      BY <2>3, <3>1 DEF StartHealing, Looping
    <3>4. healTimer' # NoHealTimer
      BY <3>2, HealerAssumption DEF HealTokens
    <3> QED
      BY <3>2, <3>3, <3>4 DEF LoopInv
  <2> QED
    BY <1>1, <2>2, <2>3 DEF JoinDone, StartHealing
<1>2. CASE DestroyNode(StopHealing)
  BY <1>2 DEF DestroyNode, StopHealing, LoopInv, Looping
<1>3. ASSUME NEW t \in HealTokens, SkipHeal(t) PROVE LoopInv'
  <2>1. healArmed \ {t} = {} /\ Looping = {} /\ UNCHANGED <<view, healStopped, heals, isDestroyed>>
    BY <1>3 DEF SkipHeal, LoopInv, lifeVars
  <2>2. Looping' = {}
    BY <2>1 DEF Looping
  <2>3. CASE healStopped
    BY <1>3, <2>1, <2>2, <2>3 DEF SkipHeal, LoopInv
  <2>4. CASE ~healStopped
    <3>1. healTimer' \in HealTokens /\ healArmed' = {healTimer'}
      BY <1>3, <2>1, <2>4, ScheduleSets DEF SkipHeal
    <3>2. healTimer' # NoHealTimer
      BY <3>1, HealerAssumption DEF HealTokens
    <3> QED
      BY <2>1, <2>2, <3>1, <3>2 DEF LoopInv
  <2> QED
    BY <2>3, <2>4
<1>4. ASSUME NEW t \in HealTokens, RunHeal(t) PROVE LoopInv'
  <2>1. /\ healArmed' = {} /\ Looping = {} /\ UNCHANGED <<view, healStopped, healTimer, isDestroyed>>
        /\ heals' = heals \cup {NewHeal(t)}
    BY <1>4 DEF RunHeal, LoopInv, lifeVars
  <2>2. Looping' = {NewHeal(t)}
    BY <1>0, <2>1, NewHealIs DEF Looping, Admin
  <2>3. ~isDestroyed => healTimer # NoHealTimer
    BY <1>4 DEF RunHeal, LoopInv
  <2> QED
    BY <2>1, <2>2, <2>3, NewHealIs DEF LoopInv
<1>5. CASE AdminHeal
  <2>1. /\ UNCHANGED <<view, healStopped, healArmed, healTimer, isDestroyed>>
        /\ heals' = heals \cup {NewHeal(Admin)}
    BY <1>5 DEF AdminHeal, lifeVars
  <2>2. Looping' = Looping
    BY <2>1, NewHealIs DEF Looping
  <2> QED
    BY <2>1, <2>2, NewHealIs DEF LoopInv
<1> QED
  BY <1>1, <1>2, <1>3, <1>4, <1>5

(* No loop runs yet. *)
LEMMA InitLoop == HealInit => LoopInv
<1> SUFFICES ASSUME HealInit PROVE LoopInv
  OBVIOUS
<1>1. view \in [Sides -> ViewType]
  BY DEF HealInit, ViewType, HealState
<1> QED
  BY <1>1 DEF HealInit, LoopInv, Looping

(* A full sync that a heal brought about. *)
LEMMA FullSyncKeeps ==
  ASSUME LoopInv, NEW h, ReverseFullSync(h)
  PROVE  LoopInv'
<1> DEFINE s == Home(h)
           v == Applied(view[s], view["near"], h)
<1>1. view \in [Sides -> ViewType] /\ s \in Sides /\ "near" \in Sides
  BY DEF LoopInv, Home, Sides
<1>2. \A u \in ViewType : \A x \in Hosts \cap DOMAIN u : u[x] \in HealState
  BY DEF ViewType
<1>3. v \in ViewType
  BY <1>1, <1>2, AppliedIsView
<1>4. view' = [view EXCEPT ![s] = v] \/ view' = view
  BY DEF ReverseFullSync
<1> HIDE DEF s, v
<1>5. view' \in [Sides -> ViewType]
  BY <1>1, <1>3, <1>4
<1> QED
  BY <1>5, ViewsKeep DEF ReverseFullSync, lifeVars

(* Every step keeps the loop one. *)
LEMMA NextLoop == LoopInv /\ [HealNextState]_<<healVars, lifeVars>> => LoopInv'
<1> SUFFICES ASSUME LoopInv, [HealNextState]_<<healVars, lifeVars>> PROVE LoopInv'
  OBVIOUS
<1>1. CASE (Bootstrap \/ BootstrapFails) /\ UNCHANGED healVars
  BY <1>1 DEF Bootstrap, BootstrapFails, LoopInv, Looping, healVars
<1>2. CASE UNCHANGED <<healVars, lifeVars>>
  BY <1>2 DEF LoopInv, Looping, healVars, lifeVars
<1>3. ASSUME NEW t, HealProgress(t) PROVE LoopInv'
  BY <1>3, DiscoveredKeeps, JoinHandledKeeps, JoinAnsweredKeeps, ChangesHandledKeeps
  DEF HealProgress, HealStep
<1>4. ASSUME NEW x \in heals, FailHeal(x) PROVE LoopInv'
  BY <1>4, MissedKeeps DEF FailHeal, lifeVars, LoopInv
<1>5. ASSUME NEW h \in Hosts, ReverseFullSync(h) PROVE LoopInv'
  BY <1>5, FullSyncKeeps
<1> QED
  BY <1>1, <1>2, <1>3, <1>4, <1>5, TimerKeeps, ContactKeeps, RefuteKeeps, SuspectKeeps,
     SuspicionKeeps
  DEF HealNextState

(* Only targets of heals begin a full sync. *)
HostsSync == syncing \subseteq Hosts
LEMMA NextSyncing ==
  ASSUME LoopInv, HostsSync, [HealNextState]_<<healVars, lifeVars>>
  PROVE  HostsSync'
<1>1. CASE UNCHANGED syncing
  BY <1>1 DEF HostsSync
<1>2. CASE UNCHANGED healVars
  BY <1>1, <1>2 DEF healVars
<1>3. ASSUME NEW x \in heals, ChangesHandled(x) PROVE HostsSync'
  <2>1. x.target \in Hosts
    BY DEF LoopInv, HealShape, HealType
  <2> QED
    BY <1>3, <2>1 DEF ChangesHandled, HostsSync
<1>4. ASSUME NEW h \in Hosts, ReverseFullSync(h) PROVE HostsSync'
  BY <1>4 DEF ReverseFullSync, HostsSync
<1>5. CASE JoinDone(StartHealing, UNCHANGED healVars) \/ DestroyNode(StopHealing)
  BY <1>1, <1>2, <1>5 DEF JoinDone, DestroyNode, StartHealing, StopHealing
<1>6. ASSUME NEW t, HealProgress(t) PROVE HostsSync'
  BY <1>1, <1>3, <1>6 DEF HealProgress, HealStep, Discovered, JoinHandled, JoinAnswered
<1>7. ASSUME NEW t, SkipHeal(t) \/ RunHeal(t) PROVE HostsSync'
  BY <1>1, <1>7 DEF SkipHeal, RunHeal
<1>8. CASE AdminHeal \/ \E x \in heals : FailHeal(x)
  BY <1>1, <1>8 DEF AdminHeal, FailHeal
<1>9. CASE \E g, h \in Hosts : Contact(g, h)
  BY <1>1, <1>9 DEF Contact
<1>10. CASE \E h \in Hosts : Refute(h) \/ \E s \in Sides : Suspect(h, s) \/ SuspicionExpires(h, s)
  BY <1>1, <1>10 DEF Refute, Suspect, SuspicionExpires
<1> QED
  BY <1>2, <1>4, <1>5, <1>6, <1>7, <1>8, <1>9, <1>10 DEF HealNextState, lifeVars

(* One loop heals, however many bootstraps there are, and for any hosts,   *)
(* heals and failures (discover_provider_healer.js 58-93).                 *)
THEOREM HealsInOneLoop == HealSpec => []OneHealLoop
<1>1. LoopInv /\ HostsSync => OneHealLoop
  <2> SUFFICES ASSUME LoopInv, HostsSync PROVE OneHealLoop
    OBVIOUS
  <2>1. HealerTypeOK
    BY DEF LoopInv, HostsSync, HealerTypeOK, ViewType, HealState
  <2>2. ASSUME NEW S, \A x, y \in S : x = y
        PROVE  Cardinality(S) = IF S = {} THEN 0 ELSE 1
    <3>1. S = {} \/ \E x : S = {x}
      BY <2>2
    <3> QED
      BY <3>1, FS_EmptySet, FS_Singleton
  <2>3. Cardinality(healArmed) = IF healArmed = {} THEN 0 ELSE 1
    BY <2>2 DEF LoopInv
  <2>4. Cardinality(Looping) = IF Looping = {} THEN 0 ELSE 1
    BY <2>2 DEF LoopInv
  <2>5. Cardinality(healArmed) + Cardinality(Looping) <= 1
    BY <2>3, <2>4 DEF LoopInv
  <2> QED
    BY <2>1, <2>5 DEF OneHealLoop, Looping
<1>2. HealInit => HostsSync
  BY DEF HealInit, HostsSync
<1> QED
  BY InitLoop, NextLoop, NextSyncing, <1>1, <1>2, PTL DEF HealSpec

(* Changes that are applied make a host unpingable only if they say so. *)
LEMMA AppliedSpares ==
  ASSUME NEW v, NEW changes, NEW self, NEW h \in Hosts,
         IsPingable(v[h]), ~IsPingable(Applied(v, changes, self)[h])
  PROVE  /\ h \in DOMAIN changes /\ ~IsPingable(changes[h])
         /\ Overrides(changes[h], v[h])
BY DEF Applied, IsPingable

(* A heal spares the views it changes. *)
LEMMA StepSpares ==
  ASSUME LoopInv, NEW x \in heals, HealStep(x), NEW s \in Sides, NEW h \in Hosts,
         IsPingable(view[s][h]), ~IsPingable(view'[s][h])
  PROVE  CameBack(x, s, h)
<1>1. HealShape(x) /\ view \in [Sides -> ViewType]
  BY DEF LoopInv
<1>2. CASE Discovered(x) \/ JoinHandled(x)
  BY <1>2 DEF Discovered, JoinHandled
<1>3. CASE JoinAnswered(x)
  <2> DEFINE mine == view["near"]
             changesA == Suspected(mine, x.theirs)
             changesB == Suspected(x.theirs, mine)
             merge == DOMAIN changesA = {} /\ DOMAIN changesB = {}
             news == IF merge THEN x.theirs ELSE changesA
  <2>1. view' = [view EXCEPT !["near"] = Applied(mine, news, Me)]
    BY <1>3 DEF JoinAnswered
  <2>2. x.theirs \in ViewType /\ mine \in ViewType
    BY <1>1, <1>3 DEF JoinAnswered, HealShape, Sides
  <2>3. s = "near" /\ view'[s] = Applied(mine, news, Me)
    BY <1>1, <2>1 DEF Sides
  <2> HIDE DEF news
  <2>4. h \in DOMAIN news /\ ~IsPingable(news[h]) /\ Overrides(news[h], mine[h])
    BY <2>3, AppliedSpares
  <2>5. CASE ~merge
    BY <2>2, <2>4, <2>5, SuspectedIs DEF news
  <2>6. CASE merge
    <3>1. ~WouldBecomeUnpingable(mine[h], x.theirs[h])
      BY <2>2, <2>6, SuspectedIs
    <3>2. IsPingable(mine[h]) /\ news = x.theirs
      BY <2>3, <2>6 DEF news
    <3> HIDE DEF mine, changesA, changesB
    <3> QED
      BY <2>4, <3>1, <3>2 DEF WouldBecomeUnpingable
  <2> HIDE DEF merge
  <2> QED
    BY <2>5, <2>6
<1>4. CASE ChangesHandled(x)
  <2>1. /\ x.stage = "send"
        /\ view' = [view EXCEPT ![Home(x.target)] = Applied(@, x.changes, x.target)]
    BY <1>4 DEF ChangesHandled
  <2>2. s = Home(x.target) /\ view'[s] = Applied(view[s], x.changes, x.target)
    BY <1>1, <2>1
  <2>3. h \in DOMAIN x.changes /\ ~IsPingable(x.changes[h])
    BY <2>2, AppliedSpares
  <2> QED
    BY <1>1, <2>1, <2>2, <2>3 DEF HealShape, Sparing, CameBack
<1> QED
  BY <1>2, <1>3, <1>4 DEF HealStep

(* For any hosts, any number of heals at a time, whatever fails, and       *)
(* whatever full syncs the pings of heals bring about in between: the      *)
(* updates of a heal, on either side, make nobody unpingable who is pinged *)
(* there, but for hosts that were down at the target when it answered      *)
(* (healer.js 42-44, 99-109, 124-178).                                     *)
THEOREM HealsSpare == HealSpec => HealKeepsPingable
<1>1. LoopInv /\ [HealNextState]_<<healVars, lifeVars>> =>
      [\A x \in heals : HealStep(x) =>
         \A s \in Sides, h \in Hosts :
           IsPingable(view[s][h]) => IsPingable(view'[s][h]) \/ CameBack(x, s, h)
      ]_<<healVars, lifeVars>>
  BY StepSpares
<1> QED
  BY InitLoop, NextLoop, <1>1, PTL DEF HealSpec, HealKeepsPingable

----------------------------------------------------------------------------
NewsItem == [version : 1..MaxVersion, src : Origins]
NodeState ==
  [ready : BOOLEAN, inc : Nat, belief : [Watched -> 0..MaxVersion],
   pending : [Watched -> Pending], told : [Watched -> Nat], limit : Nat \ {0}]

(* A change to tell is of a member that is known, and was told as often as *)
(* it is counted; a node that starts has none.                             *)
NodeOK(s) ==
  /\ s \in NodeState
  /\ s.limit <= MostTold
  /\ \A x \in Watched : s.pending[x] # None =>
       /\ s.ready /\ s.belief[x] > 0
       /\ s.told[x] >= s.pending[x].count \/ s.told[x] >= MostTold

(* What a node in state s forgets when it goes on in state e. *)
Retains(s, e) == \A x \in Watched : s.pending[x] # None => e.pending[x] # None
Forgets(s, e) ==
  \A x \in Watched : s.pending[x] # None /\ e.pending[x] = None /\ e.ready
                       => e.told[x] >= e.limit

(* What is kept at first and forgotten then is forgotten. *)
LEMMA RetainsForgets ==
  ASSUME NEW s, NEW l, NEW e, Retains(s, l), Forgets(l, e)
  PROVE  Forgets(s, e)
BY DEF Retains, Forgets

(* Finitely many numbers have a greatest one. *)
LEMMA GreatestIs ==
  ASSUME NEW S \in SUBSET Nat, IsFiniteSet(S), S # {}
  PROVE  \E m \in S : \A y \in S : m >= y
<1> DEFINE Bad(U) == U # {} /\ ~\E m \in U : \A y \in U : m >= y
           A == {n \in Nat : \E U \in SUBSET S : Bad(U) /\ Cardinality(U) = n}
<1> SUFFICES ASSUME Bad(S) PROVE FALSE
  OBVIOUS
<1>1. Cardinality(S) \in A
  BY FS_CardinalityType
<1>2. PICK n \in A : \A k \in A : ~(<<k, n>> \in OpToRel(<, Nat))
  BY <1>1, NatLessThanWellFounded, WFMin
<1>3. PICK U \in SUBSET S : Bad(U) /\ Cardinality(U) = n
  BY <1>2
<1>4. PICK u \in U : TRUE
  BY <1>3
<1>5. IsFiniteSet(U) /\ IsFiniteSet(U \ {u}) /\ Cardinality(U \ {u}) = n - 1 /\ n \in Nat
  BY <1>3, <1>4, FS_Subset, FS_RemoveElement, FS_CardinalityType
<1>6. Cardinality(U \ {u}) \in Nat
  BY <1>5, FS_CardinalityType
<1>7. ~Bad(U \ {u})
  <2> SUFFICES ASSUME Bad(U \ {u}) PROVE FALSE
    OBVIOUS
  <2> DEFINE k == n - 1
  <2>1. k \in Nat /\ k < n
    BY <1>5, <1>6
  <2>2. k \in A
    BY <1>3, <1>5, <2>1
  <2>3. ~(<<k, n>> \in {ss \in Nat \X Nat : ss[1] < ss[2]})
    BY <1>2, <2>2 DEF OpToRel
  <2> HIDE DEF k, A
  <2> QED
    BY <1>5, <2>1, <2>3
<1>8. CASE U \ {u} = {}
  BY <1>3, <1>4, <1>8
<1>9. CASE U \ {u} # {}
  <2>1. PICK m \in U \ {u} : \A y \in U \ {u} : m >= y
    BY <1>7, <1>9
  <2>2. m \in Nat /\ u \in Nat /\ \A y \in U : y \in Nat
    BY <1>3, <1>4
  <2>3. CASE m >= u
    BY <1>3, <2>1, <2>3
  <2>4. CASE ~(m >= u)
    <3>1. \A y \in U : u >= y
      BY <2>1, <2>2, <2>4
    <3> QED
      BY <1>3, <1>4, <3>1
  <2> QED
    BY <2>3, <2>4
<1> QED
  BY <1>8, <1>9

(* A limit is one of those that are configured, and MostTold the greatest. *)
LEMMA LimitIs ==
  /\ MostTold \in Nat \ {0}
  /\ \A b : LimitOf(b) \in Nat \ {0} /\ LimitOf(b) <= MostTold
<1> DEFINE C == Cardinality(Watched)
           S == {Limit[k] : k \in DOMAIN Limit}
<1>1. C \in Nat /\ DOMAIN Limit = 0..C /\ \A k \in 0..C : Limit[k] \in Nat \ {0}
  BY DisseminationAssumption, FS_CardinalityType
<1>2. \A b : Cardinality(Servers(b)) \in 0..C
  <2> SUFFICES ASSUME NEW b PROVE Cardinality(Servers(b)) \in 0..C
    OBVIOUS
  <2>1. Servers(b) \in SUBSET Watched
    BY DEF Servers
  <2>2. IsFiniteSet(Servers(b)) /\ Cardinality(Servers(b)) <= C
    BY <2>1, DisseminationAssumption, FS_Subset
  <2> QED
    BY <1>1, <2>2, FS_CardinalityType
<1>3. IsFiniteSet(0..C)
  BY <1>1, FS_Interval
<1> HIDE DEF C
<1>4. S \in SUBSET Nat /\ Limit[0] \in S /\ \A k \in 0..C : Limit[k] \in S
  BY <1>1
<1>5. IsFiniteSet(S)
  <2>1. Limit \in Surjection(0..C, S)
    BY <1>1, <1>4, DisseminationAssumption DEF Surjection, C
  <2> HIDE DEF S
  <2> QED
    BY <1>3, <2>1, FS_Surjection
<1>6. MostTold = Max(S)
  BY DEF MostTold
<1>7. 0 \notin S
  BY <1>1
<1> HIDE DEF S
<1>8. MostTold \in S /\ \A y \in S : MostTold >= y
  BY <1>4, <1>5, <1>6, GreatestIs DEF Max
<1>9. \A b : LimitOf(b) \in S /\ LimitOf(b) \in Nat \ {0}
  BY <1>1, <1>2, <1>4 DEF LimitOf
<1>10. \A y \in S : y \in Nat
  BY <1>4
<1> QED
  BY <1>7, <1>8, <1>9, <1>10

(* News are a function on watched members. *)
LEMMA NewsIs ==
  ASSUME NEW news \in News
  PROVE  /\ DOMAIN news \in SUBSET Watched
         /\ \A x \in DOMAIN news : news[x] \in NewsItem
BY DEF News, NewsItem
(* To show that a function is news, look at its entries. *)
LEMMA ThatIsNews ==
  ASSUME NEW S \in SUBSET Watched, NEW f \in [S -> NewsItem]
  PROVE  f \in News
BY DEF News, NewsItem

(* An empty body is news. *)
LEMMA NothingIsNews == Nothing \in News
<1>1. Nothing \in [{} -> NewsItem] /\ {} \in SUBSET Watched
  BY DEF Nothing
<1> QED
  BY <1>1, ThatIsNews

(* What is taken is newer, and a change to tell that was never told. *)
LEMMA LearnIs ==
  ASSUME NEW s, NodeOK(s), s.ready, NEW news \in News
  PROVE  LET e == Learn(s, news) IN
         /\ NodeOK(e) /\ e.ready = s.ready /\ e.inc = s.inc /\ Retains(s, e)
<1> DEFINE fresh == {x \in DOMAIN news : Newer(news[x].version, s.belief[x])}
           after == [x \in Watched |-> IF x \in fresh THEN news[x].version ELSE s.belief[x]]
           pend == [x \in Watched |-> IF x \in fresh
                      THEN [src |-> news[x].src, count |-> 0] ELSE s.pending[x]]
           tell == [x \in Watched |-> IF x \in fresh THEN 0 ELSE s.told[x]]
           lim == IF Servers(after) # Servers(s.belief) THEN LimitOf(after) ELSE s.limit
           e == [s EXCEPT !.belief = after, !.pending = pend, !.told = tell, !.limit = lim]
<1>1. s \in NodeState /\ s.belief \in [Watched -> 0..MaxVersion]
      /\ s.pending \in [Watched -> Pending] /\ s.told \in [Watched -> Nat]
      /\ s.limit \in Nat \ {0} /\ s.limit <= MostTold
  BY DEF NodeOK, NodeState
<1>2. Learn(s, news) = e
  BY <1>1 DEF Learn, NodeState
<1>3. \A x \in fresh : /\ x \in Watched /\ news[x].version \in 1..MaxVersion
                       /\ news[x].src \in Origins
  BY NewsIs DEF NewsItem
<1>4. MaxVersion \in Nat
  BY DisseminationAssumption
<1> HIDE DEF fresh
<1>5. after \in [Watched -> 0..MaxVersion]
  BY <1>1, <1>3, <1>4
<1>6. pend \in [Watched -> Pending]
  BY <1>1, <1>3 DEF Pending
<1>7. tell \in [Watched -> Nat]
  BY <1>1
<1>8. lim \in Nat \ {0} /\ lim <= MostTold
  BY <1>1, LimitIs
<1>9. \A x \in Watched : /\ x \in fresh => /\ pend[x] # None /\ pend[x].count = 0 /\ tell[x] = 0
                                           /\ after[x] > 0
                         /\ x \notin fresh => /\ pend[x] = s.pending[x] /\ tell[x] = s.told[x]
                                              /\ after[x] = s.belief[x]
  <2> SUFFICES ASSUME NEW x \in Watched
               PROVE  /\ x \in fresh => /\ pend[x] # None /\ pend[x].count = 0 /\ tell[x] = 0
                                        /\ after[x] > 0
                      /\ x \notin fresh => /\ pend[x] = s.pending[x] /\ tell[x] = s.told[x]
                                           /\ after[x] = s.belief[x]
    OBVIOUS
  <2>1. CASE x \in fresh
    <3>1. pend[x] = [src |-> news[x].src, count |-> 0]
      BY <2>1
    <3>2. pend[x] \in [src : (Node \X (0..MaxEvents)) \cup {None}, count : Nat]
      BY <1>3, <2>1, <3>1 DEF Origins
    <3>3. after[x] \in 1..MaxVersion
      BY <1>3, <2>1
    <3> QED
      BY <1>4, <2>1, <3>1, <3>2, <3>3, DisseminationAssumption
  <2>2. CASE x \notin fresh
    BY <2>2
  <2> QED
    BY <2>1, <2>2
<1> HIDE DEF after, pend, tell, lim
<1>10. /\ e \in NodeState /\ e.ready = s.ready /\ e.inc = s.inc /\ e.belief = after
       /\ e.pending = pend /\ e.told = tell /\ e.limit = lim
  BY <1>1, <1>5, <1>6, <1>7, <1>8 DEF NodeState
<1> HIDE DEF e
<1>11. MostTold \in Nat
  BY LimitIs
<1>12. \A x \in Watched : e.pending[x] # None =>
         /\ e.ready /\ e.belief[x] > 0
         /\ e.told[x] >= e.pending[x].count \/ e.told[x] >= MostTold
  BY <1>9, <1>10 DEF NodeOK
<1>13. Retains(s, e)
  BY <1>9, <1>10 DEF Retains
<1> QED
  BY <1>2, <1>8, <1>10, <1>12, <1>13 DEF NodeOK

(* What is dropped was told as often as the limit says. *)
LEMMA DropIs ==
  ASSUME NEW s, NodeOK(s), NEW from
  PROVE  LET e == Drop(s, from) IN
         /\ NodeOK(e) /\ e.ready = s.ready /\ e.inc = s.inc /\ e.limit = s.limit
         /\ Forgets(s, e)
<1> DEFINE spent == Spent(s, from)
           pend == [x \in Watched |-> IF x \in spent THEN None ELSE s.pending[x]]
           e == [s EXCEPT !.pending = pend]
<1>1. s \in NodeState /\ s.pending \in [Watched -> Pending] /\ s.told \in [Watched -> Nat]
      /\ s.limit \in Nat \ {0} /\ s.limit <= MostTold /\ MostTold \in Nat
  BY LimitIs DEF NodeOK, NodeState
<1>2. Drop(s, from) = e
  BY <1>1 DEF Drop, NodeState
<1>3. \A x \in spent : x \in Watched /\ s.pending[x] # None /\ s.pending[x].count >= s.limit
  BY DEF Spent, Unfiltered
<1> HIDE DEF spent
<1>4. pend \in [Watched -> Pending]
  BY <1>1 DEF Pending
<1>5. \A x \in Watched : pend[x] = IF x \in spent THEN None ELSE s.pending[x]
  OBVIOUS
<1> HIDE DEF pend
<1>6. /\ e \in NodeState /\ e.ready = s.ready /\ e.inc = s.inc /\ e.belief = s.belief
      /\ e.pending = pend /\ e.told = s.told /\ e.limit = s.limit
  BY <1>1, <1>4 DEF NodeState
<1> HIDE DEF e
<1>7. NodeOK(e)
  BY <1>5, <1>6 DEF NodeOK
<1>8. ASSUME NEW x \in Watched, s.pending[x] # None, e.pending[x] = None
      PROVE  e.told[x] >= e.limit
  <2>1. x \in spent
    BY <1>5, <1>6, <1>8
  <2>2. s.pending[x].count >= s.limit /\ s.pending[x].count \in Nat
    BY <1>1, <1>3, <1>8, <2>1 DEF Pending
  <2>3. s.told[x] \in Nat /\ (s.told[x] >= s.pending[x].count \/ s.told[x] >= MostTold)
    BY <1>1, <1>8 DEF NodeOK
  <2>4. s.told[x] >= s.limit
    BY <1>1, <2>2, <2>3
  <2> QED
    BY <1>6, <2>4
<1> QED
  BY <1>2, <1>6, <1>7, <1>8 DEF Forgets

(* A telling is counted twice: as the code counts it, and for good. *)
LEMMA BumpIs ==
  ASSUME NEW s, NodeOK(s), NEW news \in News
  PROVE  LET e == Bump(s, news) IN
         /\ NodeOK(e) /\ e.ready = s.ready /\ e.inc = s.inc /\ e.limit = s.limit
         /\ \A x \in Watched : /\ e.pending[x] = None <=> s.pending[x] = None
                               /\ e.told[x] \in Nat /\ s.told[x] \in Nat
                               /\ e.told[x] >= s.told[x] \/ e.told[x] >= MostTold
<1> DEFINE xs == Current(s, news)
           pend == [x \in Watched |-> IF x \in xs THEN [s.pending[x] EXCEPT !.count = @ + 1]
                                                  ELSE s.pending[x]]
           tell == [x \in Watched |-> IF x \in xs THEN Min({s.told[x] + 1, MostTold})
                                                  ELSE s.told[x]]
           c == [s EXCEPT !.pending = pend]
           e == [c EXCEPT !.told = tell]
<1>1. s \in NodeState /\ s.pending \in [Watched -> Pending] /\ s.told \in [Watched -> Nat]
      /\ s.limit \in Nat \ {0} /\ s.limit <= MostTold /\ MostTold \in Nat
  BY LimitIs DEF NodeOK, NodeState
<1>2. Bump(s, news) = e
  <2>1. Count(s, xs) = c
    BY <1>1 DEF Count, NodeState
  <2>2. c.told = s.told /\ "told" \in DOMAIN c
    BY <1>1 DEF NodeState
  <2>3. Bump(s, news) = Tell(c, xs)
    BY <2>1 DEF Bump
  <2> HIDE DEF c, xs
  <2>4. Tell(c, xs) = e
    BY <2>2 DEF Tell
  <2> QED
    BY <2>3, <2>4
<1>3. \A x \in xs : s.pending[x] # None
  BY DEF Current
<1> HIDE DEF xs
<1>4. ASSUME NEW x \in Watched, x \in xs
      PROVE  /\ pend[x] \in Pending /\ pend[x] # None
             /\ pend[x].count = s.pending[x].count + 1 /\ s.pending[x].count \in Nat
  <2>1. s.pending[x] \in [src : Origins, count : Nat]
    BY <1>1, <1>3, <1>4 DEF Pending
  <2>2. pend[x] = [s.pending[x] EXCEPT !.count = @ + 1]
    BY <1>4
  <2>3. pend[x] \in [src : Origins, count : Nat] /\ pend[x].count = s.pending[x].count + 1
    BY <2>1, <2>2
  <2>4. pend[x] # None
    BY <2>3, DisseminationAssumption DEF Origins
  <2> QED
    BY <2>1, <2>3, <2>4 DEF Pending
<1>5. ASSUME NEW x \in Watched, x \in xs
      PROVE  /\ tell[x] \in Nat /\ s.told[x] \in Nat
             /\ tell[x] = s.told[x] + 1 \/ tell[x] = MostTold
  <2>1. tell[x] = Min({s.told[x] + 1, MostTold}) /\ s.told[x] \in Nat /\ s.told[x] + 1 \in Nat
    BY <1>1, <1>5
  <2>2. tell[x] \in {s.told[x] + 1, MostTold}
    <3>1. s.told[x] + 1 <= MostTold \/ MostTold <= s.told[x] + 1
      BY <1>1, <2>1
    <3>2. \E m \in {s.told[x] + 1, MostTold} : \A y \in {s.told[x] + 1, MostTold} : m <= y
      BY <1>1, <2>1, <3>1
    <3> QED
      BY <2>1, <3>2 DEF Min
  <2> QED
    BY <1>1, <2>1, <2>2
<1>6. ASSUME NEW x \in Watched, x \notin xs
      PROVE  pend[x] = s.pending[x] /\ tell[x] = s.told[x]
  BY <1>6
<1>7. \A x \in Watched : pend[x] \in Pending /\ tell[x] \in Nat /\ s.told[x] \in Nat
  BY <1>1, <1>4, <1>5, <1>6
<1>8. pend \in [Watched -> Pending] /\ tell \in [Watched -> Nat]
  BY <1>7
<1> HIDE DEF pend, tell
<1>9. /\ e \in NodeState /\ e.ready = s.ready /\ e.inc = s.inc /\ e.belief = s.belief
      /\ e.pending = pend /\ e.told = tell /\ e.limit = s.limit
  BY <1>1, <1>8 DEF NodeState
<1> HIDE DEF c, e
<1>10. ASSUME NEW x \in Watched
       PROVE  /\ pend[x] = None <=> s.pending[x] = None
              /\ tell[x] >= s.told[x] \/ tell[x] >= MostTold
              /\ pend[x] # None => tell[x] >= pend[x].count \/ tell[x] >= MostTold
  <2>1. CASE x \in xs
    <3>1. s.told[x] >= s.pending[x].count \/ s.told[x] >= MostTold
      BY <1>3, <2>1 DEF NodeOK
    <3>2. tell[x] >= s.told[x] \/ tell[x] >= MostTold
      BY <1>1, <1>5, <2>1
    <3>3. tell[x] >= pend[x].count \/ tell[x] >= MostTold
      BY <1>1, <1>4, <1>5, <2>1, <3>1
    <3> QED
      BY <1>3, <1>4, <2>1, <3>2, <3>3
  <2>2. CASE x \notin xs
    BY <1>6, <1>7, <2>2 DEF NodeOK
  <2> QED
    BY <2>1, <2>2
<1>11. NodeOK(e)
  BY <1>1, <1>9, <1>10 DEF NodeOK
<1> QED
  BY <1>2, <1>7, <1>9, <1>10, <1>11

(* Counting what was told forgets only what was told often enough. *)
LEMMA BumpRetains ==
  ASSUME NEW s, NodeOK(s), NEW news \in News
  PROVE  LET e == Bump(s, news) IN
         NodeOK(e) /\ e.ready = s.ready /\ e.inc = s.inc /\ Retains(s, e)
<1> DEFINE e == Bump(s, news)
<1>1. /\ NodeOK(e) /\ e.ready = s.ready /\ e.inc = s.inc
      /\ \A x \in Watched : e.pending[x] = None <=> s.pending[x] = None
  BY BumpIs
<1> HIDE DEF e
<1>2. Retains(s, e)
  BY <1>1 DEF Retains
<1> QED
  BY <1>1, <1>2 DEF e

(* What is told are beliefs of known members. *)
LEMMA IssuedIs ==
  ASSUME NEW s, NodeOK(s), NEW from
  PROVE  Issued(s, from) \in News
<1> DEFINE S == Unfiltered(s, from) \ Spent(s, from)
<1>1. S \in SUBSET Watched /\ \A x \in S : s.pending[x] # None
  BY DEF Unfiltered
<1>2. Issued(s, from) = [x \in S |-> [version |-> s.belief[x], src |-> s.pending[x].src]]
  BY DEF Issued
<1> HIDE DEF S
<1>3. ASSUME NEW x \in S
      PROVE  [version |-> s.belief[x], src |-> s.pending[x].src] \in NewsItem
  <2>1. x \in Watched /\ s.pending[x] # None
    BY <1>1
  <2>2. s.belief[x] \in 0..MaxVersion /\ s.belief[x] > 0 /\ s.pending[x] \in Pending
    BY <2>1 DEF NodeOK, NodeState
  <2>3. s.belief[x] \in 1..MaxVersion /\ s.pending[x].src \in Origins
    BY <2>1, <2>2, DisseminationAssumption DEF Pending
  <2> QED
    BY <2>3 DEF NewsItem
<1>4. Issued(s, from) \in [S -> NewsItem]
  BY <1>2, <1>3
<1> QED
  BY <1>1, <1>4, ThatIsNews

(* A full list of members is news. *)
LEMMA FullListIs ==
  ASSUME NEW s, s.belief \in [Watched -> 0..MaxVersion]
  PROVE  FullList(s) \in News
<1> DEFINE S == {y \in Watched : s.belief[y] > 0}
<1>1. S \in SUBSET Watched
  OBVIOUS
<1>2. \A x \in S : [version |-> s.belief[x], src |-> None] \in NewsItem
  BY DisseminationAssumption DEF NewsItem, Origins
<1>3. FullList(s) = [x \in S |-> [version |-> s.belief[x], src |-> None]]
  BY DEF FullList
<1> HIDE DEF S
<1>4. FullList(s) \in [S -> NewsItem]
  BY <1>2, <1>3
<1> QED
  BY <1>1, <1>4, ThatIsNews

(* So is what a node answers to a ping. *)
LEMMA ReplyIs ==
  ASSUME NEW s, NodeOK(s), NEW c
  PROVE  Reply(s, c) \in News
BY IssuedIs, FullListIs DEF Reply, NodeOK, NodeState

(* A node that has answered forgets only what was told often enough. *)
LEMMA IssuerIs ==
  ASSUME NEW s, NodeOK(s), NEW c
  PROVE  LET e == Issuer(s, c) IN
         /\ NodeOK(e) /\ e.ready = s.ready /\ e.inc = s.inc
         /\ Forgets(s, e)
<1> DEFINE from == <<c.from, c.inc>>
           news == Issued(s, from)
           d == Drop(s, from)
           e == Bump(d, news)
<1>1. Issuer(s, c) = e /\ news \in News
  BY IssuedIs DEF Issuer
<1>2. /\ NodeOK(d) /\ d.ready = s.ready /\ d.inc = s.inc /\ d.limit = s.limit
      /\ Forgets(s, d)
  BY DropIs
<1> HIDE DEF news, d, from
<1>3. /\ NodeOK(e) /\ e.ready = d.ready /\ e.inc = d.inc /\ e.limit = d.limit
      /\ \A x \in Watched : /\ e.pending[x] = None <=> d.pending[x] = None
                            /\ e.told[x] \in Nat /\ d.told[x] \in Nat
                            /\ e.told[x] >= d.told[x] \/ e.told[x] >= MostTold
  BY <1>1, <1>2, BumpIs
<1> HIDE DEF e
<1>4. d.limit \in Nat /\ d.limit <= MostTold /\ MostTold \in Nat
  BY <1>2, LimitIs DEF NodeOK, NodeState
<1>5. ASSUME NEW x \in Watched, s.pending[x] # None, e.pending[x] = None, e.ready
      PROVE  e.told[x] >= e.limit
  <2>1. d.told[x] >= d.limit
    BY <1>2, <1>3, <1>5 DEF Forgets
  <2> QED
    BY <1>3, <1>4, <2>1
<1> QED
  BY <1>1, <1>2, <1>3, <1>5 DEF Forgets

(* A node that starts, and one that is given a list. *)
LEMMA NewNodeIs ==
  ASSUME NEW inc \in Nat
  PROVE  LET e == NewNode(inc) IN
         NodeOK(e) /\ e.ready = FALSE /\ e.inc = inc
<1> DEFINE e == NewNode(inc)
<1>1. 0 \in 0..MaxVersion /\ MostTold \in Nat \ {0} /\ 1 <= MostTold
  BY DisseminationAssumption, LimitIs
<1>2. e = [ready |-> FALSE, inc |-> inc, belief |-> [x \in Watched |-> 0],
           pending |-> [x \in Watched |-> None], told |-> [x \in Watched |-> 0], limit |-> 1]
  BY DEF NewNode
<1>3. e \in NodeState /\ e.ready = FALSE /\ e.inc = inc /\ e.limit = 1
      /\ e.pending = [x \in Watched |-> None]
  BY <1>1, <1>2 DEF NodeState, Pending
<1> HIDE DEF e
<1> QED
  BY <1>1, <1>3 DEF NodeOK, e

(* A node that has joined is sound: it has no change to tell yet. *)
LEMMA BootedIs ==
  ASSUME NEW s, NodeOK(s), ~s.ready, NEW b \in [Watched -> 0..MaxVersion]
  PROVE  LET e == Booted(s, b) IN
         NodeOK(e) /\ e.ready = TRUE /\ e.inc = s.inc /\ e.pending = s.pending
<1> DEFINE lim == LimitOf(b)
           e == [s EXCEPT !.ready = TRUE, !.belief = b, !.limit = lim]
<1>1. Booted(s, b) = e
  BY DEF Booted
<1>2. s \in NodeState /\ lim \in Nat \ {0} /\ lim <= MostTold
  BY LimitIs DEF NodeOK
<1> HIDE DEF lim
<1>3. /\ e \in NodeState /\ e.ready = TRUE /\ e.inc = s.inc /\ e.pending = s.pending
      /\ e.limit = lim
  BY <1>2 DEF NodeState
<1> HIDE DEF e
<1>4. \A x \in Watched : s.pending[x] = None
  BY DEF NodeOK
<1> QED
  BY <1>1, <1>2, <1>3, <1>4 DEF NodeOK

----------------------------------------------------------------------------
Sums == UNION {[S -> 0..MaxVersion] : S \in SUBSET Watched}
CallType ==
  [kind : {"ping", "ping-req"}, from : Node, to : Node, target : Node,
   for : Node \cup {None}, news : News, inc : Nat, sum : Sums,
   stage : {"sent", "relayed", "answered", "failed"}, open : BOOLEAN, reply : News]
SyncType ==
  [node : Node, slot : 1..MaxSyncs, target : Node, stage : {"asked", "answered", "failed"},
   list : News]

(* Nobody asks itself, nor another one about that one; what a node asked   *)
(* before it died is only answered by pings that are under way.            *)
CallOK(c) ==
  /\ c \in CallType /\ c.from # c.to
  /\ c.kind = "ping-req" => c.target # c.to
Silent(c) == c.stage = "relayed" /\ ~c.open
SyncsOf(n) == {y \in syncs : y.node = n}

NodesInv ==
  /\ events \in 0..MaxEvents
  /\ node \in [Node -> NodeState]
  /\ \A n \in Node : NodeOK(node[n]) /\ node[n].inc <= events
CallsInv ==
  \A c \in calls : CallOK(c) /\ (~node[c.from].ready => Silent(c))
SyncsInv ==
  /\ jobs \in [Node -> 0..MaxSyncs]
  /\ \A y \in syncs : y \in SyncType /\ node[y.node].ready
  /\ \A y, z \in syncs : y.node = z.node /\ y.slot = z.slot => y = z
  /\ \A n \in Node : IsFiniteSet(SyncsOf(n)) /\ jobs[n] = Cardinality(SyncsOf(n))
DissInv == NodesInv /\ CallsInv /\ SyncsInv

(* What a step lets a node forget was told often enough. *)
WhenTold ==
  \A n \in Node : \A x \in Watched :
    (node[n].pending[x] # None /\ node'[n].pending[x] = None /\ node'[n].ready)
      => node'[n].told[x] >= node'[n].limit

(* One node goes on. *)
LEMMA OneNode ==
  ASSUME NodesInv, NEW n \in Node, NEW e, NodeOK(e), e.inc <= events',
         node' = [node EXCEPT ![n] = e], events' \in events..MaxEvents,
         Forgets(node[n], e)
  PROVE  /\ NodesInv' /\ WhenTold
         /\ node'[n] = e /\ \A m \in Node : m # n => node'[m] = node[m]
<1>1. e \in NodeState /\ node \in [Node -> NodeState]
  BY DEF NodeOK, NodesInv
<1>2. node' \in [Node -> NodeState] /\ node'[n] = e /\ \A m \in Node : m # n => node'[m] = node[m]
  BY <1>1
<1>3. events \in Nat /\ events' \in 0..MaxEvents /\ events <= events'
  BY DisseminationAssumption DEF NodesInv
<1>4. ASSUME NEW m \in Node PROVE NodeOK(node'[m]) /\ node'[m].inc <= events'
  <2>1. CASE m = n
    BY <1>2, <2>1
  <2>2. CASE m # n
    <3>1. NodeOK(node[m]) /\ node[m].inc <= events /\ node[m].inc \in Nat
      BY <1>1 DEF NodesInv, NodeState
    <3> QED
      BY <1>2, <1>3, <2>2, <3>1
  <2> QED
    BY <2>1, <2>2
<1>5. NodesInv'
  <2>1. \A m \in Node : NodeOK(node[m])'
    BY <1>4 DEF NodeOK, NodeState, Pending, Origins, MostTold
  <2> QED
    BY <1>2, <1>3, <1>4, <2>1 DEF NodesInv, NodeState, Pending, Origins
<1>6. WhenTold
  <2> SUFFICES ASSUME NEW m \in Node, NEW x \in Watched, node[m].pending[x] # None,
                      node'[m].pending[x] = None, node'[m].ready
               PROVE  node'[m].told[x] >= node'[m].limit
    BY DEF WhenTold
  <2>1. m = n
    BY <1>2
  <2> QED
    BY <1>2, <2>1 DEF Forgets
<1> QED
  BY <1>2, <1>5, <1>6

(* Nothing is forgotten by a node that is as it was. *)
LEMMA SameNode ==
  ASSUME NodesInv, UNCHANGED node, events' \in events..MaxEvents
  PROVE  NodesInv' /\ WhenTold
<1>1. events \in Nat /\ events' \in 0..MaxEvents /\ events <= events'
  BY DisseminationAssumption DEF NodesInv
<1>2. \A n \in Node : node[n].inc \in Nat /\ node[n].inc <= events
  BY DEF NodesInv, NodeState
<1>3. \A n \in Node : node[n].inc <= events'
  BY <1>1, <1>2
<1>4. \A n \in Node : NodeOK(node[n])'
  BY DEF NodesInv, NodeOK, NodeState, Pending, Origins, MostTold
<1> QED
  BY <1>1, <1>3, <1>4 DEF NodesInv, WhenTold, NodeState, Pending, Origins

(* A request is one of a node that runs, as long as nobody restarts. *)
LEMMA CallsKeep ==
  ASSUME CallsInv, \A c \in calls' : CallOK(c) /\ (c \in calls \/ node[c.from].ready),
         \A m \in Node : node[m].ready => node'[m].ready
  PROVE  CallsInv'
<1>1. \A c \in calls' : CallOK(c)'
  BY DEF CallOK, CallType, News, Origins, Sums
<1>2. ASSUME NEW c \in calls', ~node'[c.from].ready PROVE Silent(c)
  <2>1. c.from \in Node
    BY DEF CallOK, CallType
  <2>2. c \in calls /\ ~node[c.from].ready
    BY <1>2, <2>1
  <2> QED
    BY <2>2 DEF CallsInv
<1> QED
  BY <1>1, <1>2 DEF CallsInv, Silent

(* What a request carries of its node. *)
LEMMA CarriedIs ==
  ASSUME NEW s, NodeOK(s)
  PROVE  /\ Issued(s, None) \in News /\ Nothing \in News
         /\ s.inc \in Nat /\ Checksum(s.belief) \in Sums
<1> DEFINE S == {y \in Watched : Status(s.belief[y]) \in {"alive", "faulty"}}
<1>1. Issued(s, None) \in News /\ Nothing \in News
  BY IssuedIs, NothingIsNews
<1>2. s.inc \in Nat /\ s.belief \in [Watched -> 0..MaxVersion]
  BY DEF NodeOK, NodeState
<1>3. S \in SUBSET Watched /\ Checksum(s.belief) = [x \in S |-> s.belief[x]]
  BY DEF Checksum
<1> HIDE DEF S
<1>4. Checksum(s.belief) \in [S -> 0..MaxVersion]
  BY <1>2, <1>3
<1> QED
  BY <1>1, <1>2, <1>3, <1>4 DEF Sums

(* A ping is a sound call from the node that sends it. *)
LEMMA PingIs ==
  ASSUME NEW from \in Node, NEW to \in Node, NEW for \in Node \cup {None},
         NEW s, NodeOK(s), from # to
  PROVE  LET c == Request("ping", from, to, to, for, s) IN
         CallOK(c) /\ c.from = from
BY CarriedIs DEF Request, CallOK, CallType

(* And so is a ping-req. *)
LEMMA PingReqIs ==
  ASSUME NEW from \in Node, NEW to \in Node, NEW target \in Node, NEW s, NodeOK(s),
         from # to, target # to
  PROVE  LET c == Request("ping-req", from, to, target, None, s) IN
         CallOK(c) /\ c.from = from
BY CarriedIs DEF Request, CallOK, CallType

(* On its way a call stays sound and keeps its sender. *)
LEMMA CallChanges ==
  ASSUME NEW c, CallOK(c), NEW st \in {"sent", "relayed", "answered", "failed"},
         NEW rep \in News
  PROVE  /\ CallOK([c EXCEPT !.stage = st]) /\ [c EXCEPT !.stage = st].from = c.from
         /\ CallOK([c EXCEPT !.open = FALSE]) /\ [c EXCEPT !.open = FALSE].from = c.from
         /\ [c EXCEPT !.open = FALSE].stage = c.stage /\ [c EXCEPT !.open = FALSE].open = FALSE
         /\ CallOK([c EXCEPT !.stage = st, !.reply = rep])
         /\ [c EXCEPT !.stage = st, !.reply = rep].from = c.from
<1>1. c \in CallType
  BY DEF CallOK
<1> DEFINE d == [c EXCEPT !.stage = st]
           e == [c EXCEPT !.open = FALSE]
           f == [c EXCEPT !.stage = st, !.reply = rep]
<1>2. d \in CallType /\ d.from = c.from /\ d.to = c.to /\ d.kind = c.kind /\ d.target = c.target
  BY <1>1 DEF CallType
<1>3. e \in CallType /\ e.from = c.from /\ e.to = c.to /\ e.kind = c.kind /\ e.target = c.target
      /\ e.stage = c.stage /\ e.open = FALSE
  BY <1>1 DEF CallType
<1>4. f \in CallType /\ f.from = c.from /\ f.to = c.to /\ f.kind = c.kind /\ f.target = c.target
  BY <1>1 DEF CallType
<1> HIDE DEF d, e, f
<1>5. CallOK(d) /\ CallOK(e) /\ CallOK(f)
  BY <1>2, <1>3, <1>4 DEF CallOK
<1> QED
  BY <1>2, <1>3, <1>4, <1>5 DEF d, e, f

(* An answer or a failure goes to a node that runs. *)
LEMMA FromRuns ==
  ASSUME CallsInv, NEW c \in calls, c.stage # "relayed" \/ c.open
  PROVE  CallOK(c) /\ c \in CallType /\ c.from \in Node /\ c.to \in Node /\ node[c.from].ready
BY DEF CallsInv, CallOK, CallType, Silent

----------------------------------------------------------------------------
(* The syncs of a node in terms of the syncs after a step. *)
LEMMA SyncsBecome ==
  ASSUME jobs' \in [Node -> 0..MaxSyncs],
         \A y \in syncs' : y \in SyncType /\ node'[y.node].ready,
         \A y, z \in syncs' : y.node = z.node /\ y.slot = z.slot => y = z,
         \A n \in Node : /\ IsFiniteSet({y \in syncs' : y.node = n})
                         /\ jobs'[n] = Cardinality({y \in syncs' : y.node = n})
  PROVE  SyncsInv'
<1>1. \A y \in syncs' : y \in SyncType'
  BY DEF SyncType, News, Origins
<1>2. \A n \in Node : SyncsOf(n)' = {y \in syncs' : y.node = n}
  BY DEF SyncsOf
<1> QED
  BY <1>1, <1>2 DEF SyncsInv

(* Syncs are as before while no node that runs one stops. *)
LEMMA SyncsSame ==
  ASSUME SyncsInv, UNCHANGED <<syncs, jobs>>, \A m \in Node : node[m].ready => node'[m].ready
  PROVE  SyncsInv'
<1>1. \A y \in syncs' : y \in SyncType /\ node'[y.node].ready
  BY DEF SyncsInv, SyncType
<1>2. \A n \in Node : /\ IsFiniteSet({y \in syncs' : y.node = n})
                      /\ jobs'[n] = Cardinality({y \in syncs' : y.node = n})
  BY DEF SyncsInv, SyncsOf
<1> QED
  BY <1>1, <1>2, SyncsBecome DEF SyncsInv

(* Fewer jobs than slots leave a slot free. *)
LEMMA FreeSlotIs ==
  ASSUME SyncsInv, NEW n \in Node, jobs[n] < MaxSyncs
  PROVE  /\ FreeSlot(n) \in 1..MaxSyncs
         /\ \A y \in syncs : y.node = n => y.slot # FreeSlot(n)
<1> DEFINE F == {k \in 1..MaxSyncs : \A y \in syncs : y.node = n => y.slot # k}
           S == SyncsOf(n)
<1>1. MaxSyncs \in Nat \ {0} /\ F \in SUBSET Nat
  BY DisseminationAssumption
<1>2. F # {}
  <2> SUFFICES ASSUME F = {} PROVE FALSE
    OBVIOUS
  <2> DEFINE g == [k \in 1..MaxSyncs |-> CHOOSE y \in S : y.slot = k]
  <2>1. ASSUME NEW k \in 1..MaxSyncs PROVE \E y \in S : y.slot = k
    BY <2>1 DEF SyncsOf
  <2>2. \A k \in 1..MaxSyncs : g[k] \in S /\ g[k].slot = k
    BY <2>1
  <2> HIDE DEF S
  <2>3. g \in [1..MaxSyncs -> S]
    BY <2>2
  <2>4. IsFiniteSet(1..MaxSyncs) /\ Cardinality(1..MaxSyncs) = MaxSyncs
    BY <1>1, FS_Interval
  <2>5. IsFiniteSet(S) /\ Cardinality(S) < MaxSyncs
    BY DEF SyncsInv, S
  <2> HIDE DEF g
  <2> DEFINE K == 1..MaxSyncs
  <2>6. \E j, k \in K : j # k /\ g[j] = g[k]
    <3>1. Cardinality(S) < Cardinality(K) /\ IsFiniteSet(K) /\ g \in [K -> S]
      BY <2>3, <2>4, <2>5
    <3> HIDE DEF K
    <3> QED
      BY <2>5, <3>1, FS_PigeonHole
  <2> QED
    BY <2>2, <2>6
<1>3. FreeSlot(n) = Min(F)
  BY DEF FreeSlot
<1>4. \E m \in F : \A y \in F : m <= y
  <2> HIDE DEF F
  <2>1. PICK m \in F : \A y \in F : ~(<<y, m>> \in OpToRel(<, Nat))
    BY <1>1, <1>2, NatLessThanWellFounded, WFMin
  <2>2. ASSUME NEW y \in F PROVE m <= y
    <3>1. m \in Nat /\ y \in Nat
      BY <1>1
    <3>2. ~(<<y, m>> \in {ss \in Nat \X Nat : ss[1] < ss[2]})
      BY <2>1 DEF OpToRel
    <3>3. ~(y < m)
      BY <3>1, <3>2
    <3> QED
      BY <3>1, <3>3
  <2> QED
    BY <2>2
<1>5. FreeSlot(n) \in F
  BY <1>3, <1>4 DEF Min
<1> QED
  BY <1>5

(* A sync that starts takes a free slot and a job; with no job left, none  *)
(* starts.                                                                 *)
LEMMA SyncKeeps ==
  ASSUME SyncsInv, NEW n \in Node, NEW target \in Node, Sync(n, target), node[n].ready,
         \A m \in Node : node[m].ready => node'[m].ready
  PROVE  SyncsInv'
<1>1. CASE jobs[n] >= MaxSyncs
  BY <1>1, SyncsSame DEF Sync
<1>2. CASE ~(jobs[n] >= MaxSyncs)
  <2> DEFINE k == FreeSlot(n)
             r == [node |-> n, slot |-> k, target |-> target,
                   stage |-> "asked", list |-> Nothing]
  <2>1. jobs[n] \in 0..MaxSyncs /\ MaxSyncs \in Nat /\ jobs \in [Node -> 0..MaxSyncs]
    BY DisseminationAssumption DEF SyncsInv
  <2>2. jobs[n] < MaxSyncs
    BY <1>2, <2>1
  <2>3. k \in 1..MaxSyncs /\ \A y \in syncs : y.node = n => y.slot # k
    BY <2>2, FreeSlotIs
  <2>4. syncs' = syncs \cup {r} /\ jobs' = [jobs EXCEPT ![n] = @ + 1]
    BY <1>2 DEF Sync
  <2> HIDE DEF k
  <2>5. r \in SyncType /\ r.node = n /\ r.slot = k
    BY <2>3, NothingIsNews DEF SyncType
  <2> HIDE DEF r
  <2>6. r \notin syncs
    BY <2>3, <2>5
  <2>7. jobs' \in [Node -> 0..MaxSyncs]
    BY <2>1, <2>2, <2>4
  <2>8. \A y \in syncs' : y \in SyncType /\ node'[y.node].ready
    BY <2>4, <2>5 DEF SyncsInv, SyncType
  <2>9. \A y, z \in syncs' : y.node = z.node /\ y.slot = z.slot => y = z
    BY <2>3, <2>4, <2>5 DEF SyncsInv
  <2>10. ASSUME NEW m \in Node
         PROVE  /\ IsFiniteSet({y \in syncs' : y.node = m})
                /\ jobs'[m] = Cardinality({y \in syncs' : y.node = m})
    <3>1. IsFiniteSet(SyncsOf(m)) /\ jobs[m] = Cardinality(SyncsOf(m))
      BY DEF SyncsInv
    <3>2. CASE m = n
      <4>1. {y \in syncs' : y.node = m} = SyncsOf(m) \cup {r}
        BY <2>4, <2>5, <3>2 DEF SyncsOf
      <4>2. r \notin SyncsOf(m)
        BY <2>6 DEF SyncsOf
      <4>3. jobs'[m] = jobs[m] + 1
        BY <2>1, <2>4, <3>2
      <4>4. /\ IsFiniteSet(SyncsOf(m) \cup {r})
            /\ Cardinality(SyncsOf(m) \cup {r}) = Cardinality(SyncsOf(m)) + 1
        BY <3>1, <4>2, FS_AddElement
      <4> QED
        BY <3>1, <4>1, <4>3, <4>4
    <3>3. CASE m # n
      <4>1. {y \in syncs' : y.node = m} = SyncsOf(m)
        BY <2>4, <2>5, <3>3 DEF SyncsOf
      <4>2. jobs'[m] = jobs[m]
        BY <2>1, <2>4, <3>3
      <4> QED
        BY <3>1, <4>1, <4>2
    <3> QED
      BY <3>2, <3>3
  <2> QED
    BY <2>7, <2>8, <2>9, <2>10, SyncsBecome
<1> QED
  BY <1>1, <1>2

(* A sync goes on in its slot. *)
LEMMA SyncChanges ==
  ASSUME SyncsInv, NEW y \in syncs, NEW z \in SyncType, z.node = y.node, z.slot = y.slot,
         syncs' = (syncs \ {y}) \cup {z}, UNCHANGED <<node, jobs>>
  PROVE  SyncsInv'
<1>1. \A x \in syncs' : x \in SyncType /\ node'[x.node].ready
  BY DEF SyncsInv
<1>2. \A v, w \in syncs' : v.node = w.node /\ v.slot = w.slot => v = w
  BY DEF SyncsInv
<1>3. ASSUME NEW m \in Node
      PROVE  /\ IsFiniteSet({v \in syncs' : v.node = m})
             /\ jobs'[m] = Cardinality({v \in syncs' : v.node = m})
  <2>1. IsFiniteSet(SyncsOf(m)) /\ jobs[m] = Cardinality(SyncsOf(m))
    BY DEF SyncsInv
  <2>2. CASE m = y.node
    <3>1. {v \in syncs' : v.node = m} = (SyncsOf(m) \ {y}) \cup {z}
      BY <2>2 DEF SyncsOf
    <3>2. y \in SyncsOf(m)
      BY <2>2 DEF SyncsOf
    <3>3. z \notin SyncsOf(m) \ {y}
      BY DEF SyncsInv, SyncsOf
    <3>4. IsFiniteSet(SyncsOf(m) \ {y}) /\ Cardinality(SyncsOf(m) \ {y}) = jobs[m] - 1
      BY <2>1, <3>2, FS_RemoveElement
    <3>5. Cardinality((SyncsOf(m) \ {y}) \cup {z}) = jobs[m] - 1 + 1
          /\ IsFiniteSet((SyncsOf(m) \ {y}) \cup {z})
      BY <3>3, <3>4, FS_AddElement
    <3>6. jobs[m] \in Nat
      BY <2>1, FS_CardinalityType
    <3>7. jobs[m] - 1 + 1 = jobs[m]
      BY <3>6
    <3> QED
      BY <3>1, <3>5, <3>7
  <2>3. CASE m # y.node
    <3>1. {v \in syncs' : v.node = m} = SyncsOf(m)
      BY <2>3 DEF SyncsOf
    <3> QED
      BY <2>1, <3>1
  <2> QED
    BY <2>2, <2>3
<1> QED
  BY <1>1, <1>2, <1>3, SyncsBecome DEF SyncsInv

(* A sync that ends gives its job back. *)
LEMMA SyncEnds ==
  ASSUME SyncsInv, NEW y \in syncs, syncs' = syncs \ {y},
         jobs' = [jobs EXCEPT ![y.node] = @ - 1],
         \A m \in Node : node[m].ready => node'[m].ready
  PROVE  SyncsInv'
<1>1. \A x \in syncs' : x \in SyncType /\ node'[x.node].ready
  BY DEF SyncsInv, SyncType
<1>2. \A v, w \in syncs' : v.node = w.node /\ v.slot = w.slot => v = w
  BY DEF SyncsInv
<1>3. y.node \in Node /\ jobs \in [Node -> 0..MaxSyncs] /\ MaxSyncs \in Nat
  BY DisseminationAssumption DEF SyncsInv, SyncType
<1>4. ASSUME NEW m \in Node
      PROVE  /\ IsFiniteSet({v \in syncs' : v.node = m})
             /\ jobs'[m] = Cardinality({v \in syncs' : v.node = m})
             /\ jobs'[m] \in 0..MaxSyncs
  <2>1. IsFiniteSet(SyncsOf(m)) /\ jobs[m] = Cardinality(SyncsOf(m)) /\ jobs[m] \in 0..MaxSyncs
    BY <1>3 DEF SyncsInv
  <2>2. CASE m = y.node
    <3>1. {v \in syncs' : v.node = m} = SyncsOf(m) \ {y}
      BY <2>2 DEF SyncsOf
    <3>2. y \in SyncsOf(m)
      BY <2>2 DEF SyncsOf
    <3>3. IsFiniteSet(SyncsOf(m) \ {y}) /\ Cardinality(SyncsOf(m) \ {y}) = jobs[m] - 1
      BY <2>1, <3>2, FS_RemoveElement
    <3>4. jobs'[m] = jobs[m] - 1
      BY <1>3, <2>2
    <3>5. jobs[m] - 1 \in Nat
      BY <3>3, FS_CardinalityType
    <3>6. jobs[m] - 1 \in 0..MaxSyncs
      BY <1>3, <2>1, <3>5
    <3> QED
      BY <3>1, <3>3, <3>4, <3>6
  <2>3. CASE m # y.node
    <3>1. {v \in syncs' : v.node = m} = SyncsOf(m)
      BY <2>3 DEF SyncsOf
    <3>2. jobs'[m] = jobs[m]
      BY <1>3, <2>3
    <3> QED
      BY <2>1, <3>1, <3>2
  <2> QED
    BY <2>2, <2>3
<1>5. jobs' \in [Node -> 0..MaxSyncs]
  BY <1>3, <1>4
<1> QED
  BY <1>1, <1>2, <1>4, <1>5, SyncsBecome

----------------------------------------------------------------------------
(* The node of a call goes on after it took or counted what was told.      *)
LEMMA AfterKeeps ==
  ASSUME DissInv, NEW c \in calls, c.stage \in {"answered", "failed"},
         NEW s, NodeOK(s), s.ready = node[c.from].ready, s.inc = node[c.from].inc,
         Retains(node[c.from], s), NEW failed, After(c, s, failed),
         UNCHANGED <<syncs, jobs, events>>
  PROVE  DissInv' /\ WhenTold
<1> DEFINE n == c.from
<1>1. CallOK(c) /\ c \in CallType /\ n \in Node /\ c.to \in Node /\ node[n].ready
  BY FromRuns DEF DissInv
<1>2. events \in 0..MaxEvents /\ events' = events /\ node[n].inc <= events /\ MaxEvents \in Nat
  BY <1>1, DisseminationAssumption DEF DissInv, NodesInv
<1>3. events' \in events..MaxEvents /\ s.inc <= events'
  BY <1>2
<1>4. Forgets(s, s)
  BY DEF Forgets
<1>5. ASSUME NEW e, NodeOK(e), e.ready = s.ready, e.inc = s.inc, Forgets(s, e),
             node' = [node EXCEPT ![n] = e],
             \A d \in calls' : CallOK(d) /\ (d \in calls \/ node[d.from].ready)
      PROVE  DissInv' /\ WhenTold
  <2>1. Forgets(node[n], e)
    BY <1>5, RetainsForgets
  <2>2. /\ NodesInv' /\ WhenTold
        /\ node'[n] = e /\ \A m \in Node : m # n => node'[m] = node[m]
    BY <1>1, <1>3, <1>5, <2>1, OneNode DEF DissInv
  <2>3. \A m \in Node : node[m].ready => node'[m].ready
    BY <1>5, <2>2
  <2>4. CallsInv'
    BY <1>5, <2>3, CallsKeep DEF DissInv
  <2>5. SyncsInv'
    BY <2>3, SyncsSame DEF DissInv
  <2> QED
    BY <2>2, <2>4, <2>5 DEF DissInv
<1>6. CASE c.for # None
  <2>1. PICK r \in Relayed(c) :
          /\ node' = [node EXCEPT ![n] = Issuer(s, r)]
          /\ calls' = (calls \ {c, r}) \cup Answered(s, r)
    BY <1>6 DEF After
  <2>2. r \in calls /\ CallOK(r)
    BY DEF Relayed, DissInv, CallsInv
  <2>3. ASSUME NEW d \in calls' PROVE CallOK(d) /\ (d \in calls \/ node[d.from].ready)
    <3>1. CASE d \in calls
      BY <3>1 DEF DissInv, CallsInv
    <3>2. CASE d \notin calls
      <4>1. r.open /\ d = [r EXCEPT !.stage = "answered", !.reply = Reply(s, r)]
        BY <2>1, <2>3, <3>2 DEF Answered
      <4>2. node[r.from].ready
        BY <2>2, <4>1, FromRuns DEF DissInv
      <4>3. Reply(s, r) \in News
        BY ReplyIs
      <4>4. CallOK(d) /\ d.from = r.from
        BY <2>2, <4>1, <4>3, CallChanges
      <4> QED
        BY <4>2, <4>4
    <3> QED
      BY <3>1, <3>2
  <2> DEFINE e == Issuer(s, r)
  <2>4. NodeOK(e) /\ e.ready = s.ready /\ e.inc = s.inc /\ Forgets(s, e)
    BY IssuerIs
  <2>5. node' = [node EXCEPT ![n] = e]
    BY <2>1
  <2> HIDE DEF e
  <2> QED
    BY <1>5, <2>3, <2>4, <2>5
<1>7. CASE c.for = None /\ failed /\ c.kind = "ping"
  <2>1. PICK helpers \in kSubset(Min({PingReqSize, Cardinality(Node) - 2}), Node \ {c.from, c.to}) :
          /\ node' = [node EXCEPT ![n] = IF helpers = {} THEN s ELSE Drop(s, None)]
          /\ calls' = (calls \ {c})
                        \cup {Request("ping-req", c.from, h, c.to, None, s) : h \in helpers}
    BY <1>7 DEF After
  <2>2. helpers \in SUBSET (Node \ {c.from, c.to})
    BY DEF kSubset
  <2>3. ASSUME NEW d \in calls' PROVE CallOK(d) /\ (d \in calls \/ node[d.from].ready)
    <3>1. CASE d \in calls
      BY <3>1 DEF DissInv, CallsInv
    <3>2. CASE d \notin calls
      <4>1. PICK h \in helpers : d = Request("ping-req", c.from, h, c.to, None, s)
        BY <2>1, <2>3, <3>2
      <4>2. h \in Node /\ n # h /\ c.to # h
        BY <2>2, <4>1
      <4>3. LET q == Request("ping-req", c.from, h, c.to, None, s) IN CallOK(q) /\ q.from = c.from
        BY <1>1, <4>2, PingReqIs
      <4>4. CallOK(d) /\ d.from = c.from
        BY <4>1, <4>3
      <4> QED
        BY <1>1, <4>4
    <3> QED
      BY <3>1, <3>2
  <2> DEFINE e == IF helpers = {} THEN s ELSE Drop(s, None)
  <2>4. NodeOK(e) /\ e.ready = s.ready /\ e.inc = s.inc /\ Forgets(s, e)
    BY <1>4, DropIs
  <2>5. node' = [node EXCEPT ![n] = e]
    BY <2>1
  <2> HIDE DEF e
  <2> QED
    BY <1>5, <2>3, <2>4, <2>5
<1>8. CASE c.for = None /\ ~(failed /\ c.kind = "ping")
  <2>1. node' = [node EXCEPT ![n] = s] /\ calls' = calls \ {c}
    BY <1>8 DEF After
  <2>2. \A d \in calls' : CallOK(d) /\ (d \in calls \/ node[d.from].ready)
    BY <2>1 DEF DissInv, CallsInv
  <2> QED
    BY <1>4, <1>5, <2>1, <2>2
<1> QED
  BY <1>6, <1>7, <1>8

(* An answer that arrives is learnt, and what the call told is counted. *)
LEMMA DeliverKeeps ==
  ASSUME DissInv, NEW c \in calls, Deliver(c)
  PROVE  DissInv' /\ WhenTold
<1> DEFINE n == c.from
           s == node[n]
<1>1. c.stage = "answered" /\ UNCHANGED <<syncs, jobs, events>>
  BY DEF Deliver
<1>2. c \in CallType /\ n \in Node /\ s.ready /\ NodeOK(s)
  BY <1>1, FromRuns DEF DissInv, NodesInv
<1>3. c.news \in News /\ c.reply \in News
  BY <1>2 DEF CallType
<1>4. CASE c.kind = "ping"
  <2> DEFINE b == Bump(s, c.news)
             e == Learn(b, c.reply)
  <2>1. After(c, e, FALSE)
    BY <1>4 DEF Deliver
  <2>2. NodeOK(b) /\ b.ready = s.ready /\ b.inc = s.inc /\ Retains(s, b)
    BY <1>2, <1>3, BumpRetains
  <2> HIDE DEF b
  <2>3. NodeOK(e) /\ e.ready = b.ready /\ e.inc = b.inc /\ Retains(b, e)
    BY <1>2, <1>3, <2>2, LearnIs
  <2> HIDE DEF e
  <2>4. Retains(s, e)
    BY <2>2, <2>3 DEF Retains
  <2> QED
    BY <1>1, <2>1, <2>2, <2>3, <2>4, AfterKeeps
<1>5. CASE c.kind # "ping"
  <2> DEFINE b == Learn(s, c.reply)
             e == Bump(b, c.news)
  <2>1. After(c, e, FALSE)
    BY <1>5 DEF Deliver
  <2>2. NodeOK(b) /\ b.ready = s.ready /\ b.inc = s.inc /\ Retains(s, b)
    BY <1>2, <1>3, LearnIs
  <2> HIDE DEF b
  <2>3. NodeOK(e) /\ e.ready = b.ready /\ e.inc = b.inc /\ Retains(b, e)
    BY <1>3, <2>2, BumpRetains
  <2> HIDE DEF e
  <2>4. Retains(s, e)
    BY <2>2, <2>3 DEF Retains
  <2> QED
    BY <1>1, <2>1, <2>2, <2>3, <2>4, AfterKeeps
<1> QED
  BY <1>4, <1>5

(* A call that fails counts what it told as well. *)
LEMMA FailKeeps ==
  ASSUME DissInv, NEW c \in calls, Fail(c)
  PROVE  DissInv' /\ WhenTold
<1> DEFINE s == node[c.from]
<1>1. c.stage = "failed" /\ After(c, s, TRUE) /\ UNCHANGED <<syncs, jobs, events>>
  BY DEF Fail
<1>2. NodeOK(s) /\ Retains(s, s)
  BY <1>1, FromRuns DEF DissInv, NodesInv, Retains
<1> QED
  BY <1>1, <1>2, AfterKeeps

(* One node goes on while no sync does. *)
LEMMA NodeGoesOn ==
  ASSUME DissInv, NEW n \in Node, NEW e, NodeOK(e), e.inc = node[n].inc,
         node[n].ready => e.ready, Forgets(node[n], e), node' = [node EXCEPT ![n] = e],
         events' \in events..MaxEvents,
         \A c \in calls' : CallOK(c) /\ (c \in calls \/ node[c.from].ready)
  PROVE  /\ NodesInv' /\ CallsInv' /\ WhenTold
         /\ \A m \in Node : node[m].ready => node'[m].ready
<1>1. events \in Nat /\ events <= events' /\ events' \in Nat
  BY DisseminationAssumption DEF DissInv, NodesInv
<1>2. node[n].inc <= events /\ node[n].inc \in Nat
  BY DEF DissInv, NodesInv, NodeState
<1>3. e.inc <= events'
  BY <1>1, <1>2
<1>4. /\ NodesInv' /\ WhenTold
      /\ node'[n] = e /\ \A m \in Node : m # n => node'[m] = node[m]
  BY <1>3, OneNode DEF DissInv
<1>5. \A m \in Node : node[m].ready => node'[m].ready
  BY <1>4
<1> QED
  BY <1>4, <1>5, CallsKeep DEF DissInv

(* A node that finds a change itself has it to tell. *)
LEMMA DeclareKeeps ==
  ASSUME DissInv, NEW n \in Node, NEW x \in Watched, Declare(n, x)
  PROVE  DissInv' /\ WhenTold
<1> DEFINE s == node[n]
           news == [y \in {x} |-> [version |-> s.belief[x] + 1, src |-> <<n, s.inc>>]]
           e == Learn(s, news)
<1>1. /\ s.ready /\ s.belief[x] < MaxVersion /\ events < MaxEvents /\ events' = events + 1
      /\ UNCHANGED <<calls, syncs, jobs>>
  BY DEF Declare
<1>2. NodeOK(s) /\ node \in [Node -> NodeState] /\ events \in 0..MaxEvents /\ s.inc <= events
      /\ MaxEvents \in Nat /\ MaxVersion \in Nat
  BY DisseminationAssumption DEF DissInv, NodesInv
<1>3. node' = [node EXCEPT ![n] = e]
  BY <1>2 DEF Declare
<1>4. news \in News
  <2>1. s.belief[x] \in 0..MaxVersion /\ s.inc \in Nat
    BY <1>2 DEF NodeOK, NodeState
  <2>2. s.belief[x] + 1 \in 1..MaxVersion
    BY <1>1, <1>2, <2>1
  <2>3. <<n, s.inc>> \in Origins
    BY <1>2, <2>1 DEF Origins
  <2>4. [version |-> s.belief[x] + 1, src |-> <<n, s.inc>>] \in NewsItem
    BY <2>2, <2>3 DEF NewsItem
  <2>5. news \in [{x} -> NewsItem] /\ {x} \in SUBSET Watched
    BY <2>4
  <2> HIDE DEF news
  <2> QED
    BY <2>5, ThatIsNews
<1> HIDE DEF news
<1>5. NodeOK(e) /\ e.ready = s.ready /\ e.inc = s.inc /\ Retains(s, e)
  BY <1>1, <1>2, <1>4, LearnIs
<1> HIDE DEF e
<1>6. Forgets(s, e)
  BY <1>5 DEF Retains, Forgets
<1>7. events' \in events..MaxEvents
  BY <1>1, <1>2
<1>8. \A c \in calls' : CallOK(c) /\ (c \in calls \/ node[c.from].ready)
  BY <1>1 DEF DissInv, CallsInv
<1>9. /\ NodesInv' /\ CallsInv' /\ WhenTold
      /\ \A m \in Node : node[m].ready => node'[m].ready
  BY <1>3, <1>5, <1>6, <1>7, <1>8, NodeGoesOn
<1> QED
  BY <1>1, <1>9, SyncsSame DEF DissInv

(* A ping takes the changes that are still to be told. *)
LEMMA PingKeeps ==
  ASSUME DissInv, NEW n \in Node, NEW m \in Node, Ping(n, m)
  PROVE  DissInv' /\ WhenTold
<1> DEFINE s == node[n]
           e == Drop(s, None)
<1>1. /\ s.ready /\ n # m /\ node' = [node EXCEPT ![n] = e]
      /\ calls' = calls \cup {Request("ping", n, m, m, None, s)}
      /\ UNCHANGED <<syncs, jobs, events>>
  BY DEF Ping
<1>2. NodeOK(s) /\ events \in 0..MaxEvents /\ MaxEvents \in Nat
  BY DisseminationAssumption DEF DissInv, NodesInv
<1>3. NodeOK(e) /\ e.ready = s.ready /\ e.inc = s.inc /\ Forgets(s, e)
  BY <1>2, DropIs
<1> HIDE DEF e
<1>4. ASSUME NEW c \in calls' PROVE CallOK(c) /\ (c \in calls \/ node[c.from].ready)
  <2>1. CASE c \in calls
    BY <2>1 DEF DissInv, CallsInv
  <2>2. CASE c = Request("ping", n, m, m, None, s)
    <3>1. CallOK(c) /\ c.from = n
      BY <1>1, <1>2, <2>2, PingIs
    <3> QED
      BY <1>1, <3>1
  <2> QED
    BY <1>1, <2>1, <2>2
<1>5. events' \in events..MaxEvents
  BY <1>1, <1>2
<1>6. /\ NodesInv' /\ CallsInv' /\ WhenTold
      /\ \A k \in Node : node[k].ready => node'[k].ready
  BY <1>1, <1>3, <1>4, <1>5, NodeGoesOn
<1> QED
  BY <1>1, <1>6, SyncsSame DEF DissInv

(* The other node learns, answers, and may start a reverse full sync. *)
LEMMA HandlePingKeeps ==
  ASSUME DissInv, NEW c \in calls, HandlePing(c)
  PROVE  DissInv' /\ WhenTold
<1> DEFINE n == c.to
           l == Learn(node[n], c.news)
           e == Issuer(l, c)
<1>1. /\ c.stage = "sent" /\ node[n].ready /\ node' = [node EXCEPT ![n] = e]
      /\ IF FullSync(l, c) THEN Sync(n, c.from) ELSE UNCHANGED <<syncs, jobs>>
      /\ calls' = (calls \ {c}) \cup
           (IF c.open THEN {[c EXCEPT !.stage = "answered", !.reply = Reply(l, c)]} ELSE {})
      /\ UNCHANGED events
  BY DEF HandlePing
<1>2. /\ CallOK(c) /\ c \in CallType /\ c.from \in Node /\ n \in Node /\ node[c.from].ready
      /\ c.news \in News
  BY <1>1, FromRuns DEF DissInv, CallType
<1>3. NodeOK(node[n]) /\ events \in 0..MaxEvents /\ MaxEvents \in Nat
  BY <1>2, DisseminationAssumption DEF DissInv, NodesInv
<1>4. NodeOK(l) /\ l.ready = node[n].ready /\ l.inc = node[n].inc /\ Retains(node[n], l)
  BY <1>1, <1>2, <1>3, LearnIs
<1> HIDE DEF l
<1>5. NodeOK(e) /\ e.ready = l.ready /\ e.inc = l.inc /\ Forgets(l, e)
  BY <1>4, IssuerIs
<1> HIDE DEF e
<1>6. Forgets(node[n], e)
  BY <1>4, <1>5, RetainsForgets
<1>7. ASSUME NEW d \in calls' PROVE CallOK(d) /\ (d \in calls \/ node[d.from].ready)
  <2>1. CASE d \in calls
    BY <2>1 DEF DissInv, CallsInv
  <2>2. CASE d = [c EXCEPT !.stage = "answered", !.reply = Reply(l, c)]
    <3>1. Reply(l, c) \in News
      BY <1>4, ReplyIs
    <3>2. CallOK(d) /\ d.from = c.from
      BY <1>2, <2>2, <3>1, CallChanges
    <3> QED
      BY <1>2, <3>2
  <2> QED
    BY <1>1, <2>1, <2>2
<1>8. events' \in events..MaxEvents
  BY <1>1, <1>3
<1>9. /\ NodesInv' /\ CallsInv' /\ WhenTold
      /\ \A k \in Node : node[k].ready => node'[k].ready
  BY <1>1, <1>2, <1>4, <1>5, <1>6, <1>7, <1>8, NodeGoesOn
<1>10. SyncsInv'
  BY <1>1, <1>2, <1>9, SyncsSame, SyncKeeps DEF DissInv
<1> QED
  BY <1>9, <1>10 DEF DissInv

(* A ping-req is handed on as a ping. *)
LEMMA HandlePingReqKeeps ==
  ASSUME DissInv, NEW c \in calls, HandlePingReq(c)
  PROVE  DissInv' /\ WhenTold
<1> DEFINE n == c.to
           l == Learn(node[n], c.news)
           e == Drop(l, None)
<1>1. /\ c.stage = "sent" /\ c.kind = "ping-req" /\ node[n].ready
      /\ node' = [node EXCEPT ![n] = e]
      /\ calls' = (calls \ {c}) \cup {[c EXCEPT !.stage = "relayed"],
                                      Request("ping", n, c.target, c.target, c.from, l)}
      /\ UNCHANGED <<syncs, jobs, events>>
  BY DEF HandlePingReq
<1>2. /\ CallOK(c) /\ c \in CallType /\ c.from \in Node /\ n \in Node /\ node[c.from].ready
      /\ c.news \in News /\ c.target \in Node /\ c.target # n /\ c.reply \in News
  BY <1>1, FromRuns DEF DissInv, CallType, CallOK
<1>3. NodeOK(node[n]) /\ events \in 0..MaxEvents /\ MaxEvents \in Nat
  BY <1>2, DisseminationAssumption DEF DissInv, NodesInv
<1>4. NodeOK(l) /\ l.ready = node[n].ready /\ l.inc = node[n].inc /\ Retains(node[n], l)
  BY <1>1, <1>2, <1>3, LearnIs
<1> HIDE DEF l
<1>5. NodeOK(e) /\ e.ready = l.ready /\ e.inc = l.inc /\ Forgets(l, e)
  BY <1>4, DropIs
<1> HIDE DEF e
<1>6. Forgets(node[n], e)
  BY <1>4, <1>5, RetainsForgets
<1>7. ASSUME NEW d \in calls' PROVE CallOK(d) /\ (d \in calls \/ node[d.from].ready)
  <2>1. CASE d \in calls
    BY <2>1 DEF DissInv, CallsInv
  <2>2. CASE d = [c EXCEPT !.stage = "relayed"]
    <3>1. CallOK(d) /\ d.from = c.from
      BY <1>2, <2>2, CallChanges
    <3> QED
      BY <1>2, <3>1
  <2>3. CASE d = Request("ping", n, c.target, c.target, c.from, l)
    <3>1. CallOK(d) /\ d.from = n
      BY <1>2, <1>4, <2>3, PingIs
    <3> QED
      BY <1>1, <3>1
  <2> QED
    BY <1>1, <2>1, <2>2, <2>3
<1>8. events' \in events..MaxEvents
  BY <1>1, <1>3
<1>9. /\ NodesInv' /\ CallsInv' /\ WhenTold
      /\ \A k \in Node : node[k].ready => node'[k].ready
  BY <1>1, <1>2, <1>4, <1>5, <1>6, <1>7, <1>8, NodeGoesOn
<1> QED
  BY <1>1, <1>9, SyncsSame DEF DissInv

(* A call is refused or given up; the nodes are as they were. *)
LEMMA CallEndsKeeps ==
  ASSUME DissInv, NEW c \in calls, RefuseCall(c) \/ Timeout(c)
  PROVE  DissInv' /\ WhenTold
<1> DEFINE f == [c EXCEPT !.stage = "failed"]
           g == [c EXCEPT !.open = FALSE]
<1>1. /\ UNCHANGED <<node, syncs, jobs>>
      /\ \A d \in calls' : d \in calls \/ d = f \/ (c.open /\ d = g)
      /\ c.stage # "relayed" \/ c.open
  <2>1. CASE RefuseCall(c)
    BY <2>1 DEF RefuseCall
  <2>2. CASE Timeout(c)
    BY <2>2 DEF Timeout
  <2> QED
    BY <2>1, <2>2
<1>2. events \in 0..MaxEvents /\ MaxEvents \in Nat
  BY DisseminationAssumption DEF DissInv, NodesInv
<1>3. events' \in events..MaxEvents
  <2>1. CASE RefuseCall(c)
    BY <1>2, <2>1 DEF RefuseCall
  <2>2. CASE Timeout(c)
    BY <1>2, <2>2 DEF Timeout
  <2> QED
    BY <2>1, <2>2
<1>4. CallOK(c) /\ node[c.from].ready /\ c.reply \in News
  BY <1>1, FromRuns DEF DissInv, CallType
<1>5. CallOK(f) /\ f.from = c.from /\ CallOK(g) /\ g.from = c.from
  BY <1>4, CallChanges
<1> HIDE DEF f, g
<1>6. \A d \in calls' : CallOK(d) /\ (d \in calls \/ node[d.from].ready)
  BY <1>1, <1>4, <1>5 DEF DissInv, CallsInv
<1>7. \A m \in Node : node[m].ready => node'[m].ready
  BY <1>1
<1>8. CallsInv' /\ SyncsInv'
  BY <1>1, <1>6, <1>7, CallsKeep, SyncsSame DEF DissInv
<1>9. NodesInv' /\ WhenTold
  BY <1>1, <1>3, SameNode DEF DissInv
<1> QED
  BY <1>8, <1>9 DEF DissInv

(* The join request of a sync is answered or fails. *)
LEMMA SyncGoesOnKeeps ==
  ASSUME DissInv, NEW y \in syncs, AnswerSync(y) \/ FailSync(y)
  PROVE  DissInv' /\ WhenTold
<1>1. UNCHANGED <<node, calls, jobs>>
  BY DEF AnswerSync, FailSync
<1>2. events \in 0..MaxEvents /\ MaxEvents \in Nat
  BY DisseminationAssumption DEF DissInv, NodesInv
<1>3. events' \in events..MaxEvents
  <2>1. CASE AnswerSync(y)
    BY <1>2, <2>1 DEF AnswerSync
  <2>2. CASE FailSync(y)
    BY <1>2, <2>2 DEF FailSync
  <2> QED
    BY <2>1, <2>2
<1>4. y \in SyncType /\ y.target \in Node
  BY DEF DissInv, SyncsInv, SyncType
<1>5. FullList(node[y.target]) \in News
  BY <1>4, FullListIs DEF DissInv, NodesInv, NodeState
<1>6. SyncsInv'
  <2>1. CASE AnswerSync(y)
    <3> DEFINE list == FullList(node[y.target])
               z == [y EXCEPT !.stage = "answered", !.list = list]
    <3>1. syncs' = (syncs \ {y}) \cup {z}
      BY <2>1 DEF AnswerSync
    <3> HIDE DEF list
    <3>2. z \in SyncType /\ z.node = y.node /\ z.slot = y.slot
      BY <1>4, <1>5 DEF SyncType, list
    <3> HIDE DEF z
    <3> QED
      BY <1>1, <3>1, <3>2, SyncChanges DEF DissInv
  <2>2. CASE FailSync(y)
    <3> DEFINE z == [y EXCEPT !.stage = "failed"]
    <3>1. syncs' = (syncs \ {y}) \cup {z}
      BY <2>2 DEF FailSync
    <3>2. z \in SyncType /\ z.node = y.node /\ z.slot = y.slot
      BY <1>4 DEF SyncType
    <3> HIDE DEF z
    <3> QED
      BY <1>1, <3>1, <3>2, SyncChanges DEF DissInv
  <2> QED
    BY <2>1, <2>2
<1>7. \A d \in calls' : CallOK(d) /\ (d \in calls \/ node[d.from].ready)
  BY <1>1 DEF DissInv, CallsInv
<1>8. CallsInv'
  BY <1>1, <1>7, CallsKeep DEF DissInv
<1>9. NodesInv' /\ WhenTold
  BY <1>1, <1>3, SameNode DEF DissInv
<1> QED
  BY <1>6, <1>8, <1>9 DEF DissInv

(* A sync that ends gives its slot back. *)
LEMMA EndSyncKeeps ==
  ASSUME DissInv, NEW y \in syncs, EndSync(y)
  PROVE  DissInv' /\ WhenTold
<1> DEFINE n == y.node
           e == Learn(node[n], y.list)
<1>1. /\ syncs' = syncs \ {y} /\ node' = [node EXCEPT ![n] = e]
      /\ jobs' = [jobs EXCEPT ![y.node] = @ - 1] /\ UNCHANGED <<calls, events>>
  BY DEF EndSync
<1>2. n \in Node /\ y.list \in News /\ node[n].ready
  BY DEF DissInv, SyncsInv, SyncType
<1>3. NodeOK(node[n]) /\ events \in 0..MaxEvents /\ MaxEvents \in Nat
  BY <1>2, DisseminationAssumption DEF DissInv, NodesInv
<1>4. NodeOK(e) /\ e.ready = node[n].ready /\ e.inc = node[n].inc /\ Retains(node[n], e)
  BY <1>2, <1>3, LearnIs
<1> HIDE DEF e
<1>5. Forgets(node[n], e)
  BY <1>4 DEF Retains, Forgets
<1>6. \A c \in calls' : CallOK(c) /\ (c \in calls \/ node[c.from].ready)
  BY <1>1 DEF DissInv, CallsInv
<1>7. events' \in events..MaxEvents
  BY <1>1, <1>3
<1>8. /\ NodesInv' /\ CallsInv' /\ WhenTold
      /\ \A k \in Node : node[k].ready => node'[k].ready
  BY <1>1, <1>2, <1>4, <1>5, <1>6, <1>7, NodeGoesOn
<1>9. SyncsInv'
  BY <1>1, <1>8, SyncEnds DEF DissInv
<1> QED
  BY <1>8, <1>9 DEF DissInv

(* A node that starts again: what it asked is gone, or is never answered.  *)
LEMMA RestartKeeps ==
  ASSUME DissInv, NEW n \in Node, Restart(n)
  PROVE  DissInv' /\ WhenTold
<1> DEFINE i == node[n].inc + 1
           e == NewNode(i)
<1>1. /\ node[n].ready /\ events < MaxEvents /\ events' = events + 1
      /\ syncs' = {y \in syncs : y.node # n} /\ jobs' = [jobs EXCEPT ![n] = 0]
  BY DEF Restart
<1>2. /\ node \in [Node -> NodeState] /\ node[n].inc \in Nat /\ node[n].inc <= events
      /\ events \in 0..MaxEvents /\ MaxEvents \in Nat
  BY DisseminationAssumption DEF DissInv, NodesInv, NodeState
<1>3. node' = [node EXCEPT ![n] = e]
  BY <1>2 DEF Restart
<1>4. i \in Nat /\ i <= events' /\ events' \in events..MaxEvents
  BY <1>1, <1>2
<1> HIDE DEF i
<1>5. NodeOK(e) /\ e.ready = FALSE /\ e.inc = i
  BY <1>4, NewNodeIs
<1> HIDE DEF e
<1>6. Forgets(node[n], e) /\ e.inc <= events'
  BY <1>4, <1>5 DEF Forgets
<1>7. /\ NodesInv' /\ WhenTold
      /\ node'[n] = e /\ \A m \in Node : m # n => node'[m] = node[m]
  BY <1>3, <1>4, <1>5, <1>6, OneNode DEF DissInv
<1>8. CallsInv'
  <2>1. ASSUME NEW c \in calls'
        PROVE  CallOK(c) /\ (~node'[c.from].ready => Silent(c))
    <3>1. CASE c \in calls /\ c.from # n
      <4>1. CallOK(c) /\ c.from \in Node /\ (~node[c.from].ready => Silent(c))
        BY <3>1 DEF DissInv, CallsInv, CallOK, CallType
      <4> QED
        BY <1>7, <3>1, <4>1
    <3>2. CASE \E d \in Relays(n) : d.open /\ c = [d EXCEPT !.stage = "failed"]
      <4>1. PICK d \in Relays(n) : d.open /\ c = [d EXCEPT !.stage = "failed"]
        BY <3>2
      <4>2. d \in calls /\ d.to = n
        BY DEF Relays
      <4>3. CallOK(d) /\ d.from \in Node /\ node[d.from].ready /\ d.from # n /\ d.reply \in News
        BY <4>1, <4>2, FromRuns DEF DissInv, CallOK, CallType
      <4>4. CallOK(c) /\ c.from = d.from
        BY <4>1, <4>3, CallChanges
      <4> QED
        BY <1>7, <4>3, <4>4
    <3>3. CASE \E d \in calls : d.from = n /\ d.stage = "relayed" /\ c = [d EXCEPT !.open = FALSE]
      <4>1. PICK d \in calls : d.from = n /\ d.stage = "relayed" /\ c = [d EXCEPT !.open = FALSE]
        BY <3>3
      <4>2. CallOK(d) /\ d.reply \in News
        BY DEF DissInv, CallsInv, CallOK, CallType
      <4>3. CallOK(c) /\ c.stage = "relayed" /\ c.open = FALSE
        BY <4>1, <4>2, CallChanges
      <4> QED
        BY <4>3 DEF Silent
    <3> QED
      BY <3>1, <3>2, <3>3 DEF Restart
  <2>2. \A c \in calls' : CallOK(c)'
    BY <2>1 DEF CallOK, CallType, News, Origins, Sums
  <2>3. \A c \in calls' : ~node'[c.from].ready => Silent(c)
    BY <2>1
  <2> QED
    BY <2>2, <2>3 DEF CallsInv, Silent
<1>9. SyncsInv'
  <2>1. jobs \in [Node -> 0..MaxSyncs] /\ 0 \in 0..MaxSyncs
    BY DisseminationAssumption DEF DissInv, SyncsInv
  <2>2. jobs' \in [Node -> 0..MaxSyncs]
    BY <1>1, <2>1
  <2>3. \A y \in syncs' : y \in SyncType /\ node'[y.node].ready
    BY <1>1, <1>7 DEF DissInv, SyncsInv, SyncType
  <2>4. \A y, z \in syncs' : y.node = z.node /\ y.slot = z.slot => y = z
    BY <1>1 DEF DissInv, SyncsInv
  <2>5. ASSUME NEW m \in Node
        PROVE  /\ IsFiniteSet({y \in syncs' : y.node = m})
               /\ jobs'[m] = Cardinality({y \in syncs' : y.node = m})
    <3>1. CASE m = n
      <4>1. {y \in syncs' : y.node = m} = {} /\ jobs'[m] = 0
        BY <1>1, <2>1, <3>1
      <4> QED
        BY <4>1, FS_EmptySet
    <3>2. CASE m # n
      <4>1. {y \in syncs' : y.node = m} = SyncsOf(m) /\ jobs'[m] = jobs[m]
        BY <1>1, <2>1, <3>2 DEF SyncsOf
      <4> QED
        BY <4>1 DEF DissInv, SyncsInv
    <3> QED
      BY <3>1, <3>2
  <2> QED
    BY <2>2, <2>3, <2>4, <2>5, SyncsBecome
<1> QED
  BY <1>7, <1>8, <1>9 DEF DissInv

(* A node joins with the list of another. *)
LEMMA BootstrapKeeps ==
  ASSUME DissInv, NEW n \in Node, NEW m \in Node, BootstrapNode(n, m)
  PROVE  DissInv' /\ WhenTold
<1> DEFINE list == node[m].belief
           taken == [x \in Watched |-> IF Status(list[x]) = "tombstone" THEN 0 ELSE list[x]]
           e == Booted(node[n], taken)
<1>1. /\ node \in [Node -> NodeState] /\ NodeOK(node[n])
      /\ events \in 0..MaxEvents /\ MaxEvents \in Nat
      /\ list \in [Watched -> 0..MaxVersion] /\ 0 \in 0..MaxVersion
  BY DisseminationAssumption DEF DissInv, NodesInv, NodeState
<1>2. ~node[n].ready /\ node' = [node EXCEPT ![n] = e] /\ UNCHANGED <<calls, syncs, jobs, events>>
  BY <1>1 DEF BootstrapNode
<1>3. taken \in [Watched -> 0..MaxVersion]
  BY <1>1
<1> HIDE DEF taken
<1>4. NodeOK(e) /\ e.ready = TRUE /\ e.inc = node[n].inc /\ e.pending = node[n].pending
  BY <1>1, <1>2, <1>3, BootedIs
<1> HIDE DEF e
<1>5. Forgets(node[n], e)
  BY <1>4 DEF Forgets
<1>6. events' \in events..MaxEvents
  BY <1>1, <1>2
<1>7. \A c \in calls' : CallOK(c) /\ (c \in calls \/ node[c.from].ready)
  BY <1>2 DEF DissInv, CallsInv
<1>8. /\ NodesInv' /\ CallsInv' /\ WhenTold
      /\ \A k \in Node : node[k].ready => node'[k].ready
  BY <1>2, <1>4, <1>5, <1>6, <1>7, NodeGoesOn
<1>9. SyncsInv'
  BY <1>2, <1>8, SyncsSame DEF DissInv
<1> QED
  BY <1>8, <1>9 DEF DissInv

(* At first every node knows everybody and has nothing to tell. *)
LEMMA InitDiss == DisseminationInit => DissInv
<1> SUFFICES ASSUME DisseminationInit PROVE DissInv
  OBVIOUS
<1> DEFINE b == [x \in Watched |-> FirstVersion]
           e == Booted(NewNode(0), b)
<1>1. node = [n \in Node |-> e] /\ calls = {} /\ syncs = {} /\ events = 0
      /\ jobs = [n \in Node |-> 0]
  BY DEF DisseminationInit
<1>2. b \in [Watched -> 0..MaxVersion] /\ 0 \in 0..MaxEvents /\ 0 \in 0..MaxSyncs
  BY DisseminationAssumption
<1>3. NodeOK(NewNode(0)) /\ NewNode(0).ready = FALSE /\ NewNode(0).inc = 0
  BY NewNodeIs
<1> HIDE DEF b
<1>4. NodeOK(e) /\ e.inc = 0
  BY <1>2, <1>3, BootedIs
<1>5. e \in NodeState
  BY <1>4 DEF NodeOK
<1> HIDE DEF e
<1>6. NodesInv
  BY <1>1, <1>2, <1>4, <1>5 DEF NodesInv
<1>7. CallsInv
  BY <1>1 DEF CallsInv
<1>8. SyncsInv
  <2>1. \A n \in Node : SyncsOf(n) = {}
    BY <1>1 DEF SyncsOf
  <2> QED
    BY <1>1, <1>2, <2>1, FS_EmptySet DEF SyncsInv
<1> QED
  BY <1>6, <1>7, <1>8 DEF DissInv

(* Every step keeps the invariant and forgets only what was told. *)
LEMMA NextDiss ==
  ASSUME DissInv, DisseminationNext
  PROVE  DissInv' /\ WhenTold
<1>1. ASSUME NEW n \in Node,
             \/ \E x \in Watched : Declare(n, x)
             \/ \E m \in Node : Ping(n, m) \/ BootstrapNode(n, m)
             \/ Restart(n)
      PROVE  DissInv' /\ WhenTold
  <2>1. CASE \E x \in Watched : Declare(n, x)
    BY <2>1, DeclareKeeps
  <2>2. CASE \E m \in Node : Ping(n, m) \/ BootstrapNode(n, m)
    BY <2>2, PingKeeps, BootstrapKeeps
  <2>3. CASE Restart(n)
    BY <2>3, RestartKeeps
  <2> QED
    BY <1>1, <2>1, <2>2, <2>3
<1>2. ASSUME NEW c \in calls,
             \/ HandlePing(c) \/ HandlePingReq(c) \/ RefuseCall(c)
             \/ Deliver(c) \/ Fail(c) \/ Timeout(c)
      PROVE  DissInv' /\ WhenTold
  BY <1>2, HandlePingKeeps, HandlePingReqKeeps, CallEndsKeeps, DeliverKeeps, FailKeeps
<1>3. ASSUME NEW y \in syncs, AnswerSync(y) \/ FailSync(y) \/ EndSync(y)
      PROVE  DissInv' /\ WhenTold
  BY <1>3, SyncGoesOnKeeps, EndSyncKeeps
<1> QED
  BY <1>1, <1>2, <1>3 DEF DisseminationNext

(* So does a step that changes nothing. *)
LEMMA StutterDiss ==
  ASSUME DissInv, UNCHANGED disseminationVars
  PROVE  DissInv'
<1>1. UNCHANGED <<node, calls, syncs, jobs>> /\ events' = events
  BY DEF disseminationVars
<1>2. events \in 0..MaxEvents /\ MaxEvents \in Nat
  BY DisseminationAssumption DEF DissInv, NodesInv
<1>3. events' \in events..MaxEvents
  BY <1>1, <1>2
<1>4. NodesInv'
  BY <1>1, <1>3, SameNode DEF DissInv
<1>5. \A c \in calls' : CallOK(c) /\ (c \in calls \/ node[c.from].ready)
  BY <1>1 DEF DissInv, CallsInv
<1>6. CallsInv' /\ SyncsInv'
  BY <1>1, <1>5, CallsKeep, SyncsSame DEF DissInv
<1> QED
  BY <1>4, <1>6 DEF DissInv

(* reverseFullSyncJobs is the number of reverse full syncs under way, and  *)
(* never more than maxReverseFullSyncJobs run, whatever fails, times out   *)
(* or restarts (dissemination.js 221-284).                                 *)
THEOREM SyncSlotsAreCounted == DisseminationSpec => []SlotsAreCounted
<1>1. DisseminationInit => DissInv
  BY InitDiss
<1>2. DissInv /\ [DisseminationNext]_disseminationVars => DissInv'
  BY NextDiss, StutterDiss
<1>3. DissInv => SlotsAreCounted
  <2> SUFFICES ASSUME DissInv PROVE SlotsAreCounted
    OBVIOUS
  <2>1. \A c \in calls : /\ c.from \in Node /\ c.to \in Node
                         /\ c.news \in News /\ c.reply \in News
    BY DEF DissInv, CallsInv, CallOK, CallType
  <2>2. \A y \in syncs : /\ y.node \in Node /\ y.slot \in 1..MaxSyncs
                         /\ y.target \in Node /\ y.list \in News
    BY DEF DissInv, SyncsInv, SyncType
  <2>3. ASSUME NEW n \in Node
        PROVE  jobs[n] <= MaxSyncs /\ jobs[n] = Cardinality({y \in syncs : y.node = n})
    <3>1. jobs[n] \in 0..MaxSyncs
      BY DEF DissInv, SyncsInv
    <3>2. jobs[n] <= MaxSyncs
      BY <3>1, DisseminationAssumption
    <3>3. jobs[n] = Cardinality({y \in syncs : y.node = n})
      BY DEF DissInv, SyncsInv, SyncsOf
    <3> QED
      BY <3>2, <3>3
  <2>4. node \in [Node -> NodeState] /\ events \in 0..MaxEvents /\ jobs \in [Node -> 0..MaxSyncs]
    BY DEF DissInv, NodesInv, SyncsInv
  <2> QED
    BY <2>1, <2>2, <2>3, <2>4 DEF SlotsAreCounted, DisseminationTypeOK, NodeState
<1> QED
  BY <1>1, <1>2, <1>3, PTL DEF DisseminationSpec

(* No change is forgotten before it was passed on maxPiggybackCount times  *)
(* in answers or answered requests: those that fail or time out use        *)
(* nothing up (dissemination.js 90-138, 175-219).                          *)
THEOREM ForgottenWhenTold == DisseminationSpec => DroppedWhenTold
<1>1. DisseminationInit => DissInv
  BY InitDiss
<1>2. DissInv /\ [DisseminationNext]_disseminationVars => DissInv'
  BY NextDiss, StutterDiss
<1>3. DissInv /\ [DisseminationNext]_disseminationVars
        => [\A n \in Node, x \in Watched :
             (node[n].pending[x] # None /\ node'[n].pending[x] = None /\ node'[n].ready)
               => node'[n].told[x] >= node'[n].limit]_disseminationVars
  BY NextDiss DEF WhenTold
<1> QED
  BY <1>1, <1>2, <1>3, PTL DEF DisseminationSpec, DroppedWhenTold
===============================================================================
