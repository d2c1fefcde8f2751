---------------------------- MODULE HandoffProofs ----------------------------
(* Handoff, for any nodes and timers: every step keeps the types and an    *)
(* owner for every row, and, as long as the cluster is calm, passes each   *)
(* timer on from one place to one other (HandoffInv).  One lemma for each  *)
(* operator that several actions share, then one step per action.          *)
EXTENDS HandoffInv, SequenceTheorems, WellFoundedInduction, TLAPS

Ops == {"put", "del", "wipe"}
Backs == {"client", "peer", "nobody"}
CallTypes == calls \in [At -> Seq(Ops)]
PostTypes == posts \subseteq Posts
ClientTypes == client \in [Timer -> {"unused", "acked", "refused"} \cup Node]

----------------------------------------------------------------------------
(* Lookup chooses the nearest server of a ring that is not empty. *)
LEMMA LookupNearest ==
  ASSUME view \in [Node -> SUBSET Node], NEW n \in Node, NEW t \in Timer, view[n] # {}
  PROVE  /\ Lookup(n, t) \in view[n]
         /\ \A o \in view[n] : Rank[t][Lookup(n, t)] <= Rank[t][o]
<1> DEFINE T == {Rank[t][m] : m \in view[n]}
<1>1. \A m \in view[n] : Rank[t][m] \in Nat
  BY HandoffAssumption
<1>2. T \subseteq Nat /\ T # {}
  BY <1>1
<1>3. \E x \in T : \A y \in T : ~(<<y, x>> \in OpToRel(<, Nat))
  BY <1>2, NatLessThanWellFounded, WFMin
<1>4. PICK x \in T : \A y \in T : ~(<<y, x>> \in OpToRel(<, Nat))
  BY <1>3
<1>5. \A y \in T : x <= y
  <2> SUFFICES ASSUME NEW y \in T PROVE x <= y
    OBVIOUS
  <2>1. x \in Nat /\ y \in Nat
    BY <1>2
  <2>2. ~(<<y, x>> \in {ss \in Nat \X Nat : ss[1] < ss[2]})
    BY <1>4 DEF OpToRel
  <2> HIDE DEF T
  <2>3. ~(y < x)
    BY <2>1, <2>2
  <2> QED
    BY <2>1, <2>3
<1>6. PICK m \in view[n] : \A o \in view[n] : Rank[t][m] <= Rank[t][o]
  BY <1>5
<1> QED
  BY <1>6 DEF Lookup

(* Lookup returns a node. *)
LEMMA LookupType ==
  ASSUME view \in [Node -> SUBSET Node], NEW n \in Node, NEW t \in Timer
  PROVE  Lookup(n, t) \in Node
<1>1. CASE view[n] = {}
  BY <1>1 DEF Lookup
<1>2. CASE view[n] # {}
  BY <1>2, LookupNearest
<1> QED
  BY <1>1, <1>2

(* A new request of a proxy has its type. *)
LEMMA PostType ==
  ASSUME NEW m \in Node, NEW n \in Node, NEW t \in Timer, NEW b \in Backs
  PROVE  Post(m, n, t, b) \in Posts
BY DEF Post, Posts, Backs

(* Issuing a call of the store keeps the types. *)
LEMMA IssueType ==
  ASSUME CallTypes, NEW n \in Node, NEW t \in Timer, NEW op \in Ops, Issue(n, t, op)
  PROVE  CallTypes' /\ calls'[<<n, t>>] # <<>>
         /\ \A x \in At : calls[x] # <<>> => calls'[x] # <<>>
<1>1. calls[<<n, t>>] \in Seq(Ops)
  BY DEF CallTypes, At
<1>2. /\ Append(calls[<<n, t>>], op) \in Seq(Ops)
      /\ Append(calls[<<n, t>>], op) # <<>>
  BY <1>1, AppendProperties
<1> QED
  BY <1>2 DEF Issue, CallTypes, At

(* Creating a timer keeps the types and completes no call. *)
LEMMA CreateType ==
  ASSUME CallTypes, running \subseteq At, ran \subseteq Timer,
         NEW n \in Node, NEW t \in Timer, Create(n, t)
  PROVE  /\ CallTypes' /\ running' \subseteq At /\ ran' \subseteq Timer
         /\ running \subseteq running'
         /\ \A x \in At : calls[x] # <<>> => calls'[x] # <<>>
<1>1. CASE Issue(n, t, "put") /\ UNCHANGED <<running, ran>>
  BY <1>1, IssueType DEF Ops
<1>2. CASE UNCHANGED <<calls, running, ran>>
  BY <1>2 DEF CallTypes
<1>3. CASE /\ UNCHANGED calls
           /\ running' = running \cup {<<n, t>>} /\ ran' = ran \cup {t}
  BY <1>3 DEF CallTypes, At
<1> QED
  BY <1>1, <1>2, <1>3 DEF Create

(* Taking a request keeps the types and completes no call. *)
LEMMA TakeType ==
  ASSUME CallTypes, running \subseteq At, ran \subseteq Timer,
         view \in [Node -> SUBSET Node],
         NEW n \in Node, NEW t \in Timer, NEW b \in Backs, NEW others \in SUBSET Posts,
         Take(n, t, b, others)
  PROVE  /\ CallTypes' /\ running' \subseteq At /\ ran' \subseteq Timer /\ PostTypes'
         /\ running \subseteq running'
         /\ \A x \in At : calls[x] # <<>> => calls'[x] # <<>>
<1>1. CASE posts' = others /\ Create(n, t)
  BY <1>1, CreateType DEF PostTypes
<1>2. CASE /\ posts' = others \cup {Post(n, Lookup(n, t), t, b)}
           /\ UNCHANGED <<calls, running, ran>>
  BY <1>2, LookupType, PostType DEF PostTypes, CallTypes
<1> QED
  BY <1>1, <1>2 DEF Take

(* A request that fails keeps the types. *)
LEMMA FailType ==
  ASSUME ClientTypes, NEW p \in Posts, NEW others \in SUBSET Posts, Fail(p, others)
  PROVE  PostTypes' /\ ClientTypes'
<1>1. \A q \in Posts : Failed(p, q) \in Posts
  BY DEF Failed, Posts
<1>2. p.timer \in Timer
  BY DEF Posts
<1> QED
  BY <1>1, <1>2 DEF Fail, Told, PostTypes, ClientTypes

(* A request that is tried again keeps the types. *)
LEMMA RetryType ==
  ASSUME ClientTypes, NEW p \in Posts, NEW others \in SUBSET Posts, Retry(p, others)
  PROVE  PostTypes' /\ ClientTypes'
<1>1. [p EXCEPT !.at = "waiting"] \in Posts
  BY DEF Posts
<1>2. CASE posts' = others \cup {[p EXCEPT !.at = "waiting"]} /\ UNCHANGED client
  BY <1>1, <1>2 DEF PostTypes, ClientTypes
<1>3. CASE Fail(p, others)
  BY <1>3, FailType
<1> QED
  BY <1>2, <1>3 DEF Retry

(* A process that ends keeps the types, and what the others have. *)
LEMMA EndedType ==
  ASSUME TypeOK, NEW n \in Node, Ended(n)
  PROVE  /\ life' \in [Node -> Lives] /\ view' \in [Node -> SUBSET Node]
         /\ held' \subseteq At /\ armed' \subseteq At /\ running' \subseteq At
         /\ handed' \subseteq At /\ awaited' \subseteq At
         /\ CallTypes' /\ PostTypes' /\ ClientTypes'
         /\ life'[n] = "down"
         /\ \A x \in At : x[1] = n \/ /\ x \in held \cup running \cup handed
                                         => x \in (held \cup running \cup handed)'
                                      /\ calls'[x] = calls[x] /\ life'[x[1]] = life[x[1]]
<1>1. <<>> \in Seq(Ops)
  BY EmptySeq
<1>2. CallTypes'
  BY <1>1 DEF Ended, TypeOK, CallTypes, Ops
<1>3. \A x \in At : x[1] \in Node
  BY DEF At
<1> QED
  BY <1>2, <1>3 DEF Ended, TypeOK, Lives, PostTypes, ClientTypes

----------------------------------------------------------------------------
(* TypeOK is kept by every step. *)
LEMMA TypeStep == TypeOK /\ [Next]_vars => TypeOK'
<1> SUFFICES ASSUME TypeOK, [Next]_vars PROVE TypeOK'
  OBVIOUS
<1>a. CallTypes /\ PostTypes /\ ClientTypes
  BY DEF TypeOK, CallTypes, PostTypes, ClientTypes, Ops
<1>b. /\ \A n \in Node, t \in Timer : <<n, t>> \in At
      /\ \A n \in Node, S \in SUBSET Timer : {n} \X S \subseteq At
      /\ \A p \in posts : /\ p \in Posts /\ p.from \in Node /\ p.to \in Node
                          /\ p.timer \in Timer
      /\ \A a \in asks : a \in Asks /\ a.timer \in Timer
  BY DEF At, TypeOK, Posts, Asks
<1>c. \A n \in Node, t \in Timer : Lookup(n, t) \in Node
  BY LookupType DEF TypeOK
<1>1. ASSUME NEW n \in Node, NEW t \in Timer, Submit(n, t) PROVE TypeOK'
  <2>1. posts' \subseteq Posts
    BY <1>1, <1>a, <1>c, PostType DEF Submit, PostTypes, Backs
  <2>2. CallTypes'
    BY <1>1, <1>a, IssueType DEF Submit, CallTypes, Ops
  <2> QED
    BY <1>1, <2>1, <2>2 DEF Submit, TypeOK, CallTypes, Ops, storeVars, closeVars, boundVars
<1>2. ASSUME NEW n \in Node, NEW t \in Timer, Stored(n, t) PROVE TypeOK'
  <2>1. Tail(calls[<<n, t>>]) \in Seq(Ops)
    BY <1>2, <1>a, <1>b, HeadTailProperties DEF Stored, CallTypes
  <2>2. CallTypes'
    BY <1>2, <1>a, <2>1 DEF Stored, CallTypes
  <2>3. ClientTypes'
    BY <1>2, <1>a DEF Stored, ClientTypes
  <2> QED
    BY <1>2, <1>b, <2>2, <2>3
    DEF Stored, TypeOK, CallTypes, ClientTypes, Ops, storeVars, closeVars, boundVars
<1>3. ASSUME NEW n \in Node, NEW t \in Timer, Fire(n, t) PROVE TypeOK'
  BY <1>3, <1>b DEF Fire, TypeOK, storeVars, closeVars, boundVars
<1>4. ASSUME NEW n \in Node, NEW t \in Timer, Finish(n, t) PROVE TypeOK'
  <2>1. CallTypes'
    BY <1>4, <1>a, IssueType DEF Finish, Ops
  <2> QED
    BY <1>4, <2>1 DEF Finish, TypeOK, CallTypes, Ops, storeVars, closeVars, boundVars
<1>5. ASSUME NEW n \in Node, NEW t \in Timer, Reply(n, t) PROVE TypeOK'
  <2>1. CASE Ended(n)
    <3>1. rows' \subseteq At /\ replies' \subseteq At
      BY <1>5 DEF Reply, TypeOK, RowsAfter, closeVars
    <3> QED
      BY <1>5, <2>1, <3>1, EndedType
      DEF Reply, TypeOK, CallTypes, PostTypes, ClientTypes, Ops, boundVars
  <2>2. CASE ~Ended(n)
    BY <1>5, <2>2 DEF Reply, TypeOK, closeVars, boundVars
  <2> QED
    BY <2>1, <2>2
<1>6. ASSUME NEW n \in Node, Rebalance(n) PROVE TypeOK'
  <2>1. \A x \in At : Append(calls[x], "wipe") \in Seq(Ops)
    BY <1>a, AppendProperties DEF CallTypes, Ops
  <2>2. CallTypes'
    BY <1>6, <1>a, <2>1 DEF Rebalance, CallTypes
  <2>3. PostTypes'
    BY <1>6, <1>a, <1>c, PostType DEF Rebalance, PostTypes, Backs
  <2> QED
    BY <1>6, <2>2, <2>3
    DEF Rebalance, TypeOK, CallTypes, PostTypes, Ops, closeVars, boundVars
<1>7. ASSUME NEW n \in Node, Evict(n) PROVE TypeOK'
  BY <1>7 DEF Evict, TypeOK, Lives, storeVars, closeVars, boundVars
<1>8. ASSUME NEW n \in Node, Drain(n) PROVE TypeOK'
  BY <1>8 DEF Drain, TypeOK, Lives, storeVars, closeVars, boundVars
<1>9. ASSUME NEW n \in Node, Destroy(n) PROVE TypeOK'
  BY <1>9 DEF Destroy, TypeOK, Lives, storeVars, closeVars, boundVars
<1>10. ASSUME NEW n \in Node, Shutdown(n) PROVE TypeOK'
  <2> DEFINE sent == {t \in Timer : <<n, t>> \in held}
  <2>1. {n} \X sent \subseteq At
    BY <1>b
  <2>2. asks' \subseteq Asks
    <3>1. \A t \in sent : [from |-> n, to |-> None, timer |-> t] \in Asks
      BY DEF Asks
    <3>2. asks' = {a \in asks : a.to # n}
                  \cup {[from |-> n, to |-> None, timer |-> t] : t \in sent}
      BY <1>10 DEF Shutdown
    <3> HIDE DEF sent
    <3> QED
      BY <3>1, <3>2 DEF TypeOK
  <2> QED
    BY <1>10, <2>1, <2>2 DEF Shutdown, TypeOK, Lives, boundVars
<1>11. ASSUME NEW n \in Node, Disconnect(n) PROVE TypeOK'
  <2>1. rows' \subseteq At /\ asks' \subseteq Asks
    BY <1>11 DEF Disconnect, TypeOK, RowsAfter
  <2>2. \A A \in SUBSET Asks : Answers(A) \subseteq At
    BY DEF Answers, Asks, At
  <2>3. replies' \subseteq At
    BY <1>11, <2>2 DEF Disconnect, TypeOK
  <2> QED
    BY <1>11, <2>1, <2>3, EndedType
    DEF Disconnect, TypeOK, CallTypes, PostTypes, ClientTypes, Ops, boundVars
<1>12. ASSUME NEW n \in Node, Crash(n) PROVE TypeOK'
  <2>1. asks' \subseteq Asks /\ replies' \subseteq At
    BY <1>12 DEF Crash, TypeOK, Asks
  <2> QED
    BY <1>12, <2>1, EndedType
    DEF Crash, TypeOK, CallTypes, PostTypes, ClientTypes, Ops, boundVars
<1>13. ASSUME NEW n \in Node, Start(n) PROVE TypeOK'
  <2>1. <<"put">> \in Seq(Ops)
    BY DEF Ops
  <2>2. CallTypes'
    BY <1>13, <1>a, <2>1 DEF Start, CallTypes
  <2>3. running' \subseteq At /\ ran' \subseteq Timer
    BY <1>13, <1>b DEF Start, TypeOK
  <2>4. life' \in [Node -> Lives] /\ view' \in [Node -> SUBSET Node]
    BY <1>13 DEF Start, TypeOK, Lives
  <2> QED
    BY <1>13, <2>2, <2>3, <2>4
    DEF Start, TypeOK, CallTypes, Ops, closeVars, boundVars
<1>14. ASSUME NEW m \in Node, NEW n \in Node,
              LearnGone(n, m) \/ LearnUp(n, m) \/ Doubt(n, m)
       PROVE  TypeOK'
  BY <1>14 DEF LearnGone, LearnUp, Doubt, TypeOK, storeVars, closeVars, boundVars
<1>15. ASSUME NEW p \in posts, Send(p) PROVE TypeOK'
  <2>1. CASE /\ posts' = (posts \ {p}) \cup {[p EXCEPT !.at = "sent", !.sum = view[p.from]]}
             /\ UNCHANGED client
    <3>1. [p EXCEPT !.at = "sent", !.sum = view[p.from]] \in Posts
      BY <1>b DEF TypeOK, Posts
    <3> QED
      BY <1>15, <2>1, <3>1 DEF Send, TypeOK, storeVars, closeVars, boundVars
  <2>2. CASE Fail(p, posts \ {p})
    <3>1. PostTypes' /\ ClientTypes'
      BY <1>a, <1>b, <2>2, FailType DEF PostTypes
    <3> QED
      BY <1>15, <3>1
      DEF Send, TypeOK, PostTypes, ClientTypes, storeVars, closeVars, boundVars
  <2> QED
    BY <1>15, <2>1, <2>2 DEF Send
<1>16. ASSUME NEW p \in posts, Refuse(p) PROVE TypeOK'
  <2>1. PostTypes' /\ ClientTypes'
    BY <1>16, <1>a, <1>b, RetryType DEF Refuse, PostTypes
  <2> QED
    BY <1>16, <2>1
    DEF Refuse, TypeOK, PostTypes, ClientTypes, storeVars, closeVars, boundVars
<1>17. ASSUME NEW p \in posts, Timeout(p) PROVE TypeOK'
  <2>1. [p EXCEPT !.back = "nobody", !.tries = MaxRetries] \in Posts
    BY <1>b, HandoffAssumption DEF Posts
  <2>2. PostTypes' /\ ClientTypes'
    BY <1>17, <1>a, <1>b, <2>1, RetryType DEF Timeout, PostTypes
  <2> QED
    BY <1>17, <2>2
    DEF Timeout, TypeOK, PostTypes, ClientTypes, storeVars, closeVars, boundVars
<1>18. ASSUME NEW p \in posts, Arrive(p) PROVE TypeOK'
  <2>1. (posts \ {p}) \cup {[p EXCEPT !.at = "handling"]} \subseteq Posts
    BY <1>a, <1>b DEF PostTypes, Posts
  <2>2. /\ CallTypes' /\ running' \subseteq At /\ ran' \subseteq Timer /\ PostTypes'
    BY <1>18, <1>a, <1>b, <2>1, TakeType DEF Arrive, TypeOK, Backs
  <2> QED
    BY <1>18, <2>2 DEF Arrive, TypeOK, CallTypes, PostTypes, Ops, closeVars, boundVars
<1>19. ASSUME NEW p \in posts, Answered(p) PROVE TypeOK'
  <2>1. CASE posts' = posts \ {p} /\ Told(p, "acked")
    <3>1. ClientTypes'
      BY <1>a, <1>b, <2>1 DEF Told, ClientTypes
    <3> QED
      BY <1>19, <2>1, <3>1
      DEF Answered, TypeOK, ClientTypes, storeVars, closeVars, boundVars
  <2>2. CASE Fail(p, posts \ {p})
    <3>1. PostTypes' /\ ClientTypes'
      BY <1>a, <1>b, <2>2, FailType DEF PostTypes
    <3> QED
      BY <1>19, <3>1
      DEF Answered, TypeOK, PostTypes, ClientTypes, storeVars, closeVars, boundVars
  <2> QED
    BY <1>19, <2>1, <2>2 DEF Answered
<1>20. ASSUME NEW p \in posts, Reattempt(p) PROVE TypeOK'
  <2> DEFINE to == Lookup(p.from, p.timer)
             next == [p EXCEPT !.to = to, !.tries = @ + 1]
  <2>1. [next EXCEPT !.at = "handling"] \in Posts /\ [next EXCEPT !.at = "ready"] \in Posts
    <3>1. to \in Node
      BY <1>b, <1>c
    <3>2. p \in Posts /\ p.tries + 1 \in Nat
      BY <1>b DEF Posts
    <3> HIDE DEF to
    <3> QED
      BY <3>1, <3>2 DEF Posts
  <2>2. PostTypes'
    BY <1>20, <1>a, <2>1 DEF Reattempt, PostTypes
  <2>3. CallTypes' /\ running' \subseteq At /\ ran' \subseteq Timer
    <3>1. CASE Create(p.from, p.timer)
      BY <1>a, <1>b, <3>1, CreateType DEF TypeOK
    <3>2. CASE UNCHANGED <<calls, running, ran>>
      BY <1>a, <3>2 DEF CallTypes, TypeOK
    <3> QED
      BY <1>20, <3>1, <3>2 DEF Reattempt
  <2> QED
    BY <1>20, <2>2, <2>3 DEF Reattempt, TypeOK, CallTypes, PostTypes, Ops, closeVars, boundVars
<1>21. ASSUME NEW a \in asks, RouteAsk(a) PROVE TypeOK'
  <2>1. asks' \subseteq Asks
    BY <1>21, <1>b DEF RouteAsk, TypeOK, Asks
  <2> QED
    BY <1>21, <2>1 DEF RouteAsk, TypeOK, storeVars, boundVars
<1>22. ASSUME NEW a \in asks, HandleAsk(a) PROVE TypeOK'
  <2>1. a.to \in Node /\ Answers({a}) \subseteq At
    BY <1>22, <1>b DEF HandleAsk, Answers, Asks, At
  <2>2. CallTypes' /\ running' \subseteq At /\ ran' \subseteq Timer /\ PostTypes'
    BY <1>22, <1>a, <1>b, <2>1, TakeType DEF HandleAsk, TypeOK, Backs, PostTypes
  <2> QED
    BY <1>22, <2>1, <2>2 DEF HandleAsk, TypeOK, CallTypes, PostTypes, Ops, boundVars
<1>23. CASE UNCHANGED vars
  BY <1>23 DEF TypeOK, vars, storeVars, closeVars, boundVars
<1> QED
  BY <1>1, <1>2, <1>3, <1>4, <1>5, <1>6, <1>7, <1>8, <1>9, <1>10, <1>11, <1>12, <1>13,
     <1>14, <1>15, <1>16, <1>17, <1>18, <1>19, <1>20, <1>21, <1>22, <1>23
  DEF Next, Closing, Proxying

----------------------------------------------------------------------------
(* Rows have owners.  Most steps keep every owner there is; the other      *)
(* seven take a record, a call or a process away and put another owner, or *)
(* no row, in its place.                                                   *)
LEMMA OwnersKept ==
  ASSUME TypeOK, RowsAreOwned, rows' \subseteq rows,
         held \cup running \cup handed \subseteq (held \cup running \cup handed)',
         \A x \in At : calls[x] # <<>> => calls'[x] # <<>>,
         \A n \in Node : life[n] = "down" => life'[n] = "down"
  PROVE  RowsAreOwned'
<1>1. \A x \in rows : x \in At /\ x[1] \in Node
  BY DEF TypeOK, At
<1> QED
  BY <1>1 DEF RowsAreOwned

(* The end of a process leaves its rows to whoever starts it again. *)
LEMMA OwnersEnded ==
  ASSUME TypeOK, RowsAreOwned, NEW n \in Node, Ended(n),
         rows' \subseteq At, \A x \in rows' : x[1] = n \/ x \in rows
  PROVE  RowsAreOwned'
<1>1. ASSUME NEW x \in rows', x[1] # n
      PROVE  \/ x \in (held \cup running \cup handed)'
             \/ calls'[x] # <<>>
             \/ life'[x[1]] = "down"
  BY <1>1, EndedType DEF RowsAreOwned
<1>2. life'[n] = "down"
  BY EndedType
<1> QED
  BY <1>1, <1>2 DEF RowsAreOwned

(* RowsAreOwned is kept by every step. *)
LEMMA RowsStep == TypeOK /\ RowsAreOwned /\ [Next]_vars => RowsAreOwned'
<1> SUFFICES ASSUME TypeOK, RowsAreOwned, [Next]_vars PROVE RowsAreOwned'
  OBVIOUS
<1>a. CallTypes /\ PostTypes /\ running \subseteq At /\ ran \subseteq Timer
  BY DEF TypeOK, CallTypes, PostTypes, Ops
<1>b. /\ \A n \in Node, t \in Timer : <<n, t>> \in At
      /\ \A p \in posts : /\ p \in Posts /\ p.from \in Node /\ p.to \in Node
                          /\ p.timer \in Timer
      /\ \A a \in asks : a \in Asks /\ a.timer \in Timer
      /\ \A x \in rows : /\ x \in At /\ x[1] \in Node /\ x[2] \in Timer
                         /\ x = <<x[1], x[2]>>
  BY DEF At, TypeOK, Posts, Asks
<1>1. ASSUME NEW n \in Node, NEW t \in Timer, Submit(n, t) PROVE RowsAreOwned'
  <2>1. \A x \in At : calls[x] # <<>> => calls'[x] # <<>>
    BY <1>1, <1>a, IssueType DEF Submit, Ops
  <2> QED
    BY <1>1, <2>1, OwnersKept DEF Submit, closeVars
<1>2. ASSUME NEW n \in Node, NEW t \in Timer, Stored(n, t) PROVE RowsAreOwned'
  <2>1. \A x \in At : x # <<n, t>> => calls'[x] = calls[x]
    BY <1>2, <1>a DEF Stored, CallTypes
  <2>2. <<n, t>> \in rows' => <<n, t>> \in held'
    BY <1>2 DEF Stored
  <2>3. \A x \in rows' : x # <<n, t>> => x \in rows /\ (x \in held => x \in held')
    BY <1>2 DEF Stored
  <2>4. UNCHANGED <<life, running, handed>>
    BY <1>2 DEF Stored, closeVars
  <2> QED
    BY <1>b, <2>1, <2>2, <2>3, <2>4 DEF RowsAreOwned
<1>3. ASSUME NEW n \in Node, NEW t \in Timer, Fire(n, t) PROVE RowsAreOwned'
  BY <1>3, OwnersKept DEF Fire, closeVars
<1>4. ASSUME NEW n \in Node, NEW t \in Timer, Finish(n, t) PROVE RowsAreOwned'
  <2>1. /\ calls'[<<n, t>>] # <<>>
        /\ \A x \in At : calls[x] # <<>> => calls'[x] # <<>>
    BY <1>4, <1>a, IssueType DEF Finish, Ops
  <2> QED
    BY <1>4, <1>b, <2>1 DEF Finish, RowsAreOwned, closeVars
<1>5. ASSUME NEW n \in Node, NEW t \in Timer, Reply(n, t) PROVE RowsAreOwned'
  <2>1. CASE Ended(n)
    <3>1. rows' \subseteq At /\ \A x \in rows' : x[1] = n \/ x \in rows
      BY <1>5 DEF Reply, RowsAfter, TypeOK
    <3> QED
      BY <2>1, <3>1, OwnersEnded
  <2>2. CASE UNCHANGED <<life, held, running, rows, calls, handed>>
    BY <2>2, OwnersKept
  <2> QED
    BY <1>5, <2>1, <2>2 DEF Reply
<1>6. ASSUME NEW n \in Node, Rebalance(n) PROVE RowsAreOwned'
  <2> DEFINE moved == {t \in Timer : <<n, t>> \in held /\ Lookup(n, t) # n}
  <2>1. \A x \in At : Append(calls[x], "wipe") # <<>>
    BY <1>a, AppendProperties DEF CallTypes, Ops
  <2>2. calls' = [x \in At |-> IF x \in {n} \X moved THEN Append(calls[x], "wipe")
                                                     ELSE calls[x]]
    BY <1>6 DEF Rebalance
  <2>3. held' = held \ ({n} \X moved) /\ UNCHANGED <<life, running, rows, handed>>
    BY <1>6 DEF Rebalance, closeVars
  <2> HIDE DEF moved
  <2> QED
    BY <1>b, <2>1, <2>2, <2>3 DEF RowsAreOwned
<1>7. ASSUME NEW n \in Node, Evict(n) \/ Drain(n) \/ Destroy(n) PROVE RowsAreOwned'
  <2>1. \A m \in Node : life[m] = "down" => life'[m] = "down"
    BY <1>7 DEF Evict, Drain, Destroy, TypeOK
  <2> QED
    BY <1>7, <2>1, OwnersKept DEF Evict, Drain, Destroy, storeVars, closeVars
<1>8. ASSUME NEW n \in Node, Shutdown(n) PROVE RowsAreOwned'
  <2>1. \A m \in Node : life[m] = "down" => life'[m] = "down"
    BY <1>8 DEF Shutdown, TypeOK
  <2> QED
    BY <1>8, <2>1, OwnersKept DEF Shutdown
<1>9. ASSUME NEW n \in Node, Disconnect(n) PROVE RowsAreOwned'
  <2>1. rows' \subseteq At /\ \A x \in rows' : x[1] = n \/ x \in rows
    BY <1>9 DEF Disconnect, RowsAfter
  <2> QED
    BY <1>9, <2>1, OwnersEnded DEF Disconnect
<1>10. ASSUME NEW n \in Node, Crash(n) PROVE RowsAreOwned'
  BY <1>10, OwnersEnded DEF Crash, TypeOK
<1>11. ASSUME NEW n \in Node, Start(n) PROVE RowsAreOwned'
  <2> DEFINE mine == {t \in Timer : <<n, t>> \in rows}
  <2>1. PICK late \in SUBSET mine :
          /\ running' = running \cup ({n} \X late)
          /\ calls' = [x \in At |-> IF x \in {n} \X (mine \ late) THEN <<"put">> ELSE calls[x]]
    BY <1>11 DEF Start
  <2>2. UNCHANGED <<held, handed, rows>>
    BY <1>11 DEF Start, closeVars
  <2>3. \A m \in Node \ {n} : life'[m] = life[m]
    BY <1>11 DEF Start, TypeOK
  <2>4. ASSUME NEW x \in rows, x[1] = n PROVE x \in running' \/ calls'[x] # <<>>
    <3>1. x[2] \in mine
      BY <1>b, <2>4
    <3> HIDE DEF mine
    <3>2. CASE x[2] \in late
      BY <1>b, <2>1, <2>4, <3>2
    <3>3. CASE x[2] \notin late
      BY <1>b, <2>1, <2>4, <3>1, <3>3
    <3> QED
      BY <3>2, <3>3
  <2>5. ASSUME NEW x \in rows, x[1] # n PROVE calls'[x] = calls[x]
    BY <1>b, <2>1, <2>5
  <2> QED
    BY <1>b, <2>1, <2>2, <2>3, <2>4, <2>5 DEF RowsAreOwned
<1>12. ASSUME NEW m \in Node, NEW n \in Node,
              LearnGone(n, m) \/ LearnUp(n, m) \/ Doubt(n, m)
       PROVE  RowsAreOwned'
  BY <1>12, OwnersKept DEF LearnGone, LearnUp, Doubt, storeVars, closeVars
<1>13. ASSUME NEW p \in posts, Send(p) \/ Refuse(p) \/ Timeout(p) \/ Answered(p)
       PROVE  RowsAreOwned'
  BY <1>13, OwnersKept DEF Send, Refuse, Timeout, Answered, storeVars, closeVars
<1>14. ASSUME NEW p \in posts, Arrive(p) PROVE RowsAreOwned'
  <2>1. (posts \ {p}) \cup {[p EXCEPT !.at = "handling"]} \subseteq Posts
    BY <1>a, <1>b DEF PostTypes, Posts
  <2>2. /\ running \subseteq running'
        /\ \A x \in At : calls[x] # <<>> => calls'[x] # <<>>
    BY <1>14, <1>a, <1>b, <2>1, TakeType DEF Arrive, TypeOK, Backs
  <2> QED
    BY <1>14, <2>2, OwnersKept DEF Arrive, closeVars
<1>15. ASSUME NEW p \in posts, Reattempt(p) PROVE RowsAreOwned'
  <2>1. /\ running \subseteq running'
        /\ \A x \in At : calls[x] # <<>> => calls'[x] # <<>>
    <3>1. CASE Create(p.from, p.timer)
      BY <1>a, <1>b, <3>1, CreateType
    <3>2. CASE UNCHANGED <<calls, running, ran>>
      BY <3>2
    <3> QED
      BY <1>15, <3>1, <3>2 DEF Reattempt
  <2> QED
    BY <1>15, <2>1, OwnersKept DEF Reattempt, closeVars
<1>16. ASSUME NEW a \in asks, RouteAsk(a) PROVE RowsAreOwned'
  BY <1>16, OwnersKept DEF RouteAsk, storeVars
<1>17. ASSUME NEW a \in asks, HandleAsk(a) PROVE RowsAreOwned'
  <2>1. a.to \in Node
    BY <1>17, <1>b DEF HandleAsk, Asks
  <2>2. /\ running \subseteq running'
        /\ \A x \in At : calls[x] # <<>> => calls'[x] # <<>>
    BY <1>17, <1>a, <1>b, <2>1, TakeType DEF HandleAsk, TypeOK, Backs, PostTypes
  <2> QED
    BY <1>17, <2>2, OwnersKept DEF HandleAsk
<1>18. CASE UNCHANGED vars
  BY <1>18, OwnersKept DEF vars, storeVars, closeVars
<1> QED
  BY <1>1, <1>2, <1>3, <1>4, <1>5, <1>6, <1>7, <1>8, <1>9, <1>10, <1>11, <1>12, <1>13,
     <1>14, <1>15, <1>16, <1>17, <1>18
  DEF Next, Closing, Proxying

----------------------------------------------------------------------------
(* The state of a cluster has its types (the variables of Handoff). *)
THEOREM TypeCorrect == Spec => []TypeOK
<1>1. Init => TypeOK
  <2>1. [x \in At |-> <<>>] \in [At -> Seq(Ops)]
    BY EmptySeq
  <2> QED
    BY <2>1, HandoffAssumption DEF Init, TypeOK, Lives, Ops
<1> QED
  BY <1>1, TypeStep, PTL DEF Spec

(* Whatever crashes, moves and restarts there are, no running node has a   *)
(* row that nobody answers for: rebalance (381), shutdown (508) and        *)
(* kRemove (317) delete the rows of the records they take out of the Map.  *)
THEOREM RowsHaveOwners == Spec => []RowsAreOwned
<1>1. Init => RowsAreOwned
  BY DEF Init, RowsAreOwned
<1> QED
  BY <1>1, TypeCorrect, RowsStep, PTL DEF Spec

----------------------------------------------------------------------------
(* One place for each timer. *)

(* A step of Custody, for one timer. *)
Passes(t) ==
  \/ /\ client[t] = "unused" /\ client'[t] # "unused"
     /\ Keepers(t) = {} /\ \E k \in Keepers(t)' : Keepers(t)' = {k}
  \/ \E j \in Keepers(t) : \E k \in Keepers(t)' :
       /\ Keepers(t) = {j} /\ Keepers(t)' = {k}
       /\ j[1] = "node" => k[1] # "node"
  \/ Keepers(t)' = {}
  \/ Keepers(t)' = Keepers(t)

(* The places a call adds to the puts in flight. *)
LEMMA PutsAppended ==
  ASSUME CallTypes, NEW x \in At, NEW op \in Ops, calls'[x] = Append(calls[x], op)
  PROVE  /\ op # "put" => Puts(x)' = Puts(x)
         /\ op = "put" => Puts(x)' = Puts(x) \cup {Len(calls[x]) + 1}
         /\ calls'[x] # <<>>
<1>1. calls[x] \in Seq(Ops)
  BY DEF CallTypes
<1>2. DOMAIN calls[x] = 1..Len(calls[x]) /\ Len(calls[x]) \in Nat
  BY <1>1, LenProperties
<1>3. /\ DOMAIN calls'[x] = 1..(Len(calls[x]) + 1)
      /\ \A i \in 1..Len(calls[x]) : calls'[x][i] = calls[x][i]
      /\ calls'[x][Len(calls[x]) + 1] = op
      /\ calls'[x] # <<>>
  BY <1>1, <1>2, AppendProperties, LenProperties
<1> QED
  BY <1>2, <1>3 DEF Puts

(* The puts that are left when the oldest call is completed. *)
LEMMA PutsLeft ==
  ASSUME CallTypes, NEW x \in At, calls[x] # <<>>, calls'[x] = Tail(calls[x])
  PROVE  /\ \A i \in Puts(x)' : i \in Nat /\ i + 1 \in Puts(x) /\ i + 1 # 1
         /\ Head(calls[x]) = "put" => 1 \in Puts(x)
<1>1. calls[x] \in Seq(Ops)
  BY DEF CallTypes
<1>2. /\ Head(calls[x]) = calls[x][1] /\ Len(calls[x]) \in Nat /\ Len(calls[x]) # 0
      /\ DOMAIN calls[x] = 1..Len(calls[x])
      /\ Tail(calls[x]) \in Seq(Ops) /\ Len(Tail(calls[x])) = Len(calls[x]) - 1
      /\ \A i \in 1..Len(Tail(calls[x])) : Tail(calls[x])[i] = calls[x][i + 1]
  BY <1>1, HeadTailProperties, LenProperties, EmptySeq
<1>3. DOMAIN calls'[x] = 1..(Len(calls[x]) - 1)
  BY <1>2, LenProperties
<1>4. \A i \in 1..(Len(calls[x]) - 1) : calls'[x][i] = calls[x][i + 1]
  BY <1>2
<1> HIDE DEF Puts
<1>5. ASSUME NEW i \in Puts(x)'
      PROVE  i \in Nat /\ i + 1 \in Puts(x) /\ i + 1 # 1
  <2>1. i \in 1..(Len(calls[x]) - 1) /\ calls'[x][i] = "put"
    BY <1>3, <1>5 DEF Puts
  <2>2. i \in Nat /\ i + 1 \in 1..Len(calls[x]) /\ i + 1 # 1
    BY <2>1, <1>2
  <2>3. calls[x][i + 1] = "put"
    BY <2>1, <1>4
  <2> QED
    BY <2>2, <2>3, <1>2 DEF Puts
<1>6. Head(calls[x]) = "put" => 1 \in Puts(x)
  BY <1>2 DEF Puts
<1> QED
  BY <1>5, <1>6

(* No call, no put. *)
LEMMA NoPuts == ASSUME NEW x \in At, calls[x] = <<>> PROVE Puts(x) = {}
BY DEF Puts

(* The same, after a step. *)
LEMMA NoPutsAfter == ASSUME NEW x \in At, calls'[x] = <<>> PROVE Puts(x)' = {}
BY DEF Puts

(* What a node keeps depends on what it has of the timer. *)
LEMMA SameKept ==
  ASSUME NEW x \in At, (x \in held)' = (x \in held), (x \in rows)' = (x \in rows),
         (x \in handed)' = (x \in handed), calls'[x] = calls[x]
  PROVE  Keeps(x)' = Keeps(x) /\ Puts(x)' = Puts(x)
BY DEF Keeps, Puts

(* Who has a timer has it alone. *)
LEMMA Alone ==
  ASSUME OnePlace, NEW t \in Timer
  PROVE  /\ \A n \in Homes(t) :
              Keepers(t) = {<<"node", n>>} /\ Homes(t) = {n} /\ Requests(t) = {}
              /\ Questions(t) = {}
         /\ \A p \in Requests(t) :
              Keepers(t) = {<<"request", p>>} /\ Homes(t) = {} /\ Requests(t) = {p}
              /\ Questions(t) = {}
         /\ \A a \in Questions(t) :
              Keepers(t) = {<<"question", a>>} /\ Homes(t) = {} /\ Requests(t) = {}
              /\ Questions(t) = {a}
         /\ Keepers(t) = {} => Homes(t) = {} /\ Requests(t) = {} /\ Questions(t) = {}
<1> DEFINE H == Homes(t)  R == Requests(t)  Q == Questions(t)  K == Keepers(t)
<1>1. K = {<<"node", n>> : n \in H} \cup {<<"request", p>> : p \in R}
          \cup {<<"question", a>> : a \in Q}
  BY DEF Keepers
<1>2. \A j, k \in K : j = k
  BY DEF OnePlace
<1> HIDE DEF H, R, Q, K
<1>3. /\ \A n \in H : <<"node", n>> \in K
      /\ \A p \in R : <<"request", p>> \in K
      /\ \A a \in Q : <<"question", a>> \in K
  BY <1>1
<1>4. \A n \in H : K = {<<"node", n>>} /\ H = {n} /\ R = {} /\ Q = {}
  BY <1>2, <1>3
<1>5. \A p \in R : K = {<<"request", p>>} /\ H = {} /\ R = {p} /\ Q = {}
  BY <1>2, <1>3
<1>6. \A a \in Q : K = {<<"question", a>>} /\ H = {} /\ R = {} /\ Q = {a}
  BY <1>2, <1>3
<1>7. K = {} => H = {} /\ R = {} /\ Q = {}
  BY <1>3
<1> QED
  BY <1>4, <1>5, <1>6, <1>7 DEF H, R, Q, K

(* A timer that nothing new has stays where it is, or is gone. *)
LEMMA Fewer ==
  ASSUME OnePlace, NEW t \in Timer,
         Homes(t)' \subseteq Homes(t), Requests(t)' \subseteq Requests(t),
         Questions(t)' \subseteq Questions(t)
  PROVE  Passes(t)
<1>1. Keepers(t)' \subseteq Keepers(t)
  BY DEF Keepers
<1>2. \A j, k \in Keepers(t) : j = k
  BY DEF OnePlace
<1>3. Keepers(t)' = {} \/ Keepers(t)' = Keepers(t)
  <2> DEFINE K == Keepers(t)  L == Keepers(t)'
  <2>1. L \subseteq K /\ \A j, k \in K : j = k
    BY <1>1, <1>2
  <2> HIDE DEF K, L
  <2>2. L = {} \/ L = K
    BY <2>1
  <2> QED
    BY <2>2 DEF K, L
<1> QED
  BY <1>3 DEF Passes

(* A timer goes on to one other place. *)
LEMMA Onward ==
  ASSUME NEW t \in Timer, NEW j, NEW k,
         Keepers(t) = {j} \/ (Keepers(t) = {} /\ client[t] = "unused" /\ client'[t] # "unused"),
         Keepers(t) = {j} => (j[1] = "node" => k[1] # "node"),
         Keepers(t)' \subseteq {k}
  PROVE  Passes(t)
<1>1. CASE Keepers(t)' = {}
  BY <1>1 DEF Passes
<1>2. CASE Keepers(t)' = {k}
  <2> DEFINE K == Keepers(t)  L == Keepers(t)'
  <2>1. L = {k} /\ (K = {j} \/ (K = {} /\ client[t] = "unused" /\ client'[t] # "unused"))
        /\ (K = {j} => (j[1] = "node" => k[1] # "node"))
    BY <1>2
  <2>2. \/ /\ client[t] = "unused" /\ client'[t] # "unused"
           /\ K = {} /\ \E m \in L : L = {m}
        \/ \E i \in K : \E m \in L : K = {i} /\ L = {m} /\ (i[1] = "node" => m[1] # "node")
    <3> HIDE DEF K, L
    <3> QED BY <2>1
  <2> QED
    BY <2>2 DEF Passes
<1> QED
  BY <1>1, <1>2

(* A timer that has come to a node, to a request, to a question. *)
LEMMA ToNode ==
  ASSUME NEW t \in Timer, NEW n, Homes(t)' \subseteq {n}, Requests(t)' = {}, Questions(t)' = {}
  PROVE  Keepers(t)' \subseteq {<<"node", n>>}
BY DEF Keepers

(* A request is its only place. *)
LEMMA ToRequest ==
  ASSUME NEW t \in Timer, NEW p, Homes(t)' = {}, Requests(t)' \subseteq {p}, Questions(t)' = {}
  PROVE  Keepers(t)' \subseteq {<<"request", p>>}
BY DEF Keepers

(* A question is its only place. *)
LEMMA ToQuestion ==
  ASSUME NEW t \in Timer, NEW a, Homes(t)' = {}, Requests(t)' = {}, Questions(t)' \subseteq {a}
  PROVE  Keepers(t)' \subseteq {<<"question", a>>}
BY DEF Keepers

(* The requests that are left when one that was open is passed on. *)
LEMMA RequestsLeft ==
  ASSUME OnePlace, NEW p \in posts, p.timer \in Timer, Open(p), NEW P,
         \A q \in P : q.timer = p.timer,
         \A q \in posts' : Open(q) => q \in posts \ {p} \/ q \in P
  PROVE  /\ Requests(p.timer)' \subseteq {q \in P : Open(q)}
         /\ \A t \in Timer : t # p.timer => Requests(t)' \subseteq Requests(t)
         /\ Keepers(p.timer) = {<<"request", p>>} /\ Homes(p.timer) = {}
         /\ Questions(p.timer) = {}
<1>1. p \in Requests(p.timer)
  BY DEF Requests
<1>2. /\ Requests(p.timer) = {p} /\ Keepers(p.timer) = {<<"request", p>>}
      /\ Homes(p.timer) = {} /\ Questions(p.timer) = {}
  BY <1>1, Alone
<1>3. \A q \in posts : q.timer = p.timer /\ Open(q) => q = p
  BY <1>2 DEF Requests
<1> QED
  BY <1>2, <1>3 DEF Requests, Open

(* An open request is answered, fails, or is tried again elsewhere. *)
LEMMA RequestPasses ==
  ASSUME OnePlace, NEW p \in posts, p.timer \in Timer, Open(p), NEW p2, p2.timer = p.timer,
         \A q \in posts' : Open(q) => q \in posts \ {p} \/ q = p2,
         UNCHANGED <<held, rows, calls, handed, asks>>
  PROVE  \A t \in Timer : Passes(t)
<1>1. /\ Requests(p.timer)' \subseteq {p2}
      /\ \A t \in Timer : t # p.timer => Requests(t)' \subseteq Requests(t)
      /\ Keepers(p.timer) = {<<"request", p>>} /\ Homes(p.timer) = {}
      /\ Questions(p.timer) = {}
  <2>1. \A q \in {p2} : q.timer = p.timer
    OBVIOUS
  <2>2. \A q \in posts' : Open(q) => q \in posts \ {p} \/ q \in {p2}
    OBVIOUS
  <2> QED
    BY <2>1, <2>2, RequestsLeft
<1>2. \A t \in Timer : Homes(t)' = Homes(t) /\ Questions(t)' = Questions(t)
  BY DEF Homes, Keeps, Puts, Questions
<1>3. Keepers(p.timer)' \subseteq {<<"request", p2>>}
  BY <1>1, <1>2, ToRequest
<1>4. Passes(p.timer)
  BY <1>1, <1>3, Onward
<1>5. \A t \in Timer : t # p.timer => Passes(t)
  BY <1>1, <1>2, Fewer
<1> QED
  BY <1>4, <1>5

(* A request that fails opens no other. *)
LEMMA FailedOpen ==
  ASSUME NEW p, NEW others \in SUBSET Posts, Fail(p, others)
  PROVE  \A q \in posts' : Open(q) => q \in others
<1>1. \A q \in others : Failed(p, q) = q \/ ~Open(Failed(p, q))
  BY DEF Failed, Open, Posts
<1> QED
  BY <1>1 DEF Fail

(* Creating a timer disturbs no other, and stores it once. *)
LEMMA CreateKeeps ==
  ASSUME CallTypes, NEW n \in Node, NEW t \in Timer, Create(n, t),
         UNCHANGED <<held, rows, handed>>
  PROVE  /\ \A x \in At : x # <<n, t>> => /\ calls'[x] = calls[x] /\ Puts(x)' = Puts(x)
                                          /\ Keeps(x)' = Keeps(x)
         /\ ~Keeps(<<n, t>>) => \A i, j \in Puts(<<n, t>>)' : i = j
         /\ <<n, t>> \in held => Puts(<<n, t>>)' = Puts(<<n, t>>)
<1>0. <<n, t>> \in At
  BY DEF At
<1>1. CASE UNCHANGED calls
  BY <1>0, <1>1, SameKept DEF Keeps
<1>2. CASE Issue(n, t, "put") /\ <<n, t>> \notin held
  <2>1. \A x \in At : x # <<n, t>> => calls'[x] = calls[x]
    BY <1>2 DEF Issue, CallTypes
  <2>2. calls'[<<n, t>>] = Append(calls[<<n, t>>], "put")
    BY <1>0, <1>2 DEF Issue, CallTypes
  <2>3. Puts(<<n, t>>)' = Puts(<<n, t>>) \cup {Len(calls[<<n, t>>]) + 1}
    BY <1>0, <2>2, PutsAppended DEF Ops
  <2>4. ~Keeps(<<n, t>>) => Puts(<<n, t>>) = {}
    BY DEF Keeps
  <2> QED
    BY <1>2, <2>1, <2>3, <2>4, SameKept
<1> QED
  BY <1>1, <1>2 DEF Create

(* A node that takes a timer from one place keeps it, or asks another. *)
LEMMA TakePasses ==
  ASSUME TypeOK, OnePlace, NEW n \in Node, NEW t \in Timer, NEW b, NEW others, NEW j,
         Take(n, t, b, others), UNCHANGED <<held, rows, handed>>,
         \A q \in others : q.timer = t => ~Open(q),
         \A q \in others : Open(q) => q \in posts,
         \A u \in Timer : u # t => Questions(u)' \subseteq Questions(u),
         Questions(t)' = {}, Keepers(t) = {j}, j[1] # "node", Homes(t) = {}
  PROVE  \A u \in Timer : Passes(u)
<1>a. CallTypes
  BY DEF TypeOK, CallTypes, Ops
<1>1. CASE posts' = others /\ Create(n, t)
  <2>1. \A x \in At : x # <<n, t>> => Keeps(x)' = Keeps(x)
    BY <1>a, <1>1, CreateKeeps
  <2>2. \A u \in Timer : u # t => Homes(u)' = Homes(u)
    BY <2>1 DEF Homes, At
  <2>3. Homes(t)' \subseteq {n}
    BY <2>1 DEF Homes, At
  <2>4. Requests(t)' = {} /\ \A u \in Timer : u # t => Requests(u)' \subseteq Requests(u)
    BY <1>1 DEF Requests, Open
  <2>5. Keepers(t)' \subseteq {<<"node", n>>}
    BY <2>3, <2>4, ToNode
  <2>6. Passes(t)
    BY <2>5, Onward
  <2> QED
    BY <2>2, <2>4, <2>6, Fewer
<1>2. CASE /\ posts' = others \cup {Post(n, Lookup(n, t), t, b)}
           /\ UNCHANGED calls
  <2> DEFINE p == Post(n, Lookup(n, t), t, b)
  <2>0. p.timer = t
    BY DEF Post
  <2>1. \A u \in Timer : Homes(u)' = Homes(u)
    BY <1>2 DEF Homes, Keeps, Puts
  <2> HIDE DEF p
  <2>2. Requests(t)' \subseteq {p}
    BY <1>2 DEF Requests, Open, p
  <2>3. \A u \in Timer : u # t => Requests(u)' \subseteq Requests(u)
    <3>1. posts' = others \cup {p}
      BY <1>2 DEF p
    <3> QED
      BY <2>0, <3>1 DEF Requests, Open
  <2>4. Keepers(t)' \subseteq {<<"request", p>>}
    BY <2>1, <2>2, ToRequest
  <2>5. Passes(t)
    BY <2>4, Onward
  <2> QED
    BY <2>1, <2>3, <2>5, Fewer
<1> QED
  BY <1>1, <1>2 DEF Take

(* What the end of a process leaves: rows that were the timer's last place. *)
LEMMA EndedKeeps ==
  ASSUME TypeOK, NEW n \in Node, Ended(n), rows' \subseteq RowsAfter(n),
         \A x \in rows' : x[1] = n => x \notin handed
  PROVE  \A x \in At : Keeps(x)' => Keeps(x)
<1>1. CallTypes
  BY DEF TypeOK, CallTypes, Ops
<1> SUFFICES ASSUME NEW x \in At, Keeps(x)' PROVE Keeps(x)
  OBVIOUS
<1>2. CASE x[1] # n
  <2>1. calls'[x] = calls[x] /\ (x \in held' => x \in held) /\ (x \in handed => x \in handed')
        /\ (x \in rows' => x \in rows)
    BY <1>2 DEF Ended, RowsAfter
  <2> QED
    BY <2>1 DEF Keeps, Puts
<1>3. CASE x[1] = n
  <2>1. calls'[x] = <<>> /\ x \notin held'
    BY <1>3 DEF Ended
  <2>2. Puts(x)' = {}
    BY <2>1, NoPutsAfter
  <2>3. x \in rows' /\ x \notin handed
    BY <1>3, <2>1, <2>2 DEF Keeps
  <2>4. CASE calls[x] = <<>>
    BY <1>3, <2>3, <2>4 DEF RowsAfter, Keeps
  <2>5. CASE calls[x] # <<>>
    <3>1. calls[x] \in Seq(Ops)
      BY <1>1 DEF CallTypes
    <3>2. Len(calls[x]) \in DOMAIN calls[x]
      BY <2>5, <3>1, EmptySeq, LenProperties
    <3>3. calls[x][Len(calls[x])] = "put"
      BY <1>3, <2>3, <2>5 DEF RowsAfter
    <3> QED
      BY <3>2, <3>3 DEF Keeps, Puts
  <2> QED
    BY <2>4, <2>5
<1> QED
  BY <1>2, <1>3

----------------------------------------------------------------------------
(* Every step of a calm cluster passes each timer on, or leaves it. *)
LEMMA PlaceStep ==
  ASSUME TypeOK, CalmInv, Next, Calm'
  PROVE  \A t \in Timer : Passes(t)
<1>a. CallTypes
  BY DEF TypeOK, CallTypes, Ops
<1>b. /\ \A n \in Node, t \in Timer : <<n, t>> \in At
      /\ \A x \in At : x[1] \in Node /\ x[2] \in Timer /\ x = <<x[1], x[2]>>
      /\ \A p \in posts : /\ p \in Posts /\ p.from \in Node /\ p.to \in Node
                          /\ p.timer \in Timer
      /\ \A a \in asks : a \in Asks /\ a.timer \in Timer
  BY DEF At, TypeOK, Posts, Asks
<1>c. OnePlace /\ DeadIsEmpty /\ HandedByShutdown /\ StoredOnce /\ WorkIsReachable
      /\ FreshIsNowhere
  BY DEF CalmInv
<1>d. \A p : posts \ {p} \in SUBSET Posts
  BY DEF TypeOK
<1>1. ASSUME NEW n \in Node, NEW t \in Timer, Submit(n, t)
      PROVE  \A u \in Timer : Passes(u)
  <2>1. Keepers(t) = {} /\ client'[t] # "unused"
    BY <1>1, <1>c, HandoffAssumption DEF Submit, FreshIsNowhere, TypeOK
  <2>1a. client[t] = "unused"
    BY <1>1 DEF Submit
  <2>2. Homes(t) = {} /\ Requests(t) = {} /\ Questions(t) = {}
    BY <1>c, <2>1, Alone
  <2>3. UNCHANGED <<held, rows, handed, asks>>
    BY <1>1 DEF Submit, closeVars
  <2>4. \A u \in Timer : Questions(u)' = Questions(u)
    BY <2>3 DEF Questions
  <2>5. CASE Issue(n, t, "put") /\ UNCHANGED posts
    <3>1. \A x \in At : x # <<n, t>> => Keeps(x)' = Keeps(x)
      BY <1>a, <2>3, <2>5, SameKept DEF Issue, CallTypes
    <3>2. Homes(t)' \subseteq {n} /\ \A u \in Timer : u # t => Homes(u)' = Homes(u)
      BY <1>b, <2>2, <3>1 DEF Homes
    <3>3. \A u \in Timer : Requests(u)' = Requests(u)
      BY <2>5 DEF Requests
    <3>4. Keepers(t)' \subseteq {<<"node", n>>}
      BY <2>2, <2>4, <3>2, <3>3, ToNode
    <3>5. Passes(t)
      BY <2>1, <2>1a, <3>4, Onward
    <3> QED
      BY <1>c, <2>4, <3>2, <3>3, <3>5, Fewer
  <2>6. CASE posts' = posts \cup {Post(n, Lookup(n, t), t, "client")} /\ UNCHANGED calls
    <3> DEFINE p == Post(n, Lookup(n, t), t, "client")
    <3>1. p.timer = t
      BY DEF Post
    <3>2. \A u \in Timer : Homes(u)' = Homes(u)
      BY <2>3, <2>6 DEF Homes, Keeps, Puts
    <3> HIDE DEF p
    <3>3. Requests(t)' \subseteq {p} /\ \A u \in Timer : u # t => Requests(u)' \subseteq Requests(u)
      <4>1. posts' = posts \cup {p}
        BY <2>6 DEF p
      <4> QED
        BY <2>2, <3>1, <4>1 DEF Requests, Open
    <3>4. Keepers(t)' \subseteq {<<"request", p>>}
      BY <2>2, <2>4, <3>2, <3>3, ToRequest
    <3>5. Passes(t)
      BY <2>1, <2>1a, <3>4, Onward
    <3> QED
      BY <1>c, <2>4, <3>2, <3>3, <3>5, Fewer
  <2> QED
    BY <1>1, <2>5, <2>6 DEF Submit
<1>2. ASSUME NEW n \in Node, NEW t \in Timer, Stored(n, t)
      PROVE  \A u \in Timer : Passes(u)
  <2> DEFINE x == <<n, t>>
  <2>1. x \in At /\ calls[x] # <<>> /\ calls'[x] = Tail(calls[x])
    BY <1>2, <1>a, <1>b DEF Stored, CallTypes
  <2>2. \A y \in At : y # x => Keeps(y)' = Keeps(y)
    <3>1. \A y \in At : y # x => /\ calls'[y] = calls[y] /\ (y \in held') = (y \in held)
                                 /\ (y \in rows') = (y \in rows)
                                 /\ (y \in handed') = (y \in handed)
      BY <1>2, <1>a DEF Stored, CallTypes, closeVars
    <3> QED
      BY <3>1, SameKept
  <2>3. Keeps(x)' => Keeps(x)
    <3>1. CASE Head(calls[x]) = "put"
      BY <1>a, <2>1, <3>1, PutsLeft DEF Keeps
    <3>2. CASE Head(calls[x]) # "put"
      <4>1. x \notin rows' /\ (x \in held' => x \in held)
        BY <1>2, <3>2 DEF Stored
      <4>2. Puts(x)' # {} => Puts(x) # {}
        BY <1>a, <2>1, PutsLeft
      <4> QED
        BY <4>1, <4>2 DEF Keeps
    <3> QED
      BY <3>1, <3>2
  <2>4. \A u \in Timer : Homes(u)' \subseteq Homes(u)
    BY <1>b, <2>2, <2>3 DEF Homes
  <2>5. \A u \in Timer : Requests(u)' = Requests(u) /\ Questions(u)' = Questions(u)
    BY <1>2 DEF Stored, closeVars, Requests, Questions
  <2> QED
    BY <1>c, <2>4, <2>5, Fewer
<1>3. ASSUME UNCHANGED <<held, rows, calls, handed, asks>>, posts' \subseteq posts
      PROVE  \A u \in Timer : Passes(u)
  <2>1. \A u \in Timer : /\ Homes(u)' = Homes(u) /\ Requests(u)' \subseteq Requests(u)
                         /\ Questions(u)' = Questions(u)
    BY <1>3 DEF Homes, Keeps, Puts, Requests, Questions, Open
  <2> QED
    BY <1>c, <2>1, Fewer
<1>4. ASSUME NEW n \in Node, NEW t \in Timer, Finish(n, t)
      PROVE  \A u \in Timer : Passes(u)
  <2> DEFINE x == <<n, t>>
  <2>1. x \in At /\ calls'[x] = Append(calls[x], "del")
        /\ UNCHANGED <<held, rows, handed, posts, asks>>
        /\ \A y \in At : y # x => calls'[y] = calls[y]
    BY <1>4, <1>a, <1>b DEF Finish, Issue, CallTypes, closeVars
  <2>2. Puts(x)' = Puts(x) /\ calls'[x] # <<>>
    BY <1>a, <2>1, PutsAppended DEF Ops
  <2>3. \A y \in At : Keeps(y)' => Keeps(y)
    BY <2>1, <2>2, SameKept DEF Keeps
  <2>4. \A u \in Timer : Homes(u)' \subseteq Homes(u)
    BY <1>b, <2>3 DEF Homes
  <2>5. \A u \in Timer : Requests(u)' = Requests(u) /\ Questions(u)' = Questions(u)
    BY <2>1 DEF Requests, Questions
  <2> QED
    BY <1>c, <2>4, <2>5, Fewer
<1>5. ASSUME NEW n \in Node, NEW t \in Timer, Reply(n, t)
      PROVE  \A u \in Timer : Passes(u)
  <2>1. CASE Ended(n) /\ rows' = {x \in RowsAfter(n) : x[1] = n => x \notin handed}
    <3>1. \A x \in At : Keeps(x)' => Keeps(x)
      BY <2>1, EndedKeeps
    <3>2. \A u \in Timer : Homes(u)' \subseteq Homes(u)
      BY <1>b, <3>1 DEF Homes
    <3>3. \A u \in Timer : Requests(u)' \subseteq Requests(u) /\ Questions(u)' = Questions(u)
      BY <1>5, <2>1 DEF Reply, Ended, Requests, Questions, Open
    <3> QED
      BY <1>c, <3>2, <3>3, Fewer
  <2>2. CASE UNCHANGED <<held, rows, calls, handed, posts>>
    BY <1>3, <1>5, <2>2 DEF Reply
  <2> QED
    BY <1>5, <2>1, <2>2 DEF Reply
<1>6. ASSUME NEW n \in Node, Rebalance(n)
      PROVE  \A u \in Timer : Passes(u)
  <2> DEFINE moved == {t \in Timer : <<n, t>> \in held /\ Lookup(n, t) # n}
             p(t) == Post(n, Lookup(n, t), t, "nobody")
  <2>1. /\ held' = held \ ({n} \X moved)
        /\ calls' = [x \in At |-> IF x \in {n} \X moved THEN Append(calls[x], "wipe")
                                                        ELSE calls[x]]
        /\ posts' = posts \cup {p(t) : t \in moved}
        /\ UNCHANGED <<rows, handed, asks>>
    BY <1>6 DEF Rebalance, closeVars
  <2>2. \A t \in moved : t \in Timer /\ <<n, t>> \in held
    OBVIOUS
  <2>3. \A t \in Timer : p(t).timer = t
    BY DEF Post
  <2> HIDE DEF moved, p
  <2>3a. \A q \in posts' : q \in posts \/ \E t \in moved : q = p(t)
    BY <2>1
  <2>4. \A u \in Timer : Questions(u)' = Questions(u)
    BY <2>1 DEF Questions
  <2>5. ASSUME NEW u \in Timer, u \notin moved PROVE Passes(u)
    <3>1. \A m \in Node : Keeps(<<m, u>>)' = Keeps(<<m, u>>)
      BY <1>b, <2>1, <2>5, SameKept
    <3>2. Homes(u)' = Homes(u)
      BY <3>1 DEF Homes
    <3>3. Requests(u)' \subseteq Requests(u)
      BY <2>2, <2>3, <2>3a, <2>5 DEF Requests, Open
    <3> QED
      BY <1>c, <2>4, <3>2, <3>3, Fewer
  <2>6. ASSUME NEW u \in moved PROVE Passes(u)
    <3>0. u \in Timer /\ <<n, u>> \in held /\ <<n, u>> \in At
      BY <1>b, <2>2
    <3>1. n \in Homes(u)
      BY <3>0 DEF Homes, Keeps
    <3>2. /\ Keepers(u) = {<<"node", n>>} /\ Homes(u) = {n} /\ Requests(u) = {}
          /\ Questions(u) = {}
      BY <1>c, <3>0, <3>1, Alone
    <3>3. ~Keeps(<<n, u>>)'
      <4>1. calls'[<<n, u>>] = Append(calls[<<n, u>>], "wipe") /\ <<n, u>> \notin held'
        BY <2>1, <2>6, <3>0
      <4>2. Puts(<<n, u>>)' = Puts(<<n, u>>) /\ calls'[<<n, u>>] # <<>>
        BY <1>a, <3>0, <4>1, PutsAppended DEF Ops
      <4> QED
        BY <1>c, <3>0, <4>1, <4>2 DEF Keeps, StoredOnce
    <3>4. \A m \in Node : m # n => Keeps(<<m, u>>)' = Keeps(<<m, u>>)
      BY <1>b, <2>1, <3>0, SameKept
    <3>5. Homes(u)' = {}
      BY <3>2, <3>3, <3>4 DEF Homes
    <3>6. Requests(u)' \subseteq {p(u)}
      <4>1. \A q \in posts : ~(q.timer = u /\ Open(q))
        BY <3>2 DEF Requests
      <4>2. \A t \in moved : p(t).timer = t
        BY <2>2, <2>3
      <4>3. \A q \in posts' : q.timer = u /\ Open(q) => q = p(u)
        BY <2>3a, <4>1, <4>2
      <4> QED
        BY <4>3 DEF Requests, Open
    <3>7. Keepers(u)' \subseteq {<<"request", p(u)>>}
      BY <2>4, <3>0, <3>2, <3>5, <3>6, ToRequest
    <3> QED
      BY <3>0, <3>2, <3>7, Onward
  <2> QED
    BY <2>5, <2>6
<1>7. ASSUME NEW n \in Node, Shutdown(n)
      PROVE  \A u \in Timer : Passes(u)
  <2> DEFINE sent == {t \in Timer : <<n, t>> \in held}
             q(t) == [from |-> n, to |-> None, timer |-> t]
  <2>1. /\ held' = held \ ({n} \X sent) /\ handed' = handed \cup ({n} \X sent)
        /\ asks' = {a \in asks : a.to # n} \cup {q(t) : t \in sent}
        /\ UNCHANGED <<rows, calls, posts>>
    BY <1>7 DEF Shutdown
  <2>2. \A t \in Timer : t \in sent <=> <<n, t>> \in held
    OBVIOUS
  <2>3. \A t \in Timer : q(t).timer = t
    OBVIOUS
  <2>3a. sent \subseteq Timer
    OBVIOUS
  <2> HIDE DEF sent, q
  <2>4. \A u \in Timer : Requests(u)' = Requests(u)
    BY <2>1 DEF Requests
  <2>5. ASSUME NEW u \in Timer, u \notin sent PROVE Passes(u)
    <3>1. \A m \in Node : Keeps(<<m, u>>)' = Keeps(<<m, u>>)
      BY <1>b, <2>1, <2>5, SameKept
    <3>2. Homes(u)' = Homes(u)
      BY <3>1 DEF Homes
    <3>3. Questions(u)' \subseteq Questions(u)
      BY <2>1, <2>3, <2>3a, <2>5 DEF Questions
    <3> QED
      BY <1>c, <2>4, <3>2, <3>3, Fewer
  <2>6. ASSUME NEW u \in sent PROVE Passes(u)
    <3>0. u \in Timer /\ <<n, u>> \in held /\ <<n, u>> \in At
      BY <1>b, <2>2, <2>3a
    <3>1. n \in Homes(u)
      BY <3>0 DEF Homes, Keeps
    <3>2. /\ Keepers(u) = {<<"node", n>>} /\ Homes(u) = {n} /\ Requests(u) = {}
          /\ Questions(u) = {}
      BY <1>c, <3>0, <3>1, Alone
    <3>3. ~Keeps(<<n, u>>)'
      BY <1>c, <2>1, <2>6, <3>0 DEF Keeps, StoredOnce, Puts
    <3>4. \A m \in Node : m # n => Keeps(<<m, u>>)' = Keeps(<<m, u>>)
      BY <1>b, <2>1, <3>0, SameKept
    <3>5. Homes(u)' = {}
      BY <3>2, <3>3, <3>4 DEF Homes
    <3>6. Questions(u)' \subseteq {q(u)}
      <4>1. \A a \in asks : a.timer # u
        BY <3>2 DEF Questions
      <4> QED
        BY <2>1, <2>3, <2>3a, <4>1 DEF Questions
    <3>7. Keepers(u)' \subseteq {<<"question", q(u)>>}
      BY <2>4, <3>0, <3>2, <3>5, <3>6, ToQuestion
    <3> QED
      BY <3>0, <3>2, <3>7, Onward
  <2> QED
    BY <2>5, <2>6
<1>8. ASSUME NEW n \in Node, Disconnect(n)
      PROVE  \A u \in Timer : Passes(u)
  <2>1. Ended(n) /\ rows' = RowsAfter(n) /\ \A x \in handed : x[1] # n
    BY <1>8, <1>c DEF Disconnect, HandedByShutdown
  <2>2. \A x \in At : Keeps(x)' => Keeps(x)
    BY <2>1, EndedKeeps
  <2>3. \A u \in Timer : Homes(u)' \subseteq Homes(u)
    BY <1>b, <2>2 DEF Homes
  <2>4. \A u \in Timer : Requests(u)' \subseteq Requests(u) /\ Questions(u)' \subseteq Questions(u)
    BY <1>8, <2>1 DEF Disconnect, Ended, Requests, Questions, Open
  <2> QED
    BY <1>c, <2>3, <2>4, Fewer
<1>9. ASSUME NEW n \in Node, Start(n)
      PROVE  \A u \in Timer : Passes(u)
  <2> DEFINE mine == {t \in Timer : <<n, t>> \in rows}
  <2>1. /\ life[n] = "down" /\ UNCHANGED <<held, rows, handed, posts, asks>>
        /\ \A x \in At : ~(x[1] = n /\ x \in rows) => calls'[x] = calls[x]
    BY <1>9, <1>a, <1>b DEF Start, closeVars, CallTypes
  <2>2. \A x \in At : Keeps(x)' => Keeps(x)
    <3>1. ASSUME NEW x \in At, x[1] = n, x \in rows PROVE Keeps(x)
      BY <1>c, <2>1, <3>1 DEF Keeps, DeadIsEmpty, HandedByShutdown
    <3>2. ASSUME NEW x \in At, ~(x[1] = n /\ x \in rows) PROVE Keeps(x)' = Keeps(x)
      BY <2>1, <3>2, SameKept
    <3> QED
      BY <3>1, <3>2
  <2>3. \A u \in Timer : Homes(u)' \subseteq Homes(u)
    BY <1>b, <2>2 DEF Homes
  <2>4. \A u \in Timer : Requests(u)' = Requests(u) /\ Questions(u)' = Questions(u)
    BY <2>1 DEF Requests, Questions
  <2> QED
    BY <1>c, <2>3, <2>4, Fewer
<1>10. ASSUME NEW p \in posts, Send(p) PROVE \A u \in Timer : Passes(u)
  <2> DEFINE p2 == [p EXCEPT !.at = "sent", !.sum = view[p.from]]
  <2>1. Open(p) /\ p2.timer = p.timer
    BY <1>10, <1>b DEF Send, Open, Posts
  <2>2. \A q \in posts' : Open(q) => q \in posts \ {p} \/ q = p2
    BY <1>10, <1>d, FailedOpen DEF Send
  <2>3. UNCHANGED <<held, rows, calls, handed, asks>>
    BY <1>10 DEF Send, storeVars, closeVars
  <2> QED
    BY <1>b, <1>c, <2>1, <2>2, <2>3, RequestPasses
<1>11. ASSUME NEW p \in posts, Refuse(p) PROVE \A u \in Timer : Passes(u)
  <2> DEFINE p2 == [p EXCEPT !.at = "waiting"]
  <2>1. Open(p) /\ p2.timer = p.timer
    BY <1>11, <1>b, <1>c DEF Refuse, WorkIsReachable, Open, Posts
  <2>2. \A q \in posts' : Open(q) => q \in posts \ {p} \/ q = p2
    BY <1>11, <1>d, FailedOpen DEF Refuse, Retry
  <2>3. UNCHANGED <<held, rows, calls, handed, asks>>
    BY <1>11 DEF Refuse, storeVars, closeVars
  <2> QED
    BY <1>b, <1>c, <2>1, <2>2, <2>3, RequestPasses
<1>12. ASSUME NEW p \in posts, Arrive(p) PROVE \A u \in Timer : Passes(u)
  <2> DEFINE others == (posts \ {p}) \cup {[p EXCEPT !.at = "handling"]}
  <2>1. /\ Open(p) /\ Take(p.to, p.timer, "peer", others)
        /\ UNCHANGED <<held, rows, handed, asks>>
    BY <1>12 DEF Arrive, Open, closeVars
  <2>2. p \in Requests(p.timer)
    BY <2>1 DEF Requests
  <2>3. /\ Keepers(p.timer) = {<<"request", p>>} /\ Homes(p.timer) = {}
        /\ Requests(p.timer) = {p} /\ Questions(p.timer) = {}
    BY <1>b, <1>c, <2>2, Alone
  <2>4. ~Open([p EXCEPT !.at = "handling"])
    BY <1>b DEF Posts, Open
  <2>5. \A q \in others : (q.timer = p.timer => ~Open(q)) /\ (Open(q) => q \in posts)
    BY <2>3, <2>4 DEF Requests
  <2>6. \A u \in Timer : Questions(u)' = Questions(u)
    BY <2>1 DEF Questions
  <2>7. <<"request", p>>[1] # "node"
    OBVIOUS
  <2> HIDE DEF others
  <2> QED
    BY <1>b, <1>c, <2>1, <2>3, <2>5, <2>6, <2>7, TakePasses
<1>13. ASSUME NEW p \in posts, Answered(p) PROVE \A u \in Timer : Passes(u)
  <2>1. UNCHANGED <<held, rows, calls, handed, asks>>
    BY <1>13 DEF Answered, storeVars, closeVars
  <2>2. \A q \in posts' : Open(q) => q \in posts
    BY <1>13, <1>d, FailedOpen DEF Answered
  <2>3. \A u \in Timer : /\ Homes(u)' = Homes(u) /\ Requests(u)' \subseteq Requests(u)
                         /\ Questions(u)' = Questions(u)
    BY <2>1, <2>2 DEF Homes, Keeps, Puts, Requests, Questions, Open
  <2> QED
    BY <1>c, <2>3, Fewer
<1>14. ASSUME NEW p \in posts, Reattempt(p) PROVE \A u \in Timer : Passes(u)
  <2> DEFINE to == Lookup(p.from, p.timer)
             next == [p EXCEPT !.to = to, !.tries = @ + 1]
             p2 == [next EXCEPT !.at = "ready"]
  <2>1. Open(p) /\ p2.timer = p.timer /\ ~Open([next EXCEPT !.at = "handling"])
    BY <1>14, <1>b DEF Reattempt, Open, Posts
  <2>2. UNCHANGED <<held, rows, handed, asks>>
    BY <1>14 DEF Reattempt, closeVars
  <2>3. CASE posts' = (posts \ {p}) \cup {p2} /\ UNCHANGED calls
    <3>1. \A q \in posts' : Open(q) => q \in posts \ {p} \/ q = p2
      BY <2>3
    <3> HIDE DEF p2
    <3> QED
      BY <1>b, <1>c, <2>1, <2>2, <2>3, <3>1, RequestPasses
  <2>4. CASE /\ posts' = (posts \ {p}) \cup {[next EXCEPT !.at = "handling"]}
             /\ Create(p.from, p.timer)
    <3>1. \A q \in posts' : Open(q) => q \in posts \ {p} \/ q \in {}
      BY <2>1, <2>4
    <3>2. /\ Requests(p.timer)' \subseteq {}
          /\ \A t \in Timer : t # p.timer => Requests(t)' \subseteq Requests(t)
          /\ Keepers(p.timer) = {<<"request", p>>} /\ Homes(p.timer) = {}
          /\ Questions(p.timer) = {}
      <4>1. \A q \in {} : q.timer = p.timer
        OBVIOUS
      <4>2. {q \in {} : Open(q)} = {}
        OBVIOUS
      <4> QED
        BY <1>b, <1>c, <2>1, <3>1, <4>1, <4>2, RequestsLeft
    <3>3. \A x \in At : x # <<p.from, p.timer>> => Keeps(x)' = Keeps(x)
      <4>1. UNCHANGED <<held, rows, handed>> /\ p.from \in Node /\ p.timer \in Timer
        BY <1>b, <2>2
      <4> QED
        BY <1>a, <2>4, <4>1, CreateKeeps
    <3>4. /\ Homes(p.timer)' \subseteq {p.from}
          /\ \A u \in Timer : u # p.timer => Homes(u)' = Homes(u)
      BY <1>b, <3>2, <3>3 DEF Homes
    <3>5. \A u \in Timer : Questions(u)' = Questions(u)
      BY <2>2 DEF Questions
    <3>6. Keepers(p.timer)' \subseteq {<<"node", p.from>>}
      BY <1>b, <3>2, <3>4, <3>5, ToNode
    <3>7. Passes(p.timer)
      <4>1. <<"request", p>>[1] # "node"
        OBVIOUS
      <4> QED
        BY <1>b, <3>2, <3>6, <4>1, Onward
    <3> QED
      BY <1>c, <3>2, <3>4, <3>5, <3>7, Fewer
  <2> QED
    BY <1>14, <2>3, <2>4 DEF Reattempt
<1>15. ASSUME NEW a \in asks, RouteAsk(a) PROVE \A u \in Timer : Passes(u)
  <2>0. UNCHANGED <<held, rows, calls, handed, posts>>
    BY <1>15 DEF RouteAsk, storeVars
  <2>1. \A u \in Timer : Homes(u)' = Homes(u) /\ Requests(u)' = Requests(u)
    BY <2>0 DEF Homes, Keeps, Puts, Requests
  <2>2. a \in Questions(a.timer)
    BY DEF Questions
  <2>3. /\ Keepers(a.timer) = {<<"question", a>>} /\ Homes(a.timer) = {}
        /\ Requests(a.timer) = {} /\ Questions(a.timer) = {a}
    BY <1>b, <1>c, <2>2, Alone
  <2>4. PICK a2 : a2.timer = a.timer /\ asks' \subseteq (asks \ {a}) \cup {a2}
    BY <1>15, <1>b DEF RouteAsk, Asks
  <2>5. /\ Questions(a.timer)' \subseteq {a2}
        /\ \A u \in Timer : u # a.timer => Questions(u)' \subseteq Questions(u)
    BY <2>3, <2>4 DEF Questions
  <2>6. Keepers(a.timer)' \subseteq {<<"question", a2>>}
    BY <1>b, <2>1, <2>3, <2>5, ToQuestion
  <2>7. Passes(a.timer)
    BY <1>b, <2>3, <2>6, Onward
  <2> QED
    BY <1>c, <2>1, <2>5, <2>7, Fewer
<1>16. ASSUME NEW a \in asks, HandleAsk(a) PROVE \A u \in Timer : Passes(u)
  <2>1. /\ asks' = asks \ {a} /\ Take(a.to, a.timer, "nobody", posts)
        /\ UNCHANGED <<held, rows, handed>> /\ a.to \in Node
    BY <1>16, <1>b DEF HandleAsk, Asks
  <2>2. a \in Questions(a.timer)
    BY DEF Questions
  <2>3. /\ Keepers(a.timer) = {<<"question", a>>} /\ Homes(a.timer) = {}
        /\ Requests(a.timer) = {} /\ Questions(a.timer) = {a}
    BY <1>b, <1>c, <2>2, Alone
  <2>4. \A q \in posts : q.timer = a.timer => ~Open(q)
    BY <2>3 DEF Requests
  <2>5. Questions(a.timer)' = {} /\ \A u \in Timer : Questions(u)' \subseteq Questions(u)
    BY <2>1, <2>3 DEF Questions
  <2>6. <<"question", a>>[1] # "node"
    OBVIOUS
  <2> QED
    BY <1>b, <1>c, <2>1, <2>3, <2>4, <2>5, <2>6, TakePasses
<1>17. ASSUME NEW n \in Node, Crash(n) PROVE FALSE
  BY <1>17 DEF Crash, Calm, TypeOK
<1>18. ASSUME NEW p \in posts, Timeout(p) PROVE FALSE
  BY <1>18 DEF Timeout, Calm, TypeOK
<1>19. ASSUME NEW n \in Node, NEW t \in Timer, Fire(n, t) PROVE \A u \in Timer : Passes(u)
  BY <1>3, <1>19 DEF Fire, closeVars
<1>20. ASSUME NEW n \in Node, Evict(n) \/ Drain(n) \/ Destroy(n)
       PROVE  \A u \in Timer : Passes(u)
  BY <1>3, <1>20 DEF Evict, Drain, Destroy, storeVars, closeVars
<1>21. ASSUME NEW m \in Node, NEW n \in Node,
              LearnGone(n, m) \/ LearnUp(n, m) \/ Doubt(n, m)
       PROVE  \A u \in Timer : Passes(u)
  BY <1>3, <1>21 DEF LearnGone, LearnUp, Doubt, storeVars, closeVars
<1> QED
  BY <1>1, <1>2, <1>4, <1>5, <1>6, <1>7, <1>8, <1>9, <1>10, <1>11, <1>12, <1>13, <1>14,
     <1>15, <1>16, <1>17, <1>18, <1>19, <1>20, <1>21
  DEF Next, Closing, Proxying

----------------------------------------------------------------------------
(* What the handlers do to the requests: one that was there keeps its ends, *)
(* one that is new comes from the node that handles.                        *)
LEMMA FailedEnds ==
  ASSUME NEW p, NEW others \in SUBSET Posts, Fail(p, others)
  PROVE  \A q \in posts' : \E r \in others :
           /\ q.from = r.from /\ q.to = r.to
           /\ q.at = r.at \/ (q.at = "failed" /\ r.at = "handling")
<1>1. \A r \in others : /\ Failed(p, r).from = r.from /\ Failed(p, r).to = r.to
                        /\ Failed(p, r).at = r.at
                           \/ (Failed(p, r).at = "failed" /\ r.at = "handling")
  BY DEF Failed, Posts
<1> QED
  BY <1>1 DEF Fail

(* No timer is "unused" again. *)
LEMMA ClientStep ==
  ASSUME TypeOK, Next
  PROVE  \A t \in Timer : client'[t] = "unused" => client[t] = "unused"
<1> SUFFICES ASSUME NEW u \in Timer, client'[u] = "unused" PROVE client[u] = "unused"
  OBVIOUS
<1>a. /\ client \in [Timer -> {"unused", "acked", "refused"} \cup Node]
      /\ "unused" \notin Node
      /\ \A p \in posts : p.timer \in Timer
  BY HandoffAssumption DEF TypeOK, Posts
<1>b. ASSUME NEW p \in posts, NEW what \in {"acked", "refused"}, Told(p, what)
      PROVE  client[u] = "unused"
  BY <1>a, <1>b DEF Told
<1>c. ASSUME NEW p \in posts, NEW others, Fail(p, others) PROVE client[u] = "unused"
  BY <1>b, <1>c DEF Fail
<1>1. ASSUME NEW n \in Node, Ended(n) PROVE client[u] = "unused"
  BY <1>1 DEF Ended
<1>2. ASSUME NEW n \in Node, NEW t \in Timer,
             Submit(n, t) \/ Stored(n, t) \/ Fire(n, t) \/ Finish(n, t) \/ Reply(n, t)
      PROVE  client[u] = "unused"
  BY <1>a, <1>1, <1>2 DEF Submit, Stored, Fire, Finish, Reply
<1>3. ASSUME NEW n \in Node,
             Rebalance(n) \/ Evict(n) \/ Closing(n) \/ Crash(n) \/ Start(n)
      PROVE  client[u] = "unused"
  BY <1>1, <1>3
  DEF Rebalance, Evict, Closing, Drain, Destroy, Shutdown, Disconnect, Crash, Start
<1>4. ASSUME NEW m \in Node, NEW n \in Node,
             LearnGone(n, m) \/ LearnUp(n, m) \/ Doubt(n, m)
      PROVE  client[u] = "unused"
  BY <1>4 DEF LearnGone, LearnUp, Doubt
<1>5. ASSUME NEW p \in posts, Proxying(p) \/ Timeout(p) PROVE client[u] = "unused"
  BY <1>b, <1>c, <1>5
  DEF Proxying, Timeout, Send, Refuse, Arrive, Answered, Reattempt, Retry
<1>6. ASSUME NEW a \in asks, RouteAsk(a) \/ HandleAsk(a) PROVE client[u] = "unused"
  BY <1>6 DEF RouteAsk, HandleAsk
<1> QED
  BY <1>2, <1>3, <1>4, <1>5, <1>6 DEF Next

(* A timer that passes has one place, and none as long as it is fresh. *)
LEMMA PassesOne ==
  ASSUME OnePlace, FreshIsNowhere, \A t \in Timer : Passes(t),
         \A t \in Timer : client'[t] = "unused" => client[t] = "unused"
  PROVE  OnePlace' /\ FreshIsNowhere'
<1>1. OnePlace'
  <2> SUFFICES ASSUME NEW t \in Timer PROVE \A j, k \in Keepers(t)' : j = k
    BY DEF OnePlace
  <2>1. Keepers(t)' = {} \/ Keepers(t)' = Keepers(t) \/ \E k : Keepers(t)' = {k}
    BY DEF Passes
  <2>2. \A j, k \in Keepers(t) : j = k
    BY DEF OnePlace
  <2> QED
    BY <2>1, <2>2
<1>2. FreshIsNowhere'
  <2> SUFFICES ASSUME NEW t \in Timer, client'[t] = "unused" PROVE Keepers(t)' = {}
    BY DEF FreshIsNowhere
  <2>1. Keepers(t) = {}
    BY DEF FreshIsNowhere
  <2> QED
    BY <2>1 DEF Passes
<1> QED
  BY <1>1, <1>2

(* Who keeps no timer has neither a record nor a put of it. *)
LEMMA NoHome ==
  ASSUME NEW t \in Timer, NEW n \in Node, Homes(t) = {}
  PROVE  ~Keeps(<<n, t>>) /\ <<n, t>> \notin held /\ Puts(<<n, t>>) = {}
BY DEF Homes, Keeps

----------------------------------------------------------------------------
(* StoredOnce is kept: a put is issued for a timer that the node has not. *)
LEMMA OnceStep ==
  ASSUME TypeOK, CalmInv, Next, Calm'
  PROVE  StoredOnce'
<1>a. CallTypes
  BY DEF TypeOK, CallTypes, Ops
<1>b. /\ \A n \in Node, t \in Timer : <<n, t>> \in At
      /\ \A x \in At : x[1] \in Node /\ x[2] \in Timer /\ x = <<x[1], x[2]>>
      /\ \A p \in posts : /\ p \in Posts /\ p.from \in Node /\ p.to \in Node
                          /\ p.timer \in Timer
      /\ \A a \in asks : a \in Asks /\ a.timer \in Timer
  BY DEF At, TypeOK, Posts, Asks
<1>c. OnePlace /\ DeadIsEmpty /\ HandedByShutdown /\ FreshIsNowhere
      /\ \A x \in At : /\ \A i, j \in Puts(x) : i = j
                       /\ x \in held => Puts(x) = {}
  BY DEF CalmInv, StoredOnce
<1>d. ASSUME \A x \in At : (x \in held' => x \in held) /\ (Puts(x)' \subseteq Puts(x))
      PROVE  StoredOnce'
  BY <1>c, <1>d DEF StoredOnce
<1>1. ASSUME UNCHANGED calls, held' \subseteq held PROVE StoredOnce'
  BY <1>1, <1>d DEF Puts
<1>2. ASSUME NEW n \in Node, NEW t \in Timer, Homes(t) = {}, Create(n, t),
             UNCHANGED <<held, rows, handed>>
      PROVE  StoredOnce'
  <2>1. ~Keeps(<<n, t>>) /\ <<n, t>> \notin held
    BY <1>2, NoHome
  <2>2. \A i, j \in Puts(<<n, t>>)' : i = j
    BY <1>a, <1>2, <2>1, CreateKeeps
  <2>3. \A x \in At : x # <<n, t>> => Puts(x)' = Puts(x)
    BY <1>a, <1>2, CreateKeeps
  <2> QED
    BY <1>c, <1>2, <2>1, <2>2, <2>3 DEF StoredOnce
<1>3. ASSUME NEW n \in Node, NEW t \in Timer, NEW b, NEW others,
             Homes(t) = {}, Take(n, t, b, others), UNCHANGED <<held, rows, handed>>
      PROVE  StoredOnce'
  BY <1>1, <1>2, <1>3 DEF Take
<1>4. ASSUME NEW n \in Node, Ended(n) PROVE StoredOnce'
  <2>1. held' \subseteq held
    BY <1>4 DEF Ended
  <2>2. \A x \in At : calls'[x] = calls[x] \/ calls'[x] = <<>>
    BY <1>4 DEF Ended
  <2>3. \A x \in At : Puts(x)' \subseteq Puts(x)
    BY <2>2 DEF Puts
  <2> QED
    BY <1>d, <2>1, <2>3
<1>5. ASSUME NEW n \in Node, NEW t \in Timer, Submit(n, t) PROVE StoredOnce'
  <2>1. Homes(t) = {} /\ UNCHANGED <<held, rows, handed>>
    BY <1>5, <1>c, Alone DEF Submit, FreshIsNowhere, closeVars
  <2>2. CASE UNCHANGED calls
    BY <1>1, <2>1, <2>2
  <2>3. CASE Issue(n, t, "put")
    <3>1. /\ \A x \in At : x # <<n, t>> => calls'[x] = calls[x]
          /\ calls'[<<n, t>>] = Append(calls[<<n, t>>], "put")
      BY <1>a, <1>b, <2>3 DEF Issue, CallTypes
    <3>2. Puts(<<n, t>>)' = Puts(<<n, t>>) \cup {Len(calls[<<n, t>>]) + 1}
      BY <1>a, <1>b, <3>1, PutsAppended DEF Ops
    <3>3. \A x \in At : x # <<n, t>> => Puts(x)' = Puts(x)
      BY <3>1 DEF Puts
    <3>4. Puts(<<n, t>>) = {} /\ <<n, t>> \notin held
      BY <2>1, NoHome
    <3> QED
      BY <1>c, <2>1, <3>2, <3>3, <3>4 DEF StoredOnce
  <2> QED
    BY <1>5, <2>2, <2>3 DEF Submit
<1>6. ASSUME NEW n \in Node, NEW t \in Timer, Stored(n, t) PROVE StoredOnce'
  <2> DEFINE x == <<n, t>>
  <2>1. x \in At /\ calls[x] # <<>> /\ calls'[x] = Tail(calls[x])
        /\ \A y \in At : y # x => calls'[y] = calls[y] /\ (y \in held' => y \in held)
    BY <1>6, <1>a, <1>b DEF Stored, CallTypes
  <2>2. \A y \in At : y # x => Puts(y)' = Puts(y)
    BY <2>1 DEF Puts
  <2>3. /\ \A i \in Puts(x)' : i \in Nat /\ i + 1 \in Puts(x) /\ i + 1 # 1
        /\ Head(calls[x]) = "put" => 1 \in Puts(x)
    BY <1>a, <2>1, PutsLeft
  <2>4. \A i, j \in Puts(x)' : i = j
    <3> SUFFICES ASSUME NEW i \in Puts(x)', NEW j \in Puts(x)' PROVE i = j
      OBVIOUS
    <3>1. i \in Nat /\ j \in Nat /\ i + 1 = j + 1
      BY <1>c, <2>1, <2>3
    <3> QED
      BY <3>1
  <2>5. x \in held' => Puts(x)' = {}
    <3>1. CASE Head(calls[x]) = "put"
      BY <1>c, <2>1, <2>3, <3>1
    <3>2. CASE Head(calls[x]) # "put"
      <4>1. x \in held' => x \in held
        BY <1>6, <3>2 DEF Stored
      <4> QED
        BY <1>c, <2>1, <2>3, <4>1
    <3> QED
      BY <3>1, <3>2
  <2> HIDE DEF x
  <2> QED
    BY <1>c, <2>1, <2>2, <2>4, <2>5 DEF StoredOnce
<1>7. ASSUME NEW n \in Node, NEW t \in Timer, Finish(n, t) PROVE StoredOnce'
  <2> DEFINE x == <<n, t>>
  <2>1. x \in At /\ calls'[x] = Append(calls[x], "del") /\ UNCHANGED held
        /\ \A y \in At : y # x => calls'[y] = calls[y]
    BY <1>7, <1>a, <1>b DEF Finish, Issue, CallTypes
  <2>2. Puts(x)' = Puts(x)
    BY <1>a, <2>1, PutsAppended DEF Ops
  <2>3. \A y \in At : y # x => Puts(y)' = Puts(y)
    BY <2>1 DEF Puts
  <2> QED
    BY <1>d, <2>1, <2>2, <2>3
<1>8. ASSUME NEW n \in Node, Rebalance(n) PROVE StoredOnce'
  <2>1. \A x \in At : calls'[x] = calls[x] \/ calls'[x] = Append(calls[x], "wipe")
    BY <1>8 DEF Rebalance
  <2>2. \A x \in At : Puts(x)' = Puts(x)
    <3> SUFFICES ASSUME NEW x \in At PROVE Puts(x)' = Puts(x)
      OBVIOUS
    <3>1. CASE calls'[x] = calls[x]
      BY <3>1 DEF Puts
    <3>2. CASE calls'[x] = Append(calls[x], "wipe")
      BY <1>a, <3>2, PutsAppended DEF Ops
    <3> QED
      BY <2>1, <3>1, <3>2
  <2>3. held' \subseteq held
    BY <1>8 DEF Rebalance
  <2> QED
    BY <1>d, <2>2, <2>3
<1>9. ASSUME NEW n \in Node, Start(n) PROVE StoredOnce'
  <2>1. /\ UNCHANGED held /\ life[n] = "down"
        /\ \A x \in At : x[1] # n => calls'[x] = calls[x]
        /\ \A x \in At : calls'[x] = calls[x] \/ calls'[x] = <<"put">>
    BY <1>9, <1>b DEF Start
  <2>2. ASSUME NEW x \in At, x[1] # n PROVE Puts(x)' = Puts(x)
    BY <2>1, <2>2 DEF Puts
  <2>3. ASSUME NEW x \in At, x[1] = n
        PROVE  x \notin held' /\ \A i, j \in Puts(x)' : i = j
    <3>1. calls[x] = <<>> /\ x \notin held
      BY <1>c, <2>1, <2>3 DEF DeadIsEmpty
    <3>2. CASE calls'[x] = <<>>
      BY <2>1, <3>1, <3>2, NoPutsAfter
    <3>3. CASE calls'[x] = <<"put">>
      <4>1. DOMAIN <<"put">> = {1}
        OBVIOUS
      <4> QED
        BY <2>1, <3>1, <3>3, <4>1 DEF Puts
    <3> QED
      BY <2>1, <3>1, <3>2, <3>3
  <2> QED
    BY <1>c, <2>1, <2>2, <2>3 DEF StoredOnce
<1>10. ASSUME NEW p \in posts, Arrive(p) PROVE StoredOnce'
  <2>1. p \in Requests(p.timer)
    BY <1>10 DEF Arrive, Requests, Open
  <2>2. Homes(p.timer) = {}
    BY <1>b, <1>c, <2>1, Alone
  <2> QED
    BY <1>b, <1>3, <1>10, <2>2 DEF Arrive, closeVars
<1>11. ASSUME NEW p \in posts, Reattempt(p) PROVE StoredOnce'
  <2>1. p \in Requests(p.timer)
    BY <1>11 DEF Reattempt, Requests, Open
  <2>2. Homes(p.timer) = {}
    BY <1>b, <1>c, <2>1, Alone
  <2>3. UNCHANGED <<held, rows, handed>> /\ (Create(p.from, p.timer) \/ UNCHANGED calls)
    BY <1>11 DEF Reattempt, closeVars
  <2> QED
    BY <1>b, <1>1, <1>2, <2>2, <2>3
<1>12. ASSUME NEW a \in asks, HandleAsk(a) PROVE StoredOnce'
  <2>1. a \in Questions(a.timer)
    BY DEF Questions
  <2>2. Homes(a.timer) = {}
    BY <1>b, <1>c, <2>1, Alone
  <2>3. a.to \in Node /\ Take(a.to, a.timer, "nobody", posts) /\ UNCHANGED <<held, rows, handed>>
    BY <1>b, <1>12 DEF HandleAsk, Asks
  <2> QED
    BY <1>b, <1>3, <2>2, <2>3
<1>13. ASSUME NEW n \in Node, NEW t \in Timer, Fire(n, t) PROVE StoredOnce'
  BY <1>1, <1>13 DEF Fire
<1>14. ASSUME NEW n \in Node, NEW t \in Timer, Reply(n, t) PROVE StoredOnce'
  BY <1>1, <1>4, <1>14 DEF Reply
<1>15. ASSUME NEW n \in Node, Evict(n) \/ Closing(n) \/ Crash(n) PROVE StoredOnce'
  BY <1>1, <1>4, <1>15
  DEF Evict, Closing, Drain, Destroy, Shutdown, Disconnect, Crash, storeVars
<1>16. ASSUME NEW m \in Node, NEW n \in Node,
              LearnGone(n, m) \/ LearnUp(n, m) \/ Doubt(n, m)
       PROVE  StoredOnce'
  BY <1>1, <1>16 DEF LearnGone, LearnUp, Doubt, storeVars
<1>17. ASSUME NEW p \in posts, Send(p) \/ Refuse(p) \/ Answered(p) \/ Timeout(p)
       PROVE  StoredOnce'
  BY <1>1, <1>17 DEF Send, Refuse, Answered, Timeout, storeVars
<1>18. ASSUME NEW a \in asks, RouteAsk(a) PROVE StoredOnce'
  BY <1>1, <1>18 DEF RouteAsk, storeVars
<1> QED
  BY <1>5, <1>6, <1>7, <1>8, <1>9, <1>10, <1>11, <1>12, <1>13, <1>14, <1>15, <1>16,
     <1>17, <1>18
  DEF Next, Proxying

----------------------------------------------------------------------------
(* ArmedIsHeld is kept by every step. *)
LEMMA ArmedStep ==
  ASSUME TypeOK, ArmedIsHeld, Next
  PROVE  ArmedIsHeld'
<1>1. ASSUME NEW n \in Node, Ended(n) PROVE ArmedIsHeld'
  BY <1>1 DEF Ended, ArmedIsHeld
<1>2. ASSUME NEW n \in Node, NEW t \in Timer,
             Submit(n, t) \/ Stored(n, t) \/ Fire(n, t) \/ Finish(n, t) \/ Reply(n, t)
      PROVE  ArmedIsHeld'
  BY <1>1, <1>2 DEF Submit, Stored, Fire, Finish, Reply, ArmedIsHeld
<1>3. ASSUME NEW n \in Node,
             Rebalance(n) \/ Evict(n) \/ Closing(n) \/ Crash(n) \/ Start(n)
      PROVE  ArmedIsHeld'
  BY <1>1, <1>3
  DEF Rebalance, Evict, Closing, Drain, Destroy, Shutdown, Disconnect, Crash, Start,
      storeVars, ArmedIsHeld
<1>4. ASSUME NEW m \in Node, NEW n \in Node,
             LearnGone(n, m) \/ LearnUp(n, m) \/ Doubt(n, m)
      PROVE  ArmedIsHeld'
  BY <1>4 DEF LearnGone, LearnUp, Doubt, storeVars, ArmedIsHeld
<1>5. ASSUME NEW p \in posts, Proxying(p) \/ Timeout(p) PROVE ArmedIsHeld'
  BY <1>5
  DEF Proxying, Timeout, Send, Refuse, Arrive, Answered, Reattempt, storeVars, ArmedIsHeld
<1>6. ASSUME NEW a \in asks, RouteAsk(a) \/ HandleAsk(a) PROVE ArmedIsHeld'
  BY <1>6 DEF RouteAsk, HandleAsk, storeVars, ArmedIsHeld
<1> QED
  BY <1>2, <1>3, <1>4, <1>5, <1>6 DEF Next

----------------------------------------------------------------------------
(* Nothing comes to a dead process: what is new is with a node that lives. *)
LEMMA DeadKept ==
  ASSUME DeadIsEmpty,
         \A m \in Node : life'[m] = "down" => life[m] = "down",
         \A x \in At : life[x[1]] = "down" =>
           /\ calls'[x] = calls[x]
           /\ x \in (held \cup running)' => x \in held \cup running,
         \A q \in posts' : q.from \in Node,
         \A q \in posts' : (\E p \in posts : p.from = q.from) \/ life[q.from] # "down"
  PROVE  DeadIsEmpty'
<1>1. \A x \in At : x[1] \in Node
  BY DEF At
<1> QED
  BY <1>1 DEF DeadIsEmpty

(* Issuing and creating is done by nodes that live. *)
LEMMA TakeDead ==
  ASSUME CallTypes, NEW n \in Node, NEW t \in Timer, NEW b, NEW others,
         life[n] # "down", Take(n, t, b, others) \/ Create(n, t), UNCHANGED held
  PROVE  \A x \in At : life[x[1]] = "down" =>
           /\ calls'[x] = calls[x]
           /\ x \in (held \cup running)' => x \in held \cup running
<1>1. <<n, t>>[1] = n
  OBVIOUS
<1>2. CASE Create(n, t)
  BY <1>1, <1>2 DEF Create, Issue, CallTypes
<1>3. CASE UNCHANGED <<calls, running>>
  BY <1>3
<1> QED
  BY <1>2, <1>3 DEF Take

(* DeadIsEmpty is kept: only nodes that live act. *)
LEMMA DeadStep ==
  ASSUME TypeOK, CalmInv, Next
  PROVE  DeadIsEmpty'
<1>a. CallTypes
  BY DEF TypeOK, CallTypes, Ops
<1>b. /\ \A n \in Node, t \in Timer : <<n, t>> \in At /\ <<n, t>>[1] = n
      /\ \A x \in At : x[1] \in Node
      /\ \A p \in posts : /\ p \in Posts /\ p.from \in Node /\ p.to \in Node
                          /\ p.timer \in Timer
      /\ \A a \in asks : a \in Asks /\ a.timer \in Timer
      /\ \A p : posts \ {p} \in SUBSET Posts
      /\ life \in [Node -> Lives]
  BY DEF At, TypeOK, Posts, Asks
<1>c. /\ \A x \in At : life[x[1]] = "down" => calls[x] = <<>> /\ x \notin held \cup running
      /\ \A p \in posts : life[p.from] # "down"
      /\ armed \subseteq held /\ HandedByShutdown
  BY DEF CalmInv, DeadIsEmpty, ArmedIsHeld
<1>d. DeadIsEmpty
  BY DEF CalmInv
<1>1. ASSUME NEW n \in Node, Ended(n) PROVE DeadIsEmpty'
  BY <1>1, <1>b, <1>c DEF Ended, DeadIsEmpty
<1>2. ASSUME NEW n \in Node, NEW t \in Timer, Submit(n, t) PROVE DeadIsEmpty'
  <2>1. life[n] # "down" /\ UNCHANGED <<life, held, running>>
    BY <1>2 DEF Submit
  <2>2. \A x \in At : life[x[1]] = "down" => calls'[x] = calls[x]
    BY <1>2, <1>a, <1>b, <2>1 DEF Submit, Issue, CallTypes
  <2>3. \A q \in posts' : q \in posts \/ q.from = n
    BY <1>2 DEF Submit, Post
  <2> QED
    BY <1>b, <1>d, <2>1, <2>2, <2>3, DeadKept
<1>3. ASSUME NEW n \in Node, NEW t \in Timer, Stored(n, t) PROVE DeadIsEmpty'
  <2>1. life[n] # "down" /\ UNCHANGED <<life, running, posts>>
    BY <1>3, <1>b, <1>c DEF Stored
  <2>2. \A x \in At : x # <<n, t>> => calls'[x] = calls[x] /\ (x \in held' => x \in held)
    BY <1>3, <1>a DEF Stored, CallTypes
  <2> QED
    BY <1>b, <1>d, <2>1, <2>2, DeadKept
<1>4. ASSUME NEW n \in Node, NEW t \in Timer, Fire(n, t) PROVE DeadIsEmpty'
  <2>1. life[n] # "down" /\ UNCHANGED <<life, held, calls, posts>>
    BY <1>4, <1>b, <1>c DEF Fire
  <2> QED
    BY <1>4, <1>b, <1>d, <2>1, DeadKept DEF Fire
<1>5. ASSUME NEW n \in Node, NEW t \in Timer, Finish(n, t) PROVE DeadIsEmpty'
  <2>1. life[n] # "down" /\ UNCHANGED <<life, held, posts>>
    BY <1>5, <1>b, <1>c DEF Finish
  <2>2. \A x \in At : x # <<n, t>> => calls'[x] = calls[x]
    BY <1>5, <1>a DEF Finish, Issue, CallTypes
  <2> QED
    BY <1>5, <1>b, <1>d, <2>1, <2>2, DeadKept DEF Finish
<1>6. ASSUME NEW n \in Node, NEW t \in Timer, Reply(n, t) PROVE DeadIsEmpty'
  <2>1. CASE UNCHANGED <<life, held, running, calls, posts>>
    BY <1>b, <1>d, <2>1, DeadKept
  <2> QED
    BY <1>1, <1>6, <2>1 DEF Reply
<1>7. ASSUME NEW n \in Node, Rebalance(n) PROVE DeadIsEmpty'
  <2> DEFINE moved == {t \in Timer : <<n, t>> \in held /\ Lookup(n, t) # n}
  <2>1. life[n] # "down" /\ UNCHANGED <<life, running>> /\ held' \subseteq held
    BY <1>7 DEF Rebalance
  <2>2. \A x \in At : x[1] # n => calls'[x] = calls[x]
    BY <1>7 DEF Rebalance
  <2>3. \A q \in posts' : q \in posts \/ q.from = n
    <3>1. \A t : Post(n, Lookup(n, t), t, "nobody").from = n
      BY DEF Post
    <3> QED
      BY <1>7, <3>1 DEF Rebalance
  <2> QED
    BY <1>b, <1>d, <2>1, <2>2, <2>3, DeadKept
<1>8. ASSUME NEW n \in Node, Evict(n) \/ Drain(n) \/ Destroy(n) \/ Shutdown(n)
      PROVE  DeadIsEmpty'
  <2>1. /\ \A m \in Node : life'[m] = "down" => life[m] = "down"
        /\ UNCHANGED <<running, calls>> /\ held' \subseteq held /\ posts' \subseteq posts
    BY <1>8, <1>b DEF Evict, Drain, Destroy, Shutdown, storeVars
  <2> QED
    BY <1>b, <1>d, <2>1, DeadKept
<1>9. ASSUME NEW n \in Node, Disconnect(n) \/ Crash(n) PROVE DeadIsEmpty'
  BY <1>1, <1>9 DEF Disconnect, Crash
<1>10. ASSUME NEW n \in Node, Start(n) PROVE DeadIsEmpty'
  <2>1. /\ UNCHANGED <<held, posts>>
        /\ life'[n] = "up" /\ \A m \in Node : m # n => life'[m] = life[m]
        /\ \A x \in At : x[1] # n => /\ calls'[x] = calls[x]
                                     /\ x \in running' => x \in running
    BY <1>10, <1>b DEF Start
  <2> QED
    BY <1>b, <1>c, <2>1 DEF DeadIsEmpty
<1>11. ASSUME NEW m \in Node, NEW n \in Node,
              LearnGone(n, m) \/ LearnUp(n, m) \/ Doubt(n, m)
       PROVE  DeadIsEmpty'
  BY <1>11, <1>b, <1>d, DeadKept DEF LearnGone, LearnUp, Doubt, storeVars
<1>12. ASSUME NEW p \in posts, Send(p) \/ Refuse(p) \/ Answered(p) \/ Timeout(p)
       PROVE  DeadIsEmpty'
  <2>1. UNCHANGED <<life, held, running, calls>>
    BY <1>12 DEF Send, Refuse, Answered, Timeout, storeVars
  <2>2. \A q \in posts' : \E r \in posts : r.from = q.from
    <3>1. ASSUME NEW others \in SUBSET Posts, Fail(p, others),
                 \A r \in others : \E s \in posts : s.from = r.from
          PROVE  \A q \in posts' : \E r \in posts : r.from = q.from
      BY <3>1, FailedEnds
    <3>2. \A q \in posts \ {p} : q \in posts
      OBVIOUS
    <3>3. /\ [p EXCEPT !.at = "sent", !.sum = view[p.from]].from = p.from
          /\ [p EXCEPT !.at = "waiting"].from = p.from
      BY <1>b DEF Posts
    <3>4. CASE Send(p)
      BY <1>b, <3>1, <3>2, <3>3, <3>4 DEF Send
    <3>5. CASE Refuse(p)
      <4>1. posts \ {p} \in SUBSET Posts
            /\ \A r \in posts \ {p} : \E s \in posts : s.from = r.from
        BY <1>b, <3>2
      <4>2. Retry(p, posts \ {p})
        BY <3>5 DEF Refuse
      <4>3. CASE Fail(p, posts \ {p})
        BY <3>1, <4>1, <4>3
      <4>4. CASE posts' = (posts \ {p}) \cup {[p EXCEPT !.at = "waiting"]}
        BY <3>2, <3>3, <4>4
      <4> QED
        BY <4>2, <4>3, <4>4 DEF Retry
    <3>6. CASE Answered(p)
      BY <1>b, <3>1, <3>2, <3>6 DEF Answered
    <3>7. CASE Timeout(p)
      <4> DEFINE p2 == [p EXCEPT !.back = "nobody", !.tries = MaxRetries]
                 others == (posts \ {p}) \cup {p2}
      <4>1. p2 \in Posts /\ p2.from = p.from
        BY <1>b, HandoffAssumption DEF Posts
      <4>2. others \in SUBSET Posts /\ \A r \in others : \E s \in posts : s.from = r.from
        BY <1>b, <4>1
      <4>3. Retry(p, others)
        BY <3>7 DEF Timeout
      <4> HIDE DEF others
      <4> QED
        BY <3>1, <3>3, <4>2, <4>3 DEF Retry
    <3> QED
      BY <1>12, <3>4, <3>5, <3>6, <3>7
  <2> QED
    BY <1>b, <1>d, <2>1, <2>2, DeadKept
<1>13. ASSUME NEW p \in posts, Arrive(p) PROVE DeadIsEmpty'
  <2> DEFINE others == (posts \ {p}) \cup {[p EXCEPT !.at = "handling"]}
  <2>1. /\ life[p.to] # "down" /\ UNCHANGED <<life, held>>
        /\ Take(p.to, p.timer, "peer", others)
    BY <1>13 DEF Arrive
  <2>2. \A q \in others : \E r \in posts : r.from = q.from
    BY <1>b DEF Posts
  <2> HIDE DEF others
  <2>3. \A q \in posts' : q \in others \/ q.from = p.to
    BY <2>1 DEF Take, Post
  <2>4. \A x \in At : life[x[1]] = "down" =>
           /\ calls'[x] = calls[x]
           /\ x \in (held \cup running)' => x \in held \cup running
    BY <1>a, <1>b, <2>1, TakeDead
  <2> QED
    BY <1>b, <1>d, <2>1, <2>2, <2>3, <2>4, DeadKept
<1>14. ASSUME NEW p \in posts, Reattempt(p) PROVE DeadIsEmpty'
  <2>1. life[p.from] # "down" /\ UNCHANGED <<life, held>>
    BY <1>14, <1>c DEF Reattempt
  <2>2. \A q \in posts' : \E r \in posts : r.from = q.from
    <3> DEFINE to == Lookup(p.from, p.timer)
               next == [p EXCEPT !.to = to, !.tries = @ + 1]
    <3>1. /\ [next EXCEPT !.at = "ready"].from = p.from
          /\ [next EXCEPT !.at = "handling"].from = p.from
      <4> HIDE DEF to
      <4> QED
        BY <1>b DEF Posts
    <3>2. \A q \in posts' : \/ q \in posts \/ q = [next EXCEPT !.at = "ready"]
                            \/ q = [next EXCEPT !.at = "handling"]
      BY <1>14 DEF Reattempt
    <3> HIDE DEF next
    <3> QED
      BY <3>1, <3>2
  <2>3. Create(p.from, p.timer) \/ UNCHANGED <<calls, running>>
    BY <1>14 DEF Reattempt
  <2>4. \A x \in At : life[x[1]] = "down" =>
           /\ calls'[x] = calls[x]
           /\ x \in (held \cup running)' => x \in held \cup running
    BY <1>a, <1>b, <2>1, <2>3, TakeDead
  <2> QED
    BY <1>b, <1>d, <2>1, <2>2, <2>4, DeadKept
<1>15. ASSUME NEW a \in asks, RouteAsk(a) PROVE DeadIsEmpty'
  BY <1>15, <1>b, <1>d, DeadKept DEF RouteAsk, storeVars
<1>16. ASSUME NEW a \in asks, HandleAsk(a) PROVE DeadIsEmpty'
  <2>1. /\ a.to \in Node /\ life[a.to] # "down" /\ UNCHANGED <<life, held>>
        /\ Take(a.to, a.timer, "nobody", posts)
    BY <1>16, <1>b, <1>c DEF HandleAsk, HandedByShutdown, Subscribed, Asks
  <2>2. \A q \in posts' : q \in posts \/ q.from = a.to
    BY <2>1 DEF Take, Post
  <2>3. \A x \in At : life[x[1]] = "down" =>
           /\ calls'[x] = calls[x]
           /\ x \in (held \cup running)' => x \in held \cup running
    BY <1>a, <1>b, <2>1, TakeDead
  <2> QED
    BY <1>b, <1>d, <2>1, <2>2, <2>3, DeadKept
<1> QED
  BY <1>2, <1>3, <1>4, <1>5, <1>6, <1>7, <1>8, <1>9, <1>10, <1>11, <1>12, <1>13, <1>14,
     <1>15, <1>16
  DEF Next, Closing, Proxying

----------------------------------------------------------------------------
(* HandedByShutdown is kept: a node that shuts down hears of its own
   questions only, each once, and it is there until the last reply. *)
LEMMA ShutdownStep ==
  ASSUME TypeOK, CalmInv, Next, Calm'
  PROVE  HandedByShutdown'
<1>b. /\ \A n \in Node, t \in Timer : <<n, t>> \in At /\ <<n, t>>[1] = n /\ <<n, t>>[2] = t
      /\ \A a \in asks : a \in Asks /\ a.timer \in Timer
      /\ \A a \in asks : a.to \in Node \cup {None} /\ a.from \in Node \cup {None}
      /\ \A x \in handed \cup replies : x \in At /\ x[1] \in Node /\ x = <<x[1], x[2]>>
      /\ life \in [Node -> Lives]
      /\ None \notin Node
  BY HandoffAssumption DEF At, TypeOK, Asks
<1>c. /\ \A x \in handed \cup replies : life[x[1]] = "shutting"
      /\ \A a \in asks : a.to # None => Subscribed(a.to)
      /\ \A a \in asks : a.from # None => /\ life[a.from] = "shutting"
                                          /\ <<a.from, a.timer>> \in awaited \ replies
      /\ OnePlace
  BY DEF CalmInv, HandedByShutdown
<1>d. \A a, d \in asks : a.timer = d.timer => a = d
  <2> SUFFICES ASSUME NEW a \in asks, NEW d \in asks, a.timer = d.timer PROVE a = d
    OBVIOUS
  <2>1. a \in Questions(a.timer) /\ d \in Questions(a.timer)
    BY DEF Questions
  <2> QED
    BY <1>b, <1>c, <2>1, Alone
<1>1. ASSUME \A m \in Node : life'[m] = "shutting" <=> life[m] = "shutting",
             \A m \in Node : Subscribed(m) => Subscribed(m)',
             UNCHANGED closeVars
      PROVE  HandedByShutdown'
  BY <1>1, <1>b, <1>c DEF HandedByShutdown, closeVars
<1>2. ASSUME NEW n \in Node, NEW t \in Timer, Reply(n, t) PROVE HandedByShutdown'
  <2>1. <<n, t>> \in replies /\ life[n] = "shutting" /\ asks' = asks
    BY <1>2, <1>b, <1>c DEF Reply
  <2>2. CASE /\ UNCHANGED <<life, handed>>
             /\ replies' = replies \ {<<n, t>>} /\ awaited' = awaited \ {<<n, t>>}
    BY <1>c, <2>1, <2>2 DEF HandedByShutdown, Subscribed
  <2>3. CASE /\ {x \in awaited : x[1] = n} \ {<<n, t>>} = {}
             /\ replies' = {x \in replies : x[1] # n} /\ Ended(n)
    <3>1. ASSUME NEW a \in asks PROVE a.to # n /\ a.from # n
      <4>1. a.to # n
        BY <1>b, <1>c, <2>1 DEF Subscribed
      <4>2. a.from # n
        <5> SUFFICES ASSUME a.from = n PROVE FALSE
          OBVIOUS
        <5>1. a.from # None /\ <<a.from, a.timer>>[1] = n
          BY <1>b
        <5>2. <<a.from, a.timer>> \in awaited \ replies
          BY <1>c, <5>1
        <5> QED
          BY <2>1, <2>3, <5>1, <5>2
      <4> QED
        BY <4>1, <4>2
    <3>2. /\ \A m \in Node : m # n => life'[m] = life[m]
          /\ handed' = {x \in handed : x[1] # n} /\ awaited' = {x \in awaited : x[1] # n}
      BY <1>b, <2>3 DEF Ended
    <3>3. \A x \in (handed \cup replies)' : x \in handed \cup replies /\ x[1] # n
      BY <2>3, <3>2
    <3>4. \A x \in (handed \cup replies)' : life'[x[1]] = "shutting"
      BY <1>b, <1>c, <3>2, <3>3
    <3>5. \A a \in asks : a.to # None => Subscribed(a.to)'
      BY <1>b, <1>c, <3>1, <3>2 DEF Subscribed
    <3>6. ASSUME NEW a \in asks, a.from # None
          PROVE  life'[a.from] = "shutting" /\ <<a.from, a.timer>> \in awaited' \ replies'
      <4>1. a.from \in Node /\ a.from # n /\ <<a.from, a.timer>>[1] # n
        BY <1>b, <3>1, <3>6
      <4> QED
        BY <1>c, <2>3, <3>2, <3>6, <4>1
    <3> QED
      BY <2>1, <3>4, <3>5, <3>6 DEF HandedByShutdown
  <2> QED
    BY <1>2, <2>2, <2>3 DEF Reply
<1>3. ASSUME NEW n \in Node, Shutdown(n) PROVE HandedByShutdown'
  <2> DEFINE sent == {t \in Timer : <<n, t>> \in held}
             q(t) == [from |-> n, to |-> None, timer |-> t]
  <2>1. /\ life[n] = "destroyed" /\ life' = [life EXCEPT ![n] = "shutting"]
        /\ handed' = handed \cup ({n} \X sent) /\ awaited' = awaited \cup ({n} \X sent)
        /\ asks' = {a \in asks : a.to # n} \cup {q(t) : t \in sent}
        /\ UNCHANGED replies
    BY <1>3 DEF Shutdown
  <2>2. \A t \in Timer : q(t).from = n /\ q(t).to = None /\ q(t).timer = t
    OBVIOUS
  <2>2a. sent \subseteq Timer
    OBVIOUS
  <2> HIDE DEF sent, q
  <2>3. life'[n] = "shutting" /\ \A m \in Node : m # n => life'[m] = life[m]
    BY <1>b, <2>1
  <2>4. \A x \in (handed \cup replies)' : life'[x[1]] = "shutting"
    BY <1>b, <1>c, <2>1, <2>3
  <2>5. ASSUME NEW a \in asks'
        PROVE  \/ a \in asks /\ a.to # n
               \/ a.from = n /\ a.to = None /\ a.timer \in sent
    BY <2>1, <2>2, <2>2a
  <2>6. ASSUME NEW a \in asks', a.to # None PROVE Subscribed(a.to)'
    BY <1>b, <1>c, <2>3, <2>5, <2>6 DEF Subscribed
  <2>7. ASSUME NEW a \in asks', a.from # None
        PROVE  life'[a.from] = "shutting" /\ <<a.from, a.timer>> \in awaited' \ replies'
    <3>1. CASE a \in asks
      BY <1>b, <1>c, <2>1, <2>3, <2>7, <3>1
    <3>2. CASE a.from = n /\ a.timer \in sent
      <4>1. <<n, a.timer>> \in awaited'
        BY <2>1, <3>2
      <4>2. <<n, a.timer>> \notin replies
        BY <1>b, <1>c, <2>1, <2>2a, <3>2
      <4> QED
        BY <2>1, <2>3, <3>2, <4>1, <4>2
    <3> QED
      BY <2>5, <3>1, <3>2
  <2> QED
    BY <2>4, <2>6, <2>7 DEF HandedByShutdown
<1>4. ASSUME NEW n \in Node, Disconnect(n) PROVE HandedByShutdown'
  <2> DEFINE A == {a \in asks : a.to = n}
  <2>1. /\ life[n] = "destroyed" /\ asks' = {a \in asks : a.to # n}
        /\ replies' = replies \cup Answers(A)
        /\ \A m \in Node : m # n => life'[m] = life[m]
        /\ handed' = {x \in handed : x[1] # n} /\ awaited' = {x \in awaited : x[1] # n}
    BY <1>4, <1>b DEF Disconnect, Ended
  <2>2. \A x \in Answers(A) : \E a \in asks : /\ a.to = n /\ a.from # None
                                              /\ x = <<a.from, a.timer>>
    BY DEF Answers
  <2> HIDE DEF A
  <2>3. \A a \in asks : a.from # n
    <3>1. n # None
      BY <1>b
    <3> QED
      BY <1>c, <2>1, <3>1
  <2>4. \A x \in handed \cup replies : x[1] # n
    BY <1>c, <2>1
  <2>5. \A x \in (handed \cup replies)' : life'[x[1]] = "shutting"
    <3>1. \A x \in handed \cup replies : life'[x[1]] = "shutting"
      BY <1>b, <1>c, <2>1, <2>4
    <3>2. ASSUME NEW x \in Answers(A) PROVE life'[x[1]] = "shutting"
      <4>1. PICK a \in asks : a.from # None /\ x = <<a.from, a.timer>>
        BY <2>2
      <4>2. a.from \in Node /\ a.from # n /\ x[1] = a.from
        BY <1>b, <2>3, <4>1
      <4> QED
        BY <1>c, <2>1, <4>1, <4>2
    <3> QED
      BY <2>1, <3>1, <3>2
  <2>6. \A a \in asks' : a.to # None => Subscribed(a.to)'
    BY <1>b, <1>c, <2>1 DEF Subscribed
  <2>7. ASSUME NEW a \in asks', a.from # None
        PROVE  life'[a.from] = "shutting" /\ <<a.from, a.timer>> \in awaited' \ replies'
    <3>1. a \in asks /\ a.to # n /\ a.from \in Node /\ a.from # n
      BY <1>b, <2>1, <2>3, <2>7
    <3>2. <<a.from, a.timer>> \notin Answers(A)
      <4> SUFFICES ASSUME <<a.from, a.timer>> \in Answers(A) PROVE FALSE
        OBVIOUS
      <4>1. PICK d \in asks : d.to = n /\ <<a.from, a.timer>> = <<d.from, d.timer>>
        BY <2>2
      <4> QED
        BY <1>d, <3>1, <4>1
    <3>3. <<a.from, a.timer>>[1] # n
      BY <3>1
    <3> QED
      BY <1>c, <2>1, <2>7, <3>1, <3>2, <3>3
  <2> QED
    BY <2>5, <2>6, <2>7 DEF HandedByShutdown
<1>5. ASSUME NEW n \in Node, Start(n) PROVE HandedByShutdown'
  <2>1. /\ life[n] = "down" /\ life'[n] = "up" /\ \A m \in Node : m # n => life'[m] = life[m]
        /\ UNCHANGED closeVars
    BY <1>5, <1>b DEF Start
  <2> QED
    BY <1>1, <2>1 DEF Subscribed
<1>6. ASSUME NEW a \in asks, RouteAsk(a) PROVE HandedByShutdown'
  <2>1. UNCHANGED <<life, handed, awaited, replies>>
    BY <1>6 DEF RouteAsk
  <2>2. \A d \in asks' : \/ d \in asks
                         \/ d.from = a.from /\ d.timer = a.timer /\ Subscribed(d.to)
    BY <1>6, <1>b DEF RouteAsk, Asks
  <2> QED
    BY <1>c, <2>1, <2>2 DEF HandedByShutdown, Subscribed
<1>7. ASSUME NEW a \in asks, HandleAsk(a) PROVE HandedByShutdown'
  <2>1. /\ UNCHANGED <<life, handed, awaited>> /\ asks' = asks \ {a}
        /\ replies' = replies \cup Answers({a})
    BY <1>7 DEF HandleAsk
  <2>2. \A x \in Answers({a}) : a.from # None /\ x = <<a.from, a.timer>>
    BY DEF Answers
  <2>3. \A x \in (handed \cup replies)' : life'[x[1]] = "shutting"
    <3>1. \A x \in Answers({a}) : life[x[1]] = "shutting"
      BY <1>c, <2>2
    <3> QED
      BY <1>c, <2>1, <3>1
  <2>4. \A d \in asks' : d.from # None => <<d.from, d.timer>> \in awaited' \ replies'
    BY <1>c, <1>d, <2>1, <2>2
  <2> QED
    BY <1>c, <2>1, <2>3, <2>4 DEF HandedByShutdown, Subscribed
<1>8. ASSUME UNCHANGED <<life, closeVars>> PROVE HandedByShutdown'
  BY <1>1, <1>8 DEF Subscribed
<1>9. ASSUME NEW n \in Node, Evict(n) \/ Drain(n) \/ Destroy(n) PROVE HandedByShutdown'
  <2>1. /\ \A m \in Node : life'[m] = "shutting" <=> life[m] = "shutting"
        /\ \A m \in Node : Subscribed(m) => Subscribed(m)'
    BY <1>9, <1>b DEF Evict, Drain, Destroy, Subscribed
  <2> QED
    BY <1>1, <1>9, <2>1 DEF Evict, Drain, Destroy
<1>10. ASSUME NEW n \in Node, NEW t \in Timer,
              Submit(n, t) \/ Stored(n, t) \/ Fire(n, t) \/ Finish(n, t)
       PROVE  HandedByShutdown'
  BY <1>8, <1>10 DEF Submit, Stored, Fire, Finish
<1>11. ASSUME NEW n \in Node, Rebalance(n) PROVE HandedByShutdown'
  BY <1>8, <1>11 DEF Rebalance
<1>12. ASSUME NEW m \in Node, NEW n \in Node,
              LearnGone(n, m) \/ LearnUp(n, m) \/ Doubt(n, m)
       PROVE  HandedByShutdown'
  BY <1>8, <1>12 DEF LearnGone, LearnUp, Doubt
<1>13. ASSUME NEW p \in posts, Proxying(p) \/ Timeout(p) PROVE HandedByShutdown'
  BY <1>8, <1>13 DEF Proxying, Timeout, Send, Refuse, Arrive, Answered, Reattempt
<1>14. ASSUME NEW n \in Node, Crash(n) PROVE FALSE
  BY <1>14 DEF Crash, Calm, TypeOK
<1> QED
  BY <1>2, <1>3, <1>4, <1>5, <1>6, <1>7, <1>9, <1>10, <1>11, <1>12, <1>13, <1>14
  DEF Next, Closing

----------------------------------------------------------------------------
(* WorkIsReachable is kept: a node is destroyed when its work is done. *)
LEMMA WorkStep ==
  ASSUME TypeOK, CalmInv, Next, Calm'
  PROVE  WorkIsReachable'
<1> DEFINE Work(q) == q.at \in {"handling", "failed"} /\ q.from # q.to
<1>b. /\ \A p \in posts : /\ p \in Posts /\ p.from \in Node /\ p.to \in Node
                          /\ p.timer \in Timer
      /\ \A p : posts \ {p} \in SUBSET Posts
      /\ \A a \in asks : a.to \in Node \cup {None}
      /\ \A x \in replies : x \in At
      /\ life \in [Node -> Lives]
  BY DEF TypeOK, Posts, Asks
<1>c. /\ \A p \in posts : Work(p) => Reachable(p.to)
      /\ HandedByShutdown
  BY DEF CalmInv, WorkIsReachable
<1>1. ASSUME \A q \in posts' : Work(q) =>
               \E p \in posts : Work(p) /\ p.to = q.to /\ (Reachable(p.to) => Reachable(p.to)')
      PROVE  WorkIsReachable'
  BY <1>1, <1>c DEF WorkIsReachable, Reachable, Gossiping
<1>2. ASSUME NEW p \in posts, Fail(p, posts \ {p}), UNCHANGED life PROVE WorkIsReachable'
  <2>1. \A q \in posts' : Work(q) => \E r \in posts : Work(r) /\ r.to = q.to
    BY <1>2, <1>b, FailedEnds
  <2> QED
    BY <1>1, <1>2, <2>1 DEF Reachable, Gossiping
<1>3. ASSUME UNCHANGED life, \A q \in posts' : q \in posts \/ ~Work(q) PROVE WorkIsReachable'
  BY <1>1, <1>3 DEF Reachable, Gossiping
<1>4. ASSUME NEW n \in Node, Ended(n), ~Reachable(n) PROVE WorkIsReachable'
  <2>1. posts' \subseteq posts /\ \A m \in Node : m # n => life'[m] = life[m]
    BY <1>4, <1>b DEF Ended
  <2>2. \A q \in posts' : Work(q) => q.to \in Node /\ q.to # n
    BY <1>b, <1>c, <1>4, <2>1
  <2> QED
    BY <1>1, <2>1, <2>2 DEF Reachable, Gossiping
<1>5. ASSUME NEW n \in Node, NEW t \in Timer,
             Submit(n, t) \/ Stored(n, t) \/ Fire(n, t) \/ Finish(n, t)
      PROVE  WorkIsReachable'
  BY <1>3, <1>5 DEF Submit, Stored, Fire, Finish, Post
<1>6. ASSUME NEW n \in Node, NEW t \in Timer, Reply(n, t) PROVE WorkIsReachable'
  <2>1. life[n] = "shutting"
    BY <1>6, <1>c DEF Reply, HandedByShutdown
  <2> QED
    BY <1>3, <1>4, <1>6, <2>1 DEF Reply, Reachable, Gossiping
<1>7. ASSUME NEW n \in Node, Rebalance(n) PROVE WorkIsReachable'
  <2>1. UNCHANGED life /\ \A q \in posts' : q \in posts \/ q.at = "ready"
    <3>1. \A t : Post(n, Lookup(n, t), t, "nobody").at = "ready"
      BY DEF Post
    <3> QED
      BY <1>7, <3>1 DEF Rebalance
  <2> QED
    BY <1>3, <2>1
<1>8. ASSUME NEW n \in Node, Evict(n) \/ Drain(n) \/ Shutdown(n) \/ Start(n)
      PROVE  WorkIsReachable'
  <2>1. posts' = posts /\ \A m \in Node : Reachable(m) => Reachable(m)'
    BY <1>8, <1>b DEF Evict, Drain, Shutdown, Start, Reachable, Gossiping
  <2> QED
    BY <1>1, <1>b, <2>1
<1>9. ASSUME NEW n \in Node, Destroy(n) PROVE WorkIsReachable'
  <2>1. /\ posts' \subseteq posts /\ \A m \in Node : m # n => life'[m] = life[m]
        /\ \A p \in posts : Work(p) => p.to # n
    BY <1>9, <1>b DEF Destroy
  <2> QED
    BY <1>1, <1>b, <2>1 DEF Reachable, Gossiping
<1>10. ASSUME NEW n \in Node, Disconnect(n) PROVE WorkIsReachable'
  BY <1>4, <1>10 DEF Disconnect, Reachable, Gossiping
<1>11. ASSUME NEW m \in Node, NEW n \in Node,
              LearnGone(n, m) \/ LearnUp(n, m) \/ Doubt(n, m)
       PROVE  WorkIsReachable'
  BY <1>3, <1>11 DEF LearnGone, LearnUp, Doubt
<1>12. ASSUME NEW p \in posts, Send(p) PROVE WorkIsReachable'
  <2>1. ~Work([p EXCEPT !.at = "sent", !.sum = view[p.from]])
    BY <1>b DEF Posts
  <2> QED
    BY <1>2, <1>3, <1>12, <2>1 DEF Send
<1>13. ASSUME NEW p \in posts, Refuse(p) PROVE WorkIsReachable'
  <2>1. ~Work([p EXCEPT !.at = "waiting"])
    BY <1>b DEF Posts
  <2> QED
    BY <1>2, <1>3, <1>13, <2>1 DEF Refuse, Retry
<1>14. ASSUME NEW p \in posts, Answered(p) PROVE WorkIsReachable'
  BY <1>2, <1>3, <1>14 DEF Answered
<1>15. ASSUME NEW p \in posts, Arrive(p) PROVE WorkIsReachable'
  <2>1. UNCHANGED life /\ Reachable(p.to)
    BY <1>15 DEF Arrive, Reachable, Gossiping
  <2>2. \A q \in posts' : q \in posts \/ q.to = p.to \/ q.at = "ready"
    BY <1>15, <1>b DEF Arrive, Take, Post, Posts
  <2> QED
    BY <1>c, <2>1, <2>2 DEF WorkIsReachable, Reachable, Gossiping
<1>16. ASSUME NEW p \in posts, Reattempt(p) PROVE WorkIsReachable'
  <2> DEFINE to == Lookup(p.from, p.timer)
             next == [p EXCEPT !.to = to, !.tries = @ + 1]
  <2>1. ~Work([next EXCEPT !.at = "ready"])
    BY <1>b DEF Posts
  <2>2. to = p.from => ~Work([next EXCEPT !.at = "handling"])
    BY <1>b DEF Posts
  <2>3. /\ UNCHANGED life
        /\ \A q \in posts' : \/ q \in posts
                             \/ q = [next EXCEPT !.at = "ready"]
                             \/ q = [next EXCEPT !.at = "handling"] /\ to = p.from
    BY <1>16 DEF Reattempt
  <2> QED
    BY <1>3, <2>1, <2>2, <2>3
<1>17. ASSUME NEW a \in asks, RouteAsk(a) \/ HandleAsk(a) PROVE WorkIsReachable'
  BY <1>3, <1>17 DEF RouteAsk, HandleAsk, Take, Post
<1>18. ASSUME NEW n \in Node, Crash(n) PROVE FALSE
  BY <1>18 DEF Crash, Calm, TypeOK
<1>19. ASSUME NEW p \in posts, Timeout(p) PROVE FALSE
  BY <1>19 DEF Timeout, Calm, TypeOK
<1> QED
  BY <1>5, <1>6, <1>7, <1>8, <1>9, <1>10, <1>11, <1>12, <1>13, <1>14, <1>15, <1>16,
     <1>17, <1>18, <1>19
  DEF Next, Closing, Proxying

----------------------------------------------------------------------------
(* Calm does not come back. *)
LEMMA CalmBefore ==
  ASSUME TypeOK, TypeOK', Next, Calm'
  PROVE  Calm
<1>1. crashes \in Nat /\ timeouts \in Nat /\ crashes' \in Nat /\ timeouts' \in Nat
  BY DEF TypeOK
<1>2. crashes' >= crashes /\ timeouts' >= timeouts
  <2>1. ASSUME NEW n \in Node, NEW t \in Timer,
               Submit(n, t) \/ Stored(n, t) \/ Fire(n, t) \/ Finish(n, t) \/ Reply(n, t)
        PROVE  UNCHANGED <<crashes, timeouts>>
    BY <2>1 DEF Submit, Stored, Fire, Finish, Reply, boundVars
  <2>2. ASSUME NEW n \in Node, Rebalance(n) \/ Evict(n) \/ Closing(n)
        PROVE  UNCHANGED <<crashes, timeouts>>
    BY <2>2
    DEF Rebalance, Evict, Closing, Drain, Destroy, Shutdown, Disconnect, boundVars
  <2>3. ASSUME NEW n \in Node, Crash(n) \/ Start(n)
        PROVE  crashes' \in {crashes, crashes + 1} /\ UNCHANGED timeouts
    BY <2>3 DEF Crash, Start
  <2>4. ASSUME NEW m \in Node, NEW n \in Node,
               LearnGone(n, m) \/ LearnUp(n, m) \/ Doubt(n, m)
        PROVE  UNCHANGED <<crashes, timeouts>>
    BY <2>4 DEF LearnGone, LearnUp, Doubt, boundVars
  <2>5. ASSUME NEW p \in posts, Proxying(p) PROVE UNCHANGED <<crashes, timeouts>>
    BY <2>5 DEF Proxying, Send, Refuse, Arrive, Answered, Reattempt, boundVars
  <2>6. ASSUME NEW p \in posts, Timeout(p)
        PROVE  timeouts' = timeouts + 1 /\ UNCHANGED crashes
    BY <2>6 DEF Timeout
  <2>7. ASSUME NEW a \in asks, RouteAsk(a) \/ HandleAsk(a)
        PROVE  UNCHANGED <<crashes, timeouts>>
    BY <2>7 DEF RouteAsk, HandleAsk, boundVars
  <2>8. crashes' \in {crashes, crashes + 1} /\ timeouts' \in {timeouts, timeouts + 1}
    BY <2>1, <2>2, <2>3, <2>4, <2>5, <2>6, <2>7 DEF Next
  <2> QED
    BY <1>1, <2>8
<1>3. crashes' = 0 /\ timeouts' = 0
  <2>1. \A i, j \in Nat : i + j = 0 => i = 0 /\ j = 0
    OBVIOUS
  <2>2. crashes' + timeouts' = 0
    BY DEF Calm
  <2> QED
    BY <1>1, <2>1, <2>2
<1>4. crashes = 0 /\ timeouts = 0
  BY <1>1, <1>2, <1>3
<1> QED
  BY <1>4 DEF Calm

(* KeeperInv is inductive. *)
LEMMA KeeperStep == KeeperInv /\ [Next]_vars => KeeperInv'
<1> SUFFICES ASSUME KeeperInv, [Next]_vars PROVE KeeperInv'
  OBVIOUS
<1>1. TypeOK /\ TypeOK'
  BY TypeStep DEF KeeperInv
<1>2. CASE Next
  <2> SUFFICES ASSUME Calm' PROVE CalmInv'
    BY <1>1 DEF KeeperInv
  <2>1. Calm
    BY <1>1, <1>2, CalmBefore
  <2>2. CalmInv
    BY <2>1 DEF KeeperInv
  <2>3. OnePlace' /\ FreshIsNowhere'
    BY <1>1, <1>2, <2>2, PlaceStep, ClientStep, PassesOne DEF CalmInv
  <2> QED
    BY <1>1, <1>2, <2>2, <2>3, OnceStep, ArmedStep, DeadStep, ShutdownStep, WorkStep
    DEF CalmInv
<1>3. CASE UNCHANGED vars
  <2>1. /\ UNCHANGED <<life, held, armed, running, rows, calls, handed, awaited>>
        /\ UNCHANGED <<asks, replies, posts, client, crashes, timeouts>>
    BY <1>3 DEF vars, storeVars, closeVars, boundVars
  <2>2. \A t \in Timer : Keepers(t)' = Keepers(t)
    BY <2>1 DEF Keepers, Homes, Requests, Questions, Keeps, Puts, Open
  <2>3. OnePlace /\ FreshIsNowhere => (OnePlace /\ FreshIsNowhere)'
    BY <2>1, <2>2 DEF OnePlace, FreshIsNowhere
  <2>4. StoredOnce /\ ArmedIsHeld => (StoredOnce /\ ArmedIsHeld)'
    BY <2>1 DEF StoredOnce, ArmedIsHeld, Puts
  <2>5. DeadIsEmpty => DeadIsEmpty'
    BY <2>1 DEF DeadIsEmpty
  <2>6. HandedByShutdown => HandedByShutdown'
    BY <2>1 DEF HandedByShutdown, Subscribed
  <2>7. WorkIsReachable => WorkIsReachable'
    BY <2>1 DEF WorkIsReachable, Reachable, Gossiping
  <2>8. Calm' = Calm
    BY <2>1 DEF Calm
  <2> QED
    BY <1>1, <2>3, <2>4, <2>5, <2>6, <2>7, <2>8 DEF KeeperInv, CalmInv
<1> QED
  BY <1>2, <1>3

(* At the start no timer is anywhere. *)
LEMMA KeeperInit == Init => KeeperInv
<1> SUFFICES ASSUME Init PROVE KeeperInv
  OBVIOUS
<1>1. TypeOK
  <2>1. [x \in At |-> <<>>] \in [At -> Seq(Ops)]
    BY EmptySeq
  <2> QED
    BY <2>1, HandoffAssumption DEF Init, TypeOK, Lives, Ops
<1>2. \A x \in At : ~Keeps(x) /\ Puts(x) = {}
  <2>1. \A x \in At : calls[x] = <<>>
    BY DEF Init
  <2>2. \A x \in At : Puts(x) = {}
    BY <2>1, NoPuts
  <2> QED
    BY <2>2 DEF Init, Keeps
<1>3. \A t \in Timer : Keepers(t) = {}
  <2>1. \A n \in Node, t \in Timer : <<n, t>> \in At
    BY DEF At
  <2>2. \A t \in Timer : Homes(t) = {} /\ Requests(t) = {} /\ Questions(t) = {}
    BY <1>2, <2>1 DEF Init, Homes, Requests, Questions
  <2> QED
    BY <2>2 DEF Keepers
<1>4. OnePlace /\ FreshIsNowhere /\ StoredOnce
  BY <1>2, <1>3 DEF OnePlace, FreshIsNowhere, StoredOnce
<1>5. ArmedIsHeld /\ DeadIsEmpty /\ HandedByShutdown /\ WorkIsReachable
  BY DEF Init, ArmedIsHeld, DeadIsEmpty, HandedByShutdown, WorkIsReachable
<1> QED
  BY <1>1, <1>4, <1>5 DEF KeeperInv, CalmInv

(* What may bring a timer back is with its keeper, and there once. *)
LEMMA KeeperCarries == KeeperInv => OneKeeper
<1> SUFFICES ASSUME KeeperInv, Calm, NEW t \in Timer, NEW c \in Carriers(t), NEW d \in Carriers(t)
    PROVE  c = d
  BY DEF OneKeeper, Calm
<1> DEFINE Armed(e) == \E x \in armed : x[2] = t /\ e = <<"armed", x>>
           Putting(e) == \E x \in At : x[2] = t /\ \E i \in Puts(x) : e = <<"put", x, i>>
           Posted(e) == \E p \in Requests(t) : e = <<"post", p>>
           Asked(e) == \E a \in Questions(t) : e = <<"ask", a>>
           Dormant(e) == \E x \in rows : x[2] = t /\ life[x[1]] = "down" /\ e = <<"row", x>>
<1>1. TypeOK /\ CalmInv
  BY DEF KeeperInv
<1>2. \A x \in At : x[1] \in Node /\ x[2] \in Timer /\ x = <<x[1], x[2]>>
  BY DEF At
<1>3. \A e \in Carriers(t) : Armed(e) \/ Putting(e) \/ Posted(e) \/ Asked(e) \/ Dormant(e)
  <2>1. \A p \in posts : p.at \notin {"handling", "failed"} => Open(p)
    BY <1>1 DEF TypeOK, Posts, Open
  <2> SUFFICES ASSUME NEW e \in Carriers(t)
               PROVE  Armed(e) \/ Putting(e) \/ Posted(e) \/ Asked(e) \/ Dormant(e)
    OBVIOUS
  <2> DEFINE S1 == {<<"armed", x>> : x \in {x \in armed : x[2] = t}}
             S2 == (UNION {{<<"put", x, i>> : i \in {i \in DOMAIN calls[x] : calls[x][i] = "put"}}
                           : x \in {x \in At : x[2] = t}})
             S3 == {<<"post", p>> :
                      p \in {p \in posts : p.timer = t /\ p.at \notin {"handling", "failed"}}}
             S4 == {<<"ask", a>> : a \in {a \in asks : a.timer = t}}
             S5 == {<<"row", x>> : x \in {x \in rows : x[2] = t /\ life[x[1]] = "down"}}
  <2>2. e \in S1 => Armed(e)
    OBVIOUS
  <2>3. e \in S2 => Putting(e)
    BY DEF Puts
  <2>4. e \in S3 => Posted(e)
    BY <2>1 DEF Requests
  <2>5. e \in S4 => Asked(e)
    BY DEF Questions
  <2>6. e \in S5 => Dormant(e)
    OBVIOUS
  <2>7. Carriers(t) = S1 \cup S2 \cup S3 \cup S4 \cup S5
    BY DEF Carriers
  <2> HIDE DEF S1, S2, S3, S4, S5, Armed, Putting, Posted, Asked, Dormant
  <2> QED
    BY <2>2, <2>3, <2>4, <2>5, <2>6, <2>7
<1>4. /\ \A x \in armed : x \in At /\ x \in held /\ Puts(x) = {} /\ life[x[1]] # "down"
      /\ \A x \in At : Puts(x) # {} => Keeps(x) /\ life[x[1]] # "down"
      /\ \A x \in rows : life[x[1]] = "down" => x \in At /\ Keeps(x)
      /\ \A x \in At : \A i, j \in Puts(x) : i = j
  BY <1>1, NoPuts
  DEF TypeOK, CalmInv, ArmedIsHeld, StoredOnce, DeadIsEmpty, HandedByShutdown, Keeps
<1>5. \A x \in At : x[2] = t /\ Keeps(x) =>
        /\ \A y \in At : y[2] = t /\ Keeps(y) => y = x
        /\ Requests(t) = {} /\ Questions(t) = {}
  <2> SUFFICES ASSUME NEW x \in At, x[2] = t, Keeps(x)
               PROVE  /\ \A y \in At : y[2] = t /\ Keeps(y) => y = x
                      /\ Requests(t) = {} /\ Questions(t) = {}
    OBVIOUS
  <2>1. \A y \in At : y[2] = t /\ Keeps(y) => y[1] \in Homes(t)
    BY <1>2 DEF Homes
  <2>2. Homes(t) = {x[1]} /\ Requests(t) = {} /\ Questions(t) = {}
    BY <1>1, <2>1, Alone DEF CalmInv
  <2> QED
    BY <1>2, <2>1, <2>2
<1>6. /\ \A p \in Requests(t) : Requests(t) = {p} /\ Questions(t) = {}
      /\ \A a \in Questions(t) : Questions(t) = {a}
  BY <1>1, Alone DEF CalmInv
<1>7. \A e : Armed(e) \/ Putting(e) \/ Dormant(e) => Requests(t) = {} /\ Questions(t) = {}
  BY <1>4, <1>5 DEF Keeps
<1>8. \A e, f : Armed(e) => ~Putting(f) /\ ~Dormant(f) /\ (Armed(f) => e = f)
  BY <1>4, <1>5 DEF Keeps
<1>9. \A e, f : Putting(e) => ~Dormant(f) /\ (Putting(f) => e = f)
  BY <1>4, <1>5
<1>10. \A e, f : Dormant(e) /\ Dormant(f) => e = f
  BY <1>4, <1>5
<1>11. \A e, f : Posted(e) => ~Asked(f) /\ (Posted(f) => e = f)
  BY <1>6
<1>12. \A e, f : Asked(e) /\ Asked(f) => e = f
  BY <1>6
<1>13. \A e : Posted(e) \/ Asked(e) => Requests(t) # {} \/ Questions(t) # {}
  OBVIOUS
<1> HIDE DEF Armed, Putting, Posted, Asked, Dormant
<1> QED
  BY <1>3, <1>7, <1>8, <1>9, <1>10, <1>11, <1>12, <1>13

(* The invariant under OneKeeper and PassedOn. *)
THEOREM KeeperInvariant == Spec => []KeeperInv
BY KeeperInit, KeeperStep, PTL DEF Spec

(* As long as no process dies and no request times out, a timer is in one  *)
(* place only.                                                             *)
THEOREM OneKeeperAlways == Spec => []OneKeeper
BY KeeperInvariant, KeeperCarries, PTL

(* Hand-over implements Custody: whatever nodes, proxies and nats do, a    *)
(* timer is passed from its one keeper to another (timer.js 340-384,       *)
(* 470-543), until a process dies or a request times out.                  *)
THEOREM HandoffPassesOn == Spec => PassedOn
<1>1. Init => C!Init
  <2> SUFFICES ASSUME Init PROVE C!Init
    OBVIOUS
  <2>1. KeeperInv /\ Calm
    BY KeeperInit DEF Init, Calm
  <2>2. \A t \in Timer : client[t] = "unused"
    BY DEF Init
  <2>3. \A t \in Timer : Keepers(t) = {}
    BY <2>1, <2>2 DEF KeeperInv, CalmInv, FreshIsNowhere
  <2> QED
    BY <2>1, <2>2, <2>3 DEF C!Init
<1>2. KeeperInv /\ KeeperInv' /\ [Next]_vars
      => [C!Next]_<<[t \in Timer |-> Keepers(t)], {t \in Timer : client[t] = "unused"}, Calm>>
  <2> SUFFICES ASSUME KeeperInv, KeeperInv', Next PROVE C!Next
    BY DEF vars, storeVars, closeVars, boundVars, Keepers, Homes, Requests, Questions, Keeps,
           Puts, Open, Calm
  <2>1. \A t \in Timer : client'[t] = "unused" => client[t] = "unused"
    BY ClientStep DEF KeeperInv
  <2>2. CASE ~Calm'
    BY <2>1, <2>2 DEF C!Next
  <2>3. CASE Calm'
    <3>1. Calm /\ CalmInv
      BY <2>3, CalmBefore DEF KeeperInv
    <3>2. \A t \in Timer : Passes(t)
      BY <2>3, <3>1, PlaceStep DEF KeeperInv
    <3> DEFINE K == [t \in Timer |-> Keepers(t)]
               F == {t \in Timer : client[t] = "unused"}
    <3>3. \A t \in Timer :
            \/ t \in F \ F' /\ K[t] = {} /\ \E k \in K'[t] : K'[t] = {k}
            \/ \E j \in K[t] : \E k \in K'[t] :
                 K[t] = {j} /\ K'[t] = {k} /\ (j[1] = "node" => k[1] # "node")
            \/ K'[t] = {}
            \/ K'[t] = K[t]
      <4> SUFFICES ASSUME NEW t \in Timer
          PROVE  \/ t \in F \ F' /\ K[t] = {} /\ \E k \in K'[t] : K'[t] = {k}
                 \/ \E j \in K[t] : \E k \in K'[t] :
                      K[t] = {j} /\ K'[t] = {k} /\ (j[1] = "node" => k[1] # "node")
                 \/ K'[t] = {}
                 \/ K'[t] = K[t]
        OBVIOUS
      <4>1. /\ K[t] = Keepers(t) /\ K'[t] = Keepers(t)'
            /\ t \in F <=> client[t] = "unused"
            /\ t \in F' <=> client'[t] = "unused"
        OBVIOUS
      <4> HIDE DEF K, F
      <4> QED
        BY <3>2, <4>1 DEF Passes
    <3> HIDE DEF K, F
    <3>4. C!Move
      BY <3>1, <3>3 DEF C!Move, C!Submitted, C!Passed, C!Gone, K, F
    <3> QED
      BY <2>1, <3>4 DEF C!Next
  <2> QED
    BY <2>2, <2>3
<1> QED
  BY <1>1, <1>2, KeeperInvariant, PTL DEF Spec, PassedOn, C!Spec
=============================================================================
