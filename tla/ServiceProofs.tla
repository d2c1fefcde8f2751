----------------------------- MODULE ServiceProofs -----------------------------
(* Requests on their way through the cluster, for any nodes, rings, limits *)
(* and retries: a request goes on from the node it was sent to only if the *)
(* sender's ring changed under way, and no answer says what was not done.  *)
EXTENDS Service, FiniteSetTheorems, SequenceTheorems, WellFoundedInduction, TLAPS

(* The nearest of some servers. *)
Best(S, r) == CHOOSE m \in S : \A o \in S : Nearest[r][m] <= Nearest[r][o]

(* A request that may come with a body that is not valid. *)
Malformed(r) == \E k \in Kinds[r] : k[2] # "valid"

(* The stages in which a node counts a request among those it passes on.   *)
Passing == {"egress", "sent", "retry", "told"}

(* A task, when D is what has been carried out. *)
Good(t, D) ==
  /\ t \in Tasks
  /\ t.stage = "egress" => t.sum # {} /\ t.to = Best(t.sum, t.req)
  /\ t.stage = "wire" /\ ~t.turned => t.sum # {} /\ t.node = Best(t.sum, t.req)
  /\ t.from # Client /\ t.stage \in Passing => t.turned
  /\ t.stage = "proxy" => t.method \in {"POST", "PUT", "DELETE"}
  /\ t.stage = "validate" => t.method \in {"POST", "PUT"}
  /\ t.stage = "handler" /\ t.method \in {"POST", "PUT"} => t.body = "valid"
  /\ t.status = "success" => t.req \in D
  /\ t.body # "valid" \/ t.status = "bad request" => Malformed(t.req)

Counts == [Peers -> 0 .. MaxInflight]

ServiceInv ==
  /\ rings \in [Peers -> SUBSET Peers] /\ halted \subseteq Mortal
  /\ inflight \in Counts /\ pressure \in BOOLEAN
  /\ lagging \subseteq Peers /\ answers \in [Request -> Statuses]
  /\ done \subseteq Request /\ turns \in 0 .. MaxTurns
  /\ \A t \in tasks : Good(t, done)
  /\ \A r \in Request : answers[r] = "success" => r \in done
  /\ \A r \in Request : answers[r] = "bad request" => Malformed(r)

(* Some server is nearest. *)
LEMMA BestInside ==
  ASSUME NEW S \in SUBSET Peers, S # {}, NEW r \in Request
  PROVE  Best(S, r) \in S
<1> DEFINE T == {Nearest[r][m] : m \in S}
<1>1. \A m \in S : Nearest[r][m] \in Nat
  BY ServiceAssumption
<1>2. T \subseteq Nat /\ T # {}
  BY <1>1
<1>3. \E x \in T : \A y \in T : ~(<<y, x>> \in OpToRel(<, Nat))
  BY <1>2, NatLessThanWellFounded, WFMin
<1>4. PICK x \in T : \A y \in T : ~(<<y, x>> \in OpToRel(<, Nat))
  BY <1>3
<1>5. \A y \in T : x <= y
  <2> SUFFICES ASSUME NEW y \in T PROVE x <= y
    OBVIOUS
  <2>1. x \in Nat /\ y \in Nat
    BY <1>2
  <2>2. ~(<<y, x>> \in {ss \in Nat \X Nat : ss[1] < ss[2]})
    BY <1>4 DEF OpToRel
  <2> HIDE DEF T
  <2>3. ~(y < x)
    BY <2>1, <2>2
  <2> QED
    BY <2>1, <2>3
<1>6. \E m \in S : \A o \in S : Nearest[r][m] <= Nearest[r][o]
  BY <1>5
<1> QED
  BY <1>6 DEF Best

(* The owner is a node; another one than oneself is the nearest in the ring. *)
LEMMA OwnerIsBest ==
  ASSUME ServiceInv, NEW n \in Peers, NEW r \in Request
  PROVE  /\ Owner(n, r) \in Peers
         /\ rings[n] # {} => Owner(n, r) = Best(rings[n], r)
         /\ Owner(n, r) # n => rings[n] # {}
<1>1. rings[n] \in SUBSET Peers
  BY DEF ServiceInv
<1>2. rings[n] # {} => Owner(n, r) = Best(rings[n], r)
  BY DEF Owner, Best
<1>3. rings[n] = {} => Owner(n, r) = n
  BY DEF Owner
<1> QED
  BY <1>1, <1>2, <1>3, BestInside

(* The middleware in its order. *)
LEMMA StackOrder ==
  /\ Following("POST", "proxy") = "validate" /\ Following("PUT", "proxy") = "validate"
  /\ Following("DELETE", "proxy") = "handler"
  /\ Following("POST", "validate") = "handler" /\ Following("PUT", "validate") = "handler"
<1>1. /\ Api["POST"] = <<"proxy", "validate">> /\ Api["PUT"] = <<"timer_id", "proxy", "validate">>
      /\ Api["DELETE"] = <<"timer_id", "proxy">>
  BY DEF Api
<1>2. /\ Stack("POST") = <<"proxy", "validate">> \o <<"handler">>
      /\ Stack("PUT") = <<"timer_id", "proxy", "validate">> \o <<"handler">>
      /\ Stack("DELETE") = <<"timer_id", "proxy">> \o <<"handler">>
  BY <1>1 DEF Stack
<1>3. /\ DOMAIN Stack("POST") = 1..3 /\ Stack("POST")[1] = "proxy"
      /\ Stack("POST")[2] = "validate" /\ Stack("POST")[3] = "handler"
  BY <1>2
<1>4. /\ DOMAIN Stack("PUT") = 1..4 /\ Stack("PUT")[1] = "timer_id" /\ Stack("PUT")[2] = "proxy"
      /\ Stack("PUT")[3] = "validate" /\ Stack("PUT")[4] = "handler"
  BY <1>2
<1>5. /\ DOMAIN Stack("DELETE") = 1..3 /\ Stack("DELETE")[1] = "timer_id"
      /\ Stack("DELETE")[2] = "proxy" /\ Stack("DELETE")[3] = "handler"
  BY <1>2
<1>6. Following("POST", "proxy") = "validate" /\ Following("POST", "validate") = "handler"
  BY <1>3 DEF Following
<1>7. Following("PUT", "proxy") = "validate" /\ Following("PUT", "validate") = "handler"
  BY <1>4 DEF Following
<1>8. Following("DELETE", "proxy") = "handler"
  BY <1>5 DEF Following
<1> QED
  BY <1>6, <1>7, <1>8

(* The counts stay within the limit. *)
LEMMA CountsType ==
  ASSUME NEW count \in Counts, NEW n \in Peers
  PROVE  Increment(count, n) \in Counts /\ Decrement(count, n) \in Counts
BY ServiceAssumption DEF Counts, Increment, Decrement

(* A request that is told of its answer, or of an error. *)
LEMMA ToldGood ==
  ASSUME NEW q, NEW D, Good(q, D), q.stage \in Passing,
         NEW status \in Statuses, status = "success" => q.req \in D,
         status = "bad request" => Malformed(q.req)
  PROVE  Good(ToldOf(q, status), D)
<1> DEFINE told == ToldOf(q, status)
<1>1. /\ told \in Tasks /\ told.stage = "told" /\ told.status = status
      /\ told.from = q.from /\ told.turned = q.turned /\ told.req = q.req
      /\ told.body = q.body
  BY DEF ToldOf, Good, Tasks
<1> HIDE DEF told
<1> QED
  BY <1>1 DEF Good, told

(* A request that is tried again, or given up. *)
LEMMA FailingGood ==
  ASSUME NEW q, NEW D, Good(q, D), q.stage \in Passing
  PROVE  Good(Failing(q), D)
<1> DEFINE again == [q EXCEPT !.stage = "retry"]
<1>1. /\ again \in Tasks /\ again.stage = "retry" /\ again.status = q.status
      /\ again.from = q.from /\ again.turned = q.turned /\ again.req = q.req
      /\ again.body = q.body
  BY DEF Good, Tasks
<1>2. Good(again, D)
  <2> HIDE DEF again
  <2> QED
    BY <1>1 DEF Good, Passing
<1>3. Good(ToldOf(q, "error"), D)
  BY ToldGood DEF Statuses
<1> QED
  BY <1>2, <1>3 DEF Failing

(* What has been carried out only grows. *)
LEMMA GoodGrows ==
  ASSUME NEW t, NEW D, NEW E, Good(t, D), D \subseteq E
  PROVE  Good(t, E)
BY DEF Good

(* res.end and onResponse: an answer goes to whoever waits for it.         *)
LEMMA AnswerKeeps ==
  ASSUME ServiceInv, NEW t \in Tasks, NEW status \in Statuses, NEW others,
         \A q \in others : Good(q, done), NEW count \in Counts,
         Answer(t, status, others, count),
         UNCHANGED <<rings, halted, pressure, lagging, turns>>,
         done \subseteq done', done' \subseteq Request,
         status = "success" => t.req \in done', status = "bad request" => Malformed(t.req)
  PROVE  ServiceInv'
<1>1. t.node \in Peers /\ t.req \in Request
  BY DEF Tasks
<1>2. inflight' \in Counts
  BY <1>1, CountsType DEF Answer
<1>3. answers' \in [Request -> Statuses]
  BY <1>1 DEF Answer, ServiceInv
<1>4. \A r \in Request : answers'[r] = "success" => r \in done'
  BY <1>1 DEF Answer, ServiceInv
<1>5. \A r \in Request : answers'[r] = "bad request" => Malformed(r)
  BY <1>1 DEF Answer, ServiceInv
<1>6. ASSUME NEW q \in tasks' PROVE Good(q, done')
  <2>1. PICK p \in others : q = IF Awaits(p, t) THEN ToldOf(p, status) ELSE p
    BY <1>6 DEF Answer, Replied
  <2>2. Good(p, done')
    BY GoodGrows
  <2>3. CASE Awaits(p, t)
    <3>1. p.stage \in Passing /\ p.req = t.req
      BY <2>3 DEF Awaits, Passing
    <3> QED
      BY <2>1, <2>2, <2>3, <3>1, ToldGood
  <2> QED
    BY <2>1, <2>2, <2>3
<1> QED
  BY <1>2, <1>3, <1>4, <1>5, <1>6 DEF ServiceInv

(* An exchange of tasks for good ones. *)
LEMMA TasksKeep ==
  ASSUME ServiceInv, \A q \in tasks' : Good(q, done), inflight' \in Counts,
         UNCHANGED <<rings, halted, pressure, lagging, answers, done, turns>>
  PROVE  ServiceInv'
BY DEF ServiceInv

(* A request that is looked up is on its way to the nearest in the ring.   *)
LEMMA LookedGood ==
  ASSUME ServiceInv, NEW q, Good(q, done), Owner(q.node, q.req) # q.node,
         q.from # Client => q.turned
  PROVE  Good(Looked(q), done)
<1> DEFINE to == Owner(q.node, q.req)
           sum == rings[q.node]
           looked == [q EXCEPT !.stage = "egress", !.to = to, !.sum = sum]
<1>1. q.node \in Peers /\ q.req \in Request /\ q \in Tasks
  BY DEF Good, Tasks
<1>2. to \in Peers /\ sum # {} /\ to = Best(sum, q.req) /\ sum \in SUBSET Peers
  BY <1>1, OwnerIsBest DEF ServiceInv
<1> HIDE DEF to, sum
<1>3. /\ looked \in Tasks /\ looked.stage = "egress" /\ looked.to = to /\ looked.sum = sum
      /\ looked.from = q.from /\ looked.turned = q.turned /\ looked.req = q.req
      /\ looked.status = q.status /\ looked.body = q.body
  BY <1>1, <1>2 DEF Tasks
<1> HIDE DEF looked
<1>4. Good(looked, done)
  BY <1>2, <1>3 DEF Good
<1> QED
  BY <1>4 DEF looked, to, sum, Looked

(* router.handle: here or on, a task that was sent to the wrong node is    *)
(* one whose sender's ring had changed.                                    *)
LEMMA RouteKeeps ==
  ASSUME ServiceInv, NEW t \in Tasks, NEW others, \A q \in others : Good(q, done),
         NEW count \in Counts, Route(t, others, count),
         t.status = "success" => t.req \in done,
         t.body # "valid" \/ t.status = "bad request" => Malformed(t.req),
         t.from # Client /\ Owner(t.node, t.req) # t.node => t.turned,
         UNCHANGED <<rings, halted, pressure, lagging, done, turns>>
  PROVE  ServiceInv'
<1>0. t.node \in Peers /\ t.req \in Request /\ done \subseteq Request
  BY DEF Tasks, ServiceInv
<1>1. CASE \/ Answer(t, "not found", others, count)
           \/ Answer(t, "too many", others, count)
  <2>1. "not found" \in Statuses /\ "too many" \in Statuses
    BY DEF Statuses
  <2> QED
    BY <1>0, <1>1, <2>1, AnswerKeeps
<1>2. CASE /\ t.method = "GET"
           /\ tasks' = others \cup {[Local(t) EXCEPT !.stage = "handler"]}
           /\ inflight' = count
           /\ UNCHANGED answers
  <2> DEFINE local == [t EXCEPT !.stage = "proxy", !.sum = {}, !.turned = FALSE]
             handler == [local EXCEPT !.stage = "handler"]
  <2>1. /\ local \in Tasks /\ local.method = "GET" /\ local.status = t.status
        /\ local.req = t.req /\ local.body = t.body
    BY <1>2 DEF Tasks
  <2> HIDE DEF local
  <2>2. /\ handler \in Tasks /\ handler.stage = "handler" /\ handler.method = "GET"
        /\ handler.status = t.status /\ handler.req = t.req /\ handler.body = t.body
    BY <2>1 DEF Tasks
  <2> HIDE DEF handler
  <2>3. Good(handler, done)
    BY <2>2 DEF Good, Passing
  <2>4. tasks' = others \cup {handler}
    BY <1>2 DEF handler, local, Local
  <2> QED
    BY <1>2, <2>3, <2>4, TasksKeep
<1>3. CASE /\ t.method \in DOMAIN Api \ {"GET"}
           /\ tasks' = others \cup {Local(t)}
           /\ inflight' = count
           /\ UNCHANGED answers
  <2> DEFINE local == [t EXCEPT !.stage = "proxy", !.sum = {}, !.turned = FALSE]
  <2>1. /\ local \in Tasks /\ local.method = t.method /\ local.status = t.status
        /\ local.req = t.req /\ local.stage = "proxy" /\ local.body = t.body
    BY DEF Tasks
  <2>2. t.method \in {"POST", "PUT", "DELETE"}
    BY <1>3 DEF Api
  <2> HIDE DEF local
  <2>3. Good(local, done)
    BY <2>1, <2>2 DEF Good, Passing
  <2>4. tasks' = others \cup {local}
    BY <1>3 DEF local, Local
  <2> QED
    BY <1>3, <2>3, <2>4, TasksKeep
<1>4. CASE /\ t.method \in DOMAIN Api \ {"GET"} /\ Owner(t.node, t.req) # t.node
           /\ tasks' = others \cup {Looked(t)}
           /\ inflight' = Increment(count, t.node)
           /\ UNCHANGED answers
  <2> DEFINE to == Owner(t.node, t.req)
             sum == rings[t.node]
             looked == [t EXCEPT !.stage = "egress", !.to = to, !.sum = sum]
  <2>1. to \in Peers /\ sum # {} /\ to = Best(sum, t.req) /\ sum \in SUBSET Peers
    BY <1>0, <1>4, OwnerIsBest DEF ServiceInv
  <2>2. t.from # Client => t.turned
    BY <1>4
  <2> HIDE DEF to, sum
  <2>3. /\ looked \in Tasks /\ looked.stage = "egress" /\ looked.to = to /\ looked.sum = sum
        /\ looked.from = t.from /\ looked.turned = t.turned /\ looked.req = t.req
        /\ looked.status = t.status /\ looked.body = t.body
    BY <2>1 DEF Tasks
  <2> HIDE DEF looked
  <2>4. Good(looked, done)
    BY <2>1, <2>2, <2>3 DEF Good
  <2>5. tasks' = others \cup {looked}
    BY <1>4 DEF looked, to, sum, Looked
  <2>6. inflight' \in Counts
    BY <1>0, <1>4, CountsType
  <2> QED
    BY <1>4, <2>4, <2>5, <2>6, TasksKeep
<1> QED
  BY <1>1, <1>2, <1>3, <1>4 DEF Route

(* At first nobody has anything in hand. *)
LEMMA InitServiceInv == ServiceInit => ServiceInv
<1> SUFFICES ASSUME ServiceInit PROVE ServiceInv
  OBVIOUS
<1>1. rings \in [Peers -> SUBSET Peers]
  BY DEF ServiceInit
<1> QED
  BY <1>1, ServiceAssumption DEF ServiceInit, ServiceInv, Counts, Statuses

(* A client's request. *)
LEMMA SubmitKeeps ==
  ASSUME ServiceInv, NEW r \in Request, NEW n \in Peers, Submit(r, n)
  PROVE  ServiceInv'
<1>1. PICK k \in Kinds[r] :
        Route([req |-> r, node |-> n, from |-> Client, to |-> n, method |-> k[1], body |-> k[2],
               status |-> "none", tries |-> 0, path |-> <<>>, sum |-> {}, turned |-> FALSE,
               stage |-> "proxy"],
              tasks, inflight)
  BY DEF Submit
<1> DEFINE t == [req |-> r, node |-> n, from |-> Client, to |-> n, method |-> k[1], body |-> k[2],
                 status |-> "none", tries |-> 0, path |-> <<>>, sum |-> {}, turned |-> FALSE,
                 stage |-> "proxy"]
<1>2. k[1] \in STRING /\ k[2] \in {"valid", "invalid", "broken"}
  BY ServiceAssumption
<1>3. /\ t \in Tasks /\ t.stage = "proxy" /\ t.status = "none" /\ t.from = Client
      /\ t.body # "valid" => Malformed(t.req)
  BY <1>2 DEF Tasks, Statuses, Malformed
<1>4. Route(t, tasks, inflight)
  BY <1>1
<1> HIDE DEF t
<1>5. UNCHANGED <<rings, halted, pressure, lagging, done, turns>>
  BY DEF Submit
<1>6. \A q \in tasks : Good(q, done)
  BY DEF ServiceInv
<1>7. inflight \in Counts
  BY DEF ServiceInv
<1> QED
  BY <1>3, <1>4, <1>5, <1>6, <1>7, RouteKeeps

(* A task moves on to its next stage in the same node. *)
LEMMA StageKeeps ==
  ASSUME ServiceInv, NEW t \in tasks, NEW stage \in {"validate", "handler"},
         t.stage \in {"proxy", "validate"},
         stage = "validate" => t.method \in {"POST", "PUT"},
         stage = "handler" /\ t.method \in {"POST", "PUT"} => t.body = "valid",
         tasks' = (tasks \ {t}) \cup {[t EXCEPT !.stage = stage]},
         UNCHANGED <<rings, halted, pressure, lagging, inflight, answers, done, turns>>
  PROVE  ServiceInv'
<1> DEFINE new == [t EXCEPT !.stage = stage]
<1>1. Good(t, done) /\ t \in Tasks
  BY DEF ServiceInv, Good
<1>2. /\ new \in Tasks /\ new.stage = stage /\ new.method = t.method /\ new.body = t.body
      /\ new.status = t.status /\ new.req = t.req
  BY <1>1 DEF Tasks
<1>3. Good(new, done)
  <2> HIDE DEF new
  <2> QED
    BY <1>1, <1>2 DEF Good, Passing
<1>4. \A q \in tasks' : Good(q, done)
  <2> HIDE DEF new
  <2>1. tasks' = (tasks \ {t}) \cup {new}
    BY DEF new
  <2> QED
    BY <1>3, <2>1 DEF ServiceInv
<1> QED
  BY <1>4, TasksKeep DEF ServiceInv

(* An answer to a task that is over, while nothing new is carried out. *)
LEMMA EndKeeps ==
  ASSUME ServiceInv, NEW t \in tasks, NEW status \in Statuses,
         NEW count \in Counts, Answer(t, status, tasks \ {t}, count),
         status = "success" => t.status = "success",
         status = "bad request" => t.body # "valid" \/ t.status = "bad request",
         UNCHANGED <<rings, halted, pressure, lagging, done, turns>>
  PROVE  ServiceInv'
<1>1. /\ t \in Tasks /\ (t.status = "success" => t.req \in done)
      /\ t.body # "valid" \/ t.status = "bad request" => Malformed(t.req)
  BY DEF ServiceInv, Good
<1>2. \A q \in tasks \ {t} : Good(q, done)
  BY DEF ServiceInv
<1>3. done \subseteq done' /\ done' \subseteq Request
  BY DEF ServiceInv
<1> QED
  BY <1>1, <1>2, <1>3, AnswerKeeps

(* The request proxy reads the body. *)
LEMMA ReadBodyKeeps ==
  ASSUME ServiceInv, NEW t \in tasks, ReadBody(t)
  PROVE  ServiceInv'
<1>1. /\ t.stage = "proxy" /\ UNCHANGED <<rings, halted, pressure, lagging, done, turns>>
      /\ inflight \in Counts /\ t.method \in {"POST", "PUT", "DELETE"}
      /\ "error" \in Statuses /\ "bad request" \in Statuses
  BY DEF ReadBody, ServiceInv, Good, Statuses
<1>2. CASE \/ Answer(t, "error", tasks \ {t}, inflight)
           \/ t.body = "broken" /\ Answer(t, "bad request", tasks \ {t}, inflight)
  BY <1>1, <1>2, EndKeeps
<1>3. CASE /\ tasks' = (tasks \ {t}) \cup {[t EXCEPT !.stage = Following(t.method, "proxy")]}
           /\ UNCHANGED <<inflight, answers>>
  <2>1. /\ Following(t.method, "proxy") \in {"validate", "handler"}
        /\ Following(t.method, "proxy") = "validate" => t.method \in {"POST", "PUT"}
        /\ Following(t.method, "proxy") = "handler" => t.method \notin {"POST", "PUT"}
    BY <1>1, StackOrder
  <2> QED
    BY <1>1, <1>3, <2>1, StageKeeps
<1> QED
  BY <1>2, <1>3 DEF ReadBody

(* The validators let only valid bodies through. *)
LEMMA ValidateKeeps ==
  ASSUME ServiceInv, NEW t \in tasks, Validate(t)
  PROVE  ServiceInv'
<1>1. /\ t.stage = "validate" /\ UNCHANGED <<rings, halted, pressure, lagging, done, turns>>
      /\ inflight \in Counts /\ t.method \in {"POST", "PUT"} /\ "bad request" \in Statuses
  BY DEF Validate, ServiceInv, Good, Statuses
<1>2. CASE t.body = "invalid" /\ Answer(t, "bad request", tasks \ {t}, inflight)
  BY <1>1, <1>2, EndKeeps
<1>3. CASE /\ t.body = "valid"
           /\ tasks' = (tasks \ {t}) \cup {[t EXCEPT !.stage = Following(t.method, "validate")]}
           /\ UNCHANGED <<inflight, answers>>
  <2>1. Following(t.method, "validate") = "handler"
    BY <1>1, StackOrder
  <2> QED
    BY <1>1, <1>3, <2>1, StageKeeps
<1> QED
  BY <1>2, <1>3 DEF Validate

(* The handler of a route: only here is anything carried out. *)
LEMMA HandledKeeps ==
  ASSUME ServiceInv, NEW t \in tasks, Handled(t)
  PROVE  ServiceInv'
<1>1. /\ t.stage = "handler" /\ UNCHANGED <<rings, halted, pressure, lagging, turns>>
      /\ inflight \in Counts /\ t \in Tasks /\ t.req \in Request /\ done \subseteq Request
  BY DEF Handled, ServiceInv, Good, Tasks
<1>2. CASE Answer(t, "success", tasks \ {t}, inflight) /\ done' = done \cup {t.req}
  <2>1. /\ done \subseteq done' /\ done' \subseteq Request /\ t.req \in done'
        /\ "success" \in Statuses
    BY <1>1, <1>2 DEF Statuses
  <2>2. \A q \in tasks \ {t} : Good(q, done)
    BY DEF ServiceInv
  <2> QED
    BY <1>1, <1>2, <2>1, <2>2, AnswerKeeps
<1>3. ASSUME NEW e \in Refusals, Answer(t, StatusOf(t.method, e), tasks \ {t}, inflight),
             UNCHANGED done
      PROVE  ServiceInv'
  <2>1. StatusOf(t.method, e) \in Statuses \ {"success", "bad request"}
    BY DEF StatusOf, Statuses
  <2> QED
    BY <1>1, <1>3, <2>1, EndKeeps
<1> QED
  BY <1>2, <1>3 DEF Handled

(* send: the head that goes out has the sum of the ring as it is now. *)
LEMMA SendKeeps ==
  ASSUME ServiceInv, NEW q \in tasks, Send(q)
  PROVE  ServiceInv'
<1>1. /\ Good(q, done) /\ q \in Tasks /\ q.stage = "egress" /\ q.to \in Peers
      /\ q.node \in Peers /\ q.sum # {} /\ q.to = Best(q.sum, q.req) /\ q.tries \in Nat
      /\ UNCHANGED <<rings, halted, inflight, pressure, lagging, answers, done, turns>>
  BY DEF Send, ServiceInv, Good, Tasks
<1>2. \A p \in tasks \ {q} : Good(p, done)
  BY DEF ServiceInv
<1>3. CASE tasks' = (tasks \ {q}) \cup {ToldOf(q, "error")}
  <2>1. Good(ToldOf(q, "error"), done)
    BY <1>1, ToldGood DEF Passing, Statuses
  <2> QED
    BY <1>1, <1>2, <1>3, <2>1, TasksKeep DEF ServiceInv
<1>4. CASE tasks' = (tasks \ {q}) \cup {Sent(q), OnWire(q)}
  <2> DEFINE sent == [q EXCEPT !.stage = "sent", !.sum = {}]
             sum == rings[q.node]
             turned == q.sum # sum
             path == Append(q.path, q.tries)
             wire == [q EXCEPT !.node = q.to, !.from = q.node, !.stage = "wire", !.tries = 0,
                               !.path = path, !.sum = sum, !.turned = turned]
  <2>1. /\ sent \in Tasks /\ sent.stage = "sent" /\ sent.from = q.from
        /\ sent.turned = q.turned /\ sent.req = q.req /\ sent.status = q.status
        /\ sent.body = q.body
    BY <1>1 DEF Tasks
  <2>2. Good(sent, done)
    <3> HIDE DEF sent
    <3> QED
      BY <1>1, <2>1 DEF Good, Passing
  <2>3. /\ sum \in SUBSET Peers /\ turned \in BOOLEAN /\ (~turned => sum = q.sum)
        /\ path \in Seq(Nat)
    <3>1. rings \in [Peers -> SUBSET Peers]
      BY DEF ServiceInv
    <3> QED
      BY <1>1, <3>1 DEF Tasks
  <2> HIDE DEF sum, turned, path
  <2>4. /\ wire \in Tasks /\ wire.stage = "wire" /\ wire.node = q.to /\ wire.sum = sum
        /\ wire.turned = turned /\ wire.req = q.req /\ wire.status = q.status
        /\ wire.body = q.body
    BY <1>1, <2>3 DEF Tasks
  <2> HIDE DEF wire
  <2>5. Good(wire, done)
    BY <1>1, <2>3, <2>4 DEF Good, Passing
  <2>6. tasks' = (tasks \ {q}) \cup {sent, wire}
    BY <1>4 DEF Sent, OnWire, sent, wire, sum, turned, path
  <2> HIDE DEF sent
  <2> QED
    BY <1>1, <1>2, <2>2, <2>5, <2>6, TasksKeep DEF ServiceInv
<1> QED
  BY <1>3, <1>4 DEF Send

(* handleRequest: the sums are equal, so that the node is the nearest of   *)
(* its own ring, unless the sender's ring changed before it sent.          *)
LEMMA DeliverKeeps ==
  ASSUME ServiceInv, NEW t \in tasks, Deliver(t)
  PROVE  ServiceInv'
<1>1. /\ Good(t, done) /\ t \in Tasks /\ t.stage = "wire"
      /\ t.node \in Peers /\ t.req \in Request /\ inflight \in Counts
      /\ UNCHANGED <<rings, halted, pressure, lagging, done, turns>>
  BY DEF Deliver, ServiceInv, Good, Tasks
<1>2. \A p \in tasks \ {t} : Good(p, done)
  BY DEF ServiceInv
<1>3. CASE /\ tasks' = {IF Awaits(q, t) THEN Failing(q) ELSE q : q \in tasks \ {t}}
           /\ UNCHANGED <<inflight, answers>>
  <2>1. \A q \in tasks \ {t} : Awaits(q, t) => Good(Failing(q), done)
    BY <1>2, FailingGood DEF Awaits, Passing
  <2> QED
    BY <1>1, <1>2, <1>3, <2>1, TasksKeep
<1>4. CASE /\ tasks' = Replied(tasks \ {t}, t, "too many")
           /\ UNCHANGED <<inflight, answers>>
  <2>1. \A q \in tasks \ {t} : Awaits(q, t) => Good(ToldOf(q, "too many"), done)
    BY <1>2, ToldGood DEF Awaits, Passing, Statuses
  <2> QED
    BY <1>1, <1>2, <1>4, <2>1, TasksKeep DEF Replied
<1>5. CASE /\ t.sum = rings[t.node]
           /\ Route(t, tasks \ {t}, Increment(inflight, t.node))
  <2>1. Owner(t.node, t.req) # t.node => t.turned
    BY <1>1, <1>5, OwnerIsBest DEF Good
  <2>2. /\ Increment(inflight, t.node) \in Counts /\ (t.status = "success" => t.req \in done)
        /\ t.body # "valid" \/ t.status = "bad request" => Malformed(t.req)
    BY <1>1, CountsType DEF Good
  <2> QED
    BY <1>1, <1>2, <1>5, <2>1, <2>2, RouteKeeps
<1> QED
  BY <1>3, <1>4, <1>5 DEF Deliver

(* attemptRetry: a request that comes home is handled here. *)
LEMMA ReattemptKeeps ==
  ASSUME ServiceInv, NEW q \in tasks, Reattempt(q)
  PROVE  ServiceInv'
<1> DEFINE to == Owner(q.node, q.req)
           tries == q.tries + 1
           again == [q EXCEPT !.tries = tries, !.to = to]
           path == Append(q.path, tries)
           own == [again EXCEPT !.from = q.node, !.tries = 0, !.path = path]
<1>1. /\ Good(q, done) /\ q \in Tasks /\ q.stage = "retry" /\ q.tries \in Nat
      /\ q.node \in Peers /\ q.req \in Request /\ inflight \in Counts
      /\ UNCHANGED <<rings, halted, pressure, lagging, done, turns>>
  BY DEF Reattempt, ServiceInv, Good, Tasks
<1>2. \A p \in tasks \ {q} : Good(p, done)
  BY DEF ServiceInv
<1>3. to \in Peers /\ tries \in Nat /\ path \in Seq(Nat)
  BY <1>1, OwnerIsBest DEF Tasks
<1>4. \/ /\ again.to # q.node
         /\ tasks' = (tasks \ {q}) \cup {Looked(again)}
         /\ UNCHANGED <<inflight, answers>>
      \/ /\ tasks' = (tasks \ {q}) \cup {ToldOf(again, "too many")}
         /\ UNCHANGED <<inflight, answers>>
      \/ /\ again.to = q.node
         /\ Route(own, (tasks \ {q}) \cup {[again EXCEPT !.stage = "sent"]},
                  Increment(inflight, q.node))
  <2>1. again.path = q.path /\ again.tries = tries
    BY <1>1 DEF Tasks
  <2>2. [again EXCEPT !.from = q.node, !.tries = 0, !.path = Append(@, again.tries)] = own
    BY <2>1
  <2> HIDE DEF own
  <2> QED
    BY <2>2 DEF Reattempt
<1> HIDE DEF to, tries, path
<1>5. /\ again \in Tasks /\ again.stage = "retry" /\ again.tries = tries /\ again.to = to
      /\ again.from = q.from /\ again.turned = q.turned /\ again.req = q.req
      /\ again.status = q.status /\ again.node = q.node /\ again.body = q.body
  BY <1>1, <1>3 DEF Tasks
<1> HIDE DEF again
<1>6. Good(again, done) /\ (again.from # Client => again.turned)
  BY <1>1, <1>5 DEF Good, Passing
<1>7. CASE /\ again.to # q.node
           /\ tasks' = (tasks \ {q}) \cup {Looked(again)}
           /\ UNCHANGED <<inflight, answers>>
  <2>1. Owner(again.node, again.req) # again.node
    BY <1>5, <1>7 DEF to
  <2>2. Good(Looked(again), done)
    BY <1>6, <2>1, LookedGood
  <2> QED
    BY <1>1, <1>2, <1>7, <2>2, TasksKeep
<1>8. CASE /\ tasks' = (tasks \ {q}) \cup {ToldOf(again, "too many")}
           /\ UNCHANGED <<inflight, answers>>
  <2>1. Good(ToldOf(again, "too many"), done)
    BY <1>5, <1>6, ToldGood DEF Passing, Statuses
  <2> QED
    BY <1>1, <1>2, <1>8, <2>1, TasksKeep
<1>9. CASE /\ again.to = q.node
           /\ Route(own, (tasks \ {q}) \cup {[again EXCEPT !.stage = "sent"]},
                    Increment(inflight, q.node))
  <2> DEFINE sent == [again EXCEPT !.stage = "sent"]
  <2>1. /\ sent \in Tasks /\ sent.stage = "sent" /\ sent.from = again.from
        /\ sent.turned = again.turned /\ sent.req = again.req /\ sent.status = again.status
        /\ sent.body = again.body
    BY <1>5 DEF Tasks
  <2>2. Good(sent, done)
    <3> HIDE DEF sent
    <3> QED
      BY <1>6, <2>1 DEF Good, Passing
  <2>3. \A p \in (tasks \ {q}) \cup {sent} : Good(p, done)
    <3> HIDE DEF sent
    <3> QED
      BY <1>2, <2>2
  <2>4. /\ own \in Tasks /\ own.node = q.node /\ own.req = q.req /\ own.status = q.status
        /\ own.body = q.body
    BY <1>1, <1>3, <1>5 DEF Tasks
  <2>5. Owner(own.node, own.req) = own.node
    <3> HIDE DEF own
    <3> QED
      BY <1>5, <1>9, <2>4 DEF to
  <2>6. /\ Increment(inflight, q.node) \in Counts /\ (own.status = "success" => own.req \in done)
        /\ own.body # "valid" \/ own.status = "bad request" => Malformed(own.req)
    <3> HIDE DEF own
    <3> QED
      BY <1>1, <2>4, CountsType DEF Good
  <2> HIDE DEF own, sent
  <2>7. Route(own, (tasks \ {q}) \cup {sent}, Increment(inflight, q.node))
    BY <1>9 DEF sent
  <2> QED
    BY <1>1, <2>3, <2>4, <2>5, <2>6, <2>7, RouteKeeps
<1> QED
  BY <1>4, <1>7, <1>8, <1>9

(* A request over the network has no answer in time. *)
LEMMA TimeoutKeeps ==
  ASSUME ServiceInv, NEW q \in tasks, Timeout(q)
  PROVE  ServiceInv'
<1>1. Good(q, done) /\ q.stage \in Passing /\ inflight \in Counts
  BY DEF Timeout, ServiceInv, Passing
<1>2. Good(Failing(q), done)
  BY <1>1, FailingGood
<1> QED
  BY <1>1, <1>2, TasksKeep DEF Timeout, ServiceInv

(* onProxy answers as the owner did. *)
LEMMA OnProxyKeeps ==
  ASSUME ServiceInv, NEW q \in tasks, OnProxy(q)
  PROVE  ServiceInv'
<1>1. q.status \in Statuses /\ q.node \in Peers
  BY DEF ServiceInv, Good, Tasks
<1>2. Decrement(inflight, q.node) \in Counts
  BY <1>1, CountsType DEF ServiceInv
<1> QED
  BY <1>1, <1>2, EndKeeps DEF OnProxy

(* A node stops. *)
LEMMA StopKeeps ==
  ASSUME ServiceInv, NEW n \in Peers, Stop(n)
  PROVE  ServiceInv'
<1>1. \A q \in tasks' : Good(q, done)
  <2>1. \A q \in tasks : q.stage = "sent" => Good(Failing(q), done)
    BY FailingGood DEF ServiceInv, Passing
  <2>2. \A q \in tasks : Good(q, done)
    BY DEF ServiceInv
  <2>3. tasks' = {IF q.stage = "sent" /\ q.to = n THEN Failing(q) ELSE q :
                  q \in {t \in tasks : t.node # n}}
    BY DEF Stop
  <2> QED
    BY <2>1, <2>2, <2>3
<1>2. inflight' \in Counts
  <2>1. inflight \in Counts
    BY DEF ServiceInv
  <2> QED
    BY <2>1, ServiceAssumption DEF Stop, Counts
<1>3. halted' \subseteq Mortal
  BY DEF Stop, ServiceInv
<1> QED
  BY <1>1, <1>2, <1>3 DEF Stop, ServiceInv

(* Every step keeps the invariant. *)
LEMMA NextServiceInv == ServiceInv /\ [ServiceNext]_serviceVars => ServiceInv'
<1> SUFFICES ASSUME ServiceInv, [ServiceNext]_serviceVars PROVE ServiceInv'
  OBVIOUS
<1>1. ASSUME NEW t \in tasks, Progress(t) PROVE ServiceInv'
  BY <1>1, ReadBodyKeeps, ValidateKeeps, HandledKeeps, SendKeeps, ReattemptKeeps, OnProxyKeeps
  DEF Progress
<1>2. ASSUME NEW n \in Peers, ChangeRing(n) PROVE ServiceInv'
  <2>1. PICK m \in Movers \ {n} :
          rings' = [rings EXCEPT ![n] = IF m \in @ THEN @ \ {m} ELSE @ \cup {m}]
    BY <1>2 DEF ChangeRing
  <2>2. rings \in [Peers -> SUBSET Peers] /\ turns \in 0 .. MaxTurns
    BY DEF ServiceInv
  <2>3. rings' \in [Peers -> SUBSET Peers] /\ turns' \in 0 .. MaxTurns
    BY <1>2, <2>1, <2>2, ServiceAssumption DEF ChangeRing
  <2> QED
    BY <1>2, <2>3 DEF ChangeRing, ServiceInv
<1>3. ASSUME NEW n \in Peers, Sample(n) PROVE ServiceInv'
  <2>1. lagging' \subseteq Peers
    BY <1>3 DEF Sample, ServiceInv
  <2>2. turns \in 0 .. MaxTurns
    BY DEF ServiceInv
  <2>3. turns' \in 0 .. MaxTurns
    BY <1>3, <2>2, ServiceAssumption DEF Sample
  <2> QED
    BY <1>3, <2>1, <2>3 DEF Sample, ServiceInv
<1>4. CASE UNCHANGED serviceVars
  BY <1>4 DEF serviceVars, ServiceInv
<1> QED
  BY <1>1, <1>2, <1>3, <1>4, SubmitKeeps, DeliverKeeps, TimeoutKeeps, StopKeeps DEF ServiceNext

(* It holds. *)
LEMMA InvHolds == ServiceSpec => []ServiceInv
BY InitServiceInv, NextServiceInv, PTL DEF ServiceSpec

(* Every variable keeps its type, the counts of inflight requests their    *)
(* limit (request-proxy/index.js 320-343).                                 *)
THEOREM TypeCorrect == ServiceSpec => []ServiceTypeOK
<1>1. ServiceInv => ServiceTypeOK
  BY DEF ServiceInv, ServiceTypeOK, Good, Counts
<1> QED
  BY InvHolds, <1>1, PTL

(* A node that got a request from another one passes it on again only when *)
(* the sender's ring changed between the lookup and the sending, however   *)
(* many nodes there are and whatever their rings are (handleRequest 225-   *)
(* 240, send.js).                                                          *)
THEOREM RequestsGoStraight == ServiceSpec => []PassedOnAgainOnlyIfTurned
<1>1. ServiceInv => PassedOnAgainOnlyIfTurned
  BY DEF ServiceInv, PassedOnAgainOnlyIfTurned, Good, Passing
<1> QED
  BY InvHolds, <1>1, PTL

(* No client is told of a success that was none, or that it was malformed  *)
(* when it only sends valid bodies, whatever way its request and the       *)
(* answer took, and no handler sees a body that was not validated          *)
(* (route.process, onProxy 173-203).                                       *)
THEOREM AnswersAreTrueOnes == ServiceSpec => []AnswersAreTrue
<1>1. ServiceInv => AnswersAreTrue
  BY DEF ServiceInv, AnswersAreTrue, Good, Malformed
<1> QED
  BY InvHolds, <1>1, PTL

----------------------------------------------------------------------------
(* Task a passed on the request that task t is, directly or not.           *)
Under(a, t) ==
  /\ a.req = t.req /\ Len(a.path) < Len(t.path)
  /\ \A i \in 1 .. Len(a.path) : t.path[i] = a.path[i]

(* A task has sent off its k-th try. *)
HasSent(a, k) == k < a.tries \/ (k = a.tries /\ a.stage \in Passing \ {"egress"})

(* Tasks with ways of their own: no two took the same one, and what a task *)
(* is going to send takes a new one.                                       *)
Lineage(T) ==
  /\ T \subseteq Tasks /\ IsFiniteSet(T)
  /\ \A t \in T : t.stage \notin Passing => t.tries = 0
  /\ \A t, u \in T : t.req = u.req /\ t.path = u.path => t = u
  /\ \A a, t \in T : Under(a, t) => HasSent(a, t.path[Len(a.path) + 1])

(* What a node counts of some tasks, and a single one's part of that.      *)
Out(T, n) == {t \in T : t.node = n /\ t.stage \in Passing}
In(T, n) == {t \in T : t.node = n /\ t.from # Client /\ t.stage # "wire"}
Load(T, n) == Cardinality(Out(T, n)) + Cardinality(In(T, n))
Weight(t, n) ==
  (IF t.node = n /\ t.stage \in Passing THEN 1 ELSE 0)
  + (IF t.node = n /\ t.from # Client /\ t.stage # "wire" THEN 1 ELSE 0)

Fits(c, load) == IF pressure THEN c = load ELSE c <= load

----------------------------------------------------------------------------
(* Some of the tasks of a lineage are a lineage. *)
LEMMA LineageOfSome ==
  ASSUME NEW T, Lineage(T), NEW S \in SUBSET T
  PROVE  Lineage(S)
<1>1. IsFiniteSet(S)
  BY FS_Subset DEF Lineage
<1> QED
  BY <1>1 DEF Lineage

(* A task changes and keeps its way. *)
LEMMA LineageOfChanged ==
  ASSUME NEW T, NEW t, t \notin T, Lineage(T \cup {t}), NEW u \in Tasks,
         u.req = t.req, u.path = t.path, u.stage \notin Passing => u.tries = 0,
         \/ u.tries > t.tries
         \/ u.tries = t.tries /\ (t.stage \in Passing \ {"egress"} => u.stage \in Passing \ {"egress"})
  PROVE  Lineage(T \cup {u}) /\ u \notin T
<1>1. T \subseteq Tasks /\ t \in Tasks
  BY DEF Lineage
<1>2. u \notin T
  BY DEF Lineage
<1>3. IsFiniteSet(T \cup {u})
  <2>1. IsFiniteSet(T)
    BY FS_Subset DEF Lineage
  <2> QED
    BY <2>1, FS_AddElement
<1>4. ASSUME NEW k \in Nat, HasSent(t, k) PROVE HasSent(u, k)
  BY <1>1, <1>4 DEF HasSent, Tasks
<1>5. ASSUME NEW a \in T \cup {u}, NEW v \in T \cup {u}, Under(a, v)
      PROVE  HasSent(a, v.path[Len(a.path) + 1])
  <2>1. a \in Tasks /\ v \in Tasks
    BY <1>1
  <2>2. CASE a = u
    <3>1. v \in T /\ Under(t, v)
      BY <1>5, <2>1, <2>2 DEF Under, Tasks
    <3>2. HasSent(t, v.path[Len(t.path) + 1])
      BY <3>1 DEF Lineage
    <3>3. v.path[Len(t.path) + 1] \in Nat
      BY <3>1, <2>1, <1>1 DEF Under, Tasks
    <3> QED
      BY <2>2, <3>2, <3>3, <1>4
  <2>3. CASE a # u /\ v = u
    <3>1. a \in T /\ Under(a, t)
      BY <1>5, <2>1, <2>3 DEF Under
    <3> QED
      BY <3>1, <2>3 DEF Lineage
  <2>4. CASE a # u /\ v # u
    BY <1>5, <2>4 DEF Lineage
  <2> QED
    BY <2>2, <2>3, <2>4
<1>6. ASSUME NEW v \in T, v.req = u.req, v.path = u.path PROVE FALSE
  BY <1>6 DEF Lineage
<1> QED
  BY <1>1, <1>2, <1>3, <1>5, <1>6 DEF Lineage

(* A task sends a try off: it takes a way that no task took. *)
LEMMA LineageOfSent ==
  ASSUME NEW T, Lineage(T), NEW a \in T, a.stage \in Passing \ {"egress"},
         \A t \in T : Under(a, t) => t.path[Len(a.path) + 1] < a.tries,
         NEW u \in Tasks, u.req = a.req, u.path = Append(a.path, a.tries), u.tries = 0
  PROVE  Lineage(T \cup {u}) /\ u \notin T
<1>1. T \subseteq Tasks /\ a \in Tasks /\ a.path \in Seq(Nat) /\ a.tries \in Nat
  BY DEF Lineage, Tasks
<1>2. /\ Len(u.path) = Len(a.path) + 1 /\ u.path[Len(a.path) + 1] = a.tries
      /\ \A i \in 1 .. Len(a.path) : u.path[i] = a.path[i]
      /\ Len(a.path) \in Nat
  BY <1>1
<1>3. ASSUME NEW v \in T, v.req = u.req, Len(u.path) <= Len(v.path),
             \A i \in 1 .. Len(u.path) : v.path[i] = u.path[i]
      PROVE  FALSE
  <2>1. Under(a, v)
    <3>1. v.path \in Seq(Nat) /\ Len(v.path) \in Nat
      BY <1>1 DEF Tasks
    <3>2. Len(a.path) < Len(v.path)
      BY <1>2, <1>3, <3>1
    <3>3. \A i \in 1 .. Len(a.path) : i \in 1 .. Len(u.path)
      BY <1>2
    <3>4. \A i \in 1 .. Len(a.path) : v.path[i] = a.path[i]
      <4>1. \A i \in 1 .. Len(a.path) : v.path[i] = u.path[i]
        BY <1>3, <3>3
      <4> QED
        BY <1>2, <4>1
    <3>5. a.req = v.req
      BY <1>3
    <3> QED
      BY <3>2, <3>4, <3>5 DEF Under
  <2>2. v.path[Len(a.path) + 1] = a.tries
    <3>1. Len(a.path) + 1 \in 1 .. Len(u.path)
      BY <1>2
    <3> QED
      BY <1>2, <1>3, <3>1
  <2>3. a.tries < a.tries
    BY <2>1, <2>2
  <2> QED
    BY <1>1, <2>3
<1>4. ASSUME NEW v \in T PROVE ~(v.req = u.req /\ v.path = u.path) /\ ~Under(u, v)
  <2>1. Len(v.path) \in Nat /\ Len(u.path) \in Nat
    BY <1>1 DEF Tasks
  <2> QED
    <3>1. ASSUME Under(u, v) PROVE FALSE
      BY <1>3, <2>1, <3>1 DEF Under
    <3>2. ASSUME v.req = u.req, v.path = u.path PROVE FALSE
      BY <1>3, <2>1, <3>2
    <3> QED
      BY <3>1, <3>2
<1>5. u \notin T /\ ~Under(u, u)
  BY <1>2, <1>4 DEF Under
<1>6. ASSUME NEW b \in T, Under(b, u) PROVE HasSent(b, u.path[Len(b.path) + 1])
  <2>1. b \in Tasks /\ b.path \in Seq(Nat) /\ Len(b.path) \in Nat /\ b.req = a.req
    BY <1>1, <1>6 DEF Tasks, Under
  <2>2. CASE Len(b.path) = Len(a.path)
    <3>1. b.path = a.path
      <4>1. \A i \in 1 .. Len(b.path) : b.path[i] = a.path[i]
        BY <1>2, <1>6, <2>2 DEF Under
      <4> QED
        BY <1>1, <2>1, <2>2, <4>1, SeqEqual
    <3>2. b = a
      BY <2>1, <3>1 DEF Lineage
    <3> QED
      BY <1>2, <3>2 DEF HasSent
  <2>3. CASE Len(b.path) # Len(a.path)
    <3>1. Len(b.path) < Len(a.path)
      BY <1>2, <1>6, <2>1, <2>3 DEF Under
    <3>2. Under(b, a)
      BY <1>2, <1>6, <2>1, <3>1 DEF Under
    <3>3. u.path[Len(b.path) + 1] = a.path[Len(b.path) + 1]
      BY <1>2, <2>1, <3>1
    <3> QED
      BY <3>2, <3>3 DEF Lineage
  <2> QED
    BY <2>2, <2>3
<1>7. IsFiniteSet(T \cup {u})
  BY FS_AddElement DEF Lineage
<1>8. T \cup {u} \subseteq Tasks
  BY <1>1
<1>9. \A t, v \in T \cup {u} : t.req = v.req /\ t.path = v.path => t = v
  BY <1>4 DEF Lineage
<1>10. \A b, t \in T \cup {u} : Under(b, t) => HasSent(b, t.path[Len(b.path) + 1])
  BY <1>4, <1>5, <1>6 DEF Lineage
<1>11. \A t \in T \cup {u} : t.stage \notin Passing => t.tries = 0
  BY DEF Lineage
<1> QED
  BY <1>5, <1>7, <1>8, <1>9, <1>10, <1>11 DEF Lineage

(* A client's request comes from nowhere. *)
LEMMA LineageOfNew ==
  ASSUME NEW T, Lineage(T), NEW u \in Tasks, \A t \in T : t.req # u.req, u.tries = 0
  PROVE  Lineage(T \cup {u}) /\ u \notin T
<1>1. IsFiniteSet(T \cup {u})
  BY FS_AddElement DEF Lineage
<1>2. ~Under(u, u)
  <2>1. Len(u.path) \in Nat
    BY DEF Tasks
  <2> QED
    BY <2>1 DEF Under
<1>3. \A t \in T : ~Under(u, t) /\ ~Under(t, u)
  BY DEF Under
<1> QED
  BY <1>1, <1>2, <1>3 DEF Lineage

(* A task is counted on its own. *)
LEMMA LoadOfOneMore ==
  ASSUME NEW T, IsFiniteSet(T), NEW u, u \notin T, NEW n
  PROVE  /\ Load(T, n) \in Nat /\ Weight(u, n) \in 0 .. 2
         /\ Load(T \cup {u}, n) = Load(T, n) + Weight(u, n)
<1>1. /\ IsFiniteSet(Out(T, n)) /\ Cardinality(Out(T, n)) \in Nat
      /\ IsFiniteSet(In(T, n)) /\ Cardinality(In(T, n)) \in Nat
  BY FS_Subset, FS_CardinalityType DEF Out, In
<1>2. u \notin Out(T, n) /\ u \notin In(T, n)
  BY DEF Out, In
<1>3. Cardinality(Out(T \cup {u}, n))
        = Cardinality(Out(T, n)) + (IF u.node = n /\ u.stage \in Passing THEN 1 ELSE 0)
  <2>1. Out(T \cup {u}, n)
          = IF u.node = n /\ u.stage \in Passing THEN Out(T, n) \cup {u} ELSE Out(T, n)
    BY DEF Out
  <2> HIDE DEF Passing
  <2>2. Cardinality(Out(T, n) \cup {u}) = Cardinality(Out(T, n)) + 1
    BY <1>1, <1>2, FS_AddElement
  <2> QED
    BY <1>1, <2>1, <2>2
<1>4. Cardinality(In(T \cup {u}, n))
        = Cardinality(In(T, n)) + (IF u.node = n /\ u.from # Client /\ u.stage # "wire" THEN 1 ELSE 0)
  <2>1. In(T \cup {u}, n)
          = IF u.node = n /\ u.from # Client /\ u.stage # "wire" THEN In(T, n) \cup {u} ELSE In(T, n)
    BY DEF In
  <2>2. Cardinality(In(T, n) \cup {u}) = Cardinality(In(T, n)) + 1
    BY <1>1, <1>2, FS_AddElement
  <2> QED
    BY <1>1, <2>1, <2>2
<1> QED
  BY <1>1, <1>3, <1>4 DEF Load, Weight

(* A task that waits hears how its try went. *)
Settles(q, p) ==
  \/ p = q
  \/ /\ q.stage = "sent" /\ p \in Tasks /\ p.stage \in {"told", "retry"}
     /\ p.req = q.req /\ p.path = q.path /\ p.node = q.node /\ p.from = q.from
     /\ p.tries = q.tries

(* Those that hear of it are as many as before, on the same ways. *)
LEMMA SettledTasks ==
  ASSUME NEW T, Lineage(T), NEW S, NEW g \in [T -> S], S = {g[q] : q \in T},
         \A q \in T : Settles(q, g[q])
  PROVE  Lineage(S) /\ \A n : Load(S, n) = Load(T, n)
<1>1. T \subseteq Tasks /\ IsFiniteSet(T)
  BY DEF Lineage
<1>2. \A q \in T : /\ g[q] \in Tasks /\ g[q].req = q.req /\ g[q].path = q.path
                   /\ g[q].node = q.node /\ g[q].from = q.from /\ g[q].tries = q.tries
                   /\ (g[q].stage \in Passing <=> q.stage \in Passing)
                   /\ (g[q].stage = "wire" <=> q.stage = "wire")
                   /\ (q.stage \in Passing \ {"egress"} => g[q].stage \in Passing \ {"egress"})
  BY <1>1 DEF Settles, Passing
<1>3. \A p, q \in T : g[p] = g[q] => p = q
  BY <1>2 DEF Lineage
<1>4. IsFiniteSet(S)
  <2>1. g \in Surjection(T, S)
    BY DEF Surjection
  <2> QED
    BY <1>1, <2>1, FS_Surjection
<1>5. Lineage(S)
  <2>1. S \subseteq Tasks
    BY <1>2
  <2>2. \A p, q \in S : p.req = q.req /\ p.path = q.path => p = q
    BY <1>2 DEF Lineage
  <2>3. \A p \in S : p.stage \notin Passing => p.tries = 0
    BY <1>2 DEF Lineage
  <2>4. ASSUME NEW p \in S, NEW q \in S, Under(p, q) PROVE HasSent(p, q.path[Len(p.path) + 1])
    <3>1. PICK a \in T, t \in T : p = g[a] /\ q = g[t]
      OBVIOUS
    <3>2. Under(a, t)
      BY <1>2, <2>4, <3>1 DEF Under
    <3>3. HasSent(a, t.path[Len(a.path) + 1])
      BY <3>2 DEF Lineage
    <3> QED
      BY <1>2, <3>1, <3>3 DEF HasSent
  <2> QED
    BY <1>4, <2>1, <2>2, <2>3, <2>4 DEF Lineage
<1>6. ASSUME NEW n PROVE Load(S, n) = Load(T, n)
  <2>1. Cardinality(Out(S, n)) = Cardinality(Out(T, n))
    <3> DEFINE f == [q \in Out(T, n) |-> g[q]]
    <3>1. Out(T, n) \subseteq T /\ IsFiniteSet(Out(T, n))
      BY <1>1, FS_Subset DEF Out
    <3>2. \A q \in Out(T, n) : g[q] \in Out(S, n)
      BY <1>2, <3>1 DEF Out
    <3>3. \A p \in Out(S, n) : \E q \in Out(T, n) : g[q] = p
      BY <1>2 DEF Out
    <3>4. f \in Bijection(Out(T, n), Out(S, n))
      BY <1>3, <3>1, <3>2, <3>3 DEF Bijection, Injection, Surjection, IsInjective
    <3> QED
      BY <3>1, <3>4, FS_Bijection DEF ExistsBijection
  <2>2. Cardinality(In(S, n)) = Cardinality(In(T, n))
    <3> DEFINE f == [q \in In(T, n) |-> g[q]]
    <3>1. In(T, n) \subseteq T /\ IsFiniteSet(In(T, n))
      BY <1>1, FS_Subset DEF In
    <3>2. \A q \in In(T, n) : g[q] \in In(S, n)
      BY <1>2, <3>1 DEF In
    <3>3. \A p \in In(S, n) : \E q \in In(T, n) : g[q] = p
      BY <1>2 DEF In
    <3>4. f \in Bijection(In(T, n), In(S, n))
      BY <1>3, <3>1, <3>2, <3>3 DEF Bijection, Injection, Surjection, IsInjective
    <3> QED
      BY <3>1, <3>4, FS_Bijection DEF ExistsBijection
  <2> QED
    BY <2>1, <2>2 DEF Load
<1> QED
  BY <1>5, <1>6

(* A count that fits some tasks, and one that has t counted besides them.  *)
Counted(T, c) ==
  /\ Lineage(T) /\ \A t \in T : t.stage = "wire" => t.from # Client
  /\ \A n \in Peers \ halted : Fits(c[n], Load(T, n))
Held(T, c, t) ==
  /\ Lineage(T) /\ \A q \in T : q.stage = "wire" => q.from # Client
  /\ \A n \in Peers \ halted :
       Fits(c[n], Load(T, n) + (IF t.node = n /\ t.from # Client THEN 1 ELSE 0))

(* What is inductive: every node's count fits, and ways are told apart.    *)
CountInv == ServiceInv /\ Counted(tasks, inflight)

(* What a node counts is a number. *)
LEMMA LoadType ==
  ASSUME NEW T, Lineage(T), NEW n
  PROVE  Load(T, n) \in Nat
<1>1. IsFiniteSet(Out(T, n)) /\ IsFiniteSet(In(T, n))
  BY FS_Subset DEF Out, In, Lineage
<1> QED
  BY <1>1, FS_CardinalityType DEF Load

(* The corrections at the limits lose nothing while there is back pressure. *)
LEMMA StepsFit ==
  ASSUME NEW c \in Counts, NEW n \in Peers, pressure \in BOOLEAN
  PROVE  /\ \A m \in Peers \ {n} : Decrement(c, n)[m] = c[m] /\ Increment(c, n)[m] = c[m]
         /\ \A load \in Nat : Fits(c[n], load + 1) => Fits(Decrement(c, n)[n], load)
         /\ \A load \in Nat : Fits(c[n], load) /\ ~TooMany(c, n) => Fits(Increment(c, n)[n], load + 1)
<1>1. c[n] \in 0 .. MaxInflight /\ MaxInflight \in Nat
  BY ServiceAssumption DEF Counts
<1>2. /\ Decrement(c, n)[n] = IF c[n] = 0 THEN 0 ELSE c[n] - 1
      /\ Increment(c, n)[n] = IF c[n] + 1 > MaxInflight THEN MaxInflight ELSE c[n] + 1
      /\ \A m \in Peers \ {n} : Decrement(c, n)[m] = c[m] /\ Increment(c, n)[m] = c[m]
  BY DEF Counts, Decrement, Increment
<1>3. ~TooMany(c, n) => (pressure => c[n] + 1 <= MaxInflight)
  BY <1>1 DEF TooMany
<1>4. ASSUME NEW load \in Nat, Fits(c[n], load + 1) PROVE Fits(Decrement(c, n)[n], load)
  <2> HIDE DEF Decrement
  <2> QED
    BY <1>1, <1>2, <1>4 DEF Fits
<1>5. ASSUME NEW load \in Nat, Fits(c[n], load), ~TooMany(c, n)
      PROVE  Fits(Increment(c, n)[n], load + 1)
  BY <1>1, <1>2, <1>3, <1>5 DEF Fits
<1> QED
  BY <1>2, <1>4, <1>5

(* Those that hear of the answer to t. *)
LEMMA RepliedSettles ==
  ASSUME NEW T, Lineage(T), NEW t, NEW status \in Statuses
  PROVE  /\ Lineage(Replied(T, t, status)) /\ \A n : Load(Replied(T, t, status), n) = Load(T, n)
         /\ \A p \in Replied(T, t, status) : p.stage = "wire" => p \in T
<1> DEFINE g == [q \in T |-> IF Awaits(q, t) THEN ToldOf(q, status) ELSE q]
           S == Replied(T, t, status)
<1>1. S = {g[q] : q \in T} /\ g \in [T -> S]
  BY DEF Replied
<1>2. ASSUME NEW q \in T PROVE Settles(q, g[q]) /\ (g[q].stage = "wire" => g[q] \in T)
  <2>1. CASE Awaits(q, t)
    <3>1. q \in Tasks /\ q.stage = "sent"
      BY <2>1 DEF Lineage, Awaits
    <3>2. g[q] = [q EXCEPT !.stage = "told", !.status = status]
      BY <2>1 DEF ToldOf
    <3>3. /\ g[q] \in Tasks /\ g[q].stage = "told" /\ g[q].req = q.req /\ g[q].path = q.path
          /\ g[q].node = q.node /\ g[q].from = q.from /\ g[q].tries = q.tries
      BY <3>1, <3>2 DEF Tasks
    <3> HIDE DEF g
    <3> QED
      BY <3>1, <3>3 DEF Settles
  <2>2. CASE ~Awaits(q, t)
    BY <2>2 DEF Settles
  <2> QED
    BY <2>1, <2>2
<1> HIDE DEF g, S
<1>3. \A p \in S : p.stage = "wire" => p \in T
  BY <1>1, <1>2
<1>4. Lineage(S) /\ \A n : Load(S, n) = Load(T, n)
  BY <1>1, <1>2, SettledTasks
<1> QED
  BY <1>3, <1>4 DEF S

(* res.end: what answers is no longer counted. *)
LEMMA AnswerCounts ==
  ASSUME ServiceInv, NEW t, t.node \in Peers, NEW T, NEW count \in Counts, Held(T, count, t),
         NEW status \in Statuses, Answer(t, status, T, count)
  PROVE  Counted(tasks', inflight')
<1>1. tasks' = Replied(T, t, status) /\ Lineage(T)
  BY DEF Answer, Held
<1>2. Lineage(tasks') /\ \A n : Load(tasks', n) = Load(T, n)
  BY <1>1, RepliedSettles
<1>3. \A p \in tasks' : p.stage = "wire" => p.from # Client
  BY <1>1, RepliedSettles DEF Held
<1>4. ASSUME NEW n \in Peers \ halted PROVE Fits(inflight'[n], Load(T, n))
  <2>1. Load(T, n) \in Nat /\ pressure \in BOOLEAN
    BY <1>1, LoadType DEF ServiceInv
  <2>2. CASE t.from = Client
    BY <2>1, <2>2 DEF Answer, Held
  <2>3. CASE t.from # Client /\ t.node = n
    <3>1. Fits(count[n], Load(T, n) + 1) /\ inflight' = Decrement(count, n)
      BY <2>3 DEF Answer, Held
    <3> QED
      BY <2>1, <3>1, StepsFit
  <2>4. CASE t.from # Client /\ t.node # n
    <3>1. Fits(count[n], Load(T, n) + 0) /\ inflight'[n] = count[n]
      BY <2>1, <2>4, StepsFit DEF Answer, Held
    <3> QED
      BY <2>1, <3>1
  <2> QED
    BY <2>2, <2>3, <2>4
<1> QED
  BY <1>2, <1>3, <1>4 DEF Counted

(* A task that stays with its node, and is counted there or not. *)
LEMMA StaysCounted ==
  ASSUME NEW T, NEW count, NEW t, Held(T, count, t), NEW u, Lineage(T \cup {u}), u \notin T,
         u.node = t.node, u.from = t.from, u.stage \in {"proxy", "validate", "handler"}
  PROVE  Counted(T \cup {u}, count)
<1>1. ASSUME NEW n \in Peers \ halted
      PROVE  Load(T \cup {u}, n) = Load(T, n) + (IF t.node = n /\ t.from # Client THEN 1 ELSE 0)
  <2>1. Load(T \cup {u}, n) = Load(T, n) + Weight(u, n)
    BY LoadOfOneMore DEF Held, Lineage
  <2>2. Weight(u, n) = IF t.node = n /\ t.from # Client THEN 1 ELSE 0
    BY DEF Weight, Passing
  <2> QED
    BY <2>1, <2>2
<1> QED
  BY <1>1 DEF Counted, Held

(* What a task was when it came, or might have been. *)
Seed(t) == [t EXCEPT !.stage = "proxy"]

(* router.handle counts what it keeps or looks up, not what it answers.   *)
LEMMA RouteCounts ==
  ASSUME ServiceInv, NEW t \in Tasks, t.tries = 0, NEW T, Lineage(T \cup {Seed(t)}), Seed(t) \notin T,
         NEW count \in Counts, Held(T, count, t), Route(t, T, count)
  PROVE  Counted(tasks', inflight')
<1> DEFINE seed == Seed(t)
<1>0. /\ t.node \in Peers /\ t.req \in Request /\ pressure \in BOOLEAN
      /\ rings \in [Peers -> SUBSET Peers]
  BY DEF Tasks, ServiceInv
<1>1. /\ seed \in Tasks /\ seed.req = t.req /\ seed.path = t.path /\ seed.tries = 0
      /\ seed.stage = "proxy"
  BY DEF Tasks, Seed
<1> HIDE DEF seed
<1>2. Lineage(T \cup {seed}) /\ seed \notin T
  BY DEF seed
<1>3. CASE \/ Answer(t, "not found", T, count)
           \/ Answer(t, "too many", T, count)
  BY <1>0, <1>3, AnswerCounts DEF Statuses
<1>4. ASSUME NEW u \in Tasks, u.req = t.req, u.path = t.path, u.tries = 0
      PROVE  Lineage(T \cup {u}) /\ u \notin T
  <2>1. seed.stage \notin Passing
    BY <1>1 DEF Passing
  <2> HIDE DEF Passing
  <2>2. u.tries = seed.tries
    BY <1>1, <1>4
  <2> QED
    BY <1>1, <1>2, <1>4, <2>1, <2>2, LineageOfChanged
<1>5. CASE tasks' = T \cup {[Local(t) EXCEPT !.stage = "handler"]} /\ inflight' = count
  <2> DEFINE local == [t EXCEPT !.stage = "proxy", !.sum = {}, !.turned = FALSE]
             u == [local EXCEPT !.stage = "handler"]
  <2>1. local \in Tasks /\ local.node = t.node /\ local.from = t.from /\ local.tries = 0
        /\ local.req = t.req /\ local.path = t.path
    BY DEF Tasks
  <2> HIDE DEF local
  <2>2. u \in Tasks /\ u.node = t.node /\ u.from = t.from /\ u.tries = 0
        /\ u.req = t.req /\ u.path = t.path /\ u.stage = "handler"
    BY <2>1 DEF Tasks
  <2>3. tasks' = T \cup {u}
    BY <1>5 DEF Local, local
  <2> HIDE DEF u
  <2> QED
    BY <1>4, <1>5, <2>2, <2>3, StaysCounted
<1>6. CASE tasks' = T \cup {Local(t)} /\ inflight' = count
  <2> DEFINE u == [t EXCEPT !.stage = "proxy", !.sum = {}, !.turned = FALSE]
  <2>1. u \in Tasks /\ u.node = t.node /\ u.from = t.from /\ u.tries = 0
        /\ u.req = t.req /\ u.path = t.path /\ u.stage = "proxy"
    BY DEF Tasks
  <2>2. tasks' = T \cup {u}
    BY <1>6 DEF Local
  <2> HIDE DEF u
  <2> QED
    BY <1>4, <1>6, <2>1, <2>2, StaysCounted
<1>7. CASE /\ ~TooMany(count, t.node) /\ tasks' = T \cup {Looked(t)}
           /\ inflight' = Increment(count, t.node)
  <2> DEFINE to == Owner(t.node, t.req)
             sum == rings[t.node]
             u == [t EXCEPT !.stage = "egress", !.to = to, !.sum = sum]
  <2>1. to \in Peers /\ sum \in SUBSET Peers
    BY <1>0, OwnerIsBest
  <2> HIDE DEF to, sum
  <2>2. u \in Tasks /\ u.node = t.node /\ u.from = t.from /\ u.tries = 0
        /\ u.req = t.req /\ u.path = t.path /\ u.stage = "egress"
    BY <2>1 DEF Tasks
  <2>3. tasks' = T \cup {u}
    BY <1>7 DEF Looked, to, sum
  <2> HIDE DEF u
  <2>4. Lineage(T \cup {u}) /\ u \notin T
    BY <1>4, <2>2
  <2>5. ASSUME NEW n \in Peers \ halted PROVE Fits(inflight'[n], Load(T \cup {u}, n))
    <3>1. Load(T \cup {u}, n) = Load(T, n) + Weight(u, n) /\ Load(T, n) \in Nat
      BY <2>4, LoadOfOneMore DEF Held, Lineage
    <3> DEFINE mine == IF t.node = n /\ t.from # Client THEN 1 ELSE 0
    <3>2. Weight(u, n) = IF t.node = n THEN mine + 1 ELSE mine
      BY <2>2 DEF Weight, Passing
    <3>3. Fits(count[n], Load(T, n) + mine) /\ mine \in Nat
      BY DEF Held
    <3> HIDE DEF mine
    <3>4. CASE t.node = n
      <4>1. Load(T, n) + mine \in Nat /\ Load(T \cup {u}, n) = (Load(T, n) + mine) + 1
        BY <3>1, <3>2, <3>3, <3>4
      <4> QED
        BY <1>0, <1>7, <3>3, <3>4, <4>1, StepsFit
    <3>5. CASE t.node # n
      <4>1. inflight'[n] = count[n]
        BY <1>0, <1>7, <3>5, StepsFit
      <4> QED
        BY <3>1, <3>2, <3>3, <3>5, <4>1
    <3> QED
      BY <3>4, <3>5
  <2>6. \A q \in T \cup {u} : q.stage = "wire" => q.from # Client
    BY <2>2 DEF Held
  <2> QED
    BY <2>3, <2>4, <2>5, <2>6 DEF Counted
<1> QED
  BY <1>3, <1>5, <1>6, <1>7 DEF Route


(* A task of a node is put aside. *)
LEMMA WithoutTask ==
  ASSUME Counted(tasks, inflight), NEW t \in tasks
  PROVE  /\ Lineage(tasks \ {t}) /\ t \in Tasks /\ tasks = (tasks \ {t}) \cup {t}
         /\ \A q \in tasks \ {t} : q.stage = "wire" => q.from # Client
         /\ \A n : /\ Load(tasks \ {t}, n) \in Nat /\ Weight(t, n) \in Nat
                   /\ Load(tasks, n) = Load(tasks \ {t}, n) + Weight(t, n)
<1>1. Lineage(tasks \ {t}) /\ tasks = (tasks \ {t}) \cup {t}
  BY LineageOfSome DEF Counted
<1>2. IsFiniteSet(tasks \ {t})
  BY <1>1 DEF Lineage
<1>3. ASSUME NEW n
      PROVE  /\ Load(tasks \ {t}, n) \in Nat /\ Weight(t, n) \in Nat
             /\ Load((tasks \ {t}) \cup {t}, n) = Load(tasks \ {t}, n) + Weight(t, n)
  <2>1. /\ Load(tasks \ {t}, n) \in Nat /\ Weight(t, n) \in 0 .. 2
        /\ Load((tasks \ {t}) \cup {t}, n) = Load(tasks \ {t}, n) + Weight(t, n)
    BY <1>2, LoadOfOneMore
  <2> QED
    BY <2>1
<1>4. t \in Tasks /\ \A q \in tasks \ {t} : q.stage = "wire" => q.from # Client
  BY DEF Counted, Lineage
<1> QED
  BY <1>1, <1>3, <1>4

(* A task in hand that is put aside is held. *)
LEMMA InHandIsHeld ==
  ASSUME Counted(tasks, inflight), NEW t \in tasks, t.stage \in {"proxy", "validate", "handler"}
  PROVE  Held(tasks \ {t}, inflight, t) /\ t.tries = 0
<1>1. \A n : Weight(t, n) = IF t.node = n /\ t.from # Client THEN 1 ELSE 0
  BY DEF Weight, Passing
<1>2. t.tries = 0
  BY DEF Counted, Lineage, Passing
<1>3. /\ Lineage(tasks \ {t})
      /\ \A q \in tasks \ {t} : q.stage = "wire" => q.from # Client
      /\ \A n : Load(tasks, n) = Load(tasks \ {t}, n) + Weight(t, n)
  BY WithoutTask
<1>4. \A n \in Peers \ halted : Fits(inflight[n], Load(tasks, n))
  BY DEF Counted
<1>5. \A n \in Peers \ halted :
        Fits(inflight[n], Load(tasks \ {t}, n) + (IF t.node = n /\ t.from # Client THEN 1 ELSE 0))
  BY <1>1, <1>3, <1>4
<1> QED
  BY <1>2, <1>3, <1>5 DEF Held

(* A task on the wire is not counted. *)
LEMMA OnWireIsUncounted ==
  ASSUME Counted(tasks, inflight), NEW t \in tasks, t.stage = "wire"
  PROVE  Counted(tasks \ {t}, inflight) /\ t.from # Client /\ t.tries = 0
<1>1. \A n : Weight(t, n) = 0
  BY DEF Weight, Passing
<1>2. \A n : Load(tasks \ {t}, n) = Load(tasks, n)
  <2> SUFFICES ASSUME NEW n PROVE Load(tasks \ {t}, n) = Load(tasks, n)
    OBVIOUS
  <2>1. Load(tasks \ {t}, n) \in Nat /\ Load(tasks, n) = Load(tasks \ {t}, n) + Weight(t, n)
    BY WithoutTask
  <2> QED
    BY <1>1, <2>1
<1>3. Lineage(tasks \ {t}) /\ \A q \in tasks \ {t} : q.stage = "wire" => q.from # Client
  BY WithoutTask
<1>4. t.from # Client /\ t.tries = 0
  BY DEF Counted, Lineage, Passing
<1>5. \A n \in Peers \ halted : Fits(inflight[n], Load(tasks \ {t}, n))
  BY <1>2 DEF Counted
<1> QED
  BY <1>3, <1>4, <1>5 DEF Counted

(* A request that is passed on changes its state. *)
LEMMA PassingStays ==
  ASSUME Counted(tasks, inflight), NEW q \in tasks, q.stage \in Passing, NEW u \in Tasks,
         u.stage \in Passing, u.node = q.node, u.from = q.from, u.req = q.req, u.path = q.path,
         \/ u.tries > q.tries
         \/ u.tries = q.tries /\ (q.stage \in Passing \ {"egress"} => u.stage \in Passing \ {"egress"})
  PROVE  Counted((tasks \ {q}) \cup {u}, inflight) /\ u \notin tasks \ {q}
<1> DEFINE T == tasks \ {q}
<1>1. Lineage(T \cup {q}) /\ q \notin T /\ Lineage(T) /\ q \in Tasks
  BY WithoutTask DEF Counted
<1>2. Lineage(T \cup {u}) /\ u \notin T
  <2> HIDE DEF T, Passing
  <2> QED
    BY <1>1, LineageOfChanged
<1>3. \A n : Weight(u, n) = Weight(q, n)
  BY DEF Weight, Passing
<1>4. IsFiniteSet(T)
  BY <1>1 DEF Lineage
<1>5. ASSUME NEW n PROVE Load(T \cup {u}, n) = Load(tasks, n)
  <2>1. Load(T \cup {u}, n) = Load(T, n) + Weight(u, n)
    BY <1>2, <1>4, LoadOfOneMore
  <2>2. Load(tasks, n) = Load(T, n) + Weight(q, n)
    BY WithoutTask
  <2> QED
    BY <1>3, <2>1, <2>2
<1>6. \A p \in T \cup {u} : p.stage = "wire" => p.from # Client
  BY WithoutTask DEF Passing
<1> QED
  BY <1>2, <1>5, <1>6 DEF Counted

(* A task in hand is answered. *)
LEMMA EndCounts ==
  ASSUME CountInv, NEW t \in tasks, t.stage \in {"proxy", "validate", "handler"},
         NEW status \in Statuses, Answer(t, status, tasks \ {t}, inflight)
  PROVE  Counted(tasks', inflight')
<1>1. t.node \in Peers /\ inflight \in Counts
  BY DEF CountInv, ServiceInv, Good, Tasks
<1> QED
  BY <1>1, InHandIsHeld, AnswerCounts DEF CountInv

(* A task goes on to the next middleware. *)
LEMMA StageCounts ==
  ASSUME CountInv, NEW t \in tasks, t.stage \in {"proxy", "validate"},
         NEW stage \in {"validate", "handler"},
         tasks' = (tasks \ {t}) \cup {[t EXCEPT !.stage = stage]}, inflight' = inflight
  PROVE  Counted(tasks', inflight')
<1> DEFINE u == [t EXCEPT !.stage = stage]
           T == tasks \ {t}
<1>1. Held(T, inflight, t) /\ t.tries = 0 /\ t \in Tasks /\ Lineage(T \cup {t}) /\ t \notin T
  BY InHandIsHeld, WithoutTask DEF CountInv, Counted
<1>2. /\ u \in Tasks /\ u.node = t.node /\ u.from = t.from /\ u.req = t.req /\ u.path = t.path
      /\ u.tries = 0 /\ u.stage = stage
  BY <1>1 DEF Tasks
<1>3. tasks' = T \cup {u}
  OBVIOUS
<1>4. t.stage \notin Passing \ {"egress"}
  BY DEF Passing
<1> HIDE DEF u, T
<1>5. Lineage(T \cup {u}) /\ u \notin T
  BY <1>1, <1>2, <1>4, LineageOfChanged
<1> QED
  BY <1>1, <1>2, <1>3, <1>5, StaysCounted

(* A client's request: counted only if it is passed on. *)
LEMMA SubmitCounts ==
  ASSUME CountInv, NEW r \in Request, NEW n \in Peers, Submit(r, n)
  PROVE  Counted(tasks', inflight')
<1>1. PICK k \in Kinds[r] :
        Route([req |-> r, node |-> n, from |-> Client, to |-> n, method |-> k[1], body |-> k[2],
               status |-> "none", tries |-> 0, path |-> <<>>, sum |-> {}, turned |-> FALSE,
               stage |-> "proxy"],
              tasks, inflight)
  BY DEF Submit
<1> DEFINE t == [req |-> r, node |-> n, from |-> Client, to |-> n, method |-> k[1], body |-> k[2],
                 status |-> "none", tries |-> 0, path |-> <<>>, sum |-> {}, turned |-> FALSE,
                 stage |-> "proxy"]
<1>2. k[1] \in STRING /\ k[2] \in {"valid", "invalid", "broken"}
  BY ServiceAssumption
<1>3. t \in Tasks /\ t.stage = "proxy" /\ t.from = Client /\ t.tries = 0 /\ t.req = r
  BY <1>2 DEF Tasks, Statuses
<1>4. Route(t, tasks, inflight)
  BY <1>1
<1> HIDE DEF t
<1>5. Seed(t) \in Tasks /\ Seed(t).tries = 0 /\ Seed(t).req = t.req
  BY <1>3 DEF Seed, Tasks
<1>6. \A q \in tasks : q.req # t.req
  BY <1>3 DEF Submit
<1>7. Lineage(tasks \cup {Seed(t)}) /\ Seed(t) \notin tasks
  BY <1>3, <1>5, <1>6, LineageOfNew DEF CountInv, Counted
<1>8. Held(tasks, inflight, t)
  <2>1. \A m : Load(tasks, m) \in Nat
    BY LoadType DEF CountInv, Counted
  <2>2. \A m : Load(tasks, m) + 0 = Load(tasks, m)
    BY <2>1
  <2>3. Lineage(tasks) /\ \A q \in tasks : q.stage = "wire" => q.from # Client
    BY DEF CountInv, Counted
  <2>4. \A m \in Peers \ halted : Fits(inflight[m], Load(tasks, m) + 0)
    BY <2>2 DEF CountInv, Counted
  <2>5. \A m : (IF t.node = m /\ t.from # Client THEN 1 ELSE 0) = 0
    BY <1>3
  <2> QED
    BY <2>3, <2>4, <2>5 DEF Held
<1>9. inflight \in Counts
  BY DEF CountInv, ServiceInv
<1> QED
  BY <1>3, <1>4, <1>7, <1>8, <1>9, RouteCounts DEF CountInv

(* The request proxy reads the body. *)
LEMMA ReadBodyCounts ==
  ASSUME CountInv, NEW t \in tasks, ReadBody(t)
  PROVE  Counted(tasks', inflight')
<1>1. t.stage = "proxy" /\ t.method \in {"POST", "PUT", "DELETE"}
  BY DEF ReadBody, CountInv, ServiceInv, Good
<1>2. CASE \/ Answer(t, "error", tasks \ {t}, inflight)
           \/ Answer(t, "bad request", tasks \ {t}, inflight)
  BY <1>1, <1>2, EndCounts DEF Statuses
<1>3. CASE /\ tasks' = (tasks \ {t}) \cup {[t EXCEPT !.stage = Following(t.method, "proxy")]}
           /\ UNCHANGED <<inflight, answers>>
  <2>1. Following(t.method, "proxy") \in {"validate", "handler"}
    BY <1>1, StackOrder
  <2> QED
    BY <1>1, <1>3, <2>1, StageCounts
<1> QED
  BY <1>2, <1>3 DEF ReadBody

(* The validators. *)
LEMMA ValidateCounts ==
  ASSUME CountInv, NEW t \in tasks, Validate(t)
  PROVE  Counted(tasks', inflight')
<1>1. t.stage = "validate" /\ t.method \in {"POST", "PUT"}
  BY DEF Validate, CountInv, ServiceInv, Good
<1>2. CASE Answer(t, "bad request", tasks \ {t}, inflight)
  BY <1>1, <1>2, EndCounts DEF Statuses
<1>3. CASE /\ tasks' = (tasks \ {t}) \cup {[t EXCEPT !.stage = Following(t.method, "validate")]}
           /\ UNCHANGED <<inflight, answers>>
  <2>1. Following(t.method, "validate") = "handler"
    BY <1>1, StackOrder
  <2> QED
    BY <1>1, <1>3, <2>1, StageCounts
<1> QED
  BY <1>2, <1>3 DEF Validate

(* The handler called back. *)
LEMMA HandledCounts ==
  ASSUME CountInv, NEW t \in tasks, Handled(t)
  PROVE  Counted(tasks', inflight')
<1>1. t.stage = "handler"
  BY DEF Handled
<1>2. CASE Answer(t, "success", tasks \ {t}, inflight)
  BY <1>1, <1>2, EndCounts DEF Statuses
<1>3. ASSUME NEW e \in Refusals, Answer(t, StatusOf(t.method, e), tasks \ {t}, inflight)
      PROVE  Counted(tasks', inflight')
  <2>1. StatusOf(t.method, e) \in Statuses
    BY DEF StatusOf, Statuses
  <2> QED
    BY <1>1, <1>3, <2>1, EndCounts
<1> QED
  BY <1>2, <1>3 DEF Handled

(* onSend and the like: another stage for a request that is passed on. *)
LEMMA ToldStays ==
  ASSUME CountInv, NEW q \in tasks, q.stage \in Passing, NEW status \in Statuses
  PROVE  Counted((tasks \ {q}) \cup {ToldOf(q, status)}, inflight)
<1> DEFINE u == [q EXCEPT !.stage = "told", !.status = status]
<1>1. /\ u \in Tasks /\ u.stage = "told" /\ u.node = q.node /\ u.from = q.from /\ u.req = q.req
      /\ u.path = q.path /\ u.tries = q.tries
  BY DEF CountInv, ServiceInv, Good, Tasks
<1>2. u.stage \in Passing \ {"egress"}
  BY <1>1 DEF Passing
<1>3. ToldOf(q, status) = u
  BY DEF ToldOf
<1> HIDE DEF u, Passing
<1>4. Counted((tasks \ {q}) \cup {u}, inflight)
  BY <1>1, <1>2, PassingStays DEF CountInv
<1> QED
  BY <1>3, <1>4

(* No answer in time: the request is counted on, until it is told. *)
LEMMA TimeoutCounts ==
  ASSUME CountInv, NEW q \in tasks, Timeout(q)
  PROVE  Counted(tasks', inflight')
<1>1. q.stage = "sent" /\ inflight' = inflight /\ tasks' = (tasks \ {q}) \cup {Failing(q)}
  BY DEF Timeout
<1>2. CASE q.tries >= MaxRetries[q.req]
  BY <1>1, <1>2, ToldStays DEF Failing, Passing, Statuses
<1>3. CASE ~(q.tries >= MaxRetries[q.req])
  <2> DEFINE u == [q EXCEPT !.stage = "retry"]
  <2>1. /\ u \in Tasks /\ u.stage = "retry" /\ u.node = q.node /\ u.from = q.from /\ u.req = q.req
        /\ u.path = q.path /\ u.tries = q.tries
    BY DEF CountInv, ServiceInv, Good, Tasks
  <2>2. u.stage \in Passing \ {"egress"} /\ q.stage \in Passing
    BY <1>1, <2>1 DEF Passing
  <2>3. tasks' = (tasks \ {q}) \cup {u}
    BY <1>1, <1>3 DEF Failing
  <2> HIDE DEF u, Passing
  <2> QED
    BY <1>1, <2>1, <2>2, <2>3, PassingStays DEF CountInv
<1> QED
  BY <1>2, <1>3

(* onProxy takes the request off the count, and its task if it was one. *)
LEMMA OnProxyCounts ==
  ASSUME CountInv, NEW q \in tasks, OnProxy(q)
  PROVE  Counted(tasks', inflight')
<1>1. /\ q.stage = "told" /\ q.node \in Peers /\ q.status \in Statuses /\ inflight \in Counts
      /\ pressure \in BOOLEAN
  BY DEF OnProxy, CountInv, ServiceInv, Good, Tasks
<1> DEFINE T == tasks \ {q}
           count == Decrement(inflight, q.node)
<1>2. Answer(q, q.status, T, count) /\ count \in Counts
  BY <1>1, CountsType DEF OnProxy
<1>3. ASSUME NEW n \in Peers \ halted
      PROVE  Fits(count[n], Load(T, n) + (IF q.node = n /\ q.from # Client THEN 1 ELSE 0))
  <2> DEFINE mine == IF q.node = n /\ q.from # Client THEN 1 ELSE 0
  <2>1. Weight(q, n) = IF q.node = n THEN mine + 1 ELSE mine
    BY <1>1 DEF Weight, Passing
  <2>2. /\ Load(T, n) \in Nat /\ Load(tasks, n) = Load(T, n) + Weight(q, n)
        /\ Fits(inflight[n], Load(tasks, n)) /\ mine \in Nat
    BY WithoutTask DEF CountInv, Counted
  <2> HIDE DEF mine, T
  <2>3. CASE q.node = n
    <3>1. Load(T, n) + mine \in Nat /\ Load(tasks, n) = (Load(T, n) + mine) + 1
      BY <2>1, <2>2, <2>3
    <3>2. Fits(inflight[n], (Load(T, n) + mine) + 1)
      BY <2>2, <3>1
    <3>3. Fits(Decrement(inflight, n)[n], Load(T, n) + mine)
      BY <1>1, <3>1, <3>2, StepsFit
    <3> QED
      BY <2>3, <3>3 DEF mine
  <2>4. CASE q.node # n
    <3>1. count[n] = inflight[n] /\ Load(tasks, n) = Load(T, n) + mine
      BY <1>1, <2>1, <2>2, <2>4, StepsFit
    <3> HIDE DEF count
    <3>2. Fits(count[n], Load(T, n) + mine)
      BY <2>2, <3>1
    <3> QED
      BY <3>2 DEF mine
  <2> QED
    BY <2>3, <2>4
<1>4. Held(T, count, q)
  BY <1>3, WithoutTask DEF Held, CountInv
<1> HIDE DEF T, count
<1> QED
  BY <1>1, <1>2, <1>4, AnswerCounts DEF CountInv

(* send: the copy on the wire is not yet counted, and takes a way of its own. *)
LEMMA SendCounts ==
  ASSUME CountInv, NEW q \in tasks, Send(q)
  PROVE  Counted(tasks', inflight')
<1>1. /\ q \in Tasks /\ q.stage = "egress" /\ q.to \in Peers /\ q.node \in Peers
      /\ q.tries \in Nat /\ q.path \in Seq(Nat) /\ rings[q.node] \in SUBSET Peers
      /\ inflight' = inflight /\ q.stage \in Passing /\ Client \notin Peers
  BY ServiceAssumption DEF Send, CountInv, ServiceInv, Good, Tasks, Passing
<1>2. CASE tasks' = (tasks \ {q}) \cup {ToldOf(q, "error")}
  BY <1>1, <1>2, ToldStays DEF Statuses
<1>3. CASE tasks' = (tasks \ {q}) \cup {Sent(q), OnWire(q)}
  <2> DEFINE sent == [q EXCEPT !.stage = "sent", !.sum = {}]
             sum == rings[q.node]
             turned == q.sum # sum
             path == Append(q.path, q.tries)
             wire == [q EXCEPT !.node = q.to, !.from = q.node, !.stage = "wire", !.tries = 0,
                               !.path = path, !.sum = sum, !.turned = turned]
             T == (tasks \ {q}) \cup {sent}
  <2>1. /\ sent \in Tasks /\ sent.stage = "sent" /\ sent.node = q.node /\ sent.from = q.from
        /\ sent.req = q.req /\ sent.path = q.path /\ sent.tries = q.tries
    BY <1>1 DEF Tasks
  <2>2. sum \in SUBSET Peers /\ turned \in BOOLEAN /\ path \in Seq(Nat)
    BY <1>1
  <2> HIDE DEF sum, turned, path
  <2>3. /\ wire \in Tasks /\ wire.stage = "wire" /\ wire.from = q.node /\ wire.req = q.req
        /\ wire.path = path /\ wire.tries = 0
    BY <1>1, <2>2 DEF Tasks
  <2>4. tasks' = T \cup {wire}
    BY <1>3 DEF Sent, OnWire, sum, turned, path
  <2> HIDE DEF sent, wire
  <2>5. sent.stage \in Passing \ {"egress"}
    BY <2>1 DEF Passing
  <2>6. Counted(T, inflight)
    <3> HIDE DEF Passing
    <3> QED
      BY <1>1, <2>1, <2>5, PassingStays DEF CountInv
  <2>7. ASSUME NEW t \in T, Under(sent, t) PROVE t.path[Len(sent.path) + 1] < sent.tries
    <3>1. t # sent
      <4>1. Len(sent.path) \in Nat
        BY <1>1, <2>1
      <4> QED
        BY <2>7, <4>1 DEF Under
    <3>2. t \in tasks /\ Under(q, t)
      BY <2>1, <2>7, <3>1 DEF Under
    <3>3. HasSent(q, t.path[Len(q.path) + 1])
      BY <3>2 DEF CountInv, Counted, Lineage
    <3> QED
      BY <1>1, <2>1, <3>3 DEF HasSent, Passing
  <2>8. Lineage(T \cup {wire}) /\ wire \notin T
    <3>1. wire.req = sent.req /\ wire.path = Append(sent.path, sent.tries)
      BY <2>1, <2>3 DEF path
    <3> HIDE DEF T, Passing
    <3>2. Lineage(T) /\ sent \in T
      BY <2>6 DEF T, Counted
    <3> QED
      BY <2>3, <2>5, <2>7, <3>1, <3>2, LineageOfSent
  <2> HIDE DEF T
  <2>9. ASSUME NEW n PROVE Load(T \cup {wire}, n) = Load(T, n)
    <3>1. Load(T, n) \in Nat /\ Load(T \cup {wire}, n) = Load(T, n) + Weight(wire, n)
      BY <2>6, <2>8, LoadOfOneMore DEF Counted, Lineage
    <3>2. Weight(wire, n) = 0
      BY <2>3 DEF Weight, Passing
    <3> QED
      BY <3>1, <3>2
  <2> QED
    BY <1>1, <2>3, <2>4, <2>6, <2>8, <2>9 DEF Counted
<1> QED
  BY <1>2, <1>3 DEF Send

(* Tasks of which some hear of a failure. *)
LEMMA FailingSettles ==
  ASSUME NEW q \in Tasks, q.stage = "sent"
  PROVE  Settles(q, Failing(q)) /\ Failing(q).stage # "wire"
<1> DEFINE told == [q EXCEPT !.stage = "told", !.status = "error"]
           again == [q EXCEPT !.stage = "retry"]
<1>1. /\ told \in Tasks /\ told.stage = "told" /\ told.node = q.node /\ told.from = q.from
      /\ told.req = q.req /\ told.path = q.path /\ told.tries = q.tries
  BY DEF Tasks, Statuses
<1>2. /\ again \in Tasks /\ again.stage = "retry" /\ again.node = q.node /\ again.from = q.from
      /\ again.req = q.req /\ again.path = q.path /\ again.tries = q.tries
  BY DEF Tasks
<1>3. Failing(q) = told \/ Failing(q) = again
  BY DEF Failing, ToldOf
<1> HIDE DEF told, again
<1> QED
  BY <1>1, <1>2, <1>3 DEF Settles

(* handleRequest counts a request that it takes, and none that it refuses. *)
LEMMA DeliverCounts ==
  ASSUME CountInv, NEW t \in tasks, Deliver(t)
  PROVE  Counted(tasks', inflight')
<1> DEFINE T == tasks \ {t}
<1>1. /\ Counted(T, inflight) /\ t.from # Client /\ t.tries = 0 /\ t.stage = "wire"
      /\ t \in Tasks /\ t.node \in Peers /\ inflight \in Counts /\ pressure \in BOOLEAN
  BY OnWireIsUncounted DEF Deliver, CountInv, ServiceInv, Good, Tasks
<1>2. Lineage(T) /\ \A q \in T : q.stage = "wire" => q.from # Client
  BY <1>1 DEF Counted
<1>3. CASE /\ tasks' = {IF Awaits(q, t) THEN Failing(q) ELSE q : q \in tasks \ {t}}
           /\ UNCHANGED <<inflight, answers>>
  <2> DEFINE g == [q \in T |-> IF Awaits(q, t) THEN Failing(q) ELSE q]
  <2>1. tasks' = {g[q] : q \in T} /\ g \in [T -> tasks']
    BY <1>3
  <2>2. \A q \in T : Settles(q, g[q]) /\ (g[q].stage = "wire" => g[q] \in T)
    <3>1. \A q \in T : q \in Tasks
      BY <1>2 DEF Lineage
    <3> QED
      BY <3>1, FailingSettles DEF Awaits, Settles
  <2> HIDE DEF g, T
  <2>3. Lineage(tasks') /\ \A n : Load(tasks', n) = Load(T, n)
    BY <1>2, <2>1, <2>2, SettledTasks
  <2>4. \A p \in tasks' : p.stage = "wire" => p.from # Client
    BY <1>2, <2>1, <2>2
  <2> QED
    BY <1>1, <1>3, <2>3, <2>4 DEF Counted
<1>4. CASE tasks' = Replied(tasks \ {t}, t, "too many") /\ UNCHANGED <<inflight, answers>>
  <2>1. tasks' = Replied(T, t, "too many") /\ "too many" \in Statuses
    BY <1>4 DEF Statuses
  <2> HIDE DEF T
  <2>2. /\ Lineage(tasks') /\ \A n : Load(tasks', n) = Load(T, n)
        /\ \A p \in tasks' : p.stage = "wire" => p \in T
    BY <1>2, <2>1, RepliedSettles
  <2> QED
    BY <1>1, <1>2, <1>4, <2>2 DEF Counted
<1>5. CASE ~TooMany(inflight, t.node) /\ Route(t, tasks \ {t}, Increment(inflight, t.node))
  <2> DEFINE count == Increment(inflight, t.node)
  <2>1. Lineage(T \cup {Seed(t)}) /\ Seed(t) \notin T
    <3> DEFINE u == [t EXCEPT !.stage = "proxy"]
    <3>1. u \in Tasks /\ u.req = t.req /\ u.path = t.path /\ u.tries = 0 /\ t.stage \notin Passing
      BY <1>1 DEF Tasks, Passing
    <3>2. Lineage(T \cup {t}) /\ t \notin T
      BY WithoutTask DEF CountInv, Counted
    <3> HIDE DEF T, u, Passing
    <3>3. Lineage(T \cup {u}) /\ u \notin T
      <4>1. u.tries = t.tries
        BY <1>1, <3>1
      <4> QED
        BY <3>1, <3>2, <4>1, LineageOfChanged
    <3> QED
      BY <3>3 DEF u, Seed
  <2>2. Held(T, count, t)
    <3>1. ASSUME NEW n \in Peers \ halted
          PROVE  Fits(count[n], Load(T, n) + (IF t.node = n /\ t.from # Client THEN 1 ELSE 0))
      <4>1. Load(T, n) \in Nat /\ Fits(inflight[n], Load(T, n))
        BY <1>1, <1>2, LoadType DEF Counted
      <4> HIDE DEF T
      <4>2. CASE t.node = n
        BY <1>1, <1>5, <4>1, <4>2, StepsFit
      <4>3. CASE t.node # n
        <5>1. count[n] = inflight[n] /\ Load(T, n) + 0 = Load(T, n)
          BY <1>1, <4>1, <4>3, StepsFit
        <5> QED
          BY <4>1, <4>3, <5>1
      <4> QED
        BY <4>2, <4>3
    <3> QED
      BY <1>2, <3>1 DEF Held
  <2>3. count \in Counts
    BY <1>1, CountsType
  <2> HIDE DEF count, T
  <2>4. Route(t, T, count)
    BY <1>5 DEF count, T
  <2> QED
    BY <1>1, <2>1, <2>2, <2>3, <2>4, RouteCounts DEF CountInv
<1> QED
  BY <1>3, <1>4, <1>5 DEF Deliver

(* A node stops: the others still count what they did. *)
LEMMA StopCounts ==
  ASSUME CountInv, NEW n \in Peers, Stop(n)
  PROVE  /\ Lineage(tasks') /\ \A p \in tasks' : p.stage = "wire" => p.from # Client
         /\ \A m \in Peers \ halted' : Fits(inflight'[m], Load(tasks', m))
<1> DEFINE T == {t \in tasks : t.node # n}
           g == [q \in T |-> IF q.stage = "sent" /\ q.to = n THEN Failing(q) ELSE q]
<1>1. Lineage(T) /\ \A q \in T : q.stage = "wire" => q.from # Client
  BY LineageOfSome DEF CountInv, Counted
<1>2. ASSUME NEW m \in Peers \ halted' PROVE Fits(inflight'[m], Load(T, m))
  <2>1. m # n /\ m \in Peers \ halted
    BY DEF Stop
  <2>2. Out(T, m) = Out(tasks, m) /\ In(T, m) = In(tasks, m)
    BY <2>1 DEF Out, In
  <2>3. Fits(inflight[m], Load(T, m))
    BY <2>1, <2>2 DEF Load, CountInv, Counted
  <2>4. inflight'[m] = inflight[m]
    BY <2>1 DEF Stop, CountInv, ServiceInv, Counts
  <2> QED
    BY <2>3, <2>4
<1>3. tasks' = {g[q] : q \in T} /\ g \in [T -> tasks']
  BY DEF Stop
<1>4. \A q \in T : Settles(q, g[q]) /\ (g[q].stage = "wire" => g[q] \in T)
  <2>1. \A q \in T : q \in Tasks
    BY <1>1 DEF Lineage
  <2> QED
    BY <2>1, FailingSettles DEF Settles
<1> HIDE DEF T, g
<1>5. Lineage(tasks') /\ \A m : Load(tasks', m) = Load(T, m)
  BY <1>1, <1>3, <1>4, SettledTasks
<1>6. \A p \in tasks' : p.stage = "wire" => p.from # Client
  BY <1>1, <1>3, <1>4
<1> QED
  BY <1>2, <1>5, <1>6

(* attemptRetry: a request that comes home is counted twice, as it is there twice. *)
LEMMA ReattemptCounts ==
  ASSUME CountInv, NEW q \in tasks, Reattempt(q)
  PROVE  Counted(tasks', inflight')
<1> DEFINE to == Owner(q.node, q.req)
           tries == q.tries + 1
           path == Append(q.path, tries)
           again == [q EXCEPT !.tries = tries, !.to = to]
           own == [again EXCEPT !.from = q.node, !.tries = 0, !.path = path]
           sent == [again EXCEPT !.stage = "sent"]
           T == (tasks \ {q}) \cup {sent}
           count == Increment(inflight, q.node)
<1>1. /\ q \in Tasks /\ q.stage = "retry" /\ q.tries \in Nat /\ q.path \in Seq(Nat)
      /\ q.node \in Peers /\ q.req \in Request /\ inflight \in Counts /\ pressure \in BOOLEAN
      /\ rings \in [Peers -> SUBSET Peers] /\ Client \notin Peers
  BY ServiceAssumption DEF Reattempt, CountInv, ServiceInv, Good, Tasks
<1>2. to \in Peers /\ tries \in Nat /\ path \in Seq(Nat) /\ tries > q.tries
  BY <1>1, OwnerIsBest DEF CountInv
<1>3. \/ tasks' = (tasks \ {q}) \cup {Looked(again)} /\ inflight' = inflight
      \/ tasks' = (tasks \ {q}) \cup {ToldOf(again, "too many")} /\ inflight' = inflight
      \/ Route(own, T, count) /\ ~TooMany(inflight, q.node)
  <2>1. again.path = q.path /\ again.tries = tries
    BY <1>1 DEF Tasks
  <2>2. [again EXCEPT !.from = q.node, !.tries = 0, !.path = Append(@, again.tries)] = own
    BY <2>1
  <2> HIDE DEF own
  <2> QED
    BY <2>2 DEF Reattempt
<1> HIDE DEF to, tries, path
<1>4. /\ again \in Tasks /\ again.stage = "retry" /\ again.tries = tries /\ again.path = q.path
      /\ again.from = q.from /\ again.req = q.req /\ again.node = q.node
  BY <1>1, <1>2 DEF Tasks
<1> HIDE DEF again
<1>5. ASSUME NEW u \in Tasks, u.stage \in Passing, u.node = q.node, u.from = q.from, u.req = q.req,
             u.path = q.path, u.tries = tries
      PROVE  Counted((tasks \ {q}) \cup {u}, inflight)
  <2>1. q.stage \in Passing /\ u.tries > q.tries
    BY <1>1, <1>2, <1>5 DEF Passing
  <2> HIDE DEF Passing
  <2> QED
    BY <1>5, <2>1, PassingStays DEF CountInv
<1>6. CASE tasks' = (tasks \ {q}) \cup {Looked(again)} /\ inflight' = inflight
  <2> DEFINE sum == rings[again.node]
             owner == Owner(again.node, again.req)
             u == [again EXCEPT !.stage = "egress", !.to = owner, !.sum = sum]
  <2>1. sum \in SUBSET Peers /\ owner \in Peers
    BY <1>1, <1>4, OwnerIsBest DEF CountInv
  <2>2. tasks' = (tasks \ {q}) \cup {u}
    BY <1>6 DEF Looked
  <2> HIDE DEF sum, owner
  <2>3. /\ u \in Tasks /\ u.stage = "egress" /\ u.tries = tries /\ u.path = q.path
        /\ u.from = q.from /\ u.req = q.req /\ u.node = q.node
    BY <1>4, <2>1 DEF Tasks
  <2> HIDE DEF u
  <2> QED
    BY <1>5, <1>6, <2>2, <2>3 DEF Passing
<1>7. CASE tasks' = (tasks \ {q}) \cup {ToldOf(again, "too many")} /\ inflight' = inflight
  <2> DEFINE u == [again EXCEPT !.stage = "told", !.status = "too many"]
  <2>1. /\ u \in Tasks /\ u.stage = "told" /\ u.tries = tries /\ u.path = q.path
        /\ u.from = q.from /\ u.req = q.req /\ u.node = q.node
    BY <1>4 DEF Tasks, Statuses
  <2>2. tasks' = (tasks \ {q}) \cup {u}
    BY <1>7 DEF ToldOf
  <2> HIDE DEF u
  <2> QED
    BY <1>5, <1>7, <2>1, <2>2 DEF Passing
<1>8. CASE Route(own, T, count) /\ ~TooMany(inflight, q.node)
  <2>1. /\ sent \in Tasks /\ sent.stage = "sent" /\ sent.tries = tries /\ sent.path = q.path
        /\ sent.from = q.from /\ sent.req = q.req /\ sent.node = q.node
    BY <1>4 DEF Tasks
  <2>2. /\ own \in Tasks /\ own.tries = 0 /\ own.path = path /\ own.from = q.node
        /\ own.req = q.req /\ own.node = q.node
    BY <1>1, <1>2, <1>4 DEF Tasks
  <2> HIDE DEF own, sent
  <2>3. Counted(T, inflight)
    BY <1>5, <2>1 DEF Passing
  <2>4. ASSUME NEW t \in T, Under(sent, t) PROVE t.path[Len(sent.path) + 1] < sent.tries
    <3>1. t # sent
      <4>1. Len(sent.path) \in Nat
        BY <1>1, <2>1
      <4> QED
        BY <2>4, <4>1 DEF Under
    <3>2. t \in tasks /\ Under(q, t)
      BY <2>1, <2>4, <3>1 DEF Under
    <3>3. HasSent(q, t.path[Len(q.path) + 1])
      BY <3>2 DEF CountInv, Counted, Lineage
    <3>4. t.path[Len(q.path) + 1] \in Nat
      <4>1. t \in Tasks
        BY <3>2 DEF CountInv, Counted, Lineage
      <4> QED
        BY <1>1, <3>2, <4>1 DEF Under, Tasks
    <3> QED
      BY <1>1, <1>2, <2>1, <3>3, <3>4 DEF HasSent
  <2>5. Lineage(T \cup {Seed(own)}) /\ Seed(own) \notin T
    <3> DEFINE u == [own EXCEPT !.stage = "proxy"]
    <3>1. /\ u \in Tasks /\ u.req = sent.req /\ u.path = Append(sent.path, sent.tries)
          /\ u.tries = 0
      BY <2>1, <2>2 DEF Tasks, path
    <3>2. sent.stage \in Passing \ {"egress"}
      BY <2>1 DEF Passing
    <3>3. Lineage(T) /\ sent \in T
      BY <2>3 DEF Counted
    <3> HIDE DEF T, u, Passing
    <3>4. Lineage(T \cup {u}) /\ u \notin T
      BY <2>4, <3>1, <3>2, <3>3, LineageOfSent
    <3> QED
      BY <3>4 DEF u, Seed
  <2>6. Held(T, count, own)
    <3>1. ASSUME NEW n \in Peers \ halted
          PROVE  Fits(count[n], Load(T, n) + (IF own.node = n /\ own.from # Client THEN 1 ELSE 0))
      <4>1. Load(T, n) \in Nat /\ Fits(inflight[n], Load(T, n))
        BY <2>3, LoadType DEF Counted
      <4> HIDE DEF T
      <4>2. CASE q.node = n
        BY <1>1, <1>8, <2>2, <4>1, <4>2, StepsFit
      <4>3. CASE q.node # n
        <5>1. count[n] = inflight[n] /\ Load(T, n) + 0 = Load(T, n)
          BY <1>1, <4>1, <4>3, StepsFit
        <5> QED
          BY <2>2, <4>1, <4>3, <5>1
      <4> QED
        BY <4>2, <4>3
    <3> QED
      BY <2>3, <3>1 DEF Held, Counted
  <2>7. count \in Counts
    BY <1>1, CountsType
  <2> HIDE DEF count, T
  <2> QED
    BY <1>8, <2>2, <2>5, <2>6, <2>7, RouteCounts DEF CountInv
<1> QED
  BY <1>3, <1>6, <1>7, <1>8

(* Every step keeps the counts. *)
LEMMA NextCountInv == CountInv /\ [ServiceNext]_serviceVars => CountInv'
<1> SUFFICES ASSUME CountInv, [ServiceNext]_serviceVars PROVE CountInv'
  OBVIOUS
<1>0. ServiceInv'
  BY NextServiceInv DEF CountInv
<1>1. ASSUME Counted(tasks', inflight'), UNCHANGED <<halted, pressure>> PROVE CountInv'
  BY <1>0, <1>1 DEF CountInv, Counted, Fits
<1>2. ASSUME NEW r \in Request, NEW n \in Peers, Submit(r, n) PROVE CountInv'
  BY <1>1, <1>2, SubmitCounts DEF Submit
<1>3. ASSUME NEW t \in tasks, Progress(t) PROVE CountInv'
  <2>1. Counted(tasks', inflight')
    BY <1>3, ReadBodyCounts, ValidateCounts, HandledCounts, SendCounts, ReattemptCounts,
       OnProxyCounts DEF Progress
  <2>2. UNCHANGED <<halted, pressure>>
    BY <1>3 DEF Progress, ReadBody, Validate, Handled, Send, Reattempt, OnProxy
  <2> QED
    BY <1>1, <2>1, <2>2
<1>4. ASSUME NEW t \in tasks, Deliver(t) \/ Timeout(t) PROVE CountInv'
  <2>1. Counted(tasks', inflight')
    BY <1>4, DeliverCounts, TimeoutCounts
  <2>2. UNCHANGED <<halted, pressure>>
    BY <1>4 DEF Deliver, Timeout
  <2> QED
    BY <1>1, <2>1, <2>2
<1>5. ASSUME NEW n \in Peers, Stop(n) PROVE CountInv'
  <2>1. pressure' = pressure
    BY <1>5 DEF Stop
  <2> QED
    BY <1>0, <1>5, <2>1, StopCounts DEF CountInv, Counted, Fits
<1>6. CASE UNCHANGED <<tasks, inflight, halted, pressure>>
  BY <1>1, <1>6 DEF CountInv
<1> QED
  BY <1>2, <1>3, <1>4, <1>5, <1>6 DEF ServiceNext, ChangeRing, Sample, serviceVars

(* Nothing is counted at first. *)
LEMMA InitCountInv == ServiceInit => CountInv
<1> SUFFICES ASSUME ServiceInit PROVE CountInv
  OBVIOUS
<1>1. tasks = {} /\ inflight = [n \in Peers |-> 0]
  BY DEF ServiceInit
<1>2. Lineage(tasks)
  BY <1>1, FS_EmptySet DEF Lineage
<1>3. \A n : Load(tasks, n) = 0
  <2>1. \A n : Out(tasks, n) = {} /\ In(tasks, n) = {}
    BY <1>1 DEF Out, In
  <2> QED
    BY <2>1, FS_EmptySet DEF Load
<1> QED
  BY <1>1, <1>2, <1>3, InitServiceInv DEF CountInv, Counted, Fits

(* With back pressure the count of inflight requests is right at every     *)
(* node that runs, and without it never one too many, for any nodes, rings *)
(* and retries (_increment- and _decrementInflightRequests 320-343).       *)
THEOREM CountIsExact == ServiceSpec => []InflightIsExact
<1>1. CountInv => InflightIsExact
  <2> SUFFICES ASSUME CountInv PROVE InflightIsExact
    OBVIOUS
  <2>1. ServiceTypeOK
    BY DEF CountInv, ServiceInv, ServiceTypeOK, Good, Counts
  <2>2. \A n : Out(tasks, n) = Outgoing(n) /\ In(tasks, n) = Incoming(n)
    BY DEF Out, In, Outgoing, Incoming, Passing
  <2> QED
    BY <2>1, <2>2 DEF InflightIsExact, CountInv, Counted, Fits, Load
<1> QED
  BY InitCountInv, NextCountInv, <1>1, PTL DEF ServiceSpec
=============================================================================
