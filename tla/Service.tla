------------------------------- MODULE Service -------------------------------
(***************************************************************************)
(* HTTP requests on several nodes: the router and its chains of middleware *)
(* (skyring/lib/server: router, route, api), the request proxy that passes *)
(* a request to the owner of its timer and retries (ringpop/lib/request-   *)
(* proxy), and the count of inflight requests that limits both.  A task is *)
(* a request in the hands of one node, from a client or from another node. *)
(* What the timers do with a request is in TimerStore and Handoff; here it *)
(* only ends one way or another.                                           *)
(***************************************************************************)
EXTENDS Integers, FiniteSets, SequencesExt

CONSTANTS
  Peers,        \* the nodes
  Doors,        \* those that clients ask
  Mortal,       \* those that may stop
  Movers,       \* those that may enter or leave the rings of others
  Client,       \* who a request is from that no node passed on
  Request,      \* requests of clients
  Nearest,      \* [Request -> [Peers -> Nat]]: ring order, seen from the timer's key
  Kinds,        \* [Request -> set of method and body], "GET" and unknown methods included;
                \* a body is "valid", "invalid" or "broken"
  Refusals,     \* errors of timers.create, update and cancel that may occur
  MaxInflight,  \* config maxInflightRequests
  MaxRetries,   \* [Request -> Nat]: maxRetries of a request
  MaxTurns      \* bound: changes of the rings and of the lag

ASSUME ServiceAssumption ==
  /\ Client \notin Peers /\ Doors # {}
  /\ Doors \cup Movers \cup Mortal \subseteq Peers /\ Doors \cap Mortal = {}
  /\ Nearest \in [Request -> [Peers -> Nat]]
  /\ \A r \in Request : \A k \in Kinds[r] : k[1] \in STRING /\ k[2] \in {"valid", "invalid", "broken"}
  /\ Refusals \subseteq {"ENOENT", "EKEYEXISTS"}
  /\ MaxInflight \in Nat \ {0} /\ MaxRetries \in [Request -> Nat] /\ MaxTurns \in Nat

VARIABLES
  rings,      \* [Peers -> SUBSET Peers]: the servers in a node's hash ring
  halted,     \* nodes that stopped
  tasks,
  inflight,   \* [Peers -> Nat]: requestProxy.numInflightRequests
  pressure,   \* config backpressureEnabled
  lagging,    \* nodes whose sampled lag is above config maxEventLoopLag
  answers,    \* [Request -> status], "none" before the client is answered
  done,       \* requests some node carried out
  turns

serviceVars == <<rings, halted, tasks, inflight, pressure, lagging, answers, done, turns>>

Statuses == {"none", "success", "bad request", "not found", "too many", "error", "no status"}
Tasks == [req : Request, node : Peers, from : Peers \cup {Client}, to : Peers,
          method : STRING, body : {"valid", "invalid", "broken"}, status : Statuses,
          tries : Nat,         \* retries so far (numRetries)
          path : Seq(Nat),     \* its way here: of each sender, the retry it came with
          sum : SUBSET Peers,              \* the ring when looked up, then when sent
          turned : BOOLEAN,                \* whether those two differ
          stage : {"proxy", "validate", "handler", "egress", "wire", "sent", "retry", "told"}]

ServiceInit ==
  /\ \E news \in SUBSET Movers :          \* who the doors have not heard of yet
       rings = [n \in Peers |-> IF n \in Doors THEN Peers \ (news \ {n}) ELSE Peers]
  /\ halted = {}
  /\ tasks = {} /\ inflight = [n \in Peers |-> 0]
  /\ pressure \in BOOLEAN /\ lagging = {}
  /\ answers = [r \in Request |-> "none"] /\ done = {} /\ turns = 0

----------------------------------------------------------------------------
(* The routes, as server.listen registers them: the handler, and before it *)
(* the middleware of the route.                                            *)

Api == [ POST   |-> <<"proxy", "validate">>,
         PUT    |-> <<"timer_id", "proxy", "validate">>,
         DELETE |-> <<"timer_id", "proxy">>,
         GET    |-> <<>> ]

(* Faulty variant: the middleware is added behind the handler (use).  A    *)
(* handler that is done answers.                                           *)
StackAppended(method) == <<"proxy", "handler">>

Stack(method) == Api[method] \o <<"handler">>

(* run(idx + 1) of route.process *)
Following(method, stage) ==
  LET s == Stack(method) IN s[(CHOOSE i \in DOMAIN s : s[i] = stage) + 1]

Owner(n, r) ==
  IF rings[n] = {} THEN n
  ELSE CHOOSE m \in rings[n] : \A o \in rings[n] : Nearest[r][m] <= Nearest[r][o]

----------------------------------------------------------------------------
(* The count of inflight requests, corrected at its limits. *)

Increment(count, n) ==
  [count EXCEPT ![n] = IF @ + 1 > MaxInflight THEN MaxInflight ELSE @ + 1]

Decrement(count, n) == [count EXCEPT ![n] = IF @ = 0 THEN 0 ELSE @ - 1]

TooMany(count, n) == pressure /\ (count[n] + 1 > MaxInflight \/ n \in lagging)

----------------------------------------------------------------------------
(* Answers. *)

Awaits(q, t) ==
  /\ q.stage = "sent" /\ q.node = t.from /\ q.to = t.node
  /\ q.req = t.req /\ t.path = Append(q.path, q.tries)

ToldOf(q, status) == [q EXCEPT !.stage = "told", !.status = status]

(* onSend (270-297) with an error *)
Failing(q) ==
  IF q.tries >= MaxRetries[q.req] THEN ToldOf(q, "error") ELSE [q EXCEPT !.stage = "retry"]

(* The node that passed the request on hears of it, if it still waits. *)
Replied(others, t, status) ==
  {IF Awaits(q, t) THEN ToldOf(q, status) ELSE q : q \in others}

(* Faulty variant: the answer to a request of another node is not counted. *)
AnswerUncounted(t, status, others, count) ==
  /\ tasks' = Replied(others, t, status)
  /\ inflight' = count
  /\ answers' = IF t.from = Client THEN [answers EXCEPT ![t.req] = status] ELSE answers

(* res.end: the client has its answer, or onResponse (296-317) takes the   *)
(* answer back to the node that passed the request on.  count is the count *)
(* of inflight requests so far in this step.                               *)
Answer(t, status, others, count) ==
  /\ tasks' = Replied(others, t, status)
  /\ inflight' = IF t.from = Client THEN count ELSE Decrement(count, t.node)
  /\ answers' = IF t.from = Client THEN [answers EXCEPT ![t.req] = status] ELSE answers

----------------------------------------------------------------------------
(* The ring of a node says whom a request is for. *)
Looked(q) ==
  [q EXCEPT !.stage = "egress", !.to = Owner(q.node, q.req), !.sum = rings[q.node]]

Local(t) == [t EXCEPT !.stage = "proxy", !.sum = {}, !.turned = FALSE]

(* router.handle, up to where it waits: the body of a request that this    *)
(* node owns is read, any other goes to the request proxy (proxyReq,       *)
(* 100-127), which answers at once when there are too many.                *)
Route(t, others, count) ==
  \/ /\ t.method \notin DOMAIN Api
     /\ Answer(t, "not found", others, count)
  \/ /\ t.method = "GET"
     /\ tasks' = others \cup {[Local(t) EXCEPT !.stage = "handler"]}
     /\ inflight' = count
     /\ UNCHANGED answers
  \/ /\ t.method \in DOMAIN Api \ {"GET"} /\ Owner(t.node, t.req) = t.node
     /\ tasks' = others \cup {Local(t)}
     /\ inflight' = count
     /\ UNCHANGED answers
  \/ /\ t.method \in DOMAIN Api \ {"GET"} /\ Owner(t.node, t.req) # t.node
     /\ \/ TooMany(count, t.node) /\ Answer(t, "too many", others, count)
        \/ /\ ~TooMany(count, t.node)
           /\ tasks' = others \cup {Looked(t)}
           /\ inflight' = Increment(count, t.node)
           /\ UNCHANGED answers

Submit(r, n) ==
  /\ n \in Doors /\ answers[r] = "none" /\ \A t \in tasks : t.req # r
  /\ \E k \in Kinds[r] :
       Route([req |-> r, node |-> n, from |-> Client, to |-> n, method |-> k[1], body |-> k[2],
              status |-> "none", tries |-> 0, path |-> <<>>, sum |-> {}, turned |-> FALSE,
              stage |-> "proxy"],
             tasks, inflight)
  /\ UNCHANGED <<rings, halted, pressure, lagging, done, turns>>

(* The body arrived: it is parsed.  Or the client broke off. *)
ReadBody(t) ==
  /\ t.stage = "proxy"
  /\ \/ /\ t.from = Client
        /\ Answer(t, "error", tasks \ {t}, inflight)
     \/ /\ t.body = "broken"
        /\ Answer(t, "bad request", tasks \ {t}, inflight)
     \/ /\ t.body # "broken"
        /\ tasks' = (tasks \ {t}) \cup {[t EXCEPT !.stage = Following(t.method, "proxy")]}
        /\ UNCHANGED <<inflight, answers>>
  /\ UNCHANGED <<rings, halted, pressure, lagging, done, turns>>

Validate(t) ==
  /\ t.stage = "validate"
  /\ \/ /\ t.body = "invalid"
        /\ Answer(t, "bad request", tasks \ {t}, inflight)
     \/ /\ t.body = "valid"
        /\ tasks' = (tasks \ {t}) \cup {[t EXCEPT !.stage = Following(t.method, "validate")]}
        /\ UNCHANGED <<inflight, answers>>
  /\ UNCHANGED <<rings, halted, pressure, lagging, done, turns>>

(* The status of an error.  Response.error takes err.code for it, which is *)
(* a name and no status, and which http refuses to send.                   *)
StatusOf(method, refusal) ==
  IF method = "POST" THEN "no status"
  ELSE IF refusal = "ENOENT" THEN "not found" ELSE "error"

(* The handler called back. *)
Handled(t) ==
  /\ t.stage = "handler"
  /\ \/ /\ Answer(t, "success", tasks \ {t}, inflight)
        /\ done' = done \cup {t.req}
     \/ /\ \E e \in Refusals :
             /\ t.method # "GET" /\ (t.method = "POST" <=> e = "EKEYEXISTS")
             /\ Answer(t, StatusOf(t.method, e), tasks \ {t}, inflight)
        /\ UNCHANGED done
  /\ UNCHANGED <<rings, halted, pressure, lagging, turns>>

----------------------------------------------------------------------------
(* The request proxy. *)

Sent(q) == [q EXCEPT !.stage = "sent", !.sum = {}]

(* The head is written when the connection stands: it has the checksum of  *)
(* the ring as it is then.                                                 *)
OnWire(q) ==
  [q EXCEPT !.node = q.to, !.from = q.node, !.stage = "wire", !.tries = 0, !.path = Append(@, q.tries),
            !.sum = rings[q.node], !.turned = q.sum # rings[q.node]]

(* send (231-268), once the body is read and the connection stands; no     *)
(* connection is an error, without a retry.                                *)
Send(q) ==
  /\ q.stage = "egress"
  /\ tasks' = (tasks \ {q}) \cup
       (IF q.to \in halted THEN {ToldOf(q, "error")}
        ELSE {Sent(q), OnWire(q)})
  /\ UNCHANGED <<rings, halted, inflight, pressure, lagging, answers, done, turns>>

(* Faulty variant: a request is handled although the rings differ. *)
DeliverAnyhow(t) ==
  /\ t.stage = "wire"
  /\ Route(t, tasks \ {t}, Increment(inflight, t.node))
  /\ UNCHANGED <<rings, halted, pressure, lagging, done, turns>>

(* handleRequest (207-294) *)
Deliver(t) ==
  /\ t.stage = "wire"
  /\ \/ /\ t.sum # rings[t.node]
        /\ tasks' = {IF Awaits(q, t) THEN Failing(q) ELSE q : q \in tasks \ {t}}
        /\ UNCHANGED <<inflight, answers>>
     \/ /\ t.sum = rings[t.node] /\ TooMany(inflight, t.node)
        /\ tasks' = Replied(tasks \ {t}, t, "too many")
        /\ UNCHANGED <<inflight, answers>>
     \/ /\ t.sum = rings[t.node] /\ ~TooMany(inflight, t.node)
        /\ Route(t, tasks \ {t}, Increment(inflight, t.node))
  /\ UNCHANGED <<rings, halted, pressure, lagging, done, turns>>

(* No answer in time: the request, or its answer, may still be under way. *)
Timeout(q) ==
  /\ q.stage = "sent" /\ q.to # q.node
  /\ tasks' = (tasks \ {q}) \cup {Failing(q)}
  /\ UNCHANGED <<rings, halted, inflight, pressure, lagging, answers, done, turns>>

(* Faulty variant: a request handed to the node itself is nobody's. *)
ReattemptForgotten(q) ==
  /\ q.stage = "retry"
  /\ tasks' = (tasks \ {q}) \cup
       {IF Owner(q.node, q.req) = q.node THEN [q EXCEPT !.stage = "sent", !.to = q.node]
        ELSE Looked([q EXCEPT !.tries = @ + 1])}
  /\ UNCHANGED <<rings, halted, inflight, pressure, lagging, answers, done, turns>>

(* attemptRetry, rerouteRetry (107-130, 182-209): the owner is looked up   *)
(* again; a node that owns the timer by now hands the request to itself.   *)
Reattempt(q) ==
  LET again == [q EXCEPT !.tries = @ + 1, !.to = Owner(q.node, q.req)]
      own == [again EXCEPT !.from = q.node, !.tries = 0, !.path = Append(@, again.tries)]
  IN
  /\ q.stage = "retry"
  /\ \/ /\ again.to # q.node
        /\ tasks' = (tasks \ {q}) \cup {Looked(again)}
        /\ UNCHANGED <<inflight, answers>>
     \/ /\ again.to = q.node /\ TooMany(inflight, q.node)
        /\ tasks' = (tasks \ {q}) \cup {ToldOf(again, "too many")}
        /\ UNCHANGED <<inflight, answers>>
     \/ /\ again.to = q.node /\ ~TooMany(inflight, q.node)
        /\ Route(own, (tasks \ {q}) \cup {[again EXCEPT !.stage = "sent"]},
                 Increment(inflight, q.node))
  /\ UNCHANGED <<rings, halted, pressure, lagging, done, turns>>

(* onProxy (173-203) *)
OnProxy(q) ==
  /\ q.stage = "told"
  /\ Answer(q, q.status, tasks \ {q}, Decrement(inflight, q.node))
  /\ UNCHANGED <<rings, halted, pressure, lagging, done, turns>>

----------------------------------------------------------------------------
(* A node's ring changes (Membership).  A node is always in its own. *)
ChangeRing(n) ==
  /\ n \notin halted /\ turns < MaxTurns
  /\ turns' = turns + 1
  /\ \E m \in Movers \ {n} :
       rings' = [rings EXCEPT ![n] = IF m \in @ THEN @ \ {m} ELSE @ \cup {m}]
  /\ UNCHANGED <<halted, tasks, inflight, pressure, lagging, answers, done>>

(* The lag sampler, which runs while there is back pressure. *)
Sample(n) ==
  /\ pressure /\ n \notin halted /\ turns < MaxTurns
  /\ turns' = turns + 1
  /\ lagging' = IF n \in lagging THEN lagging \ {n} ELSE lagging \cup {n}
  /\ UNCHANGED <<rings, halted, tasks, inflight, pressure, answers, done>>

(* A node stops: what it had in hand is gone, and whoever waits for it     *)
(* gets an error.                                                          *)
Stop(n) ==
  /\ n \in Mortal \ halted
  /\ halted' = halted \cup {n}
  /\ tasks' = {IF q.stage = "sent" /\ q.to = n THEN Failing(q) ELSE q :
               q \in {t \in tasks : t.node # n}}
  /\ inflight' = [inflight EXCEPT ![n] = 0]
  /\ UNCHANGED <<rings, pressure, lagging, answers, done, turns>>

Progress(t) ==
  \/ ReadBody(t) \/ Validate(t) \/ Handled(t)
  \/ Send(t) \/ Reattempt(t) \/ OnProxy(t)

ServiceNext ==
  \/ \E r \in Request, n \in Peers : Submit(r, n)
  \/ \E t \in tasks : Progress(t) \/ Deliver(t) \/ Timeout(t)
  \/ \E n \in Peers : ChangeRing(n) \/ Sample(n) \/ Stop(n)

(* Callbacks come, and a request over the network has an answer or times   *)
(* out.  That it is delivered is not assumed.                              *)
ServiceFairness ==
  WF_serviceVars(\E t \in tasks : Progress(t) \/ Timeout(t))

ServiceSpec == ServiceInit /\ [][ServiceNext]_serviceVars /\ ServiceFairness

----------------------------------------------------------------------------
(* Every variable has its type. *)
ServiceTypeOK ==
  /\ rings \in [Peers -> SUBSET Peers] /\ halted \subseteq Mortal
  /\ tasks \subseteq Tasks
  /\ inflight \in [Peers -> 0 .. MaxInflight] /\ pressure \in BOOLEAN
  /\ lagging \subseteq Peers /\ answers \in [Request -> Statuses]
  /\ done \subseteq Request /\ turns \in 0 .. MaxTurns

(* What numInflightRequests counts: requests this node passes on, and      *)
(* those it handles for others (for itself too, after a retry came home).  *)
Outgoing(n) == {t \in tasks : t.node = n /\ t.stage \in {"egress", "sent", "retry", "told"}}
Incoming(n) == {t \in tasks : t.node = n /\ t.from # Client /\ t.stage # "wire"}

(* With back pressure the count is never wrong, so that a node neither     *)
(* refuses requests it has room for nor takes more than it should, through *)
(* timeouts, retries that come home and nodes that stop (_increment- and   *)
(* _decrementInflightRequests, 320-343).  Without it the corrections may   *)
(* lose requests, but never count one too many.                            *)
InflightIsExact ==
  /\ ServiceTypeOK
  /\ \A n \in Peers \ halted :
    LET real == Cardinality(Outgoing(n)) + Cardinality(Incoming(n)) IN
    IF pressure THEN inflight[n] = real ELSE inflight[n] <= real

(* A request that a node took from another one is passed on again only    *)
(* when the sender's ring changed after it looked the owner up: the sum    *)
(* that handleRequest compares (request-proxy/index.js 225-240) is the one *)
(* of the ring at sending.  Without changes requests do not go round.      *)
PassedOnAgainOnlyIfTurned ==
  \A t \in tasks : t.from # Client /\ t.stage = "egress" => t.turned

(* A client that is told of success is told so because a node carried the  *)
(* request out, and only for a body that passes the validation; a client   *)
(* that only has valid bodies is not told that its request was malformed,  *)
(* whichever of its nodes and tries the answer came from (route.process,   *)
(* onProxy).                                                               *)
AnswersAreTrue ==
  /\ \A r \in Request : answers[r] = "success" => r \in done
  /\ \A r \in Request : answers[r] = "bad request" => \E k \in Kinds[r] : k[2] # "valid"
  /\ \A t \in tasks : t.stage = "handler" /\ t.method \in {"POST", "PUT"} => t.body = "valid"
  /\ \A t \in tasks : t.status = "success" => t.req \in done

(* Every request that is taken is answered, though rings change, requests  *)
(* and answers are lost, and nodes stop (proxyReq, send, route.process).   *)
RequestsAreAnswered ==
  \A r \in Request : (\E t \in tasks : t.req = r /\ t.from = Client) ~> answers[r] # "none"

(* An answer has an HTTP status (response.js, error). *)
AnswersHaveStatus == \A r \in Request : answers[r] # "no status"
=============================================================================
