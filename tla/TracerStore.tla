------------------------------ MODULE TracerStore ------------------------------
(***************************************************************************)
(* Tracers of a ringpop node (lib/trace): operators add and remove them    *)
(* (server/trace.js), a tracer connects to its sink, then listens to its   *)
(* event, and expires.  There is one traced event.  Callers of add wait    *)
(* for the next 'add' the store emits, whoever caused it.                  *)
(***************************************************************************)
EXTENDS Lifecycle, SequencesExt

CONSTANTS
  TraceRequest,   \* requests of operators, each made once (bound)
  Additions,      \* what add may be asked: sink type, its name, expiry, and
                  \* whether a new tracer may be made of it
  Removals,       \* what remove may be asked: sink type and name
  Omitted,        \* the name of a sink is left out
  DefaultName     \* sinkOptsDefaults of the event

SinkTypes == {"log", "tchannel"}

ASSUME TracerAssumption ==
  /\ Additions \subseteq [type : STRING, name : STRING \cup {Omitted, DefaultName},
                          expires : {"later", "past", "unclear"}, valid : BOOLEAN]
  /\ Removals \subseteq STRING \X (STRING \cup {Omitted, DefaultName})

VARIABLES
  requests,     \* stage and options of each request
  tracers,      \* each tracer that was made, by the request that made it
  store,        \* tracers[traceEvent]
  known,        \* there is such a list
  traceTicks    \* scheduled by process.nextTick, in order
traceVars == <<requests, tracers, store, known, traceTicks>>

Emit(outcome) == [do |-> "emit", what |-> outcome]
Stored == {store[i] : i \in DOMAIN store}

TraceInit ==
  /\ requests = [r \in TraceRequest |-> [stage |-> "idle"]]
  /\ tracers = << >> /\ store = << >> /\ known = FALSE /\ traceTicks = << >>

----------------------------------------------------------------------------
(* matches: what is asked for, defaults not filled in, against what the    *)
(* constructor made of it; _indexOf takes the first that matches.          *)
Matching(key) == {i \in DOMAIN store : tracers[store[i]].key = key}
IndexOf(key) == Min(Matching(key))
Defaulted(o) == <<o.type, IF o.name = Omitted THEN DefaultName ELSE o.name>>

(* Faulty variant: the old timer is cleared after the new one was set. *)
ExpiringCleared(tracer, expires) ==
  [tracer EXCEPT !.until = expires, !.armed = (expires = "later" /\ ~tracer.armed)]
(* _updateExpiration (141-155): an expiry that has passed sets no timer.   *)
Expiring(tracer, expires) == [tracer EXCEPT !.until = expires, !.armed = (expires = "later")]

(* remove (101-122) with the disconnections of both sinks, on the tracers  *)
(* ts: the first match goes.                                               *)
TakeOut(ts, key, ticks) ==
  IF Matching(key) = {}
  THEN tracers' = ts /\ traceTicks' = ticks /\ UNCHANGED store
  ELSE LET t == store[IndexOf(key)] IN
       /\ tracers' = [ts EXCEPT ![t].armed = FALSE, ![t].listening = FALSE]
       /\ store' = RemoveAt(store, IndexOf(key))
       /\ traceTicks' = IF key[1] = "log" THEN ticks
                        ELSE Append(ticks, [do |-> "disconnect", what |-> t])

(* emit('add'): all who wait are told, once.                               *)
Told(outcome) ==
  [r \in TraceRequest |->
     IF requests[r].stage = "waiting" THEN [requests[r] EXCEPT !.stage = outcome] ELSE requests[r]]

(* add (52-99): refused, one that matches renewed, or a new one made,      *)
(* which connects its sink.  A new tracer checks its options again, with   *)
(* defaults filled in (70-74): it is not valid with a level nobody knows,  *)
(* nor with expiresAt, for expiresIn has a default by then (core.js 68-84).*)
(* With a type no sink has the constructor is missing (68-69): the call    *)
(* throws, and the callback stays behind.                                  *)
AddTracer(r, o) ==
  LET key == <<o.type, o.name>>
      fresh == o.expires # "unclear" /\ Matching(key) = {}
      new == [key |-> Defaulted(o), stage |-> "connecting", listening |-> FALSE,
              armed |-> FALSE, until |-> o.expires]
  IN
  /\ ~isDestroyed /\ requests[r].stage = "idle"
  /\ requests' = [requests EXCEPT ![r] = [stage |-> "waiting", opts |-> o]]
  /\ \/ /\ o.expires = "unclear" \/ (fresh /\ o.type \in SinkTypes /\ ~o.valid)
        /\ traceTicks' = Append(traceTicks, Emit("error"))
        /\ UNCHANGED <<tracers, store, known>>
     \/ /\ fresh /\ o.type \notin SinkTypes
        /\ UNCHANGED <<tracers, store, known, traceTicks>>
     \/ /\ o.expires # "unclear" /\ Matching(key) # {}
        /\ tracers' = [tracers EXCEPT ![store[IndexOf(key)]] = Expiring(@, o.expires)]
        /\ traceTicks' = Append(traceTicks, Emit("ok"))
        /\ UNCHANGED <<store, known>>
     \/ /\ fresh /\ o.type \in SinkTypes /\ o.valid
        /\ tracers' = [t \in DOMAIN tracers \cup {r} |-> IF t = r THEN new ELSE tracers[t]]
        /\ store' = Append(store, r) /\ known' = TRUE
        /\ traceTicks' = IF o.type = "tchannel" THEN traceTicks
                         ELSE Append(traceTicks, [do |-> "connect", what |-> r])
  /\ UNCHANGED lifeVars

(* The remove of an operator answers at once, found or not. *)
RemoveTracer(r, key) ==
  /\ ~isDestroyed /\ requests[r].stage = "idle"
  /\ requests' = [requests EXCEPT ![r] = [stage |-> "removed"]]
  /\ TakeOut(tracers, key, traceTicks)
  /\ UNCHANGED <<known, lifeVars>>

(* onConnect (83-92) without an error: also for a tracer that was removed. *)
Connected(t, ticks) ==
  /\ tracers' = [tracers EXCEPT ![t] =
       Expiring([@ EXCEPT !.stage = "open", !.listening = TRUE], requests[t].opts.expires)]
  /\ traceTicks' = Append(ticks, Emit("ok"))
  /\ UNCHANGED <<requests, store, known, lifeVars>>
(* waitForIdentified of a tchannel sink calls back.  After a failure       *)
(* whichever tracer matches is removed.                                    *)
SinkIdentified(t) ==
  /\ t \in DOMAIN tracers /\ tracers[t].key[1] = "tchannel" /\ tracers[t].stage = "connecting"
  /\ \/ Connected(t, traceTicks)
     \/ /\ TakeOut([tracers EXCEPT ![t].stage = "failed"], tracers[t].key, traceTicks)
        /\ requests' = Told("error")
        /\ UNCHANGED <<known, lifeVars>>

(* The next of the scheduled ticks. *)
TraceTick ==
  /\ traceTicks # << >>
  /\ LET tick == Head(traceTicks) IN
     \/ tick.do = "connect" /\ Connected(tick.what, Tail(traceTicks))
     \/ /\ tick.do = "emit" /\ requests' = Told(tick.what)
        /\ traceTicks' = Tail(traceTicks) /\ UNCHANGED <<tracers, store, known, lifeVars>>
     \/ /\ tick.do = "disconnect"
        /\ tracers' = [tracers EXCEPT ![tick.what].listening = FALSE]
        /\ traceTicks' = Tail(traceTicks)
        /\ UNCHANGED <<requests, store, known, lifeVars>>

(* The timer of a tracer: it removes by options, not by tracer. *)
ExpireTracer(t) ==
  /\ t \in DOMAIN tracers /\ tracers[t].armed
  /\ TakeOut([tracers EXCEPT ![t].armed = FALSE], tracers[t].key, traceTicks)
  /\ UNCHANGED <<requests, known, lifeVars>>

(* destroy (157-163) takes each list for a tracer: with a list it throws,  *)
(* and the node's destroy ends there (index.js 235), without being done.   *)
DestroyTracers == ~known /\ DestroyNode(UNCHANGED traceVars)

TraceNext ==
  \/ \E r \in TraceRequest : \/ \E o \in Additions : AddTracer(r, o)
                             \/ \E k \in Removals : RemoveTracer(r, k)
                             \/ SinkIdentified(r) \/ ExpireTracer(r)
  \/ TraceTick
  \/ DestroyTracers

(* Ticks run, sinks answer or time out, timers fire. *)
TraceFairness ==
  /\ WF_<<traceVars, lifeVars>>(TraceTick)
  /\ \A t \in TraceRequest : /\ WF_<<traceVars, lifeVars>>(SinkIdentified(t))
                             /\ WF_<<traceVars, lifeVars>>(ExpireTracer(t))

TraceSpec == LifeInit /\ TraceInit /\ [][TraceNext]_<<traceVars, lifeVars>> /\ TraceFairness

----------------------------------------------------------------------------
(* Every sink has been named by who asked for it. *)
AllNamed ==
  \A r \in TraceRequest : requests[r].stage \in {"idle", "removed"} \/ requests[r].opts.name # Omitted

(* The tracers of the store listen when their sink is connected, and have  *)
(* a timer then, unless their time had passed when it was last set.        *)
StoredListen ==
  \A t \in Stored :
     IF tracers[t].stage = "open"
     THEN tracers[t].listening /\ (tracers[t].armed <=> tracers[t].until = "later")
     ELSE ~tracers[t].listening

(* As long as all sinks are named, the tracers of the store listen, though *)
(* timers and failures of removed tracers remove others with their         *)
(* options.  Every caller of add that names a sink of a type there is, is  *)
(* told something (any other waits for the 'add' of somebody else, 56, 69);*)
(* and when operators leave it alone, the store is empty but for tracers   *)
(* whose time had passed when they came.                                   *)
TracersComeAndGo ==
  /\ [](AllNamed => StoredListen)
  /\ \A r \in TraceRequest :
       []<>(requests[r].stage = "waiting" => requests[r].opts.type \notin SinkTypes)
  /\ \A r \in TraceRequest :
       []<>(AllNamed /\ r \in Stored => tracers[r].until = "past")

(* Adding a tracer again renews it: "should end with one tracer" (trace-   *)
(* test.js).  A sink without a name is given one after the store looked    *)
(* for it, and the timer of the second tracer then removes the first one.  *)
OneTracerPerSink ==
  \A t, u \in Stored : tracers[t].key = tracers[u].key => t = u

(* A tracer that was removed listens no more.  One that is removed while   *)
(* its sink connects does, for ever (store.js 83-90).                      *)
RemovedIsSilent == \A t \in DOMAIN tracers : tracers[t].listening => t \in Stored

(* A caller of add whose options are refused is told so.  The callback is  *)
(* called at the next 'add', that of another caller (56, 91).              *)
RefusedIsTold ==
  \A r \in TraceRequest : requests[r].stage = "ok" => requests[r].opts.expires # "unclear"
=============================================================================
