----------------------------- MODULE TimerStore -----------------------------
(***************************************************************************)
(* The timer cache of one skyring node (packages/skyring/lib/timer.js): a  *)
(* Map of armed timers in front of a levelup store.  JavaScript runs one   *)
(* callback at a time, so every action below is one callback; everything   *)
(* the store or the event loop may delay is a step of its own:             *)
(*   - storage.put / storage.del: issued, applied by the backend, called   *)
(*     back (three steps, other requests interleave between them);         *)
(*   - setTimeout: armed, then fires at any later moment;                  *)
(*   - setImmediate: queued, then runs;                                    *)
(*   - transport.exec: started, then reports success or failure.           *)
(* Time is abstract: a timeout that is armed may fire in any later state.  *)
(* The process may crash; what the backend applied survives, the rest not. *)
(***************************************************************************)
EXTENDS Naturals

CONSTANTS
  Id,            \* timer ids
  Body,          \* timer bodies; every POST or PUT submits one of its own
  Request,       \* DELETE requests
  IdOf,          \* the id each body and each request is submitted under
  None,          \* "no timer"
  Unroutable,    \* bodies naming a transport the node does not have
  BadVerb,       \* bodies the http transport refuses to send
  Ordered,       \* the backend completes the calls of a key in order
  MaxCrashes,    \* bound: crashes of the process
  MaxFaults      \* bound: storage calls answered with an error

ASSUME TimerStoreAssumption ==
  /\ None \notin Body
  /\ Body \cap Request = {}
  /\ IdOf \in [Body \cup Request -> Id]
  /\ Unroutable \subseteq Body
  /\ BadVerb \subseteq Body
  /\ Ordered \in BOOLEAN
  /\ MaxCrashes \in Nat /\ MaxFaults \in Nat
ASSUME NoneAssumption == None \notin {"cancel", "update", "done"}

VARIABLES
  phase,       \* "down", "recovering" (the read stream is open) or "serving"
  timers,      \* the Map: id -> the body whose record it holds, or None
  armed,       \* bodies with a pending setTimeout
  immediate,   \* bodies whose late execution is queued with setImmediate
  execs,       \* bodies a transport is executing
  resuming,    \* updates between kRemove's callback and their create()
  disk,        \* the store: id -> the body of its row, or None
  stage,       \* how far each storage call got: "idle", "issued", "applied"
  ahead,       \* the calls of its key that were in flight when it was issued
  scan,        \* rows the recovery stream has not delivered yet
  status,      \* what the client of each body and request knows
  removedBy,   \* which caller of kRemove took a body out of the Map, or None
  ran,         \* bodies handed to a transport since the process started
  spoiled,     \* ids for which a del, or recovery's put, failed since the start
  crashes, faults

clientVars == <<status, removedBy>>
boundVars  == <<crashes, faults>>
memVars    == <<timers, armed, immediate, execs, resuming>>
callVars   == <<stage, ahead>>
vars == <<phase, memVars, disk, callVars, scan, clientVars, ran, spoiled,
          boundVars>>

(* A storage call is known by who makes it: "put" by create for a client,  *)
(* "reput" by create for the recovery, the others by the callers of        *)
(* kRemove: cancel, update, and success or failure ("done").               *)
PutKinds == {"put", "reput"}
DelKinds == {"cancel", "update", "done"}
Call == ((PutKinds \cup {"update", "done"}) \X Body) \cup ({"cancel"} \X Request)
Kind(c) == c[1]
Key(c) == IdOf[c[2]]
Statuses == {"unused", "pending", "acked", "refused", "lost"}

TypeOK ==
  /\ phase \in {"down", "recovering", "serving"}
  /\ timers \in [Id -> Body \cup {None}]
  /\ disk \in [Id -> Body \cup {None}]
  /\ armed \subseteq Body /\ immediate \subseteq Body
  /\ execs \subseteq Body /\ resuming \subseteq Body /\ ran \subseteq Body
  /\ stage \in [Call -> {"idle", "issued", "applied"}]
  /\ ahead \in [Call -> SUBSET Call]
  /\ scan \subseteq Id /\ spoiled \subseteq Id
  /\ status \in [Body \cup Request -> Statuses]
  /\ removedBy \in [Body -> DelKinds \cup {None}]
  /\ crashes \in Nat /\ faults \in Nat

Init ==
  /\ phase = "serving"
  /\ timers = [i \in Id |-> None]
  /\ disk = [i \in Id |-> None]
  /\ armed = {} /\ immediate = {} /\ execs = {} /\ resuming = {} /\ ran = {}
  /\ stage = [c \in Call |-> "idle"]
  /\ ahead = [c \in Call |-> {}]
  /\ scan = {} /\ spoiled = {}
  /\ status = [x \in Body \cup Request |-> "unused"]
  /\ removedBy = [b \in Body |-> None]
  /\ crashes = 0 /\ faults = 0

----------------------------------------------------------------------------
(* Storage calls.                                                          *)

InFlight(id) == {c \in Call : Key(c) = id /\ stage[c] # "idle"}

Issue(c) ==
  /\ stage' = [stage EXCEPT ![c] = "issued"]
  /\ ahead' = [ahead EXCEPT ![c] = InFlight(Key(c))]

Return(c) ==
  /\ stage' = [stage EXCEPT ![c] = "idle"]
  /\ ahead' = [d \in Call |-> IF d = c THEN {} ELSE ahead[d] \ {c}]

(* Which calls of a key the backend may apply, and call back, next.  The   *)
(* in-memory backend keeps the order; leveldown runs calls on a pool of    *)
(* threads and scylladown on a network, neither promises an order.         *)
MayApply(c) ==
  /\ stage[c] = "issued"
  /\ Ordered => \A d \in ahead[c] : stage[d] = "applied"
MayCallBack(c) == stage[c] = "applied" /\ (Ordered => ahead[c] = {})

Apply(c) ==
  /\ MayApply(c)
  /\ stage' = [stage EXCEPT ![c] = "applied"]
  /\ disk' = [disk EXCEPT ![Key(c)] = IF Kind(c) \in PutKinds THEN c[2] ELSE None]
  /\ UNCHANGED <<phase, memVars, ahead, scan, clientVars, ran, spoiled, boundVars>>

Answer(x, answer) == status' = [status EXCEPT ![x] = answer]

(* The backend answers with an error and has changed nothing: a create     *)
(* fails (213-218), a kRemove fails and leaves its record (318-321), a     *)
(* recovered row stays without a timer.                                    *)
Fault(c) ==
  /\ stage[c] = "issued" /\ (Ordered => ahead[c] = {})
  /\ faults < MaxFaults
  /\ Return(c)
  /\ faults' = faults + 1
  /\ IF Kind(c) \in {"reput", "done"} THEN UNCHANGED status
                                      ELSE Answer(c[2], "refused")
  /\ spoiled' = IF Kind(c) # "put" THEN spoiled \cup {Key(c)} ELSE spoiled
  /\ UNCHANGED <<phase, memVars, disk, scan, removedBy, ran, crashes>>

----------------------------------------------------------------------------
(* create (163-242).  A recovered row is created with a callback that is   *)
(* ignored, so only kind "put" answers a client.  late: the body carries a *)
(* `created` so old that its timeout has already passed.                   *)

AnswerCreate(b, kind, answer) ==
  IF kind = "put" THEN Answer(b, answer) ELSE UNCHANGED status

Create(b, kind, late) ==
  \/ /\ b \in Unroutable \/ timers[IdOf[b]] # None
     /\ AnswerCreate(b, kind, "refused")
     /\ UNCHANGED <<callVars, immediate>>
  \/ /\ b \notin Unroutable /\ timers[IdOf[b]] = None
     /\ late
     /\ immediate' = immediate \cup {b}
     /\ AnswerCreate(b, kind, "acked")
     /\ UNCHANGED callVars
  \/ /\ b \notin Unroutable /\ timers[IdOf[b]] = None
     /\ ~late
     /\ Issue(<<kind, b>>)
     /\ AnswerCreate(b, kind, "pending")
     /\ UNCHANGED immediate

(* POST /timer, from a client or from a node that hands the timer over.    *)
Post(b) ==
  /\ phase = "serving" /\ status[b] = "unused"
  /\ \E late \in BOOLEAN : Create(b, "put", late)
  /\ UNCHANGED <<phase, timers, armed, execs, resuming, disk, scan, removedBy,
                 ran, spoiled, boundVars>>

(* The put's callback (219-240): only now is the timeout armed and the     *)
(* record stored, over whatever record the Map holds by then.              *)
PutDone(c) ==
  /\ Kind(c) \in PutKinds /\ MayCallBack(c)
  /\ Return(c)
  /\ timers' = [timers EXCEPT ![Key(c)] = c[2]]
  /\ armed' = armed \cup {c[2]}
  /\ AnswerCreate(c[2], Kind(c), "acked")
  /\ UNCHANGED <<phase, immediate, execs, resuming, disk, scan, removedBy, ran,
                 spoiled, boundVars>>

----------------------------------------------------------------------------
(* kRemove (316-338) and its callers.                                      *)

(* DELETE /timer/:id (302-314) and PUT /timer/:id (437-443), first half.   *)
Remove(kind, x) ==
  /\ phase = "serving" /\ status[x] = "unused"
  /\ Issue(<<kind, x>>)
  /\ Answer(x, "pending")
  /\ UNCHANGED <<phase, memVars, disk, scan, removedBy, ran, spoiled, boundVars>>
Cancel(r) == Remove("cancel", r)
Update(b) == Remove("update", b)

(* The del's callback finds no record: ENOENT. *)
DelMissed(c) ==
  /\ Kind(c) \in DelKinds /\ MayCallBack(c)
  /\ timers[Key(c)] = None
  /\ Return(c)
  /\ IF Kind(c) = "done" THEN UNCHANGED status ELSE Answer(c[2], "refused")
  /\ UNCHANGED <<phase, memVars, disk, scan, removedBy, ran, spoiled, boundVars>>

(* Faulty variants: the record stays in the Map; its timeout stays armed. *)
DelDoneKeepingRecord(c) ==
  /\ Kind(c) \in DelKinds /\ MayCallBack(c)
  /\ timers[Key(c)] # None
  /\ Return(c)
  /\ armed' = armed \ {timers[Key(c)]}
  /\ IF Kind(c) = "cancel" THEN Answer(c[2], "acked") ELSE UNCHANGED status
  /\ UNCHANGED <<phase, timers, immediate, execs, resuming, disk, scan, removedBy,
                 ran, spoiled, boundVars>>

DelDoneKeepingTimeout(c) ==
  /\ Kind(c) \in DelKinds /\ MayCallBack(c)
  /\ timers[Key(c)] # None
  /\ Return(c)
  /\ timers' = [timers EXCEPT ![Key(c)] = None]
  /\ removedBy' = [removedBy EXCEPT ![timers[Key(c)]] = Kind(c)]
  /\ IF Kind(c) = "cancel" THEN Answer(c[2], "acked") ELSE UNCHANGED status
  /\ UNCHANGED <<phase, armed, immediate, execs, resuming, disk, scan, ran, spoiled,
                 boundVars>>

(* The del's callback removes the record the Map holds by then, whichever  *)
(* body it is, and clears that record's timeout.                           *)
DelDone(c) ==
  LET rec == timers[Key(c)] IN
  /\ Kind(c) \in DelKinds /\ MayCallBack(c)
  /\ rec # None
  /\ Return(c)
  /\ armed' = armed \ {rec}
  /\ timers' = [timers EXCEPT ![Key(c)] = None]
  /\ removedBy' = [removedBy EXCEPT ![rec] = Kind(c)]
  /\ resuming' = IF Kind(c) = "update" THEN resuming \cup {c[2]} ELSE resuming
  /\ IF Kind(c) = "cancel" THEN Answer(c[2], "acked") ELSE UNCHANGED status
  /\ UNCHANGED <<phase, immediate, execs, disk, scan, ran, spoiled, boundVars>>

(* PUT, second half: kRemove calls back through setImmediate, then create. *)
Resume(b) ==
  /\ b \in resuming
  /\ resuming' = resuming \ {b}
  /\ \E late \in BOOLEAN : Create(b, "put", late)
  /\ UNCHANGED <<phase, timers, armed, execs, disk, scan, removedBy, ran,
                 spoiled, boundVars>>

----------------------------------------------------------------------------
(* Execution (229-237, 183-190; transports/http.js 47-82).  The http       *)
(* transport refuses a bad verb on the spot, after clearing the timeout of *)
(* the record the Map holds; otherwise it answers later.                   *)

Exec(b, waiting) ==
  /\ ran' = ran \cup {b}
  /\ \/ /\ b \notin BadVerb
        /\ execs' = execs \cup {b}
        /\ armed' = waiting
        /\ UNCHANGED callVars
     \/ /\ b \in BadVerb
        /\ armed' = waiting \ {timers[IdOf[b]]}
        /\ Issue(<<"done", b>>)
        /\ UNCHANGED execs

(* Faulty variant: an interval in place of a timeout. *)
FireAgain(b) ==
  /\ b \in armed
  /\ Exec(b, armed)
  /\ UNCHANGED <<phase, timers, immediate, resuming, disk, scan, clientVars,
                 spoiled, boundVars>>

Fire(b) ==
  /\ b \in armed
  /\ Exec(b, armed \ {b})
  /\ UNCHANGED <<phase, timers, immediate, resuming, disk, scan, clientVars,
                 spoiled, boundVars>>

FireLate(b) ==
  /\ b \in immediate
  /\ immediate' = immediate \ {b}
  /\ Exec(b, armed)
  /\ UNCHANGED <<phase, timers, resuming, disk, scan, clientVars, spoiled,
                 boundVars>>

(* Faulty variant: a transport's answer is dropped. *)
FinishUnheard(b) ==
  /\ b \in execs
  /\ execs' = execs \ {b}
  /\ UNCHANGED <<phase, timers, armed, immediate, resuming, disk, callVars, scan,
                 clientVars, ran, spoiled, boundVars>>

(* success (251-264) or failure (277-293): either way kRemove of the id. *)
Finish(b) ==
  /\ b \in execs
  /\ execs' = execs \ {b}
  /\ Issue(<<"done", b>>)
  /\ UNCHANGED <<phase, timers, armed, immediate, resuming, disk, scan,
                 clientVars, ran, spoiled, boundVars>>

----------------------------------------------------------------------------
(* Crash, restart and recover (386-413). *)

Crash ==
  /\ phase # "down" /\ crashes < MaxCrashes
  /\ phase' = "down"
  /\ timers' = [i \in Id |-> None]
  /\ stage' = [c \in Call |-> "idle"]
  /\ ahead' = [c \in Call |-> {}]
  /\ armed' = {} /\ immediate' = {} /\ execs' = {} /\ resuming' = {}
  /\ ran' = {} /\ scan' = {} /\ spoiled' = {}
  /\ status' = [x \in Body \cup Request |->
                  IF status[x] = "pending" THEN "lost" ELSE status[x]]
  /\ crashes' = crashes + 1
  /\ UNCHANGED <<disk, removedBy, faults>>

(* A read stream is a snapshot of the rows at the time it is opened. *)
Restart ==
  /\ phase = "down"
  /\ phase' = "recovering"
  /\ scan' = {i \in Id : disk[i] # None}
  /\ UNCHANGED <<memVars, disk, callVars, clientVars, ran, spoiled, boundVars>>

(* Faulty variant: the rows are read and no timer is created for them. *)
SkipRow(id) ==
  /\ phase = "recovering" /\ id \in scan
  /\ scan' = scan \ {id}
  /\ UNCHANGED <<phase, memVars, callVars, disk, clientVars, ran, spoiled,
                 boundVars>>

RecoverRow(id) ==
  /\ phase = "recovering" /\ id \in scan
  /\ scan' = scan \ {id}
  /\ \E late \in BOOLEAN : Create(disk[id], "reput", late)
  /\ UNCHANGED <<phase, timers, armed, execs, resuming, disk, removedBy, ran,
                 spoiled, boundVars>>

(* The stream closes; the server starts to listen. *)
Recovered ==
  /\ phase = "recovering" /\ scan = {}
  /\ phase' = "serving"
  /\ UNCHANGED <<memVars, disk, callVars, scan, clientVars, ran, spoiled,
                 boundVars>>

----------------------------------------------------------------------------
CallBack(c) == PutDone(c) \/ DelMissed(c) \/ DelDone(c)

Next ==
  \/ \E b \in Body : Post(b) \/ Update(b) \/ Resume(b)
  \/ \E b \in Body : Fire(b) \/ FireLate(b) \/ Finish(b)
  \/ \E r \in Request : Cancel(r)
  \/ \E c \in Call : Apply(c) \/ Fault(c) \/ CallBack(c)
  \/ \E id \in Id : RecoverRow(id)
  \/ Crash \/ Restart \/ Recovered

Spec == Init /\ [][Next]_vars

(* The event loop runs every callback that is due and the backend answers  *)
(* every call.  Nothing is assumed of clients, of crashes, of whoever      *)
(* restarts the process, or of the endpoints: http.js 62-66 sets no        *)
(* timeout, so one that accepts a request and never answers keeps its      *)
(* execution under way for ever.                                           *)
Fairness ==
  /\ \A b \in Body : WF_vars(Resume(b)) /\ WF_vars(Fire(b)) /\ WF_vars(FireLate(b))
  /\ \A c \in Call : WF_vars(Apply(c)) /\ WF_vars(CallBack(c))
  /\ \A id \in Id : WF_vars(RecoverRow(id))
  /\ WF_vars(Recovered)

FairSpec == Spec /\ Fairness

----------------------------------------------------------------------------
(* Properties. *)

(* With a backend that keeps the order of a key's calls, Map and store     *)
(* agree on every id that has no call in flight, whatever creates, updates,*)
(* cancels, executions, failed calls and crashes were interleaved.  The    *)
(* only row without a record is one recovered late, while its execution is *)
(* under way, or one left by a failed del or a failed put of the recovery. *)
MapAgreesWithStorage ==
  \A id \in Id :
    (phase # "down" /\ id \notin scan /\ InFlight(id) = {}) =>
      \/ disk[id] = timers[id]
      \/ /\ timers[id] = None
         /\ disk[id] \in immediate \cup execs \/ id \in spoiled

(* No record is a zombie, blocking its id for ever (has(id) answers        *)
(* EKEYEXISTS): its timeout is armed, or its execution is under way, or a  *)
(* del of its id is in flight whose callback removes it - unless the store *)
(* failed to delete it.                                                    *)
NoZombieTimer ==
  \A id \in Id :
    timers[id] # None =>
      \/ timers[id] \in armed \cup execs
      \/ \E c \in InFlight(id) : Kind(c) \in DelKinds
      \/ id \in spoiled

(* Between two crashes a body is handed to a transport at most once,       *)
(* although completion, cancel, update and recovery all race with its      *)
(* timeout.                                                                *)
AtMostOncePerSession ==
  [][\A b \in Body :
       Fire(b) \/ FireLate(b) => b \notin ran]_vars

(* With an ordered backend a body that a DELETE removed is never executed  *)
(* afterwards, not even after a crash and a recovery of the store.         *)
CancelIsFinal ==
  [][\A b \in Body :
       (removedBy[b] = "cancel" /\ b \notin ran) => b \notin ran']_vars

(* A row of the store stays only while its timer is being executed: again  *)
(* and again it is removed or replaced - the timer has been executed,      *)
(* cancelled or updated - or its execution is under way, across crashes,   *)
(* as long as the process is up and the store does not fail to delete it.  *)
(* How long an execution takes is up to its endpoint; once it has ended,   *)
(* the row it leaves is claimed to go.                                     *)
StoredTimerResolved ==
  \A b \in Body :
    disk[IdOf[b]] = b ~>
      \/ disk[IdOf[b]] # b \/ b \in execs
      \/ phase = "down" \/ IdOf[b] \in spoiled

(* What the documentation and the tests say, and the code does not do.     *)

(* "A unique Id of the time": an id has one timeout, the one its record    *)
(* can clear.                                                              *)
OneTimeoutPerId == \A b \in armed : timers[IdOf[b]] = b

(* "acknowledge as delivered successfully": a timer is acknowledged only   *)
(* when it is the one that was delivered.                                  *)
DeliveredBeforeAcknowledged == \A b \in Body : removedBy[b] = "done" => b \in ran
=============================================================================
