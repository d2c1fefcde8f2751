-------------------------- MODULE TimerStoreProofs --------------------------
(***************************************************************************)
(* TimerStore, for any ids, bodies and requests.                           *)
(***************************************************************************)
EXTENDS TimerStoreInv, TLAPS

(* What a storage call is made of. *)
LEMMA CallFacts ==
  /\ \A b \in Body : /\ <<"put", b>> \in Call /\ <<"reput", b>> \in Call
                     /\ <<"update", b>> \in Call /\ <<"done", b>> \in Call
  /\ \A r \in Request : <<"cancel", r>> \in Call
  /\ \A c \in Call : /\ Key(c) \in Id
                     /\ Kind(c) \in PutKinds \cup DelKinds
                     /\ Kind(c) = "cancel" => c[2] \in Request
                     /\ Kind(c) # "cancel" => c[2] \in Body
                     /\ c[2] \in Body \cup Request
                     /\ c = <<Kind(c), c[2]>>
BY TimerStoreAssumption DEF Call, Kind, Key, PutKinds, DelKinds

----------------------------------------------------------------------------
(* Types.  Issue, Return, Answer and Create are shared by many actions:    *)
(* one lemma each says what they keep.                                     *)

CallTypes == /\ stage \in [Call -> {"idle", "issued", "applied"}]
             /\ ahead \in [Call -> SUBSET Call]
StatusType == status \in [Body \cup Request -> Statuses]

(* Issuing a call keeps the types of stage and ahead. *)
LEMMA IssueType ==
  ASSUME CallTypes, NEW c \in Call, Issue(c) PROVE CallTypes'
BY DEF CallTypes, Issue, InFlight

(* Calling back keeps the types of stage and ahead. *)
LEMMA ReturnType ==
  ASSUME CallTypes, NEW c \in Call, Return(c) PROVE CallTypes'
BY DEF CallTypes, Return

(* Answering a client keeps the type of status. *)
LEMMA AnswerType ==
  ASSUME StatusType, NEW x \in Body \cup Request, NEW a \in Statuses, Answer(x, a)
  PROVE  StatusType'
BY DEF StatusType, Answer

(* create keeps the types of everything it may change. *)
LEMMA CreateType ==
  ASSUME CallTypes, StatusType, immediate \subseteq Body,
         NEW b \in Body, NEW kind \in PutKinds, NEW late \in BOOLEAN,
         Create(b, kind, late)
  PROVE  CallTypes' /\ StatusType' /\ immediate' \subseteq Body
<1>1. StatusType'
  <2>1. \A a \in Statuses : AnswerCreate(b, kind, a) => StatusType'
    BY AnswerType DEF AnswerCreate, StatusType
  <2> QED
    BY <2>1 DEF Create, Statuses
<1>2. CallTypes' /\ immediate' \subseteq Body
  <2>1. <<kind, b>> \in Call
    BY CallFacts DEF PutKinds
  <2> QED
    BY <2>1, IssueType DEF Create, CallTypes, callVars
<1> QED
  BY <1>1, <1>2

(* TypeOK is kept by every step. *)
LEMMA TypeStep == TypeOK /\ ScanIsQuiet /\ [Next]_vars => TypeOK'
<1> SUFFICES ASSUME TypeOK, ScanIsQuiet, [Next]_vars PROVE TypeOK'
  OBVIOUS
<1>a. CallTypes /\ StatusType
  BY DEF TypeOK, CallTypes, StatusType
<1> USE <1>a, TimerStoreAssumption, CallFacts
<1>1. ASSUME NEW b \in Body, Post(b) PROVE TypeOK'
  BY <1>1, CreateType
  DEF Post, TypeOK, CallTypes, StatusType, PutKinds, DelKinds, memVars, callVars, clientVars, boundVars
<1>2. ASSUME NEW b \in Body, Update(b) PROVE TypeOK'
  BY <1>2, IssueType, AnswerType
  DEF Update, Remove, Statuses, TypeOK, CallTypes, StatusType, PutKinds, DelKinds, memVars, callVars, clientVars, boundVars
<1>3. ASSUME NEW b \in Body, Resume(b) PROVE TypeOK'
  BY <1>3, CreateType
  DEF Resume, TypeOK, CallTypes, StatusType, PutKinds, DelKinds, memVars, callVars, clientVars, boundVars
<1>4. ASSUME NEW b \in Body, Fire(b) PROVE TypeOK'
  BY <1>4, IssueType
  DEF Fire, Exec, TypeOK, CallTypes, StatusType, PutKinds, DelKinds, memVars, callVars, clientVars, boundVars
<1>5. ASSUME NEW b \in Body, FireLate(b) PROVE TypeOK'
  BY <1>5, IssueType
  DEF FireLate, Exec, TypeOK, CallTypes, StatusType, PutKinds, DelKinds, memVars, callVars, clientVars, boundVars
<1>6. ASSUME NEW b \in Body, Finish(b) PROVE TypeOK'
  BY <1>6, IssueType
  DEF Finish, TypeOK, CallTypes, StatusType, PutKinds, DelKinds, memVars, callVars, clientVars, boundVars
<1>7. ASSUME NEW r \in Request, Cancel(r) PROVE TypeOK'
  BY <1>7, IssueType, AnswerType
  DEF Cancel, Remove, Statuses, TypeOK, CallTypes, StatusType, PutKinds, DelKinds, memVars, callVars, clientVars, boundVars
<1>8. ASSUME NEW c \in Call, Apply(c) PROVE TypeOK'
  BY <1>8
  DEF Apply, MayApply, TypeOK, CallTypes, StatusType, PutKinds, DelKinds, memVars, callVars, clientVars, boundVars
<1>9. ASSUME NEW c \in Call, Fault(c) PROVE TypeOK'
  <2>1. CallTypes'
    BY <1>9, ReturnType DEF Fault
  <2>2. StatusType'
    BY <1>9, AnswerType DEF Fault, Statuses, StatusType
  <2> QED
    BY <1>9, <2>1, <2>2 DEF Fault, TypeOK, CallTypes, StatusType, memVars, boundVars
<1>10. ASSUME NEW c \in Call, PutDone(c) PROVE TypeOK'
  <2>1. CallTypes'
    BY <1>10, ReturnType DEF PutDone
  <2>2. StatusType'
    BY <1>10, AnswerType DEF PutDone, AnswerCreate, Statuses, StatusType
  <2>3. timers' \in [Id -> Body \cup {None}] /\ armed' \subseteq Body
    BY <1>10 DEF PutDone, TypeOK, PutKinds
  <2> QED
    BY <1>10, <2>1, <2>2, <2>3 DEF PutDone, TypeOK, CallTypes, StatusType, boundVars
<1>11. ASSUME NEW c \in Call, DelMissed(c) PROVE TypeOK'
  BY <1>11, ReturnType, AnswerType
  DEF DelMissed, Statuses, TypeOK, CallTypes, StatusType, PutKinds, DelKinds, memVars, callVars, clientVars, boundVars
<1>12. ASSUME NEW c \in Call, DelDone(c) PROVE TypeOK'
  <2>1. CallTypes'
    BY <1>12, ReturnType DEF DelDone
  <2>2. StatusType'
    BY <1>12, AnswerType DEF DelDone, Statuses, StatusType
  <2>3. timers' \in [Id -> Body \cup {None}] /\ removedBy' \in [Body -> DelKinds \cup {None}]
    BY <1>12 DEF DelDone, TypeOK
  <2>4. armed' \subseteq Body /\ resuming' \subseteq Body
    BY <1>12 DEF DelDone, TypeOK
  <2> QED
    BY <1>12, <2>1, <2>2, <2>3, <2>4 DEF DelDone, TypeOK, CallTypes, StatusType, boundVars
<1>13. ASSUME NEW id \in Id, RecoverRow(id) PROVE TypeOK'
  <2>1. disk[id] \in Body
    BY <1>13 DEF RecoverRow, ScanIsQuiet, TypeOK
  <2>2. CallTypes' /\ StatusType' /\ immediate' \subseteq Body
    BY <1>13, <2>1, CreateType DEF RecoverRow, PutKinds, TypeOK
  <2> QED
    BY <1>13, <2>2 DEF RecoverRow, TypeOK, CallTypes, StatusType, boundVars
<1>14. CASE Crash
  BY <1>14
  DEF Crash, Statuses, TypeOK, CallTypes, StatusType, PutKinds, DelKinds, memVars, callVars, clientVars, boundVars
<1>15. CASE Restart
  BY <1>15
  DEF Restart, TypeOK, CallTypes, StatusType, PutKinds, DelKinds, memVars, callVars, clientVars, boundVars
<1>16. CASE Recovered
  BY <1>16
  DEF Recovered, TypeOK, CallTypes, StatusType, PutKinds, DelKinds, memVars, callVars, clientVars, boundVars
<1>17. CASE UNCHANGED vars
  BY <1>17
  DEF vars, TypeOK, CallTypes, StatusType, PutKinds, DelKinds, memVars, callVars, clientVars, boundVars
<1> QED
  BY <1>1, <1>2, <1>3, <1>4, <1>5, <1>6, <1>7, <1>8, <1>9, <1>10, <1>11, <1>12, <1>13, <1>14, <1>15, <1>16, <1>17 DEF Next, CallBack

(* Filed is kept by every step. *)
LEMMA FiledStep == TypeOK /\ Filed /\ [Next]_vars => Filed'
<1> SUFFICES ASSUME TypeOK /\ Filed, [Next]_vars PROVE Filed'
  OBVIOUS
<1> USE TimerStoreAssumption, CallFacts DEF TypeOK, Filed
<1>1. ASSUME NEW b \in Body, Post(b) PROVE Filed'
  BY <1>1 DEF Post, Create, AnswerCreate, Answer, Issue, memVars, callVars, clientVars, boundVars, Kind, Key, PutKinds
<1>2. ASSUME NEW b \in Body, Update(b) PROVE Filed'
  BY <1>2 DEF Update, Remove, Answer, Issue, memVars, callVars, clientVars, boundVars, Kind, Key, PutKinds
<1>3. ASSUME NEW b \in Body, Resume(b) PROVE Filed'
  BY <1>3 DEF Resume, Create, AnswerCreate, Answer, Issue, memVars, callVars, clientVars, boundVars, Kind, Key, PutKinds
<1>4. ASSUME NEW b \in Body, Fire(b) PROVE Filed'
  BY <1>4 DEF Fire, Exec, Issue, memVars, callVars, clientVars, boundVars, Kind, Key, PutKinds
<1>5. ASSUME NEW b \in Body, FireLate(b) PROVE Filed'
  BY <1>5 DEF FireLate, Exec, Issue, memVars, callVars, clientVars, boundVars, Kind, Key, PutKinds
<1>6. ASSUME NEW b \in Body, Finish(b) PROVE Filed'
  BY <1>6 DEF Finish, Issue, memVars, callVars, clientVars, boundVars, Kind, Key, PutKinds
<1>7. ASSUME NEW r \in Request, Cancel(r) PROVE Filed'
  BY <1>7 DEF Cancel, Remove, Answer, Issue, memVars, callVars, clientVars, boundVars, Kind, Key, PutKinds
<1>8. ASSUME NEW c \in Call, Apply(c) PROVE Filed'
  BY <1>8 DEF Apply, MayApply, memVars, callVars, clientVars, boundVars, Kind, Key, PutKinds
<1>9. ASSUME NEW c \in Call, Fault(c) PROVE Filed'
  BY <1>9 DEF Fault, Return, Answer, memVars, callVars, clientVars, boundVars, Kind, Key, PutKinds
<1>10. ASSUME NEW c \in Call, PutDone(c) PROVE Filed'
  BY <1>10 DEF PutDone, MayCallBack, Return, AnswerCreate, Answer, memVars, callVars, clientVars, boundVars, Kind, Key, PutKinds
<1>11. ASSUME NEW c \in Call, DelMissed(c) PROVE Filed'
  BY <1>11 DEF DelMissed, MayCallBack, Return, Answer, memVars, callVars, clientVars, boundVars, Kind, Key, PutKinds
<1>12. ASSUME NEW c \in Call, DelDone(c) PROVE Filed'
  BY <1>12 DEF DelDone, MayCallBack, Return, Answer, memVars, callVars, clientVars, boundVars, Kind, Key, PutKinds
<1>13. ASSUME NEW id \in Id, RecoverRow(id) PROVE Filed'
  BY <1>13 DEF RecoverRow, Create, AnswerCreate, Answer, Issue, memVars, callVars, clientVars, boundVars, Kind, Key, PutKinds
<1>14. CASE Crash
  BY <1>14 DEF Crash, memVars, callVars, clientVars, boundVars, Kind, Key, PutKinds
<1>15. CASE Restart
  BY <1>15 DEF Restart, memVars, callVars, clientVars, boundVars, Kind, Key, PutKinds
<1>16. CASE Recovered
  BY <1>16 DEF Recovered, memVars, callVars, clientVars, boundVars, Kind, Key, PutKinds
<1>17. CASE UNCHANGED vars
  BY <1>17 DEF vars, memVars, callVars, clientVars, boundVars, Kind, Key, PutKinds
<1> QED
  BY <1>1, <1>2, <1>3, <1>4, <1>5, <1>6, <1>7, <1>8, <1>9, <1>10, <1>11, <1>12, <1>13, <1>14, <1>15, <1>16, <1>17 DEF Next, CallBack

----------------------------------------------------------------------------
(* What the shared operators do, told of every single call: Idle(kind, x)  *)
(* is the only thing most invariants say about calls.                      *)

(* Issuing a call makes that call busy and no other. *)
LEMMA IssueIdle ==
  ASSUME CallTypes, NEW c \in Call, Issue(c)
  PROVE  \A kind, x : <<kind, x>> \in Call =>
           (Idle(kind, x)' <=> Idle(kind, x) /\ <<kind, x>> # c)
BY DEF CallTypes, Issue, Idle

(* Calling back makes that call idle and no other busy. *)
LEMMA ReturnIdle ==
  ASSUME CallTypes, NEW c \in Call, Return(c)
  PROVE  \A kind, x : <<kind, x>> \in Call =>
           (Idle(kind, x)' <=> Idle(kind, x) \/ <<kind, x>> = c)
BY DEF CallTypes, Return, Idle

(* Applying a call leaves it busy. *)
LEMMA ApplyIdle ==
  ASSUME CallTypes, NEW c \in Call, Apply(c)
  PROVE  \A kind, x : <<kind, x>> \in Call => (Idle(kind, x)' <=> Idle(kind, x))
BY DEF CallTypes, Apply, MayApply, Idle

(* What does not touch stage changes no call. *)
LEMMA SameIdle ==
  ASSUME UNCHANGED stage
  PROVE  \A kind, x : Idle(kind, x)' <=> Idle(kind, x)
BY DEF Idle

(* The four kinds of call a body owns, and the one a request owns. *)
BodyKinds == PutKinds \cup {"update", "done"}

(* Which calls there are, by kind. *)
LEMMA OwnCalls ==
  /\ \A b \in Body, kind \in BodyKinds : <<kind, b>> \in Call
  /\ \A r \in Request : <<"cancel", r>> \in Call
  /\ \A c \in Call : (Kind(c) \in BodyKinds /\ c[2] \in Body)
                     \/ (Kind(c) = "cancel" /\ c[2] \in Request)
  /\ \A c \in Call : \A kind, x : c = <<kind, x>> <=> Kind(c) = kind /\ c[2] = x
BY DEF Call, Kind, BodyKinds, PutKinds

(* Nothing is in flight on an id whose bodies and requests are all idle. *)
LEMMA QuietIdle ==
  ASSUME NEW id \in Id
  PROVE  InFlight(id) = {} <=>
           /\ \A b \in Body, kind \in BodyKinds : IdOf[b] = id => Idle(kind, b)
           /\ \A r \in Request : IdOf[r] = id => Idle("cancel", r)
<1>1. ASSUME InFlight(id) = {}, NEW b \in Body, NEW kind \in BodyKinds, IdOf[b] = id
      PROVE  Idle(kind, b)
  BY <1>1, OwnCalls DEF InFlight, Key, Idle
<1>2. ASSUME InFlight(id) = {}, NEW r \in Request, IdOf[r] = id
      PROVE  Idle("cancel", r)
  BY <1>2, OwnCalls DEF InFlight, Key, Idle
<1>3. ASSUME NEW c \in InFlight(id),
             \A b \in Body, kind \in BodyKinds : IdOf[b] = id => Idle(kind, b),
             \A r \in Request : IdOf[r] = id => Idle("cancel", r)
      PROVE  FALSE
  <2>1. c \in Call /\ IdOf[c[2]] = id /\ stage[c] # "idle"
    BY DEF InFlight, Key
  <2>2. c = <<Kind(c), c[2]>>
    BY <2>1, OwnCalls
  <2>3. Idle(Kind(c), c[2])
    BY <1>3, <2>1, OwnCalls
  <2> QED
    BY <2>1, <2>2, <2>3 DEF Idle
<1> QED
  BY <1>1, <1>2, <1>3

----------------------------------------------------------------------------
SameCalls(k, x) ==
  /\ \A b \in Body :
       /\ (k = "put" /\ b = x) \/ (Idle("put", b)' <=> Idle("put", b))
       /\ (k = "reput" /\ b = x) \/ (Idle("reput", b)' <=> Idle("reput", b))
       /\ (k = "update" /\ b = x) \/ (Idle("update", b)' <=> Idle("update", b))
       /\ (k = "done" /\ b = x) \/ (Idle("done", b)' <=> Idle("done", b))
  /\ \A r \in Request :
       (k = "cancel" /\ r = x) \/ (Idle("cancel", r)' <=> Idle("cancel", r))
AllSame == SameCalls(None, None)

(* Issue touches one call: the one it makes busy. *)
LEMMA IssueCalls ==
  ASSUME CallTypes, NEW k, NEW x, <<k, x>> \in Call, Issue(<<k, x>>)
  PROVE  SameCalls(k, x) /\ ~Idle(k, x)'
<1>1. \A kind, y : <<kind, y>> \in Call =>
           (Idle(kind, y)' <=> Idle(kind, y) /\ <<kind, y>> # <<k, x>>)
  BY IssueIdle
<1> QED
  BY <1>1, CallFacts DEF SameCalls

(* Return touches one call: the one it makes idle. *)
LEMMA ReturnCalls ==
  ASSUME CallTypes, NEW k, NEW x, <<k, x>> \in Call, Return(<<k, x>>)
  PROVE  SameCalls(k, x) /\ Idle(k, x)'
<1>1. \A kind, y : <<kind, y>> \in Call =>
           (Idle(kind, y)' <=> Idle(kind, y) \/ <<kind, y>> = <<k, x>>)
  BY ReturnIdle
<1>2. Idle(k, x)'
  BY <1>1
<1>3. \A kind, y : (<<kind, y>> \in Call /\ ~(kind = k /\ y = x)) =>
           (Idle(kind, y)' <=> Idle(kind, y))
  BY <1>1
<1> QED
  BY <1>2, <1>3, CallFacts DEF SameCalls

(* An unchanged stage touches no call. *)
LEMMA SameStage == ASSUME UNCHANGED stage PROVE \A k, x : SameCalls(k, x)
BY SameIdle DEF SameCalls

(* The backend applying a call makes none busy or idle. *)
LEMMA ApplyCalls == ASSUME CallTypes, NEW c \in Call, Apply(c)
  PROVE \A k, x : SameCalls(k, x)
BY ApplyIdle, CallFacts DEF SameCalls

(* create: refused, to be run late, or to be stored. *)
Refused(b) == UNCHANGED immediate /\ \A k, x : SameCalls(k, x)
RunsLate(b) == immediate' = immediate \cup {b} /\ \A k, x : SameCalls(k, x)
Stores(kind, b) == UNCHANGED immediate /\ SameCalls(kind, b) /\ ~Idle(kind, b)'
Answered(b, kind) ==
  /\ \A x \in Body \cup Request : x # b => status'[x] = status[x]
  /\ IF kind = "put" THEN status'[b] # "unused" ELSE status' = status

(* Answer changes what one client knows. *)
LEMMA AnswerEffect ==
  ASSUME StatusType, NEW x \in Body \cup Request, NEW a, Answer(x, a)
  PROVE  status'[x] = a /\ \A y \in Body \cup Request : y # x => status'[y] = status[y]
BY DEF StatusType, Answer

(* create answers its client, and is refused, late or stored. *)
LEMMA CreateEffect ==
  ASSUME CallTypes, StatusType, NEW b \in Body, NEW kind \in PutKinds,
         NEW late \in BOOLEAN, Create(b, kind, late)
  PROVE  /\ Answered(b, kind)
         /\ \/ Refused(b)
            \/ /\ b \notin Unroutable /\ timers[IdOf[b]] = None
               /\ RunsLate(b) \/ Stores(kind, b)
<1>1. Answered(b, kind)
  <2>1. \A a : AnswerCreate(b, kind, a) /\ a # "unused" => Answered(b, kind)
    BY AnswerEffect DEF AnswerCreate, Answered, PutKinds
  <2> QED
    BY <2>1 DEF Create
<1>2. <<kind, b>> \in Call
  BY CallFacts DEF PutKinds
<1> QED
  BY <1>1, <1>2, IssueCalls, SameStage DEF Create, Refused, RunsLate, Stores, callVars

(* POST keeps Fresh: its body has not been used before. *)
LEMMA PostFresh ==
  ASSUME TypeOK, Filed, Fresh, NEW b \in Body, Post(b) PROVE Fresh'
<1>0. /\ UNCHANGED <<phase, timers, armed, execs, resuming, disk, scan, removedBy, ran, spoiled>>
      /\ phase = "serving"
      /\ status[b] = "unused"
      /\ NoCall(b) /\ b \notin Waiting \cup execs \cup ran
      /\ disk[IdOf[b]] # b /\ timers[IdOf[b]] # b
  BY DEF Post, Fresh, UnusedIsUntouched
<1>1. /\ Answered(b, "put")
      /\ \/ Refused(b)
         \/ /\ b \notin Unroutable /\ timers[IdOf[b]] = None
            /\ RunsLate(b) \/ Stores("put", b)
  BY CreateEffect DEF Post, TypeOK, CallTypes, StatusType, PutKinds
<1>2. scan = {}
  BY <1>0 DEF Fresh, ScanIsQuiet
<1> USE <1>0, <1>1
<1>3. UnusedIsUntouched'
  BY TimerStoreAssumption DEF Fresh, UnusedIsUntouched, NoCall, NoPut, Waiting, Answered, Refused, RunsLate, Stores, SameCalls
<1>4. PutIsFresh'
  BY DEF Fresh, PutIsFresh, NoCall, NoPut, Waiting, Refused, RunsLate, Stores, SameCalls
<1>5. UpdateIsFresh'
  BY DEF Fresh, UpdateIsFresh, NoCall, NoPut, Waiting, Refused, RunsLate, Stores, SameCalls
<1>6. RunOnce'
  BY DEF Fresh, RunOnce, NoCall, NoPut, Waiting, Refused, RunsLate, Stores, SameCalls
<1>7. MappedIsStored'
  BY DEF Fresh, MappedIsStored, Refused, RunsLate, Stores
<1>8. ScanIsQuiet'
  BY <1>2 DEF Fresh, ScanIsQuiet
<1> QED
  BY <1>3, <1>4, <1>5, <1>6, <1>7, <1>8 DEF Fresh

(* The second half of PUT keeps Fresh: its body was only waiting. *)
LEMMA ResumeFresh ==
  ASSUME TypeOK, Filed, Fresh, NEW b \in Body, Resume(b) PROVE Fresh'
<1>0. /\ UNCHANGED <<phase, timers, armed, execs, disk, scan, removedBy, ran, spoiled>>
      /\ resuming' = resuming \ {b}
      /\ b \in resuming /\ NoCall(b) /\ status[b] # "unused"
      /\ b \notin armed \cup immediate \cup execs \cup ran
      /\ disk[IdOf[b]] # b /\ timers[IdOf[b]] # b
  BY DEF Resume, Fresh, UnusedIsUntouched, UpdateIsFresh, Waiting
<1>1. /\ Answered(b, "put")
      /\ \/ Refused(b)
         \/ /\ b \notin Unroutable /\ timers[IdOf[b]] = None
            /\ RunsLate(b) \/ Stores("put", b)
  BY CreateEffect DEF Resume, TypeOK, CallTypes, StatusType, PutKinds
<1> USE <1>0, <1>1
<1>2. phase # "down" /\ \A id \in scan : IdOf[b] # id
  BY DEF Fresh, ScanIsQuiet, Waiting
<1>3. UnusedIsUntouched'
  BY TimerStoreAssumption DEF Fresh, UnusedIsUntouched, NoCall, NoPut, Waiting, Answered, Refused, RunsLate, Stores, SameCalls
<1>4. PutIsFresh'
  BY DEF Fresh, PutIsFresh, NoCall, NoPut, Waiting, Refused, RunsLate, Stores, SameCalls
<1>5. UpdateIsFresh'
  BY DEF Fresh, UpdateIsFresh, NoCall, NoPut, Waiting, Refused, RunsLate, Stores, SameCalls
<1>6. RunOnce'
  BY DEF Fresh, RunOnce, NoCall, NoPut, Waiting, Refused, RunsLate, Stores, SameCalls
<1>7. MappedIsStored'
  BY DEF Fresh, MappedIsStored, Refused, RunsLate, Stores
<1>8. ScanIsQuiet'
  BY <1>2 DEF Fresh, ScanIsQuiet, Quiet, NoCall, NoPut, Waiting, Refused, RunsLate, Stores, SameCalls
<1> QED
  BY <1>3, <1>4, <1>5, <1>6, <1>7, <1>8 DEF Fresh

(* Recovering a row keeps Fresh: nothing happens to its id yet. *)
LEMMA RecoverRowFresh ==
  ASSUME TypeOK, Filed, Fresh, NEW id \in Id, RecoverRow(id) PROVE Fresh'
<1> DEFINE b == disk[id]
<1>0. /\ UNCHANGED <<phase, timers, armed, execs, resuming, disk, removedBy, ran, spoiled>>
      /\ scan' = scan \ {id} /\ phase = "recovering"
      /\ b \in Body /\ IdOf[b] = id
      /\ NoCall(b) /\ status[b] # "unused" /\ b \notin Unroutable
      /\ b \notin Waiting \cup execs \cup ran
      /\ timers[id] = None /\ None \notin Body
  BY TimerStoreAssumption DEF RecoverRow, TypeOK, Filed, Fresh, UnusedIsUntouched, ScanIsQuiet, Quiet
<1>1. /\ Answered(b, "reput")
      /\ \/ Refused(b)
         \/ /\ b \notin Unroutable /\ timers[IdOf[b]] = None
            /\ RunsLate(b) \/ Stores("reput", b)
  BY <1>0, CreateEffect DEF RecoverRow, TypeOK, CallTypes, StatusType, PutKinds
<1> HIDE DEF b
<1> USE <1>0, <1>1
<1>3. UnusedIsUntouched'
  BY TimerStoreAssumption DEF Fresh, UnusedIsUntouched, NoCall, NoPut, Waiting, Answered, Refused, RunsLate, Stores, SameCalls
<1>4. PutIsFresh'
  BY DEF Fresh, PutIsFresh, NoCall, NoPut, Waiting, Refused, RunsLate, Stores, SameCalls
<1>5. UpdateIsFresh'
  BY DEF Fresh, UpdateIsFresh, NoCall, NoPut, Waiting, Refused, RunsLate, Stores, SameCalls
<1>6. RunOnce'
  BY DEF Fresh, RunOnce, NoCall, NoPut, Waiting, Refused, RunsLate, Stores, SameCalls
<1>7. MappedIsStored'
  BY DEF Fresh, MappedIsStored, Refused, RunsLate, Stores
<1>8. ScanIsQuiet'
  BY DEF Fresh, ScanIsQuiet, Quiet, NoCall, NoPut, Waiting, Refused, RunsLate, Stores, SameCalls
<1> QED
  BY <1>3, <1>4, <1>5, <1>6, <1>7, <1>8 DEF Fresh

(* PUT keeps Fresh. *)
LEMMA UpdateFresh ==
  ASSUME TypeOK, Filed, Fresh, NEW b \in Body, Update(b) PROVE Fresh'
<1>0. /\ UNCHANGED <<phase, timers, armed, immediate, execs, resuming, disk, scan, removedBy, ran, spoiled>>
      /\ phase = "serving" /\ NoCall(b)
      /\ b \notin Waiting \cup execs \cup ran
      /\ disk[IdOf[b]] # b /\ timers[IdOf[b]] # b
  BY DEF Update, Remove, memVars, Fresh, UnusedIsUntouched
<1>1. SameCalls("update", b) /\ ~Idle("update", b)'
  BY IssueCalls, CallFacts DEF Update, Remove, TypeOK, CallTypes
<1>2. status'[b] # "unused" /\ \A x \in Body \cup Request : x # b => status'[x] = status[x]
  BY AnswerEffect DEF Update, Remove, TypeOK, StatusType
<1> USE <1>0, <1>1, <1>2
<1>3. UnusedIsUntouched'
  BY TimerStoreAssumption DEF Fresh, UnusedIsUntouched, NoCall, NoPut, Waiting, SameCalls
<1>4. PutIsFresh'
  BY DEF Fresh, PutIsFresh, NoCall, NoPut, Waiting, SameCalls
<1>5. UpdateIsFresh'
  BY DEF Fresh, UpdateIsFresh, NoCall, NoPut, Waiting, SameCalls
<1>6. RunOnce'
  BY DEF Fresh, RunOnce, NoCall, NoPut, Waiting, SameCalls
<1>7. MappedIsStored'
  BY DEF Fresh, MappedIsStored
<1>8. ScanIsQuiet'
  BY DEF Fresh, ScanIsQuiet
<1> QED
  BY <1>3, <1>4, <1>5, <1>6, <1>7, <1>8 DEF Fresh

(* DELETE keeps Fresh. *)
LEMMA CancelFresh ==
  ASSUME TypeOK, Filed, Fresh, NEW r \in Request, Cancel(r) PROVE Fresh'
<1>0. /\ UNCHANGED <<phase, timers, armed, immediate, execs, resuming, disk, scan, removedBy, ran, spoiled>>
      /\ phase = "serving" /\ r \notin Body
  BY TimerStoreAssumption DEF Cancel, Remove, memVars
<1>1. SameCalls("cancel", r) /\ ~Idle("cancel", r)'
  BY IssueCalls, CallFacts DEF Cancel, Remove, TypeOK, CallTypes
<1>2. status'[r] # "unused" /\ \A x \in Body \cup Request : x # r => status'[x] = status[x]
  BY AnswerEffect DEF Cancel, Remove, TypeOK, StatusType
<1> USE <1>0, <1>1, <1>2
<1>3. UnusedIsUntouched'
  BY DEF Fresh, UnusedIsUntouched, NoCall, NoPut, Waiting, SameCalls
<1>4. PutIsFresh'
  BY DEF Fresh, PutIsFresh, NoCall, NoPut, Waiting, SameCalls
<1>5. UpdateIsFresh'
  BY DEF Fresh, UpdateIsFresh, NoCall, NoPut, Waiting, SameCalls
<1>6. RunOnce'
  BY DEF Fresh, RunOnce, NoCall, NoPut, Waiting, SameCalls
<1>7. MappedIsStored'
  BY DEF Fresh, MappedIsStored
<1>8. ScanIsQuiet'
  BY DEF Fresh, ScanIsQuiet
<1> QED
  BY <1>3, <1>4, <1>5, <1>6, <1>7, <1>8 DEF Fresh

(* An execution that starts: reported on the spot, or under way. *)
LEMMA ExecEffect ==
  ASSUME CallTypes, NEW b \in Body, NEW waiting, Exec(b, waiting)
  PROVE  /\ ran' = ran \cup {b}
         /\ armed' \subseteq waiting
         /\ \/ execs' = execs \cup {b} /\ \A k, x : SameCalls(k, x)
            \/ execs' = execs /\ SameCalls("done", b) /\ ~Idle("done", b)'
BY IssueCalls, SameStage, CallFacts DEF Exec, callVars

(* A timeout keeps Fresh: the body it hands over had not run. *)
LEMMA FireFresh ==
  ASSUME TypeOK, Filed, Fresh, NEW b \in Body, Fire(b) PROVE Fresh'
<1>0. /\ UNCHANGED <<phase, timers, immediate, resuming, disk, scan, removedBy, status, spoiled>>
      /\ b \in armed /\ armed' \subseteq armed \ {b}
      /\ NoPut(b) /\ Idle("update", b) /\ Idle("done", b)
      /\ b \notin immediate \cup resuming \cup execs \cup ran
      /\ status[b] # "unused"
  BY ExecEffect DEF Fire, TypeOK, CallTypes, clientVars, Fresh, UnusedIsUntouched, PutIsFresh, UpdateIsFresh, RunOnce, Waiting
<1>1. /\ ran' = ran \cup {b}
      /\ \/ execs' = execs \cup {b} /\ \A k, x : SameCalls(k, x)
         \/ execs' = execs /\ SameCalls("done", b) /\ ~Idle("done", b)'
  BY ExecEffect DEF Fire, TypeOK, CallTypes
<1> USE <1>0, <1>1
<1>3. UnusedIsUntouched'
  BY DEF Fresh, UnusedIsUntouched, NoCall, NoPut, Waiting, SameCalls
<1>4. PutIsFresh'
  BY DEF Fresh, PutIsFresh, NoCall, NoPut, Waiting, SameCalls
<1>5. UpdateIsFresh'
  BY DEF Fresh, UpdateIsFresh, NoCall, NoPut, Waiting, SameCalls
<1>6. RunOnce'
  BY DEF Fresh, RunOnce, NoCall, NoPut, Waiting, SameCalls
<1>7. MappedIsStored'
  BY DEF Fresh, MappedIsStored
<1>8. ScanIsQuiet'
  BY DEF Fresh, ScanIsQuiet, Quiet, NoCall, NoPut, Waiting, SameCalls
<1> QED
  BY <1>3, <1>4, <1>5, <1>6, <1>7, <1>8 DEF Fresh

(* A call in flight is of an id that is not quiet: the process is up and    *)
(* the recovery stream has passed its row.                                  *)
LEMMA BusyKey ==
  ASSUME ScanIsQuiet, NEW c \in Call, stage[c] # "idle"
  PROVE  /\ ~Idle(Kind(c), c[2])
         /\ ~Quiet(Key(c)) /\ Key(c) \notin scan /\ phase # "down"
<1>1. ~Idle(Kind(c), c[2])
  BY CallFacts DEF Idle
<1>2. ~Quiet(Key(c))
  BY <1>1, CallFacts DEF Quiet, NoCall, NoPut, Key, PutKinds, DelKinds
<1> QED
  BY <1>1, <1>2, CallFacts DEF ScanIsQuiet

(* If no call changes, quiet ids are the same. *)
LEMMA SameQuiet ==
  ASSUME \A k, x : SameCalls(k, x) PROVE \A id : Quiet(id)' <=> Quiet(id)
BY DEF SameCalls, Quiet, NoCall, NoPut

(* A callback leaves quiet ids quiet. *)
LEMMA ReturnQuiet ==
  ASSUME CallTypes, NEW k, NEW x, <<k, x>> \in Call, Return(<<k, x>>)
  PROVE  \A id : Quiet(id) => Quiet(id)'
<1>1. \A kind, y : <<kind, y>> \in Call => (Idle(kind, y) => Idle(kind, y)')
  BY ReturnIdle
<1> QED
  BY <1>1, CallFacts DEF Quiet, NoCall, NoPut

(* A late execution keeps Fresh. *)
LEMMA FireLateFresh ==
  ASSUME TypeOK, Filed, Fresh, NEW b \in Body, FireLate(b) PROVE Fresh'
<1>0. /\ UNCHANGED <<phase, timers, resuming, disk, scan, removedBy, status, spoiled>>
      /\ b \in immediate /\ immediate' = immediate \ {b} /\ armed' \subseteq armed
      /\ NoPut(b) /\ Idle("update", b) /\ Idle("done", b)
      /\ b \notin armed \cup resuming \cup execs \cup ran
      /\ status[b] # "unused"
  BY ExecEffect DEF FireLate, TypeOK, CallTypes, clientVars, Fresh, UnusedIsUntouched, PutIsFresh, UpdateIsFresh, RunOnce, Waiting
<1>1. /\ ran' = ran \cup {b}
      /\ \/ execs' = execs \cup {b} /\ \A k, x : SameCalls(k, x)
         \/ execs' = execs /\ SameCalls("done", b) /\ ~Idle("done", b)'
  BY ExecEffect DEF FireLate, TypeOK, CallTypes
<1> USE <1>0, <1>1
<1>3. UnusedIsUntouched'
  BY DEF Fresh, UnusedIsUntouched, NoCall, NoPut, Waiting, SameCalls
<1>4. PutIsFresh'
  BY DEF Fresh, PutIsFresh, NoCall, NoPut, Waiting, SameCalls
<1>5. UpdateIsFresh'
  BY DEF Fresh, UpdateIsFresh, NoCall, NoPut, Waiting, SameCalls
<1>6. RunOnce'
  BY DEF Fresh, RunOnce, NoCall, NoPut, Waiting, SameCalls
<1>7. MappedIsStored'
  BY DEF Fresh, MappedIsStored
<1>8. ScanIsQuiet'
  BY DEF Fresh, ScanIsQuiet, Quiet, NoCall, NoPut, Waiting, SameCalls
<1> QED
  BY <1>3, <1>4, <1>5, <1>6, <1>7, <1>8 DEF Fresh

(* The end of an execution keeps Fresh. *)
LEMMA FinishFresh ==
  ASSUME TypeOK, Filed, Fresh, NEW b \in Body, Finish(b) PROVE Fresh'
<1>0. /\ UNCHANGED <<phase, timers, armed, immediate, resuming, disk, scan, removedBy, status, ran, spoiled>>
      /\ b \in execs /\ execs' = execs \ {b}
      /\ NoPut(b) /\ Idle("update", b) /\ Idle("done", b)
      /\ b \notin Waiting /\ b \in ran /\ status[b] # "unused"
  BY DEF Finish, clientVars, Fresh, UnusedIsUntouched, PutIsFresh, UpdateIsFresh, RunOnce, Waiting
<1>1. SameCalls("done", b) /\ ~Idle("done", b)'
  BY IssueCalls, CallFacts DEF Finish, TypeOK, CallTypes
<1> USE <1>0, <1>1
<1>3. UnusedIsUntouched'
  BY DEF Fresh, UnusedIsUntouched, NoCall, NoPut, Waiting, SameCalls
<1>4. PutIsFresh'
  BY DEF Fresh, PutIsFresh, NoCall, NoPut, Waiting, SameCalls
<1>5. UpdateIsFresh'
  BY DEF Fresh, UpdateIsFresh, NoCall, NoPut, Waiting, SameCalls
<1>6. RunOnce'
  BY DEF Fresh, RunOnce, NoCall, NoPut, Waiting, SameCalls
<1>7. MappedIsStored'
  BY DEF Fresh, MappedIsStored
<1>8. ScanIsQuiet'
  BY DEF Fresh, ScanIsQuiet, Quiet, NoCall, NoPut, Waiting, SameCalls
<1> QED
  BY <1>3, <1>4, <1>5, <1>6, <1>7, <1>8 DEF Fresh

(* The backend applying a call keeps Fresh. *)
LEMMA ApplyFresh ==
  ASSUME TypeOK, Filed, Fresh, NEW c \in Call, Apply(c) PROVE Fresh'
<1>0. /\ UNCHANGED <<phase, timers, armed, immediate, execs, resuming, scan, removedBy, status, ran, spoiled>>
      /\ \A k, x : SameCalls(k, x)
      /\ \A id \in Id : id # Key(c) => disk'[id] = disk[id]
      /\ None \notin Body /\ Unroutable \subseteq Body
  BY ApplyCalls, TimerStoreAssumption DEF Apply, memVars, clientVars, TypeOK, CallTypes
<1>1. /\ Key(c) \notin scan /\ phase # "down"
      /\ \A id : Quiet(id)' <=> Quiet(id)
  BY <1>0, BusyKey, SameQuiet DEF Apply, MayApply, Fresh
<1>2. \/ disk'[Key(c)] = None
      \/ \E b \in Body : /\ disk'[Key(c)] = b /\ ~NoPut(b) /\ IdOf[b] = Key(c)
                         /\ b \notin Unroutable /\ Idle("update", b) /\ b \notin resuming
  <2>1. CASE Kind(c) \in PutKinds
    <3>1. c[2] \in Body /\ ~NoPut(c[2])
      BY <2>1, CallFacts DEF Apply, MayApply, Idle, NoPut, PutKinds
    <3> QED
      BY <2>1, <3>1, CallFacts DEF Apply, TypeOK, Key, Fresh, PutIsFresh, Waiting
  <2>2. CASE Kind(c) \notin PutKinds
    BY <2>2, CallFacts DEF Apply, TypeOK
  <2> QED
    BY <2>1, <2>2
<1> USE <1>0, <1>1, <1>2, TimerStoreAssumption
<1>3. UnusedIsUntouched'
  BY DEF Fresh, UnusedIsUntouched, NoCall, NoPut, Waiting, SameCalls
<1>4. PutIsFresh'
  BY DEF Fresh, PutIsFresh, NoCall, NoPut, Waiting, SameCalls
<1>5. UpdateIsFresh'
  BY DEF Fresh, UpdateIsFresh, NoCall, NoPut, Waiting, SameCalls
<1>6. RunOnce'
  BY DEF Fresh, RunOnce, NoCall, NoPut, Waiting, SameCalls
<1>7. MappedIsStored'
  BY DEF Fresh, MappedIsStored
<1>8. ScanIsQuiet'
  <2>1. \A id \in scan : /\ Quiet(id)' /\ timers'[id] = None /\ disk'[id] # None
                         /\ \A b \in Body : IdOf[b] = id => b \notin Waiting' \cup execs' \cup ran'
    BY DEF Fresh, ScanIsQuiet, Waiting, TypeOK
  <2>2. \A id \in Id : disk'[id] \notin Unroutable
    BY DEF Fresh, ScanIsQuiet
  <2> QED
    BY <2>1, <2>2 DEF Fresh, ScanIsQuiet, Waiting
<1> QED
  BY <1>3, <1>4, <1>5, <1>6, <1>7, <1>8 DEF Fresh

(* A callback that changes nothing but its call keeps Fresh. *)
LEMMA ReturnFresh ==
  ASSUME TypeOK, Filed, Fresh, NEW c \in Call, stage[c] # "idle", Return(c),
         UNCHANGED <<phase, timers, armed, immediate, execs, disk, scan, ran, resuming>>,
         spoiled' = spoiled \/ phase # "down",
         \A x \in Body \cup Request : status'[x] = "unused" => status[x] = "unused"
  PROVE  Fresh'
<1>1. SameCalls(Kind(c), c[2]) /\ Idle(Kind(c), c[2])'
  BY ReturnCalls, CallFacts DEF TypeOK, CallTypes
<1> USE <1>1
<1>3. UnusedIsUntouched'
  BY DEF Fresh, UnusedIsUntouched, NoCall, NoPut, Waiting, SameCalls
<1>4. PutIsFresh'
  BY DEF Fresh, PutIsFresh, NoCall, NoPut, Waiting, SameCalls
<1>5. UpdateIsFresh'
  BY DEF Fresh, UpdateIsFresh, NoCall, NoPut, Waiting, SameCalls
<1>6. RunOnce'
  BY DEF Fresh, RunOnce, NoCall, NoPut, Waiting, SameCalls
<1>7. MappedIsStored'
  BY DEF Fresh, MappedIsStored
<1>8. ScanIsQuiet'
  BY DEF Fresh, ScanIsQuiet, Quiet, NoCall, NoPut, Waiting, SameCalls
<1> QED
  BY <1>3, <1>4, <1>5, <1>6, <1>7, <1>8 DEF Fresh

(* The put's callback keeps Fresh: its body was being stored. *)
LEMMA PutDoneFresh ==
  ASSUME TypeOK, Filed, Fresh, NEW c \in Call, PutDone(c) PROVE Fresh'
<1> DEFINE b == c[2]
<1>a. b \in Body /\ Key(c) = IdOf[b] /\ Key(c) \in Id /\ Kind(c) \in PutKinds /\ ~Idle(Kind(c), b)
  BY CallFacts DEF PutDone, MayCallBack, Idle, Key, PutKinds
<1>0. /\ UNCHANGED <<phase, immediate, execs, resuming, disk, scan, removedBy, ran, spoiled>>
      /\ armed' = armed \cup {b}
      /\ timers'[IdOf[b]] = b
      /\ \A id \in Id : id # IdOf[b] => timers'[id] = timers[id]
  BY <1>a DEF PutDone, TypeOK
<1>c. /\ phase # "down" /\ IdOf[b] \notin scan
      /\ \A id : Quiet(id) => Quiet(id)'
  BY <1>a, BusyKey, ReturnQuiet, CallFacts DEF PutDone, MayCallBack, TypeOK, CallTypes, Fresh
<1>b. /\ ~NoPut(b) /\ Idle("update", b) /\ Idle("done", b)
      /\ b \notin Waiting \cup execs \cup ran /\ status[b] # "unused"
  <2>1. ~NoPut(b)
    BY <1>a DEF NoPut, PutKinds
  <2> QED
    BY <1>a, <2>1 DEF Fresh, PutIsFresh, UnusedIsUntouched, NoCall
<1>1. SameCalls(Kind(c), b) /\ NoPut(b)'
  <2>1. SameCalls(Kind(c), b) /\ Idle(Kind(c), b)'
    BY ReturnCalls, CallFacts DEF PutDone, TypeOK, CallTypes
  <2> QED
    BY <1>a, <2>1 DEF Fresh, PutIsFresh, NoPut, PutKinds, SameCalls
<1>2. \A x \in Body \cup Request : status'[x] = "unused" => status[x] = "unused"
  BY <1>a, AnswerEffect DEF PutDone, AnswerCreate, TypeOK, StatusType
<1> HIDE DEF b
<1> USE <1>a, <1>b, <1>c, <1>0, <1>1, <1>2, TimerStoreAssumption DEF PutKinds
<1>3. UnusedIsUntouched'
  BY DEF Fresh, UnusedIsUntouched, NoCall, NoPut, Waiting, SameCalls
<1>4. PutIsFresh'
  BY DEF Fresh, PutIsFresh, NoCall, NoPut, Waiting, SameCalls
<1>5. UpdateIsFresh'
  BY DEF Fresh, UpdateIsFresh, NoCall, NoPut, Waiting, SameCalls
<1>6. RunOnce'
  BY DEF Fresh, RunOnce, NoCall, NoPut, Waiting, SameCalls
<1>7. MappedIsStored'
  BY DEF Fresh, MappedIsStored, Waiting
<1>8. ScanIsQuiet'
  <2>1. \A id \in scan : Quiet(id)' /\ timers'[id] = None /\ disk'[id] # None
    BY DEF Fresh, ScanIsQuiet, TypeOK
  <2>2. \A id \in scan, x \in Body : IdOf[x] = id => x \notin Waiting' \cup execs' \cup ran'
    BY DEF Fresh, ScanIsQuiet, Waiting
  <2>3. \A id \in Id : disk'[id] \notin Unroutable
    BY DEF Fresh, ScanIsQuiet
  <2> QED
    BY <2>1, <2>2, <2>3 DEF Fresh, ScanIsQuiet
<1> QED
  BY <1>3, <1>4, <1>5, <1>6, <1>7, <1>8 DEF Fresh

(* The del's callback keeps Fresh. *)
LEMMA DelDoneFresh ==
  ASSUME TypeOK, Filed, Fresh, NEW c \in Call, DelDone(c) PROVE Fresh'
<1>0. /\ UNCHANGED <<phase, immediate, execs, disk, scan, ran, spoiled>>
      /\ Kind(c) \in DelKinds /\ ~Idle(Kind(c), c[2])
      /\ armed' \subseteq armed /\ timers'[Key(c)] = None /\ None \notin Body
      /\ resuming' = IF Kind(c) = "update" THEN resuming \cup {c[2]} ELSE resuming
      /\ \A id \in Id : id # Key(c) => timers'[id] = timers[id]
      /\ Kind(c) = "update" => c[2] \in Body
  BY CallFacts, TimerStoreAssumption DEF DelDone, MayCallBack, Idle, TypeOK
<1>1. SameCalls(Kind(c), c[2]) /\ Idle(Kind(c), c[2])'
  BY ReturnCalls, CallFacts DEF DelDone, TypeOK, CallTypes
<1>2. /\ Key(c) \notin scan /\ phase # "down"
      /\ \A id : Quiet(id) => Quiet(id)'
  BY BusyKey, ReturnQuiet, CallFacts DEF DelDone, MayCallBack, Fresh, TypeOK, CallTypes
<1>x. \A x \in Body \cup Request : status'[x] = "unused" => status[x] = "unused"
  <2>1. StatusType /\ c[2] \in Body \cup Request
    BY CallFacts DEF TypeOK, StatusType
  <2>2. Answer(c[2], "acked") \/ UNCHANGED status
    BY DEF DelDone
  <2> QED
    BY <2>1, <2>2, AnswerEffect
<1> USE <1>0, <1>1, <1>2, <1>x, CallFacts, TimerStoreAssumption DEF DelKinds
<1>3. UnusedIsUntouched'
  BY DEF Fresh, UnusedIsUntouched, NoCall, NoPut, Waiting, SameCalls
<1>4. PutIsFresh'
  BY DEF Fresh, PutIsFresh, NoCall, NoPut, Waiting, SameCalls
<1>5. UpdateIsFresh'
  BY DEF Fresh, UpdateIsFresh, NoCall, NoPut, Waiting, SameCalls
<1>6. RunOnce'
  BY DEF Fresh, RunOnce, NoCall, NoPut, Waiting, SameCalls
<1>7. MappedIsStored'
  BY DEF Fresh, MappedIsStored
<1>8. ScanIsQuiet'
  <2>1. \A id \in scan : Quiet(id)' /\ timers'[id] = None /\ disk'[id] # None
    BY DEF Key, Fresh, ScanIsQuiet, TypeOK
  <2>2. \A id \in scan, x \in Body : IdOf[x] = id => x \notin Waiting' \cup execs' \cup ran'
    BY DEF Key, Fresh, ScanIsQuiet, Waiting
  <2>3. \A id \in Id : disk'[id] \notin Unroutable
    BY DEF Key, Fresh, ScanIsQuiet
  <2> QED
    BY <2>1, <2>2, <2>3 DEF Key, Fresh, ScanIsQuiet
<1> QED
  BY <1>3, <1>4, <1>5, <1>6, <1>7, <1>8 DEF Fresh

(* A crash keeps Fresh. *)
LEMMA CrashFresh == ASSUME TypeOK, Filed, Fresh, Crash PROVE Fresh'
<1>0. /\ phase' = "down" /\ armed' = {} /\ immediate' = {} /\ execs' = {}
      /\ resuming' = {} /\ ran' = {} /\ scan' = {} /\ spoiled' = {}
      /\ disk' = disk /\ \A id \in Id : timers'[id] = None
      /\ None \notin Body
  BY TimerStoreAssumption DEF Crash
<1>1. /\ \A x \in Body : NoCall(x)' /\ NoPut(x)' /\ Idle("update", x)' /\ Idle("done", x)'
      /\ \A r \in Request : Idle("cancel", r)'
  BY CallFacts DEF Crash, NoCall, NoPut, Idle
<1>2. \A x \in Body \cup Request : status'[x] = "unused" => status[x] = "unused"
  BY DEF Crash, TypeOK
<1> USE <1>0, <1>1, <1>2, TimerStoreAssumption
<1>3. UnusedIsUntouched'
  BY DEF Fresh, UnusedIsUntouched, NoCall, NoPut, Waiting, SameCalls
<1>4. PutIsFresh'
  BY DEF Fresh, PutIsFresh, NoCall, NoPut, Waiting, SameCalls
<1>5. UpdateIsFresh'
  BY DEF Fresh, UpdateIsFresh, NoCall, NoPut, Waiting, SameCalls
<1>6. RunOnce'
  BY DEF Fresh, RunOnce, NoCall, NoPut, Waiting, SameCalls
<1>7. MappedIsStored'
  BY DEF Fresh, MappedIsStored
<1>8. ScanIsQuiet'
  BY DEF Fresh, ScanIsQuiet, Quiet
<1> QED
  BY <1>3, <1>4, <1>5, <1>6, <1>7, <1>8 DEF Fresh

(* Restart, the end of recovery and stuttering keep Fresh. *)
LEMMA QuietStepFresh ==
  ASSUME TypeOK, Filed, Fresh, Restart \/ Recovered \/ UNCHANGED vars PROVE Fresh'
<1>0. /\ UNCHANGED <<timers, armed, immediate, execs, resuming, ran, disk, spoiled, status, stage>>
      /\ \A k, x : SameCalls(k, x)
  BY SameStage DEF Restart, Recovered, vars, memVars, callVars, clientVars
<1>1. \/ phase = "down" /\ phase' = "recovering" /\ scan' = {id \in Id : disk[id] # None}
      \/ phase' = "serving" /\ scan = {} /\ scan' = {}
      \/ UNCHANGED <<phase, scan>>
  BY DEF Restart, Recovered, vars
<1> USE <1>0, <1>1
<1>3. UnusedIsUntouched'
  BY DEF Fresh, UnusedIsUntouched, NoCall, NoPut, Waiting, SameCalls
<1>4. PutIsFresh'
  BY DEF Fresh, PutIsFresh, NoCall, NoPut, Waiting, SameCalls
<1>5. UpdateIsFresh'
  BY DEF Fresh, UpdateIsFresh, NoCall, NoPut, Waiting, SameCalls
<1>6. RunOnce'
  BY DEF Fresh, RunOnce, NoCall, NoPut, Waiting, SameCalls
<1>7. MappedIsStored'
  BY DEF Fresh, MappedIsStored
<1>8. ScanIsQuiet'
  BY DEF Fresh, ScanIsQuiet, Quiet, NoCall, NoPut, Waiting, SameCalls
<1> QED
  BY <1>3, <1>4, <1>5, <1>6, <1>7, <1>8 DEF Fresh

(* Fresh is kept by every step. *)
LEMMA FreshStep == TypeOK /\ Filed /\ Fresh /\ [Next]_vars => Fresh'
<1> SUFFICES ASSUME TypeOK, Filed, Fresh, [Next]_vars PROVE Fresh'
  OBVIOUS
<1>1. ASSUME NEW c \in Call, Fault(c) PROVE Fresh'
  <2>1. /\ UNCHANGED <<phase, timers, armed, immediate, execs, disk, scan, ran, resuming>>
        /\ stage[c] # "idle" /\ Return(c)
    BY <1>1 DEF Fault, memVars
  <2>2. phase # "down"
    BY <2>1, BusyKey DEF Fresh
  <2>3. \A x \in Body \cup Request : status'[x] = "unused" => status[x] = "unused"
    <3>1. StatusType /\ c[2] \in Body \cup Request
      BY CallFacts DEF TypeOK, StatusType
    <3>2. Answer(c[2], "refused") \/ UNCHANGED status
      BY <1>1 DEF Fault
    <3> QED
      BY <3>1, <3>2, AnswerEffect
  <2> QED
    BY <2>1, <2>2, <2>3, ReturnFresh
<1>2. ASSUME NEW c \in Call, DelMissed(c) PROVE Fresh'
  <2>1. /\ UNCHANGED <<phase, timers, armed, immediate, execs, disk, scan, ran, resuming, spoiled>>
        /\ stage[c] # "idle" /\ Return(c)
    BY <1>2 DEF DelMissed, MayCallBack, memVars
  <2>3. \A x \in Body \cup Request : status'[x] = "unused" => status[x] = "unused"
    <3>1. StatusType /\ c[2] \in Body \cup Request
      BY CallFacts DEF TypeOK, StatusType
    <3>2. Answer(c[2], "refused") \/ UNCHANGED status
      BY <1>2 DEF DelMissed
    <3> QED
      BY <3>1, <3>2, AnswerEffect
  <2> QED
    BY <2>1, <2>3, ReturnFresh
<1> QED
  BY <1>1, <1>2, PostFresh, UpdateFresh, ResumeFresh, FireFresh, FireLateFresh,
     FinishFresh, CancelFresh, ApplyFresh, PutDoneFresh, DelDoneFresh,
     RecoverRowFresh, CrashFresh, QuietStepFresh
  DEF Next, CallBack

(* NoZombieTimer. *)
DelInFlight(id) ==
  \/ \E b \in Body : IdOf[b] = id /\ (~Idle("update", b) \/ ~Idle("done", b))
  \/ \E r \in Request : IdOf[r] = id /\ ~Idle("cancel", r)

(* A del in flight, told of the calls a body or a request owns. *)
LEMMA DelFacts ==
  ASSUME NEW id \in Id
  PROVE  DelInFlight(id) <=> \E c \in InFlight(id) : Kind(c) \in DelKinds
<1>1. ASSUME NEW c \in InFlight(id), Kind(c) \in DelKinds PROVE DelInFlight(id)
  <2>1. c \in Call /\ IdOf[c[2]] = id /\ ~Idle(Kind(c), c[2])
    BY CallFacts DEF InFlight, Key, Idle
  <2> QED
    BY <1>1, <2>1, CallFacts DEF DelInFlight, DelKinds
<1>2. \A b \in Body, kind \in {"update", "done"} :
        IdOf[b] = id /\ ~Idle(kind, b) =>
          <<kind, b>> \in InFlight(id) /\ Kind(<<kind, b>>) \in DelKinds
  BY CallFacts DEF InFlight, Key, Idle, Kind, DelKinds
<1>3. \A r \in Request : IdOf[r] = id /\ ~Idle("cancel", r) =>
          <<"cancel", r>> \in InFlight(id) /\ Kind(<<"cancel", r>>) \in DelKinds
  BY CallFacts DEF InFlight, Key, Idle, Kind, DelKinds
<1> QED
  BY <1>1, <1>2, <1>3 DEF DelInFlight

NoZombie ==
  \A id \in Id : timers[id] # None =>
    timers[id] \in armed \cup execs \/ DelInFlight(id) \/ id \in spoiled

(* NoZombie is NoZombieTimer, told with DelInFlight. *)
LEMMA NoZombieFact == NoZombie <=> NoZombieTimer
BY DelFacts DEF NoZombie, NoZombieTimer

(* No step leaves a record nothing will remove. *)
LEMMA NoZombieStep ==
  TypeOK /\ Filed /\ Fresh /\ NoZombie /\ [Next]_vars => NoZombie'
<1> SUFFICES ASSUME TypeOK, Filed, Fresh, NoZombie, [Next]_vars PROVE NoZombie'
  OBVIOUS
<1>a. CallTypes /\ StatusType
  BY DEF TypeOK, CallTypes, StatusType
<1> USE <1>a, CallFacts
<1>1. ASSUME NEW b \in Body, Post(b) PROVE NoZombie'
  <2>1. Refused(b) \/ RunsLate(b) \/ Stores("put", b)
    BY <1>1, CreateEffect DEF Post, PutKinds
  <2> QED
    BY <1>1, <2>1 DEF Post, NoZombie, DelInFlight, Refused, RunsLate, Stores, SameCalls
<1>2. ASSUME NEW b \in Body, Update(b) PROVE NoZombie'
  <2>1. SameCalls("update", b) /\ ~Idle("update", b)'
    BY <1>2, IssueCalls DEF Update, Remove
  <2> QED
    BY <1>2, <2>1 DEF Update, Remove, memVars, NoZombie, DelInFlight, SameCalls
<1>3. ASSUME NEW b \in Body, Resume(b) PROVE NoZombie'
  <2>1. Refused(b) \/ RunsLate(b) \/ Stores("put", b)
    BY <1>3, CreateEffect DEF Resume, PutKinds
  <2> QED
    BY <1>3, <2>1 DEF Resume, NoZombie, DelInFlight, Refused, RunsLate, Stores, SameCalls
<1>x. ASSUME NEW b \in Body, NEW waiting, Exec(b, waiting), armed \ {b} \subseteq waiting,
             UNCHANGED <<timers, spoiled>>
      PROVE  NoZombie'
  <2>1. CASE execs' = execs \cup {b} /\ armed' = waiting /\ UNCHANGED callVars
    <3>1. \A k, x : SameCalls(k, x)
      BY <2>1, SameStage DEF callVars
    <3> QED
      BY <1>x, <2>1, <3>1 DEF NoZombie, DelInFlight, SameCalls
  <2>2. CASE armed' = waiting \ {timers[IdOf[b]]} /\ Issue(<<"done", b>>) /\ UNCHANGED execs
    <3>1. SameCalls("done", b) /\ ~Idle("done", b)'
      BY <2>2, IssueCalls
    <3>2. \A id \in Id : DelInFlight(id) => DelInFlight(id)'
      BY <3>1 DEF DelInFlight, SameCalls
    <3>3. DelInFlight(IdOf[b])'
      BY <3>1 DEF DelInFlight
    <3>4. \A id \in Id : (id # IdOf[b] /\ timers[id] # None) =>
             timers[id] # timers[IdOf[b]] /\ timers[id] # b
      BY TimerStoreAssumption DEF Filed, TypeOK
    <3> QED
      BY <1>x, <2>2, <3>2, <3>3, <3>4 DEF NoZombie
  <2> QED
    BY <1>x, <2>1, <2>2 DEF Exec
<1>4. ASSUME NEW b \in Body, Fire(b) PROVE NoZombie'
  BY <1>4, <1>x DEF Fire
<1>5. ASSUME NEW b \in Body, FireLate(b) PROVE NoZombie'
  BY <1>5, <1>x DEF FireLate
<1>6. ASSUME NEW b \in Body, Finish(b) PROVE NoZombie'
  <2>1. SameCalls("done", b) /\ ~Idle("done", b)'
    BY <1>6, IssueCalls DEF Finish
  <2>2. \A id \in Id : DelInFlight(id) => DelInFlight(id)'
    BY <2>1 DEF DelInFlight, SameCalls
  <2>3. DelInFlight(IdOf[b])'
    BY <2>1 DEF DelInFlight
  <2>4. \A id \in Id : timers[id] = b => id = IdOf[b]
    BY DEF Filed
  <2> QED
    BY <1>6, <2>2, <2>3, <2>4 DEF Finish, NoZombie
<1>7. ASSUME NEW r \in Request, Cancel(r) PROVE NoZombie'
  <2>1. SameCalls("cancel", r) /\ ~Idle("cancel", r)'
    BY <1>7, IssueCalls DEF Cancel, Remove
  <2> QED
    BY <1>7, <2>1 DEF Cancel, Remove, memVars, NoZombie, DelInFlight, SameCalls
<1>8. ASSUME NEW c \in Call, Apply(c) PROVE NoZombie'
  <2>1. UNCHANGED <<timers, armed, execs, spoiled>> /\ \A k, x : SameCalls(k, x)
    BY <1>8, ApplyCalls DEF Apply, memVars
  <2>2. \A id \in Id : DelInFlight(id) => DelInFlight(id)'
    BY <2>1 DEF DelInFlight, SameCalls
  <2> QED
    BY <2>1, <2>2 DEF NoZombie
<1>y. ASSUME NEW c \in Call, Return(c)
      PROVE  \A id \in Id : id # Key(c) \/ Kind(c) \in PutKinds =>
               (DelInFlight(id) => DelInFlight(id)')
  <2>1. SameCalls(Kind(c), c[2])
    BY <1>y, ReturnCalls
  <2> QED
    BY <2>1 DEF DelInFlight, SameCalls, Key, PutKinds
<1>9. ASSUME NEW c \in Call, Fault(c) PROVE NoZombie'
  BY <1>9, <1>y DEF Fault, memVars, NoZombie, PutKinds, DelKinds
<1>10. ASSUME NEW c \in Call, PutDone(c) PROVE NoZombie'
  BY <1>10, <1>y DEF PutDone, NoZombie, TypeOK
<1>11. ASSUME NEW c \in Call, DelMissed(c) PROVE NoZombie'
  BY <1>11, <1>y DEF DelMissed, memVars, NoZombie
<1>12. ASSUME NEW c \in Call, DelDone(c) PROVE NoZombie'
  <2>1. \A id \in Id : timers[id] \in Body \cup {None}
    BY DEF TypeOK
  <2>2. \A id \in Id : timers[id] # None => IdOf[timers[id]] = id
    BY <2>1 DEF Filed
  <2>3. \A id \in Id : (id # Key(c) /\ timers[id] # None) => timers[id] # timers[Key(c)]
    BY <2>2
  <2>4. Return(c) /\ armed' = armed \ {timers[Key(c)]} /\ UNCHANGED <<execs, spoiled>>
    BY <1>12 DEF DelDone
  <2>5. timers'[Key(c)] = None /\ \A id \in Id : id # Key(c) => timers'[id] = timers[id]
    BY <1>12 DEF DelDone, TypeOK
  <2>6. \A id \in Id : id # Key(c) => (DelInFlight(id) => DelInFlight(id)')
    BY <1>y, <2>4
  <2> QED
    BY <2>3, <2>4, <2>5, <2>6 DEF NoZombie
<1>13. ASSUME NEW id \in Id, RecoverRow(id) PROVE NoZombie'
  <2>1. disk[id] \in Body
    BY <1>13 DEF RecoverRow, Fresh, ScanIsQuiet, TypeOK
  <2>2. Refused(disk[id]) \/ RunsLate(disk[id]) \/ Stores("reput", disk[id])
    BY <1>13, <2>1, CreateEffect DEF RecoverRow, PutKinds
  <2> QED
    BY <1>13, <2>2 DEF RecoverRow, NoZombie, DelInFlight, Refused, RunsLate, Stores, SameCalls
<1>14. CASE Crash
  BY <1>14 DEF Crash, NoZombie
<1>15. CASE Restart \/ Recovered \/ UNCHANGED vars
  <2>1. UNCHANGED <<timers, armed, execs, spoiled, stage>>
    BY <1>15 DEF Restart, Recovered, vars, memVars, callVars
  <2>2. \A k, x : SameCalls(k, x)
    BY <2>1, SameStage
  <2>3. \A id \in Id : DelInFlight(id) => DelInFlight(id)'
    BY <2>2 DEF DelInFlight, SameCalls
  <2> QED
    BY <2>1, <2>3 DEF NoZombie
<1> QED
  BY <1>1, <1>2, <1>3, <1>4, <1>5, <1>6, <1>7, <1>8, <1>9, <1>10, <1>11, <1>12,
     <1>13, <1>14, <1>15
  DEF Next, CallBack

(* The invariants hold of a node that has just started. *)
LEMMA InitLife == Init => TypeOK /\ Filed /\ Fresh /\ NoZombie
<1> SUFFICES ASSUME Init PROVE TypeOK /\ Filed /\ Fresh /\ NoZombie
  OBVIOUS
<1>1. TypeOK
  BY DEF Init, TypeOK, Statuses
<1>2. Filed /\ NoZombie
  BY TimerStoreAssumption DEF Init, Filed, NoZombie
<1>3. /\ \A b \in Body : NoCall(b) /\ NoPut(b) /\ Idle("update", b) /\ Idle("done", b)
      /\ \A r \in Request : Idle("cancel", r)
  BY CallFacts DEF Init, NoCall, NoPut, Idle
<1>4. \A b \in Body : IdOf[b] \in Id /\ b # None
  BY TimerStoreAssumption
<1>5. UnusedIsUntouched /\ PutIsFresh /\ UpdateIsFresh /\ RunOnce /\ MappedIsStored
  BY <1>3, <1>4 DEF Init, UnusedIsUntouched, PutIsFresh, UpdateIsFresh, RunOnce, MappedIsStored, Waiting
<1>6. ScanIsQuiet
  BY TimerStoreAssumption DEF Init, ScanIsQuiet
<1> QED
  BY <1>1, <1>2, <1>5, <1>6 DEF Fresh

TypedFresh == TypeOK /\ Filed /\ Fresh /\ NoZombie

(* The inductive invariant of a node, whatever its backend: types, where   *)
(* records are filed, what is fresh, and no zombie records.                *)
THEOREM AlwaysFresh == Spec => []TypedFresh
<1>1. Init => TypedFresh
  BY InitLife DEF TypedFresh
<1>2. TypedFresh /\ [Next]_vars => TypedFresh'
  BY TypeStep, FiledStep, FreshStep, NoZombieStep DEF TypedFresh, Fresh
<1> QED
  BY <1>1, <1>2, PTL DEF Spec

(* TypeOK: the types of the state of timer.js are an invariant. *)
THEOREM TypeCorrect == Spec => []TypeOK
BY AlwaysFresh, PTL DEF TypedFresh

(* NoZombieTimer: every record of the Map will be removed by a timeout, an *)
(* execution or a del on its way, or the store failed to delete it.        *)
THEOREM NoRecordIsAZombie == Spec => []NoZombieTimer
BY AlwaysFresh, NoZombieFact, PTL DEF TypedFresh

(* AtMostOncePerSession: however create, kRemove, timeouts and recovery    *)
(* interleave, a body is executed at most once between two crashes.        *)
THEOREM RunsAtMostOnce == Spec => AtMostOncePerSession
<1>1. TypedFresh /\ [Next]_vars =>
        [\A b \in Body : Fire(b) \/ FireLate(b) => b \notin ran]_vars
  BY DEF TypedFresh, Fresh, RunOnce, Fire, FireLate
<1> QED
  BY <1>1, AlwaysFresh, PTL DEF AtMostOncePerSession, Spec
----------------------------------------------------------------------------
(* Over a backend that completes the calls of a key in order: Map and     *)
(* store agree, and a cancelled timer never runs.                          *)

(* The ways a step may move the storage calls. *)
Issues(c) == Issue(c) /\ stage[c] = "idle"
Returns(c) == Return(c) /\ stage[c] # "idle" /\ (Ordered => ahead[c] = {})
Applies(c) == MayApply(c) /\ stage' = [stage EXCEPT ![c] = "applied"] /\ UNCHANGED ahead
Forgets == /\ stage' = [c \in Call |-> "idle"] /\ ahead' = [c \in Call |-> {}]

(* Issuing, applying, calling back and forgetting calls keep the calls of  *)
(* a key totally ordered.                                                  *)
LEMMA CallOrderStep ==
  ASSUME TypeOK, CallOrder,
         \/ \E c \in Call : Issues(c) \/ Returns(c) \/ Applies(c)
         \/ Forgets \/ UNCHANGED callVars
  PROVE  CallOrder'
<1> USE DEF TypeOK
<1>1. ASSUME NEW c \in Call, Issues(c) PROVE CallOrder'
  <2>1. /\ stage'[c] = "issued" /\ \A d \in Call : d # c => stage'[d] = stage[d]
        /\ \A d \in Call : d # c => ahead'[d] = ahead[d]
        /\ \A d \in Call : d \in ahead'[c] <=> Key(d) = Key(c) /\ stage[d] # "idle"
        /\ \A d \in Call : c \notin ahead[d] 
        /\ stage[c] = "idle"
    BY <1>1 DEF Issues, Issue, InFlight, CallOrder
  <2> QED
    BY <2>1 DEF CallOrder
<1>2. ASSUME NEW c \in Call, Returns(c) PROVE CallOrder'
  <2>1. /\ stage'[c] = "idle" /\ \A d \in Call : d # c => stage'[d] = stage[d]
        /\ ahead'[c] = {} 
        /\ \A d, e \in Call : d # c => (e \in ahead'[d] <=> e \in ahead[d] /\ e # c)
    BY <1>2 DEF Returns, Return
  <2> QED
    BY <2>1 DEF CallOrder
<1>3. ASSUME NEW c \in Call, Applies(c) PROVE CallOrder'
  <2>1. /\ stage[c] = "issued" /\ stage'[c] = "applied"
        /\ \A d \in Call : d # c => stage'[d] = stage[d]
        /\ ahead' = ahead
        /\ Ordered => \A d \in ahead[c] : stage[d] = "applied"
    BY <1>3 DEF Applies, MayApply
  <2> QED
    BY <2>1 DEF CallOrder
<1>4. CASE Forgets
  BY <1>4 DEF Forgets, CallOrder
<1>5. CASE UNCHANGED callVars
  BY <1>5 DEF callVars, CallOrder, Key
<1> QED
  BY <1>1, <1>2, <1>3, <1>4, <1>5

IssuingStep ==
  \/ \E b \in Body : \/ Post(b) \/ Update(b) \/ Resume(b)
                     \/ Fire(b) \/ FireLate(b) \/ Finish(b)
  \/ \E r \in Request : Cancel(r)
  \/ \E id \in Id : RecoverRow(id)

(* The steps that may issue a call issue at most one, and only an idle     *)
(* one.                                                                    *)
LEMMA IssuingMoves ==
  ASSUME TypeOK, Filed, Fresh, IssuingStep
  PROVE  (\E c \in Call : Issues(c)) \/ UNCHANGED callVars
<1> USE CallFacts
<1>1. ASSUME NEW b \in Body, NEW kind \in PutKinds, NEW late \in BOOLEAN, NoCall(b),
             Create(b, kind, late)
      PROVE  (\E c \in Call : Issues(c)) \/ UNCHANGED callVars
  BY <1>1 DEF Create, Issues, NoCall, NoPut, Idle, PutKinds
<1>2. ASSUME NEW b \in Body, NEW waiting, Idle("done", b), Exec(b, waiting)
      PROVE  (\E c \in Call : Issues(c)) \/ UNCHANGED callVars
  BY <1>2 DEF Exec, Issues, Idle
<1>3. ASSUME NEW b \in Body, Post(b) \/ Resume(b)
      PROVE  (\E c \in Call : Issues(c)) \/ UNCHANGED callVars
  <2>1. NoCall(b)
    BY <1>3 DEF Post, Resume, Fresh, UnusedIsUntouched, UpdateIsFresh
  <2> QED
    BY <1>1, <1>3, <2>1 DEF Post, Resume, PutKinds
<1>4. ASSUME NEW id \in Id, RecoverRow(id)
      PROVE  (\E c \in Call : Issues(c)) \/ UNCHANGED callVars
  <2>1. disk[id] \in Body /\ NoCall(disk[id])
    BY <1>4 DEF RecoverRow, TypeOK, Filed, Fresh, ScanIsQuiet, Quiet
  <2> QED
    BY <1>1, <1>4, <2>1 DEF RecoverRow, PutKinds
<1>5. ASSUME NEW b \in Body, Update(b) PROVE \E c \in Call : Issues(c)
  BY <1>5 DEF Update, Remove, Issues, Idle, Fresh, UnusedIsUntouched, NoCall
<1>6. ASSUME NEW r \in Request, Cancel(r) PROVE \E c \in Call : Issues(c)
  BY <1>6 DEF Cancel, Remove, Issues, Idle, Fresh, UnusedIsUntouched
<1>7. ASSUME NEW b \in Body, Fire(b) \/ FireLate(b) \/ Finish(b)
      PROVE  (\E c \in Call : Issues(c)) \/ UNCHANGED callVars
  <2>1. Idle("done", b)
    BY <1>7 DEF Fire, FireLate, Finish, Fresh, RunOnce
  <2> QED
    BY <1>2, <1>7, <2>1 DEF Fire, FireLate, Finish, Issues, Idle
<1> QED
  BY <1>3, <1>4, <1>5, <1>6, <1>7 DEF IssuingStep

(* Every step moves the storage calls in one of these ways. *)
LEMMA CallsMove ==
  ASSUME TypeOK, Filed, Fresh, [Next]_vars
  PROVE  \/ \E c \in Call : Issues(c) \/ Returns(c) \/ Applies(c)
         \/ Forgets \/ UNCHANGED callVars
<1>1. ASSUME NEW c \in Call, Apply(c) PROVE Applies(c)
  BY <1>1 DEF Apply, Applies
<1>2. ASSUME NEW c \in Call, Fault(c) \/ CallBack(c) PROVE Returns(c)
  BY <1>2 DEF Fault, CallBack, PutDone, DelMissed, DelDone, MayCallBack, Returns
<1>3. ASSUME Crash PROVE Forgets
  BY <1>3 DEF Crash, Forgets
<1>4. ASSUME Restart \/ Recovered \/ UNCHANGED vars PROVE UNCHANGED callVars
  BY <1>4 DEF Restart, Recovered, vars
<1> QED
  BY <1>1, <1>2, <1>3, <1>4, IssuingMoves DEF Next, IssuingStep

(* StoreFollowsCalls, in parts. *)
LastIsStored(id) == \A c \in InFlight(id) : LastApplied(c) => disk[id] = Effect(c)
LastExists(id) == ~NoneApplied(id) => \E c \in InFlight(id) : LastApplied(c)
Settled(id) == NoneApplied(id) => disk[id] = timers[id] \/ LateRow(id)
Known(id) == phase # "down" /\ id \notin scan
Follows(id) == Known(id) => LastIsStored(id) /\ LastExists(id) /\ Settled(id)

(* Follows is StoreFollowsCalls, one id at a time. *)
LEMMA FollowsFact == StoreFollowsCalls <=> \A id \in Id : Follows(id)
BY DEF StoreFollowsCalls, Follows, LastIsStored, LastExists, Settled, Known

(* Nothing about the applied calls of an id changes when a call that is not *)
(* applied is issued or refused.                                            *)
LEMMA IssueLast ==
  ASSUME TypeOK, CallOrder, NEW c \in Call, Issues(c), NEW id \in Id
  PROVE  /\ NoneApplied(id)' <=> NoneApplied(id)
         /\ \A d \in Call : d \in InFlight(id)' /\ LastApplied(d)' <=> d \in InFlight(id) /\ LastApplied(d)
<1> USE DEF TypeOK
<1>1. /\ stage'[c] = "issued" /\ \A d \in Call : d # c => stage'[d] = stage[d]
      /\ \A d \in Call : d # c => ahead'[d] = ahead[d]
      /\ stage[c] = "idle"
  BY DEF Issues, Issue
<1> QED
  BY <1>1 DEF NoneApplied, InFlight, LastApplied, Key

(* A callback in order removes the oldest call: it is the last applied one *)
(* only if no other is applied.                                            *)
LEMMA ReturnLast ==
  ASSUME TypeOK, CallOrder, Ordered, NEW c \in Call, Returns(c), NEW id \in Id
  PROVE  /\ \A d \in Call : d \in InFlight(id)' /\ LastApplied(d)' => d \in InFlight(id) /\ LastApplied(d)
         /\ LastExists(id) => LastExists(id)'
         /\ NoneApplied(id)' => NoneApplied(id) \/ (Key(c) = id /\ LastApplied(c) /\ c \in InFlight(id))
         /\ NoneApplied(id) => NoneApplied(id)'
<1> USE DEF TypeOK
<1>1. /\ stage'[c] = "idle" /\ \A d \in Call : d # c => stage'[d] = stage[d]
      /\ ahead'[c] = {} /\ ahead[c] = {} /\ stage[c] # "idle"
      /\ \A d, e \in Call : d # c => (e \in ahead'[d] <=> e \in ahead[d] /\ e # c)
  BY DEF Returns, Return
<1>2. \A d \in Call : d \in InFlight(id)' <=> d \in InFlight(id) /\ d # c
  BY <1>1 DEF InFlight, Key
<1>3. \A d \in Call : d # c => (LastApplied(d)' <=> LastApplied(d))
  BY <1>1 DEF LastApplied
<1>4. ~LastApplied(c)'
  BY <1>1 DEF LastApplied
<1>5. NoneApplied(id)' => NoneApplied(id) \/ (Key(c) = id /\ LastApplied(c) /\ c \in InFlight(id))
  <2> SUFFICES ASSUME NoneApplied(id)', ~NoneApplied(id)
               PROVE  Key(c) = id /\ LastApplied(c) /\ c \in InFlight(id)
    OBVIOUS
  <2>1. \A d \in InFlight(id) : stage[d] = "applied" => d = c
    BY <1>1, <1>2 DEF NoneApplied, InFlight
  <2>2. c \in InFlight(id) /\ stage[c] = "applied"
    BY <2>1 DEF NoneApplied
  <2>3. \A d \in Call : c \in ahead[d] => d \in InFlight(id)
    BY <2>2 DEF CallOrder, InFlight
  <2> QED
    BY <2>1, <2>2, <2>3, <1>1 DEF LastApplied, InFlight
<1>6. NoneApplied(id) => NoneApplied(id)'
  BY <1>1, <1>2 DEF NoneApplied, InFlight
<1>7. LastExists(id) => LastExists(id)'
  <2> SUFFICES ASSUME ~NoneApplied(id)', LastExists(id)
               PROVE  \E d \in InFlight(id)' : LastApplied(d)'
    BY DEF LastExists
  <2>1. PICK d \in InFlight(id) : LastApplied(d)
    BY <1>6 DEF LastExists
  <2>2. PICK e \in InFlight(id) : e # c /\ stage[e] = "applied"
    BY <1>1, <1>2 DEF NoneApplied, InFlight
  <2>3. d # c
    BY <2>1, <2>2, <1>1 DEF LastApplied, CallOrder, InFlight
  <2> QED
    BY <1>2, <1>3, <2>1, <2>3 DEF InFlight
<1> QED
  BY <1>2, <1>3, <1>4, <1>5, <1>6, <1>7

(* The call applied is now the last applied of its key. *)
LEMMA ApplyLast ==
  ASSUME TypeOK, CallOrder, Ordered, NEW c \in Call, Applies(c), NEW id \in Id
  PROVE  /\ InFlight(id)' = InFlight(id)
         /\ Key(c) = id => /\ c \in InFlight(id) /\ LastApplied(c)' /\ ~NoneApplied(id)'
                           /\ \A d \in InFlight(id) : LastApplied(d)' => d = c
         /\ Key(c) # id => /\ NoneApplied(id)' <=> NoneApplied(id)
                           /\ \A d \in InFlight(id) : LastApplied(d)' <=> LastApplied(d)
<1> USE DEF TypeOK
<1>1. /\ stage[c] = "issued" /\ stage'[c] = "applied"
      /\ \A d \in Call : d # c => stage'[d] = stage[d]
      /\ ahead' = ahead
      /\ \A d \in ahead[c] : stage[d] = "applied"
  BY DEF Applies, MayApply
<1>2. InFlight(id)' = InFlight(id)
  BY <1>1 DEF InFlight, Key
<1>3. \A d \in Call : c \in ahead[d] => stage[d] # "applied" /\ d # c
  BY <1>1 DEF CallOrder
<1>4. LastApplied(c)'
  BY <1>1, <1>3 DEF LastApplied
<1>5. ASSUME Key(c) = id
      PROVE  /\ c \in InFlight(id) /\ ~NoneApplied(id)'
             /\ \A d \in InFlight(id) : LastApplied(d)' => d = c
  <2>1. c \in InFlight(id) /\ ~NoneApplied(id)'
    BY <1>1, <1>2, <1>5 DEF InFlight, NoneApplied
  <2>2. ASSUME NEW d \in InFlight(id), LastApplied(d)', d # c PROVE FALSE
    <3>1. d \in Call /\ Key(d) = Key(c) /\ stage[d] = "applied" /\ d \notin ahead[c]
      BY <1>1, <1>5, <2>2 DEF InFlight, LastApplied
    <3> QED
      BY <1>1, <1>3, <2>2, <3>1 DEF CallOrder
  <2> QED
    BY <2>1, <2>2
<1>6. ASSUME Key(c) # id
      PROVE  /\ NoneApplied(id)' <=> NoneApplied(id)
             /\ \A d \in InFlight(id) : LastApplied(d)' <=> LastApplied(d)
  <2>1. \A d \in InFlight(id) : d # c /\ d \notin ahead[c]
    BY <1>6 DEF InFlight, CallOrder
  <2> QED
    BY <1>1, <1>2, <2>1 DEF NoneApplied, LastApplied, InFlight
<1> QED
  BY <1>2, <1>4, <1>5, <1>6

(* Late rows are rows whose execution, or whose del, is still to come. *)
Late(id) ==
  \/ disk[id] \in immediate \cup execs \/ id \in spoiled
  \/ \E b \in Body : IdOf[b] = id /\ (~Idle("done", b) \/ ~Idle("reput", b))

(* Late is LateRow, told of the calls a body owns. *)
LEMMA LateFact == \A id \in Id : LateRow(id) <=> timers[id] = None /\ Late(id)
<1> SUFFICES ASSUME NEW id \in Id PROVE LateRow(id) <=> timers[id] = None /\ Late(id)
  OBVIOUS
<1>1. ASSUME NEW c \in InFlight(id), Kind(c) \in {"done", "reput"}
      PROVE  \E b \in Body : IdOf[b] = id /\ (~Idle("done", b) \/ ~Idle("reput", b))
  <2>1. c \in Call /\ IdOf[c[2]] = id /\ ~Idle(Kind(c), c[2]) /\ c[2] \in Body
    BY <1>1, CallFacts DEF InFlight, Key, Idle
  <2> QED
    BY <1>1, <2>1
<1>2. \A b \in Body, kind \in {"done", "reput"} : IdOf[b] = id /\ ~Idle(kind, b) =>
        <<kind, b>> \in InFlight(id) /\ Kind(<<kind, b>>) = kind
  BY CallFacts DEF InFlight, Key, Idle, Kind
<1> QED
  BY <1>1, <1>2 DEF LateRow, Late

(* The same in the next state. *)
LEMMA LateFactNext == (\A id \in Id : LateRow(id) <=> timers[id] = None /\ Late(id))'
BY LateFact, PTL

(* A step that only issues calls, of an id the recovery has passed. *)
LEMMA IssueFollows ==
  ASSUME TypeOK, CallOrder, NEW id \in Id, Follows(id), Known(id),
         (\E c \in Call : Issues(c)) \/ UNCHANGED callVars,
         UNCHANGED <<disk, timers>>, Late(id) => Late(id)'
  PROVE  Follows(id)'
<1>1. /\ NoneApplied(id)' <=> NoneApplied(id)
      /\ \A d \in Call : d \in InFlight(id)' /\ LastApplied(d)' <=> d \in InFlight(id) /\ LastApplied(d)
  BY IssueLast DEF callVars, NoneApplied, InFlight, LastApplied, Key
<1>2. \A d : Effect(d)' = Effect(d)
  BY DEF Effect, Kind
<1>3. InFlight(id) \subseteq Call /\ InFlight(id)' \subseteq Call
  BY DEF InFlight
<1>4. LastIsStored(id)' /\ LastExists(id)'
  BY <1>1, <1>2, <1>3 DEF Follows, LastIsStored, LastExists
<1>5. Settled(id)'
  BY <1>1, LateFact, LateFactNext DEF Follows, Settled
<1> QED
  BY <1>4, <1>5 DEF Follows

(* A callback in order that leaves in the Map what its call left in the    *)
(* store keeps Follows.                                                    *)
LEMMA ReturnFollows ==
  ASSUME TypeOK, CallOrder, Ordered, NEW id \in Id, Follows(id), Known(id),
         NEW c \in Call, Returns(c), UNCHANGED disk,
         Key(c) # id => timers'[id] = timers[id],
         Key(c) = id /\ stage[c] = "applied" => timers'[id] = Effect(c),
         stage[c] = "issued" => timers'[id] = timers[id],
         NoneApplied(id) /\ timers[id] = None /\ Late(id) => Late(id)'
  PROVE  Follows(id)'
<1>1. \A d : Effect(d)' = Effect(d)
  BY DEF Effect, Kind
<1>2. InFlight(id) \subseteq Call /\ InFlight(id)' \subseteq Call
  BY DEF InFlight
<1>3. LastIsStored(id)' /\ LastExists(id)'
  BY <1>1, <1>2, ReturnLast DEF Follows, LastIsStored
<1>4. Settled(id)'
  <2> SUFFICES ASSUME NoneApplied(id)' PROVE disk'[id] = timers'[id] \/ LateRow(id)'
    BY DEF Settled
  <2>1. CASE NoneApplied(id)
    <3>1. disk[id] = timers[id] \/ (timers[id] = None /\ Late(id))
      BY <2>1, LateFact DEF Follows, Settled
    <3>2. timers'[id] = timers[id]
      <4>1. Key(c) = id => stage[c] # "applied"
        BY <2>1 DEF NoneApplied, InFlight, Returns
      <4> QED
        BY <4>1 DEF TypeOK, Returns
    <3> QED
      BY <2>1, <3>1, <3>2, LateFactNext
  <2>2. CASE Key(c) = id /\ LastApplied(c) /\ c \in InFlight(id)
    BY <2>2 DEF Follows, LastIsStored, LastApplied
  <2> QED
    BY <2>1, <2>2, ReturnLast
<1> QED
  BY <1>3, <1>4 DEF Follows

(* The backend applying a call keeps Follows. *)
LEMMA ApplyFollows ==
  ASSUME TypeOK, CallOrder, Ordered, NEW id \in Id, Follows(id), Known(id),
         NEW c \in Call, Apply(c)
  PROVE  Follows(id)'
<1>0. Applies(c)
  BY DEF Apply, Applies
<1>1. \A d : Effect(d)' = Effect(d)
  BY DEF Effect, Kind
<1>2. disk' = [disk EXCEPT ![Key(c)] = Effect(c)]
  BY DEF Apply, Effect
<1>3. CASE Key(c) = id
  BY <1>0, <1>1, <1>2, <1>3, ApplyLast DEF Follows, LastIsStored, LastExists, Settled, TypeOK
<1>4. CASE Key(c) # id
  <2>1. /\ UNCHANGED <<timers, immediate, execs, spoiled>>
        /\ disk'[id] = disk[id] /\ \A k, x : SameCalls(k, x)
    BY <1>2, <1>4, ApplyCalls DEF Apply, memVars, TypeOK, CallTypes
  <2>2. Late(id) => Late(id)'
    BY <2>1 DEF Late, SameCalls
  <2>3. LastIsStored(id)' /\ LastExists(id)'
    BY <1>0, <1>1, <1>4, <2>1, ApplyLast DEF Follows, LastIsStored, LastExists
  <2>4. Settled(id)'
    BY <1>0, <1>4, <2>1, <2>2, LateFact, LateFactNext, ApplyLast DEF Follows, Settled
  <2> QED
    BY <2>3, <2>4 DEF Follows
<1> QED
  BY <1>3, <1>4

(* A body the transport accepts, of an id without a record, is not refused. *)
LEMMA CreateStored ==
  ASSUME CallTypes, NEW b \in Body, NEW kind \in PutKinds, NEW late \in BOOLEAN,
         Create(b, kind, late), b \notin Unroutable, timers[IdOf[b]] = None
  PROVE  RunsLate(b) \/ Stores(kind, b)
<1>1. <<kind, b>> \in Call
  BY CallFacts DEF PutKinds
<1> QED
  BY <1>1, IssueCalls, SameStage DEF Create, RunsLate, Stores, callVars

Sound == TypeOK /\ Filed /\ Fresh /\ CallOrder /\ \A id \in Id : Follows(id)

(* The steps that may issue a call keep Follows. *)
LEMMA IssuingFollows ==
  ASSUME Ordered, Sound, IssuingStep, NEW id \in Id PROVE Follows(id)'
<1> SUFFICES ASSUME Known(id)' PROVE Follows(id)'
  BY DEF Follows
<1>a. /\ CallTypes /\ StatusType /\ TypeOK /\ Filed /\ Fresh /\ CallOrder /\ Follows(id)
      /\ (\E c \in Call : Issues(c)) \/ UNCHANGED callVars
  BY IssuingMoves DEF Sound, TypeOK, CallTypes, StatusType
<1>b. UNCHANGED <<disk, timers, phase, spoiled>>
  BY DEF IssuingStep, Post, Update, Cancel, Remove, Resume, Fire, FireLate, Finish, RecoverRow, memVars
<1>c. ASSUME Known(id), Late(id) => Late(id)' PROVE Follows(id)'
  BY <1>a, <1>b, <1>c, IssueFollows
<1> USE <1>a, CallFacts
<1>1. ASSUME NEW b \in Body, Post(b) \/ Resume(b) PROVE Follows(id)'
  <2>1. Refused(b) \/ RunsLate(b) \/ Stores("put", b)
    BY <1>1, CreateEffect DEF Post, Resume, PutKinds
  <2>2. Known(id) /\ UNCHANGED <<disk, execs, spoiled>>
    BY <1>1 DEF Post, Resume, Known
  <2>3. Late(id) => Late(id)'
    BY <2>1, <2>2 DEF Late, Refused, RunsLate, Stores, SameCalls
  <2> QED
    BY <2>2, <2>3, <1>c
<1>2. ASSUME NEW b \in Body, Update(b) PROVE Follows(id)'
  <2>1. SameCalls("update", b)
    BY <1>2, IssueCalls DEF Update, Remove
  <2>2. Known(id) /\ UNCHANGED <<disk, execs, immediate, spoiled>>
    BY <1>2 DEF Update, Remove, memVars, Known
  <2> QED
    BY <2>1, <2>2, <1>c DEF Late, SameCalls
<1>3. ASSUME NEW r \in Request, Cancel(r) PROVE Follows(id)'
  <2>1. SameCalls("cancel", r)
    BY <1>3, IssueCalls DEF Cancel, Remove
  <2>2. Known(id) /\ UNCHANGED <<disk, execs, immediate, spoiled>>
    BY <1>3 DEF Cancel, Remove, memVars, Known
  <2> QED
    BY <2>1, <2>2, <1>c DEF Late, SameCalls
<1>4. ASSUME NEW b \in Body, Fire(b) \/ FireLate(b) \/ Finish(b) PROVE Follows(id)'
  <2>1. /\ Known(id) /\ UNCHANGED <<disk, spoiled>>
        /\ immediate \ {b} \subseteq immediate' /\ execs \ {b} \subseteq execs'
        /\ b \in immediate \cup execs => (b \in execs' /\ UNCHANGED callVars) \/ Issue(<<"done", b>>)
        /\ b \notin immediate \cup execs => UNCHANGED callVars \/ Issue(<<"done", b>>)
    BY <1>4 DEF Fire, FireLate, Finish, Exec, Known
  <2>2. CASE UNCHANGED callVars
    <3>1. \A k, x : SameCalls(k, x)
      BY <2>2, SameStage DEF callVars
    <3>3. b \in immediate \cup execs => b \in execs' \/ ~Idle("done", b)'
      BY <2>1, IssueCalls
    <3>4. disk[id] = b => IdOf[b] = id
      BY DEF Filed
    <3>5. Late(id) => Late(id)'
      BY <2>1, <3>1, <3>3, <3>4 DEF Late, SameCalls
    <3> QED
      BY <2>1, <3>5, <1>c
  <2>3. CASE Issue(<<"done", b>>)
    <3>1. SameCalls("done", b) /\ ~Idle("done", b)'
      BY <2>3, IssueCalls
    <3>2. disk[id] = b => IdOf[b] = id
      BY DEF Filed
    <3> QED
      BY <2>1, <3>1, <3>2, <1>c DEF Late, SameCalls
  <2> QED
    BY <2>1, <2>2, <2>3
<1>5. ASSUME NEW i \in Id, RecoverRow(i) PROVE Follows(id)'
  <2>1. /\ disk[i] \in Body /\ IdOf[disk[i]] = i /\ disk[i] \notin Unroutable
        /\ timers[i] = None /\ Quiet(i) /\ phase = "recovering"
        /\ UNCHANGED <<disk, execs, spoiled, timers, phase>> /\ scan' = scan \ {i}
    BY <1>5 DEF RecoverRow, TypeOK, Filed, Fresh, ScanIsQuiet
  <2>2. \/ Refused(disk[i])
        \/ RunsLate(disk[i]) \/ Stores("reput", disk[i])
    BY <1>5, <2>1, CreateEffect DEF RecoverRow, PutKinds
  <2>3. CASE id # i
    <3>1. Known(id)
      BY <2>1, <2>3 DEF Known
    <3> QED
      BY <2>1, <2>2, <3>1, <1>c DEF Late, Refused, RunsLate, Stores, SameCalls
  <2>4. CASE id = i
    <3>1. RunsLate(disk[i]) \/ Stores("reput", disk[i])
      BY <1>5, <2>1, CreateStored DEF RecoverRow, PutKinds
    <3>2. Late(id)' /\ timers'[id] = None
      BY <2>1, <2>4, <3>1 DEF Late, RunsLate, Stores
    <3>3. \A x \in Body, kind \in BodyKinds : IdOf[x] = id => Idle(kind, x)
      BY <2>1, <2>4 DEF Quiet, NoCall, NoPut, BodyKinds, PutKinds
    <3>4. NoneApplied(id)
      BY <2>1, <2>4, QuietIdle, <3>3 DEF NoneApplied, Quiet
    <3>5. InFlight(id) = {}
      BY <2>1, <2>4, QuietIdle, <3>3 DEF Quiet
    <3>6. \A d \in Call : ~(d \in InFlight(id)' /\ LastApplied(d)')
      BY <3>5, IssueLast DEF callVars, NoneApplied, InFlight, LastApplied, Key
    <3>7. NoneApplied(id)'
      BY <3>4, IssueLast DEF callVars, NoneApplied, InFlight, LastApplied, Key
    <3> QED
      BY <3>2, <3>6, <3>7, LateFactNext DEF Follows, LastIsStored, LastExists, Settled, InFlight
  <2> QED
    BY <2>3, <2>4
<1> QED
  BY <1>1, <1>2, <1>3, <1>4, <1>5 DEF IssuingStep

(* Follows is kept by every step. *)
LEMMA FollowsStep ==
  ASSUME Ordered, Sound, [Next]_vars, NEW id \in Id PROVE Follows(id)'
<1> SUFFICES ASSUME Known(id)' PROVE Follows(id)'
  BY DEF Follows
<1>a. CallTypes /\ StatusType /\ TypeOK /\ Filed /\ Fresh /\ CallOrder /\ Follows(id)
  BY DEF Sound, TypeOK, CallTypes, StatusType
<1> USE <1>a, CallFacts
<1>1. ASSUME NEW c \in Call, Apply(c) PROVE Follows(id)'
  <2>1. Known(id)
    BY <1>1 DEF Apply, Known
  <2> QED
    BY <1>1, <2>1, ApplyFollows
<1>2. ASSUME NEW c \in Call, Fault(c) PROVE Follows(id)'
  <2>1. Known(id) /\ Returns(c) /\ UNCHANGED <<disk, timers, execs, immediate>> /\ stage[c] = "issued"
    BY <1>2 DEF Fault, Returns, Known, memVars
  <2>2. SameCalls(Kind(c), c[2])
    BY <2>1, ReturnCalls DEF Returns
  <2>3. Late(id) => Late(id)'
    <3>1. CASE Kind(c) \in {"done", "reput"}
      <4>1. spoiled' = spoiled \cup {Key(c)}
        BY <1>2, <3>1 DEF Fault
      <4> QED
        BY <2>1, <2>2, <3>1, <4>1 DEF Late, SameCalls, Key
    <3>2. CASE Kind(c) \notin {"done", "reput"}
      <4>1. spoiled \subseteq spoiled'
        BY <1>2 DEF Fault
      <4> QED
        BY <2>1, <2>2, <3>2, <4>1 DEF Late, SameCalls
    <3> QED
      BY <3>1, <3>2
  <2> QED
    BY <2>1, <2>3, ReturnFollows
<1>3. ASSUME NEW c \in Call, PutDone(c) PROVE Follows(id)'
  <2>1. Known(id) /\ Returns(c) /\ UNCHANGED <<disk, execs, immediate, spoiled>> /\ stage[c] = "applied"
    BY <1>3 DEF PutDone, MayCallBack, Returns, Known
  <2>2. /\ Key(c) # id => timers'[id] = timers[id]
        /\ Key(c) = id => timers'[id] = Effect(c)
    BY <1>3 DEF PutDone, Effect, TypeOK
  <2>3. NoneApplied(id) /\ timers[id] = None /\ Late(id) => Late(id)'
    <3>1. SameCalls(Kind(c), c[2])
      BY <2>1, ReturnCalls DEF Returns
    <3>2. NoneApplied(id) => Key(c) # id
      BY <2>1 DEF NoneApplied, InFlight
    <3> QED
      BY <2>1, <3>1, <3>2 DEF Late, SameCalls, Key
  <2> QED
    BY <2>1, <2>2, <2>3, ReturnFollows
<1>4. ASSUME NEW c \in Call, DelMissed(c) \/ DelDone(c) PROVE Follows(id)'
  <2>1. Known(id) /\ Returns(c) /\ UNCHANGED <<disk, execs, immediate, spoiled>> /\ stage[c] = "applied"
    BY <1>4 DEF DelMissed, DelDone, MayCallBack, Returns, Known, memVars
  <2>2. /\ Key(c) # id => timers'[id] = timers[id]
        /\ Key(c) = id => timers'[id] = Effect(c)
    BY <1>4 DEF DelMissed, DelDone, Effect, TypeOK, PutKinds, DelKinds, memVars
  <2>3. NoneApplied(id) /\ timers[id] = None /\ Late(id) => Late(id)'
    <3>1. SameCalls(Kind(c), c[2])
      BY <2>1, ReturnCalls DEF Returns
    <3>2. NoneApplied(id) => Key(c) # id
      BY <2>1 DEF NoneApplied, InFlight
    <3> QED
      BY <2>1, <3>1, <3>2 DEF Late, SameCalls, Key
  <2> QED
    BY <2>1, <2>2, <2>3, ReturnFollows
<1>5. CASE Crash
  BY <1>5 DEF Crash, Known
<1>6. CASE Restart
  <2>1. Quiet(id) /\ timers[id] = None /\ disk[id] = None
    BY <1>6 DEF Restart, Known, Fresh, ScanIsQuiet
  <2>2. InFlight(id) = {}
    BY <2>1, QuietIdle DEF Quiet, NoCall, NoPut, BodyKinds, PutKinds
  <2>3. InFlight(id)' = {} /\ UNCHANGED <<disk, timers>>
    BY <1>6, <2>2 DEF Restart, callVars, memVars, InFlight, Key
  <2> QED
    BY <2>1, <2>3 DEF Follows, LastIsStored, LastExists, Settled, NoneApplied
<1>7. CASE Recovered \/ UNCHANGED vars
  <2>1. UNCHANGED <<disk, timers, execs, immediate, spoiled, callVars, stage>> /\ Known(id)
    BY <1>7 DEF Recovered, vars, memVars, callVars, Known
  <2>2. Late(id) => Late(id)'
    BY <2>1, SameStage DEF Late, SameCalls
  <2> QED
    BY <2>1, <2>2, IssueFollows
<1> QED
  BY <1>1, <1>2, <1>3, <1>4, <1>5, <1>6, <1>7, IssuingFollows DEF Next, CallBack, IssuingStep

Gone(b) ==
  /\ b \notin Waiting /\ NoPut(b) /\ Idle("update", b)
  /\ disk[IdOf[b]] # b /\ timers[IdOf[b]] # b /\ status[b] # "unused"

(* Gone is RemovedIsGone, one body at a time. *)
LEMMA GoneFact == RemovedIsGone <=> \A b \in Body : removedBy[b] # None => Gone(b)
BY DEF RemovedIsGone, Gone

(* A record that an ordered del takes out of the Map has left the store. *)
LEMMA RowIsGone ==
  ASSUME Ordered, Sound, NEW c \in Call, DelDone(c)
  PROVE  disk[Key(c)] # timers[Key(c)]
<1> DEFINE id == Key(c)
           b == timers[id]
<1>1. id \in Id /\ b \in Body /\ IdOf[b] = id /\ c \in InFlight(id) /\ stage[c] = "applied"
  BY CallFacts DEF DelDone, MayCallBack, Sound, TypeOK, Filed, InFlight
<1>2. Follows(id) /\ Known(id) /\ NoPut(b)
  BY <1>1, BusyKey DEF Sound, Fresh, PutIsFresh, Known
<1>3. PICK d \in InFlight(id) : LastApplied(d)
  BY <1>1, <1>2 DEF Follows, LastExists, NoneApplied
<1>4. disk[id] = Effect(d) /\ d \in Call /\ ~Idle(Kind(d), d[2])
  BY <1>2, <1>3, CallFacts DEF Follows, LastIsStored, InFlight, Idle
<1>5. Effect(d) # b
  BY <1>1, <1>2, <1>4, CallFacts, TimerStoreAssumption DEF Effect, NoPut, PutKinds
<1> QED
  BY <1>4, <1>5

(* A removed body stays gone. *)
LEMMA RemovedStep ==
  ASSUME Ordered, Sound, RemovedIsGone, [Next]_vars PROVE RemovedIsGone'
<1> SUFFICES ASSUME NEW x \in Body, removedBy'[x] # None PROVE Gone(x)'
  BY DEF RemovedIsGone, Gone
<1>a. /\ CallTypes /\ StatusType /\ TypeOK /\ Filed /\ Fresh
      /\ removedBy[x] # None => Gone(x)
  BY DEF Sound, TypeOK, CallTypes, StatusType, RemovedIsGone, Gone
<1> USE <1>a, CallFacts, TimerStoreAssumption
<1>1. ASSUME NEW b \in Body, Post(b) PROVE Gone(x)'
  <2>1. Answered(b, "put") /\ (Refused(b) \/ RunsLate(b) \/ Stores("put", b))
    BY <1>1, CreateEffect DEF Post, PutKinds
  <2> QED
    BY <1>1, <2>1 DEF Post, Gone, Waiting, NoPut, Answered, Refused, RunsLate, Stores, SameCalls
<1>2. ASSUME NEW b \in Body, Resume(b) PROVE Gone(x)'
  <2>1. Answered(b, "put") /\ (Refused(b) \/ RunsLate(b) \/ Stores("put", b))
    BY <1>2, CreateEffect DEF Resume, PutKinds
  <2> QED
    BY <1>2, <2>1 DEF Resume, Gone, Waiting, NoPut, Answered, Refused, RunsLate, Stores, SameCalls
<1>3. ASSUME NEW i \in Id, RecoverRow(i) PROVE Gone(x)'
  <2>1. disk[i] \in Body /\ IdOf[disk[i]] = i
    BY <1>3 DEF RecoverRow, TypeOK, Filed, Fresh, ScanIsQuiet
  <2>2. Answered(disk[i], "reput") /\ (Refused(disk[i]) \/ RunsLate(disk[i]) \/ Stores("reput", disk[i]))
    BY <1>3, <2>1, CreateEffect DEF RecoverRow, PutKinds
  <2> QED
    BY <1>3, <2>1, <2>2 DEF RecoverRow, Gone, Waiting, NoPut, Answered, Refused, RunsLate, Stores, SameCalls
<1>4. ASSUME NEW b \in Body, Update(b) PROVE Gone(x)'
  <2>1. SameCalls("update", b)
    BY <1>4, IssueCalls DEF Update, Remove
  <2>2. status'[b] # "unused" /\ \A y \in Body : y # b => status'[y] = status[y]
    BY <1>4, AnswerEffect DEF Update, Remove
  <2> QED
    BY <1>4, <2>1, <2>2 DEF Update, Remove, memVars, Gone, Waiting, NoPut, SameCalls
<1>5. ASSUME NEW r \in Request, Cancel(r) PROVE Gone(x)'
  <2>1. SameCalls("cancel", r) /\ \A y \in Body : y # r => status'[y] = status[y]
    BY <1>5, IssueCalls, AnswerEffect DEF Cancel, Remove
  <2> QED
    BY <1>5, <2>1 DEF Cancel, Remove, memVars, Gone, Waiting, NoPut, SameCalls
<1>6. ASSUME NEW b \in Body, Fire(b) \/ FireLate(b) \/ Finish(b) PROVE Gone(x)'
  <2>1. /\ UNCHANGED <<timers, resuming, disk, status, removedBy>>
        /\ armed' \subseteq armed /\ immediate' \subseteq immediate
        /\ UNCHANGED callVars \/ Issue(<<"done", b>>)
    BY <1>6 DEF Fire, FireLate, Finish, Exec, clientVars
  <2>2. SameCalls("done", b)
    BY <2>1, IssueCalls, SameStage DEF callVars
  <2> QED
    BY <2>1, <2>2 DEF Gone, Waiting, NoPut, SameCalls
<1>7. ASSUME NEW c \in Call, Apply(c) PROVE Gone(x)'
  <2>1. /\ UNCHANGED <<timers, armed, immediate, resuming, status, removedBy>>
        /\ \A k, y : SameCalls(k, y)
    BY <1>7, ApplyCalls DEF Apply, memVars, clientVars
  <2>2. disk'[IdOf[x]] = disk[IdOf[x]] \/ disk'[IdOf[x]] = None \/ (c[2] \in Body /\ ~NoPut(c[2]) /\ disk'[IdOf[x]] = c[2])
    BY <1>7 DEF Apply, MayApply, TypeOK, NoPut, Idle, PutKinds
  <2> QED
    BY <2>1, <2>2 DEF Gone, Waiting, NoPut, SameCalls
<1>8. ASSUME NEW c \in Call, Fault(c) \/ DelMissed(c) PROVE Gone(x)'
  <2>1. /\ UNCHANGED <<timers, armed, immediate, resuming, disk, removedBy>>
        /\ Return(c) /\ stage[c] # "idle"
    BY <1>8 DEF Fault, DelMissed, MayCallBack, memVars
  <2>2. SameCalls(Kind(c), c[2]) /\ Idle(Kind(c), c[2])'
    BY <2>1, ReturnCalls
  <2>3. status' = status \/ Answer(c[2], "refused")
    BY <1>8 DEF Fault, DelMissed
  <2>4. status[x] # "unused" => status'[x] # "unused"
    BY <2>3, AnswerEffect
  <2> QED
    BY <2>1, <2>2, <2>4 DEF Gone, Waiting, NoPut, SameCalls
<1>9. ASSUME NEW c \in Call, PutDone(c) PROVE Gone(x)'
  <2>1. /\ UNCHANGED <<immediate, resuming, disk, removedBy>>
        /\ c[2] \in Body /\ ~NoPut(c[2]) /\ Kind(c) \in PutKinds
        /\ armed' = armed \cup {c[2]} /\ timers' = [timers EXCEPT ![Key(c)] = c[2]]
        /\ Return(c)
    BY <1>9 DEF PutDone, MayCallBack, NoPut, Idle, PutKinds
  <2>2. SameCalls(Kind(c), c[2]) /\ Idle(Kind(c), c[2])'
    BY <2>1, ReturnCalls
  <2>3. status' = status \/ Answer(c[2], "acked")
    BY <1>9 DEF PutDone, AnswerCreate
  <2>4. status[x] # "unused" => status'[x] # "unused"
    BY <2>3, AnswerEffect
  <2>5. x # c[2]
    BY <2>1, <1>9 DEF PutDone, Gone
  <2> QED
    BY <2>1, <2>2, <2>4, <2>5, <1>9 DEF Gone, Waiting, NoPut, SameCalls, TypeOK, PutKinds
<1>10. ASSUME NEW c \in Call, DelDone(c) PROVE Gone(x)'
  <2> DEFINE rec == timers[Key(c)]
  <2>1. /\ UNCHANGED <<immediate, disk>>
        /\ Kind(c) \in DelKinds /\ ~Idle(Kind(c), c[2])
        /\ Return(c) /\ rec \in Body /\ IdOf[rec] = Key(c) /\ Key(c) \in Id
        /\ armed' = armed \ {rec}
        /\ timers'[Key(c)] = None /\ \A id \in Id : id # Key(c) => timers'[id] = timers[id]
        /\ resuming' = IF Kind(c) = "update" THEN resuming \cup {c[2]} ELSE resuming
        /\ \A y \in Body : y # rec => removedBy'[y] = removedBy[y]
    <3>1. /\ UNCHANGED <<immediate, disk>> /\ Return(c) /\ armed' = armed \ {rec}
          /\ Kind(c) \in DelKinds /\ stage[c] = "applied" /\ rec # None
          /\ resuming' = IF Kind(c) = "update" THEN resuming \cup {c[2]} ELSE resuming
          /\ timers' = [timers EXCEPT ![Key(c)] = None]
          /\ removedBy' = [removedBy EXCEPT ![rec] = Kind(c)]
      BY <1>10 DEF DelDone, MayCallBack
    <3>2. /\ timers \in [Id -> Body \cup {None}] /\ Key(c) \in Id
          /\ removedBy \in [Body -> DelKinds \cup {None}]
      BY DEF TypeOK
    <3>3. rec \in Body
      BY <3>1, <3>2
    <3>4. IdOf[rec] = Key(c)
      BY <3>2, <3>3 DEF Filed
    <3>5. ~Idle(Kind(c), c[2])
      BY <3>1 DEF Idle
    <3> HIDE DEF rec
    <3>6. timers'[Key(c)] = None /\ \A id \in Id : id # Key(c) => timers'[id] = timers[id]
      BY <3>1, <3>2
    <3>7. \A y \in Body : y # rec => removedBy'[y] = removedBy[y]
      BY <3>1, <3>2
    <3> QED
      BY <3>1, <3>2, <3>3, <3>4, <3>5, <3>6, <3>7
  <2>2. SameCalls(Kind(c), c[2]) /\ Idle(Kind(c), c[2])'
    BY <2>1, ReturnCalls
  <2>3. disk[Key(c)] # rec
    BY <1>10, RowIsGone
  <2>4. status' = status \/ Answer(c[2], "acked")
    BY <1>10 DEF DelDone
  <2>5. status[x] # "unused" => status'[x] # "unused"
    BY <2>4, AnswerEffect
  <2>6. /\ rec \notin immediate \cup resuming /\ NoPut(rec) /\ Idle("update", rec)
        /\ status[rec] # "unused"
    BY <2>1 DEF Fresh, MappedIsStored, UpdateIsFresh, PutIsFresh, UnusedIsUntouched
  <2> HIDE DEF rec
  <2>7. CASE x = rec
    BY <2>1, <2>2, <2>3, <2>5, <2>6, <2>7 DEF Gone, Waiting, NoPut, SameCalls, DelKinds
  <2>8. CASE x # rec
    BY <2>1, <2>2, <2>5, <2>8 DEF Gone, Waiting, NoPut, SameCalls, DelKinds
  <2> QED
    BY <2>7, <2>8
<1>11. CASE Crash
  <2>1. NoPut(x)' /\ Idle("update", x)'
    BY <1>11 DEF Crash, NoPut, Idle
  <2> QED
    BY <1>11, <2>1 DEF Crash, Gone, Waiting
<1>12. CASE Restart \/ Recovered \/ UNCHANGED vars
  <2>1. UNCHANGED <<timers, armed, immediate, resuming, disk, status, removedBy, stage>>
    BY <1>12 DEF Restart, Recovered, vars, memVars, clientVars, callVars
  <2> QED
    BY <2>1, SameStage DEF Gone, Waiting, NoPut, SameCalls
<1> QED
  BY <1>1, <1>2, <1>3, <1>4, <1>5, <1>6, <1>7, <1>8, <1>9, <1>10, <1>11, <1>12
  DEF Next, CallBack

(* The invariants hold of a node that has just started. *)
LEMMA InitSound == Ordered /\ Init => Sound /\ RemovedIsGone
<1> SUFFICES ASSUME Ordered, Init PROVE Sound /\ RemovedIsGone
  OBVIOUS
<1>1. TypeOK /\ Filed /\ Fresh
  BY InitLife
<1>2. CallOrder
  BY DEF Init, CallOrder
<1>3. \A id \in Id : Follows(id)
  BY DEF Init, Follows, Known, LastIsStored, LastExists, Settled, NoneApplied, InFlight
<1>4. RemovedIsGone
  BY DEF Init, RemovedIsGone
<1> QED
  BY <1>1, <1>2, <1>3, <1>4 DEF Sound

AlwaysSound == Sound /\ RemovedIsGone

(* The inductive invariant of a node with an ordered backend: what the     *)
(* last applied call left in the store is what the callbacks still due     *)
(* leave in the Map, and a removed body is nowhere it could run from.      *)
THEOREM OrderedIsSound == Ordered => (Spec => []AlwaysSound)
<1> SUFFICES ASSUME Ordered PROVE Spec => []AlwaysSound
  OBVIOUS
<1>1. Init => AlwaysSound
  BY InitSound DEF AlwaysSound
<1>2. AlwaysSound /\ [Next]_vars => AlwaysSound'
  <2> SUFFICES ASSUME AlwaysSound, [Next]_vars PROVE AlwaysSound'
    OBVIOUS
  <2>1. TypeOK' /\ Filed' /\ Fresh'
    BY TypeStep, FiledStep, FreshStep DEF AlwaysSound, Sound, Fresh
  <2>2. CallOrder'
    BY CallsMove, CallOrderStep DEF AlwaysSound, Sound
  <2>3. \A id \in Id : Follows(id)'
    BY FollowsStep DEF AlwaysSound
  <2>4. RemovedIsGone'
    BY RemovedStep DEF AlwaysSound
  <2> QED
    BY <2>1, <2>2, <2>3, <2>4 DEF AlwaysSound, Sound
<1> QED
  BY <1>1, <1>2, PTL DEF Spec

(* The calls of a key are totally ordered, whatever the backend.           *)
LEMMA AlwaysCallOrder == Spec => []CallOrder
<1>1. Init => CallOrder
  BY DEF Init, CallOrder
<1>2. TypedFresh /\ CallOrder /\ [Next]_vars => CallOrder'
  BY CallsMove, CallOrderStep DEF TypedFresh
<1> QED
  BY <1>1, <1>2, AlwaysFresh, PTL DEF Spec

(* Inv, the invariant the ordered run checks: all of the above together.   *)
THEOREM InvHolds == Spec => []Inv
<1>1. TypedFresh /\ CallOrder => Life /\ NoZombieTimer
  BY NoZombieFact DEF TypedFresh, Life
<1>2. CASE Ordered
  <2>1. AlwaysSound => StoreFollowsCalls /\ RemovedIsGone
    BY FollowsFact DEF AlwaysSound, Sound
  <2>2. Life /\ NoZombieTimer /\ StoreFollowsCalls /\ RemovedIsGone => Inv
    BY DEF Inv
  <2>3. Spec => []AlwaysSound
    BY <1>2, OrderedIsSound
  <2> QED
    BY <1>1, <2>1, <2>2, <2>3, AlwaysFresh, AlwaysCallOrder, PTL
<1>3. CASE ~Ordered
  <2>1. Life /\ NoZombieTimer => Inv
    BY <1>3 DEF Inv
  <2> QED
    BY <1>1, <2>1, AlwaysFresh, AlwaysCallOrder, PTL
<1> QED
  BY <1>2, <1>3

(* MapAgreesWithStorage: with an ordered backend Map and store agree on    *)
(* every id without a call in flight.                                      *)
THEOREM StorageAgrees == Ordered => (Spec => []MapAgreesWithStorage)
<1> SUFFICES ASSUME Ordered PROVE Spec => []MapAgreesWithStorage
  OBVIOUS
<1>1. AlwaysSound => MapAgreesWithStorage
  <2> SUFFICES ASSUME AlwaysSound, NEW id \in Id, Known(id), InFlight(id) = {}
               PROVE  \/ disk[id] = timers[id]
                      \/ timers[id] = None /\ (disk[id] \in immediate \cup execs \/ id \in spoiled)
    BY DEF MapAgreesWithStorage, Known
  <2> QED
    BY DEF AlwaysSound, Sound, Follows, Settled, NoneApplied, LateRow
<1> QED
  BY <1>1, OrderedIsSound, PTL

(* CancelIsFinal: with an ordered backend a body that a DELETE removed     *)
(* never runs, not even after a crash.                                     *)
THEOREM CancelledNeverRuns == Ordered => (Spec => CancelIsFinal)
<1> SUFFICES ASSUME Ordered PROVE Spec => CancelIsFinal
  OBVIOUS
<1>1. AlwaysSound /\ [Next]_vars =>
        [\A b \in Body : (removedBy[b] = "cancel" /\ b \notin ran) => b \notin ran']_vars
  <2> SUFFICES ASSUME AlwaysSound, [Next]_vars, NEW b \in Body,
                      removedBy[b] = "cancel", b \notin ran
               PROVE  b \notin ran'
    OBVIOUS
  <2>1. b \notin armed \cup immediate
    BY NoneAssumption DEF AlwaysSound, RemovedIsGone, Waiting
  <2>2. ran' \subseteq ran \/ \E x \in armed \cup immediate : ran' = ran \cup {x}
    BY DEF Next, Post, Update, Cancel, Remove, Resume, Fire, FireLate, Finish, Exec, Apply,
           Fault, CallBack, PutDone, DelMissed, DelDone, RecoverRow, Crash, Restart, Recovered, vars
  <2> QED
    BY <2>1, <2>2
<1> QED
  BY <1>1, OrderedIsSound, PTL DEF CancelIsFinal, Spec
=============================================================================
