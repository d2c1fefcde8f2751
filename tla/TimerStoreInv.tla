--------------------------- MODULE TimerStoreInv ----------------------------
(***************************************************************************)
(* The inductive invariants behind the properties of TimerStore.           *)
(***************************************************************************)
EXTENDS TimerStore

(* A body sits in at most one of these places at a time. *)
Waiting == armed \cup immediate \cup resuming
Idle(kind, b) == stage[<<kind, b>>] = "idle"
NoPut(b) == Idle("put", b) /\ Idle("reput", b)
NoCall(b) == NoPut(b) /\ Idle("update", b) /\ Idle("done", b)
Quiet(id) ==
  /\ \A b \in Body : IdOf[b] = id => NoCall(b)
  /\ \A r \in Request : IdOf[r] = id => Idle("cancel", r)

(* Records and rows are filed under the id of their body. *)
Filed ==
  \A id \in Id :
    /\ timers[id] \in Body => IdOf[timers[id]] = id
    /\ disk[id] \in Body => IdOf[disk[id]] = id

(* The calls in flight on a key are totally ordered by `ahead`, and an     *)
(* ordered backend has applied a prefix of them.                           *)
CallOrder ==
  /\ \A c, d \in Call : d \in ahead[c] =>
       /\ stage[c] # "idle" /\ stage[d] # "idle"
       /\ Key(d) = Key(c) /\ c # d /\ c \notin ahead[d]
  /\ \A c, d \in Call :
       (c # d /\ Key(c) = Key(d) /\ stage[c] # "idle" /\ stage[d] # "idle")
         => (c \in ahead[d] \/ d \in ahead[c])
  /\ Ordered => \A c, d \in Call :
       (d \in ahead[c] /\ stage[c] = "applied") => stage[d] = "applied"

(* Nothing has happened yet to a body or a request not yet submitted. *)
UnusedIsUntouched ==
  /\ \A r \in Request : status[r] = "unused" => Idle("cancel", r)
  /\ \A b \in Body : status[b] = "unused" =>
       /\ NoCall(b)
       /\ b \notin Waiting \cup execs \cup ran
       /\ disk[IdOf[b]] # b /\ timers[IdOf[b]] # b

(* A body being stored has not run and waits nowhere else. *)
PutIsFresh ==
  \A b \in Body : ~NoPut(b) =>
    /\ Idle("put", b) \/ Idle("reput", b)
    /\ Idle("update", b) /\ Idle("done", b)
    /\ b \notin Waiting \cup execs \cup ran /\ b \notin Unroutable
    /\ timers[IdOf[b]] # b

(* A body that waits for the timer it replaces has not been created. *)
UpdateIsFresh ==
  \A b \in Body :
    /\ ~Idle("update", b) => /\ b \notin Waiting \cup execs \cup ran
                             /\ NoPut(b) /\ Idle("done", b)
    /\ b \in resuming => /\ b \notin armed \cup immediate \cup execs \cup ran
                         /\ NoCall(b)
    /\ (~Idle("update", b) \/ b \in resuming) =>
         /\ disk[IdOf[b]] # b /\ timers[IdOf[b]] # b

(* A body that is to run has not run since the process started. *)
RunOnce ==
  \A b \in Body :
    /\ b \in armed => b \notin immediate \cup execs \cup ran /\ Idle("done", b)
    /\ b \in immediate => b \notin execs \cup ran /\ Idle("done", b)
    /\ b \in execs => b \in ran /\ Idle("done", b)
    /\ ~Idle("done", b) => b \in ran

(* The Map holds only bodies whose put has been called back. *)
MappedIsStored ==
  \A b \in Body : timers[IdOf[b]] = b => b \notin immediate

(* Rows the recovery has not reached belong to ids nothing happens to. *)
ScanIsQuiet ==
  /\ scan # {} => phase = "recovering"
  /\ \A id \in scan :
       /\ Quiet(id) /\ timers[id] = None /\ disk[id] # None
       /\ \A b \in Body : IdOf[b] = id => b \notin Waiting \cup execs \cup ran
  /\ phase = "down" =>
       /\ armed = {} /\ immediate = {} /\ execs = {} /\ resuming = {} /\ ran = {}
       /\ \A id \in Id : Quiet(id) /\ timers[id] = None
       /\ spoiled = {}
  /\ \A id \in Id : disk[id] \notin Unroutable

Fresh == /\ UnusedIsUntouched /\ PutIsFresh /\ UpdateIsFresh /\ RunOnce
         /\ MappedIsStored /\ ScanIsQuiet

Life == TypeOK /\ Filed /\ CallOrder /\ Fresh

----------------------------------------------------------------------------
(* An ordered backend: what the last applied call of a key left in the     *)
(* store is what the callbacks still due will leave in the Map.            *)

Effect(c) == IF Kind(c) \in PutKinds THEN c[2] ELSE None
LastApplied(c) ==
  /\ stage[c] = "applied"
  /\ \A d \in Call : stage[d] = "applied" => c \notin ahead[d]
NoneApplied(id) == \A c \in InFlight(id) : stage[c] # "applied"

LateRow(id) ==
  /\ timers[id] = None
  /\ \/ disk[id] \in immediate \cup execs
     \/ id \in spoiled
     \/ \E c \in InFlight(id) : Kind(c) \in {"done", "reput"}

StoreFollowsCalls ==
  \A id \in Id : (phase # "down" /\ id \notin scan) =>
    /\ \A c \in InFlight(id) : LastApplied(c) => disk[id] = Effect(c)
    /\ NoneApplied(id) => disk[id] = timers[id] \/ LateRow(id)
    /\ ~NoneApplied(id) => \E c \in InFlight(id) : LastApplied(c)

(* A body that kRemove took out of the Map is nowhere it could run from. *)
RemovedIsGone ==
  \A b \in Body : removedBy[b] # None =>
    /\ b \notin Waiting /\ NoPut(b) /\ Idle("update", b)
    /\ disk[IdOf[b]] # b /\ timers[IdOf[b]] # b /\ status[b] # "unused"

Inv == Life /\ NoZombieTimer /\ (Ordered => StoreFollowsCalls /\ RemovedIsGone)
=============================================================================
