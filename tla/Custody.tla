-------------------------------- MODULE Custody --------------------------------
(* What hand-over promises: each timer has at most one keeper, and passes  *)
(* from keeper to keeper.  A keeper is a node, or a message that has the   *)
(* timer.  The promise is for as long as the cluster is calm.              *)
CONSTANTS Timer

VARIABLES
  keepers,  \* the keepers of each timer, <<kind, name>>
  fresh,    \* timers that nobody has submitted
  calm

Init ==
  /\ keepers = [t \in Timer |-> {}]
  /\ fresh = Timer
  /\ calm = TRUE

(* A client submits the timer. *)
Submitted(t) ==
  /\ t \in fresh \ fresh'
  /\ keepers[t] = {}
  /\ \E k \in keepers'[t] : keepers'[t] = {k}

(* From node to node goes a message. *)
Passed(t) ==
  \E j \in keepers[t] : \E k \in keepers'[t] :
    /\ keepers[t] = {j} /\ keepers'[t] = {k}
    /\ j[1] = "node" => k[1] # "node"

(* The timer was executed, or is lost. *)
Gone(t) == keepers'[t] = {}

(* A node can hand over several timers at once. *)
Move ==
  /\ calm
  /\ \A t \in Timer : Submitted(t) \/ Passed(t) \/ Gone(t) \/ keepers'[t] = keepers[t]

Next ==
  /\ fresh' \subseteq fresh
  /\ Move \/ ~calm'

Spec == Init /\ [][Next]_<<keepers, fresh, calm>>

(* A timer has one keeper. *)
OneKeeper == calm => \A t \in Timer : \A j, k \in keepers[t] : j = k
=============================================================================
