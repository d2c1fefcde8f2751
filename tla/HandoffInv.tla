------------------------------ MODULE HandoffInv ------------------------------
(* What keeps a timer of Handoff in one place: the inductive invariant     *)
(* under OneKeeper, and the hand-over as Custody sees it.                  *)
EXTENDS Handoff

(* No process has died and no request has timed out so far.  Both leave a  *)
(* second copy behind in the code: a crash in the middle of a hand-over    *)
(* keeps the row, and the other node goes on with a request given up.      *)
Calm == crashes + timeouts = 0

----------------------------------------------------------------------------
(* Where a timer is: with a node, in a request or in a question to nats.   *)

Puts(x) == {i \in DOMAIN calls[x] : calls[x][i] = "put"}

(* The node has the timer, is storing it, or would recover it: its row has *)
(* no deletion coming.                                                     *)
Keeps(x) ==
  \/ x \in held
  \/ Puts(x) # {}
  \/ x \in rows \ handed /\ calls[x] = <<>>

(* A request that another node, or this one, has not taken yet. *)
Open(p) == p.at \in {"ready", "sent", "waiting"}

Homes(t) == {n \in Node : Keeps(<<n, t>>)}
Requests(t) == {p \in posts : p.timer = t /\ Open(p)}
Questions(t) == {a \in asks : a.timer = t}

Keepers(t) ==
  {<<"node", n>> : n \in Homes(t)}
  \cup {<<"request", p>> : p \in Requests(t)}
  \cup {<<"question", a>> : a \in Questions(t)}

----------------------------------------------------------------------------
(* The parts of the invariant. *)

OnePlace == \A t \in Timer : \A j, k \in Keepers(t) : j = k

(* A timer nobody has submitted is nowhere. *)
FreshIsNowhere == \A t \in Timer : client[t] = "unused" => Keepers(t) = {}

(* A node stores a timer once, and not one that it has. *)
StoredOnce ==
  \A x \in At : /\ \A i, j \in Puts(x) : i = j
                /\ x \in held => Puts(x) = {}

ArmedIsHeld == armed \subseteq held

(* What a dead process has: nothing but its rows. *)
DeadIsEmpty ==
  /\ \A x \in At : life[x[1]] = "down" =>
       /\ calls[x] = <<>>
       /\ x \notin held \cup running
  /\ \A p \in posts : life[p.from] # "down"

(* Questions that were given to a node, and replies, find it as it was. *)
HandedByShutdown ==
  /\ \A x \in handed \cup replies : life[x[1]] = "shutting"
  /\ \A a \in asks :
       /\ a.to # None => Subscribed(a.to)
       /\ a.from # None => /\ life[a.from] = "shutting"
                           /\ <<a.from, a.timer>> \in awaited \ replies

(* Destroy waits for the requests a node is at work on. *)
WorkIsReachable ==
  \A p \in posts : p.at \in {"handling", "failed"} /\ p.from # p.to => Reachable(p.to)

CalmInv ==
  /\ OnePlace /\ FreshIsNowhere /\ StoredOnce /\ ArmedIsHeld
  /\ DeadIsEmpty /\ HandedByShutdown /\ WorkIsReachable

KeeperInv == TypeOK /\ (Calm => CalmInv)

----------------------------------------------------------------------------
(* The hand-over as Custody has it. *)
C == INSTANCE Custody WITH
  keepers <- [t \in Timer |-> Keepers(t)],
  fresh <- {t \in Timer : client[t] = "unused"},
  calm <- Calm

(* Hand-over, however many steps of nodes, proxies and nats it takes, is   *)
(* the passing on of one thing: a timer goes from a node into a request or *)
(* a question and from there to a node, never to two, is never back once   *)
(* it is gone, and no node gets one nobody submitted (timer.js 340-384,    *)
(* 470-543, request-proxy/send.js).                                        *)
PassedOn == C!Spec
=============================================================================
