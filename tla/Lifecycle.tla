------------------------------- MODULE Lifecycle ------------------------------
(***************************************************************************)
(* The life of one ringpop instance (packages/ringpop/index.js): bootstrap *)
(* discovers hosts, joins and makes the node ready; destroy ends it, at    *)
(* any time.  The components of a node read `isReady` and `isDestroyed`    *)
(* (`destroyed` in the code), and start and stop with the events           *)
(* (lib/on_ringpop_event.js): each of them extends this module and adds    *)
(* what it does at the two events to `JoinDone` and `DestroyNode`.         *)
(***************************************************************************)
EXTENDS Naturals

CONSTANTS MaxBootstraps   \* bound: calls of bootstrap
ASSUME LifecycleAssumption == MaxBootstraps \in Nat \ {0}

VARIABLES
  isReady, isDestroyed,   \* the flags of the instance
  joining,              \* bootstraps that wait for hosts or for the join
  bootstraps            \* bound
lifeVars == <<isReady, isDestroyed, joining, bootstraps>>

LifeInit == /\ isReady = FALSE /\ isDestroyed = FALSE
            /\ joining = 0 /\ bootstraps = 0

(* bootstrap (286-312): nothing but readiness keeps a second one from      *)
(* running beside the first.                                               *)
Bootstrap ==
  /\ ~isReady /\ bootstraps < MaxBootstraps
  /\ bootstraps' = bootstraps + 1 /\ joining' = joining + 1
  /\ UNCHANGED <<isReady, isDestroyed>>

(* No hosts, or the join failed (315-332, 349-357). *)
BootstrapFails ==
  /\ joining > 0 /\ joining' = joining - 1
  /\ UNCHANGED <<isReady, isDestroyed, bootstraps>>

(* onJoin (346-394): an instance destroyed meanwhile stays as it is; else  *)
(* it becomes ready, and `Started` is what 'ready' starts.                 *)
JoinDone(Started, Unstarted) ==
  /\ joining > 0 /\ joining' = joining - 1
  /\ IF isDestroyed THEN UNCHANGED isReady /\ Unstarted
                  ELSE isReady' = TRUE /\ Started
  /\ UNCHANGED <<isDestroyed, bootstraps>>

(* destroy (223-267), once. *)
DestroyNode(Stopped) ==
  /\ ~isDestroyed /\ isDestroyed' = TRUE
  /\ Stopped
  /\ UNCHANGED <<isReady, joining, bootstraps>>
=============================================================================
