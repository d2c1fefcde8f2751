------------------------------- MODULE Discovery -------------------------------
(***************************************************************************)
(* Finding the hosts a node bootstraps with (ringpop/discover-providers.js)*)
(* and the backoff between attempts (lib/backoff.js), over a clock that    *)
(* moves while a provider is asked and while the backoff waits.            *)
(***************************************************************************)
EXTENDS Integers

CONSTANTS
  MinDelay, MaxDelay,   \* the policy's delays, in ticks
  Retries,              \* set of limits on retries; Unlimited for none
  Timeouts,             \* set of limits on the time; Unlimited for none
  Unlimited,
  AskTime               \* bound: ticks a provider takes to answer

ASSUME DiscoveryAssumption ==
  /\ MinDelay \in Nat \ {0} /\ MaxDelay \in Nat \ {0} /\ AskTime \in Nat
  /\ Unlimited \notin Nat
  /\ Retries \subseteq Nat \cup {Unlimited} /\ Timeouts \subseteq Nat \cup {Unlimited}

VARIABLES
  policy,     \* [retry, retries, timeout]; without retry the provider is not wrapped
  asking,     \* "no", "asked", "waiting" for the delay, or "over"
  clock,      \* ticks since the first retry, and before it since the attempt began
  attempt,    \* backoff.attempt
  tried,      \* a retry has been made (firstTry is set)
  delay,      \* of the timer that is set, or the last one
  left,       \* ticks until the provider answers or the timer fires
  outcome     \* "none", "hosts", "empty", "error", "max retries" or "timed out"

discoverVars == <<policy, asking, clock, attempt, tried, delay, left, outcome>>

(* createFromOpts (141-172): with opts.retry a provider is wrapped.  A     *)
(* policy without any limit retries for ever.                              *)
Policies ==
  [retry : {TRUE}, retries : Retries, timeout : Timeouts]
    \cup {[retry |-> FALSE, retries |-> 0, timeout |-> 0]}

DiscoverInit ==
  /\ policy \in Policies
  /\ asking = "no" /\ clock = 0 /\ attempt = 0 /\ tried = FALSE /\ delay = 0 /\ left = 0
  /\ outcome = "none"

Less(a, b) == IF a < b THEN a ELSE b

(* Faulty variant: the maximum is taken of the delay without its fuzz. *)
DelaysFuzzedLast(n) == {Less(MinDelay * 2 ^ n, MaxDelay) + f : f \in 0 .. (MinDelay * 2 ^ n) \div 2}

(* _delay (72-79): doubled with each attempt, up to a half more, at most   *)
(* maxDelay.                                                               *)
Delays(n) == {Less(MinDelay * 2 ^ n + f, MaxDelay) : f \in 0 .. (MinDelay * 2 ^ n) \div 2}

Ask(ticks) == asking' = "asked" /\ left' = ticks

Discover ==
  /\ asking = "no"
  /\ \E ticks \in 0 .. AskTime : Ask(ticks)
  /\ UNCHANGED <<policy, clock, attempt, tried, delay, outcome>>

Tick ==
  /\ asking \in {"asked", "waiting"} /\ left > 0
  /\ left' = left - 1 /\ clock' = IF tried THEN clock + 1 ELSE clock
  /\ UNCHANGED <<policy, asking, attempt, tried, delay, outcome>>

End(result) ==
  /\ asking' = "over" /\ outcome' = result
  /\ UNCHANGED <<policy, clock, attempt, tried, delay, left>>

(* The provider found hosts; or, without a wrapper, whatever it says goes  *)
(* to bootstrap (static and file providers, 45-77).                        *)
Found ==
  /\ asking = "asked" /\ left = 0
  /\ \/ End("hosts")
     \/ ~policy.retry /\ \E result \in {"empty", "error"} : End(result)

MaxRetriesReached == policy.retries # Unlimited /\ attempt >= policy.retries

(* onTry (123-124) and retry (90-115), after an error or an empty list. *)
Retry ==
  /\ asking = "asked" /\ left = 0 /\ policy.retry
  /\ \/ MaxRetriesReached /\ End("max retries")
     \/ /\ ~MaxRetriesReached /\ policy.timeout # Unlimited /\ clock > policy.timeout
        /\ End("timed out")
     \/ /\ ~MaxRetriesReached /\ (policy.timeout = Unlimited \/ clock <= policy.timeout)
        /\ asking' = "waiting" /\ tried' = TRUE
        /\ delay' \in Delays(attempt) /\ left' = delay'
        /\ UNCHANGED <<policy, clock, attempt, outcome>>

(* onTimeout (108-114): the next attempt. *)
DelayOver ==
  /\ asking = "waiting" /\ left = 0
  /\ attempt' = attempt + 1
  /\ \E ticks \in 0 .. AskTime : Ask(ticks)
  /\ UNCHANGED <<policy, clock, tried, delay, outcome>>

DiscoverStep == Tick \/ Found \/ Retry \/ DelayOver
DiscoverNext == Discover \/ DiscoverStep

DiscoverFairness == WF_discoverVars(DiscoverStep)

DiscoverSpec == DiscoverInit /\ [][DiscoverNext]_discoverVars /\ DiscoverFairness

----------------------------------------------------------------------------
(* With a limit of some kind the callback is called, if only with an error, *)
(* and an attempt starts at most timeout and maxDelay after the first      *)
(* retry, with delays that never get shorter up to the maximum (backoff.js *)
(* 40-43, 82-89).                                                          *)
DiscoveryEnds ==
  /\ []<>(asking = "no" \/ outcome # "none")
  /\ [][/\ asking = "waiting" /\ asking' = "asked" /\ policy.timeout # Unlimited
             => clock <= policy.timeout + MaxDelay
        /\ asking = "asked" /\ asking' = "waiting" => delay' >= delay]_discoverVars
=============================================================================
