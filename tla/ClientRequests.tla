---------------------------- MODULE ClientRequests ----------------------------
(***************************************************************************)
(* Requests a node makes of other nodes (ringpop/client.js, client_request *)
(* .js): the limit on those inflight, the scan for wedged ones, and the    *)
(* middleware on both sides that hides tombstones from nodes that do not   *)
(* know them (lib/middleware).  TChannel, below, may fail a request, answer*)
(* it late or never.                                                       *)
(***************************************************************************)
EXTENDS Integers, FiniteSets

CONSTANTS
  Call,           \* requests
  Endpoint,       \* [Call -> "ping", "ping-req", "join" or "damp-req"]
  Limit,          \* config inflightClientRequestsLimit
  WedgedAfter     \* wedgedRequestTimeout, in scans

ASSUME ClientAssumption ==
  /\ Endpoint \in [Call -> {"ping", "ping-req", "join", "damp-req"}]
  /\ Limit \in Nat \ {0} /\ WedgedAfter \in Nat \ {0}

VARIABLES
  calls,
  registered,     \* requestsById
  wedgedTimer,    \* "none" before the first request, "set", "cleared"
  closed          \* the client is destroyed, and the channel closed

clientVars == <<calls, registered, wedgedTimer, closed>>

(* The status of a member in a message.  Messages that carry none have     *)
(* "empty"; "flagged" is a faulty with the tombstone flag.                 *)
Said == {"faulty", "tombstone", "flagged", "empty"}

Calls == [stage : {"idle", "refused", "failing", "identify", "request", "answer", "over"},
          canceled : BOOLEAN, scans : Nat,
          asked : Said, heard : Said,       \* the request, as sent and as handled
          replied : Said, got : Said,       \* the answer, as given and as received
          wire : Said,
          calledBack : Nat]

ClientInit ==
  /\ calls = [c \in Call |->
       [stage |-> "idle", canceled |-> FALSE, scans |-> 0, asked |-> "empty", heard |-> "empty",
        replied |-> "empty", got |-> "empty", wire |-> "empty", calledBack |-> 0]]
  /\ registered = {} /\ wedgedTimer = "none" /\ closed = FALSE

----------------------------------------------------------------------------
(* The middleware. *)

TombstoneAsFaulty == [said \in Said |-> IF said = "tombstone" THEN "flagged" ELSE said]
FaultyAsTombstone == [said \in Said |-> IF said = "flagged" THEN "tombstone" ELSE said]

(* What a request and an answer carry statuses in, and are patched in. *)
ChangesIn(c) == Endpoint[c] \in {"ping", "ping-req"}

StatusesOut(c) == ChangesIn(c) \/ Endpoint[c] = "join"

PatchRequest(c, said, patch) == IF ChangesIn(c) THEN patch[said] ELSE said
PatchAnswer(c, said, patch) == IF StatusesOut(c) THEN patch[said] ELSE said

----------------------------------------------------------------------------
(* _invokeCallback: once called the callback is gone. *)
Invoked(rec) == [rec EXCEPT !.calledBack = IF @ = 0 THEN 1 ELSE @]

(* The request is over, and calls back through onSend (196-200). *)
Conclude(c, rec) ==
  /\ calls' = [calls EXCEPT ![c] = [Invoked(rec) EXCEPT !.stage = "over"]]
  /\ registered' = registered \ {c}
  /\ UNCHANGED <<wedgedTimer, closed>>

Move(c, rec) ==
  /\ calls' = [calls EXCEPT ![c] = rec]
  /\ UNCHANGED <<registered, wedgedTimer, closed>>

(* Faulty variant: a request is registered before the limit is looked at. *)
RequestRegistered(c) ==
  /\ calls[c].stage = "idle"
  /\ wedgedTimer' = IF wedgedTimer = "none" THEN "set" ELSE wedgedTimer
  /\ registered' = registered \cup {c}
  /\ \E said \in IF ChangesIn(c) THEN {"faulty", "tombstone"} ELSE {"empty"} :
       calls' = [calls EXCEPT ![c].asked = said,
                              ![c].stage = IF Cardinality(registered) >= Limit THEN "refused"
                                           ELSE IF closed THEN "failing" ELSE "identify"]
  /\ UNCHANGED closed

(* _request (164-201) and send (59-100) *)
RequestCall(c) ==
  /\ calls[c].stage = "idle"
  /\ wedgedTimer' = IF wedgedTimer = "none" THEN "set" ELSE wedgedTimer
  /\ \E said \in IF ChangesIn(c) THEN {"faulty", "tombstone"} ELSE {"empty"} :
       \/ /\ Cardinality(registered) >= Limit
          /\ calls' = [calls EXCEPT ![c].stage = "refused", ![c].asked = said]
          /\ UNCHANGED registered
       \/ /\ Cardinality(registered) < Limit
          /\ \/ calls' = [calls EXCEPT ![c].stage = "failing",      \* or an invalid host
                                       ![c].asked = said]
             \/ ~closed /\ calls' = [calls EXCEPT ![c].stage = "identify", ![c].asked = said]
          /\ registered' = registered \cup {c}
  /\ UNCHANGED closed

(* The next tick: the error is called back. *)
NextTick(c) ==
  /\ calls[c].stage \in {"refused", "failing"}
  /\ Conclude(c, calls[c])

(* onIdentified (100-136): the connection stands, or there is none. *)
Identified(c) ==
  /\ calls[c].stage = "identify"
  /\ \/ calls[c].canceled /\ Move(c, [calls[c] EXCEPT !.stage = "over"])
     \/ ~calls[c].canceled /\ Conclude(c, calls[c])
     \/ /\ ~calls[c].canceled
        /\ Move(c, [calls[c] EXCEPT !.stage = "request",
                       !.wire = PatchRequest(c, calls[c].asked, TombstoneAsFaulty)])

(* The endpoint of the node asked (server/index.js 53-74). *)
HandleCall(c) ==
  /\ calls[c].stage = "request"
  /\ \E said \in IF Endpoint[c] # "damp-req" THEN {"faulty", "tombstone"} ELSE {"empty"} :
       Move(c, [calls[c] EXCEPT !.stage = "answer",
                  !.heard = PatchRequest(c, calls[c].wire, FaultyAsTombstone),
                  !.replied = said,
                  !.wire = PatchAnswer(c, said, TombstoneAsFaulty)])

(* onSend (138-163): an answer, or an error of TChannel. *)
Responded(c) ==
  \/ /\ calls[c].stage \in {"request", "answer"} /\ calls[c].canceled
     /\ Move(c, [calls[c] EXCEPT !.stage = "over"])
  \/ /\ calls[c].stage \in {"request", "answer"} /\ ~calls[c].canceled
     /\ Conclude(c, calls[c])
  \/ /\ calls[c].stage = "answer" /\ ~calls[c].canceled
     /\ Conclude(c, [calls[c] EXCEPT
                       !.got = PatchAnswer(c, calls[c].wire, FaultyAsTombstone)])

Wedged == {c \in registered : calls[c].scans >= WedgedAfter}

(* Faulty variant: the timer runs out and is not set again. *)
ScanOnce ==
  /\ wedgedTimer = "set" /\ ~closed
  /\ calls' = [c \in Call |->
       IF c \in Wedged THEN [Invoked(calls[c]) EXCEPT !.canceled = TRUE]
       ELSE IF c \in registered THEN [calls[c] EXCEPT !.scans = @ + 1] ELSE calls[c]]
  /\ registered' = registered \ Wedged
  /\ wedgedTimer' = "cleared"
  /\ UNCHANGED closed

(* onTimeout (205-208): the wedged requests are canceled, and the next     *)
(* scan is due.  A client that is destroyed scans no more.                 *)
ScanForWedged ==
  /\ wedgedTimer = "set"
  /\ \/ /\ ~closed
        /\ calls' = [c \in Call |->
             IF c \in Wedged THEN [Invoked(calls[c]) EXCEPT !.canceled = TRUE]
             ELSE IF c \in registered THEN [calls[c] EXCEPT !.scans = @ + 1] ELSE calls[c]]
        /\ registered' = registered \ Wedged
        /\ UNCHANGED wedgedTimer
     \/ /\ closed
        /\ wedgedTimer' = "cleared"
        /\ UNCHANGED <<calls, registered>>
  /\ UNCHANGED closed

(* destroy (106-113), and Ringpop.destroy (index.js 223-267), which closes *)
(* the channel next.                                                       *)
DestroyClient ==
  /\ ~closed
  /\ closed' = TRUE
  /\ wedgedTimer' = IF wedgedTimer = "set" THEN "cleared" ELSE wedgedTimer
  /\ UNCHANGED <<calls, registered>>

ClientNext ==
  \/ \E c \in Call : RequestCall(c) \/ NextTick(c) \/ Identified(c)
                     \/ HandleCall(c) \/ Responded(c)
  \/ ScanForWedged \/ DestroyClient

(* Ticks and timers come.  Nothing is assumed of TChannel. *)
ClientFairness == WF_clientVars(\E c \in Call : NextTick(c)) /\ WF_clientVars(ScanForWedged)

ClientSpec == ClientInit /\ [][ClientNext]_clientVars /\ ClientFairness

----------------------------------------------------------------------------
(* Every variable has its type. *)
ClientTypeOK ==
  /\ calls \in [Call -> Calls] /\ registered \subseteq Call
  /\ wedgedTimer \in {"none", "set", "cleared"} /\ closed \in BOOLEAN

(* The requests counted against the limit are those that have not been     *)
(* called back, so that wedged, canceled and refused ones free or never    *)
(* take a place; and no request is called back twice (scanForWedgedRequests *)
(* 117-134, _request 174-199, _invokeCallback 199-217).                    *)
RegisteredArePending ==
  /\ registered = {c \in Call : calls[c].stage \notin {"idle", "refused"} /\ calls[c].calledBack = 0}
  /\ Cardinality(registered) <= Limit

(* Whatever TChannel does, each request is called back, unless the client  *)
(* is destroyed (_scheduleWedgedTimer 203-210).  And one that was canceled *)
(* while it waited for a connection is not sent any more, and one whose    *)
(* caller was called back has nothing more to say to it (client_request.js *)
(* 103-111, 141-149).                                                      *)
CallsReturn ==
  /\ \A c \in Call : []<>(calls[c].stage = "idle" \/ calls[c].calledBack > 0 \/ closed)
  /\ [][\A c \in Call :
          /\ calls[c].canceled => calls'[c].stage \in {calls[c].stage, "answer", "over"}
          /\ calls[c].calledBack > 0 => calls'[c].got = calls[c].got]_clientVars

(* No node sees a tombstone on the wire, and those that know them lose none *)
(* (tombstone.js 46-93, the order of the stacks in stack.js 73-103).       *)
TombstonesSurvive ==
  \A c \in Call :
    /\ calls[c].wire # "tombstone"
    /\ calls[c].heard \in {"empty", calls[c].asked}
    /\ calls[c].got \in {"empty", calls[c].replied}

(* What holds of the client at any time: both at once. *)
ClientInv == ClientTypeOK /\ RegisteredArePending /\ TombstonesSurvive
=============================================================================
