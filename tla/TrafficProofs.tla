---------------------------- MODULE TrafficProofs ----------------------------
(***************************************************************************)
(* What a node sends: requests between nodes, for any number of them, any  *)
(* limit and whatever TChannel does, whose count against the limit is      *)
(* exact and whose middleware loses no tombstone; and deliveries by the    *)
(* transports, for any jobs, addresses, configured transports and sizes of *)
(* the pools.                                                              *)
(***************************************************************************)
EXTENDS ClientRequests, Transports, FiniteSetTheorems, SequenceTheorems,
        WellFoundedInduction, TLAPS

(* What is true of one request, at each of its stages.  The middleware at  *)
(* the receiving end will get what was said back out of the wire.          *)
Fits(c, rec) ==
  /\ rec \in Calls
  /\ rec.asked \in IF ChangesIn(c) THEN {"faulty", "tombstone", "empty"} ELSE {"empty"}
  /\ rec.stage = "idle" => rec.calledBack = 0 /\ rec.heard = "empty"
  /\ rec.canceled => rec.calledBack > 0
  /\ rec.stage # "over" => rec.got = "empty"
  /\ rec.wire # "tombstone"
  /\ rec.heard \in {"empty", rec.asked}
  /\ rec.got \in {"empty", rec.replied}
  /\ rec.stage = "request" => PatchRequest(c, rec.wire, FaultyAsTombstone) = rec.asked
  /\ rec.stage = "answer" => PatchAnswer(c, rec.wire, FaultyAsTombstone) = rec.replied

(* The properties, and what each request is between its steps. *)
Inv ==
  /\ ClientTypeOK
  /\ \A c \in Call : Fits(c, calls[c])
  /\ IsFiniteSet(registered)
  /\ RegisteredArePending

(* Calling back changes nothing else in a request. *)
LEMMA InvokedFields ==
  ASSUME NEW rec \in Calls
  PROVE  /\ Invoked(rec) \in Calls /\ Invoked(rec).calledBack \in Nat \ {0}
         /\ Invoked(rec).stage = rec.stage /\ Invoked(rec).canceled = rec.canceled
         /\ Invoked(rec).asked = rec.asked /\ Invoked(rec).heard = rec.heard
         /\ Invoked(rec).replied = rec.replied /\ Invoked(rec).got = rec.got
         /\ Invoked(rec).wire = rec.wire
<1> DEFINE times == IF rec.calledBack = 0 THEN 1 ELSE rec.calledBack
<1>1. times \in Nat \ {0}
  BY DEF Calls
<1>2. Invoked(rec) = [rec EXCEPT !.calledBack = times]
  BY DEF Invoked
<1> HIDE DEF times
<1> QED
  BY <1>1, <1>2 DEF Calls

(* A request that is called back and over fits its last stage. *)
LEMMA OverFits ==
  ASSUME NEW c \in Call, NEW rec \in Calls,
         rec.asked \in IF ChangesIn(c) THEN {"faulty", "tombstone", "empty"} ELSE {"empty"},
         rec.wire # "tombstone", rec.heard \in {"empty", rec.asked},
         rec.got \in {"empty", rec.replied}
  PROVE  Fits(c, [Invoked(rec) EXCEPT !.stage = "over"])
<1> DEFINE inv == Invoked(rec)
           over == [inv EXCEPT !.stage = "over"]
<1>1. /\ inv \in Calls /\ inv.calledBack \in Nat \ {0} /\ inv.asked = rec.asked
      /\ inv.heard = rec.heard /\ inv.replied = rec.replied /\ inv.got = rec.got
      /\ inv.wire = rec.wire
  BY InvokedFields
<1> HIDE DEF inv
<1>2. /\ over \in Calls /\ over.stage = "over" /\ over.calledBack = inv.calledBack
      /\ over.asked = inv.asked /\ over.heard = inv.heard /\ over.replied = inv.replied
      /\ over.got = inv.got /\ over.wire = inv.wire
  BY <1>1 DEF Calls
<1> HIDE DEF over
<1>3. Fits(c, over)
  BY <1>1, <1>2 DEF Fits
<1> QED
  BY <1>3 DEF over, inv

(* A request that waits for its answer and moves on to wait for more.      *)
LEMMA MoveKeeps ==
  ASSUME Inv, NEW c \in Call, NEW rec, Fits(c, rec), Move(c, rec),
         calls[c].stage \notin {"idle", "refused"},
         rec.stage \notin {"idle", "refused"},
         rec.calledBack = calls[c].calledBack
  PROVE  Inv'
<1>1. ClientTypeOK'
  BY DEF Inv, ClientTypeOK, Move, Fits
<1>2. \A d \in Call : calls'[d] = IF d = c THEN rec ELSE calls[d]
  BY DEF Inv, ClientTypeOK, Move
<1>3. \A d \in Call : Fits(d, calls'[d])
  BY <1>2 DEF Inv
<1>4. registered' = registered
  BY DEF Move
<1>5. RegisteredArePending'
  BY <1>2, <1>4 DEF Inv, RegisteredArePending
<1> QED
  BY <1>1, <1>3, <1>4, <1>5 DEF Inv, Fits

(* A request that is over has been called back, and is counted no more.    *)
LEMMA ConcludeKeeps ==
  ASSUME Inv, NEW c \in Call, NEW rec, Conclude(c, rec),
         Fits(c, [Invoked(rec) EXCEPT !.stage = "over"]), rec \in Calls
  PROVE  Inv'
<1> DEFINE over == [Invoked(rec) EXCEPT !.stage = "over"]
<1>1. \A d \in Call : calls'[d] = IF d = c THEN over ELSE calls[d]
  BY DEF Inv, ClientTypeOK, Conclude
<1>2. over.stage = "over" /\ over.calledBack # 0 /\ over \in Calls
  <2>1. Invoked(rec) \in Calls /\ Invoked(rec).calledBack \in Nat \ {0}
    BY InvokedFields
  <2> QED
    BY <2>1 DEF Calls
<1>3. ClientTypeOK'
  BY <1>1, <1>2 DEF Inv, ClientTypeOK, Conclude
<1>4. \A d \in Call : Fits(d, calls'[d])
  BY <1>1 DEF Inv
<1>5. registered' = registered \ {c}
  BY DEF Conclude
<1>6. IsFiniteSet(registered') /\ Cardinality(registered') <= Cardinality(registered)
  BY <1>5, FS_Subset DEF Inv
<1>7. Cardinality(registered') <= Limit
  BY <1>6, FS_CardinalityType, ClientAssumption DEF Inv, RegisteredArePending
<1>8. registered' = {d \in Call : calls'[d].stage \notin {"idle", "refused"} /\ calls'[d].calledBack = 0}
  <2> HIDE DEF over
  <2> QED
    BY <1>1, <1>2, <1>5 DEF Inv, RegisteredArePending
<1> QED
  BY <1>3, <1>4, <1>6, <1>7, <1>8 DEF Inv, RegisteredArePending, Fits

(* No request has been sent yet. *)
LEMMA InitInv == ClientInit => Inv
<1> SUFFICES ASSUME ClientInit PROVE Inv
  OBVIOUS
<1>1. ClientTypeOK
  BY DEF ClientInit, ClientTypeOK, Calls, Said
<1>2. \A c \in Call : Fits(c, calls[c])
  BY DEF ClientInit, Fits, Calls, Said
<1>3. IsFiniteSet(registered) /\ Cardinality(registered) = 0
  BY FS_EmptySet DEF ClientInit
<1>4. RegisteredArePending
  BY <1>3, ClientAssumption DEF ClientInit, RegisteredArePending
<1> QED
  BY <1>1, <1>2, <1>3, <1>4 DEF Inv

(* _request and send: a request that finds a place takes it (59-100).      *)
LEMMA RequestKeeps ==
  ASSUME Inv, NEW c \in Call, RequestCall(c)
  PROVE  Inv'
<1>1. PICK said \in IF ChangesIn(c) THEN {"faulty", "tombstone"} ELSE {"empty"} :
        \/ /\ Cardinality(registered) >= Limit
           /\ calls' = [calls EXCEPT ![c].stage = "refused", ![c].asked = said]
           /\ UNCHANGED registered
        \/ /\ Cardinality(registered) < Limit
           /\ \/ calls' = [calls EXCEPT ![c].stage = "failing", ![c].asked = said]
              \/ calls' = [calls EXCEPT ![c].stage = "identify", ![c].asked = said]
           /\ registered' = registered \cup {c}
  BY DEF RequestCall
<1>2. /\ calls[c] \in Calls /\ calls[c].stage = "idle" /\ calls[c].calledBack = 0
      /\ c \notin registered /\ said \in Said /\ Fits(c, calls[c])
  BY DEF RequestCall, Inv, ClientTypeOK, RegisteredArePending, Fits, Said
<1>3. PICK stage \in {"refused", "failing", "identify"} :
        /\ \A d \in Call : calls'[d] =
             IF d = c THEN [calls[c] EXCEPT !.stage = stage, !.asked = said] ELSE calls[d]
        /\ calls' \in [Call -> Calls]
        /\ registered' = IF stage = "refused" THEN registered ELSE registered \cup {c}
        /\ stage # "refused" => Cardinality(registered) < Limit
  <2>1. calls \in [Call -> Calls]
    BY DEF Inv, ClientTypeOK
  <2>2. \A stage \in {"refused", "failing", "identify"} :
          [calls[c] EXCEPT !.stage = stage, !.asked = said] \in Calls
    BY <1>2 DEF Calls
  <2>3. ASSUME NEW stage \in {"refused", "failing", "identify"},
               calls' = [calls EXCEPT ![c].stage = stage, ![c].asked = said]
        PROVE  /\ calls' \in [Call -> Calls]
               /\ \A d \in Call : calls'[d] =
                    IF d = c THEN [calls[c] EXCEPT !.stage = stage, !.asked = said] ELSE calls[d]
    <3>1. calls' = [calls EXCEPT ![c] = [calls[c] EXCEPT !.stage = stage, !.asked = said]]
      BY <2>1, <2>3
    <3> DEFINE rec == [calls[c] EXCEPT !.stage = stage, !.asked = said]
    <3>2. rec \in Calls /\ calls' = [calls EXCEPT ![c] = rec]
      BY <2>2, <3>1
    <3> HIDE DEF rec
    <3>3. calls' \in [Call -> Calls] /\ \A d \in Call : calls'[d] = IF d = c THEN rec ELSE calls[d]
      BY <2>1, <3>2
    <3> QED
      BY <3>3 DEF rec
  <2>4. CASE calls' = [calls EXCEPT ![c].stage = "refused", ![c].asked = said]
             /\ UNCHANGED registered
    BY <2>3, <2>4
  <2>5. CASE calls' = [calls EXCEPT ![c].stage = "failing", ![c].asked = said]
             /\ registered' = registered \cup {c} /\ Cardinality(registered) < Limit
    BY <2>3, <2>5
  <2>6. CASE calls' = [calls EXCEPT ![c].stage = "identify", ![c].asked = said]
             /\ registered' = registered \cup {c} /\ Cardinality(registered) < Limit
    BY <2>3, <2>6
  <2> QED
    BY <1>1, <2>4, <2>5, <2>6
<1> DEFINE rec == [calls[c] EXCEPT !.stage = stage, !.asked = said]
<1>4. /\ rec \in Calls /\ rec.stage = stage /\ rec.calledBack = 0 /\ rec.asked = said
      /\ rec.canceled = calls[c].canceled /\ rec.heard = calls[c].heard
      /\ rec.got = calls[c].got /\ rec.wire = calls[c].wire /\ rec.replied = calls[c].replied
  BY <1>2 DEF Calls
<1>5. Fits(c, rec)
  <2> HIDE DEF rec
  <2> QED
    BY <1>2, <1>4 DEF Fits
<1> HIDE DEF rec
<1>6. \A d \in Call : Fits(d, calls'[d])
  BY <1>3, <1>5 DEF Inv, rec
<1>7. ClientTypeOK'
  BY <1>3 DEF RequestCall, Inv, ClientTypeOK
<1>8. IsFiniteSet(registered') /\ Cardinality(registered') <= Limit
  <2>1. IsFiniteSet(registered) /\ Cardinality(registered) <= Limit /\ Limit \in Nat
    BY ClientAssumption DEF Inv, RegisteredArePending
  <2>2. Cardinality(registered) \in Nat /\ IsFiniteSet(registered \cup {c})
        /\ Cardinality(registered \cup {c}) = Cardinality(registered) + 1
    BY <1>2, <2>1, FS_AddElement, FS_CardinalityType
  <2>3. CASE stage = "refused"
    BY <1>3, <2>1, <2>3
  <2>4. CASE stage # "refused"
    BY <1>3, <2>1, <2>2, <2>4
  <2> QED
    BY <2>3, <2>4
<1>9. registered' = {d \in Call : calls'[d].stage \notin {"idle", "refused"} /\ calls'[d].calledBack = 0}
  <2>1. \A d \in Call : calls'[d] = IF d = c THEN rec ELSE calls[d]
    BY <1>3 DEF rec
  <2> QED
    BY <1>2, <1>3, <1>4, <2>1 DEF Inv, RegisteredArePending
<1> QED
  BY <1>6, <1>7, <1>8, <1>9 DEF Inv, RegisteredArePending, Fits

(* The scan cancels what is wedged, and frees its places (117-134).        *)
LEMMA ScanKeeps ==
  ASSUME Inv, ScanForWedged
  PROVE  Inv'
<1>1. CASE closed
  BY <1>1 DEF ScanForWedged, Inv, ClientTypeOK, RegisteredArePending, Fits
<1>2. CASE ~closed
  <2> DEFINE canceled(c) == [Invoked(calls[c]) EXCEPT !.canceled = TRUE]
             next(c) == IF c \in Wedged THEN canceled(c)
                        ELSE IF c \in registered THEN [calls[c] EXCEPT !.scans = @ + 1]
                        ELSE calls[c]
  <2>1. /\ \A c \in Call : calls'[c] = next(c)
        /\ calls' = [c \in Call |-> next(c)]
        /\ registered' = registered \ Wedged /\ Wedged \subseteq registered
        /\ wedgedTimer' = wedgedTimer /\ closed' = closed
    BY <1>2 DEF ScanForWedged, Wedged
  <2>2. ASSUME NEW c \in Call
        PROVE  /\ Fits(c, next(c))
               /\ next(c).stage = calls[c].stage
               /\ next(c).calledBack = 0 <=> calls[c].calledBack = 0 /\ c \notin Wedged
    <3>1. Fits(c, calls[c]) /\ calls[c] \in Calls
      BY DEF Inv, ClientTypeOK
    <3>2. CASE c \in Wedged
      <4>1. /\ canceled(c) \in Calls /\ canceled(c).calledBack > 0
            /\ canceled(c).stage = calls[c].stage /\ canceled(c).asked = calls[c].asked
            /\ canceled(c).heard = calls[c].heard /\ canceled(c).got = calls[c].got
            /\ canceled(c).wire = calls[c].wire /\ canceled(c).replied = calls[c].replied
        <5>1. /\ Invoked(calls[c]) \in Calls /\ Invoked(calls[c]).calledBack \in Nat \ {0}
              /\ Invoked(calls[c]).stage = calls[c].stage
              /\ Invoked(calls[c]).asked = calls[c].asked
              /\ Invoked(calls[c]).heard = calls[c].heard
              /\ Invoked(calls[c]).replied = calls[c].replied
              /\ Invoked(calls[c]).got = calls[c].got
              /\ Invoked(calls[c]).wire = calls[c].wire
          BY <3>1, InvokedFields
        <5> DEFINE inv == Invoked(calls[c])
        <5>2. canceled(c) = [inv EXCEPT !.canceled = TRUE]
          OBVIOUS
        <5> HIDE DEF inv, canceled
        <5>3. inv \in Calls
          BY <5>1 DEF inv
        <5>4. /\ canceled(c) \in Calls /\ canceled(c).calledBack = inv.calledBack
              /\ canceled(c).stage = inv.stage /\ canceled(c).asked = inv.asked
              /\ canceled(c).heard = inv.heard /\ canceled(c).got = inv.got
              /\ canceled(c).wire = inv.wire /\ canceled(c).replied = inv.replied
          BY <5>2, <5>3 DEF Calls
        <5> QED
          BY <5>1, <5>4 DEF inv
      <4>2. calls[c].stage # "idle"
        BY <3>2 DEF Inv, RegisteredArePending, Wedged
      <4>3. next(c) = canceled(c)
        BY <3>2
      <4> HIDE DEF canceled, next
      <4> QED
        BY <3>1, <3>2, <4>1, <4>2, <4>3 DEF Fits
    <3>3. CASE c \notin Wedged
      <4>1. /\ next(c) \in Calls /\ next(c).calledBack = calls[c].calledBack
            /\ next(c).stage = calls[c].stage /\ next(c).asked = calls[c].asked
            /\ next(c).heard = calls[c].heard /\ next(c).got = calls[c].got
            /\ next(c).wire = calls[c].wire /\ next(c).replied = calls[c].replied
            /\ next(c).canceled = calls[c].canceled
        BY <3>1, <3>3 DEF Calls
      <4> HIDE DEF next
      <4> QED
        BY <3>1, <3>3, <4>1 DEF Fits
    <3> QED
      BY <3>2, <3>3
  <2> HIDE DEF next
  <2>3. ClientTypeOK'
    BY <2>1, <2>2 DEF Inv, ClientTypeOK, Fits
  <2>4. IsFiniteSet(registered') /\ Cardinality(registered') <= Limit
    <3>1. IsFiniteSet(registered') /\ Cardinality(registered') <= Cardinality(registered)
      BY <2>1, FS_Subset DEF Inv
    <3> QED
      BY <3>1, FS_CardinalityType, ClientAssumption DEF Inv, RegisteredArePending
  <2>5. registered' = {c \in Call : calls'[c].stage \notin {"idle", "refused"} /\ calls'[c].calledBack = 0}
    BY <2>1, <2>2 DEF Inv, RegisteredArePending
  <2>6. \A c \in Call : Fits(c, calls'[c])
    BY <2>1, <2>2
  <2> QED
    BY <2>3, <2>4, <2>5, <2>6 DEF Inv, RegisteredArePending, Fits
<1> QED
  BY <1>1, <1>2

(* onIdentified: the request goes out, patched by the middleware (100-136). *)
LEMMA IdentifiedKeeps ==
  ASSUME Inv, NEW c \in Call, Identified(c)
  PROVE  Inv'
<1>1. Fits(c, calls[c]) /\ calls[c] \in Calls /\ calls[c].stage = "identify"
  BY DEF Inv, ClientTypeOK, Identified
<1>2. CASE calls[c].canceled /\ Move(c, [calls[c] EXCEPT !.stage = "over"])
  <2> DEFINE rec == [calls[c] EXCEPT !.stage = "over"]
  <2>1. Fits(c, rec) /\ rec.stage = "over" /\ rec.calledBack = calls[c].calledBack
    BY <1>1 DEF Fits, Calls
  <2> HIDE DEF rec
  <2> QED
    BY <1>1, <1>2, <2>1, MoveKeeps DEF rec
<1>3. CASE Conclude(c, calls[c])
  <2>1. Fits(c, [Invoked(calls[c]) EXCEPT !.stage = "over"])
    BY <1>1, OverFits DEF Fits
  <2> QED
    BY <1>1, <1>3, <2>1, ConcludeKeeps
<1>4. CASE Move(c, [calls[c] EXCEPT !.stage = "request",
                       !.wire = PatchRequest(c, calls[c].asked, TombstoneAsFaulty)])
  <2> DEFINE wire == PatchRequest(c, calls[c].asked, TombstoneAsFaulty)
             rec == [calls[c] EXCEPT !.stage = "request", !.wire = wire]
  <2>1. /\ wire \in Said /\ wire # "tombstone"
        /\ PatchRequest(c, wire, FaultyAsTombstone) = calls[c].asked
    BY <1>1 DEF PatchRequest, TombstoneAsFaulty, FaultyAsTombstone, Fits, Said
  <2> HIDE DEF wire
  <2>2. /\ rec \in Calls /\ rec.stage = "request" /\ rec.wire = wire
        /\ rec.calledBack = calls[c].calledBack /\ rec.asked = calls[c].asked
        /\ rec.canceled = calls[c].canceled /\ rec.heard = calls[c].heard
        /\ rec.got = calls[c].got /\ rec.replied = calls[c].replied
    BY <1>1, <2>1 DEF Calls
  <2> HIDE DEF rec
  <2>3. Fits(c, rec)
    BY <1>1, <2>1, <2>2 DEF Fits
  <2> QED
    BY <1>1, <1>4, <2>2, <2>3, MoveKeeps DEF rec, wire
<1> QED
  BY <1>2, <1>3, <1>4 DEF Identified

(* The endpoint, between the middleware of both directions.                *)
LEMMA HandleKeeps ==
  ASSUME Inv, NEW c \in Call, HandleCall(c)
  PROVE  Inv'
<1>1. Fits(c, calls[c]) /\ calls[c] \in Calls /\ calls[c].stage = "request"
  BY DEF Inv, ClientTypeOK, HandleCall
<1>2. PICK said \in IF Endpoint[c] # "damp-req" THEN {"faulty", "tombstone"} ELSE {"empty"} :
        Move(c, [calls[c] EXCEPT !.stage = "answer",
                   !.heard = PatchRequest(c, calls[c].wire, FaultyAsTombstone),
                   !.replied = said,
                   !.wire = PatchAnswer(c, said, TombstoneAsFaulty)])
  BY DEF HandleCall
<1> DEFINE wire == PatchAnswer(c, said, TombstoneAsFaulty)
           rec == [calls[c] EXCEPT !.stage = "answer",
                     !.heard = PatchRequest(c, calls[c].wire, FaultyAsTombstone),
                     !.replied = said, !.wire = wire]
<1>3. PatchRequest(c, calls[c].wire, FaultyAsTombstone) = calls[c].asked
  BY <1>1 DEF Fits
<1>4. Endpoint[c] \in {"ping", "ping-req", "join", "damp-req"} /\ said \in Said
  BY <1>2, ClientAssumption DEF Said
<1>5. /\ wire \in Said /\ wire # "tombstone"
      /\ PatchAnswer(c, wire, FaultyAsTombstone) = said
  BY <1>4 DEF PatchAnswer, StatusesOut, ChangesIn, TombstoneAsFaulty, FaultyAsTombstone, Said
<1> HIDE DEF wire
<1>6. /\ rec \in Calls /\ rec.stage = "answer" /\ rec.wire = wire /\ rec.replied = said
      /\ rec.calledBack = calls[c].calledBack /\ rec.asked = calls[c].asked
      /\ rec.canceled = calls[c].canceled /\ rec.heard = calls[c].asked
      /\ rec.got = calls[c].got
  BY <1>1, <1>3, <1>4, <1>5 DEF Calls
<1> HIDE DEF rec
<1>7. Fits(c, rec)
  BY <1>1, <1>5, <1>6 DEF Fits
<1> QED
  BY <1>1, <1>2, <1>6, <1>7, MoveKeeps DEF rec, wire

(* onSend: an answer, which the middleware patches back, or an error.      *)
LEMMA RespondedKeeps ==
  ASSUME Inv, NEW c \in Call, Responded(c)
  PROVE  Inv'
<1>1. Fits(c, calls[c]) /\ calls[c] \in Calls /\ calls[c].stage \in {"request", "answer"}
  BY DEF Inv, ClientTypeOK, Responded
<1>2. CASE calls[c].canceled /\ Move(c, [calls[c] EXCEPT !.stage = "over"])
  <2> DEFINE rec == [calls[c] EXCEPT !.stage = "over"]
  <2>1. Fits(c, rec) /\ rec.stage = "over" /\ rec.calledBack = calls[c].calledBack
    BY <1>1 DEF Fits, Calls
  <2> HIDE DEF rec
  <2> QED
    BY <1>1, <1>2, <2>1, MoveKeeps DEF rec
<1>3. CASE Conclude(c, calls[c])
  <2>1. Fits(c, [Invoked(calls[c]) EXCEPT !.stage = "over"])
    BY <1>1, OverFits DEF Fits
  <2> QED
    BY <1>1, <1>3, <2>1, ConcludeKeeps
<1>4. CASE /\ calls[c].stage = "answer"
           /\ Conclude(c, [calls[c] EXCEPT !.got = PatchAnswer(c, calls[c].wire, FaultyAsTombstone)])
  <2> DEFINE rec == [calls[c] EXCEPT !.got = PatchAnswer(c, calls[c].wire, FaultyAsTombstone)]
  <2>1. PatchAnswer(c, calls[c].wire, FaultyAsTombstone) = calls[c].replied
    BY <1>1, <1>4 DEF Fits
  <2>2. /\ rec \in Calls /\ rec.asked = calls[c].asked /\ rec.heard = calls[c].heard
        /\ rec.replied = calls[c].replied /\ rec.got = calls[c].replied
        /\ rec.wire = calls[c].wire
    BY <1>1, <2>1 DEF Calls
  <2> HIDE DEF rec
  <2>3. Fits(c, [Invoked(rec) EXCEPT !.stage = "over"])
    BY <1>1, <2>2, OverFits DEF Fits
  <2> QED
    BY <1>4, <2>2, <2>3, ConcludeKeeps DEF rec
<1> QED
  BY <1>2, <1>3, <1>4 DEF Responded

(* Every step keeps the invariant. *)
LEMMA NextInv == Inv /\ [ClientNext]_clientVars => Inv'
<1> SUFFICES ASSUME Inv, [ClientNext]_clientVars PROVE Inv'
  OBVIOUS
<1>1. ASSUME NEW c \in Call, NextTick(c) PROVE Inv'
  <2>1. Fits(c, calls[c]) /\ calls[c] \in Calls /\ Conclude(c, calls[c])
    BY <1>1 DEF Inv, ClientTypeOK, NextTick
  <2>2. Fits(c, [Invoked(calls[c]) EXCEPT !.stage = "over"])
    BY <2>1, OverFits DEF Fits
  <2> QED
    BY <2>1, <2>2, ConcludeKeeps
<1>2. CASE DestroyClient
  BY <1>2 DEF DestroyClient, Inv, ClientTypeOK, RegisteredArePending, Fits
<1>3. CASE UNCHANGED clientVars
  BY <1>3 DEF clientVars, Inv, ClientTypeOK, RegisteredArePending, Fits
<1> QED
  BY <1>1, <1>2, <1>3, RequestKeeps, IdentifiedKeeps, HandleKeeps, RespondedKeeps,
     ScanKeeps DEF ClientNext

(* Whatever TChannel does and however many requests there are, exactly     *)
(* those that have not been called back count against the limit, which is  *)
(* never passed, and nobody takes a tombstone for anything else            *)
(* (client.js 59-210, client_request.js 59-217, tombstone.js 46-93).       *)
THEOREM ClientHolds == ClientSpec => []ClientInv
<1>1. Inv => ClientInv
  BY DEF Inv, ClientInv, TombstonesSurvive, Fits
<1> QED
  BY InitInv, NextInv, <1>1, PTL DEF ClientSpec

----------------------------------------------------------------------------
(* What is known of a job, a pool and a connection, whatever the others.   *)
JobType == [stage : {"idle", "request", "acquire", "write", "success", "failure"},
            pool : Nat, delivered : BOOLEAN, late : BOOLEAN]
PoolType == [addr : {Addr[j] : j \in Job}, draining : BOOLEAN]
Names == {"open", "http", "callback"} \cup {Paths[i] : i \in DOMAIN Paths}
ConnType == [pool : Nat, user : Job \cup {Nobody}, state : {"open", "broken", "gone"}]

Shaped ==
  /\ way \in Ways /\ jobs \in [Job -> JobType]
  /\ pools \in Seq(PoolType) /\ inMap \subseteq DOMAIN pools
  /\ conns \in Seq(ConnType) /\ \A i \in DOMAIN conns : conns[i].pool \in DOMAIN pools
  /\ \A j \in Job : jobs[j].pool \in 0 .. Len(pools)
  /\ cursor \in 0 .. Len(pools) /\ faults \in 0 .. MaxErrors
  /\ closing \in Seq(Names)
  /\ closing = Open \/ closing = <<>> \/ closing[1] = "http"
  /\ cursor # 0 => Turn /\ Current = "tcp"

Waits(j) == jobs[j].stage \in {"acquire", "write"}

(* A job takes the steps of its transport, and waits at a pool there is.   *)
Staged ==
  /\ \A j \in Job : /\ jobs[j].stage = "idle" => ~jobs[j].late
                    /\ jobs[j].stage = "request" => way[j] \notin {"tcp", "zmq"}
                    /\ Waits(j) => way[j] = "tcp" /\ jobs[j].pool \in DOMAIN pools
  /\ sockets # {} => \E j \in Job : way[j] = "zmq"
  /\ inMap # {} => \E j \in Job : way[j] = "tcp"

(* While nothing breaks: an address has one pool in the map, which all     *)
(* that wait for its connections and all its connections are of, and the   *)
(* shutdown has passed none by.                                            *)
Kept ==
  /\ \A p, q \in inMap : pools[p].addr = pools[q].addr => p = q
  /\ cursor # 0 => cursor \in inMap /\ \A p \in inMap : cursor <= p
  /\ \A j \in Job : Waits(j) => jobs[j].pool \in inMap
  /\ \A i \in DOMAIN conns : conns[i].state # "gone" => conns[i].pool \in inMap

Left(name) == \E i \in DOMAIN closing : closing[i] = name
SomeLate == \E j \in Job : jobs[j].late

(* What a transport has once it is shut down came later.                   *)
Emptied ==
  closing # Open =>
    /\ faults = 0 /\ ~Left("tcp") =>
         /\ \A j \in Job : Waits(j) => jobs[j].late
         /\ inMap # {} => SomeLate
    /\ ~Left("zmq") /\ sockets # {} => SomeLate

TransportInv == Shaped /\ Staged /\ (faults = 0 => Kept) /\ Emptied

(* Some pool, or connection, is the oldest. *)
LEMMA OldestIs ==
  ASSUME NEW S \in SUBSET Nat, S # {}
  PROVE  Oldest(S) \in S /\ \A q \in S : Oldest(S) <= q
<1>1. PICK x \in S : \A y \in S : ~(<<y, x>> \in OpToRel(<, Nat))
  BY NatLessThanWellFounded, WFMin
<1>2. \A y \in S : x <= y
  <2> SUFFICES ASSUME NEW y \in S PROVE x <= y
    OBVIOUS
  <2>1. x \in Nat /\ y \in Nat
    OBVIOUS
  <2>2. ~(<<y, x>> \in {ss \in Nat \X Nat : ss[1] < ss[2]})
    BY <1>1 DEF OpToRel
  <2>3. ~(y < x)
    BY <2>1, <2>2
  <2> QED
    BY <2>1, <2>3
<1> QED
  BY <1>2 DEF Oldest

(* One element of a sequence is another. *)
LEMMA OneReplaced ==
  ASSUME NEW S, NEW s \in Seq(S), NEW i, NEW v, i \in DOMAIN s => v \in S
  PROVE  LET t == [s EXCEPT ![i] = v] IN
         /\ t \in Seq(S) /\ DOMAIN t = DOMAIN s /\ Len(t) = Len(s)
         /\ \A k \in DOMAIN s : t[k] = IF k = i THEN v ELSE s[k]
<1> DEFINE t == [s EXCEPT ![i] = v]
<1>1. DOMAIN s = 1 .. Len(s) /\ Len(s) \in Nat /\ \A k \in DOMAIN s : s[k] \in S
  OBVIOUS
<1>2. t = [k \in 1 .. Len(s) |-> IF k = i THEN v ELSE s[k]]
  BY <1>1
<1> HIDE DEF t
<1>3. t \in [1 .. Len(s) -> S]
  BY <1>1, <1>2
<1>4. t \in Seq(S) /\ Len(t) = Len(s)
  BY <1>1, <1>3
<1> QED
  BY <1>1, <1>2, <1>4 DEF t

(* A job alone goes on; no transport forgets that it was late. *)
Moves(j, stage) ==
  /\ jobs' \in [Job -> JobType] /\ \A k \in Job \ {j} : jobs'[k] = jobs[k]
  /\ jobs'[j].stage = stage /\ jobs'[j].pool = jobs[j].pool
  /\ jobs[j].late => jobs'[j].late

(* Writing one record moves one job. *)
LEMMA OneMoves ==
  ASSUME jobs \in [Job -> JobType], NEW j \in Job, NEW rec \in JobType,
         jobs' = [jobs EXCEPT ![j] = rec], rec.pool = jobs[j].pool, jobs[j].late => rec.late
  PROVE  Moves(j, rec.stage)
BY DEF Moves

(* A job is begun. *)
LEMMA BecomeMoves ==
  ASSUME jobs \in [Job -> JobType], NEW j \in Job, NEW stage \in {"request", "success", "failure"},
         ~jobs[j].late, Become(j, stage)
  PROVE  Moves(j, stage) /\ (closing # Open => jobs'[j].late)
<1> DEFINE late == closing # Open
           delivered == stage = "success"
           rec == [jobs[j] EXCEPT !.stage = stage, !.late = late, !.delivered = delivered]
<1>1. late \in BOOLEAN /\ delivered \in BOOLEAN /\ jobs[j] \in JobType
  OBVIOUS
<1>2. jobs' = [jobs EXCEPT ![j] = rec]
  BY DEF Become
<1>3. late <=> closing # Open
  OBVIOUS
<1> HIDE DEF late, delivered
<1>4. rec \in JobType /\ rec.stage = stage /\ rec.pool = jobs[j].pool /\ rec.late = late
  BY <1>1 DEF JobType
<1> HIDE DEF rec
<1>5. Moves(j, rec.stage)
  BY <1>2, <1>4, OneMoves
<1> QED
  BY <1>2, <1>3, <1>4, <1>5

(* A job moves on, and connections of pools in the map come and go. *)
LEMMA MovesKeep ==
  ASSUME TransportInv, NEW j \in Job, NEW stage, Moves(j, stage), stage # "idle",
         stage \in {"acquire", "write"} => Waits(j),
         stage = "request" => way[j] \notin {"tcp", "zmq"},
         conns' \in Seq(ConnType),
         \A i \in DOMAIN conns' : /\ conns'[i].pool \in DOMAIN pools
                                  /\ conns'[i].state # "gone" /\ faults = 0 => conns'[i].pool \in inMap,
         UNCHANGED <<way, pools, inMap, sockets, closing, cursor, faults>>
  PROVE  TransportInv'
<1>1. Shaped'
  <2>1. \A k \in Job : jobs'[k].pool = jobs[k].pool
    BY DEF Moves
  <2> QED
    BY <2>1 DEF Moves, TransportInv, Shaped, Turn, Current
<1>2. \A k \in Job : /\ Waits(k)' => Waits(k) /\ jobs'[k].pool = jobs[k].pool
                     /\ jobs[k].late => jobs'[k].late
  BY DEF Moves, Waits
<1>3. Staged'
  <2>1. \A k \in Job : jobs'[k].stage = "idle" => ~jobs'[k].late
    BY DEF Moves, TransportInv, Staged
  <2>2. \A k \in Job : jobs'[k].stage = "request" => way[k] \notin {"tcp", "zmq"}
    BY DEF Moves, TransportInv, Staged
  <2> QED
    BY <1>2, <2>1, <2>2 DEF TransportInv, Staged
<1>4. (faults = 0 => Kept)'
  BY <1>2 DEF TransportInv, Kept
<1>5. Emptied'
  BY <1>2 DEF TransportInv, Emptied, SomeLate, Left
<1> QED
  BY <1>1, <1>3, <1>4, <1>5 DEF TransportInv

(* http and callback begin a job on their own. *)
LEMMA ExecHttpKeeps ==
  ASSUME TransportInv, NEW j \in Job, ExecHttp(j)
  PROVE  TransportInv'
<1>1. PICK stage \in {"request", "failure"} : Become(j, stage)
  BY DEF ExecHttp
<1>2. jobs \in [Job -> JobType] /\ jobs[j].stage = "idle" /\ ~jobs[j].late
  BY DEF ExecHttp, TransportInv, Shaped, Staged
<1>3. Moves(j, stage)
  BY <1>1, <1>2, BecomeMoves
<1>4. stage = "request" => way[j] \notin {"tcp", "zmq"}
  BY DEF ExecHttp
<1>5. /\ UNCHANGED <<way, pools, inMap, conns, sockets, closing, cursor, faults>>
      /\ conns \in Seq(ConnType)
      /\ \A i \in DOMAIN conns : /\ conns[i].pool \in DOMAIN pools
                                 /\ conns[i].state # "gone" /\ faults = 0 => conns[i].pool \in inMap
  BY DEF ExecHttp, TransportInv, Shaped, Kept
<1> QED
  BY <1>3, <1>4, <1>5, MovesKeep

(* They end it when the answer is there. *)
LEMMA RespondHttpKeeps ==
  ASSUME TransportInv, NEW j \in Job, RespondHttp(j)
  PROVE  TransportInv'
<1>1. jobs \in [Job -> JobType]
  BY DEF TransportInv, Shaped
<1>2. Moves(j, "success") \/ Moves(j, "failure")
  BY <1>1 DEF RespondHttp, Moves, JobType
<1>3. /\ UNCHANGED <<way, pools, inMap, conns, sockets, closing, cursor, faults>>
      /\ conns \in Seq(ConnType)
      /\ \A i \in DOMAIN conns : /\ conns[i].pool \in DOMAIN pools
                                 /\ conns[i].state # "gone" /\ faults = 0 => conns[i].pool \in inMap
  BY DEF RespondHttp, TransportInv, Shaped, Kept
<1> QED
  BY <1>2, <1>3, MovesKeep

(* Idle connections that broke are dropped, and one is lent. *)
LEMMA AcquireKeeps ==
  ASSUME TransportInv, NEW j \in Job, Acquire(j)
  PROVE  TransportInv'
<1> DEFINE p == jobs[j].pool
           idle == {i \in Of(p) \ Lent(p) : conns[i].state = "open"}
           valid == Valid(p)
<1>1. /\ jobs \in [Job -> JobType] /\ conns \in Seq(ConnType) /\ jobs[j].stage = "acquire"
      /\ p \in DOMAIN pools /\ pools \in Seq(PoolType)
      /\ (faults = 0 => p \in inMap)
      /\ \A i \in DOMAIN conns : /\ conns[i].pool \in DOMAIN pools
                                 /\ conns[i].state # "gone" /\ faults = 0 => conns[i].pool \in inMap
  BY DEF Acquire, TransportInv, Shaped, Staged, Waits, Kept
<1>2. Moves(j, "write")
  BY <1>1 DEF Acquire, Moves, JobType
<1>3. /\ valid \in Seq(ConnType) /\ DOMAIN valid = DOMAIN conns
      /\ \A i \in DOMAIN conns : /\ valid[i].pool = conns[i].pool
                                 /\ valid[i].state # "gone" => conns[i].state # "gone"
  <2>1. \A i \in DOMAIN conns :
          LET gone == [conns[i] EXCEPT !.state = "gone"] IN
          gone \in ConnType /\ gone.pool = conns[i].pool /\ gone.state = "gone"
    <3> SUFFICES ASSUME NEW i \in DOMAIN conns
                 PROVE  LET gone == [conns[i] EXCEPT !.state = "gone"] IN
                        gone \in ConnType /\ gone.pool = conns[i].pool /\ gone.state = "gone"
      OBVIOUS
    <3>1. conns[i] \in ConnType
      BY <1>1
    <3> QED
      BY <3>1 DEF ConnType
  <2>2. valid = [i \in DOMAIN conns |-> IF i \in Of(p) \ Lent(p) /\ conns[i].state = "broken"
                                        THEN [conns[i] EXCEPT !.state = "gone"] ELSE conns[i]]
    BY DEF Valid
  <2>3. DOMAIN conns = 1 .. Len(conns) /\ Len(conns) \in Nat
    BY <1>1
  <2> HIDE DEF valid, p
  <2>4. valid \in [1 .. Len(conns) -> ConnType]
    BY <1>1, <2>1, <2>2, <2>3
  <2> QED
    BY <2>1, <2>2, <2>3, <2>4
<1>4. /\ conns' \in Seq(ConnType)
      /\ \A i \in DOMAIN conns' : /\ conns'[i].pool \in DOMAIN pools
                                  /\ conns'[i].state # "gone" /\ faults = 0 => conns'[i].pool \in inMap
  <2>1. CASE conns' = [valid EXCEPT ![Oldest(idle)].user = j]
    <3> DEFINE i0 == Oldest(idle)
               lent == [valid[i0] EXCEPT !.user = j]
    <3> HIDE DEF i0, valid
    <3>1. i0 \in DOMAIN valid => /\ lent \in ConnType /\ lent.pool = valid[i0].pool
                                 /\ lent.state = valid[i0].state
      <4>1. CASE i0 \in DOMAIN valid
        <5>1. valid[i0] \in ConnType
          BY <1>3, <4>1
        <5> QED
          BY <5>1 DEF ConnType
      <4> QED
        BY <4>1
    <3>2. conns' = [valid EXCEPT ![i0] = lent]
      BY <2>1 DEF i0
    <3> HIDE DEF lent
    <3>3. /\ conns' \in Seq(ConnType) /\ DOMAIN conns' = DOMAIN valid
          /\ \A k \in DOMAIN valid : conns'[k] = IF k = i0 THEN lent ELSE valid[k]
      BY <1>3, <3>1, <3>2, OneReplaced
    <3> QED
      BY <1>1, <1>3, <3>1, <3>3
  <2>2. CASE conns' = Append(valid, [pool |-> p, user |-> j, state |-> "open"])
    <3> DEFINE new == [pool |-> p, user |-> j, state |-> "open"]
    <3>1. new \in ConnType /\ new.pool = p
      BY <1>1 DEF ConnType
    <3> HIDE DEF new, valid, p
    <3>2. conns' = Append(valid, new) /\ conns' \in Seq(ConnType)
      BY <1>3, <2>2, <3>1 DEF new
    <3>3. \A i \in DOMAIN conns' : \/ i \in DOMAIN conns /\ conns'[i] = valid[i]
                                   \/ conns'[i] = new
      BY <1>1, <1>3, <3>2
    <3> QED
      BY <1>1, <1>3, <3>1, <3>2, <3>3
  <2> QED
    BY <2>1, <2>2 DEF Acquire
<1>5. Waits(j) /\ UNCHANGED <<way, pools, inMap, sockets, closing, cursor, faults>>
  BY DEF Acquire, Waits
<1> QED
  BY <1>2, <1>4, <1>5, MovesKeep

(* A write calls back, and its connection goes back to the pool. *)
LEMMA WrittenKeeps ==
  ASSUME TransportInv, NEW j \in Job, Written(j)
  PROVE  TransportInv'
<1> DEFINE i0 == CHOOSE i \in DOMAIN conns : conns[i].user = j
<1>1. /\ jobs \in [Job -> JobType] /\ conns \in Seq(ConnType)
      /\ \A i \in DOMAIN conns : /\ conns[i].pool \in DOMAIN pools
                                 /\ conns[i].state # "gone" /\ faults = 0 => conns[i].pool \in inMap
      /\ conns' = [conns EXCEPT ![i0].user = Nobody]
      /\ jobs' = [jobs EXCEPT ![j].stage = "success", ![j].delivered = conns[i0].state = "open"]
      /\ UNCHANGED <<way, pools, inMap, sockets, closing, cursor, faults>>
  BY DEF Written, TransportInv, Shaped, Kept
<1> HIDE DEF i0
<1>2. Moves(j, "success")
  <2> DEFINE open == conns[i0].state = "open"
             rec == [jobs[j] EXCEPT !.stage = "success", !.delivered = open]
  <2>1. open \in BOOLEAN /\ jobs' = [jobs EXCEPT ![j] = rec] /\ jobs[j] \in JobType
    BY <1>1
  <2> HIDE DEF open
  <2>2. rec \in JobType /\ rec.stage = "success" /\ rec.pool = jobs[j].pool /\ rec.late = jobs[j].late
    BY <2>1 DEF JobType
  <2> HIDE DEF rec
  <2>3. Moves(j, rec.stage)
    BY <1>1, <2>1, <2>2, OneMoves
  <2> QED
    BY <2>2, <2>3
<1> DEFINE free == [conns[i0] EXCEPT !.user = Nobody]
<1>3. i0 \in DOMAIN conns => /\ free \in ConnType /\ free.pool = conns[i0].pool
                             /\ free.state = conns[i0].state
  <2>1. CASE i0 \in DOMAIN conns
    <3>1. conns[i0] \in ConnType
      BY <1>1, <2>1
    <3> QED
      BY <3>1 DEF ConnType
  <2> QED
    BY <2>1
<1>4. conns' = [conns EXCEPT ![i0] = free]
  BY <1>1
<1> HIDE DEF free
<1>5. /\ conns' \in Seq(ConnType) /\ DOMAIN conns' = DOMAIN conns
      /\ \A k \in DOMAIN conns : conns'[k] = IF k = i0 THEN free ELSE conns[k]
  <2>1. conns \in Seq(ConnType) /\ (i0 \in DOMAIN conns => free \in ConnType)
    BY <1>1, <1>3
  <2> QED
    BY <1>4, <2>1, OneReplaced
<1>6. \A i \in DOMAIN conns' : /\ conns'[i].pool \in DOMAIN pools
                               /\ conns'[i].state # "gone" /\ faults = 0 => conns'[i].pool \in inMap
  BY <1>1, <1>3, <1>5
<1> QED
  BY <1>1, <1>2, <1>5, <1>6, MovesKeep

(* A transport without connections answers at once; its socket stays.      *)
LEMMA ExecZmqKeeps ==
  ASSUME TransportInv, NEW j \in Job, ExecZmq(j)
  PROVE  TransportInv'
<1>1. PICK stage \in {"success", "failure"} : Become(j, stage)
  BY DEF ExecZmq
<1>2. /\ jobs \in [Job -> JobType] /\ ~jobs[j].late /\ way[j] = "zmq"
      /\ UNCHANGED <<way, pools, inMap, conns, closing, cursor, faults>>
  BY DEF ExecZmq, TransportInv, Shaped, Staged
<1>3. Moves(j, stage) /\ (closing # Open => jobs'[j].late)
  BY <1>1, <1>2, BecomeMoves
<1>4. \A k \in Job : /\ Waits(k)' => Waits(k)
                     /\ jobs'[k].pool = jobs[k].pool /\ (jobs[k].late => jobs'[k].late)
                     /\ (jobs'[k].stage = "idle" => jobs[k].stage = "idle" /\ jobs'[k].late = jobs[k].late)
                     /\ (jobs'[k].stage = "request" => jobs[k].stage = "request")
  BY <1>3 DEF Moves, Waits
<1>5. Shaped'
  BY <1>2, <1>3, <1>4 DEF Moves, TransportInv, Shaped, Turn, Current
<1>6. Staged'
  BY <1>2, <1>4 DEF TransportInv, Staged
<1>7. (faults = 0 => Kept)'
  BY <1>2, <1>4 DEF TransportInv, Kept
<1>8. Emptied'
  BY <1>2, <1>3, <1>4 DEF TransportInv, Emptied, SomeLate, Left
<1> QED
  BY <1>5, <1>6, <1>7, <1>8 DEF TransportInv

(* A pool that is found, or a new one that only this job can have asked for. *)
LEMMA ExecTcpKeeps ==
  ASSUME TransportInv, NEW j \in Job, ExecTcp(j)
  PROVE  TransportInv'
<1> DEFINE found == {p \in inMap : pools[p].addr = Addr[j]}
           at == IF found # {} THEN Oldest(found) ELSE Len(pools) + 1
           late == closing # Open
           stage == IF found # {} /\ pools[at].draining THEN "failure" ELSE "acquire"
           rec == [jobs[j] EXCEPT !.pool = at, !.late = late, !.stage = stage]
           pool == [addr |-> Addr[j], draining |-> FALSE]
           conn == [pool |-> at, user |-> Nobody, state |-> "open"]
<1>1. /\ jobs \in [Job -> JobType] /\ jobs[j] \in JobType /\ ~jobs[j].late /\ way[j] = "tcp"
      /\ pools \in Seq(PoolType) /\ Len(pools) \in Nat /\ DOMAIN pools = 1 .. Len(pools)
      /\ inMap \subseteq DOMAIN pools /\ conns \in Seq(ConnType)
      /\ UNCHANGED <<way, sockets, closing, cursor, faults>>
  <2>1. jobs[j].stage = "idle" /\ way[j] = "tcp" /\ UNCHANGED <<way, sockets, closing, cursor, faults>>
    BY DEF ExecTcp
  <2>2. /\ jobs \in [Job -> JobType] /\ pools \in Seq(PoolType)
        /\ inMap \subseteq DOMAIN pools /\ conns \in Seq(ConnType)
    BY DEF TransportInv, Shaped
  <2>3. ~jobs[j].late
    BY <2>1 DEF TransportInv, Staged
  <2> QED
    BY <2>1, <2>2, <2>3
<1>2. IF found # {} THEN UNCHANGED <<pools, inMap, conns>>
      ELSE pools' = Append(pools, pool) /\ inMap' = inMap \cup {at} /\ conns' = Append(conns, conn)
  BY DEF ExecTcp
<1>3. at \in Nat /\ (found # {} => at \in inMap) /\ (found = {} => at = Len(pools) + 1)
  <2>1. found \in SUBSET Nat /\ found \subseteq inMap
    BY <1>1
  <2> HIDE DEF found
  <2>2. found # {} => Oldest(found) \in found
    BY <2>1, OldestIs
  <2>3. CASE found # {}
    BY <2>1, <2>2, <2>3
  <2>4. CASE found = {}
    BY <1>1, <2>4
  <2> QED
    BY <2>3, <2>4
<1>4. \A p \in inMap : pools[p].addr = Addr[j] => found # {}
  OBVIOUS
<1>5. jobs' = [jobs EXCEPT ![j] = rec]
  BY DEF ExecTcp
<1>6. late \in BOOLEAN /\ stage \in {"failure", "acquire"} /\ (late <=> closing # Open)
  OBVIOUS
<1> HIDE DEF found, at, late, stage
<1>7. rec \in JobType /\ rec.stage = stage /\ rec.pool = at /\ rec.late = late
  BY <1>1, <1>3, <1>6 DEF JobType
<1>8. pool \in PoolType /\ pool.addr = Addr[j]
  BY DEF PoolType
<1>9. conn \in ConnType /\ conn.pool = at
  BY <1>3 DEF ConnType
<1> HIDE DEF rec, pool, conn
<1>10. /\ jobs' \in [Job -> JobType] /\ jobs'[j] = rec /\ \A k \in Job \ {j} : jobs'[k] = jobs[k]
       /\ (late => jobs'[j].late) /\ \A k \in Job : jobs[k].late => jobs'[k].late
  <2>1. /\ jobs' \in [Job -> JobType] /\ jobs'[j] = rec
        /\ \A k \in Job \ {j} : jobs'[k] = jobs[k]
    BY <1>1, <1>5, <1>7
  <2>2. late => jobs'[j].late
    BY <1>7, <2>1
  <2>3. \A k \in Job : jobs[k].late => jobs'[k].late
    BY <1>1, <2>1
  <2> QED
    BY <2>1, <2>2, <2>3
<1>11. \A k \in Job : Waits(k)' => (Waits(k) /\ jobs'[k].pool = jobs[k].pool)
                                   \/ (k = j /\ jobs'[k].pool = at)
  BY <1>7, <1>10 DEF Waits
<1>12. \A k \in Job : /\ jobs'[k].stage = "idle" => jobs[k].stage = "idle" /\ jobs'[k] = jobs[k]
                      /\ jobs'[k].stage = "request" => jobs[k].stage = "request"
                      /\ jobs'[k].pool = jobs[k].pool \/ jobs'[k].pool = at
  BY <1>6, <1>7, <1>10
<1>13. CASE found # {}
  <2>1. UNCHANGED <<pools, inMap, conns>> /\ at \in inMap /\ at \in DOMAIN pools
    BY <1>1, <1>2, <1>3, <1>13
  <2>2. Shaped'
    BY <1>1, <1>10, <1>12, <2>1 DEF TransportInv, Shaped, Turn, Current
  <2>3. Staged'
    BY <1>1, <1>11, <1>12, <2>1 DEF TransportInv, Staged
  <2>4. (faults = 0 => Kept)'
    BY <1>1, <1>11, <2>1 DEF TransportInv, Kept
  <2>5. Emptied'
    BY <1>1, <1>6, <1>10, <1>11, <2>1 DEF TransportInv, Emptied, SomeLate, Left
  <2> QED
    BY <2>2, <2>3, <2>4, <2>5 DEF TransportInv
<1>14. CASE found = {}
  <2>1. /\ pools' \in Seq(PoolType) /\ DOMAIN pools' = DOMAIN pools \cup {at}
        /\ Len(pools') = Len(pools) + 1 /\ at \notin DOMAIN pools
        /\ pools'[at].addr = Addr[j] /\ \A p \in DOMAIN pools : pools'[p] = pools[p]
    <3>1. pools' = Append(pools, pool) /\ at = Len(pools) + 1
      BY <1>2, <1>3, <1>14
    <3>2. /\ pools' \in Seq(PoolType) /\ Len(pools') = Len(pools) + 1 /\ pools'[at] = pool
          /\ \A p \in 1 .. Len(pools) : pools'[p] = pools[p]
      BY <1>1, <1>8, <3>1
    <3>3. DOMAIN pools' = 1 .. (Len(pools) + 1)
      BY <3>2
    <3> QED
      BY <1>1, <1>8, <3>1, <3>2, <3>3
  <2>2. inMap' = inMap \cup {at}
    BY <1>2, <1>14
  <2>3. /\ conns' \in Seq(ConnType)
        /\ \A i \in DOMAIN conns' : (i \in DOMAIN conns /\ conns'[i] = conns[i]) \/ conns'[i] = conn
    <3>1. conns' = Append(conns, conn)
      BY <1>2, <1>14
    <3> QED
      BY <1>1, <1>9, <3>1
  <2>4. Shaped'
    <3>1. \A k \in Job : jobs'[k].pool \in 0 .. Len(pools')
      BY <1>1, <1>3, <1>12, <1>14, <2>1 DEF TransportInv, Shaped
    <3>2. \A i \in DOMAIN conns' : conns'[i].pool \in DOMAIN pools'
      BY <1>9, <2>1, <2>3 DEF TransportInv, Shaped
    <3>3. cursor' \in 0 .. Len(pools')
      BY <1>1, <2>1 DEF TransportInv, Shaped
    <3>4. inMap' \subseteq DOMAIN pools'
      BY <1>1, <2>1, <2>2
    <3> QED
      BY <1>1, <1>10, <2>1, <2>3, <3>1, <3>2, <3>3, <3>4 DEF TransportInv, Shaped, Turn, Current
  <2>5. Staged'
    BY <1>1, <1>11, <1>12, <2>1 DEF TransportInv, Staged
  <2>6. (faults = 0 => Kept)'
    <3> SUFFICES ASSUME faults = 0 PROVE Kept'
      BY <1>1
    <3>1. Kept
      BY DEF TransportInv
    <3>2. \A p, q \in inMap' : pools'[p].addr = pools'[q].addr => p = q
      BY <1>1, <1>4, <1>14, <2>1, <2>2, <3>1 DEF Kept
    <3>3. cursor' # 0 => cursor' \in inMap' /\ \A p \in inMap' : cursor' <= p
      <4>1. cursor \in 0 .. Len(pools)
        BY DEF TransportInv, Shaped
      <4> QED
        BY <1>1, <1>3, <1>14, <2>2, <3>1, <4>1 DEF Kept
    <3>4. \A k \in Job : Waits(k)' => jobs'[k].pool \in inMap'
      BY <1>11, <2>2, <3>1 DEF Kept
    <3>5. \A i \in DOMAIN conns' : conns'[i].state # "gone" => conns'[i].pool \in inMap'
      BY <1>9, <2>2, <2>3, <3>1 DEF Kept
    <3> QED
      BY <3>2, <3>3, <3>4, <3>5 DEF Kept
  <2>7. Emptied'
    BY <1>1, <1>6, <1>10, <1>11, <2>2 DEF TransportInv, Emptied, SomeLate, Left
  <2> QED
    BY <2>4, <2>5, <2>6, <2>7 DEF TransportInv
<1> QED
  BY <1>13, <1>14

(* After a failure of a connection nothing is promised of pools. *)
LEMMA BreakConnectionKeeps ==
  ASSUME TransportInv, NEW i \in DOMAIN conns, BreakConnection(i)
  PROVE  TransportInv'
<1> DEFINE state == IF conns[i].user = Nobody THEN "broken" ELSE "gone"
           conn == [conns[i] EXCEPT !.state = state]
<1>1. /\ conns \in Seq(ConnType) /\ conns[i] \in ConnType /\ faults \in 0 .. MaxErrors
      /\ faults < MaxErrors /\ faults' = faults + 1 /\ MaxErrors \in Nat
      /\ inMap' \subseteq inMap /\ UNCHANGED <<way, jobs, pools, sockets, closing, cursor>>
      /\ \A k \in DOMAIN conns : conns[k].pool \in DOMAIN pools
  BY TransportsAssumption DEF BreakConnection, TransportInv, Shaped
<1>2. conns' = [conns EXCEPT ![i] = conn]
  BY DEF BreakConnection
<1>3. state \in {"broken", "gone"}
  OBVIOUS
<1> HIDE DEF state
<1>4. conn \in ConnType /\ conn.pool = conns[i].pool
  BY <1>1, <1>3 DEF ConnType
<1> HIDE DEF conn
<1>5. /\ conns' \in Seq(ConnType) /\ DOMAIN conns' = DOMAIN conns
      /\ \A k \in DOMAIN conns : conns'[k] = IF k = i THEN conn ELSE conns[k]
  BY <1>1, <1>2, <1>4, OneReplaced
<1>6. faults' \in 0 .. MaxErrors /\ faults' # 0
  BY <1>1
<1>7. Shaped'
  BY <1>1, <1>4, <1>5, <1>6 DEF TransportInv, Shaped, Turn, Current
<1>8. Staged'
  BY <1>1 DEF TransportInv, Staged, Waits
<1>9. Emptied'
  BY <1>1, <1>6 DEF TransportInv, Emptied, SomeLate, Left
<1> QED
  BY <1>6, <1>7, <1>8, <1>9 DEF TransportInv

(* Nor of a socket. *)
LEMMA BreakSocketKeeps ==
  ASSUME TransportInv, NEW a \in sockets, BreakSocket(a)
  PROVE  TransportInv'
<1>1. /\ faults \in 0 .. MaxErrors /\ faults < MaxErrors /\ faults' = faults + 1 /\ MaxErrors \in Nat
      /\ sockets' \subseteq sockets /\ UNCHANGED <<way, jobs, pools, inMap, conns, closing, cursor>>
  BY TransportsAssumption DEF BreakSocket, TransportInv, Shaped
<1>2. faults' \in 0 .. MaxErrors /\ faults' # 0
  BY <1>1
<1>3. Shaped'
  BY <1>1, <1>2 DEF TransportInv, Shaped, Turn, Current
<1>4. Staged'
  BY <1>1 DEF TransportInv, Staged, Waits
<1>5. Emptied'
  BY <1>1, <1>2 DEF TransportInv, Emptied, SomeLate, Left
<1> QED
  BY <1>2, <1>3, <1>4, <1>5 DEF TransportInv

(* One transport after the other is shut down, and the first one last.     *)
LEMMA RestIs ==
  ASSUME Shaped, Turn
  PROVE  /\ Rest \in Seq(Names) /\ Rest # Open /\ (Rest = <<>> \/ Rest[1] = "http")
         /\ \A name : name # Current /\ Left(name) => \E i \in DOMAIN Rest : Rest[i] = name
<1>1. closing \in Seq(Names) /\ closing # <<>> /\ closing[1] = "http"
  BY DEF Shaped, Turn
<1> DEFINE n == Len(closing)
<1>2. n \in Nat /\ n >= 1 /\ DOMAIN closing = 1 .. n
  BY <1>1
<1>3. /\ Rest \in Seq(Names) /\ Len(Rest) = n - 1 /\ DOMAIN Rest = 1 .. (n - 1)
      /\ \A i \in 1 .. (n - 1) : Rest[i] = closing[i]
  BY <1>1, <1>2 DEF Rest
<1>4. Rest = <<>> \/ Rest[1] = "http"
  BY <1>1, <1>2, <1>3
<1>5. Rest # Open
  <2>1. Open[1] = "open" /\ Open # <<>>
    BY DEF Open
  <2> QED
    BY <1>4, <2>1
<1>6. ASSUME NEW name, name # Current, Left(name) PROVE \E i \in DOMAIN Rest : Rest[i] = name
  <2>1. PICK i \in 1 .. n : closing[i] = name
    BY <1>2, <1>6 DEF Left
  <2>2. i # n
    BY <1>6, <2>1 DEF Current
  <2>3. i \in 1 .. (n - 1)
    <3> HIDE DEF n
    <3> QED
      BY <1>2, <2>2
  <2>4. i \in DOMAIN Rest /\ Rest[i] = name
    BY <1>3, <2>1, <2>3
  <2> QED
    BY <2>4
<1> QED
  BY <1>3, <1>4, <1>5, <1>6

(* The shutdown begins: every transport in use is on the list. *)
LEMMA ShutdownKeeps ==
  ASSUME TransportInv, Shutdown
  PROVE  TransportInv'
<1>1. closing = Open /\ closing' = Registry /\ UNCHANGED <<way, jobs, pools, inMap, conns, sockets, cursor, faults>>
  BY DEF Shutdown
<1>2. /\ Registry \in Seq(Names) /\ Registry[1] = "http" /\ Registry # <<>>
      /\ \A i \in DOMAIN Paths : i + 2 \in DOMAIN Registry /\ Registry[i + 2] = Paths[i]
  <2>1. Paths \in Seq(Names) /\ Len(Paths) \in Nat /\ DOMAIN Paths = 1 .. Len(Paths)
    <3>1. /\ Len(Paths) \in Nat /\ DOMAIN Paths = 1 .. Len(Paths)
          /\ Paths = [i \in 1 .. Len(Paths) |-> Paths[i]]
      BY TransportsAssumption
    <3>2. \A i \in 1 .. Len(Paths) : Paths[i] \in Names
      BY <3>1 DEF Names
    <3>3. Paths \in [1 .. Len(Paths) -> Names]
      BY <3>1, <3>2
    <3> QED
      BY <3>1, <3>3
  <2>2. /\ <<"http", "callback">> \in Seq(Names) /\ Len(<<"http", "callback">>) = 2
        /\ <<"http", "callback">>[1] = "http"
    <3>1. "http" \in Names /\ "callback" \in Names
      BY DEF Names
    <3>2. <<"http", "callback">> \in Seq(Names)
      BY <3>1
    <3>3. Len(<<"http", "callback">>) = 2
      OBVIOUS
    <3>4. <<"http", "callback">>[1] = "http"
      OBVIOUS
    <3> QED
      BY <3>2, <3>3, <3>4
  <2>3. /\ Registry \in Seq(Names) /\ Len(Registry) = 2 + Len(Paths)
        /\ \A i \in 1 .. (2 + Len(Paths)) : Registry[i] = IF i <= 2 THEN <<"http", "callback">>[i] ELSE Paths[i - 2]
    BY <2>1, <2>2, ConcatProperties DEF Registry
  <2>4. DOMAIN Registry = 1 .. (2 + Len(Paths))
    BY <2>3
  <2>5. Registry[1] = "http"
    BY <2>1, <2>2, <2>3
  <2>6. \A i \in DOMAIN Paths : i + 2 \in DOMAIN Registry /\ Registry[i + 2] = Paths[i]
    <3> SUFFICES ASSUME NEW i \in DOMAIN Paths PROVE i + 2 \in DOMAIN Registry /\ Registry[i + 2] = Paths[i]
      OBVIOUS
    <3>1. i \in Nat /\ i + 2 \in 1 .. (2 + Len(Paths)) /\ ~(i + 2 <= 2) /\ (i + 2) - 2 = i
      BY <2>1
    <3> QED
      BY <2>3, <2>4, <3>1
  <2> QED
    BY <2>1, <2>3, <2>5, <2>6
<1>3. cursor = 0
  BY <1>1 DEF TransportInv, Shaped, Turn
<1>4. Shaped'
  BY <1>1, <1>2, <1>3 DEF TransportInv, Shaped
<1>5. Staged' /\ (faults = 0 => Kept)'
  BY <1>1 DEF TransportInv, Staged, Kept, Waits
<1>6. \A j \in Job : way[j] \in {"tcp", "zmq"} => \E i \in DOMAIN closing' : closing'[i] = way[j]
  <2>1. way \in Ways
    BY DEF TransportInv, Shaped
  <2> SUFFICES ASSUME NEW j \in Job, way[j] \in {"tcp", "zmq"}
               PROVE  \E i \in DOMAIN closing' : closing'[i] = way[j]
    OBVIOUS
  <2>2. PICK i \in DOMAIN Paths : Paths[i] = way[j]
    BY <2>1, TransportsAssumption
  <2> QED
    BY <1>1, <1>2, <2>2
<1>7. Emptied'
  <2>1. sockets # {} => Left("zmq")'
    BY <1>6 DEF TransportInv, Staged, Left
  <2>2. inMap # {} => Left("tcp")'
    BY <1>6 DEF TransportInv, Staged, Left
  <2>3. \A j \in Job : Waits(j) => Left("tcp")'
    BY <1>6 DEF TransportInv, Staged, Left
  <2> QED
    BY <1>1, <2>1, <2>2, <2>3 DEF Emptied, Waits
<1> QED
  BY <1>4, <1>5, <1>7 DEF TransportInv

(* A transport that is done at once; zmq closes its sockets. *)
LEMMA ShutSimpleKeeps ==
  ASSUME TransportInv, ShutSimple
  PROVE  TransportInv'
<1>1. /\ Turn /\ Current # "tcp" /\ closing' = Rest /\ (Current = "zmq" => sockets' = {})
      /\ (Current # "zmq" => sockets' = sockets)
      /\ UNCHANGED <<way, jobs, pools, inMap, conns, cursor, faults>>
  BY DEF ShutSimple
<1>2. cursor = 0
  BY <1>1 DEF TransportInv, Shaped
<1>3. /\ closing' \in Seq(Names) /\ (closing' = <<>> \/ closing'[1] = "http")
      /\ \A name : name # Current /\ Left(name) => Left(name)'
  BY <1>1, RestIs DEF TransportInv, Left
<1>4. Shaped'
  BY <1>1, <1>2, <1>3 DEF TransportInv, Shaped
<1>5. Staged' /\ (faults = 0 => Kept)'
  BY <1>1 DEF TransportInv, Staged, Kept, Waits
<1>6. closing # Open
  BY <1>1 DEF Turn
<1>7. Emptied'
  BY <1>1, <1>3, <1>6 DEF TransportInv, Emptied, SomeLate, Waits
<1> QED
  BY <1>4, <1>5, <1>7 DEF TransportInv

(* The iterator goes on, or the pools are all gone. *)
LEMMA VisitKeeps ==
  ASSUME TransportInv, Turn, Current = "tcp", NEW map \in SUBSET inMap, Visit(map),
         faults = 0 => \A p \in map : p > cursor,
         conns' \in Seq(ConnType),
         \A i \in DOMAIN conns' : /\ conns'[i].pool \in DOMAIN pools
                                  /\ faults = 0 /\ conns'[i].state # "gone" => conns'[i].pool \in map,
         faults = 0 => \A j \in Job : Waits(j) => jobs[j].pool \in map,
         UNCHANGED <<way, jobs, sockets, faults>>
  PROVE  TransportInv'
<1> DEFINE ahead == {p \in map : p > cursor}
<1>1. /\ pools \in Seq(PoolType) /\ inMap \subseteq DOMAIN pools /\ DOMAIN pools = 1 .. Len(pools)
      /\ Len(pools) \in Nat /\ cursor \in 0 .. Len(pools) /\ inMap' = map
  BY DEF TransportInv, Shaped, Visit
<1>2. closing # Open
  BY DEF Turn
<1>3. CASE ahead = {}
  <2>1. closing' = Rest /\ cursor' = 0 /\ UNCHANGED pools
    BY <1>3 DEF Visit
  <2>2. /\ closing' \in Seq(Names) /\ (closing' = <<>> \/ closing'[1] = "http")
        /\ \A name : name # Current /\ Left(name) => Left(name)'
    BY <2>1, RestIs DEF TransportInv, Left
  <2>3. Shaped'
    BY <1>1, <2>1, <2>2 DEF TransportInv, Shaped
  <2>4. Staged'
    BY <1>1, <2>1 DEF TransportInv, Staged, Waits
  <2>5. (faults = 0 => Kept)'
    BY <1>1, <2>1 DEF TransportInv, Kept, Waits
  <2>6. faults = 0 => map = {}
    BY <1>3
  <2>7. Emptied'
    BY <1>1, <1>2, <2>1, <2>2, <2>6 DEF TransportInv, Emptied, SomeLate, Waits
  <2> QED
    BY <2>3, <2>4, <2>5, <2>7 DEF TransportInv
<1>4. CASE ahead # {}
  <2> DEFINE next == Oldest(ahead)
             pool == [pools[next] EXCEPT !.draining = TRUE]
  <2>1. ahead \subseteq Nat /\ ahead \subseteq map
    BY <1>1
  <2>2. next \in ahead /\ \A p \in ahead : next <= p
    <3> HIDE DEF ahead
    <3> QED
      BY <1>4, <2>1, OldestIs
  <2>3. cursor' = next /\ pools' = [pools EXCEPT ![next] = pool] /\ closing' = closing
    BY <1>4 DEF Visit
  <2>4. next \in DOMAIN pools /\ next # 0 /\ next \in map
    BY <1>1, <2>2
  <2>5. pool \in PoolType /\ pool.addr = pools[next].addr
    <3>1. pools[next] \in PoolType
      BY <1>1, <2>4
    <3> QED
      BY <3>1 DEF PoolType
  <2>6. faults = 0 => \A p \in map : next <= p
    BY <2>2
  <2> HIDE DEF next, pool, ahead
  <2>7. /\ pools' \in Seq(PoolType) /\ DOMAIN pools' = DOMAIN pools /\ Len(pools') = Len(pools)
        /\ \A p \in DOMAIN pools : pools'[p].addr = pools[p].addr
    <3>1. /\ pools' \in Seq(PoolType) /\ DOMAIN pools' = DOMAIN pools /\ Len(pools') = Len(pools)
          /\ \A p \in DOMAIN pools : pools'[p] = IF p = next THEN pool ELSE pools[p]
      BY <1>1, <2>3, <2>5, OneReplaced
    <3> QED
      BY <2>5, <3>1
  <2>8. Shaped'
    BY <1>1, <2>3, <2>4, <2>7 DEF TransportInv, Shaped, Turn, Current
  <2>9. Staged'
    BY <1>1, <2>7 DEF TransportInv, Staged, Waits
  <2>10. (faults = 0 => Kept)'
    BY <1>1, <2>3, <2>4, <2>6, <2>7 DEF TransportInv, Kept, Waits
  <2>11. Emptied'
    BY <1>1, <1>2, <2>3 DEF TransportInv, Emptied, SomeLate, Waits, Left
  <2> QED
    BY <2>8, <2>9, <2>10, <2>11 DEF TransportInv
<1> QED
  BY <1>3, <1>4

(* The shutdown of tcp begins with the oldest pool in the map. *)
LEMMA ShutTcpKeeps ==
  ASSUME TransportInv, ShutTcp
  PROVE  TransportInv'
<1>1. /\ Turn /\ Current = "tcp" /\ cursor = 0 /\ Visit(inMap) /\ conns' = conns
      /\ UNCHANGED <<way, jobs, sockets, faults>>
  BY DEF ShutTcp
<1>2. /\ inMap \subseteq DOMAIN pools /\ DOMAIN pools = 1 .. Len(pools) /\ conns \in Seq(ConnType)
      /\ \A i \in DOMAIN conns : conns[i].pool \in DOMAIN pools
      /\ faults = 0 => Kept
  BY DEF TransportInv, Shaped
<1>3. \A p \in inMap : p > cursor
  BY <1>1, <1>2
<1>4. faults = 0 => /\ \A j \in Job : Waits(j) => jobs[j].pool \in inMap
                    /\ \A i \in DOMAIN conns : conns[i].state # "gone" => conns[i].pool \in inMap
  BY <1>2 DEF Kept
<1> QED
  BY <1>1, <1>2, <1>3, <1>4, VisitKeeps

(* All that waited had a connection, so the pool can go. *)
LEMMA DrainedKeeps ==
  ASSUME TransportInv, Drained
  PROVE  TransportInv'
<1> DEFINE map == {p \in inMap : pools[p].addr # pools[cursor].addr}
           Closed(i) == [conns[i] EXCEPT !.state = "gone"]
<1>1. /\ cursor # 0 /\ Visit(map) /\ UNCHANGED <<way, jobs, sockets, faults>>
      /\ \A j \in Job : jobs[j].pool = cursor => Concluded(j) \/ jobs[j].stage = "idle"
      /\ conns' = [i \in DOMAIN conns |-> IF i \in Of(cursor) THEN Closed(i) ELSE conns[i]]
  BY DEF Drained
<1>2. /\ Turn /\ Current = "tcp" /\ inMap \subseteq DOMAIN pools /\ DOMAIN pools = 1 .. Len(pools)
      /\ conns \in Seq(ConnType) /\ cursor \in Nat
      /\ \A i \in DOMAIN conns : conns[i].pool \in DOMAIN pools
      /\ faults = 0 => Kept
  BY <1>1 DEF TransportInv, Shaped
<1>3. faults = 0 => map = inMap \ {cursor} /\ cursor \in inMap
  BY <1>1, <1>2 DEF Kept
<1>4. faults = 0 => \A p \in inMap : p # cursor => p > cursor
  BY <1>1, <1>2 DEF Kept
<1>5. faults = 0 => \A j \in Job : Waits(j) => jobs[j].pool \in inMap /\ jobs[j].pool # cursor
  BY <1>1, <1>2 DEF Kept, Waits, Concluded
<1>6. \A i \in DOMAIN conns : Closed(i) \in ConnType /\ Closed(i).pool = conns[i].pool
                              /\ Closed(i).state = "gone"
  <2> SUFFICES ASSUME NEW i \in DOMAIN conns
               PROVE  Closed(i) \in ConnType /\ Closed(i).pool = conns[i].pool /\ Closed(i).state = "gone"
    OBVIOUS
  <2>1. conns[i] \in ConnType
    BY <1>2
  <2> QED
    BY <2>1 DEF ConnType
<1> HIDE DEF Closed, map
<1>7. /\ conns' \in Seq(ConnType) /\ DOMAIN conns' = DOMAIN conns
      /\ \A i \in DOMAIN conns : conns'[i] = IF i \in Of(cursor) THEN Closed(i) ELSE conns[i]
  <2>1. DOMAIN conns = 1 .. Len(conns) /\ Len(conns) \in Nat /\ \A i \in DOMAIN conns : conns[i] \in ConnType
    BY <1>2
  <2>2. conns' \in [1 .. Len(conns) -> ConnType]
    BY <1>1, <1>6, <2>1
  <2> QED
    BY <1>1, <2>1, <2>2
<1>8. ASSUME NEW i \in DOMAIN conns'
      PROVE  /\ conns'[i].pool \in DOMAIN pools
             /\ faults = 0 /\ conns'[i].state # "gone" => conns'[i].pool \in map
  <2>1. conns'[i].pool = conns[i].pool
    BY <1>6, <1>7
  <2>2. conns'[i].state # "gone" => conns[i].state # "gone" /\ conns[i].pool # cursor
    BY <1>6, <1>7 DEF Of
  <2>3. faults = 0 /\ conns[i].state # "gone" => conns[i].pool \in inMap
    BY <1>2, <1>7 DEF Kept
  <2> QED
    BY <1>2, <1>3, <1>7, <2>1, <2>2, <2>3
<1>9. map \in SUBSET inMap /\ (faults = 0 => \A p \in map : p > cursor)
      /\ (faults = 0 => \A j \in Job : Waits(j) => jobs[j].pool \in map)
  BY <1>3, <1>4, <1>5 DEF map
<1> QED
  BY <1>1, <1>2, <1>7, <1>8, <1>9, VisitKeeps

(* Nothing has been begun yet. *)
LEMMA InitTransports == TransportsInit => TransportInv
<1> SUFFICES ASSUME TransportsInit PROVE TransportInv
  OBVIOUS
<1>1. /\ way \in Ways /\ jobs = [j \in Job |-> [stage |-> "idle", pool |-> 0, delivered |-> FALSE, late |-> FALSE]]
      /\ pools = <<>> /\ inMap = {} /\ conns = <<>> /\ sockets = {}
      /\ closing = Open /\ cursor = 0 /\ faults = 0
  BY DEF TransportsInit
<1>2. jobs \in [Job -> JobType]
  BY <1>1 DEF JobType
<1>3. Shaped
  <2>1. pools \in Seq(PoolType) /\ Len(pools) = 0 /\ DOMAIN pools = {}
    BY <1>1, EmptySeq
  <2>2. conns \in Seq(ConnType) /\ DOMAIN conns = {}
    BY <1>1, EmptySeq
  <2>3. closing \in Seq(Names)
    <3>1. "open" \in Names
      BY DEF Names
    <3> QED
      BY <1>1, <3>1 DEF Open
  <2>4. \A j \in Job : jobs[j].pool \in 0 .. Len(pools)
    BY <1>1, <2>1
  <2>5. cursor \in 0 .. Len(pools) /\ faults \in 0 .. MaxErrors
    BY <1>1, <2>1, TransportsAssumption
  <2> QED
    BY <1>1, <1>2, <2>1, <2>2, <2>3, <2>4, <2>5 DEF Shaped
<1>4. Staged /\ Kept /\ Emptied
  BY <1>1 DEF Staged, Kept, Emptied, Waits
<1> QED
  BY <1>3, <1>4 DEF TransportInv

(* Every step keeps the invariant. *)
LEMMA NextTransports == TransportInv /\ [TransportsNext]_transportVars => TransportInv'
<1> SUFFICES ASSUME TransportInv, [TransportsNext]_transportVars PROVE TransportInv'
  OBVIOUS
<1>1. CASE UNCHANGED transportVars
  <2>1. UNCHANGED <<way, jobs, pools, inMap, conns, sockets, closing, cursor, faults>>
    BY <1>1 DEF transportVars
  <2>2. Shaped' /\ Staged'
    BY <2>1 DEF TransportInv, Shaped, Staged, Waits, Turn, Current
  <2>3. (faults = 0 => Kept)' /\ Emptied'
    BY <2>1 DEF TransportInv, Kept, Emptied, Waits, SomeLate, Left
  <2> QED
    BY <2>2, <2>3 DEF TransportInv
<1> QED
  BY <1>1, ExecHttpKeeps, RespondHttpKeeps, ExecZmqKeeps, ExecTcpKeeps, AcquireKeeps, WrittenKeeps,
     BreakConnectionKeeps, BreakSocketKeeps, ShutdownKeeps, ShutSimpleKeeps, ShutTcpKeeps, DrainedKeeps
  DEF TransportsNext

(* While no connection breaks, a shutdown that calls back leaves nothing   *)
(* behind, for any jobs, addresses and order of the transports, and however *)
(* many connections a pool has (tcp.js 34-50, zmq.js 77-88).               *)
THEOREM ShutdownDrains == TransportsSpec => []DrainedBeforeClosed
<1>1. TransportInv => DrainedBeforeClosed
  <2> SUFFICES ASSUME TransportInv PROVE DrainedBeforeClosed
    OBVIOUS
  <2>1. TransportsTypeOK
    <3>1. jobs \in [Job -> [stage : {"idle", "request", "acquire", "write", "success", "failure"},
                            pool : 0 .. Len(pools), delivered : BOOLEAN, late : BOOLEAN]]
      <4>1. \A j \in Job : jobs[j] \in JobType /\ jobs[j].pool \in 0 .. Len(pools)
        BY DEF TransportInv, Shaped
      <4>2. \A j \in Job : jobs[j] \in [stage : {"idle", "request", "acquire", "write", "success", "failure"},
                                        pool : 0 .. Len(pools), delivered : BOOLEAN, late : BOOLEAN]
        BY <4>1 DEF JobType
      <4> QED
        BY <4>2 DEF TransportInv, Shaped
    <3>2. \A p \in DOMAIN pools : pools[p].draining \in BOOLEAN
      <4>1. \A p \in DOMAIN pools : pools[p] \in PoolType
        BY DEF TransportInv, Shaped
      <4> QED
        BY <4>1 DEF PoolType
    <3>3. \A i \in DOMAIN conns : /\ conns[i].pool \in DOMAIN pools
                                  /\ conns[i].user \in Job \cup {Nobody}
                                  /\ conns[i].state \in {"open", "broken", "gone"}
      <4>1. \A i \in DOMAIN conns : conns[i] \in ConnType /\ conns[i].pool \in DOMAIN pools
        BY DEF TransportInv, Shaped
      <4> QED
        BY <4>1 DEF ConnType
    <3> QED
      BY <3>1, <3>2, <3>3 DEF TransportInv, Shaped, TransportsTypeOK
  <2>2. ASSUME closing = <<>>, faults = 0
        PROVE  /\ \A j \in Job : Waits(j) => jobs[j].late
               /\ inMap # {} => SomeLate
               /\ sockets # {} => SomeLate
    <3>1. closing # Open /\ \A name : ~Left(name)
      BY <2>2 DEF Open, Left
    <3> QED
      BY <2>2, <3>1 DEF TransportInv, Emptied
  <2>3. ASSUME closing = <<>>, faults = 0
        PROVE  \A j \in Job : way[j] \in {"tcp", "zmq"} /\ ~jobs[j].late =>
                 jobs[j].stage \in {"idle", "success", "failure"}
    <3>1. \A j \in Job : jobs[j].stage \in {"idle", "request", "acquire", "write", "success", "failure"}
      BY <2>1 DEF TransportsTypeOK
    <3> QED
      BY <2>2, <2>3, <3>1 DEF Waits, TransportInv, Staged
  <2>4. ASSUME closing = <<>>, faults = 0
        PROVE  /\ \A i \in DOMAIN conns : conns[i].state = "open" => \E j \in Job : jobs[j].late
               /\ sockets # {} => \E j \in Job : jobs[j].late
    <3>1. \A i \in DOMAIN conns : conns[i].state = "open" => conns[i].pool \in inMap
      BY <2>4 DEF TransportInv, Kept
    <3> QED
      BY <2>2, <2>4, <3>1 DEF SomeLate
  <2> QED
    BY <2>1, <2>3, <2>4 DEF DrainedBeforeClosed
<1> QED
  BY InitTransports, NextTransports, <1>1, PTL DEF TransportsSpec
=============================================================================
