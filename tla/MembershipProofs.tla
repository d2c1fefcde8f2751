--------------------------- MODULE MembershipProofs --------------------------
(* Proofs about Membership.  Every callback that changes the member list,  *)
(* but for Joined and the eviction of a tombstone, announces a set of new  *)
(* states (Overlay); the lemmas say what such a step preserves, and the    *)
(* proof that Inv is inductive has one step per action.                    *)
EXTENDS MembershipInv, TLAPS

(* The states `news` are stored and announced. *)
Stored(news) ==
  /\ DOMAIN news \subseteq Addr
  /\ \A a \in DOMAIN news : news[a] \in States
  /\ members' = [a \in Addr |-> IF a \in DOMAIN news THEN news[a] ELSE members[a]]

Overlay(news, old) == Stored(news) /\ Announce(news, old)

(* They are news: nothing about others that is older than what is known.   *)
IsNews(news) ==
  \A a \in DOMAIN news \ {Self} :
    IF members[a] = None THEN news[a].status # "tombstone"
                         ELSE Newer(news[a], members[a])

(* News about the local member carry the clock as incarnation. *)
OwnIsNow(news) == Self \in DOMAIN news => news[Self].inc = clock

(* The entries of old are those of timers, spent perhaps. *)
SpentEntry(e) == [e EXCEPT !.live = FALSE]
OldFits(old) ==
  /\ old \in [Addr -> Entries \cup {None}]
  /\ \A a \in Addr : \/ old[a] = timers[a]
                     \/ timers[a] # None /\ old[a] = SpentEntry(timers[a])

----------------------------------------------------------------------------
(* A batch assigns a state to each address it speaks of. *)
LEMMA BatchFacts ==
  ASSUME NEW batch \in Batches
  PROVE  /\ DOMAIN batch \subseteq Addr
         /\ \A a \in DOMAIN batch : batch[a] \in States
<1>1. PICK S \in SUBSET Addr : batch \in [S -> [status : Status, inc : 1..MaxInc]]
  BY DEF Batches
<1>2. \A a \in S : batch[a] \in [status : Status, inc : 1..MaxInc]
  BY <1>1
<1>3. 1..MaxInc \subseteq Nat
  BY MembershipAssumption
<1>4. \A a \in S : batch[a] \in States
  BY <1>2, <1>3 DEF States
<1> QED BY <1>1, <1>4

(* A spent entry is an entry that is not live, for the same status.        *)
LEMMA SpentIsEntry ==
  ASSUME NEW e \in Entries
  PROVE  /\ SpentEntry(e) \in Entries /\ SpentEntry(e).live = FALSE
         /\ SpentEntry(e).state = e.state
BY DEF SpentEntry, Entries

(* Spending one timeout gives entries that fit. *)
LEMMA SpentFits ==
  ASSUME TypeOK, NEW a \in Addr, timers[a] # None
  PROVE  OldFits(Spent(a))
<1>1. timers[a] \in Entries
  BY DEF TypeOK
<1>2. Spent(a) = [timers EXCEPT ![a] = SpentEntry(timers[a])]
  BY DEF Spent, SpentEntry
<1>3. SpentEntry(timers[a]) \in Entries
  BY <1>1, SpentIsEntry
<1> QED BY <1>2, <1>3 DEF OldFits, TypeOK

(* The entries as they are fit. *)
LEMMA TimersFit == ASSUME TypeOK PROVE OldFits(timers)
BY DEF OldFits, TypeOK

(* What membership.update does is an overlay of news. *)
LEMMA ApplyIsOverlay ==
  ASSUME TypeOK, LocalMember, phase # "new",
         NEW batch, DOMAIN batch \subseteq Addr,
         \A a \in DOMAIN batch : batch[a] \in States,
         NEW old, Apply(batch, old)
  PROVE  \E news : /\ Overlay(news, old) /\ IsNews(news) /\ OwnIsNow(news)
                   /\ Self \in DOMAIN news => news[Self].status = members[Self].status
<1> DEFINE applied == {a \in DOMAIN batch : ShouldProcess(members[a], batch[a])}
           news == [a \in applied |-> IF a = Self THEN State(members[Self].status, clock)
                                                  ELSE batch[a]]
<1>1. /\ members' = [a \in Addr |-> IF a \in applied THEN news[a] ELSE members[a]]
      /\ Announce(news, old)
  BY DEF Apply
<1>2. DOMAIN news = applied /\ applied \subseteq Addr
  OBVIOUS
<1>3. State(members[Self].status, clock) \in States
      /\ State(members[Self].status, clock).inc = clock
      /\ State(members[Self].status, clock).status = members[Self].status
  <2>1. members[Self] \in States
    BY MembershipAssumption DEF TypeOK, LocalMember
  <2> QED BY <2>1 DEF States, State, TypeOK
<1>4. \A a \in applied : news[a] \in States
  BY <1>3
<1>5. IsNews(news)
  BY DEF IsNews, ShouldProcess
<1>6. Self \in applied => news[Self] = State(members[Self].status, clock)
  OBVIOUS
<1>7. Overlay(news, old)
  BY <1>1, <1>2, <1>4 DEF Overlay, Stored
<1> HIDE DEF news
<1> QED BY <1>2, <1>3, <1>5, <1>6, <1>7 DEF OwnIsNow

(* So is a change made by the node itself, and a new local status. *)
LEMMA ChangeIsOverlay ==
  ASSUME TypeOK, LocalMember, phase # "new",
         NEW a \in Addr, NEW s \in Status, NEW i \in Nat, NEW old,
         Change(a, s, i, old)
  PROVE  \E news : /\ Overlay(news, old) /\ IsNews(news) /\ OwnIsNow(news)
                   /\ Self \in DOMAIN news => news[Self].status = members[Self].status
<1> DEFINE batch == [x \in {a} |-> State(s, i)]
<1>1. DOMAIN batch \subseteq Addr /\ \A x \in DOMAIN batch : batch[x] \in States
  BY DEF State, States
<1>2. Apply(batch, old)
  BY DEF Change
<1> HIDE DEF batch
<1> QED BY <1>1, <1>2, ApplyIsOverlay

(* A change of the own status is an overlay of one entry. *)
LEMMA SetLocalIsOverlay ==
  ASSUME TypeOK, NEW s \in Status, NEW old, SetLocal(s, old)
  PROVE  \E news : /\ Overlay(news, old) /\ IsNews(news) /\ OwnIsNow(news)
                   /\ DOMAIN news = {Self} /\ news[Self].status = s
<1> DEFINE news == [x \in {Self} |-> State(s, clock)]
<1>1. State(s, clock) \in States /\ State(s, clock).inc = clock
      /\ State(s, clock).status = s
  BY DEF State, States, TypeOK
<1>2. DOMAIN news = {Self} /\ news[Self] = State(s, clock)
  OBVIOUS
<1>3. members' = [a \in Addr |-> IF a \in DOMAIN news THEN news[a] ELSE members[a]]
  BY <1>2, MembershipAssumption DEF SetLocal, TypeOK
<1>4. Announce(news, old)
  BY DEF SetLocal
<1> HIDE DEF news
<1>5. Overlay(news, old)
  BY <1>1, <1>2, <1>3, <1>4, MembershipAssumption DEF Overlay, Stored
<1>6. IsNews(news) /\ OwnIsNow(news)
  BY <1>1, <1>2 DEF IsNews, OwnIsNow
<1> QED BY <1>1, <1>2, <1>5, <1>6

----------------------------------------------------------------------------
(* What an overlay preserves. *)

(* handleUpdate returns an entry or none. *)
LEMMA EntryType ==
  ASSUME enabled \in BOOLEAN, NEW a \in Addr, NEW s \in States,
         NEW e \in Entries \cup {None}
  PROVE  EntryAfter(a, s, e) \in Entries \cup {None}
BY DEF EntryAfter, Entry, Entries, States, Decaying

(* An overlay keeps the types. *)
LEMMA OverlayType ==
  ASSUME TypeOK, NEW news, NEW old, Overlay(news, old), OldFits(old)
  PROVE  /\ members' \in [Addr -> States \cup {None}]
         /\ timers' \in [Addr -> Entries \cup {None}]
         /\ ring' \subseteq Addr
         /\ rumors' \in [Addr -> States \cup {None}]
<1>1. members' \in [Addr -> States \cup {None}]
  BY DEF Overlay, Stored, TypeOK
<1>2. rumors' \in [Addr -> States \cup {None}]
  BY DEF Overlay, Stored, Announce, TypeOK
<1>3. ring' \subseteq Addr
  BY DEF Overlay, Stored, Announce, RingAfter, TypeOK
<1>4. timers' \in [Addr -> Entries \cup {None}]
  <2>1. \A a \in Addr : (IF a \in DOMAIN news THEN EntryAfter(a, news[a], old[a]) ELSE old[a])
                         \in Entries \cup {None}
    BY EntryType DEF Overlay, Stored, OldFits, TypeOK
  <2> QED BY <2>1 DEF Overlay, Announce, Schedule
<1> QED BY <1>1, <1>2, <1>3, <1>4

(* An overlay keeps the ring in step with the member list. *)
LEMMA OverlayRing ==
  ASSUME TypeOK, RingFollowsMembers, NEW news, NEW old, Overlay(news, old)
  PROVE  RingFollowsMembers'
<1>1. \A a \in DOMAIN news : news[a] # None
  BY NoneAssumption DEF Overlay, Stored
<1> QED BY <1>1 DEF RingFollowsMembers, Overlay, Stored, Announce, RingAfter, TypeOK

(* An overlay keeps the rumors true to the member list. *)
LEMMA OverlayGossip ==
  ASSUME GossipsItsBeliefs, NEW news, NEW old, Overlay(news, old)
  PROVE  GossipsItsBeliefs'
BY DEF GossipsItsBeliefs, Overlay, Stored, Announce

(* An overlay of news keeps every live timeout with the status it is for.  *)
LEMMA OverlayTimers ==
  ASSUME TypeOK, TimeoutFitsStatus, NEW news, NEW old,
         Overlay(news, old), IsNews(news), OldFits(old), enabled' = enabled
  PROVE  TimeoutFitsStatus'
<1> SUFFICES ASSUME NEW a \in Addr, timers'[a] # None, timers'[a].live
             PROVE  /\ a # Self /\ enabled
                    /\ IF members'[a] = None THEN timers'[a].state = "tombstone"
                       ELSE /\ timers'[a].state = members'[a].status
                            /\ timers'[a].inc <= members'[a].inc
  BY DEF TimeoutFitsStatus
<1>1. ASSUME old[a] # None, old[a].live PROVE old[a] = timers[a]
  BY <1>1, SpentIsEntry DEF OldFits, TypeOK
<1>2. CASE a \notin DOMAIN news
  <2>1. timers'[a] = old[a] /\ members'[a] = members[a]
    BY <1>2 DEF Overlay, Stored, Announce, Schedule
  <2> QED BY <1>1, <2>1 DEF TimeoutFitsStatus
<1>3. CASE a \in DOMAIN news
  <2>1. /\ timers'[a] = EntryAfter(a, news[a], old[a]) /\ members'[a] = news[a]
        /\ news[a] \in States /\ news[a] # None
    BY <1>3, NoneAssumption DEF Overlay, Stored, Announce, Schedule
  <2>2. CASE timers'[a] = Entry(news[a].status, news[a].inc, TRUE) /\ a # Self /\ enabled
    <3>1. /\ timers'[a].state = news[a].status
          /\ timers'[a].inc = news[a].inc
      BY <2>2 DEF Entry
    <3>2. news[a].inc \in Nat
      BY <2>1 DEF States
    <3>3. /\ members'[a] # None /\ timers'[a].state = members'[a].status
          /\ timers'[a].inc <= members'[a].inc
      BY <2>1, <3>1, <3>2
    <3> QED BY <2>2, <3>3
  <2>3. CASE timers'[a] = old[a]
             /\ (~enabled \/ a = Self \/ old[a].state = news[a].status)
    <3>1. old[a] = timers[a] /\ timers[a] # None /\ timers[a].live
      BY <1>1, <2>3
    <3>2. a # Self /\ enabled /\ timers[a].state = news[a].status
      BY <2>3, <3>1 DEF TimeoutFitsStatus
    <3>3. members[a] # None
      BY <1>3, <3>1, <3>2 DEF TimeoutFitsStatus, IsNews
    <3>4. /\ timers[a].inc <= members[a].inc /\ members[a].inc <= news[a].inc
          /\ timers[a].inc \in Nat /\ members[a].inc \in Nat /\ news[a].inc \in Nat
      BY <1>3, <2>1, <3>1, <3>2, <3>3
      DEF TimeoutFitsStatus, IsNews, Newer, TypeOK, States, Entries
    <3> QED BY <2>1, <2>3, <3>1, <3>2, <3>4
  <2>4. \/ EntryAfter(a, news[a], old[a]) = None
        \/ /\ EntryAfter(a, news[a], old[a]) = Entry(news[a].status, news[a].inc, TRUE)
           /\ a # Self /\ enabled
        \/ /\ EntryAfter(a, news[a], old[a]) = old[a]
           /\ ~enabled \/ a = Self \/ old[a].state = news[a].status
    BY DEF EntryAfter
  <2> QED BY <2>1, <2>2, <2>3, <2>4
<1> QED BY <1>2, <1>3

(* An overlay keeps an entry for each member on its way out. *)
LEMMA OverlayDecay ==
  ASSUME TypeOK, DecayHasEntry, PausedWhenDisabled, NEW news, NEW old,
         Overlay(news, old), OldFits(old), paused' = paused
  PROVE  DecayHasEntry'
<1> SUFFICES ASSUME ~paused, NEW a \in Addr \ {Self},
                    members'[a] # None, members'[a].status \in Decaying
             PROVE  timers'[a] # None /\ timers'[a].state = members'[a].status
  BY DEF DecayHasEntry
<1>0. enabled
  BY DEF PausedWhenDisabled
<1>1. CASE a \notin DOMAIN news
  <2>1. timers'[a] = old[a] /\ members'[a] = members[a]
    BY <1>1 DEF Overlay, Stored, Announce, Schedule
  <2>2. timers[a] # None /\ timers[a].state = members[a].status /\ timers[a] \in Entries
    BY <2>1 DEF DecayHasEntry, TypeOK
  <2>3. CASE old[a] = timers[a]
    BY <2>1, <2>2, <2>3
  <2>4. CASE old[a] = SpentEntry(timers[a])
    <3>1. old[a] \in Entries /\ old[a].state = timers[a].state
      BY <2>2, <2>4, SpentIsEntry
    <3> QED BY <2>1, <2>2, <3>1, NoneAssumption
  <2> QED BY <2>3, <2>4 DEF OldFits
<1>2. CASE a \in DOMAIN news
  <2>1. /\ timers'[a] = EntryAfter(a, news[a], old[a]) /\ members'[a] = news[a]
        /\ news[a] \in States
    BY <1>2 DEF Overlay, Stored, Announce, Schedule
  <2>2. CASE timers'[a] = Entry(news[a].status, news[a].inc, TRUE)
    <3>1. timers'[a] \in Entries /\ timers'[a].state = news[a].status
      BY <2>1, <2>2 DEF Entry, Entries, States
    <3> QED BY <2>1, <3>1, NoneAssumption
  <2>3. CASE timers'[a] = old[a] /\ old[a] # None /\ old[a].state = news[a].status
    BY <2>1, <2>3
  <2> QED BY <1>0, <2>1, <2>2, <2>3 DEF EntryAfter
<1> QED BY <1>1, <1>2

(* An overlay keeps the local member known, in the present or the past.    *)
LEMMA OverlayLocal ==
  ASSUME TypeOK, LocalMember, phase # "new", NEW news, NEW old,
         Overlay(news, old), OwnIsNow(news)
  PROVE  members'[Self] # None /\ members'[Self].inc <= clock
BY NoneAssumption, MembershipAssumption
DEF Overlay, Stored, OwnIsNow, LocalMember, TypeOK, States

(* In a node that is ready, an overlay of news preserves the invariant.    *)
LEMMA OverlayInv ==
  ASSUME Inv, phase = "ready", NEW news, NEW old,
         Overlay(news, old), IsNews(news), OwnIsNow(news), OldFits(old),
         UNCHANGED <<phase, enabled, clock, leaves, paused>>
  PROVE  Inv'
<1>0. UNCHANGED phase /\ UNCHANGED enabled /\ UNCHANGED clock /\ UNCHANGED leaves
      /\ UNCHANGED paused
  OBVIOUS
<1>1. TypeOK'
  BY <1>0, OverlayType DEF Inv, TypeOK
<1>2. JoinerKnowsNobody'
  BY <1>0 DEF JoinerKnowsNobody
<1>3. LocalMember'
  BY <1>0, OverlayLocal DEF Inv, LocalMember
<1>4. PausedWhenDisabled'
  BY <1>0 DEF Inv, PausedWhenDisabled
<1>5. RingFollowsMembers' /\ GossipsItsBeliefs'
  BY OverlayRing, OverlayGossip DEF Inv
<1>6. TimeoutFitsStatus'
  BY <1>0, OverlayTimers DEF Inv
<1>7. DecayHasEntry'
  BY <1>0, OverlayDecay DEF Inv
<1> QED BY <1>1, <1>2, <1>3, <1>4, <1>5, <1>6, <1>7 DEF Inv

(* A new local status leaves what is known of others as it was, and makes  *)
(* the local member known.                                                 *)
LEMMA OwnOverlay ==
  ASSUME TypeOK, NEW news, NEW old, Overlay(news, old), OwnIsNow(news),
         DOMAIN news = {Self}
  PROVE  /\ \A a \in Addr \ {Self} : /\ members'[a] = members[a]
                                     /\ rumors'[a] = rumors[a]
                                     /\ timers'[a] = old[a]
         /\ timers'[Self] \in {old[Self], None}
         /\ members'[Self] # None /\ members'[Self].inc = clock
<1>1. /\ \A a \in Addr \ {Self} : /\ members'[a] = members[a]
                                  /\ rumors'[a] = rumors[a]
                                  /\ timers'[a] = old[a]
  BY DEF Overlay, Stored, Announce, Schedule, TypeOK
<1>2. /\ members'[Self] = news[Self] /\ news[Self] \in States
      /\ timers'[Self] = EntryAfter(Self, news[Self], old[Self])
  BY MembershipAssumption DEF Overlay, Stored, Announce, Schedule
<1>3. timers'[Self] \in {old[Self], None}
  BY <1>2 DEF EntryAfter
<1>4. members'[Self] # None /\ members'[Self].inc = clock
  BY <1>2, NoneAssumption DEF OwnIsNow
<1> QED BY <1>1, <1>3, <1>4

(* So it preserves the invariant when the timeouts are those there were:   *)
(* Bootstrap, Rejoin and SelfEvict.                                        *)
LEMMA OwnOverlayInv ==
  ASSUME Inv, NEW news, Overlay(news, timers), OwnIsNow(news), DOMAIN news = {Self},
         UNCHANGED <<clock, leaves, paused>>,
         enabled' \in BOOLEAN, enabled => enabled',
         (phase' = phase /\ phase # "new") \/ (phase = "new" /\ phase' = "joining")
  PROVE  Inv'
<1> USE MembershipAssumption DEF Inv
<1>0. UNCHANGED clock /\ UNCHANGED leaves /\ UNCHANGED paused
  OBVIOUS
<1>1. /\ \A a \in Addr \ {Self} : /\ members'[a] = members[a]
                                  /\ rumors'[a] = rumors[a]
                                  /\ timers'[a] = timers[a]
      /\ timers'[Self] \in {timers[Self], None}
      /\ members'[Self] # None /\ members'[Self].inc = clock
  BY OwnOverlay
<1>2. TypeOK'
  BY <1>0, OverlayType, TimersFit DEF TypeOK
<1>3. JoinerKnowsNobody'
  BY <1>1 DEF JoinerKnowsNobody
<1>4. LocalMember'
  BY <1>0, <1>1 DEF LocalMember, TypeOK
<1>5. PausedWhenDisabled'
  BY <1>0 DEF PausedWhenDisabled
<1>6. RingFollowsMembers' /\ GossipsItsBeliefs'
  BY OverlayRing, OverlayGossip
<1>7. TimeoutFitsStatus'
  <2> SUFFICES ASSUME NEW a \in Addr, timers'[a] # None, timers'[a].live
               PROVE  /\ a # Self /\ enabled'
                      /\ IF members'[a] = None THEN timers'[a].state = "tombstone"
                         ELSE /\ timers'[a].state = members'[a].status
                              /\ timers'[a].inc <= members'[a].inc
    BY DEF TimeoutFitsStatus
  <2>1. timers'[a] = timers[a]
    BY <1>1
  <2> QED BY <1>1, <2>1 DEF TimeoutFitsStatus
<1>8. DecayHasEntry'
  BY <1>0, <1>1 DEF DecayHasEntry
<1> QED BY <1>2, <1>3, <1>4, <1>5, <1>6, <1>7, <1>8

----------------------------------------------------------------------------
(* The actions that are not overlays.                                      *)

(* The members set() takes are new ones, and a tombstone it does not take  *)
(* has a timeout all the same.                                             *)
LEMMA JoinedInv ==
  ASSUME Inv, NEW batch \in Batches, Joined(batch)
  PROVE  Inv'
<1> DEFINE news == [a \in DOMAIN batch \ {Self} |-> batch[a]]
<1> USE DEF Inv
<1>1. /\ DOMAIN news \subseteq Addr \ {Self}
      /\ \A a \in DOMAIN news : news[a] \in States /\ news[a] # None
  BY BatchFacts, NoneAssumption
<1>2. /\ phase = "joining" /\ phase' = "ready"
      /\ members' = [a \in Addr |->
            IF a \in DOMAIN news /\ news[a].status # "tombstone" THEN news[a]
                                                               ELSE members[a]]
      /\ timers' = [a \in Addr |-> IF a \in DOMAIN news
                                    THEN EntryAfter(a, news[a], timers[a]) ELSE timers[a]]
      /\ ring' = ring \cup {a \in DOMAIN news : Pingable(news[a].status)}
      /\ enabled' = enabled /\ rumors' = rumors /\ clock' = clock
      /\ leaves' = leaves /\ paused' = paused
  BY DEF Joined, OnSet, Schedule
<1> HIDE DEF news
<1>3. /\ \A a \in Addr \ {Self} : members[a] = None /\ rumors[a] = None
      /\ \A a \in Addr : timers[a] = None
  BY <1>2 DEF JoinerKnowsNobody
<1>4. members'[Self] = members[Self] /\ timers'[Self] = None
  BY <1>1, <1>2, <1>3, MembershipAssumption
<1>5. \A a \in Addr : timers'[a] # None =>
        /\ a \in DOMAIN news /\ enabled
        /\ news[a].status \in Decaying
        /\ timers'[a] = Entry(news[a].status, news[a].inc, TRUE)
  BY <1>2, <1>3 DEF EntryAfter
<1>6. TypeOK'
  <2>1. timers' \in [Addr -> Entries \cup {None}]
    <3>1. \A a \in DOMAIN news : news[a].status \in Decaying
                 => Entry(news[a].status, news[a].inc, TRUE) \in Entries
      BY <1>1 DEF Entry, Entries, States
    <3> QED BY <1>1, <1>2, <1>3, <3>1 DEF EntryAfter
  <2>2. members' \in [Addr -> States \cup {None}] /\ ring' \subseteq Addr
    BY <1>1, <1>2 DEF TypeOK
  <2> QED BY <1>2, <2>1, <2>2 DEF TypeOK
<1>7. JoinerKnowsNobody' /\ PausedWhenDisabled'
  BY <1>2 DEF JoinerKnowsNobody, PausedWhenDisabled
<1>8. LocalMember'
  BY <1>2, <1>4 DEF LocalMember
<1>9. RingFollowsMembers'
  BY <1>1, <1>2, <1>3 DEF RingFollowsMembers, Pingable
<1>10. GossipsItsBeliefs'
  BY <1>1, <1>2, <1>3, <1>4 DEF GossipsItsBeliefs
<1>11. TimeoutFitsStatus'
  <2> SUFFICES ASSUME NEW a \in Addr, timers'[a] # None, timers'[a].live
               PROVE  /\ a # Self /\ enabled'
                      /\ IF members'[a] = None THEN timers'[a].state = "tombstone"
                         ELSE /\ timers'[a].state = members'[a].status
                              /\ timers'[a].inc <= members'[a].inc
    BY DEF TimeoutFitsStatus
  <2>a. /\ a # Self /\ enabled' /\ a \in DOMAIN news
        /\ timers'[a] = Entry(news[a].status, news[a].inc, TRUE)
    <3>1. enabled' = enabled
      BY <1>2
    <3> QED BY <1>4, <1>5, <3>1
  <2>1. /\ a # Self /\ enabled' /\ a \in DOMAIN news
        /\ timers'[a].state = news[a].status /\ timers'[a].inc = news[a].inc
    BY <2>a DEF Entry
  <2>2. news[a].inc \in Nat
    BY <1>1, <2>1 DEF States
  <2>3. members'[a] = IF news[a].status # "tombstone" THEN news[a] ELSE None
    BY <1>2, <1>3, <2>1
  <2> QED BY <1>1, <2>1, <2>2, <2>3
<1>12. DecayHasEntry'
  <2> SUFFICES ASSUME ~paused, NEW a \in Addr \ {Self},
                      members'[a] # None, members'[a].status \in Decaying
               PROVE  timers'[a] # None /\ timers'[a].state = members'[a].status
    BY <1>2 DEF DecayHasEntry
  <2>1. a \in DOMAIN news /\ members'[a] = news[a] /\ enabled
    BY <1>2, <1>3 DEF PausedWhenDisabled
  <2>2. timers'[a] = Entry(news[a].status, news[a].inc, TRUE)
    BY <1>2, <1>3, <2>1 DEF EntryAfter
  <2>3. timers'[a] \in Entries /\ timers'[a].state = news[a].status
    BY <1>1, <2>1, <2>2 DEF Entry, Entries, States
  <2> QED BY <2>1, <2>3, NoneAssumption
<1> QED BY <1>6, <1>7, <1>8, <1>9, <1>10, <1>11, <1>12

(* Evicting a tombstone touches neither the ring nor the rumors: its       *)
(* timeout was live, so the member is a tombstone, or unknown.             *)
LEMMA EvictInv ==
  ASSUME Inv, NEW b \in Addr, TombstoneToEvict(b)
  PROVE  /\ Inv' /\ b # Self
         /\ members[b] # None => members[b].status = "tombstone"
         /\ members' = [members EXCEPT ![b] = None]
<1> USE DEF Inv
<1>1. /\ timers[b] \in Entries /\ timers[b].live /\ timers[b].state = "tombstone"
      /\ timers[b] # None
  BY DEF TombstoneToEvict, Due, TypeOK
<1>2. b # Self /\ (members[b] # None => members[b].status = "tombstone")
  BY <1>1 DEF TimeoutFitsStatus
<1>3. /\ members' = [members EXCEPT ![b] = None]
      /\ timers' = [timers EXCEPT ![b] = SpentEntry(timers[b])]
      /\ phase' = phase /\ enabled' = enabled /\ ring' = ring /\ rumors' = rumors
      /\ clock' = clock /\ leaves' = leaves /\ paused' = paused
  BY <1>2 DEF TombstoneToEvict, Spent, SpentEntry
<1>4. phase = "ready"
  BY <1>1 DEF JoinerKnowsNobody
<1>5. SpentEntry(timers[b]) \in Entries /\ ~SpentEntry(timers[b]).live
  BY <1>1, SpentIsEntry
<1>6. TypeOK'
  BY <1>3, <1>5 DEF TypeOK
<1>7. JoinerKnowsNobody' /\ PausedWhenDisabled' /\ LocalMember'
  BY <1>2, <1>3, <1>4, MembershipAssumption
  DEF JoinerKnowsNobody, PausedWhenDisabled, LocalMember, TypeOK
<1>8. RingFollowsMembers'
  BY <1>2, <1>3 DEF RingFollowsMembers, Pingable, TypeOK
<1>9. GossipsItsBeliefs'
  BY <1>3 DEF GossipsItsBeliefs, TypeOK
<1>10. TimeoutFitsStatus'
  <2>1. \A a \in Addr \ {b} : timers'[a] = timers[a] /\ members'[a] = members[a]
    BY <1>3 DEF TypeOK
  <2>2. ~timers'[b].live
    BY <1>3, <1>5 DEF TypeOK
  <2> QED BY <1>3, <2>1, <2>2 DEF TimeoutFitsStatus
<1>11. DecayHasEntry'
  <2>1. \A a \in Addr \ {b} : timers'[a] = timers[a] /\ members'[a] = members[a]
    BY <1>3 DEF TypeOK
  <2>2. members'[b] = None
    BY <1>3 DEF TypeOK
  <2> QED BY <1>3, <2>1, <2>2 DEF DecayHasEntry
<1> QED BY <1>2, <1>3, <1>6, <1>7, <1>8, <1>9, <1>10, <1>11

(* Leaving clears every timeout, and leaves the others as they were.       *)
LEMMA LeaveInv ==
  ASSUME Inv, Leave
  PROVE  Inv' /\ \A a \in Addr \ {Self} : members'[a] = members[a]
<1> USE MembershipAssumption DEF Inv
<1>0. /\ phase' = phase /\ phase # "new" /\ enabled' = FALSE /\ paused' = TRUE
      /\ leaves' = leaves + 1 /\ clock' = clock
      /\ SetLocal("leave", Cleared)
  BY DEF Leave
<1>a. \A a \in Addr : Cleared[a] = None
  BY DEF Cleared
<1>1. PICK news : /\ Overlay(news, Cleared) /\ OwnIsNow(news) /\ DOMAIN news = {Self}
                  /\ news[Self].status = "leave"
  BY <1>0, SetLocalIsOverlay DEF Status
<1>2. /\ \A a \in Addr \ {Self} : /\ members'[a] = members[a]
                                  /\ rumors'[a] = rumors[a]
      /\ members'[Self] # None /\ members'[Self].inc = clock
  BY <1>1, OwnOverlay
<1>3. \A a \in Addr : timers'[a] = None
  BY <1>a, <1>1, OwnOverlay
<1>4. timers' \in [Addr -> Entries \cup {None}]
  <2>1. timers' = [a \in Addr |-> timers'[a]]
    BY <1>1 DEF Overlay, Announce, Schedule
  <2> QED BY <1>3, <2>1
<1>5. /\ members' \in [Addr -> States \cup {None}]
      /\ ring' \subseteq Addr
      /\ rumors' \in [Addr -> States \cup {None}]
  BY <1>1 DEF Overlay, Stored, Announce, RingAfter, TypeOK
<1>6. TypeOK'
  <2>1. leaves' \in Nat /\ clock' \in Nat /\ phase' \in {"new", "joining", "ready"}
    BY <1>0 DEF TypeOK
  <2> QED BY <1>0, <1>4, <1>5, <2>1 DEF TypeOK
<1>7. JoinerKnowsNobody' /\ PausedWhenDisabled' /\ LocalMember'
  BY <1>0, <1>2, <1>3 DEF JoinerKnowsNobody, PausedWhenDisabled, LocalMember, TypeOK
<1>8. RingFollowsMembers' /\ GossipsItsBeliefs'
  BY <1>1, OverlayRing, OverlayGossip
<1>9. TimeoutFitsStatus' /\ DecayHasEntry'
  BY <1>0, <1>3 DEF TimeoutFitsStatus, DecayHasEntry
<1> QED BY <1>2, <1>6, <1>7, <1>8, <1>9

----------------------------------------------------------------------------
(* The actions.                                                            *)

(* What gossip, a failed ping, a state transition or a reap does to a node *)
(* that is ready.                                                          *)
ReadyStep(news, old) ==
  /\ phase = "ready"
  /\ Overlay(news, old) /\ IsNews(news) /\ OwnIsNow(news) /\ OldFits(old)
  /\ Self \in DOMAIN news => news[Self].status = members[Self].status
  /\ UNCHANGED <<phase, enabled, clock, leaves, paused>>

ReadyAction ==
  \/ \E batch \in Batches : Update(batch)
  \/ \E a \in Addr : Suspect(a) \/ SuspectToFaulty(a) \/ FaultyToTombstone(a)
  \/ Reap

(* Each of them is an overlay of news. *)
LEMMA ReadyActionIsStep ==
  ASSUME Inv, ReadyAction
  PROVE  \E news, old : ReadyStep(news, old)
<1> USE DEF Inv
<1>1. ASSUME NEW batch \in Batches, Update(batch)
      PROVE  \E news, old : ReadyStep(news, old)
  <2>1. phase = "ready" /\ Apply(batch, timers)
        /\ UNCHANGED <<phase, enabled, clock, leaves, paused>>
    BY <1>1 DEF Update
  <2>2. PICK news : /\ Overlay(news, timers) /\ IsNews(news) /\ OwnIsNow(news)
                    /\ Self \in DOMAIN news => news[Self].status = members[Self].status
    BY <2>1, BatchFacts, ApplyIsOverlay
  <2>3. ReadyStep(news, timers)
    BY <2>1, <2>2, TimersFit DEF ReadyStep
  <2> QED BY <2>3
<1>2. ASSUME NEW a \in Addr, NEW s \in Status, NEW i \in Nat, NEW old,
             phase = "ready", Change(a, s, i, old), OldFits(old),
             UNCHANGED <<phase, enabled, clock, leaves, paused>>
      PROVE  \E news, o : ReadyStep(news, o)
  <2>1. PICK news : /\ Overlay(news, old) /\ IsNews(news) /\ OwnIsNow(news)
                    /\ Self \in DOMAIN news => news[Self].status = members[Self].status
    BY <1>2, ChangeIsOverlay
  <2>2. ReadyStep(news, old)
    BY <1>2, <2>1 DEF ReadyStep
  <2> QED BY <2>2
<1>3. ASSUME NEW a \in Addr, Suspect(a) PROVE \E news, old : ReadyStep(news, old)
  <2>1. members[a].inc \in Nat /\ "suspect" \in Status
    BY <1>3 DEF Suspect, TypeOK, States, Status
  <2>2. /\ phase = "ready" /\ Change(a, "suspect", members[a].inc, timers)
        /\ UNCHANGED <<phase, enabled, clock, leaves, paused>>
    BY <1>3 DEF Suspect
  <2> QED BY <1>2, <2>1, <2>2, TimersFit
<1>4. ASSUME NEW a \in Addr, NEW s \in Decaying, Due(a, s)
      PROVE  phase = "ready" /\ timers[a].inc \in Nat /\ OldFits(Spent(a))
  <2>1. timers[a] # None /\ timers[a] \in Entries
    BY <1>4 DEF Due, TypeOK
  <2>2. phase = "ready"
    BY <2>1 DEF JoinerKnowsNobody
  <2> QED BY <2>1, <2>2, SpentFits DEF Entries
<1>5. ASSUME NEW a \in Addr, SuspectToFaulty(a) PROVE \E news, old : ReadyStep(news, old)
  <2>1. /\ Due(a, "suspect") /\ Change(a, "faulty", timers[a].inc, Spent(a))
        /\ UNCHANGED <<phase, enabled, clock, leaves, paused>>
    BY <1>5 DEF SuspectToFaulty
  <2>2. "suspect" \in Decaying /\ "faulty" \in Status
    BY DEF Decaying, Status
  <2> QED BY <1>2, <1>4, <2>1, <2>2
<1>6. ASSUME NEW a \in Addr, FaultyToTombstone(a) PROVE \E news, old : ReadyStep(news, old)
  <2>1. /\ Due(a, "faulty") /\ Change(a, "tombstone", timers[a].inc, Spent(a))
        /\ UNCHANGED <<phase, enabled, clock, leaves, paused>>
    BY <1>6 DEF FaultyToTombstone
  <2>2. "faulty" \in Decaying /\ "tombstone" \in Status
    BY DEF Decaying, Status
  <2> QED BY <1>2, <1>4, <2>1, <2>2
<1>7. ASSUME Reap PROVE \E news, old : ReadyStep(news, old)
  <2> DEFINE faulty == {a \in Addr : members[a] # None /\ members[a].status = "faulty"}
             batch == [a \in faulty |-> State("tombstone", members[a].inc)]
  <2>1. /\ phase = "ready" /\ Apply(batch, timers)
        /\ UNCHANGED <<phase, enabled, clock, leaves, paused>>
    BY <1>7 DEF Reap
  <2>2. DOMAIN batch \subseteq Addr /\ \A a \in DOMAIN batch : batch[a] \in States
    <3>1. \A a \in faulty : members[a].inc \in Nat
      BY DEF TypeOK, States
    <3> QED BY <3>1 DEF State, States, Status
  <2> HIDE DEF batch
  <2>3. PICK news : /\ Overlay(news, timers) /\ IsNews(news) /\ OwnIsNow(news)
                    /\ Self \in DOMAIN news => news[Self].status = members[Self].status
    BY <2>1, <2>2, ApplyIsOverlay
  <2>4. ReadyStep(news, timers)
    BY <2>1, <2>3, TimersFit DEF ReadyStep
  <2> QED BY <2>4
<1> QED BY <1>1, <1>3, <1>5, <1>6, <1>7 DEF ReadyAction

(* The node's own decisions about its status. *)
OwnAction == Bootstrap \/ Rejoin \/ SelfEvict

(* They preserve the invariant and touch nobody else. *)
LEMMA OwnActionInv ==
  ASSUME Inv, OwnAction
  PROVE  Inv' /\ \A a \in Addr \ {Self} : members'[a] = members[a]
<1> USE DEF Inv
<1>1. \E s \in Status : SetLocal(s, timers)
  BY DEF OwnAction, Bootstrap, Rejoin, SelfEvict, Status
<1>2. PICK news : Overlay(news, timers) /\ OwnIsNow(news) /\ DOMAIN news = {Self}
  BY <1>1, SetLocalIsOverlay
<1>3. /\ UNCHANGED <<clock, leaves, paused>>
      /\ enabled' \in BOOLEAN /\ (enabled => enabled')
      /\ (phase' = phase /\ phase # "new") \/ (phase = "new" /\ phase' = "joining")
  <2>1. /\ UNCHANGED <<clock, leaves, paused>>
        /\ (phase' = phase /\ phase # "new") \/ (phase = "new" /\ phase' = "joining")
    BY DEF OwnAction, Bootstrap, Rejoin, SelfEvict
  <2>2. enabled' = enabled \/ enabled' = TRUE
    BY DEF OwnAction, Bootstrap, Rejoin, SelfEvict
  <2>3. enabled' \in BOOLEAN /\ (enabled => enabled')
    <3>1. enabled \in BOOLEAN
      BY DEF TypeOK
    <3>2. CASE enabled' = enabled
      BY <3>1, <3>2
    <3>3. CASE enabled' = TRUE
      BY <3>3
    <3> QED BY <2>2, <3>2, <3>3
  <2> QED BY <2>1, <2>3
<1> QED BY <1>2, <1>3, OwnOverlayInv, OwnOverlay

(* Forgetting a rumor and the passing of time disturb nothing. *)
LEMMA QuietInv ==
  ASSUME Inv, (\E a \in Addr : Forget(a)) \/ Tick \/ UNCHANGED vars
  PROVE  Inv' /\ members' = members
<1> USE DEF Inv
<1>1. ASSUME NEW a \in Addr, Forget(a) PROVE Inv' /\ members' = members
  BY <1>1 DEF Forget, TypeOK, JoinerKnowsNobody, LocalMember, PausedWhenDisabled,
              RingFollowsMembers, GossipsItsBeliefs, TimeoutFitsStatus, DecayHasEntry
<1>2. ASSUME Tick PROVE Inv' /\ members' = members
  <2>1. clock' = clock + 1 /\ clock \in Nat
        /\ UNCHANGED <<phase, members, timers, enabled, ring, rumors, leaves, paused>>
    BY <1>2 DEF Tick, TypeOK
  <2>2. LocalMember'
    BY <2>1, MembershipAssumption DEF LocalMember, TypeOK, States
  <2>3. TypeOK'
    BY <2>1 DEF TypeOK
  <2> QED BY <2>1, <2>2, <2>3 DEF JoinerKnowsNobody, PausedWhenDisabled,
              RingFollowsMembers, GossipsItsBeliefs, TimeoutFitsStatus, DecayHasEntry
<1>3. ASSUME UNCHANGED vars PROVE Inv' /\ members' = members
  BY <1>3 DEF vars, TypeOK, JoinerKnowsNobody, LocalMember, PausedWhenDisabled,
              RingFollowsMembers, GossipsItsBeliefs, TimeoutFitsStatus, DecayHasEntry
<1> QED BY <1>1, <1>2, <1>3

(* Every step is one of these. *)
LEMMA StepCases ==
  ASSUME [Next]_vars
  PROVE  \/ ReadyAction \/ OwnAction \/ Leave
         \/ \E batch \in Batches : Joined(batch)
         \/ \E a \in Addr : TombstoneToEvict(a)
         \/ (\E a \in Addr : Forget(a)) \/ Tick \/ UNCHANGED vars
BY DEF Next, Transition, ReadyAction, OwnAction

(* The invariant holds at the start. *)
LEMMA InitInv == Init => Inv
<1> SUFFICES ASSUME Init PROVE Inv
  OBVIOUS
<1> USE DEF Init
<1>1. TypeOK
  BY DEF TypeOK
<1>2. JoinerKnowsNobody /\ LocalMember /\ PausedWhenDisabled
  BY MembershipAssumption DEF JoinerKnowsNobody, LocalMember, PausedWhenDisabled
<1>3. RingFollowsMembers
  BY DEF RingFollowsMembers
<1>4. GossipsItsBeliefs /\ TimeoutFitsStatus /\ DecayHasEntry
  BY DEF GossipsItsBeliefs, TimeoutFitsStatus, DecayHasEntry
<1> QED BY <1>1, <1>2, <1>3, <1>4 DEF Inv

(* Every step preserves the invariant. *)
LEMMA StepInv == Inv /\ [Next]_vars => Inv'
<1> SUFFICES ASSUME Inv, [Next]_vars PROVE Inv'
  OBVIOUS
<1>1. CASE ReadyAction
  <2>1. PICK news, old : ReadyStep(news, old)
    BY <1>1, ReadyActionIsStep
  <2> QED BY <2>1, OverlayInv DEF ReadyStep
<1>2. CASE OwnAction
  BY <1>2, OwnActionInv
<1>3. CASE Leave
  BY <1>3, LeaveInv
<1>4. CASE \E batch \in Batches : Joined(batch)
  BY <1>4, JoinedInv
<1>5. CASE \E a \in Addr : TombstoneToEvict(a)
  BY <1>5, EvictInv
<1>6. CASE (\E a \in Addr : Forget(a)) \/ Tick \/ UNCHANGED vars
  BY <1>6, QuietInv
<1> QED BY <1>1, <1>2, <1>3, <1>4, <1>5, <1>6, StepCases

----------------------------------------------------------------------------
(* The theorems, for any set of addresses and any bounds.                  *)

(* In every state of a node the invariant holds. *)
THEOREM InvHolds == Spec => []Inv
BY InitInv, StepInv, PTL DEF Spec

(* The state of the node has its types. *)
THEOREM TypeCorrect == Spec => []TypeOK
<1>1. Inv => TypeOK
  BY DEF Inv
<1> QED BY <1>1, InvHolds, PTL

(* The hash ring holds exactly the members that can be pinged. *)
THEOREM RingIsMembers == Spec => []RingFollowsMembers
<1>1. Inv => RingFollowsMembers
  BY DEF Inv
<1> QED BY <1>1, InvHolds, PTL

(* A node gossips what it believes. *)
THEOREM GossipIsBelief == Spec => []GossipsItsBeliefs
<1>1. Inv => GossipsItsBeliefs
  BY DEF Inv
<1> QED BY <1>1, InvHolds, PTL

(* No timeout outlives the status it was set for. *)
THEOREM TimeoutsFit == Spec => []TimeoutFitsStatus
<1>1. Inv => TimeoutFitsStatus
  BY DEF Inv
<1> QED BY <1>1, InvHolds, PTL

(* Until the node leaves, every member on its way out has its entry. *)
THEOREM DecayIsTracked == Spec => []DecayHasEntry
<1>1. Inv => DecayHasEntry
  BY DEF Inv
<1> QED BY <1>1, InvHolds, PTL

(* Beliefs about others only get newer, whatever the network delivers. *)
THEOREM BeliefsOnlyGetNewer == Spec => BeliefsGetNewer
<1> DEFINE A == \A a \in Addr \ {Self} : members[a] # None =>
                  \/ members'[a] = members[a]
                  \/ members'[a] # None /\ Newer(members'[a], members[a])
                  \/ members'[a] = None /\ members[a].status = "tombstone"
<1>1. Inv /\ [Next]_vars => [A]_vars
  <2> SUFFICES ASSUME Inv, [Next]_vars PROVE A
    OBVIOUS
  <2>1. CASE ReadyAction
    <3>1. PICK news, old : ReadyStep(news, old)
      BY <2>1, ReadyActionIsStep
    <3> SUFFICES ASSUME NEW a \in Addr \ {Self}, members[a] # None
                 PROVE  \/ members'[a] = members[a]
                        \/ members'[a] # None /\ Newer(members'[a], members[a])
      OBVIOUS
    <3>2. CASE a \notin DOMAIN news
      BY <3>1, <3>2 DEF ReadyStep, Overlay, Stored
    <3>3. CASE a \in DOMAIN news
      <4>1. members'[a] = news[a] /\ news[a] # None
        BY <3>1, <3>3, NoneAssumption DEF ReadyStep, Overlay, Stored
      <4>2. Newer(news[a], members[a])
        BY <3>1, <3>3 DEF ReadyStep, IsNews
      <4> QED BY <4>1, <4>2
    <3> QED BY <3>2, <3>3
  <2>2. CASE OwnAction
    BY <2>2, OwnActionInv
  <2>3. CASE Leave
    BY <2>3, LeaveInv
  <2>4. CASE \E batch \in Batches : Joined(batch)
    BY <2>4 DEF Joined, Inv, JoinerKnowsNobody
  <2>5. CASE \E a \in Addr : TombstoneToEvict(a)
    BY <2>5, EvictInv DEF Inv, TypeOK
  <2>6. CASE (\E a \in Addr : Forget(a)) \/ Tick \/ UNCHANGED vars
    BY <2>6, QuietInv
  <2> QED BY <2>1, <2>2, <2>3, <2>4, <2>5, <2>6, StepCases
<1> QED BY <1>1, InvHolds, PTL DEF BeliefsGetNewer, Spec

(* Gossip never changes the node's own status, nor moves it back.          *)
THEOREM OwnStatusHolds == Spec => OwnStatusIsOwn
<1> DEFINE A == (\E batch \in Batches : Update(batch)) =>
                  /\ members'[Self].status = members[Self].status
                  /\ members'[Self].inc >= members[Self].inc
<1>1. Inv /\ [Next]_vars => [A]_vars
  <2> SUFFICES ASSUME Inv, NEW batch \in Batches, Update(batch)
               PROVE  /\ members'[Self].status = members[Self].status
                      /\ members'[Self].inc >= members[Self].inc
    OBVIOUS
  <2>1. PICK news, old : ReadyStep(news, old)
    BY ReadyActionIsStep DEF ReadyAction
  <2>2. /\ members[Self].inc \in Nat /\ clock \in Nat
        /\ members[Self].inc <= clock
    BY <2>1, MembershipAssumption DEF ReadyStep, Inv, TypeOK, LocalMember, States
  <2>3. CASE Self \notin DOMAIN news
    <3>1. members'[Self] = members[Self]
      BY <2>1, <2>3, MembershipAssumption DEF ReadyStep, Overlay, Stored
    <3> QED BY <2>2, <3>1
  <2>4. CASE Self \in DOMAIN news
    <3>1. members'[Self] = news[Self]
      BY <2>1, <2>4, MembershipAssumption DEF ReadyStep, Overlay, Stored
    <3>2. news[Self].status = members[Self].status /\ news[Self].inc = clock
      BY <2>1, <2>4 DEF ReadyStep, OwnIsNow
    <3> QED BY <2>2, <3>1, <3>2
  <2> QED BY <2>3, <2>4
<1> QED BY <1>1, InvHolds, PTL DEF OwnStatusIsOwn, Spec
=============================================================================
