--------------------------- MODULE Agents_proofs ---------------------------
(***************************************************************************)
(* Proofs about the peer scheduler, for every number of peers, tasks and   *)
(* threads, every quota, lease, window and rate.                           *)
(*                                                                         *)
(* Three results with an invariant each.  The counts: whatever the calls   *)
(* that have taken one of the two locks are about to do.  The leases       *)
(* behind a broker: a claim under way is alone.  The rate behind a broker: *)
(* the governor's window never lies ahead of a claim's clock reading.      *)
(***************************************************************************)
EXTENDS PeerScheduler, SubAgent, AppServer, Approvals, TLAPS, FiniteSetTheorems,
        NaturalsInduction, WellFoundedInduction

AgentType == [pc : {"idle", "admit", "quota", "check", "grant", "count", "dec"},
              todo : Todo \cup {None}, peer : Peer \cup {None},
              to : Peer \cup {Back, None}, at : 0..MaxTime]

LeaseType == [peer : Peer, until : 0..(MaxTime + 2 * LeaseLen)]

LeasesOK   == leases \in [Todo -> {NoLease} \cup LeaseType]
CountsOK   == concurrency \in [Peer -> Nat]
AgentsOK   == agent \in [Agent -> AgentType]
SwitchesOK == limited \in BOOLEAN /\ broker \in BOOLEAN
RatesOK    ==
    /\ governor \in [Peer -> [idx : Window, count : Nat]]
    /\ admitted \in [Peer -> [Window -> Nat]]
    /\ now \in 0..MaxTime
GrantsOK   == granted \subseteq Todo \X Peer

\* The type invariant is its parts.
LEMMA SchedTypeParts ==
    /\ SchedTypeOK <=> LeasesOK /\ CountsOK /\ AgentsOK /\ SwitchesOK /\ RatesOK /\ GrantsOK
    /\ SchedTypeOK' <=> LeasesOK' /\ CountsOK' /\ AgentsOK' /\ SwitchesOK' /\ RatesOK' /\ GrantsOK'
BY DEF SchedTypeOK, LeasesOK, CountsOK, AgentsOK, SwitchesOK, RatesOK, GrantsOK, AgentType, LeaseType

\* A call names what it works on: a claim a task and a peer, a handoff the peer
\* it takes the lease from and where it goes.
CallsNamed ==
    \A a \in Agent :
        /\ agent[a].pc # "idle" => agent[a].todo \in Todo /\ agent[a].peer \in Peer
        /\ agent[a].pc \in {"admit", "quota", "check", "grant"} => agent[a].to = None
        /\ agent[a].pc = "dec" => agent[a].to # None

-----------------------------------------------------------------------------
(* Arithmetic and cardinalities.                                           *)

\* Windows are numbered in the order of time.
LEMMA WindowsInOrder ==
    ASSUME NEW i \in 0..MaxTime, NEW j \in 0..MaxTime, i <= j
    PROVE  /\ i \div WindowLen \in Window
           /\ i \div WindowLen <= j \div WindowLen
<1>1. WindowLen \in Nat \ {0} /\ MaxTime \in Nat
  BY SchedAssumption
<1>2. ASSUME NEW m \in Nat, NEW n \in Nat, m <= n
      PROVE  /\ m \div WindowLen \in Nat
             /\ m \div WindowLen <= n \div WindowLen
  BY <1>1, <1>2
<1>3. QED
  BY <1>1, <1>2 DEF Window

\* The record of a thread that is in no call.
LEMMA NoCallIsAgent == NoCall \in AgentType /\ NoCall.pc = "idle" /\ NoCall.to = None
BY SchedAssumption DEF NoCall, AgentType

\* A set that gains at most one element.
LEMMA AtMostOneMore ==
    ASSUME NEW S, NEW T, NEW x, IsFiniteSet(S), T \subseteq S \cup {x}
    PROVE  Cardinality(T) <= Cardinality(S) + 1
<1>1. /\ IsFiniteSet(S \cup {x}) /\ Cardinality(S \cup {x}) <= Cardinality(S) + 1
      /\ Cardinality(S) \in Nat
  BY FS_AddElement, FS_CardinalityType
<1>2. Cardinality(T) <= Cardinality(S \cup {x}) /\ IsFiniteSet(T)
  BY <1>1, FS_Subset
<1>3. Cardinality(T) \in Nat /\ Cardinality(S \cup {x}) \in Nat
  BY <1>1, <1>2, FS_CardinalityType
<1>4. QED
  BY <1>1, <1>2, <1>3

\* A set that gains exactly one element, or loses exactly one.
LEMMA OneMore ==
    ASSUME NEW S, NEW T, NEW x, IsFiniteSet(S), x \notin S, T = S \cup {x}
    PROVE  Cardinality(T) = Cardinality(S) + 1 /\ Cardinality(S) \in Nat
BY FS_AddElement, FS_CardinalityType

LEMMA OneLess ==
    ASSUME NEW S, NEW T, NEW x, IsFiniteSet(S), x \in S, T = S \ {x}
    PROVE  Cardinality(S) = Cardinality(T) + 1 /\ Cardinality(T) \in Nat
<1>1. IsFiniteSet(T) /\ Cardinality(T) = Cardinality(S) - 1
  BY FS_RemoveElement
<1>2. Cardinality(T) \in Nat /\ Cardinality(S) \in Nat
  BY <1>1, FS_CardinalityType
<1>3. QED
  BY <1>1, <1>2

-----------------------------------------------------------------------------
(* The steps, one lemma for each part of the state.                        *)

\* What a call record becomes in a step: it starts, goes on or ends.
LEMMA AgentsStep ==
    ASSUME LeasesOK, AgentsOK, CallsNamed, RatesOK, SchedNext
    PROVE  AgentsOK' /\ CallsNamed'
<1> USE DEF AgentsOK, CallsNamed
<1>1. CASE UNCHANGED agent
  BY <1>1
<1>2. ASSUME NEW a \in Agent, NEW call \in AgentType, agent' = [agent EXCEPT ![a] = call],
             call.pc # "idle" => call.todo \in Todo /\ call.peer \in Peer,
             call.pc \in {"admit", "quota", "check", "grant"} => call.to = None,
             call.pc = "dec" => call.to # None
      PROVE  AgentsOK' /\ CallsNamed'
  BY <1>2
<1>3. ASSUME NEW a \in Agent, Return(a)
      PROVE  AgentsOK' /\ CallsNamed'
  BY <1>2, <1>3, NoCallIsAgent DEF Return
<1>4. ASSUME NEW a \in Agent, NEW pc \in {"quota", "check", "grant", "count"}, Proceed(a, pc),
             agent[a].pc \in {"admit", "quota", "check", "grant"}
      PROVE  AgentsOK' /\ CallsNamed'
  <2> DEFINE call == [agent[a] EXCEPT !.pc = pc]
  <2>1. call \in AgentType /\ call.pc = pc /\ call.todo = agent[a].todo /\ call.peer = agent[a].peer
        /\ call.to = agent[a].to
    BY DEF AgentType
  <2>2. agent' = [agent EXCEPT ![a] = call]
    BY <1>4 DEF Proceed
  <2> HIDE DEF call
  <2>3. QED
    BY <1>2, <1>4, <2>1, <2>2
<1>5. ASSUME NEW a \in Agent, NEW t \in Todo, NEW p \in Peer, Claim(a, t, p)
      PROVE  AgentsOK' /\ CallsNamed'
  <2>1. PICK pc \in {"admit", "quota"} :
           agent' = [agent EXCEPT ![a] = [NoCall EXCEPT !.pc = pc, !.todo = t, !.peer = p, !.at = now]]
    BY <1>5 DEF Claim
  <2> DEFINE call == [NoCall EXCEPT !.pc = pc, !.todo = t, !.peer = p, !.at = now]
  <2>2. call \in AgentType /\ call.pc = pc /\ call.todo = t /\ call.peer = p /\ call.to = None
    BY NoCallIsAgent DEF AgentType, RatesOK
  <2>3. agent' = [agent EXCEPT ![a] = call]
    BY <2>1
  <2> HIDE DEF call
  <2>4. QED
    BY <1>2, <2>2, <2>3
<1>6. ASSUME NEW a \in Agent, NEW t \in Todo, NEW to \in Peer \cup {Back}, Handoff(a, t, to)
      PROVE  AgentsOK' /\ CallsNamed'
  <2> DEFINE call == [NoCall EXCEPT !.pc = "dec", !.todo = t, !.peer = leases[t].peer, !.to = to]
  <2>1. leases[t].peer \in Peer
    BY <1>6 DEF Handoff, LeasesOK, LeaseType
  <2>2. call \in AgentType /\ call.pc = "dec" /\ call.todo = t /\ call.peer = leases[t].peer
        /\ call.to = to
    BY <2>1, NoCallIsAgent DEF AgentType
  <2>3. to # None
    BY SchedAssumption DEF None, Back
  <2>4. agent' = [agent EXCEPT ![a] = call]
    BY <1>6 DEF Handoff
  <2> HIDE DEF call
  <2>5. QED
    BY <1>2, <2>1, <2>2, <2>3, <2>4
<1>7. ASSUME NEW a \in Agent, Admit(a) \/ Quota(a) \/ Check(a) \/ Grant(a)
      PROVE  AgentsOK' /\ CallsNamed'
  BY <1>3, <1>4, <1>7 DEF Admit, Quota, Check, Grant, Deny, Doing
<1>8. ASSUME NEW a \in Agent, Decrement(a)
      PROVE  AgentsOK' /\ CallsNamed'
  <2>1. CASE agent[a].to = Back
    BY <1>3, <1>8, <2>1 DEF Decrement
  <2>2. CASE agent[a].to # Back
    <3> DEFINE call == [agent[a] EXCEPT !.pc = "count", !.peer = agent[a].to]
    <3>1. agent[a] \in AgentType /\ agent[a].to \in Peer /\ agent[a].todo \in Todo
      BY <1>8, <2>2 DEF Decrement, Doing, AgentType
    <3>2. call \in AgentType /\ call.pc = "count" /\ call.todo = agent[a].todo
          /\ call.peer = agent[a].to
      BY <3>1 DEF AgentType
    <3>3. agent' = [agent EXCEPT ![a] = call]
      BY <1>8, <2>2 DEF Decrement
    <3> HIDE DEF call
    <3>4. QED
      BY <1>2, <3>1, <3>2, <3>3
  <2>3. QED
    BY <2>1, <2>2
<1>9. QED
  BY <1>1, <1>3, <1>5, <1>6, <1>7, <1>8 DEF SchedNext, Count, Renew, Tick

\* The leases, counts and grants keep their types.
LEMMA TableStep ==
    ASSUME LeasesOK, CountsOK, GrantsOK, RatesOK, AgentsOK, CallsNamed, SchedNext
    PROVE  LeasesOK' /\ CountsOK' /\ GrantsOK'
<1> USE SchedAssumption DEF LeasesOK, CountsOK, GrantsOK
<1>1. CASE UNCHANGED <<leases, concurrency, granted>>
  BY <1>1
<1>2. ASSUME NEW a \in Agent, Grant(a)
      PROVE  LeasesOK' /\ CountsOK' /\ GrantsOK'
  <2>1. agent[a].todo \in Todo /\ agent[a].peer \in Peer
    BY <1>2 DEF Grant, Doing, CallsNamed
  <2>2. now + LeaseLen \in 0..(MaxTime + 2 * LeaseLen)
    BY DEF RatesOK
  <2>3. QED
    BY <1>2, <2>1, <2>2 DEF Grant, LeaseType
<1>3. ASSUME NEW a \in Agent, Count(a)
      PROVE  LeasesOK' /\ CountsOK' /\ GrantsOK'
  <2>1. agent[a].peer \in Peer
    BY <1>3 DEF Count, Doing, CallsNamed
  <2>2. QED
    BY <1>3, <2>1 DEF Count
<1>4. ASSUME NEW a \in Agent, NEW t \in Todo, NEW to \in Peer \cup {Back}, Handoff(a, t, to)
      PROVE  LeasesOK' /\ CountsOK' /\ GrantsOK'
  <2>1. leases[t] \in LeaseType
    BY <1>4 DEF Handoff
  <2>2. to # Back => [leases[t] EXCEPT !.peer = to] \in LeaseType
    BY <2>1 DEF LeaseType
  <2>3. LeasesOK'
    BY <1>4, <2>2 DEF Handoff
  <2>4. GrantsOK' /\ CountsOK'
    BY <1>4 DEF Handoff
  <2>5. QED
    BY <2>3, <2>4
<1>5. ASSUME NEW a \in Agent, Decrement(a)
      PROVE  LeasesOK' /\ CountsOK' /\ GrantsOK'
  <2>1. agent[a].peer \in Peer
    BY <1>5 DEF Decrement, Doing, CallsNamed
  <2>2. Lowered(concurrency[agent[a].peer]) \in Nat
    BY <2>1 DEF Lowered
  <2>3. QED
    BY <1>5, <2>1, <2>2 DEF Decrement
<1>6. ASSUME NEW t \in Todo, NEW p \in Peer, Renew(t, p)
      PROVE  LeasesOK' /\ CountsOK' /\ GrantsOK'
  <2>1. leases[t] \in LeaseType
    BY <1>6 DEF Renew
  <2>2. [leases[t] EXCEPT !.until = @ + LeaseLen] \in LeaseType
    BY <1>6, <2>1 DEF LeaseType, Renew
  <2>3. QED
    BY <1>6, <2>2 DEF Renew
<1>7. QED
  BY <1>1, <1>2, <1>3, <1>4, <1>5, <1>6
     DEF SchedNext, Claim, Admit, Quota, Check, Deny, Tick

\* The governor, its history and the clock keep their types.
LEMMA RatesStep ==
    ASSUME RatesOK, AgentsOK, CallsNamed, SchedNext
    PROVE  RatesOK'
<1> USE SchedAssumption DEF RatesOK
<1>1. CASE UNCHANGED <<governor, admitted, now>>
  BY <1>1
<1>2. CASE Tick
  BY <1>2 DEF Tick
<1>3. ASSUME NEW a \in Agent, Admit(a)
      PROVE  RatesOK'
  <2> DEFINE p   == agent[a].peer
             idx == agent[a].at \div WindowLen
             e   == IF governor[p].idx = idx THEN governor[p] ELSE [idx |-> idx, count |-> 0]
  <2>1. p \in Peer /\ agent[a].at \in 0..MaxTime
    BY <1>3 DEF Admit, Doing, CallsNamed, AgentsOK, AgentType
  <2>2. idx \in Window
    BY <2>1, WindowsInOrder
  <2>3. e \in [idx : Window, count : Nat]
    BY <2>1, <2>2
  <2>4. [e EXCEPT !.count = @ + 1] \in [idx : Window, count : Nat]
    BY <2>3
  <2>5. /\ \/ governor' = [governor EXCEPT ![p] = e] /\ admitted' = admitted
           \/ /\ governor' = [governor EXCEPT ![p] = [e EXCEPT !.count = @ + 1]]
              /\ admitted' = [admitted EXCEPT ![p][idx] = @ + 1]
        /\ now' = now
    BY <1>3 DEF Admit
  <2> HIDE DEF p, idx, e
  <2>6. governor' \in [Peer -> [idx : Window, count : Nat]]
    BY <2>1, <2>3, <2>4, <2>5
  <2>7. admitted' \in [Peer -> [Window -> Nat]]
    <3>1. [admitted[p] EXCEPT ![idx] = @ + 1] \in [Window -> Nat]
      BY <2>1, <2>2
    <3>2. \/ admitted' = admitted
          \/ admitted' = [admitted EXCEPT ![p] = [admitted[p] EXCEPT ![idx] = @ + 1]]
      BY <2>1, <2>5
    <3>3. QED
      BY <2>1, <3>1, <3>2
  <2>8. QED
    BY <2>5, <2>6, <2>7
<1>4. QED
  BY <1>1, <1>2, <1>3
     DEF SchedNext, Claim, Handoff, Quota, Check, Deny, Grant, Count, Decrement, Renew

-----------------------------------------------------------------------------
(* The counts of concurrent leases.                                        *)

HeldSet(p)  == {t \in Todo : leases[t] # NoLease /\ leases[t].peer = p}
RaiseSet(p) == {a \in Agent : \/ agent[a].pc = "count" /\ agent[a].peer = p
                              \/ agent[a].pc = "dec" /\ agent[a].to = p}
LowerSet(p) == {a \in Agent : agent[a].pc = "dec" /\ agent[a].peer = p}

\* What NeverUndercounted says of one peer.
Covered(p) ==
    concurrency[p] + Cardinality(RaiseSet(p)) >= Cardinality(HeldSet(p)) + Cardinality(LowerSet(p))

LEMMA CoveredIsCounted ==
    /\ NeverUndercounted <=> \A p \in Peer : Covered(p)
    /\ NeverUndercounted' <=> \A p \in Peer : Covered(p)'
BY DEF NeverUndercounted, Covered, Held, ToRaise, ToLower, HeldSet, RaiseSet, LowerSet, Doing

\* The sets that are counted are finite, before a step and after it.
LEMMA CountedSetsFinite ==
    ASSUME NEW p
    PROVE  /\ IsFiniteSet(HeldSet(p)) /\ IsFiniteSet(RaiseSet(p)) /\ IsFiniteSet(LowerSet(p))
           /\ Cardinality(HeldSet(p)) \in Nat /\ Cardinality(HeldSet(p)') \in Nat
           /\ Cardinality(RaiseSet(p)) \in Nat /\ Cardinality(RaiseSet(p)') \in Nat
           /\ Cardinality(LowerSet(p)) \in Nat /\ Cardinality(LowerSet(p)') \in Nat
<1>1. /\ HeldSet(p) \in SUBSET Todo /\ HeldSet(p)' \in SUBSET Todo
      /\ RaiseSet(p) \in SUBSET Agent /\ RaiseSet(p)' \in SUBSET Agent
      /\ LowerSet(p) \in SUBSET Agent /\ LowerSet(p)' \in SUBSET Agent
  BY DEF HeldSet, RaiseSet, LowerSet
<1>2. IsFiniteSet(Todo) /\ IsFiniteSet(Agent)
  BY SchedAssumption
<1>3. /\ IsFiniteSet(HeldSet(p)) /\ IsFiniteSet(HeldSet(p)')
      /\ IsFiniteSet(RaiseSet(p)) /\ IsFiniteSet(RaiseSet(p)')
      /\ IsFiniteSet(LowerSet(p)) /\ IsFiniteSet(LowerSet(p)')
  BY <1>1, <1>2, FS_Subset
<1>4. QED
  BY <1>3, FS_CardinalityType

\* A step that touches neither the leases nor a call between its locks.
LEMMA CoveredKept ==
    ASSUME NEW p \in Peer, Covered(p), concurrency'[p] = concurrency[p],
           HeldSet(p)' = HeldSet(p), RaiseSet(p)' = RaiseSet(p), LowerSet(p)' = LowerSet(p)
    PROVE  Covered(p)'
BY DEF Covered

\* The lease is written first, and its count is owed.
LEMMA CoveredGrant ==
    ASSUME LeasesOK, CountsOK, AgentsOK, CallsNamed, NEW a \in Agent, Grant(a),
           NEW p \in Peer, Covered(p)
    PROVE  Covered(p)'
<1> DEFINE t == agent[a].todo
           q == agent[a].peer
<1> USE DEF LeasesOK, CountsOK, AgentsOK, AgentType
<1>1. t \in Todo /\ q \in Peer /\ agent[a].pc = "grant"
  BY DEF Grant, Doing, CallsNamed
<1>2. LowerSet(p)' = LowerSet(p) /\ concurrency' = concurrency
  BY <1>1 DEF Grant, Proceed, LowerSet
<1>3. CASE p = q
  <2>1. RaiseSet(p)' = RaiseSet(p) \cup {a} /\ a \notin RaiseSet(p)
    BY <1>1, <1>3 DEF Grant, Proceed, RaiseSet
  <2>2. HeldSet(p)' \subseteq HeldSet(p) \cup {t}
    BY <1>1, <1>3 DEF Grant, HeldSet
  <2>3. Cardinality(RaiseSet(p)') = Cardinality(RaiseSet(p)) + 1
    BY <2>1, OneMore, CountedSetsFinite
  <2>4. Cardinality(HeldSet(p)') <= Cardinality(HeldSet(p)) + 1
    BY <2>2, AtMostOneMore, CountedSetsFinite
  <2>5. QED
    BY <1>2, <2>3, <2>4, CountedSetsFinite DEF Covered
<1>4. CASE p # q
  <2>1. RaiseSet(p)' = RaiseSet(p)
    BY <1>1, <1>4 DEF Grant, Proceed, RaiseSet
  <2>2. HeldSet(p)' \in SUBSET HeldSet(p)
    BY <1>1, <1>4 DEF Grant, HeldSet
  <2>3. Cardinality(HeldSet(p)') <= Cardinality(HeldSet(p))
    BY <2>2, FS_Subset, CountedSetsFinite
  <2>4. QED
    BY <1>2, <2>1, <2>3, CountedSetsFinite DEF Covered
<1>5. QED
  BY <1>3, <1>4

\* The count is paid.
LEMMA CoveredCount ==
    ASSUME LeasesOK, CountsOK, AgentsOK, CallsNamed, NEW a \in Agent, Count(a),
           NEW p \in Peer, Covered(p)
    PROVE  Covered(p)'
<1> USE DEF LeasesOK, CountsOK, AgentsOK, AgentType
<1>1. agent[a].peer \in Peer /\ agent[a].pc = "count" /\ NoCall.pc = "idle"
  BY NoCallIsAgent DEF Count, Doing, CallsNamed
<1>2. LowerSet(p)' = LowerSet(p) /\ HeldSet(p)' = HeldSet(p)
  BY <1>1 DEF Count, Return, LowerSet, HeldSet
<1>3. CASE p = agent[a].peer
  <2>1. RaiseSet(p)' = RaiseSet(p) \ {a} /\ a \in RaiseSet(p)
    BY <1>1, <1>3 DEF Count, Return, RaiseSet
  <2>2. Cardinality(RaiseSet(p)) = Cardinality(RaiseSet(p)') + 1
    BY <2>1, OneLess, CountedSetsFinite
  <2>3. concurrency'[p] = concurrency[p] + 1 /\ concurrency[p] \in Nat
    BY <1>1, <1>3 DEF Count
  <2>4. QED
    BY <1>2, <2>2, <2>3, CountedSetsFinite DEF Covered
<1>4. CASE p # agent[a].peer
  <2>1. RaiseSet(p)' = RaiseSet(p)
    BY <1>1, <1>4 DEF Count, Return, RaiseSet
  <2>2. concurrency'[p] = concurrency[p]
    BY <1>1, <1>4 DEF Count
  <2>3. QED
    BY <1>2, <2>1, <2>2, CoveredKept
<1>5. QED
  BY <1>3, <1>4

\* A handoff moves the lease, and owes a decrement to the peer it leaves and an
\* increment to the one it goes to, which may be the same.
LEMMA CoveredHandoff ==
    ASSUME LeasesOK, CountsOK, AgentsOK, CallsNamed,
           NEW a \in Agent, NEW t \in Todo, NEW to \in Peer \cup {Back}, Handoff(a, t, to),
           NEW p \in Peer, Covered(p)
    PROVE  Covered(p)'
<1> DEFINE h == leases[t].peer
           call == [NoCall EXCEPT !.pc = "dec", !.todo = t, !.peer = leases[t].peer, !.to = to]
<1>1. leases[t] # NoLease /\ leases[t] \in LeaseType /\ h \in Peer /\ agent[a].pc = "idle"
  BY DEF Handoff, Doing, LeasesOK, LeaseType
<1>2. call.pc = "dec" /\ call.peer = h /\ call.to = to
  BY <1>1, NoCallIsAgent DEF AgentType
<1>3. agent' = [agent EXCEPT ![a] = call] /\ concurrency' = concurrency
  BY DEF Handoff
<1> HIDE DEF call
<1>4. /\ p = h => LowerSet(p)' = LowerSet(p) \cup {a} /\ a \notin LowerSet(p)
      /\ p # h => LowerSet(p)' = LowerSet(p)
  BY <1>1, <1>2, <1>3 DEF LowerSet, AgentsOK
<1>5. /\ p = to => RaiseSet(p)' = RaiseSet(p) \cup {a} /\ a \notin RaiseSet(p)
      /\ p # to => RaiseSet(p)' = RaiseSet(p)
  BY <1>1, <1>2, <1>3 DEF RaiseSet, AgentsOK
<1>6. /\ p = h => Cardinality(LowerSet(p)') = Cardinality(LowerSet(p)) + 1
      /\ p # h => Cardinality(LowerSet(p)') = Cardinality(LowerSet(p))
  BY <1>4, OneMore, CountedSetsFinite
<1>7. /\ p = to => Cardinality(RaiseSet(p)') = Cardinality(RaiseSet(p)) + 1
      /\ p # to => Cardinality(RaiseSet(p)') = Cardinality(RaiseSet(p))
  BY <1>5, OneMore, CountedSetsFinite
<1>8. leases'[t] = IF to = Back THEN NoLease ELSE [leases[t] EXCEPT !.peer = to]
  BY DEF Handoff, LeasesOK
<1>9. \A u \in Todo \ {t} : leases'[u] = leases[u]
  BY DEF Handoff, LeasesOK
<1>10. to # Back => leases'[t] # NoLease /\ leases'[t].peer = to
  <2> SUFFICES ASSUME to # Back
               PROVE  leases'[t] # NoLease /\ leases'[t].peer = to
    OBVIOUS
  <2>1. leases'[t].peer = to /\ to \in Peer
    BY <1>1, <1>8 DEF LeaseType
  <2>2. NoLease.peer \notin Peer
    BY SchedAssumption DEF NoLease
  <2>3. QED
    BY <2>1, <2>2
<1>11. /\ p = h /\ p # to => HeldSet(p)' = HeldSet(p) \ {t} /\ t \in HeldSet(p)
       /\ p # h /\ p = to => HeldSet(p)' = HeldSet(p) \cup {t} /\ t \notin HeldSet(p)
       /\ (p = h /\ p = to) \/ (p # h /\ p # to) => HeldSet(p)' = HeldSet(p)
  <2>1. p # Back
    BY SchedAssumption
  <2>2. \A u \in Todo \ {t} : u \in HeldSet(p)' <=> u \in HeldSet(p)
    BY <1>9 DEF HeldSet
  <2>3. t \in HeldSet(p) <=> p = h
    BY <1>1 DEF HeldSet
  <2>4. t \in HeldSet(p)' <=> p = to
    BY <1>8, <1>10, <2>1 DEF HeldSet
  <2>5. HeldSet(p) \subseteq Todo /\ HeldSet(p)' \subseteq Todo
    BY DEF HeldSet
  <2> HIDE DEF h
  <2>6. QED
    BY <2>2, <2>3, <2>4, <2>5
<1>12. /\ p = h /\ p # to => Cardinality(HeldSet(p)) = Cardinality(HeldSet(p)') + 1
       /\ p # h /\ p = to => Cardinality(HeldSet(p)') = Cardinality(HeldSet(p)) + 1
       /\ (p = h /\ p = to) \/ (p # h /\ p # to) => Cardinality(HeldSet(p)') = Cardinality(HeldSet(p))
  BY <1>11, OneMore, OneLess, CountedSetsFinite
<1> HIDE DEF h
<1>13. concurrency[p] \in Nat
  BY DEF CountsOK
<1>14. QED
  BY <1>3, <1>6, <1>7, <1>12, <1>13, CountedSetsFinite DEF Covered

\* A decrement that finds no count is dropped, on the strict side.
LEMMA CoveredDecrement ==
    ASSUME LeasesOK, CountsOK, AgentsOK, CallsNamed, NEW a \in Agent, Decrement(a),
           NEW p \in Peer, Covered(p)
    PROVE  Covered(p)'
<1> DEFINE q == agent[a].peer
<1>1. q \in Peer /\ agent[a].pc = "dec" /\ agent[a] \in AgentType
  BY DEF Decrement, Doing, CallsNamed, AgentsOK
<1>2. HeldSet(p)' = HeldSet(p)
  BY DEF Decrement, HeldSet
<1>3. PICK call : /\ agent' = [agent EXCEPT ![a] = call]
                  /\ call.pc \in {"idle", "count"}
                  /\ call.pc = "count" <=> agent[a].to # Back
                  /\ call.pc = "count" => call.peer = agent[a].to
  <2>1. CASE agent[a].to = Back
    BY <2>1, NoCallIsAgent DEF Decrement, Return
  <2>2. CASE agent[a].to # Back
    <3> DEFINE call == [agent[a] EXCEPT !.pc = "count", !.peer = agent[a].to]
    <3>1. call.pc = "count" /\ call.peer = agent[a].to
      BY <1>1 DEF AgentType
    <3>2. agent' = [agent EXCEPT ![a] = call]
      BY <2>2 DEF Decrement, AgentsOK
    <3> HIDE DEF call
    <3>3. QED
      BY <2>2, <3>1, <3>2
  <2>3. QED
    BY <2>1, <2>2
<1>4. p # Back
  BY SchedAssumption
<1>5. RaiseSet(p)' = RaiseSet(p)
  BY <1>1, <1>3, <1>4 DEF RaiseSet, AgentsOK
<1>6. CASE p = q
  <2>1. LowerSet(p)' = LowerSet(p) \ {a} /\ a \in LowerSet(p)
    BY <1>1, <1>3, <1>6 DEF LowerSet, AgentsOK
  <2>2. Cardinality(LowerSet(p)) = Cardinality(LowerSet(p)') + 1
    BY <2>1, OneLess, CountedSetsFinite
  <2>3. concurrency[p] \in Nat /\ concurrency'[p] \in Nat /\ concurrency'[p] + 1 >= concurrency[p]
    BY <1>1, <1>6 DEF Decrement, Lowered, CountsOK
  <2>4. QED
    BY <1>2, <1>5, <2>2, <2>3, CountedSetsFinite DEF Covered
<1>7. CASE p # q
  <2>1. LowerSet(p)' = LowerSet(p)
    BY <1>1, <1>3, <1>7 DEF LowerSet, AgentsOK
  <2>2. concurrency'[p] = concurrency[p]
    BY <1>1, <1>7 DEF Decrement, CountsOK
  <2>3. QED
    BY <1>2, <1>5, <2>1, <2>2, CoveredKept
<1>8. QED
  BY <1>6, <1>7

\* The counts stay covered in every step.
LEMMA CountedStep ==
    ASSUME LeasesOK, CountsOK, AgentsOK, CallsNamed, RatesOK, NeverUndercounted, SchedNext
    PROVE  NeverUndercounted'
<1> SUFFICES ASSUME NEW p \in Peer, Covered(p)
             PROVE  Covered(p)'
  BY CoveredIsCounted
<1>1. CASE UNCHANGED <<leases, agent, concurrency>>
  BY <1>1, CoveredKept DEF HeldSet, RaiseSet, LowerSet
<1>2. ASSUME NEW a \in Agent, NEW call, agent' = [agent EXCEPT ![a] = call],
             UNCHANGED <<leases, concurrency>>,
             agent[a].pc \notin {"count", "dec"}, call.pc \notin {"count", "dec"}
      PROVE  Covered(p)'
  <2>1. RaiseSet(p)' = RaiseSet(p) /\ LowerSet(p)' = LowerSet(p)
    BY <1>2 DEF RaiseSet, LowerSet, AgentsOK
  <2>2. HeldSet(p)' = HeldSet(p)
    BY <1>2 DEF HeldSet
  <2>3. QED
    BY <1>2, <2>1, <2>2, CoveredKept
<1>3. ASSUME NEW a \in Agent, NEW pc \in {"quota", "check", "grant"}, Proceed(a, pc),
             UNCHANGED <<leases, concurrency>>, agent[a].pc \notin {"count", "dec"}
      PROVE  Covered(p)'
  <2> DEFINE call == [agent[a] EXCEPT !.pc = pc]
  <2>1. call.pc = pc
    BY DEF AgentsOK, AgentType
  <2>2. agent' = [agent EXCEPT ![a] = call]
    BY <1>3 DEF Proceed, AgentsOK
  <2> HIDE DEF call
  <2>3. QED
    BY <1>2, <1>3, <2>1, <2>2
<1>4. ASSUME NEW a \in Agent, Return(a), UNCHANGED <<leases, concurrency>>,
             agent[a].pc \notin {"count", "dec"}
      PROVE  Covered(p)'
  BY <1>2, <1>4, NoCallIsAgent DEF Return
<1>5. ASSUME NEW a \in Agent, NEW t \in Todo, NEW q \in Peer, Claim(a, t, q)
      PROVE  Covered(p)'
  <2>1. PICK pc \in {"admit", "quota"} :
           agent' = [agent EXCEPT ![a] = [NoCall EXCEPT !.pc = pc, !.todo = t, !.peer = q, !.at = now]]
    BY <1>5 DEF Claim
  <2> DEFINE call == [NoCall EXCEPT !.pc = pc, !.todo = t, !.peer = q, !.at = now]
  <2>2. call.pc = pc
    BY NoCallIsAgent DEF AgentType
  <2>3. agent' = [agent EXCEPT ![a] = call]
    BY <2>1
  <2> HIDE DEF call
  <2>4. QED
    BY <1>2, <1>5, <2>2, <2>3 DEF Claim, Doing
<1>6. ASSUME NEW a \in Agent, Admit(a) \/ Quota(a) \/ Check(a)
      PROVE  Covered(p)'
  BY <1>3, <1>4, <1>6 DEF Admit, Quota, Check, Deny, Doing
<1>7. ASSUME NEW t \in Todo, NEW q \in Peer, Renew(t, q)
      PROVE  Covered(p)'
  <2>1. leases[t] \in LeaseType /\ leases[t] # NoLease
    BY <1>7 DEF Renew, LeasesOK
  <2>2. leases' = [leases EXCEPT ![t] = [leases[t] EXCEPT !.until = @ + LeaseLen]]
    BY <1>7 DEF Renew, LeasesOK
  <2>3. leases'[t].peer = leases[t].peer /\ leases[t].peer \in Peer
    BY <2>1, <2>2 DEF LeasesOK, LeaseType
  <2>4. NoLease.peer \notin Peer
    BY SchedAssumption DEF NoLease
  <2>5. HeldSet(p)' = HeldSet(p)
    BY <2>1, <2>2, <2>3, <2>4 DEF HeldSet, LeasesOK
  <2>6. UNCHANGED <<agent, concurrency>>
    BY <1>7 DEF Renew
  <2>7. QED
    BY <2>5, <2>6, CoveredKept DEF RaiseSet, LowerSet
<1>8. QED
  BY <1>1, <1>5, <1>6, <1>7, CoveredGrant, CoveredCount, CoveredHandoff, CoveredDecrement
     DEF SchedNext, Tick

-----------------------------------------------------------------------------
(* Claims behind a broker.                                                 *)

\* route_claim takes &mut self: while a claim is under way, nothing else is.
ClaimAlone ==
    broker => \A a, b \in Agent : Claiming(a) /\ a # b => agent[b].pc = "idle"

\* A claim that passed the exclusivity check still finds the task free.
CheckHolds ==
    broker => \A a \in Agent : agent[a].pc = "grant" => leases[agent[a].todo] = NoLease

\* GrantHonoured, pair by pair.
GrantsMatch ==
    broker => \A t \in Todo, p \in Peer :
                 <<t, p>> \in granted <=> leases[t] # NoLease /\ leases[t].peer = p

LEMMA GrantsMatchHonoured ==
    ASSUME LeasesOK, GrantsOK, GrantsMatch
    PROVE  GrantHonoured
<1> SUFFICES ASSUME broker
             PROVE  granted = {<<t, leases[t].peer>> : t \in {u \in Todo : leases[u] # NoLease}}
  BY DEF GrantHonoured
<1>1. \A t \in Todo : leases[t] # NoLease => leases[t].peer \in Peer
  BY DEF LeasesOK, LeaseType
<1>2. ASSUME NEW g \in granted
      PROVE  g \in {<<t, leases[t].peer>> : t \in {u \in Todo : leases[u] # NoLease}}
  <2>1. PICK t \in Todo, p \in Peer : g = <<t, p>>
    BY DEF GrantsOK
  <2>2. QED
    BY <2>1 DEF GrantsMatch
<1>3. ASSUME NEW t \in Todo, leases[t] # NoLease
      PROVE  <<t, leases[t].peer>> \in granted
  BY <1>1, <1>3 DEF GrantsMatch
<1>4. QED
  BY <1>2, <1>3

\* The broker lets a claim in when nothing else is under way, and a handoff
\* when no claim is.
LEMMA AloneStep ==
    ASSUME LeasesOK, AgentsOK, CallsNamed, RatesOK, SwitchesOK, ClaimAlone, SchedNext
    PROVE  ClaimAlone'
<1> SUFFICES ASSUME broker, broker'
             PROVE  \A a, b \in Agent : Claiming(a)' /\ a # b => agent'[b].pc = "idle"
  <2>1. broker' = broker
    BY DEF SchedNext, Claim, Handoff, Admit, Quota, Check, Grant, Count, Decrement, Renew, Tick
  <2>2. QED
    BY <2>1 DEF ClaimAlone
<1>1. \A a, b \in Agent : Claiming(a) /\ a # b => agent[b].pc = "idle"
  BY DEF ClaimAlone
<1>2. CASE UNCHANGED agent
  BY <1>1, <1>2 DEF Claiming, Doing
<1>3. ASSUME NEW a \in Agent, NEW call, agent' = [agent EXCEPT ![a] = call],
             \/ agent[a].pc # "idle" /\ (Claiming(a)' => Claiming(a))
             \/ \A b \in Agent : agent[b].pc = "idle"
             \/ (\A b \in Agent : ~Claiming(b)) /\ ~Claiming(a)'
      PROVE  \A c, b \in Agent : Claiming(c)' /\ c # b => agent'[b].pc = "idle"
  <2>1. \A b \in Agent \ {a} : agent'[b] = agent[b] /\ (Claiming(b)' <=> Claiming(b))
    BY <1>3 DEF AgentsOK, Claiming, Doing
  <2>2. QED
    BY <1>1, <1>3, <2>1 DEF Claiming, Doing
<1>4. ASSUME NEW a \in Agent, NEW t \in Todo, NEW p \in Peer, Claim(a, t, p)
      PROVE  \A c, b \in Agent : Claiming(c)' /\ c # b => agent'[b].pc = "idle"
  BY <1>3, <1>4 DEF Claim, MayClaim, Doing
<1>5. ASSUME NEW a \in Agent, NEW t \in Todo, NEW to \in Peer \cup {Back}, Handoff(a, t, to)
      PROVE  \A c, b \in Agent : Claiming(c)' /\ c # b => agent'[b].pc = "idle"
  <2> DEFINE call == [NoCall EXCEPT !.pc = "dec", !.todo = t, !.peer = leases[t].peer, !.to = to]
  <2>1. call.pc = "dec"
    BY NoCallIsAgent DEF AgentType
  <2>2. agent' = [agent EXCEPT ![a] = call] /\ \A b \in Agent : ~Claiming(b)
    BY <1>5 DEF Handoff, MayHandoff
  <2> HIDE DEF call
  <2>3. ~Claiming(a)'
    BY <2>1, <2>2 DEF AgentsOK, Claiming, Doing
  <2>4. QED
    BY <1>3, <2>2, <2>3
<1>6. ASSUME NEW a \in Agent, Return(a), agent[a].pc # "idle"
      PROVE  \A c, b \in Agent : Claiming(c)' /\ c # b => agent'[b].pc = "idle"
  <2>1. ~Claiming(a)'
    BY <1>6, NoCallIsAgent DEF Return, AgentsOK, Claiming, Doing
  <2>2. QED
    BY <1>3, <1>6, <2>1 DEF Return
<1>7. ASSUME NEW a \in Agent, NEW pc, Proceed(a, pc),
             agent[a].pc \in {"admit", "quota", "check", "grant"}
      PROVE  \A c, b \in Agent : Claiming(c)' /\ c # b => agent'[b].pc = "idle"
  <2>1. Claiming(a)
    BY <1>7 DEF Claiming
  <2>2. agent' = [agent EXCEPT ![a] = [agent[a] EXCEPT !.pc = pc]]
    BY <1>7 DEF Proceed, AgentsOK
  <2>3. QED
    BY <1>3, <1>7, <2>1, <2>2
<1>8. ASSUME NEW a \in Agent, Admit(a) \/ Quota(a) \/ Check(a) \/ Grant(a) \/ Count(a)
      PROVE  \A c, b \in Agent : Claiming(c)' /\ c # b => agent'[b].pc = "idle"
  BY <1>6, <1>7, <1>8 DEF Admit, Quota, Check, Grant, Count, Deny, Doing
<1>9. ASSUME NEW a \in Agent, Decrement(a)
      PROVE  \A c, b \in Agent : Claiming(c)' /\ c # b => agent'[b].pc = "idle"
  <2>1. CASE agent[a].to = Back
    BY <1>6, <1>9, <2>1 DEF Decrement, Doing
  <2>2. CASE agent[a].to # Back
    <3> DEFINE call == [agent[a] EXCEPT !.pc = "count", !.peer = agent[a].to]
    <3>1. call.pc = "count" /\ call.to = agent[a].to /\ agent[a].to # None
      BY <1>9 DEF Decrement, Doing, AgentsOK, AgentType, CallsNamed
    <3>2. agent' = [agent EXCEPT ![a] = call] /\ agent[a].pc # "idle"
      BY <1>9, <2>2 DEF Decrement, Doing, AgentsOK
    <3> HIDE DEF call
    <3>3. ~Claiming(a)'
      BY <3>1, <3>2 DEF AgentsOK, Claiming, Doing
    <3>4. QED
      BY <1>3, <3>2, <3>3
  <2>3. QED
    BY <2>1, <2>2
<1>10. QED
  BY <1>2, <1>4, <1>5, <1>8, <1>9 DEF SchedNext, Renew, Tick

\* The leases change only in a claim that is alone, or while no claim is under
\* way, and each change is answered.
LEMMA GrantStep ==
    ASSUME LeasesOK, AgentsOK, CallsNamed, SwitchesOK, GrantsOK, ClaimAlone, CheckHolds, GrantsMatch,
           SchedNext
    PROVE  CheckHolds' /\ GrantsMatch'
<1> SUFFICES ASSUME broker, broker'
             PROVE  /\ \A a \in Agent : agent'[a].pc = "grant" => leases'[agent'[a].todo] = NoLease
                    /\ \A t \in Todo, p \in Peer :
                          <<t, p>> \in granted' <=> leases'[t] # NoLease /\ leases'[t].peer = p
  <2>1. broker' = broker
    BY DEF SchedNext, Claim, Handoff, Admit, Quota, Check, Grant, Count, Decrement, Renew, Tick
  <2>2. QED
    BY <2>1 DEF CheckHolds, GrantsMatch
<1> DEFINE Goal == /\ \A a \in Agent : agent'[a].pc = "grant" => leases'[agent'[a].todo] = NoLease
                   /\ \A t \in Todo, p \in Peer :
                         <<t, p>> \in granted' <=> leases'[t] # NoLease /\ leases'[t].peer = p
<1>1. /\ \A a \in Agent : agent[a].pc = "grant" => leases[agent[a].todo] = NoLease
      /\ \A t \in Todo, p \in Peer :
            <<t, p>> \in granted <=> leases[t] # NoLease /\ leases[t].peer = p
  BY DEF CheckHolds, GrantsMatch
<1>2. ASSUME UNCHANGED <<leases, granted>>, NEW a \in Agent, NEW call,
             agent' = [agent EXCEPT ![a] = call], call.pc # "grant"
      PROVE  Goal
  BY <1>1, <1>2 DEF AgentsOK
<1>3. ASSUME UNCHANGED <<leases, granted, agent>>
      PROVE  Goal
  BY <1>1, <1>3
<1>4. ASSUME NEW a \in Agent, NEW t \in Todo, NEW p \in Peer, Claim(a, t, p)
      PROVE  Goal
  <2>1. PICK pc \in {"admit", "quota"} :
           agent' = [agent EXCEPT ![a] = [NoCall EXCEPT !.pc = pc, !.todo = t, !.peer = p, !.at = now]]
    BY <1>4 DEF Claim
  <2> DEFINE call == [NoCall EXCEPT !.pc = pc, !.todo = t, !.peer = p, !.at = now]
  <2>2. call.pc = pc
    BY NoCallIsAgent DEF AgentType
  <2>3. agent' = [agent EXCEPT ![a] = call] /\ UNCHANGED <<leases, granted>>
    BY <1>4, <2>1 DEF Claim
  <2> HIDE DEF call, Goal
  <2>4. QED
    BY <1>2, <2>2, <2>3
<1>5. ASSUME NEW a \in Agent, Return(a), UNCHANGED <<leases, granted>>
      PROVE  Goal
  <2> HIDE DEF Goal
  <2>1. QED
    BY <1>2, <1>5, NoCallIsAgent DEF Return
<1>6. ASSUME NEW a \in Agent, NEW pc \in {"quota", "check"}, Proceed(a, pc),
             UNCHANGED <<leases, granted>>
      PROVE  Goal
  <2> DEFINE call == [agent[a] EXCEPT !.pc = pc]
  <2>1. call.pc = pc
    BY DEF AgentsOK, AgentType
  <2>2. agent' = [agent EXCEPT ![a] = call]
    BY <1>6 DEF Proceed, AgentsOK
  <2> HIDE DEF call, Goal
  <2>3. QED
    BY <1>2, <1>6, <2>1, <2>2
<1>7. ASSUME NEW a \in Agent, Admit(a) \/ Quota(a) \/ Count(a)
      PROVE  Goal
  <2> HIDE DEF Goal
  <2>1. QED
    BY <1>5, <1>6, <1>7 DEF Admit, Quota, Count, Deny
<1>8. ASSUME NEW a \in Agent, Check(a)
      PROVE  Goal
  <2>1. CASE Taken(agent[a].todo)
    <3> HIDE DEF Goal
    <3>1. QED
      BY <1>5, <1>8, <2>1 DEF Check, Deny
  <2>2. CASE ~Taken(agent[a].todo)
    BY <1>1, <1>8, <2>2 DEF Check, Proceed, AgentsOK, AgentType, Taken
  <2>3. QED
    BY <2>1, <2>2
<1>9. ASSUME NEW a \in Agent, Grant(a)
      PROVE  Goal
  <2> DEFINE u == agent[a].todo
             q == agent[a].peer
  <2>1. agent[a].pc = "grant" /\ u \in Todo /\ q \in Peer
    BY <1>9 DEF Grant, Doing, CallsNamed
  <2>2. \A b \in Agent : agent'[b].pc # "grant"
    <3>1. \A b \in Agent \ {a} : agent[b].pc = "idle"
      BY <2>1 DEF ClaimAlone, Claiming
    <3>2. agent'[a].pc = "count"
      BY <1>9 DEF Grant, Proceed, AgentsOK, AgentType
    <3>3. QED
      BY <1>9, <3>1, <3>2 DEF Grant, Proceed, AgentsOK
  <2>3. /\ leases' = [leases EXCEPT ![u] = [peer |-> q, until |-> now + LeaseLen]]
        /\ granted' = granted \cup {<<u, q>>}
    BY <1>9 DEF Grant
  <2>4. leases[u] = NoLease /\ NoLease.peer # q
    BY <1>1, <2>1, SchedAssumption DEF NoLease
  <2> HIDE DEF u, q
  <2>5. leases'[u] # NoLease /\ leases'[u].peer = q
    BY <2>1, <2>3, <2>4 DEF LeasesOK
  <2>6. ASSUME NEW t \in Todo, NEW p \in Peer
        PROVE  <<t, p>> \in granted' <=> leases'[t] # NoLease /\ leases'[t].peer = p
    <3>1. CASE t = u
      BY <1>1, <2>1, <2>3, <2>4, <2>5, <3>1
    <3>2. CASE t # u
      BY <1>1, <2>1, <2>3, <3>2 DEF LeasesOK
    <3>3. QED
      BY <3>1, <3>2
  <2>7. QED
    BY <2>2, <2>6
<1>10. ASSUME NEW a \in Agent, NEW u \in Todo, NEW to \in Peer \cup {Back}, Handoff(a, u, to)
       PROVE  Goal
  <2> DEFINE call == [NoCall EXCEPT !.pc = "dec", !.todo = u, !.peer = leases[u].peer, !.to = to]
  <2>1. \A b \in Agent : agent'[b].pc # "grant"
    <3>1. call.pc = "dec" /\ agent' = [agent EXCEPT ![a] = call]
      BY <1>10, NoCallIsAgent DEF Handoff, AgentType
    <3>2. \A b \in Agent : agent[b].pc # "grant"
      BY <1>10 DEF Handoff, MayHandoff, Claiming
    <3> HIDE DEF call
    <3>3. QED
      BY <3>1, <3>2 DEF AgentsOK
  <2>2. /\ leases[u] \in LeaseType
        /\ leases' = [leases EXCEPT ![u] = IF to = Back THEN NoLease ELSE [leases[u] EXCEPT !.peer = to]]
        /\ granted' = {g \in granted : g[1] # u} \cup (IF to = Back THEN {} ELSE {<<u, to>>})
    BY <1>10 DEF Handoff, LeasesOK
  <2>3. /\ to = Back => leases'[u] = NoLease
        /\ to # Back => leases'[u] # NoLease /\ leases'[u].peer = to
    <3>1. NoLease.peer \notin Peer
      BY SchedAssumption DEF NoLease
    <3>2. QED
      BY <2>2, <3>1 DEF LeasesOK, LeaseType
  <2>4. ASSUME NEW t \in Todo, NEW p \in Peer
        PROVE  <<t, p>> \in granted' <=> leases'[t] # NoLease /\ leases'[t].peer = p
    <3>1. CASE t = u
      <4>1. <<t, p>> \in granted' <=> to # Back /\ p = to
        BY <2>2, <3>1
      <4>2. QED
        BY <2>3, <3>1, <4>1
    <3>2. CASE t # u
      <4>1. <<t, p>> \in granted' <=> <<t, p>> \in granted
        BY <2>2, <3>2
      <4>2. leases'[t] = leases[t]
        BY <2>2, <3>2 DEF LeasesOK
      <4>3. QED
        BY <1>1, <4>1, <4>2
    <3>3. QED
      BY <3>1, <3>2
  <2>5. QED
    BY <2>1, <2>4
<1>11. ASSUME NEW a \in Agent, Decrement(a)
       PROVE  Goal
  <2>1. CASE agent[a].to = Back
    <3> HIDE DEF Goal
    <3>1. QED
      BY <1>5, <1>11, <2>1 DEF Decrement
  <2>2. CASE agent[a].to # Back
    <3> DEFINE call == [agent[a] EXCEPT !.pc = "count", !.peer = agent[a].to]
    <3>1. call.pc = "count"
      BY DEF AgentsOK, AgentType
    <3>2. agent' = [agent EXCEPT ![a] = call] /\ UNCHANGED <<leases, granted>>
      BY <1>11, <2>2 DEF Decrement, AgentsOK
    <3> HIDE DEF call, Goal
    <3>3. QED
      BY <1>2, <3>1, <3>2
  <2>3. QED
    BY <2>1, <2>2
<1>12. ASSUME NEW u \in Todo, NEW q \in Peer, Renew(u, q)
       PROVE  Goal
  <2>1. \A b \in Agent : agent'[b].pc # "grant"
    BY <1>12 DEF Renew, MayHandoff, Claiming
  <2>2. /\ leases[u] \in LeaseType /\ leases[u] # NoLease /\ granted' = granted
        /\ leases' = [leases EXCEPT ![u] = [leases[u] EXCEPT !.until = @ + LeaseLen]]
    BY <1>12 DEF Renew, LeasesOK
  <2>3. leases'[u].peer = leases[u].peer /\ leases'[u] # NoLease
    <3>1. NoLease.peer \notin Peer
      BY SchedAssumption DEF NoLease
    <3>2. QED
      BY <2>2, <3>1 DEF LeasesOK, LeaseType
  <2>4. QED
    BY <1>1, <2>1, <2>2, <2>3 DEF LeasesOK
<1>13. Goal
  <2> HIDE DEF Goal
  <2>1. QED
    BY <1>3, <1>4, <1>7, <1>8, <1>9, <1>10, <1>11, <1>12 DEF SchedNext, Tick
<1>14. QED
  BY <1>13

-----------------------------------------------------------------------------
(* The claim rate behind a broker.                                         *)

\* The governor's window is not ahead of the clock, nor of the reading a claim
\* that is under way has made of it.
ReadingInOrder ==
    broker => \A p \in Peer :
        /\ governor[p].idx <= now \div WindowLen
        /\ \A a \in Agent : agent[a].pc = "admit" =>
              agent[a].at <= now /\ governor[p].idx <= agent[a].at \div WindowLen

\* The governor has counted the claims of its window, and no later window has
\* seen one.
GovernorCounts ==
    broker => \A p \in Peer :
        /\ governor[p].count <= MaxClaims
        /\ admitted[p][governor[p].idx] <= governor[p].count
        /\ \A w \in Window : w > governor[p].idx => admitted[p][w] = 0

RateInv == ReadingInOrder /\ GovernorCounts /\ RateBounded

\* A claim that is not admitted by this step does not change the rates.
LEMMA RateQuiet ==
    ASSUME AgentsOK, RatesOK, SwitchesOK, RateInv, broker' = broker, UNCHANGED <<governor, admitted>>,
           now' \in 0..MaxTime, now <= now',
           \A a \in Agent : agent'[a].pc = "admit" =>
              \/ agent[a].pc = "admit" /\ agent'[a].at = agent[a].at
              \/ agent'[a].at = now /\ now' = now
    PROVE  RateInv'
<1>1. ReadingInOrder'
  <2> SUFFICES ASSUME broker, NEW p \in Peer
               PROVE  /\ governor[p].idx <= now' \div WindowLen
                      /\ \A a \in Agent : agent'[a].pc = "admit" =>
                            agent'[a].at <= now' /\ governor[p].idx <= agent'[a].at \div WindowLen
    BY DEF ReadingInOrder
  <2>1. governor[p].idx \in Nat /\ governor[p].idx <= now \div WindowLen
    BY DEF RateInv, ReadingInOrder, RatesOK, Window
  <2>2. now \div WindowLen <= now' \div WindowLen
    BY WindowsInOrder DEF RatesOK
  <2>3. now \div WindowLen \in Nat /\ now' \div WindowLen \in Nat
    BY WindowsInOrder DEF RatesOK, Window
  <2>4. ASSUME NEW a \in Agent, agent'[a].pc = "admit"
        PROVE  agent'[a].at <= now' /\ governor[p].idx <= agent'[a].at \div WindowLen
    <3>1. CASE agent[a].pc = "admit" /\ agent'[a].at = agent[a].at
      <4>1. agent[a].at <= now /\ agent[a].at \in Nat
        BY <3>1 DEF RateInv, ReadingInOrder, AgentsOK, AgentType
      <4>2. governor[p].idx <= agent[a].at \div WindowLen
        BY <3>1 DEF RateInv, ReadingInOrder
      <4>3. QED
        BY <3>1, <4>1, <4>2 DEF RatesOK
    <3>2. CASE agent'[a].at = now /\ now' = now
      BY <2>1, <3>2 DEF RatesOK
    <3>3. QED
      BY <2>4, <3>1, <3>2
  <2>5. QED
    BY <2>1, <2>2, <2>3, <2>4
<1>2. GovernorCounts' /\ RateBounded'
  BY DEF RateInv, GovernorCounts, RateBounded
<1>3. QED
  BY <1>1, <1>2 DEF RateInv

\* try_admit counts the claim in the window of its reading, which is the
\* governor's window or a later one that nobody has used.
LEMMA RateAdmit ==
    ASSUME AgentsOK, CallsNamed, RatesOK, SwitchesOK, ClaimAlone, RateInv, NEW a \in Agent, Admit(a)
    PROVE  RateInv'
<1> DEFINE p   == agent[a].peer
           idx == agent[a].at \div WindowLen
           e   == IF governor[p].idx = idx THEN governor[p] ELSE [idx |-> idx, count |-> 0]
<1>1. broker' = broker /\ now' = now
  BY DEF Admit
<1> SUFFICES ASSUME broker
             PROVE  RateInv'
  BY <1>1 DEF RateInv, ReadingInOrder, GovernorCounts, RateBounded
<1>2. /\ p \in Peer /\ agent[a].at \in 0..MaxTime /\ agent[a].pc = "admit"
      /\ agent[a].at <= now /\ now \in 0..MaxTime
  BY DEF Admit, Doing, CallsNamed, AgentsOK, AgentType, RateInv, ReadingInOrder, RatesOK
<1>3. /\ idx \in Window /\ idx \in Nat /\ now \div WindowLen \in Nat /\ idx <= now \div WindowLen
  BY <1>2, WindowsInOrder DEF Window
<1>4. governor[p] \in [idx : Window, count : Nat] /\ governor[p].idx \in Nat
      /\ governor[p].idx <= idx
  BY <1>2 DEF RatesOK, Window, RateInv, ReadingInOrder
<1>5. \A b \in Agent : agent'[b].pc # "admit"
  <2>1. \A b \in Agent \ {a} : agent[b].pc = "idle"
    BY <1>2 DEF ClaimAlone, Claiming
  <2>2. Return(a) \/ Proceed(a, "quota")
    BY DEF Admit
  <2>3. agent'[a].pc # "admit"
    BY <2>2, NoCallIsAgent DEF Return, Proceed, AgentsOK, AgentType
  <2>4. QED
    BY <2>1, <2>2, <2>3 DEF Return, Proceed, AgentsOK
<1>6. /\ e \in [idx : Window, count : Nat] /\ e.idx = idx
      /\ e.count <= MaxClaims /\ admitted[p][idx] <= e.count
  <2>1. CASE governor[p].idx = idx
    BY <1>2, <1>4, <2>1 DEF RateInv, GovernorCounts
  <2>2. CASE governor[p].idx # idx
    <3>1. admitted[p][idx] = 0
      BY <1>2, <1>3, <1>4, <2>2 DEF RateInv, GovernorCounts
    <3>2. e = [idx |-> idx, count |-> 0]
      BY <2>2
    <3>3. e.idx = idx /\ e.count = 0 /\ e \in [idx : Window, count : Nat]
      BY <1>3, <3>2
    <3>4. QED
      BY <3>1, <3>3, SchedAssumption
  <2>3. QED
    BY <2>1, <2>2
<1>7. /\ \/ governor' = [governor EXCEPT ![p] = e] /\ admitted' = admitted
         \/ /\ ~(e.count >= MaxClaims)
            /\ governor' = [governor EXCEPT ![p] = [e EXCEPT !.count = @ + 1]]
            /\ admitted' = [admitted EXCEPT ![p][idx] = @ + 1]
  BY DEF Admit, OverRate
<1> HIDE DEF e
<1>8. PICK more \in {0, 1} :
         /\ governor'[p].idx = idx /\ governor'[p].count = e.count + more
         /\ e.count + more <= MaxClaims
         /\ admitted'[p] = [admitted[p] EXCEPT ![idx] = @ + more]
         /\ \A q \in Peer \ {p} : governor'[q] = governor[q] /\ admitted'[q] = admitted[q]
  <2>1. CASE governor' = [governor EXCEPT ![p] = e] /\ admitted' = admitted
    <3>1. governor'[p].idx = idx /\ governor'[p].count = e.count + 0
      BY <1>2, <1>6, <2>1 DEF RatesOK
    <3>2. admitted'[p] = [admitted[p] EXCEPT ![idx] = @ + 0]
      BY <1>2, <1>3, <2>1 DEF RatesOK
    <3>3. \A q \in Peer \ {p} : governor'[q] = governor[q] /\ admitted'[q] = admitted[q]
      BY <2>1 DEF RatesOK
    <3>4. e.count + 0 <= MaxClaims
      BY <1>6
    <3>5. QED
      BY <3>1, <3>2, <3>3, <3>4
  <2>2. CASE /\ ~(e.count >= MaxClaims)
             /\ governor' = [governor EXCEPT ![p] = [e EXCEPT !.count = @ + 1]]
             /\ admitted' = [admitted EXCEPT ![p][idx] = @ + 1]
    <3>1. governor'[p].idx = idx /\ governor'[p].count = e.count + 1
      BY <1>2, <1>6, <2>2 DEF RatesOK
    <3>2. admitted'[p] = [admitted[p] EXCEPT ![idx] = @ + 1]
      BY <1>2, <2>2 DEF RatesOK
    <3>3. \A q \in Peer \ {p} : governor'[q] = governor[q] /\ admitted'[q] = admitted[q]
      BY <2>2 DEF RatesOK
    <3>4. e.count + 1 <= MaxClaims
      BY <1>6, <2>2, SchedAssumption
    <3>5. QED
      BY <3>1, <3>2, <3>3, <3>4
  <2>3. QED
    BY <1>7, <2>1, <2>2
<1>9. ReadingInOrder'
  BY <1>1, <1>2, <1>3, <1>5, <1>8 DEF RateInv, ReadingInOrder
<1> HIDE DEF p, idx
<1>10. /\ admitted[p] \in [Window -> Nat]
       /\ \A w \in Window : admitted[p][w] \in Nat /\ admitted[p][w] <= MaxClaims
       /\ \A w \in Window : w > idx => admitted[p][w] = 0
  <2>1. \A w \in Window : w > idx => w > governor[p].idx
    BY <1>3, <1>4 DEF Window
  <2>2. QED
    BY <1>2, <2>1 DEF RatesOK, RateInv, RateBounded, GovernorCounts
<1>11. admitted'[p][idx] <= e.count + more /\ \A w \in Window \ {idx} : admitted'[p][w] = admitted[p][w]
  BY <1>3, <1>6, <1>8, <1>10
<1>12. GovernorCounts'
  <2> SUFFICES ASSUME NEW q \in Peer
               PROVE  /\ governor'[q].count <= MaxClaims
                      /\ admitted'[q][governor'[q].idx] <= governor'[q].count
                      /\ \A w \in Window : w > governor'[q].idx => admitted'[q][w] = 0
    BY DEF GovernorCounts
  <2>1. CASE q = p
    BY <1>3, <1>8, <1>10, <1>11, <2>1
  <2>2. CASE q # p
    BY <1>8, <2>2 DEF RateInv, GovernorCounts
  <2>3. QED
    BY <2>1, <2>2
<1>13. RateBounded'
  <2> SUFFICES ASSUME NEW q \in Peer, NEW w \in Window
               PROVE  admitted'[q][w] <= MaxClaims
    BY DEF RateBounded
  <2>1. CASE q = p /\ w = idx
    <3>1. admitted'[p][idx] \in Nat
      BY <1>3, <1>8, <1>10
    <3>2. e.count + more \in Nat /\ MaxClaims \in Nat
      BY <1>6, SchedAssumption
    <3>3. e.count + more <= MaxClaims
      BY <1>8
    <3>4. admitted'[p][idx] <= MaxClaims
      BY <1>11, <3>1, <3>2, <3>3
    <3>5. QED
      BY <2>1, <3>4
  <2>2. CASE q = p /\ w # idx
    BY <1>10, <1>11, <2>2
  <2>3. CASE q # p
    BY <1>8, <2>3 DEF RateInv, RateBounded
  <2>4. QED
    BY <2>1, <2>2, <2>3
<1>14. QED
  BY <1>9, <1>12, <1>13 DEF RateInv

\* The rate stays bounded in every step.
LEMMA RateStep ==
    ASSUME AgentsOK, CallsNamed, RatesOK, SwitchesOK, ClaimAlone, RateInv, SchedNext
    PROVE  RateInv'
<1>1. broker' = broker
  BY DEF SchedNext, Claim, Handoff, Admit, Quota, Check, Grant, Count, Decrement, Renew, Tick
<1>2. ASSUME UNCHANGED <<governor, admitted, now>>, NEW a \in Agent, NEW call,
             agent' = [agent EXCEPT ![a] = call], call.pc = "admit" => call.at = now
      PROVE  RateInv'
  <2>1. \A b \in Agent : agent'[b].pc = "admit" =>
           \/ agent[b].pc = "admit" /\ agent'[b].at = agent[b].at
           \/ agent'[b].at = now /\ now' = now
    BY <1>2 DEF AgentsOK
  <2>2. QED
    BY <1>1, <1>2, <2>1, RateQuiet DEF RatesOK
<1>3. CASE UNCHANGED <<governor, admitted, now, agent>>
  BY <1>1, <1>3, RateQuiet DEF RatesOK
<1>4. CASE Tick
  <2>1. now' \in 0..MaxTime /\ now <= now'
    BY <1>4, SchedAssumption DEF Tick, RatesOK
  <2>2. UNCHANGED <<governor, admitted, agent>>
    BY <1>4 DEF Tick
  <2>3. QED
    BY <1>1, <2>1, <2>2, RateQuiet
<1>5. ASSUME NEW a \in Agent, NEW t \in Todo, NEW p \in Peer, Claim(a, t, p)
      PROVE  RateInv'
  <2>1. PICK pc \in {"admit", "quota"} :
           agent' = [agent EXCEPT ![a] = [NoCall EXCEPT !.pc = pc, !.todo = t, !.peer = p, !.at = now]]
    BY <1>5 DEF Claim
  <2> DEFINE call == [NoCall EXCEPT !.pc = pc, !.todo = t, !.peer = p, !.at = now]
  <2>2. call.pc = pc /\ call.at = now
    BY NoCallIsAgent DEF AgentType
  <2>3. agent' = [agent EXCEPT ![a] = call] /\ UNCHANGED <<governor, admitted, now>>
    BY <1>5, <2>1 DEF Claim
  <2> HIDE DEF call
  <2>4. QED
    BY <1>2, <2>2, <2>3
<1>6. ASSUME NEW a \in Agent, Return(a), UNCHANGED <<governor, admitted, now>>
      PROVE  RateInv'
  BY <1>2, <1>6, NoCallIsAgent DEF Return
<1>7. ASSUME NEW a \in Agent, NEW pc \in {"check", "grant", "count"}, Proceed(a, pc),
             UNCHANGED <<governor, admitted, now>>
      PROVE  RateInv'
  <2> DEFINE call == [agent[a] EXCEPT !.pc = pc]
  <2>1. call.pc = pc
    BY DEF AgentsOK, AgentType
  <2>2. agent' = [agent EXCEPT ![a] = call]
    BY <1>7 DEF Proceed, AgentsOK
  <2> HIDE DEF call
  <2>3. QED
    BY <1>2, <1>7, <2>1, <2>2
<1>8. ASSUME NEW a \in Agent, Quota(a) \/ Check(a) \/ Grant(a) \/ Count(a)
      PROVE  RateInv'
  BY <1>6, <1>7, <1>8 DEF Quota, Check, Grant, Count, Deny
<1>9. ASSUME NEW a \in Agent, NEW t \in Todo, NEW to \in Peer \cup {Back}, Handoff(a, t, to)
      PROVE  RateInv'
  <2> DEFINE call == [NoCall EXCEPT !.pc = "dec", !.todo = t, !.peer = leases[t].peer, !.to = to]
  <2>1. call.pc = "dec"
    BY NoCallIsAgent DEF AgentType
  <2>2. agent' = [agent EXCEPT ![a] = call] /\ UNCHANGED <<governor, admitted, now>>
    BY <1>9 DEF Handoff
  <2> HIDE DEF call
  <2>3. QED
    BY <1>2, <2>1, <2>2
<1>10. ASSUME NEW a \in Agent, Decrement(a)
       PROVE  RateInv'
  <2>1. CASE agent[a].to = Back
    BY <1>6, <1>10, <2>1 DEF Decrement
  <2>2. CASE agent[a].to # Back
    <3> DEFINE call == [agent[a] EXCEPT !.pc = "count", !.peer = agent[a].to]
    <3>1. call.pc = "count"
      BY DEF AgentsOK, AgentType
    <3>2. agent' = [agent EXCEPT ![a] = call] /\ UNCHANGED <<governor, admitted, now>>
      BY <1>10, <2>2 DEF Decrement, AgentsOK
    <3> HIDE DEF call
    <3>3. QED
      BY <1>2, <3>1, <3>2
  <2>3. QED
    BY <2>1, <2>2
<1>11. QED
  BY <1>3, <1>4, <1>5, <1>8, <1>9, <1>10, RateAdmit DEF SchedNext, Renew

-----------------------------------------------------------------------------
(* The theorems.                                                           *)

SchedInv ==
    /\ SchedTypeOK /\ CallsNamed
    /\ NeverUndercounted
    /\ ClaimAlone /\ CheckHolds /\ GrantsMatch
    /\ RateInv

\* The initial states satisfy the invariant.
LEMMA SchedInitInv == SchedInit => SchedInv
<1> SUFFICES ASSUME SchedInit PROVE SchedInv
  OBVIOUS
<1> USE SchedAssumption DEF SchedInit
<1>1. 0 \in Window /\ 0 \div WindowLen = 0
  BY WindowsInOrder DEF Window
<1>2. LeasesOK /\ CountsOK /\ GrantsOK
  BY DEF LeasesOK, CountsOK, GrantsOK
<1>3. AgentsOK /\ CallsNamed
  BY NoCallIsAgent DEF AgentsOK, CallsNamed
<1>4. SwitchesOK
  BY DEF SwitchesOK
<1>5. RatesOK
  BY <1>1 DEF RatesOK
<1>6. NeverUndercounted
  <2> SUFFICES ASSUME NEW p \in Peer
               PROVE  Covered(p)
    BY CoveredIsCounted
  <2>1. HeldSet(p) = {} /\ RaiseSet(p) = {} /\ LowerSet(p) = {}
    BY NoCallIsAgent DEF HeldSet, RaiseSet, LowerSet
  <2>2. concurrency[p] = 0 /\ Cardinality({}) = 0
    BY FS_EmptySet
  <2>3. QED
    BY <2>1, <2>2 DEF Covered
<1>7. ClaimAlone /\ CheckHolds
  BY NoCallIsAgent DEF ClaimAlone, CheckHolds, Claiming, Doing
<1>8. GrantsMatch
  BY DEF GrantsMatch
<1>9. RateInv
  BY <1>1, NoCallIsAgent DEF RateInv, ReadingInOrder, GovernorCounts, RateBounded
<1>10. QED
  BY <1>2, <1>3, <1>4, <1>5, <1>6, <1>7, <1>8, <1>9, SchedTypeParts DEF SchedInv

\* Every step of the scheduler preserves the invariant.
LEMMA SchedNextInv == SchedInv /\ [SchedNext]_schedVars => SchedInv'
<1> SUFFICES ASSUME SchedInv, [SchedNext]_schedVars PROVE SchedInv'
  OBVIOUS
<1>1. LeasesOK /\ CountsOK /\ AgentsOK /\ SwitchesOK /\ RatesOK /\ GrantsOK
  BY SchedTypeParts DEF SchedInv
<1>2. CASE SchedNext
  <2>1. AgentsOK' /\ CallsNamed'
    BY <1>1, <1>2, AgentsStep DEF SchedInv
  <2>2. LeasesOK' /\ CountsOK' /\ GrantsOK' /\ RatesOK'
    BY <1>1, <1>2, TableStep, RatesStep DEF SchedInv
  <2>3. SwitchesOK'
    BY <1>1, <1>2 DEF SwitchesOK, SchedNext, Claim, Handoff, Admit, Quota, Check, Grant, Count,
                      Decrement, Renew, Tick
  <2>4. NeverUndercounted'
    BY <1>1, <1>2, CountedStep DEF SchedInv
  <2>5. ClaimAlone' /\ CheckHolds' /\ GrantsMatch'
    BY <1>1, <1>2, AloneStep, GrantStep DEF SchedInv
  <2>6. RateInv'
    BY <1>1, <1>2, RateStep DEF SchedInv
  <2>7. QED
    BY <2>1, <2>2, <2>3, <2>4, <2>5, <2>6, SchedTypeParts DEF SchedInv
<1>3. CASE UNCHANGED schedVars
  <2> USE <1>3 DEF schedVars, SchedInv
  <2>1. SchedTypeOK' /\ CallsNamed'
    BY DEF SchedTypeOK, CallsNamed
  <2>2. NeverUndercounted'
    BY DEF NeverUndercounted, Held, ToRaise, ToLower, Doing
  <2>3. ClaimAlone' /\ CheckHolds' /\ GrantsMatch'
    BY DEF ClaimAlone, CheckHolds, GrantsMatch, Claiming, Doing
  <2>4. RateInv'
    BY DEF RateInv, ReadingInOrder, GovernorCounts, RateBounded
  <2>5. QED
    BY <2>1, <2>2, <2>3, <2>4
<1>4. QED
  BY <1>2, <1>3

\* The inductive invariant of the scheduler.
THEOREM SchedInvariant == SchedSpec => []SchedInv
BY SchedInitInv, SchedNextInv, PTL DEF SchedSpec

\* The count that the quota is checked against never falls below the leases a
\* peer holds, but for the calls between their two locks.
THEOREM NeverUndercountedProved == SchedSpec => []NeverUndercounted
<1>1. SchedInv => NeverUndercounted
  BY DEF SchedInv
<1>2. QED
  BY <1>1, SchedInvariant, PTL

\* Behind a broker an answer Granted is the lease, and no peer is let through
\* more often than its window allows.
THEOREM BrokerProved == SchedSpec => [](SchedTypeOK /\ GrantHonoured /\ RateBounded)
<1>1. SchedInv => SchedTypeOK /\ GrantHonoured /\ RateBounded
  BY SchedTypeParts, GrantsMatchHonoured DEF SchedInv, RateInv
<1>2. QED
  BY <1>1, SchedInvariant, PTL

-----------------------------------------------------------------------------
(***************************************************************************)
(* Proofs about sub-agents and their tokens, for every number of spawns,   *)
(* cancelling threads, reading threads and reasons.                        *)
(*                                                                         *)
(* Neither property is inductive by itself.  NoNesting needs the guard to  *)
(* hold exactly the tasks that are not joined; FirstCauseWins needs to     *)
(* know that a token nobody cancelled has no reason and was never read as  *)
(* cancelled, and that a pending store carries the reason of the winner.   *)
(***************************************************************************)

\* The nesting guard holds the tasks that were spawned and are not joined.
GuardIsActive == guard = Active

\* A token that was not cancelled is untouched.
FreshToken ==
    \A t \in Sub : ~flag[t] => first[t] = Unset /\ reason[t] = Unset /\ told[t] = {}

\* A stored reason is the winner's.
ReasonOfWinner == \A t \in Sub : reason[t] \in {Unset, first[t]}

\* A cancel call between its swap and its store is the winner of its token.
StoreOfWinner ==
    \A c \in Canceller : cancel[c].pc = "store" =>
        /\ cancel[c].on \in Sub
        /\ flag[cancel[c].on]
        /\ cancel[c].why = first[cancel[c].on]

\* A reader that is about to load the reason saw the flag set.
LoadAfterFlag ==
    \A w \in Watcher : watch[w].pc = "load" => watch[w].on \in Sub /\ flag[watch[w].on]

TokenInv == FreshToken /\ ReasonOfWinner /\ StoreOfWinner /\ LoadAfterFlag /\ FirstCauseWins

SubInv == SubTypeOK /\ GuardIsActive /\ NoNesting /\ TokenInv

-----------------------------------------------------------------------------
(* The operators.                                                          *)

\* What a reader reports is a member of CancelReason, whatever it loaded.
LEMMA DecodeType ==
    ASSUME NEW code \in Reason \cup {Unset}
    PROVE  Decode(code) \in Reason
BY SubAssumption DEF Decode

\* The set of tasks that count towards SWARM_LIMIT is finite.
LEMMA ActiveFinite == IsFiniteSet(Active) /\ Cardinality(Active) \in Nat
<1>1. IsFiniteSet(Sub)
  BY FS_Interval, SubAssumption DEF Sub
<1>2. Active \in SUBSET Sub
  BY DEF Active
<1>3. QED
  BY <1>1, <1>2, FS_Subset, FS_CardinalityType

-----------------------------------------------------------------------------
(* Type correctness and the nesting guard.                                 *)

\* The initial state satisfies the invariant.
LEMMA SubInitInv == SubInit => SubInv
<1> SUFFICES ASSUME SubInit PROVE SubInv
  OBVIOUS
<1>1. Active = {}
  BY DEF SubInit, Active
<1>2. Cardinality(Active) <= SwarmLimit
  BY <1>1, FS_EmptySet, SubAssumption
<1>3. SubTypeOK
  BY <1>2 DEF SubInit, SubTypeOK, NoCancel, NoWatch
<1>4. GuardIsActive /\ NoNesting
  BY <1>1 DEF SubInit, GuardIsActive, NoNesting
<1>5. TokenInv
  BY DEF SubInit, TokenInv, FreshToken, ReasonOfWinner, StoreOfWinner, LoadAfterFlag,
         FirstCauseWins, NoCancel, NoWatch
<1>6. QED
  BY <1>3, <1>4, <1>5 DEF SubInv

\* spawn keeps the tasks below SWARM_LIMIT: it is refused at the limit.
LEMMA SpawnInv ==
    ASSUME SubInv, NEW t \in Sub, NEW from \in Sub \cup {NoSub}, Spawn(t, from)
    PROVE  SubTypeOK' /\ GuardIsActive' /\ NoNesting'
<1>1. Active' = Active \cup {t}
  BY DEF SubInv, SubTypeOK, Spawn, Active
<1>2. t \notin Active
  BY DEF Spawn, Active
<1>3. Cardinality(Active') <= SwarmLimit
  <2>1. Cardinality(Active \cup {t}) = Cardinality(Active) + 1
    BY <1>2, ActiveFinite, FS_AddElement
  <2>2. ~(Cardinality(Active) >= SwarmLimit)
    BY DEF Spawn, SwarmFull
  <2>3. QED
    BY <1>1, <2>1, <2>2, ActiveFinite, SubAssumption
<1>4. SubTypeOK'
  BY <1>3 DEF SubInv, SubTypeOK, Spawn, tokenVars
<1>5. GuardIsActive'
  BY <1>1 DEF SubInv, GuardIsActive, Spawn
<1>6. from # NoSub => state[from] = "joined"
  BY DEF SubInv, SubTypeOK, GuardIsActive, Spawn, MayNest, Active
<1>7. NoNesting'
  BY <1>1, <1>6 DEF SubInv, SubTypeOK, NoNesting, Spawn, Active
<1>8. QED
  BY <1>4, <1>5, <1>7

\* The first poll and the end of a task keep it in the JoinSet.
LEMMA ProgressInv ==
    ASSUME SubInv, NEW t \in Sub, Start(t) \/ End(t)
    PROVE  SubTypeOK' /\ GuardIsActive' /\ NoNesting'
<1>1. Active' = Active
  BY DEF SubInv, SubTypeOK, Start, End, Active
<1>2. Cardinality(Active') <= SwarmLimit
  BY <1>1 DEF SubInv, SubTypeOK
<1>3. Decode(reason[t]) \in Reason
  BY DecodeType DEF SubInv, SubTypeOK
<1>4. SubTypeOK'
  BY <1>2, <1>3 DEF SubInv, SubTypeOK, Start, End, tokenVars
<1>5. GuardIsActive'
  BY <1>1 DEF SubInv, GuardIsActive, Start, End
<1>6. NoNesting'
  BY <1>1 DEF SubInv, SubTypeOK, NoNesting, Start, End, Active
<1>7. QED
  BY <1>4, <1>5, <1>6

\* A joined task leaves the JoinSet and the guard together.
LEMMA JoinInv ==
    ASSUME SubInv, NEW t \in Sub, Join(t)
    PROVE  SubTypeOK' /\ GuardIsActive' /\ NoNesting'
<1>1. Active' = Active \ {t}
  BY DEF SubInv, SubTypeOK, Join, Active
<1>2. Cardinality(Active') <= SwarmLimit
  <2>1. Cardinality(Active \ {t}) <= Cardinality(Active)
    BY ActiveFinite, FS_RemoveElement
  <2>2. Cardinality(Active) <= SwarmLimit
    BY DEF SubInv, SubTypeOK
  <2>3. Cardinality(Active \ {t}) \in Nat
    BY ActiveFinite, FS_RemoveElement, FS_CardinalityType
  <2>4. QED
    BY <1>1, <2>1, <2>2, <2>3, ActiveFinite, SubAssumption
<1>3. SubTypeOK'
  BY <1>2 DEF SubInv, SubTypeOK, Join, tokenVars
<1>4. GuardIsActive'
  BY <1>1 DEF SubInv, GuardIsActive, Join
<1>5. NoNesting'
  BY <1>1 DEF SubInv, SubTypeOK, NoNesting, Join, Active
<1>6. QED
  BY <1>3, <1>4, <1>5

\* A step on a token leaves the tasks alone.
LEMMA TokenStepInv ==
    ASSUME SubInv,
           \/ \E c \in Canceller, t \in Sub, why \in Reason : Swap(c, t, why)
           \/ \E c \in Canceller : Store(c)
           \/ \E w \in Watcher, t \in Sub : LoadFlag(w, t)
           \/ \E w \in Watcher : LoadReason(w)
    PROVE  SubTypeOK' /\ GuardIsActive' /\ NoNesting'
<1>1. UNCHANGED <<state, parent, guard>>
  BY DEF Swap, Store, LoadFlag, LoadReason
<1>2. Active' = Active
  BY <1>1 DEF Active
<1>3. Cardinality(Active') <= SwarmLimit
  BY <1>2 DEF SubInv, SubTypeOK
<1>4. GuardIsActive' /\ NoNesting'
  BY <1>1, <1>2 DEF SubInv, GuardIsActive, NoNesting
<1>5. SubTypeOK'
  <2>1. ASSUME NEW c \in Canceller, NEW t \in Sub, NEW why \in Reason, Swap(c, t, why)
        PROVE  SubTypeOK'
    BY <1>1, <1>3, <2>1 DEF SubInv, SubTypeOK, Swap
  <2>2. ASSUME NEW c \in Canceller, Store(c)
        PROVE  SubTypeOK'
    BY <1>1, <1>3, <2>2 DEF SubInv, SubTypeOK, Store, NoCancel, TokenInv, StoreOfWinner
  <2>3. ASSUME NEW w \in Watcher, NEW t \in Sub, LoadFlag(w, t)
        PROVE  SubTypeOK'
    BY <1>1, <1>3, <2>3 DEF SubInv, SubTypeOK, LoadFlag
  <2>4. ASSUME NEW w \in Watcher, LoadReason(w)
        PROVE  SubTypeOK'
    <3>1. Decode(reason[watch[w].on]) \in Reason
      BY <2>4, DecodeType DEF SubInv, SubTypeOK, TokenInv, LoadAfterFlag, LoadReason
    <3>2. QED
      BY <1>1, <1>3, <2>4, <3>1 DEF SubInv, SubTypeOK, LoadReason, NoWatch
  <2>5. QED
    BY <2>1, <2>2, <2>3, <2>4
<1>6. QED
  BY <1>4, <1>5

-----------------------------------------------------------------------------
(* The token.                                                              *)

\* Steps of the runtime leave the tokens alone, but for the first poll, which
\* reads one.
LEMMA RuntimeTokenInv ==
    ASSUME SubInv, NEW t \in Sub,
           (\E from \in Sub \cup {NoSub} : Spawn(t, from)) \/ Start(t) \/ End(t) \/ Join(t)
    PROVE  TokenInv'
<1> USE DEF SubInv, SubTypeOK, TokenInv, FreshToken, ReasonOfWinner, StoreOfWinner,
            LoadAfterFlag, FirstCauseWins
<1>1. CASE UNCHANGED tokenVars
  BY <1>1 DEF tokenVars
<1>2. CASE Start(t)
  BY <1>2, SMTT(30) DEF Start, Decode
<1>3. QED
  BY <1>1, <1>2 DEF Spawn, End, Join

\* The swap: only the winner writes, and nobody was told anything before.
LEMMA SwapTokenInv ==
    ASSUME SubInv, NEW c \in Canceller, NEW t \in Sub, NEW why \in Reason, Swap(c, t, why)
    PROVE  TokenInv'
<1> USE DEF SubInv, SubTypeOK, TokenInv, Swap, Won
<1>1. FreshToken' /\ ReasonOfWinner' /\ FirstCauseWins'
  BY DEF FreshToken, ReasonOfWinner, FirstCauseWins
<1>2. StoreOfWinner'
  <2>1. CASE flag[t]
    BY <2>1 DEF StoreOfWinner
  <2>2. CASE ~flag[t]
    <3>1. first' = [first EXCEPT ![t] = why]
      BY <2>2 DEF FreshToken
    <3>2. ASSUME NEW d \in Canceller, cancel[d].pc = "store"
          PROVE  cancel[d].on # t
      BY <2>2, <3>2 DEF StoreOfWinner
    <3>3. QED
      BY <2>2, <3>1, <3>2 DEF StoreOfWinner
  <2>3. QED
    BY <2>1, <2>2
<1>3. LoadAfterFlag'
  BY DEF LoadAfterFlag
<1>4. QED
  BY <1>1, <1>2, <1>3

\* The store writes the winner's reason.
LEMMA StoreTokenInv ==
    ASSUME SubInv, NEW c \in Canceller, Store(c)
    PROVE  TokenInv'
<1> USE DEF SubInv, SubTypeOK, TokenInv, StoreOfWinner, Store
<1>1. FreshToken' /\ ReasonOfWinner' /\ FirstCauseWins'
  BY DEF FreshToken, ReasonOfWinner, FirstCauseWins
<1>2. StoreOfWinner' /\ LoadAfterFlag'
  BY DEF LoadAfterFlag, NoCancel
<1>3. QED
  BY <1>1, <1>2

\* A reader reports the winner's reason, or ParentRevoked before the store.
LEMMA LoadTokenInv ==
    ASSUME SubInv, NEW w \in Watcher,
           (\E t \in Sub : LoadFlag(w, t)) \/ LoadReason(w)
    PROVE  TokenInv'
<1> USE DEF SubInv, SubTypeOK, TokenInv, FreshToken, ReasonOfWinner, StoreOfWinner,
            LoadAfterFlag, FirstCauseWins
<1>1. ASSUME NEW t \in Sub, LoadFlag(w, t)
      PROVE  TokenInv'
  BY <1>1 DEF LoadFlag
<1>2. CASE LoadReason(w)
  BY <1>2 DEF LoadReason, NoWatch, Decode
<1>3. QED
  BY <1>1, <1>2

-----------------------------------------------------------------------------
(* The theorems.                                                           *)

\* Every step of the runtime and of the tokens preserves the invariant.
LEMMA SubNextInv == SubInv /\ [SubNext]_subVars => SubInv'
<1> SUFFICES ASSUME SubInv, [SubNext]_subVars PROVE SubInv'
  OBVIOUS
<1>1. CASE UNCHANGED subVars
  BY <1>1 DEF subVars, SubInv, SubTypeOK, GuardIsActive, NoNesting, TokenInv, FreshToken,
              ReasonOfWinner, StoreOfWinner, LoadAfterFlag, FirstCauseWins, Active
<1>2. ASSUME NEW t \in Sub, NEW from \in Sub \cup {NoSub}, Spawn(t, from)
      PROVE  SubInv'
  BY <1>2, SpawnInv, RuntimeTokenInv DEF SubInv
<1>3. ASSUME NEW t \in Sub, Start(t) \/ End(t)
      PROVE  SubInv'
  BY <1>3, ProgressInv, RuntimeTokenInv DEF SubInv
<1>4. ASSUME NEW t \in Sub, Join(t)
      PROVE  SubInv'
  BY <1>4, JoinInv, RuntimeTokenInv DEF SubInv
<1>5. ASSUME NEW c \in Canceller, NEW t \in Sub, NEW why \in Reason, Swap(c, t, why)
      PROVE  SubInv'
  BY <1>5, TokenStepInv, SwapTokenInv DEF SubInv
<1>6. ASSUME NEW c \in Canceller, Store(c)
      PROVE  SubInv'
  BY <1>6, TokenStepInv, StoreTokenInv DEF SubInv
<1>7. ASSUME NEW w \in Watcher, NEW t \in Sub, LoadFlag(w, t)
      PROVE  SubInv'
  BY <1>7, TokenStepInv, LoadTokenInv DEF SubInv
<1>8. ASSUME NEW w \in Watcher, LoadReason(w)
      PROVE  SubInv'
  BY <1>8, TokenStepInv, LoadTokenInv DEF SubInv
<1>9. QED
  BY <1>1, <1>2, <1>3, <1>4, <1>5, <1>6, <1>7, <1>8 DEF SubNext

\* The inductive invariant holds in every reachable state of the runtime.
THEOREM SubInvariant == SubSpec => []SubInv
BY SubInitInv, SubNextInv, PTL DEF SubSpec

\* A token never reports the reason of a cancel call that came second.
THEOREM FirstCauseWinsProved == SubSpec => []FirstCauseWins
<1>1. SubInv => FirstCauseWins
  BY DEF SubInv, TokenInv
<1>2. QED
  BY <1>1, SubInvariant, PTL

\* A sub-agent that is not joined was not started by another one, and at most
\* SWARM_LIMIT of them exist.
THEOREM NoNestingProved == SubSpec => [](SubTypeOK /\ NoNesting)
<1>1. SubInv => SubTypeOK /\ NoNesting
  BY DEF SubInv
<1>2. QED
  BY <1>1, SubInvariant, PTL

-----------------------------------------------------------------------------
(***************************************************************************)
(* Proofs about the session table, for every number of clients, threads,   *)
(* shards and operations.                                                  *)
(*                                                                         *)
(* Waiting in a circle: sweeps take the shards in order, so a circle of    *)
(* sweeps would need a shard beyond the last.  Histories: a turn that is   *)
(* under way keeps its actor unless the actor was replaced.  Modes: the    *)
(* sessions behind a sweep have its mode until the next sweep is there.    *)
(***************************************************************************)


ActorType == [turns : Seq(Nat), items : Seq(Nat \X Nat), own : Nat,
              mode : {"none", "default"} \cup Mode]

OpType == [pc : {"idle", "start_key", "start_insert", "turn", "backend", "fill", "fork_insert",
                 "sweep"},
           key : ThreadId, num : Nat, turn : Nat, child : ActorType, mode : Mode \cup {"none"},
           bucket : 0 .. Buckets]

TableOK   == table \in [ThreadId -> ActorType] /\ place \in [ThreadId -> 1 .. Buckets]
ClientsOK == client \in [AppCall -> OpType]
LogOK     ==
    /\ appOps \in 0 .. MaxAppOps /\ overwritten \subseteq ThreadId
    /\ completed \subseteq ThreadId \X (Nat \X Nat)

\* A fork whose child is still to be inserted has room for it.
ForkRoom ==
    \A c \in AppCall : client[c].pc = "fork_insert" => ForkId(client[c].key) \in ThreadId

\* Only a sweep is in a shard, and only a sweep sets a mode.
SweepsOnly ==
    \A c \in AppCall : client[c].pc # "sweep" => client[c].bucket = 0 /\ client[c].mode = "none"

TypesInv == TableOK /\ ClientsOK /\ LogOK /\ ForkRoom /\ SweepsOnly

-----------------------------------------------------------------------------
(* Types.                                                                  *)

\* An absent actor, a new one, and a call that is not under way.
LEMMA NoOpType ==
    /\ NoActor \in ActorType /\ NewActor \in ActorType
    /\ NoActor.mode = "none" /\ NewActor.mode = "default"
    /\ NewActor.turns = <<>> /\ NewActor.items = <<>> /\ NewActor.own = 0
    /\ NoOp \in OpType /\ NoOp.pc = "idle" /\ NoOp.bucket = 0 /\ NoOp.mode = "none"
<1>1. /\ NoActor \in ActorType /\ NoActor.mode = "none"
      /\ NoActor.turns = <<>> /\ NoActor.items = <<>> /\ NoActor.own = 0
  BY DEF NoActor, ActorType
<1>2. /\ NewActor \in ActorType /\ NewActor.mode = "default"
      /\ NewActor.turns = <<>> /\ NewActor.items = <<>> /\ NewActor.own = 0
  <2>1. NewActor = [turns |-> <<>>, items |-> <<>>, own |-> 0, mode |-> "default"]
    BY DEF NewActor, NoActor
  <2>2. QED
    BY <2>1 DEF ActorType
<1>3. (CHOOSE k \in ThreadId : TRUE) \in ThreadId
  <2>1. PICK t \in Thread : TRUE
    BY AppServerAssumption
  <2>2. <<t, 0>> \in ThreadId
    BY <2>1, AppServerAssumption DEF ThreadId
  <2>3. QED
    BY <2>2, Zenon
<1>4. NoOp \in OpType /\ NoOp.pc = "idle" /\ NoOp.bucket = 0 /\ NoOp.mode = "none"
  BY <1>1, <1>3, AppServerAssumption DEF NoOp, OpType
<1>5. QED
  BY <1>1, <1>2, <1>4

\* An actor with another sequence of turns, of items, or in another mode.
LEMMA WithTurns ==
    ASSUME NEW a \in ActorType, NEW s \in Seq(Nat)
    PROVE  LET w == [a EXCEPT !.turns = s] IN
           /\ w \in ActorType /\ w.turns = s
           /\ w.items = a.items /\ w.own = a.own /\ w.mode = a.mode
BY DEF ActorType

LEMMA WithItems ==
    ASSUME NEW a \in ActorType, NEW s \in Seq(Nat \X Nat)
    PROVE  LET w == [a EXCEPT !.items = s] IN
           /\ w \in ActorType /\ w.items = s
           /\ w.turns = a.turns /\ w.own = a.own /\ w.mode = a.mode
BY DEF ActorType

LEMMA WithMode ==
    ASSUME NEW a \in ActorType, NEW m \in Mode
    PROVE  LET w == [a EXCEPT !.mode = m] IN
           /\ w \in ActorType /\ w.mode = m
           /\ w.turns = a.turns /\ w.own = a.own /\ w.items = a.items
BY DEF ActorType

\* One more item, or number, at the end.
LEMMA OneMoreItem ==
    ASSUME NEW T, NEW s \in Seq(T), NEW x \in T
    PROVE  /\ Append(s, x) \in Seq(T) /\ Len(Append(s, x)) = Len(s) + 1
           /\ DOMAIN Append(s, x) = 1 .. Len(s) + 1
           /\ \A i \in 1 .. Len(s) : Append(s, x)[i] = s[i]
           /\ Append(s, x)[Len(s) + 1] = x /\ Len(s) \in Nat /\ DOMAIN s = 1 .. Len(s)
OBVIOUS

\* The type invariant that the runs check is part of this one.
LEMMA TypesImplied == TypesInv => AppTypeOK
BY DEF TypesInv, TableOK, ClientsOK, LogOK, AppTypeOK, ActorType, OpType

\* What a step of a client does to its own record.
ClientStep(c, op) == op \in OpType /\ client' = [client EXCEPT ![c] = op]

\* A call begins at its first step ...
LEMMA BeginStep ==
    ASSUME TypesInv, NEW c \in AppCall, NEW pc \in {"start_key", "turn"}, NEW k \in ThreadId,
           Begin(c, pc, k)
    PROVE  /\ client[c].pc = "idle" /\ appOps' \in 0 .. MaxAppOps
           /\ \E op : /\ ClientStep(c, op) /\ op.pc = pc /\ op.key = k
                      /\ op.bucket = 0 /\ op.mode = "none"
<1> DEFINE op == [NoOp EXCEPT !.pc = pc, !.key = k, !.num = appOps + 1]
<1>1. appOps \in Nat /\ appOps' \in 0 .. MaxAppOps
  BY AppServerAssumption DEF TypesInv, LogOK, Begin
<1>2. op \in OpType /\ op.pc = pc /\ op.key = k /\ op.bucket = 0 /\ op.mode = "none"
  <2>1. NoOp \in OpType /\ appOps + 1 \in Nat /\ NoOp.bucket = 0 /\ NoOp.mode = "none"
    BY <1>1, NoOpType
  <2> HIDE DEF NoOp
  <2>2. QED
    BY <2>1 DEF OpType
<1>3. client[c].pc = "idle" /\ client' = [client EXCEPT ![c] = op]
  BY DEF Begin, ClientAt
<1> HIDE DEF op
<1>4. QED
  BY <1>1, <1>2, <1>3 DEF ClientStep

\* ... goes on with the same key ...
LEMMA ContinueStep ==
    ASSUME TypesInv, NEW c \in AppCall,
           NEW pc \in {"start_insert", "turn", "backend", "fill"}, Continue(c, pc)
    PROVE  \E op : /\ ClientStep(c, op) /\ op.pc = pc
                   /\ op.key = client[c].key /\ op.turn = client[c].turn /\ op.num = client[c].num
                   /\ op.bucket = client[c].bucket /\ op.mode = client[c].mode
<1> DEFINE op == [client[c] EXCEPT !.pc = pc]
<1>1. /\ op \in OpType /\ op.pc = pc
      /\ op.key = client[c].key /\ op.turn = client[c].turn /\ op.num = client[c].num
      /\ op.bucket = client[c].bucket /\ op.mode = client[c].mode
  BY DEF TypesInv, ClientsOK, OpType
<1>2. client' = [client EXCEPT ![c] = op]
  BY DEF Continue, TypesInv, ClientsOK
<1> HIDE DEF op
<1>3. QED
  BY <1>1, <1>2 DEF ClientStep

\* ... and ends.
LEMMA ReplyStep ==
    ASSUME NEW c \in AppCall, Reply(c)
    PROVE  \E op : ClientStep(c, op) /\ op.pc = "idle" /\ op.bucket = 0 /\ op.mode = "none"
BY NoOpType DEF Reply, ClientStep

-----------------------------------------------------------------------------
(* Every step keeps the types.                                             *)

\* A step that gives one client a new record.
LEMMA ClientTypes ==
    ASSUME TypesInv, NEW c \in AppCall, NEW op, ClientStep(c, op),
           op.pc = "fork_insert" => ForkId(op.key) \in ThreadId,
           op.pc # "sweep" => op.bucket = 0 /\ op.mode = "none"
    PROVE  ClientsOK' /\ ForkRoom' /\ SweepsOnly'
BY DEF TypesInv, ClientsOK, ForkRoom, SweepsOnly, ClientStep

\* An insert.
LEMMA PutTypes ==
    ASSUME TypesInv, NEW k \in ThreadId, NEW a \in ActorType, Put(k, a)
    PROVE  table' \in [ThreadId -> ActorType] /\ overwritten' \subseteq ThreadId
BY DEF TypesInv, TableOK, LogOK, Put

\* The child of a fork: its items, and its actor.
LEMMA ForkItems ==
    ASSUME TableOK, LogOK, NEW k \in ThreadId, NEW i \in 1 .. Len(table[k].items)
    PROVE  LET prefix == SubSeq(table[k].items, 1, i)
               items  == Append(prefix, <<0, appOps + 1>>) IN
           /\ items \in Seq(Nat \X Nat) /\ i \in Nat
           /\ Len(items) = i + 1 /\ items[i + 1] = <<0, appOps + 1>>
<1>1. table[k].items \in Seq(Nat \X Nat)
  BY DEF TableOK, ActorType
<1>2. /\ SubSeq(table[k].items, 1, i) \in Seq(Nat \X Nat) /\ i \in Nat
      /\ Len(SubSeq(table[k].items, 1, i)) = i
  BY <1>1
<1>3. <<0, appOps + 1>> \in Nat \X Nat
  BY AppServerAssumption DEF LogOK
<1>4. QED
  BY <1>2, <1>3, OneMoreItem

LEMMA ForkActor ==
    ASSUME NEW items \in Seq(Nat \X Nat), NEW i \in Nat
    PROVE  LET child == [NewActor EXCEPT !.turns = << 0 >>, !.items = items, !.own = i] IN
           /\ child \in ActorType /\ child.turns = << 0 >> /\ child.items = items
           /\ child.own = i /\ child.mode = "default"
<1>1. NewActor \in ActorType /\ NewActor.mode = "default" /\ << 0 >> \in Seq(Nat)
  BY NoOpType
<1> HIDE DEF NewActor
<1>2. QED
  BY <1>1 DEF ActorType

LEMMA TypesInit == AppInit => TypesInv
<1> SUFFICES ASSUME AppInit PROVE TypesInv
  OBVIOUS
<1> USE DEF AppInit
<1>1. TableOK /\ LogOK
  BY NoOpType, AppServerAssumption DEF TableOK, LogOK
<1>2. ClientsOK /\ ForkRoom /\ SweepsOnly
  BY NoOpType DEF ClientsOK, ForkRoom, SweepsOnly
<1>3. QED
  BY <1>1, <1>2 DEF TypesInv

LEMMA TypesNext == TypesInv /\ [AppNext]_appVars => TypesInv'
<1> SUFFICES ASSUME TypesInv, [AppNext]_appVars PROVE TypesInv'
  OBVIOUS
<1>0. TableOK /\ LogOK /\ ClientsOK /\ ForkRoom /\ SweepsOnly
  BY DEF TypesInv
<1>1. CASE UNCHANGED appVars
  BY <1>0, <1>1 DEF appVars, TypesInv, TableOK, LogOK, ClientsOK, ForkRoom, SweepsOnly
<1>2. ASSUME NEW c \in AppCall, NEW k \in ThreadId, ThreadStart(c, k) \/ TurnSubmit(c, k)
      PROVE  TypesInv'
  <2>1. TableOK' /\ overwritten' = overwritten /\ completed' = completed
    BY <1>0, <1>2 DEF TableOK, ThreadStart, TurnSubmit
  <2>2. CASE UNCHANGED <<client, appOps>>
    BY <1>0, <2>1, <2>2 DEF TypesInv, ClientsOK, LogOK, ForkRoom, SweepsOnly
  <2>3. ASSUME NEW pc \in {"start_key", "turn"}, Begin(c, pc, k)
        PROVE  TypesInv'
    <3>1. PICK op : ClientStep(c, op) /\ op.pc = pc /\ op.bucket = 0 /\ op.mode = "none"
      BY <2>3, BeginStep
    <3>2. ClientsOK' /\ ForkRoom' /\ SweepsOnly'
      BY <3>1, ClientTypes
    <3>3. QED
      BY <1>0, <2>1, <2>3, <3>2, BeginStep DEF TypesInv, LogOK
  <2>4. QED
    BY <1>2, <2>2, <2>3 DEF ThreadStart, TurnSubmit
<1>3. ASSUME NEW c \in AppCall, StartKey(c) \/ Backend(c)
      PROVE  TypesInv'
  <2>1. TableOK' /\ LogOK'
    BY <1>0, <1>3 DEF TableOK, LogOK, StartKey, Backend
  <2>2. CASE Reply(c)
    BY <2>1, <2>2, ReplyStep, ClientTypes DEF TypesInv
  <2>3. ASSUME NEW pc \in {"start_insert", "fill"}, Continue(c, pc)
        PROVE  TypesInv'
    <3>1. client[c].bucket = 0 /\ client[c].mode = "none"
      BY <1>0, <1>3 DEF SweepsOnly, StartKey, Backend, ClientAt
    <3>2. PICK op : ClientStep(c, op) /\ op.pc = pc /\ op.bucket = 0 /\ op.mode = "none"
      BY <2>3, <3>1, ContinueStep
    <3>3. QED
      BY <2>1, <3>2, ClientTypes DEF TypesInv
  <2>4. QED
    BY <1>3, <2>2, <2>3 DEF StartKey, Backend
<1>4. ASSUME NEW c \in AppCall, StartInsert(c)
      PROVE  TypesInv'
  <2>1. client[c].key \in ThreadId /\ client[c].bucket = 0 /\ client[c].mode = "none"
    BY <1>0, <1>4 DEF ClientsOK, OpType, SweepsOnly, StartInsert, ClientAt
  <2>2. TableOK' /\ LogOK'
    BY <1>0, <1>4, <2>1, NoOpType, PutTypes DEF StartInsert, TableOK, LogOK
  <2>3. CASE Reply(c)
    BY <2>2, <2>3, ReplyStep, ClientTypes DEF TypesInv
  <2>4. CASE Continue(c, "turn")
    <3>1. PICK op : ClientStep(c, op) /\ op.pc = "turn" /\ op.bucket = 0 /\ op.mode = "none"
      BY <2>1, <2>4, ContinueStep
    <3>2. QED
      BY <2>2, <3>1, ClientTypes DEF TypesInv
  <2>5. QED
    BY <1>4, <2>3, <2>4 DEF StartInsert
<1>5. ASSUME NEW c \in AppCall, TurnBegin(c)
      PROVE  TypesInv'
  <2> DEFINE k == client[c].key
             a == [table[k] EXCEPT !.turns = Append(@, TurnNumber(table[k]))]
             op == [client[c] EXCEPT !.pc = "backend", !.turn = TurnNumber(table[k])]
  <2>1. k \in ThreadId /\ client[c].bucket = 0 /\ client[c].mode = "none"
    BY <1>0, <1>5 DEF ClientsOK, OpType, SweepsOnly, TurnBegin, ClientAt
  <2>2. LogOK' /\ place' = place
    BY <1>0, <1>5 DEF TurnBegin, LogOK
  <2>3. CASE Reply(c) /\ UNCHANGED table
    <3>1. TableOK'
      BY <1>0, <2>2, <2>3 DEF TableOK
    <3>2. QED
      BY <2>2, <2>3, <3>1, ReplyStep, ClientTypes DEF TypesInv
  <2>4. CASE table' = [table EXCEPT ![k].turns = Append(@, TurnNumber(table[k]))]
             /\ client' = [client EXCEPT ![c].pc = "backend", ![c].turn = TurnNumber(table[k])]
    <3>1. table[k] \in ActorType /\ TurnNumber(table[k]) \in Nat
      BY <1>0, <2>1 DEF TableOK, ActorType, TurnNumber
    <3>2. a \in ActorType
      <4>1. table[k].turns \in Seq(Nat)
        BY <3>1 DEF ActorType
      <4>2. Append(table[k].turns, TurnNumber(table[k])) \in Seq(Nat)
        BY <3>1, <4>1, OneMoreItem
      <4>3. QED
        BY <3>1, <4>2, WithTurns
    <3>3. table' = [table EXCEPT ![k] = a]
      BY <1>0, <2>1, <2>4 DEF TableOK
    <3>4. op \in OpType /\ op.pc = "backend" /\ op.bucket = 0 /\ op.mode = "none"
      BY <1>0, <2>1, <3>1 DEF ClientsOK, OpType
    <3>5. client' = [client EXCEPT ![c] = op]
      BY <1>0, <2>4 DEF ClientsOK
    <3> HIDE DEF a, op
    <3>6. TableOK'
      BY <1>0, <2>1, <2>2, <3>2, <3>3 DEF TableOK
    <3>7. ClientStep(c, op)
      BY <3>4, <3>5 DEF ClientStep
    <3>8. QED
      BY <2>2, <3>4, <3>6, <3>7, ClientTypes DEF TypesInv
  <2>5. QED
    BY <1>5, <2>3, <2>4 DEF TurnBegin
<1>6. ASSUME NEW c \in AppCall, TurnFill(c)
      PROVE  TypesInv'
  <2> DEFINE k == client[c].key
             item == <<client[c].turn, client[c].num>>
             a == [table[k] EXCEPT !.items = Append(@, item)]
  <2>1. k \in ThreadId /\ item \in Nat \X Nat
    BY <1>0, <1>6 DEF ClientsOK, OpType
  <2>2. table' = [table EXCEPT ![k].items = Append(@, item)] /\ place' = place /\ Reply(c)
        /\ completed' = completed \cup {<<k, item>>} /\ UNCHANGED <<appOps, overwritten>>
    BY <1>6 DEF TurnFill
  <2> HIDE DEF item
  <2>3. LogOK'
    BY <1>0, <2>1, <2>2 DEF LogOK
  <2>4. table[k] \in ActorType
    BY <1>0, <2>1 DEF TableOK
  <2>5. a \in ActorType
    <3>1. table[k].items \in Seq(Nat \X Nat)
      BY <2>4 DEF ActorType
    <3>2. Append(table[k].items, item) \in Seq(Nat \X Nat)
      BY <2>1, <3>1, OneMoreItem
    <3>3. QED
      BY <2>4, <3>2, WithItems
  <2>6. table' = [table EXCEPT ![k] = a]
    BY <1>0, <2>1, <2>2 DEF TableOK
  <2> HIDE DEF a
  <2>7. TableOK'
    BY <1>0, <2>1, <2>2, <2>5, <2>6 DEF TableOK
  <2>8. QED
    BY <2>2, <2>3, <2>7, ReplyStep, ClientTypes DEF TypesInv
<1>7. ASSUME NEW c \in AppCall, NEW k \in ThreadId, NEW i \in 1 .. Len(table[k].items),
             ThreadFork(c, k, i)
      PROVE  TypesInv'
  <2> DEFINE items == Append(SubSeq(table[k].items, 1, i), <<0, appOps + 1>>)
             child == [NewActor EXCEPT !.turns = << 0 >>, !.items = items, !.own = i]
             op == [NoOp EXCEPT !.pc = "fork_insert", !.key = k, !.child = child]
  <2>1. TableOK' /\ LogOK'
    BY <1>0, <1>7, AppServerAssumption, SMTT(30) DEF ThreadFork, TableOK, LogOK
  <2>2. items \in Seq(Nat \X Nat) /\ i \in Nat
    BY <1>0, ForkItems DEF TableOK, LogOK
  <2>3. child \in ActorType
    BY <2>2, ForkActor
  <2>4. /\ k \in Sessions /\ k[2] < MaxDepth
        /\ client' = [client EXCEPT ![c] = op]
    BY <1>7 DEF ThreadFork
  <2> HIDE DEF child
  <2>5. op \in OpType /\ op.pc = "fork_insert" /\ op.key = k /\ op.bucket = 0 /\ op.mode = "none"
    <3>1. NoOp \in OpType /\ NoOp.bucket = 0 /\ NoOp.mode = "none"
      BY NoOpType
    <3> HIDE DEF NoOp
    <3>2. QED
      BY <2>3, <3>1 DEF OpType
  <2>6. ForkId(k) \in ThreadId
    BY <2>4, AppServerAssumption DEF ForkId, ThreadId
  <2> HIDE DEF op
  <2>7. ClientStep(c, op)
    BY <2>4, <2>5 DEF ClientStep
  <2>8. QED
    BY <2>1, <2>5, <2>6, <2>7, ClientTypes DEF TypesInv
<1>8. ASSUME NEW c \in AppCall, ForkInsert(c)
      PROVE  TypesInv'
  <2>1. ForkId(client[c].key) \in ThreadId /\ client[c].child \in ActorType
    BY <1>0, <1>8 DEF ForkRoom, ClientsOK, OpType, ForkInsert, ClientAt
  <2>2. TableOK' /\ LogOK'
    BY <1>0, <1>8, <2>1, PutTypes DEF ForkInsert, TableOK, LogOK
  <2>3. QED
    BY <1>8, <2>2, ReplyStep, ClientTypes DEF TypesInv, ForkInsert
<1>9. ASSUME NEW c \in AppCall, NEW m \in Mode \cup {"none"}, StartSweep(c, m)
      PROVE  TypesInv'
  <2> DEFINE op == [NoOp EXCEPT !.pc = "sweep", !.mode = m]
  <2>1. TableOK' /\ LogOK'
    BY <1>0, <1>9, AppServerAssumption DEF StartSweep, TableOK, LogOK
  <2>2. op \in OpType /\ op.pc = "sweep"
    <3>1. NoOp \in OpType
      BY NoOpType
    <3> HIDE DEF NoOp
    <3>2. QED
      BY <3>1 DEF OpType
  <2>3. client' = [client EXCEPT ![c] = op]
    BY <1>9 DEF StartSweep
  <2> HIDE DEF op
  <2>4. QED
    BY <2>1, <2>2, <2>3, ClientTypes DEF TypesInv, ClientStep
<1>10. ASSUME NEW c \in AppCall, Sweep(c)
       PROVE  TypesInv'
  <2> DEFINE b == client[c].bucket + 1
             op == [client[c] EXCEPT !.bucket = b]
  <2>1. LogOK' /\ place' = place /\ client[c].pc = "sweep"
    BY <1>0, <1>10 DEF Sweep, LogOK, ClientAt
  <2>2. CASE Reply(c) /\ UNCHANGED table
    <3>1. TableOK'
      BY <1>0, <2>1, <2>2 DEF TableOK
    <3>2. QED
      BY <2>1, <2>2, <3>1, ReplyStep, ClientTypes DEF TypesInv
  <2>3. CASE /\ b <= Buckets
             /\ table' = Swept(b, client[c].mode)
             /\ client' = [client EXCEPT ![c].bucket = b]
    <3>1. op \in OpType /\ op.pc = "sweep"
      BY <1>0, <2>1, <2>3, AppServerAssumption DEF ClientsOK, OpType
    <3>2. client' = [client EXCEPT ![c] = op]
      BY <1>0, <2>3 DEF ClientsOK
    <3>3. \A k \in ThreadId : table'[k] \in ActorType
      BY <1>0, <2>3, WithMode DEF TableOK, Swept
    <3>4. TableOK'
      BY <1>0, <2>1, <2>3, <3>3 DEF TableOK, Swept
    <3> HIDE DEF op
    <3>5. QED
      BY <2>1, <3>1, <3>2, <3>4, ClientTypes DEF TypesInv, ClientStep
  <2>4. QED
    BY <1>10, <2>2, <2>3 DEF Sweep
<1>11. QED
  BY <1>1, <1>2, <1>3, <1>4, <1>5, <1>6, <1>7, <1>8, <1>9, <1>10 DEF AppNext

-----------------------------------------------------------------------------
(* Waiting in a circle.                                                    *)

\* A set of natural numbers has a least one.
LEMMA LeastNumber ==
    ASSUME NEW M, M \subseteq Nat, M # {}
    PROVE  \E n \in M : \A m \in M : n <= m
<1>1. IsWellFoundedOn(OpToRel(<, Nat), Nat)
  BY NatLessThanWellFounded
<1>2. PICK n \in M : \A m \in M : ~ (<<m, n>> \in OpToRel(<, Nat))
  BY <1>1, WFMin
<1>3. \A m \in M : ~ (m < n)
  <2> SUFFICES ASSUME NEW m \in M, m < n PROVE FALSE
    OBVIOUS
  <2>1. <<m, n>> \in Nat \X Nat /\ <<m, n>>[1] < <<m, n>>[2]
    OBVIOUS
  <2>2. <<m, n>> \in OpToRel(<, Nat)
    BY <2>1, Zenon DEF OpToRel
  <2>3. QED
    BY <1>2, <2>2
<1>4. QED
  BY <1>3

LEMMA StuckImplied == TypesInv => StuckOnlyByFork
<1> SUFFICES ASSUME TypesInv, NEW S \in SUBSET AppCall, S # {},
                    \A c \in S : Wanted(c) # 0 /\ \E d \in S : Wanted(c) \in HeldBy(d),
                    \A c \in S : ~ ClientAt(c, "fork_insert")
             PROVE  FALSE
  BY DEF StuckOnlyByFork
<1>1. \A d \in S : client[d].bucket \in 0 .. Buckets /\ client[d].bucket \in Nat /\ HeldBy(d) = {client[d].bucket}
  BY AppServerAssumption DEF TypesInv, ClientsOK, OpType, HeldBy
\* Whoever holds a shard is a sweep, and waits for the one after it.
<1>2. \A d \in S : client[d].bucket # 0 => Wanted(d) = client[d].bucket + 1
  BY <1>1 DEF TypesInv, SweepsOnly, Wanted, ClientAt
<1>3. \A c \in S : \E d \in S : client[d].bucket = Wanted(c) /\ client[d].bucket # 0
  BY <1>1
<1> DEFINE M == {n \in 0 .. Buckets : \E d \in S : client[d].bucket # 0 /\ client[d].bucket + n = Buckets}
<1>4. M # {} /\ M \subseteq Nat
  <2>1. PICK d \in S : client[d].bucket # 0
    BY <1>3
  <2>2. Buckets - client[d].bucket \in M
    BY <1>1, <2>1, AppServerAssumption
  <2>3. QED
    BY <2>2, AppServerAssumption
<1>5. PICK n \in M : \A m \in M : n <= m
  BY <1>4, LeastNumber
<1>6. PICK d \in S : client[d].bucket # 0 /\ client[d].bucket + n = Buckets
  BY <1>5
<1>7. PICK e \in S : client[e].bucket = client[d].bucket + 1
  BY <1>2, <1>3, <1>6
<1>8. n - 1 \in M
  BY <1>1, <1>5, <1>6, <1>7, AppServerAssumption
<1>9. QED
  BY <1>5, <1>8, AppServerAssumption

-----------------------------------------------------------------------------
(* Histories.                                                              *)

\* Turns are numbered from 1; the first of a fork has number 0.
Numbered(a) == \A i \in DOMAIN a.turns : a.turns[i] = i \/ (i = 1 /\ a.turns[i] = 0)

\* The items that were not inherited belong to turns of the actor.
ItemsOfTurns(a) ==
    \A i \in a.own + 1 .. Len(a.items) : \E j \in DOMAIN a.turns : a.turns[j] = a.items[i][1]

ActorsOK ==
    \A k \in ThreadId : Numbered(table[k]) /\ (k \notin overwritten => ItemsOfTurns(table[k]))

\* The session of a turn under way exists; its actor knows the turn unless it was
\* replaced.
UnderWay(c) ==
    client[c].pc \in {"backend", "fill"} =>
        /\ client[c].key \in Sessions
        /\ client[c].key \notin overwritten =>
             \E j \in DOMAIN table[client[c].key].turns :
                 table[client[c].key].turns[j] = client[c].turn

\* The actor that a fork is about to insert.
ChildOK(c) ==
    client[c].pc = "fork_insert" =>
        /\ client[c].child.turns = << 0 >> /\ client[c].child.mode = "default"
        /\ ItemsOfTurns(client[c].child)

CompletedThere ==
    \A r \in completed :
        /\ r[1] \in Sessions
        /\ r[1] \notin overwritten => \E i \in DOMAIN table[r[1]].items : table[r[1]].items[i] = r[2]

HistoryInv == ActorsOK /\ (\A c \in AppCall : UnderWay(c) /\ ChildOK(c)) /\ CompletedThere

\* What is in a history stays there: turns and items are added at the end.
Grown(a, b) ==
    /\ b.own = a.own
    /\ \A i \in DOMAIN a.turns : i \in DOMAIN b.turns /\ b.turns[i] = a.turns[i]
    /\ \A i \in DOMAIN a.items : i \in DOMAIN b.items /\ b.items[i] = a.items[i]

\* No step removes a session, or shortens a history that was not replaced.
Kept ==
    /\ overwritten \subseteq overwritten'
    /\ \A k \in Sessions :
         k \in Sessions' /\ (k \notin overwritten' => Grown(table[k], table'[k]))

LEMMA HistoryImplied == TypesInv /\ HistoryInv => HistoryKept
<1> SUFFICES ASSUME TypesInv, HistoryInv, NEW k \in Sessions, k \notin overwritten
             PROVE  LET a == table[k] IN
                    /\ \A i, j \in DOMAIN a.turns : a.turns[i] = a.turns[j] => i = j
                    /\ \A i \in a.own + 1 .. Len(a.items) :
                         \E j \in DOMAIN a.turns : a.turns[j] = a.items[i][1]
                    /\ \A r \in completed : r[1] = k => \E i \in DOMAIN a.items : a.items[i] = r[2]
  BY DEF HistoryKept
<1>1. k \in ThreadId /\ Numbered(table[k]) /\ ItemsOfTurns(table[k])
  BY DEF HistoryInv, ActorsOK, Sessions
<1>2. table[k].turns \in Seq(Nat)
  BY <1>1 DEF TypesInv, TableOK, ActorType
<1>3. \A i, j \in DOMAIN table[k].turns : table[k].turns[i] = table[k].turns[j] => i = j
  BY <1>1, <1>2 DEF Numbered
<1>4. \A r \in completed :
          r[1] = k => \E i \in DOMAIN table[k].items : table[k].items[i] = r[2]
  BY DEF HistoryInv, CompletedThere
<1>5. QED
  BY <1>1, <1>3, <1>4 DEF ItemsOfTurns

LEMMA HistoryInit == AppInit => HistoryInv
<1> SUFFICES ASSUME AppInit PROVE HistoryInv
  OBVIOUS
<1>1. NoActor.turns = <<>> /\ NoActor.items = <<>> /\ NoActor.own = 0
  BY DEF NoActor
<1>2. Numbered(NoActor) /\ ItemsOfTurns(NoActor)
  BY <1>1 DEF Numbered, ItemsOfTurns
<1>3. ActorsOK
  BY <1>2 DEF AppInit, ActorsOK
<1>4. \A c \in AppCall : UnderWay(c) /\ ChildOK(c)
  BY NoOpType DEF AppInit, UnderWay, ChildOK
<1>5. QED
  BY <1>3, <1>4 DEF HistoryInv, CompletedThere, AppInit

\* The calls under way, after the step of one of them.
LEMMA CallsKeep ==
    ASSUME TypesInv, HistoryInv, Kept, NEW c \in AppCall, NEW op, ClientStep(c, op),
           op.pc \in {"backend", "fill"} =>
               /\ op.key \in Sessions'
               /\ op.key \notin overwritten' =>
                    \E j \in DOMAIN table'[op.key].turns : table'[op.key].turns[j] = op.turn,
           op.pc = "fork_insert" =>
               op.child.turns = << 0 >> /\ op.child.mode = "default" /\ ItemsOfTurns(op.child)
    PROVE  \A d \in AppCall : UnderWay(d)' /\ ChildOK(d)'
<1> TAKE d \in AppCall
<1>1. UnderWay(d) /\ ChildOK(d)
  BY DEF HistoryInv
<1>2. CASE d = c
  <2>1. client'[d] = op
    BY <1>2 DEF ClientStep, TypesInv, ClientsOK
  <2>2. QED
    BY <2>1 DEF UnderWay, ChildOK
<1>3. CASE d # c
  <2>1. client'[d] = client[d]
    BY <1>3 DEF ClientStep, TypesInv, ClientsOK
  <2>2. ChildOK(d)'
    BY <1>1, <2>1 DEF ChildOK
  <2>3. UnderWay(d)'
    BY <1>1, <2>1 DEF UnderWay, Kept, Grown
  <2>4. QED
    BY <2>2, <2>3
<1>4. QED
  BY <1>2, <1>3

\* The completed turns stay in their histories.
LEMMA CompletedKeep ==
    ASSUME HistoryInv, Kept, completed' = completed
    PROVE  CompletedThere'
BY DEF HistoryInv, CompletedThere, Kept, Grown

\* A step that gives one session a new actor.
ActorStep(k, a) == a \in ActorType /\ table' = [table EXCEPT ![k] = a]

LEMMA ActorsKeep ==
    ASSUME TypesInv, HistoryInv, NEW k \in ThreadId, NEW a, ActorStep(k, a),
           overwritten \subseteq overwritten', Numbered(a),
           k \notin overwritten' => ItemsOfTurns(a)
    PROVE  ActorsOK'
<1> SUFFICES ASSUME NEW j \in ThreadId
             PROVE  Numbered(table'[j]) /\ (j \notin overwritten' => ItemsOfTurns(table'[j]))
  BY DEF ActorsOK, Numbered, ItemsOfTurns
<1>1. table'[j] = IF j = k THEN a ELSE table[j]
  BY DEF ActorStep, TypesInv, TableOK
<1>2. QED
  BY <1>1 DEF HistoryInv, ActorsOK

LEMMA KeptStep ==
    ASSUME TypesInv, NEW k \in ThreadId, NEW a, ActorStep(k, a), a # NoActor,
           overwritten \subseteq overwritten',
           k \in Sessions /\ k \notin overwritten' => Grown(table[k], a)
    PROVE  Kept /\ k \in Sessions'
<1>1. \A j \in ThreadId : table'[j] = IF j = k THEN a ELSE table[j]
  BY DEF ActorStep, TypesInv, TableOK
<1>2. \A j \in ThreadId : Grown(table[j], table[j])
  BY DEF Grown
<1>3. k \in Sessions'
  BY <1>1 DEF Sessions
<1>4. \A j \in Sessions : j \in Sessions' /\ (j \notin overwritten' => Grown(table[j], table'[j]))
  BY <1>1, <1>2 DEF Sessions
<1>5. QED
  BY <1>3, <1>4 DEF Kept

\* An insert replaces the actor of a session, or adds a session.
LEMMA PutHistory ==
    ASSUME TypesInv, HistoryInv, NEW k \in ThreadId, NEW a \in ActorType, Put(k, a), a # NoActor,
           Numbered(a), ItemsOfTurns(a)
    PROVE  Kept /\ ActorsOK'
<1>1. ActorStep(k, a) /\ overwritten \subseteq overwritten'
      /\ (k \in Sessions => k \in overwritten')
  BY DEF Put, ActorStep
<1>2. QED
  BY <1>1, ActorsKeep, KeptStep

\* Nothing happens to a history while the table does not change.
LEMMA SameHistory ==
    ASSUME TypesInv, HistoryInv, UNCHANGED <<table, overwritten>>
    PROVE  Kept /\ ActorsOK'
<1>1. Sessions' = Sessions
  BY DEF Sessions
<1>2. Kept
  BY <1>1 DEF Kept, Grown
<1>3. ActorsOK'
  BY DEF HistoryInv, ActorsOK, Numbered, ItemsOfTurns
<1>4. QED
  BY <1>2, <1>3

LEMMA HistoryNext == TypesInv /\ HistoryInv /\ [AppNext]_appVars => HistoryInv'
<1> SUFFICES ASSUME TypesInv, HistoryInv, [AppNext]_appVars PROVE HistoryInv'
  OBVIOUS
<1>0. /\ TableOK /\ LogOK /\ ClientsOK /\ ForkRoom /\ SweepsOnly
      /\ ActorsOK /\ CompletedThere
      /\ \A c \in AppCall : UnderWay(c) /\ ChildOK(c)
  BY DEF TypesInv, HistoryInv
<1>1. CASE UNCHANGED appVars
  <2>1. Kept /\ ActorsOK'
    BY <1>1, SameHistory DEF appVars
  <2>2. CompletedThere'
    BY <1>1, <2>1, CompletedKeep DEF appVars
  <2>3. \A c \in AppCall : UnderWay(c)' /\ ChildOK(c)'
    BY <1>0, <1>1 DEF appVars, UnderWay, ChildOK, Sessions
  <2>4. QED
    BY <2>1, <2>2, <2>3 DEF HistoryInv
\* A call begins, goes on or ends, and the table does not change.
<1>2. ASSUME NEW c \in AppCall, UNCHANGED <<table, overwritten, completed>>,
             NEW op, ClientStep(c, op),
             \/ op.pc \notin {"backend", "fill", "fork_insert"}
             \/ /\ op.pc = "fill" /\ client[c].pc = "backend"
                /\ op.key = client[c].key /\ op.turn = client[c].turn
             \/ /\ op.pc = "fork_insert" /\ op.child.turns = << 0 >> /\ op.child.mode = "default"
                /\ ItemsOfTurns(op.child)
      PROVE  HistoryInv'
  <2>1. Kept /\ ActorsOK'
    BY <1>2, SameHistory
  <2>2. op.pc \in {"backend", "fill"} =>
            /\ op.key \in Sessions'
            /\ op.key \notin overwritten' =>
                 \E j \in DOMAIN table'[op.key].turns : table'[op.key].turns[j] = op.turn
    BY <1>0, <1>2 DEF UnderWay, Sessions
  <2>3. op.pc = "fork_insert" =>
            op.child.turns = << 0 >> /\ op.child.mode = "default" /\ ItemsOfTurns(op.child)
    BY <1>2
  <2>4. \A d \in AppCall : UnderWay(d)' /\ ChildOK(d)'
    BY <1>2, <2>1, <2>2, <2>3, CallsKeep
  <2>5. QED
    BY <1>2, <2>1, <2>4, CompletedKeep DEF HistoryInv
\* A call ends, or goes on to its turn, and the table was changed.
<1>3. ASSUME NEW c \in AppCall, Kept, ActorsOK', completed' = completed,
             NEW op, ClientStep(c, op), op.pc \notin {"backend", "fill", "fork_insert"}
      PROVE  HistoryInv'
  <2>1. \A d \in AppCall : UnderWay(d)' /\ ChildOK(d)'
    BY <1>3, CallsKeep
  <2>2. QED
    BY <1>3, <2>1, CompletedKeep DEF HistoryInv
<1>4. ASSUME NEW c \in AppCall, NEW k \in ThreadId, ThreadStart(c, k) \/ TurnSubmit(c, k)
      PROVE  HistoryInv'
  <2>1. UNCHANGED <<table, overwritten, completed>>
    BY <1>4 DEF ThreadStart, TurnSubmit
  <2>2. CASE UNCHANGED client
    <3>1. Kept /\ ActorsOK'
      BY <2>1, SameHistory
    <3>2. \A d \in AppCall : UnderWay(d)' /\ ChildOK(d)'
      BY <1>0, <2>1, <2>2 DEF UnderWay, ChildOK, Sessions
    <3>3. QED
      BY <2>1, <3>1, <3>2, CompletedKeep DEF HistoryInv
  <2>3. ASSUME NEW pc \in {"start_key", "turn"}, Begin(c, pc, k)
        PROVE  HistoryInv'
    <3>1. PICK op : ClientStep(c, op) /\ op.pc = pc
      BY <2>3, BeginStep
    <3>2. QED
      BY <1>2, <2>1, <3>1
  <2>4. QED
    BY <1>4, <2>2, <2>3 DEF ThreadStart, TurnSubmit
<1>5. ASSUME NEW c \in AppCall, StartKey(c) \/ Backend(c)
      PROVE  HistoryInv'
  <2>1. UNCHANGED <<table, overwritten, completed>>
    BY <1>5 DEF StartKey, Backend
  <2>2. CASE Reply(c)
    <3>1. PICK op : ClientStep(c, op) /\ op.pc = "idle"
      BY <2>2, ReplyStep
    <3>2. QED
      BY <1>2, <2>1, <3>1
  <2>3. CASE Continue(c, "start_insert")
    <3>1. PICK op : ClientStep(c, op) /\ op.pc = "start_insert"
      BY <2>3, ContinueStep
    <3>2. QED
      BY <1>2, <2>1, <3>1
  <2>4. CASE Backend(c) /\ Continue(c, "fill")
    <3>1. PICK op : /\ ClientStep(c, op) /\ op.pc = "fill"
                    /\ op.key = client[c].key /\ op.turn = client[c].turn
      BY <2>4, ContinueStep
    <3>2. QED
      BY <1>2, <2>1, <2>4, <3>1 DEF Backend, ClientAt
  <2>5. QED
    BY <1>5, <2>2, <2>3, <2>4 DEF StartKey, Backend
<1>6. ASSUME NEW c \in AppCall, StartInsert(c)
      PROVE  HistoryInv'
  <2>1. client[c].key \in ThreadId
    BY <1>0 DEF ClientsOK, OpType
  <2>2. NewActor # NoActor /\ Numbered(NewActor) /\ ItemsOfTurns(NewActor)
    BY NoOpType DEF Numbered, ItemsOfTurns
  <2>3. Kept /\ ActorsOK'
    BY <1>6, <2>1, <2>2, NoOpType, PutHistory DEF StartInsert
  <2>4. PICK op : ClientStep(c, op) /\ op.pc \in {"idle", "turn"}
    BY <1>6, ReplyStep, ContinueStep DEF StartInsert
  <2>5. QED
    BY <1>3, <1>6, <2>3, <2>4 DEF StartInsert
<1>7. ASSUME NEW c \in AppCall, ForkInsert(c)
      PROVE  HistoryInv'
  <2>1. /\ ForkId(client[c].key) \in ThreadId /\ client[c].child \in ActorType
        /\ client[c].child.turns = << 0 >> /\ client[c].child.mode = "default"
        /\ ItemsOfTurns(client[c].child)
    BY <1>0, <1>7 DEF ForkRoom, ClientsOK, OpType, ForkInsert, ClientAt, ChildOK
  <2>2. client[c].child # NoActor /\ Numbered(client[c].child)
    BY <2>1, NoOpType DEF Numbered
  <2>3. Kept /\ ActorsOK'
    BY <1>7, <2>1, <2>2, PutHistory DEF ForkInsert
  <2>4. PICK op : ClientStep(c, op) /\ op.pc = "idle"
    BY <1>7, ReplyStep DEF ForkInsert
  <2>5. QED
    BY <1>3, <1>7, <2>3, <2>4 DEF ForkInsert
<1>8. ASSUME NEW c \in AppCall, NEW m \in Mode \cup {"none"}, StartSweep(c, m)
      PROVE  HistoryInv'
  <2> DEFINE op == [NoOp EXCEPT !.pc = "sweep", !.mode = m]
  <2>1. op \in OpType /\ op.pc = "sweep"
    <3>1. NoOp \in OpType
      BY NoOpType
    <3> HIDE DEF NoOp
    <3>2. QED
      BY <3>1 DEF OpType
  <2>2. client' = [client EXCEPT ![c] = op] /\ UNCHANGED <<table, overwritten, completed>>
    BY <1>8 DEF StartSweep
  <2> HIDE DEF op
  <2>3. QED
    BY <1>2, <2>1, <2>2 DEF ClientStep
<1>9. ASSUME NEW c \in AppCall, NEW k \in ThreadId, NEW i \in 1 .. Len(table[k].items),
             ThreadFork(c, k, i)
      PROVE  HistoryInv'
  <2> DEFINE items == Append(SubSeq(table[k].items, 1, i), <<0, appOps + 1>>)
             child == [NewActor EXCEPT !.turns = << 0 >>, !.items = items, !.own = i]
             op == [NoOp EXCEPT !.pc = "fork_insert", !.key = k, !.child = child]
  <2>1. /\ items \in Seq(Nat \X Nat) /\ i \in Nat
        /\ Len(items) = i + 1 /\ items[i + 1] = <<0, appOps + 1>>
    BY <1>0, ForkItems
  <2>2. client' = [client EXCEPT ![c] = op] /\ UNCHANGED <<table, overwritten, completed>>
    BY <1>9 DEF ThreadFork
  <2>3. items[i + 1][1] = 0
    BY <2>1
  <2> HIDE DEF items
  <2>4. /\ child \in ActorType /\ child.turns = << 0 >> /\ child.items = items
        /\ child.own = i /\ child.mode = "default"
    BY <2>1, ForkActor
  <2> HIDE DEF child
  <2>5. ItemsOfTurns(child)
    <3>1. 1 \in DOMAIN child.turns /\ child.turns[1] = 0
      BY <2>4
    <3>2. child.own + 1 .. Len(child.items) = {i + 1}
      BY <2>1, <2>4
    <3>3. QED
      BY <2>3, <2>4, <3>1, <3>2 DEF ItemsOfTurns
  <2>6. op \in OpType /\ op.pc = "fork_insert" /\ op.child = child
    <3>1. NoOp \in OpType
      BY NoOpType
    <3> HIDE DEF NoOp
    <3>2. QED
      BY <2>4, <3>1 DEF OpType
  <2> HIDE DEF op
  <2>7. ClientStep(c, op)
    BY <2>2, <2>6 DEF ClientStep
  <2>8. QED
    BY <1>2, <2>2, <2>4, <2>5, <2>6, <2>7
<1>10. ASSUME NEW c \in AppCall, TurnBegin(c)
       PROVE  HistoryInv'
  <2> DEFINE k == client[c].key
             n == TurnNumber(table[k])
             a == [table[k] EXCEPT !.turns = Append(@, n)]
             op == [client[c] EXCEPT !.pc = "backend", !.turn = n]
  <2>1. k \in ThreadId /\ table[k] \in ActorType /\ client[c] \in OpType
    BY <1>0 DEF ClientsOK, OpType, TableOK
  <2>2. UNCHANGED <<overwritten, completed>>
    BY <1>10 DEF TurnBegin
  <2>3. CASE Reply(c) /\ UNCHANGED table
    <3>1. PICK o : ClientStep(c, o) /\ o.pc = "idle"
      BY <2>3, ReplyStep
    <3>2. QED
      BY <1>2, <2>2, <2>3, <3>1
  <2>4. CASE /\ k \in Sessions
             /\ table' = [table EXCEPT ![k].turns = Append(@, n)]
             /\ client' = [client EXCEPT ![c].pc = "backend", ![c].turn = n]
    <3>1. table[k].turns \in Seq(Nat) /\ n = Len(table[k].turns) + 1 /\ n \in Nat
      BY <2>1 DEF ActorType, TurnNumber
    <3>2. table' = [table EXCEPT ![k] = a]
      BY <1>0, <2>1, <2>4 DEF TableOK
    <3>3. client' = [client EXCEPT ![c] = op]
      BY <1>0, <2>4 DEF ClientsOK
    <3> HIDE DEF n
    <3>4. /\ Append(table[k].turns, n) \in Seq(Nat)
          /\ DOMAIN Append(table[k].turns, n) = 1 .. n /\ DOMAIN table[k].turns = 1 .. n - 1
          /\ \A i \in 1 .. n - 1 : Append(table[k].turns, n)[i] = table[k].turns[i]
          /\ Append(table[k].turns, n)[n] = n
      BY <3>1, OneMoreItem, SMTT(30)
    <3>5. /\ a \in ActorType /\ a.turns = Append(table[k].turns, n)
          /\ a.items = table[k].items /\ a.own = table[k].own
      BY <2>1, <3>4, WithTurns
    <3>6. op \in OpType /\ op.pc = "backend" /\ op.key = k /\ op.turn = n
      BY <2>1, <3>1 DEF OpType
    <3> HIDE DEF a, op
    <3>7. ActorStep(k, a) /\ ClientStep(c, op)
      BY <3>2, <3>3, <3>5, <3>6 DEF ActorStep, ClientStep
    <3>8. Grown(table[k], a)
      <4>1. \A i \in 1 .. n - 1 : i \in 1 .. n
        BY <3>1
      <4>2. \A i \in DOMAIN table[k].turns :
              i \in DOMAIN a.turns /\ a.turns[i] = table[k].turns[i]
        BY <3>4, <3>5, <4>1
      <4>3. QED
        BY <3>5, <4>2 DEF Grown
    <3>9. n \in DOMAIN a.turns /\ a.turns[n] = n
      BY <3>1, <3>4, <3>5, SMTT(30)
    <3>10. a # NoActor
      BY <3>9 DEF NoActor
    <3>11. Numbered(a)
      <4>1. Numbered(table[k])
        BY <1>0, <2>1 DEF ActorsOK
      <4>2. \A i \in DOMAIN a.turns : i = n \/ i \in DOMAIN table[k].turns
        <5>1. \A i \in 1 .. n : i = n \/ i \in 1 .. n - 1
          BY <3>1
        <5>2. QED
          BY <3>4, <3>5, <5>1
      <4>3. \A i \in DOMAIN table[k].turns : a.turns[i] = table[k].turns[i]
        BY <3>8 DEF Grown
      <4>4. QED
        BY <3>9, <4>1, <4>2, <4>3 DEF Numbered
    <3>12. k \notin overwritten => ItemsOfTurns(a)
      <4>1. k \notin overwritten => ItemsOfTurns(table[k])
        BY <1>0, <2>1 DEF ActorsOK
      <4>2. QED
        BY <3>5, <3>8, <4>1, SMTT(30) DEF ItemsOfTurns, Grown
    <3>13. Kept /\ k \in Sessions'
      BY <2>1, <2>2, <3>7, <3>8, <3>10, KeptStep
    <3>14. ActorsOK'
      BY <2>1, <2>2, <3>7, <3>11, <3>12, ActorsKeep
    <3>15. table'[k] = a
      BY <1>0, <2>1, <3>2 DEF TableOK
    <3>16. \A d \in AppCall : UnderWay(d)' /\ ChildOK(d)'
      BY <3>6, <3>7, <3>9, <3>13, <3>15, CallsKeep
    <3>17. QED
      BY <2>2, <3>13, <3>14, <3>16, CompletedKeep DEF HistoryInv
  <2>5. QED
    BY <1>10, <2>3, <2>4 DEF TurnBegin
<1>11. ASSUME NEW c \in AppCall, TurnFill(c)
       PROVE  HistoryInv'
  <2> DEFINE k == client[c].key
             item == <<client[c].turn, client[c].num>>
             a == [table[k] EXCEPT !.items = Append(@, item)]
  <2>1. k \in ThreadId /\ table[k] \in ActorType /\ item \in Nat \X Nat /\ item[1] = client[c].turn
    BY <1>0 DEF ClientsOK, OpType, TableOK
  <2>2. /\ client[c].pc = "fill" /\ table' = [table EXCEPT ![k].items = Append(@, item)]
        /\ completed' = completed \cup {<<k, item>>} /\ Reply(c) /\ UNCHANGED overwritten
    BY <1>11 DEF TurnFill, ClientAt
  <2>3. /\ k \in Sessions
        /\ k \notin overwritten => \E j \in DOMAIN table[k].turns : table[k].turns[j] = client[c].turn
    BY <1>0, <2>2 DEF UnderWay
  <2> HIDE DEF item
  <2>4. table' = [table EXCEPT ![k] = a]
    BY <1>0, <2>1, <2>2 DEF TableOK
  <2>5. table[k].items \in Seq(Nat \X Nat) /\ table[k].own \in Nat
    BY <2>1 DEF ActorType
  <2> DEFINE n == Len(table[k].items) + 1
  <2>6. /\ Append(table[k].items, item) \in Seq(Nat \X Nat) /\ n \in Nat
        /\ Len(Append(table[k].items, item)) = n
        /\ DOMAIN Append(table[k].items, item) = 1 .. n /\ DOMAIN table[k].items = 1 .. n - 1
        /\ \A i \in 1 .. n - 1 : Append(table[k].items, item)[i] = table[k].items[i]
        /\ Append(table[k].items, item)[n] = item
    <3> DEFINE s == table[k].items
               T == Nat \X Nat
    <3>1. s \in Seq(T) /\ item \in T /\ n = Len(s) + 1
      BY <2>1, <2>5
    <3> HIDE DEF T
    <3>2. /\ Append(s, item) \in Seq(T) /\ n \in Nat /\ Len(Append(s, item)) = n
          /\ DOMAIN Append(s, item) = 1 .. n /\ DOMAIN s = 1 .. n - 1
          /\ \A i \in 1 .. n - 1 : Append(s, item)[i] = s[i]
          /\ Append(s, item)[n] = item
      <4> HIDE DEF s, n
      <4>1. QED
        BY <3>1
    <3> USE DEF T
    <3>3. QED
      BY <3>2, Zenon
  <2>7. /\ a \in ActorType /\ a.items = Append(table[k].items, item)
        /\ a.turns = table[k].turns /\ a.own = table[k].own
    BY <2>1, <2>6, WithItems
  <2>8. n = Len(table[k].items) + 1
    OBVIOUS
  <2> HIDE DEF a, n
  <2>9. ActorStep(k, a) /\ Grown(table[k], a)
    BY <2>4, <2>5, <2>6, <2>7, SMTT(30) DEF ActorStep, Grown
  <2>10. n \in DOMAIN a.items /\ a.items[n] = item /\ n \in 1 .. n
    BY <2>5, <2>6, <2>7, <2>8, SMTT(30)
  <2>11. a # NoActor
    BY <2>10 DEF NoActor
  <2>12. Numbered(a)
    BY <1>0, <2>1, <2>7 DEF ActorsOK, Numbered
  <2>13. k \notin overwritten => ItemsOfTurns(a)
    <3> SUFFICES ASSUME k \notin overwritten, NEW i \in a.own + 1 .. n
                 PROVE  \E j \in DOMAIN a.turns : a.turns[j] = a.items[i][1]
      BY <2>6, <2>7 DEF ItemsOfTurns
    <3>1. CASE i = n
      BY <2>1, <2>3, <2>7, <2>10, <3>1
    <3>2. CASE i # n
      <4>1. i \in table[k].own + 1 .. Len(table[k].items) /\ a.items[i] = table[k].items[i]
        BY <2>5, <2>6, <2>7, <2>8, <3>2, SMTT(30)
      <4>2. ItemsOfTurns(table[k])
        BY <1>0, <2>1 DEF ActorsOK
      <4>3. QED
        BY <2>7, <4>1, <4>2 DEF ItemsOfTurns
    <3>3. QED
      BY <3>1, <3>2
  <2>14. Kept /\ k \in Sessions'
    BY <2>1, <2>2, <2>9, <2>11, KeptStep
  <2>15. ActorsOK'
    BY <2>1, <2>2, <2>9, <2>12, <2>13, ActorsKeep
  <2>16. table'[k] = a
    BY <1>0, <2>1, <2>4 DEF TableOK
  <2>17. CompletedThere'
    <3> SUFFICES ASSUME NEW r \in completed'
                 PROVE  /\ r[1] \in Sessions'
                        /\ r[1] \notin overwritten' =>
                             \E i \in DOMAIN table'[r[1]].items : table'[r[1]].items[i] = r[2]
      BY DEF CompletedThere
    <3>1. CASE r \in completed
      BY <1>0, <2>14, <3>1 DEF CompletedThere, Kept, Grown
    <3>2. CASE r = <<k, item>>
      BY <2>10, <2>14, <2>16, <3>2
    <3>3. QED
      BY <2>2, <3>1, <3>2
  <2>18. PICK op : ClientStep(c, op) /\ op.pc = "idle"
    BY <2>2, ReplyStep
  <2>19. \A d \in AppCall : UnderWay(d)' /\ ChildOK(d)'
    BY <2>14, <2>18, CallsKeep
  <2>20. QED
    BY <2>15, <2>17, <2>19 DEF HistoryInv
<1>12. ASSUME NEW c \in AppCall, Sweep(c)
       PROVE  HistoryInv'
  <2> DEFINE b == client[c].bucket + 1
             op == [client[c] EXCEPT !.bucket = b]
  <2>1. UNCHANGED <<overwritten, completed>> /\ client[c].pc = "sweep"
    BY <1>12 DEF Sweep, ClientAt
  <2>2. CASE Reply(c) /\ UNCHANGED table
    <3>1. PICK o : ClientStep(c, o) /\ o.pc = "idle"
      BY <2>2, ReplyStep
    <3>2. QED
      BY <1>2, <2>1, <2>2, <3>1
  <2>3. CASE /\ b <= Buckets
             /\ table' = Swept(b, client[c].mode)
             /\ client' = [client EXCEPT ![c].bucket = b]
    <3>1. op \in OpType /\ op.pc = "sweep"
      BY <1>0, <2>1, <2>3, AppServerAssumption DEF ClientsOK, OpType
    <3>2. client' = [client EXCEPT ![c] = op]
      BY <1>0, <2>3 DEF ClientsOK
    <3>3. \A k \in ThreadId :
              /\ table'[k].turns = table[k].turns /\ table'[k].items = table[k].items
              /\ table'[k].own = table[k].own
              /\ table'[k] = table[k] \/ table'[k].mode \in Mode
      BY <1>0, <2>3, WithMode DEF TableOK, Swept
    <3>4. Sessions \subseteq Sessions'
      BY <3>3, NoOpType DEF Sessions, Mode
    <3>5. Kept
      BY <2>1, <3>3, <3>4 DEF Kept, Grown, Sessions
    <3>6. ActorsOK'
      BY <1>0, <2>1, <3>3 DEF ActorsOK, Numbered, ItemsOfTurns
    <3> HIDE DEF op
    <3>7. QED
      BY <1>3, <2>1, <3>1, <3>2, <3>5, <3>6 DEF ClientStep
  <2>4. QED
    BY <1>12, <2>2, <2>3 DEF Sweep
<1>13. QED
  BY <1>1, <1>4, <1>5, <1>6, <1>7, <1>8, <1>9, <1>10, <1>11, <1>12 DEF AppNext

-----------------------------------------------------------------------------
(* Modes.                                                                  *)

\* A switch of the mode that is in shard b, and one between two shards.
SwitchAt(c, b)      == client[c].mode \in Mode /\ client[c].bucket = b
SwitchIn(low, high) == \E c \in AppCall : \E b \in low .. high - 1 : SwitchAt(c, b)

\* Two sweeps are never in the same shard.
SweepsApart ==
    \A c, d \in AppCall : client[c].bucket = client[d].bucket /\ client[c].bucket # 0 => c = d

\* A session has the mode of the last switch that passed it ...
LastSwitch ==
    \A k \in ThreadId, c \in AppCall :
        \A b \in place[k] .. Buckets :
            table[k].mode \in Mode /\ SwitchAt(c, b) /\ ~ SwitchIn(place[k], b)
            => table[k].mode = client[c].mode

\* ... and the same as another session, unless a switch is between the two.
SameMode ==
    \A j, k \in ThreadId :
        /\ table[j].mode \in Mode /\ table[k].mode \in Mode
        /\ place[j] <= place[k] /\ ~ SwitchIn(place[j], place[k])
        => table[j].mode = table[k].mode

ModesInv == SweepsApart /\ LastSwitch /\ SameMode

LEMMA ModesImplied == TypesInv /\ ModesInv => ModesAgree
<1> SUFFICES ASSUME TypesInv, ModesInv, \A c \in AppCall : client[c].mode = "none",
                    NEW j \in ThreadId, NEW k \in ThreadId,
                    table[j].mode \in Mode, table[k].mode \in Mode
             PROVE  table[j].mode = table[k].mode
  BY DEF ModesAgree
<1>1. ~ SwitchIn(place[j], place[k]) /\ ~ SwitchIn(place[k], place[j])
  BY DEF SwitchIn, SwitchAt, Mode
<1>2. place[j] <= place[k] \/ place[k] <= place[j]
  BY DEF TypesInv, TableOK
<1>3. QED
  BY <1>1, <1>2 DEF ModesInv, SameMode

LEMMA ModesInit == AppInit => ModesInv
<1> SUFFICES ASSUME AppInit PROVE ModesInv
  OBVIOUS
<1>1. \A c \in AppCall : client[c].bucket = 0
  BY NoOpType DEF AppInit
<1>2. \A k \in ThreadId : table[k].mode \notin Mode
  BY NoOpType DEF AppInit, Mode
<1>3. QED
  BY <1>1, <1>2 DEF ModesInv, SweepsApart, LastSwitch, SameMode

\* A step in which no sweep moves, and no session is switched.
LEMMA QuietModes ==
    ASSUME TypesInv, ModesInv, place' = place,
           \A k \in ThreadId : table'[k].mode \in Mode => table'[k].mode = table[k].mode,
           \A d \in AppCall :
               \/ client'[d].bucket = client[d].bucket /\ client'[d].mode = client[d].mode
               \/ client'[d].bucket = 0 /\ client[d].bucket = 0
    PROVE  ModesInv'
<1>1. \A k \in ThreadId : place[k] \in 1 .. Buckets
  BY DEF TypesInv, TableOK
<1>2. SweepsApart'
  BY DEF ModesInv, SweepsApart
<1>3. \A d \in AppCall : \A b \in 1 .. Buckets : SwitchAt(d, b)' <=> SwitchAt(d, b)
  BY DEF SwitchAt
<1>4. \A low \in 1 .. Buckets : \A high \in 1 .. Buckets : SwitchIn(low, high)' <=> SwitchIn(low, high)
  <2> SUFFICES ASSUME NEW low \in 1 .. Buckets, NEW high \in 1 .. Buckets
               PROVE  SwitchIn(low, high)' <=> SwitchIn(low, high)
    OBVIOUS
  <2>1. low .. high - 1 \subseteq 1 .. Buckets
    BY AppServerAssumption
  <2>2. QED
    BY <1>3, <2>1 DEF SwitchIn
<1>5. LastSwitch'
  <2> SUFFICES ASSUME NEW k \in ThreadId, NEW c \in AppCall, NEW b \in place[k] .. Buckets,
                      table'[k].mode \in Mode, SwitchAt(c, b)', ~ SwitchIn(place[k], b)'
               PROVE  table'[k].mode = client'[c].mode
    BY DEF LastSwitch
  <2>1. b \in 1 .. Buckets
    BY <1>1, AppServerAssumption
  <2>2. SwitchAt(c, b) /\ ~ SwitchIn(place[k], b)
    BY <1>1, <1>3, <1>4, <2>1
  <2>3. table[k].mode = client[c].mode
    BY <2>2 DEF ModesInv, LastSwitch
  <2>4. client'[c].mode = client[c].mode
    BY <2>1, <2>2 DEF SwitchAt
  <2>5. QED
    BY <2>3, <2>4
<1>6. SameMode'
  BY <1>1, <1>4 DEF ModesInv, SameMode
<1>7. QED
  BY <1>2, <1>5, <1>6 DEF ModesInv

\* A sweep that has passed the last shard, or sets no mode, ends.
LEMMA SweepEnds ==
    ASSUME TypesInv, ModesInv, place' = place, table' = table,
           NEW c \in AppCall, client[c].bucket = Buckets \/ client[c].mode = "none",
           client'[c].bucket = 0,
           \A d \in AppCall \ {c} : client'[d] = client[d]
    PROVE  ModesInv'
<1>1. \A k \in ThreadId : place[k] \in 1 .. Buckets
  BY DEF TypesInv, TableOK
<1>2. SweepsApart'
  BY DEF ModesInv, SweepsApart
<1>3. \A d \in AppCall : \A b \in 1 .. Buckets - 1 : SwitchAt(d, b)' <=> SwitchAt(d, b)
  BY AppServerAssumption DEF SwitchAt, Mode
<1>4. \A low \in 1 .. Buckets : \A high \in 1 .. Buckets : SwitchIn(low, high)' <=> SwitchIn(low, high)
  <2> SUFFICES ASSUME NEW low \in 1 .. Buckets, NEW high \in 1 .. Buckets
               PROVE  SwitchIn(low, high)' <=> SwitchIn(low, high)
    OBVIOUS
  <2>1. low .. high - 1 \subseteq 1 .. Buckets - 1
    BY AppServerAssumption
  <2>2. QED
    BY <1>3, <2>1 DEF SwitchIn
<1>5. LastSwitch'
  <2> SUFFICES ASSUME NEW k \in ThreadId, NEW d \in AppCall, NEW b \in place[k] .. Buckets,
                      table'[k].mode \in Mode, SwitchAt(d, b)', ~ SwitchIn(place[k], b)'
               PROVE  table'[k].mode = client'[d].mode
    BY DEF LastSwitch
  <2>1. b \in 1 .. Buckets
    BY <1>1, AppServerAssumption
  <2>2. d # c
    BY <2>1 DEF SwitchAt
  <2>3. SwitchAt(d, b) /\ ~ SwitchIn(place[k], b)
    BY <1>1, <1>4, <2>1, <2>2 DEF SwitchAt
  <2>4. QED
    BY <2>2, <2>3 DEF ModesInv, LastSwitch
<1>6. SameMode'
  BY <1>1, <1>4 DEF ModesInv, SameMode
<1>7. QED
  BY <1>2, <1>5, <1>6 DEF ModesInv

\* A sweep takes the next shard.
LEMMA SweepMoves ==
    ASSUME TypesInv, ModesInv, place' = place, NEW c \in AppCall,
           NEW b \in 1 .. Buckets, b = client[c].bucket + 1, MayWrite(b),
           client'[c].bucket = b, client'[c].mode = client[c].mode,
           \A d \in AppCall \ {c} : client'[d] = client[d],
           \A k \in ThreadId :
               table'[k].mode \in Mode =>
                   table'[k].mode = IF place[k] = b /\ client[c].mode \in Mode
                                    THEN client[c].mode ELSE table[k].mode
    PROVE  ModesInv'
<1>1. /\ \A k \in ThreadId : place[k] \in 1 .. Buckets
      /\ \A d \in AppCall : client[d].bucket \in 0 .. Buckets
      /\ b \in Nat /\ Buckets \in Nat
  BY AppServerAssumption DEF TypesInv, TableOK, ClientsOK, OpType
<1>2. \A d \in AppCall : client[d].bucket # b
  <2> SUFFICES ASSUME NEW d \in AppCall, client[d].bucket = b PROVE FALSE
    OBVIOUS
  <2>1. client[d].pc = "sweep"
    BY <1>1 DEF TypesInv, SweepsOnly
  <2>2. HeldBy(d) = {client[d].bucket}
    BY <2>1 DEF HeldBy, ClientAt
  <2>3. QED
    BY <2>2 DEF MayWrite
<1>3. SweepsApart'
  BY <1>2 DEF ModesInv, SweepsApart
\* Another switch is where it was.
<1>4. \A d \in AppCall \ {c} : \A x \in 1 .. Buckets : SwitchAt(d, x)' <=> SwitchAt(d, x)
  BY DEF SwitchAt
\* A switch that was in a stretch is there, or has gone to its end.
<1>5. ASSUME NEW low \in 1 .. Buckets, NEW high \in 1 .. Buckets, high # b,
             ~ SwitchIn(low, high)'
      PROVE  ~ SwitchIn(low, high)
  <2> SUFFICES ASSUME NEW d \in AppCall, NEW x \in low .. high - 1, SwitchAt(d, x)
               PROVE  FALSE
    BY DEF SwitchIn
  <2>1. x \in 1 .. Buckets /\ d = c
    BY <1>1, <1>4, <1>5 DEF SwitchIn
  <2>2. b \in low .. high - 1 /\ SwitchAt(c, b)'
    BY <1>1, <1>5, <2>1 DEF SwitchAt
  <2>3. QED
    BY <1>5, <2>2 DEF SwitchIn
<1>6. LastSwitch'
  <2> SUFFICES ASSUME NEW k \in ThreadId, NEW d \in AppCall, NEW x \in place[k] .. Buckets,
                      table'[k].mode \in Mode, SwitchAt(d, x)', ~ SwitchIn(place[k], x)'
               PROVE  table'[k].mode = client'[d].mode
    BY DEF LastSwitch
  <2>0. x \in 1 .. Buckets
    BY <1>1
  <2>1. CASE d = c
    <3>1. x = b /\ client[c].mode \in Mode /\ client'[c].mode = client[c].mode
      BY <2>1 DEF SwitchAt
    <3>2. CASE place[k] = b
      BY <2>1, <3>1, <3>2
    <3>3. CASE place[k] # b
      <4>1. b - 1 \in place[k] .. Buckets /\ SwitchAt(c, b - 1)
        BY <1>1, <3>1, <3>3 DEF SwitchAt
      <4>2. ~ SwitchIn(place[k], b - 1)
        <5> SUFFICES ASSUME NEW e \in AppCall, NEW y \in place[k] .. b - 1 - 1, SwitchAt(e, y)
                     PROVE  FALSE
          BY DEF SwitchIn
        <5>1. e # c /\ y \in 1 .. Buckets /\ y \in place[k] .. x - 1
          BY <1>1, <3>1 DEF SwitchAt
        <5>2. QED
          BY <1>4, <5>1 DEF SwitchIn
      <4>3. table[k].mode = client[c].mode
        BY <3>3, <4>1, <4>2 DEF ModesInv, LastSwitch
      <4>4. QED
        BY <2>1, <3>1, <3>3, <4>3
    <3>4. QED
      BY <3>2, <3>3
  <2>2. CASE d # c
    <3>1. SwitchAt(d, x) /\ client'[d].mode = client[d].mode /\ x # b
      BY <1>2, <1>4, <2>0, <2>2 DEF SwitchAt
    <3>2. ~ SwitchIn(place[k], x)
      BY <1>1, <1>5, <2>0, <3>1
    <3>3. place[k] = b => client[c].mode \notin Mode
      <4> SUFFICES ASSUME place[k] = b, client[c].mode \in Mode PROVE FALSE
        OBVIOUS
      <4>1. b \in place[k] .. x - 1 /\ SwitchAt(c, b)'
        BY <1>1, <2>0, <3>1 DEF SwitchAt
      <4>2. QED
        BY <4>1 DEF SwitchIn
    <3>4. table[k].mode = client[d].mode
      BY <3>1, <3>2, <3>3 DEF ModesInv, LastSwitch
    <3>5. QED
      BY <3>1, <3>3, <3>4
  <2>3. QED
    BY <2>1, <2>2
<1>7. SameMode'
  <2> SUFFICES ASSUME NEW j \in ThreadId, NEW k \in ThreadId,
                      table'[j].mode \in Mode, table'[k].mode \in Mode,
                      place[j] <= place[k], ~ SwitchIn(place[j], place[k])'
               PROVE  table'[j].mode = table'[k].mode
    BY DEF SameMode
  <2>1. CASE client[c].mode \notin Mode
    <3>1. \A d \in AppCall : \A x \in 1 .. Buckets : SwitchAt(d, x) => SwitchAt(d, x)'
      BY <1>4, <2>1 DEF SwitchAt
    <3>2. ~ SwitchIn(place[j], place[k])
      <4>1. place[j] .. place[k] - 1 \subseteq 1 .. Buckets
        BY <1>1
      <4>2. QED
        BY <3>1, <4>1 DEF SwitchIn
    <3>3. QED
      BY <2>1, <3>2 DEF ModesInv, SameMode
  <2>2. CASE client[c].mode \in Mode /\ place[k] # b
    <3>1. place[j] # b
      <4> SUFFICES ASSUME place[j] = b PROVE FALSE
        OBVIOUS
      <4>1. b \in place[j] .. place[k] - 1 /\ SwitchAt(c, b)'
        BY <1>1, <2>2 DEF SwitchAt
      <4>2. QED
        BY <4>1 DEF SwitchIn
    <3>2. ~ SwitchIn(place[j], place[k])
      BY <1>1, <1>5, <2>2
    <3>3. QED
      BY <2>2, <3>1, <3>2 DEF ModesInv, SameMode
  <2>3. CASE client[c].mode \in Mode /\ place[k] = b
    <3>1. table'[k].mode = client[c].mode
      BY <2>3
    <3>2. b \in place[j] .. Buckets /\ SwitchAt(c, b)' /\ place'[j] = place[j]
      BY <1>1, <2>3 DEF SwitchAt
    <3>3. table'[j].mode = client'[c].mode
      BY <1>6, <2>3, <3>2 DEF LastSwitch
    <3>4. QED
      BY <3>1, <3>3
  <2>4. QED
    BY <2>1, <2>2, <2>3
<1>8. QED
  BY <1>3, <1>6, <1>7 DEF ModesInv

LEMMA ModesNext == TypesInv /\ HistoryInv /\ ModesInv /\ [AppNext]_appVars => ModesInv'
<1> SUFFICES ASSUME TypesInv, HistoryInv, ModesInv, [AppNext]_appVars PROVE ModesInv'
  OBVIOUS
<1>0. TableOK /\ ClientsOK /\ ForkRoom /\ SweepsOnly /\ \A c \in AppCall : ChildOK(c)
  BY DEF TypesInv, HistoryInv
<1>1. CASE UNCHANGED appVars
  BY <1>1, QuietModes DEF appVars
\* The step of a call that is in no shard, before and after.
<1>2. ASSUME NEW c \in AppCall, client[c].bucket = 0, place' = place,
             NEW op, ClientStep(c, op), op.bucket = 0,
             \A k \in ThreadId : table'[k].mode \in Mode => table'[k].mode = table[k].mode
      PROVE  ModesInv'
  <2>1. \A d \in AppCall : client'[d] = IF d = c THEN op ELSE client[d]
    BY <1>0, <1>2 DEF ClientStep, ClientsOK
  <2>2. QED
    BY <1>2, <2>1, QuietModes
<1>3. ASSUME NEW c \in AppCall, NEW k \in ThreadId, ThreadStart(c, k) \/ TurnSubmit(c, k)
      PROVE  ModesInv'
  <2>1. UNCHANGED <<place, table>> /\ client[c].bucket = 0
    BY <1>0, <1>3 DEF ThreadStart, TurnSubmit, Begin, ClientAt, SweepsOnly
  <2>2. CASE UNCHANGED client
    BY <2>1, <2>2, QuietModes
  <2>3. ASSUME NEW pc \in {"start_key", "turn"}, Begin(c, pc, k)
        PROVE  ModesInv'
    <3>1. PICK op : ClientStep(c, op) /\ op.bucket = 0
      BY <2>3, BeginStep
    <3>2. QED
      BY <1>2, <2>1, <3>1
  <2>4. QED
    BY <1>3, <2>2, <2>3 DEF ThreadStart, TurnSubmit
<1>4. ASSUME NEW c \in AppCall, StartKey(c) \/ Backend(c)
      PROVE  ModesInv'
  <2>1. UNCHANGED <<place, table>> /\ client[c].bucket = 0
    BY <1>0, <1>4 DEF StartKey, Backend, ClientAt, SweepsOnly
  <2>2. PICK op : ClientStep(c, op) /\ op.bucket = 0
    BY <1>4, <2>1, ReplyStep, ContinueStep DEF StartKey, Backend
  <2>3. QED
    BY <1>2, <2>1, <2>2
\* A new actor is in the default mode.
<1>5. ASSUME NEW c \in AppCall, NEW k \in ThreadId, NEW a \in ActorType, a.mode = "default",
             Put(k, a)
      PROVE  \A j \in ThreadId : table'[j].mode \in Mode => table'[j].mode = table[j].mode
  BY <1>0, <1>5 DEF Put, TableOK, Mode
<1>6. ASSUME NEW c \in AppCall, StartInsert(c)
      PROVE  ModesInv'
  <2>1. place' = place /\ client[c].bucket = 0 /\ client[c].key \in ThreadId
    BY <1>0, <1>6 DEF StartInsert, ClientAt, SweepsOnly, ClientsOK, OpType
  <2>2. PICK op : ClientStep(c, op) /\ op.bucket = 0
    BY <1>6, <2>1, ReplyStep, ContinueStep DEF StartInsert
  <2>3. \A j \in ThreadId : table'[j].mode \in Mode => table'[j].mode = table[j].mode
    BY <1>5, <1>6, <2>1, NoOpType DEF StartInsert
  <2>4. QED
    BY <1>2, <2>1, <2>2, <2>3
<1>7. ASSUME NEW c \in AppCall, ForkInsert(c)
      PROVE  ModesInv'
  <2>1. place' = place /\ client[c].bucket = 0
    BY <1>0, <1>7 DEF ForkInsert, ClientAt, SweepsOnly
  <2>2. PICK op : ClientStep(c, op) /\ op.bucket = 0
    BY <1>7, ReplyStep DEF ForkInsert
  <2>3. /\ ForkId(client[c].key) \in ThreadId /\ client[c].child \in ActorType
        /\ client[c].child.mode = "default"
    BY <1>0, <1>7 DEF ForkRoom, ClientsOK, OpType, ForkInsert, ClientAt, ChildOK
  <2>4. \A j \in ThreadId : table'[j].mode \in Mode => table'[j].mode = table[j].mode
    BY <1>5, <1>7, <2>3 DEF ForkInsert
  <2>5. QED
    BY <1>2, <2>1, <2>2, <2>4
<1>8. ASSUME NEW c \in AppCall, TurnBegin(c)
      PROVE  ModesInv'
  <2> DEFINE k == client[c].key
             op == [client[c] EXCEPT !.pc = "backend", !.turn = TurnNumber(table[k])]
  <2>1. /\ place' = place /\ client[c].bucket = 0 /\ k \in ThreadId
        /\ table[k] \in ActorType /\ client[c] \in OpType
    BY <1>0, <1>8 DEF TurnBegin, ClientAt, SweepsOnly, ClientsOK, OpType, TableOK
  <2>2. CASE Reply(c) /\ UNCHANGED table
    <3>1. PICK o : ClientStep(c, o) /\ o.bucket = 0
      BY <2>2, ReplyStep
    <3>2. QED
      BY <1>2, <2>1, <2>2, <3>1
  <2>3. CASE /\ table' = [table EXCEPT ![k].turns = Append(@, TurnNumber(table[k]))]
             /\ client' = [client EXCEPT ![c].pc = "backend", ![c].turn = TurnNumber(table[k])]
    <3>1. \A j \in ThreadId : table'[j].mode = table[j].mode
      BY <1>0, <2>1, <2>3 DEF TableOK, ActorType
    <3>2. TurnNumber(table[k]) \in Nat
      BY <2>1 DEF TurnNumber, ActorType
    <3>3. op \in OpType /\ op.bucket = 0
      BY <2>1, <3>2 DEF OpType
    <3>4. client' = [client EXCEPT ![c] = op]
      BY <1>0, <2>3 DEF ClientsOK
    <3> HIDE DEF op
    <3>5. ClientStep(c, op)
      BY <3>3, <3>4 DEF ClientStep
    <3>6. QED
      BY <1>2, <2>1, <3>1, <3>3, <3>5
  <2>4. QED
    BY <1>8, <2>2, <2>3 DEF TurnBegin
<1>9. ASSUME NEW c \in AppCall, TurnFill(c)
      PROVE  ModesInv'
  <2> DEFINE k == client[c].key
  <2>1. place' = place /\ client[c].bucket = 0 /\ k \in ThreadId
    BY <1>0, <1>9 DEF TurnFill, ClientAt, SweepsOnly, ClientsOK, OpType
  <2>2. PICK op : ClientStep(c, op) /\ op.bucket = 0
    BY <1>9, ReplyStep DEF TurnFill
  <2>3. table' = [table EXCEPT ![k].items = Append(@, <<client[c].turn, client[c].num>>)]
    BY <1>9 DEF TurnFill
  <2>4. \A j \in ThreadId : table'[j].mode = table[j].mode
    BY <1>0, <2>1, <2>3 DEF TableOK, ActorType
  <2>5. QED
    BY <1>2, <2>1, <2>2, <2>4
<1>10. ASSUME NEW c \in AppCall, NEW k \in ThreadId, NEW i \in 1 .. Len(table[k].items),
              ThreadFork(c, k, i)
       PROVE  ModesInv'
  <2>1. UNCHANGED <<place, table>> /\ client[c].bucket = 0
    BY <1>0, <1>10 DEF ThreadFork, ClientAt, SweepsOnly
  <2>2. client'[c].bucket = 0 /\ \A d \in AppCall \ {c} : client'[d] = client[d]
    BY <1>0, <1>10 DEF ThreadFork, ClientsOK, NoOp
  <2>3. QED
    BY <2>1, <2>2, QuietModes
<1>11. ASSUME NEW c \in AppCall, NEW m \in Mode \cup {"none"}, StartSweep(c, m)
       PROVE  ModesInv'
  <2>1. UNCHANGED <<place, table>> /\ client[c].bucket = 0
    BY <1>0, <1>11 DEF StartSweep, ClientAt, SweepsOnly
  <2>2. client'[c].bucket = 0 /\ \A d \in AppCall \ {c} : client'[d] = client[d]
    BY <1>0, <1>11 DEF StartSweep, ClientsOK, NoOp
  <2>3. QED
    BY <2>1, <2>2, QuietModes
<1>12. ASSUME NEW c \in AppCall, Sweep(c)
       PROVE  ModesInv'
  <2> DEFINE b == client[c].bucket + 1
  <2>1. place' = place /\ client[c].bucket \in 0 .. Buckets /\ Buckets \in Nat
    BY <1>0, <1>12, AppServerAssumption DEF Sweep, ClientsOK, OpType
  <2>2. CASE (b > Buckets \/ client[c].mode = "none") /\ Reply(c) /\ UNCHANGED table
    <3>1. client'[c].bucket = 0 /\ \A d \in AppCall \ {c} : client'[d] = client[d]
      BY <1>0, <2>2, NoOpType DEF Reply, ClientsOK
    <3>2. client[c].bucket = Buckets \/ client[c].mode = "none"
      BY <2>1, <2>2
    <3>3. QED
      BY <2>1, <2>2, <3>1, <3>2, SweepEnds
  <2>3. CASE /\ b <= Buckets /\ MayWrite(b)
             /\ table' = Swept(b, client[c].mode)
             /\ client' = [client EXCEPT ![c].bucket = b]
    <3>1. /\ client'[c].bucket = b /\ client'[c].mode = client[c].mode
          /\ \A d \in AppCall \ {c} : client'[d] = client[d]
      BY <1>0, <2>3 DEF ClientsOK, OpType
    <3>2. ASSUME NEW k \in ThreadId, table'[k].mode \in Mode
          PROVE  table'[k].mode = IF place[k] = b /\ client[c].mode \in Mode
                                  THEN client[c].mode ELSE table[k].mode
      <4>1. table[k] \in ActorType
        BY <1>0 DEF TableOK
      <4>2. CASE k \in Sessions /\ place[k] = b /\ client[c].mode \in Mode
        <5>1. table'[k] = [table[k] EXCEPT !.mode = client[c].mode]
          BY <2>3, <4>2 DEF Swept
        <5>2. table'[k].mode = client[c].mode
          BY <4>1, <4>2, <5>1, WithMode
        <5>3. QED
          BY <4>2, <5>2
      <4>3. CASE ~ (k \in Sessions /\ place[k] = b /\ client[c].mode \in Mode)
        <5>1. table'[k] = table[k]
          BY <2>3, <4>3 DEF Swept
        <5>2. k \in Sessions
          BY <3>2, <5>1, NoOpType DEF Sessions, Mode
        <5>3. QED
          BY <4>3, <5>1, <5>2
      <4>4. QED
        BY <4>2, <4>3
    <3>3. b \in 1 .. Buckets
      BY <2>1, <2>3
    <3>4. QED
      BY <2>1, <2>3, <3>1, <3>2, <3>3, SweepMoves
  <2>4. QED
    BY <1>12, <2>2, <2>3 DEF Sweep
<1>13. QED
  BY <1>1, <1>3, <1>4, <1>6, <1>7, <1>8, <1>9, <1>10, <1>11, <1>12 DEF AppNext

-----------------------------------------------------------------------------
(* The theorems.                                                           *)

\* The inductive invariant of the session table: types, histories and modes.
AppInv == TypesInv /\ HistoryInv /\ ModesInv

\* Every operation of handle_op, whatever it overlaps with, keeps AppInv.
THEOREM AppInvariant == AppSpec => []AppInv
<1>1. AppInit => AppInv
  BY TypesInit, HistoryInit, ModesInit DEF AppInv
<1>2. AppInv /\ [AppNext]_appVars => AppInv'
  BY TypesNext, HistoryNext, ModesNext DEF AppInv
<1>3. QED
  BY <1>1, <1>2, PTL DEF AppSpec

\* handle_op: calls that wait for each other in a circle have a thread_fork
\* among them, for any number of clients and shards.
THEOREM StuckOnlyByForkProved == AppSpec => []StuckOnlyByFork
<1>1. AppInv => StuckOnlyByFork
  BY StuckImplied DEF AppInv
<1>2. QED
  BY <1>1, AppInvariant, PTL

\* turn_submit: overlapping turns keep their numbers apart, and a completed turn
\* stays in the history of an actor that was not replaced.
THEOREM HistoryKeptProved == AppSpec => []HistoryKept
<1>1. AppInv => HistoryKept
  BY HistoryImplied DEF AppInv
<1>2. QED
  BY <1>1, AppInvariant, PTL

\* mode_set: switches that overlap leave the sessions they met in one mode.
THEOREM ModesAgreeProved == AppSpec => [](AppTypeOK /\ ModesAgree)
<1>1. AppInv => AppTypeOK /\ ModesAgree
  BY TypesImplied, ModesImplied DEF AppInv
<1>2. QED
  BY <1>1, AppInvariant, PTL

-----------------------------------------------------------------------------
(***************************************************************************)
(* Proofs about the approval arbiter, for every number of requests,        *)
(* clients, verdicts and votes.                                            *)
(*                                                                         *)
(* VotesStand speaks of requests no vote of which has outlived the ttl.    *)
(* What makes it inductive is that nothing which removes a recorded vote   *)
(* can be under way for such a request: no stale mark, no swept key and no *)
(* removal after a look at an expired vote.                                *)
(***************************************************************************)

\* A stale mark, and a removal based on one, is about an outlived request.
RemovalsAreLate ==
    /\ stale \subseteq outlived
    /\ \A c \in Client : vote[c].pc = "remove" => vote[c].on \in outlived

\* An accepted vote whose call has not answered yet is the recorded decision.
AcceptedIsRecorded ==
    \A c \in Client : vote[c].pc = "clear" /\ vote[c].on \notin outlived =>
        decided[vote[c].on] = [client |-> c, verdict |-> vote[c].verdict]

ApprovalInv == ApprovalTypeOK /\ RemovalsAreLate /\ AcceptedIsRecorded /\ VotesStand

-----------------------------------------------------------------------------
(* Type correctness.                                                       *)

\* A vote that was cast is never mistaken for the absence of one.
LEMMA DecisionIsVote ==
    ASSUME NEW c \in Client, NEW d \in Verdict
    PROVE  [client |-> c, verdict |-> d] # NoDecision
BY ApprovalAssumption DEF NoDecision

\* A call that is not idle knows its request and its verdict.
LEMMA VoteUnderWay ==
    ASSUME ApprovalTypeOK, NEW c \in Client, vote[c].pc # "idle"
    PROVE  vote[c] \in [pc : {"remove", "enter", "clear"}, on : Approval, verdict : Verdict]
BY DEF ApprovalTypeOK, NoResponse

\* Every step keeps the types.
LEMMA ApprovalTypes ==
    ASSUME ApprovalTypeOK, sweep \subseteq outlived, stale \subseteq outlived,
           [ApprovalNext]_approvalVars
    PROVE  ApprovalTypeOK'
<1> USE DEF ApprovalTypeOK, Voted
<1>1. CASE UNCHANGED approvalVars
  BY <1>1 DEF approvalVars
<1>2. ASSUME NEW r \in Approval, Inject(r)
      PROVE  ApprovalTypeOK'
  BY <1>2 DEF Inject
<1>3. ASSUME NEW r \in Approval, Expire(r)
      PROVE  ApprovalTypeOK'
  BY <1>3 DEF Expire
<1>4. ASSUME NEW r \in Approval, PurgeRemove(r)
      PROVE  ApprovalTypeOK'
  BY <1>4 DEF PurgeRemove
<1>5. ASSUME NEW c \in Client, NEW r \in Approval, NEW d \in Verdict, LookUp(c, r, d)
      PROVE  ApprovalTypeOK'
  <2>1. votes' \in 0..MaxVotes
    BY <1>5, ApprovalAssumption DEF LookUp
  <2>2. vote' \in [Client -> {NoResponse} \cup
                         [pc : {"remove", "enter", "clear"}, on : Approval, verdict : Verdict]]
    BY <1>5 DEF LookUp
  <2>3. QED
    BY <1>5, <2>1, <2>2 DEF LookUp
<1>6. ASSUME NEW c \in Client, RemoveOld(c)
      PROVE  ApprovalTypeOK'
  <2>1. vote[c] \in [pc : {"remove", "enter", "clear"}, on : Approval, verdict : Verdict]
    BY <1>6, VoteUnderWay DEF RemoveOld
  <2>2. QED
    BY <1>6, <2>1 DEF RemoveOld
<1>7. ASSUME NEW c \in Client, Enter(c)
      PROVE  ApprovalTypeOK'
  <2>1. vote[c] \in [pc : {"remove", "enter", "clear"}, on : Approval, verdict : Verdict]
    BY <1>7, VoteUnderWay DEF Enter
  <2>2. CASE Vacant(vote[c].on)
    BY <1>7, <2>1, <2>2 DEF Enter
  <2>3. CASE ~Vacant(vote[c].on)
    BY <1>7, <2>1, <2>3 DEF Enter, Duplicate
  <2>4. QED
    BY <2>2, <2>3
<1>8. ASSUME NEW c \in Client, Clear(c)
      PROVE  ApprovalTypeOK'
  <2>1. vote[c] \in [pc : {"remove", "enter", "clear"}, on : Approval, verdict : Verdict]
    BY <1>8, VoteUnderWay DEF Clear
  <2>2. QED
    BY <1>8, <2>1 DEF Clear
<1>9. CASE PurgeCollect
  BY <1>9 DEF PurgeCollect, Expired
<1>10. QED
  BY <1>1, <1>2, <1>3, <1>4, <1>5, <1>6, <1>7, <1>8, <1>9 DEF ApprovalNext

-----------------------------------------------------------------------------
(* The first vote stands.                                                  *)

\* The initial state satisfies the invariant.
LEMMA ApprovalInitInv == ApprovalInit => ApprovalInv
BY ApprovalAssumption
   DEF ApprovalInit, ApprovalInv, ApprovalTypeOK, RemovalsAreLate, AcceptedIsRecorded, VotesStand,
       FirstVoteStands, ClearedByDecision, NoResponse, Voted

\* A request with an accepted vote that has not outlived the ttl, and a request
\* that left the list, has a recorded decision: its entry is not vacant.
LEMMA VacantIsUntouched ==
    ASSUME ApprovalInv, NEW r \in Approval \ outlived, Vacant(r)
    PROVE  /\ \A a \in accepted : a[1] # r
           /\ r \in raised => r \in waiting
           /\ \A c \in Client : vote[c].pc = "clear" => vote[c].on # r
<1>1. \A a \in accepted \cup cleared : [client |-> a[2], verdict |-> a[3]] # NoDecision
  BY DecisionIsVote DEF ApprovalInv, ApprovalTypeOK
<1>2. decided[r] = NoDecision
  BY DEF Vacant, Voted
<1>3. \A a \in accepted : a[1] # r
  BY <1>1, <1>2 DEF ApprovalInv, VotesStand, FirstVoteStands
<1>4. r \in raised => r \in waiting
  <2> SUFFICES ASSUME r \in raised \ (waiting \cup outlived)
               PROVE  FALSE
    OBVIOUS
  <2>1. PICK a \in cleared : decided[r] = [client |-> a[2], verdict |-> a[3]]
    BY DEF ApprovalInv, VotesStand, ClearedByDecision
  <2>2. QED
    BY <1>1, <1>2, <2>1
<1>5. ASSUME NEW c \in Client, vote[c].pc = "clear", vote[c].on = r
      PROVE  FALSE
  <2>1. vote[c].verdict \in Verdict
    BY <1>5, VoteUnderWay DEF ApprovalInv
  <2>2. decided[r] = [client |-> c, verdict |-> vote[c].verdict]
    BY <1>5 DEF ApprovalInv, AcceptedIsRecorded
  <2>3. QED
    BY <1>2, <2>1, <2>2, DecisionIsVote
<1>6. QED
  BY <1>3, <1>4, <1>5

\* An insertion through the entry API finds the entry vacant and fills it.
LEMMA EnterInv ==
    ASSUME ApprovalInv, NEW c \in Client, Enter(c)
    PROVE  RemovalsAreLate' /\ AcceptedIsRecorded' /\ VotesStand'
<1> DEFINE r == vote[c].on
<1>1. vote[c] \in [pc : {"remove", "enter", "clear"}, on : Approval, verdict : Verdict]
  BY VoteUnderWay DEF Enter, ApprovalInv
<1>2. CASE ~Vacant(r)
  BY <1>1, <1>2 DEF ApprovalInv, ApprovalTypeOK, Enter, Duplicate, RemovalsAreLate, NoResponse,
                    AcceptedIsRecorded, VotesStand, FirstVoteStands, ClearedByDecision
<1>3. CASE Vacant(r)
  <2>1. /\ decided' = [decided EXCEPT ![r] = [client |-> c, verdict |-> vote[c].verdict]]
        /\ stale' = stale \ {r}
        /\ accepted' = accepted \cup {<<r, c, vote[c].verdict>>}
        /\ vote' = [vote EXCEPT ![c].pc = "clear"]
        /\ UNCHANGED <<waiting, raised, outlived, sweep, cleared, votes>>
    BY <1>3 DEF Enter
  <2>2. r \notin outlived =>
           /\ \A a \in accepted : a[1] # r
           /\ r \in raised => r \in waiting
           /\ \A d \in Client : vote[d].pc = "clear" => vote[d].on # r
    BY <1>1, <1>3, VacantIsUntouched
  <2>3. RemovalsAreLate'
    BY <1>1, <2>1 DEF ApprovalInv, ApprovalTypeOK, RemovalsAreLate
  <2>4. AcceptedIsRecorded'
    BY <1>1, <2>1, <2>2 DEF ApprovalInv, ApprovalTypeOK, AcceptedIsRecorded
  <2>5. FirstVoteStands'
    BY <1>1, <2>1, <2>2 DEF ApprovalInv, ApprovalTypeOK, VotesStand, FirstVoteStands
  <2>6. ClearedByDecision'
    BY <1>1, <2>1, <2>2 DEF ApprovalInv, ApprovalTypeOK, VotesStand, ClearedByDecision
  <2>7. QED
    BY <2>3, <2>4, <2>5, <2>6 DEF VotesStand
<1>4. QED
  BY <1>2, <1>3

\* A client that is told its answer was carried out is the one on record.
LEMMA ClearInv ==
    ASSUME ApprovalInv, NEW c \in Client, Clear(c)
    PROVE  RemovalsAreLate' /\ AcceptedIsRecorded' /\ VotesStand'
<1>1. vote[c] \in [pc : {"remove", "enter", "clear"}, on : Approval, verdict : Verdict]
  BY VoteUnderWay DEF Clear, ApprovalInv
<1>2. RemovalsAreLate' /\ AcceptedIsRecorded'
  BY <1>1 DEF ApprovalInv, ApprovalTypeOK, Clear, RemovalsAreLate, AcceptedIsRecorded, NoResponse
<1>3. FirstVoteStands'
  BY DEF ApprovalInv, Clear, VotesStand, FirstVoteStands
<1>4. ASSUME NEW r \in raised' \ (waiting' \cup outlived')
      PROVE  \E a \in cleared' : a[1] = r /\ decided'[r] = [client |-> a[2], verdict |-> a[3]]
  <2>1. CASE r \in waiting
    <3>1. r = vote[c].on /\ <<r, c, vote[c].verdict>> \in cleared'
      BY <1>4, <2>1 DEF Clear
    <3>2. decided'[r] = [client |-> c, verdict |-> vote[c].verdict]
      BY <1>4, <3>1 DEF ApprovalInv, AcceptedIsRecorded, Clear
    <3>3. QED
      BY <3>1, <3>2
  <2>2. CASE r \notin waiting
    BY <1>4, <2>2 DEF ApprovalInv, VotesStand, ClearedByDecision, Clear
  <2>3. QED
    BY <2>1, <2>2
<1>5. QED
  BY <1>2, <1>3, <1>4 DEF VotesStand, ClearedByDecision

\* Removals, by an expired vote's successor or by purge_expired, only reach
\* outlived requests.
LEMMA RemovalInv ==
    ASSUME ApprovalInv,
           (\E c \in Client : RemoveOld(c)) \/ (\E r \in Approval : PurgeRemove(r))
    PROVE  RemovalsAreLate' /\ AcceptedIsRecorded' /\ VotesStand'
<1> USE DEF ApprovalInv, ApprovalTypeOK, RemovalsAreLate
<1>1. ASSUME NEW c \in Client, RemoveOld(c)
      PROVE  RemovalsAreLate' /\ AcceptedIsRecorded' /\ VotesStand'
  <2>1. vote[c] \in [pc : {"remove", "enter", "clear"}, on : Approval, verdict : Verdict]
    BY <1>1, VoteUnderWay DEF RemoveOld
  <2>2. RemovalsAreLate' /\ AcceptedIsRecorded'
    BY <1>1, <2>1 DEF RemoveOld, AcceptedIsRecorded
  <2>3. VotesStand'
    BY <1>1, <2>1, SMTT(30) DEF RemoveOld, VotesStand, FirstVoteStands, ClearedByDecision
  <2>4. QED
    BY <2>2, <2>3
<1>2. ASSUME NEW r \in Approval, PurgeRemove(r)
      PROVE  RemovalsAreLate' /\ AcceptedIsRecorded' /\ VotesStand'
  <2>1. RemovalsAreLate' /\ AcceptedIsRecorded'
    BY <1>2 DEF PurgeRemove, AcceptedIsRecorded
  <2>2. VotesStand'
    BY <1>2 DEF PurgeRemove, VotesStand, FirstVoteStands, ClearedByDecision
  <2>3. QED
    BY <2>1, <2>2
<1>3. QED
  BY <1>1, <1>2

\* The steps that record and remove nothing.
LEMMA QuietInv ==
    ASSUME ApprovalInv,
           \/ \E r \in Approval : Inject(r) \/ Expire(r)
           \/ \E c \in Client, r \in Approval, d \in Verdict : LookUp(c, r, d)
           \/ PurgeCollect
           \/ UNCHANGED approvalVars
    PROVE  RemovalsAreLate' /\ AcceptedIsRecorded' /\ VotesStand'
<1> USE DEF ApprovalInv, ApprovalTypeOK, RemovalsAreLate, AcceptedIsRecorded, VotesStand,
            FirstVoteStands, ClearedByDecision
<1>1. ASSUME NEW r \in Approval, Inject(r)
      PROVE  RemovalsAreLate' /\ AcceptedIsRecorded' /\ VotesStand'
  BY <1>1 DEF Inject
<1>2. ASSUME NEW r \in Approval, Expire(r)
      PROVE  RemovalsAreLate' /\ AcceptedIsRecorded' /\ VotesStand'
  BY <1>2 DEF Expire
<1>3. ASSUME NEW c \in Client, NEW r \in Approval, NEW d \in Verdict, LookUp(c, r, d)
      PROVE  RemovalsAreLate' /\ AcceptedIsRecorded' /\ VotesStand'
  BY <1>3 DEF LookUp, NoResponse
<1>4. CASE PurgeCollect
  BY <1>4 DEF PurgeCollect
<1>5. CASE UNCHANGED approvalVars
  BY <1>5 DEF approvalVars
<1>6. QED
  BY <1>1, <1>2, <1>3, <1>4, <1>5

-----------------------------------------------------------------------------
(* The theorems.                                                           *)

\* The inductive invariant of the arbiter.
THEOREM ApprovalInvariant == ApprovalSpec => []ApprovalInv
<1>1. ApprovalInv /\ [ApprovalNext]_approvalVars => ApprovalInv'
  <2> SUFFICES ASSUME ApprovalInv, [ApprovalNext]_approvalVars PROVE ApprovalInv'
    OBVIOUS
  <2>1. ApprovalTypeOK'
    BY ApprovalTypes DEF ApprovalInv, ApprovalTypeOK, RemovalsAreLate
  <2>2. RemovalsAreLate' /\ AcceptedIsRecorded' /\ VotesStand'
    BY EnterInv, ClearInv, RemovalInv, QuietInv DEF ApprovalNext
  <2>3. QED
    BY <2>1, <2>2 DEF ApprovalInv
<1>2. QED
  BY <1>1, ApprovalInitInv, PTL DEF ApprovalSpec

\* What clients were told about a vote is what stands, and the types hold, for
\* any number of clients voting on any number of requests.
THEOREM VotesStandProved == ApprovalSpec => [](ApprovalTypeOK /\ VotesStand)
<1>1. ApprovalInv => ApprovalTypeOK /\ VotesStand
  BY DEF ApprovalInv
<1>2. QED
  BY <1>1, ApprovalInvariant, PTL
=============================================================================
