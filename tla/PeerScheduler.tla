--------------------------- MODULE PeerScheduler ---------------------------
(***************************************************************************)
(* The peer scheduler of crates/mas-sched: peers claim to-dos and hold     *)
(* them under a lease, hand them over, and are limited by a quota of       *)
(* concurrent to-dos and by a claim rate per time window.                  *)
(*                                                                         *)
(* SimplePeerScheduler takes &self: the governor, the lease table and the  *)
(* concurrency counts are three separate locks, taken one after the other, *)
(* so a claim or a handoff is several steps.  ClaimBroker::route_claim     *)
(* takes &mut self: behind the broker a claim excludes every other call,   *)
(* while handoffs still overlap each other.                                *)
(***************************************************************************)
EXTENDS Integers, FiniteSets

CONSTANTS
    Peer,           \* peers that hold leases
    Todo,           \* tasks to claim
    Agent,          \* threads that call the scheduler
    MaxConcurrent,  \* quota.max_concurrent of every claim
    MaxClaims,      \* max_claims_per_window
    WindowLen,      \* window_ms, in ticks
    LeaseLen,       \* quota.max_duration_ms, in ticks
    MaxTime,        \* bound: ticks of the clock
    MaxCount        \* bound: a handoff to a peer whose count is this high is left out

None == "none"
Back == "HANDOFF"

ASSUME SchedAssumption ==
    /\ {None, Back} \cap Peer = {} /\ None \notin Todo
    /\ {MaxConcurrent, WindowLen, LeaseLen} \subseteq Nat \ {0}
    /\ {MaxClaims, MaxTime, MaxCount} \subseteq Nat
    /\ IsFiniteSet(Todo) /\ IsFiniteSet(Agent)

VARIABLES
    leases,         \* task -> lease, NoLease when absent
    concurrency,    \* peer_concurrency; an absent entry is 0
    governor,       \* ClaimRateGovernor.state: a window index and a count per peer
    limited,        \* the scheduler was built with_rate_limit
    broker,         \* the calls come through a ClaimBroker
    agent,          \* the calls under way
    now,            \* the clock
    granted,        \* pairs the scheduler has answered Granted and not taken back
    admitted        \* claims let through per peer and window

schedVars == <<leases, concurrency, governor, limited, broker, agent, now, granted, admitted>>

NoLease == [peer |-> None, until |-> 0]
Window == 0..(MaxTime \div WindowLen)
NoCall == [pc |-> "idle", todo |-> None, peer |-> None, to |-> None, at |-> 0]

SchedInit ==
    /\ leases = [t \in Todo |-> NoLease]
    /\ concurrency = [p \in Peer |-> 0]
    /\ governor = [p \in Peer |-> [idx |-> 0, count |-> 0]]
    /\ broker \in BOOLEAN /\ limited \in BOOLEAN /\ (broker => limited)
    /\ agent = [a \in Agent |-> NoCall]
    /\ now = 0
    /\ granted = {}
    /\ admitted = [p \in Peer |-> [w \in Window |-> 0]]

-----------------------------------------------------------------------------
Doing(a, pc)   == agent[a].pc = pc
Proceed(a, pc) == agent' = [agent EXCEPT ![a].pc = pc]
Return(a)      == agent' = [agent EXCEPT ![a] = NoCall]
Deny(a)        == Return(a) /\ UNCHANGED <<leases, concurrency, governor, granted, admitted>>
Claiming(a)    == \/ agent[a].pc \in {"admit", "quota", "check", "grant"}
                  \/ (Doing(a, "count") /\ agent[a].to = None)

\* What &mut self and &self allow: the broker serialises claims with everything.
MayClaim   == broker => \A a \in Agent : Doing(a, "idle")
MayHandoff == broker => \A a \in Agent : ~Claiming(a)

\* claim, up to the reading of the clock in check_rate_limit.
Claim(a, t, p) ==
    /\ Doing(a, "idle") /\ MayClaim
    /\ agent' = [agent EXCEPT ![a] = [NoCall EXCEPT !.pc = IF limited THEN "admit" ELSE "quota",
                                                    !.todo = t, !.peer = p, !.at = now]]
    /\ UNCHANGED <<leases, concurrency, governor, limited, broker, now, granted, admitted>>

\* try_admit: the window's count is at the limit.
OverRate(e) == e.count >= MaxClaims

\* ClaimRateGovernor::try_admit under its mutex, with the time read before.
Admit(a) ==
    /\ Doing(a, "admit")
    /\ LET p   == agent[a].peer
           idx == agent[a].at \div WindowLen
           e   == IF governor[p].idx = idx THEN governor[p] ELSE [idx |-> idx, count |-> 0]
       IN  IF OverRate(e)
           THEN /\ governor' = [governor EXCEPT ![p] = e]
                /\ Return(a)
                /\ UNCHANGED <<leases, concurrency, granted, admitted>>
           ELSE /\ governor' = [governor EXCEPT ![p] = [e EXCEPT !.count = @ + 1]]
                /\ admitted' = [admitted EXCEPT ![p][idx] = @ + 1]
                /\ Proceed(a, "quota")
                /\ UNCHANGED <<leases, concurrency, granted>>
    /\ UNCHANGED <<limited, broker, now>>

\* check_quota, under the read lock of the counts.
Quota(a) ==
    /\ Doing(a, "quota")
    /\ IF concurrency[agent[a].peer] >= MaxConcurrent
       THEN Deny(a)
       ELSE Proceed(a, "check") /\ UNCHANGED <<leases, concurrency, governor, granted, admitted>>
    /\ UNCHANGED <<limited, broker, now>>

\* The task has a lease, expired or not.
Taken(t) == leases[t] # NoLease

\* The exclusivity check; the lock is released before the lease is written.
Check(a) ==
    /\ Doing(a, "check")
    /\ IF Taken(agent[a].todo)
       THEN Deny(a)
       ELSE Proceed(a, "grant") /\ UNCHANGED <<leases, concurrency, governor, granted, admitted>>
    /\ UNCHANGED <<limited, broker, now>>

\* grant_locked writes the lease under one lock ...
Grant(a) ==
    /\ Doing(a, "grant")
    /\ leases' = [leases EXCEPT ![agent[a].todo] =
                     [peer |-> agent[a].peer, until |-> now + LeaseLen]]
    /\ granted' = granted \cup {<<agent[a].todo, agent[a].peer>>}
    /\ Proceed(a, "count")
    /\ UNCHANGED <<concurrency, governor, limited, broker, now, admitted>>

\* ... and the count under another; the end of a claim and of a handoff.
Count(a) ==
    /\ Doing(a, "count")
    /\ concurrency' = [concurrency EXCEPT ![agent[a].peer] = @ + 1]
    /\ Return(a)
    /\ UNCHANGED <<leases, governor, limited, broker, now, granted, admitted>>

\* handoff under the lease lock: to a peer, or back to the orchestrator.
Handoff(a, t, to) ==
    /\ Doing(a, "idle") /\ MayHandoff
    /\ leases[t] # NoLease
    /\ to \in Peer => concurrency[to] < MaxCount
    /\ leases' = [leases EXCEPT ![t] = IF to = Back THEN NoLease ELSE [@ EXCEPT !.peer = to]]
    /\ granted' = {g \in granted : g[1] # t} \cup (IF to = Back THEN {} ELSE {<<t, to>>})
    /\ agent' = [agent EXCEPT ![a] = [NoCall EXCEPT !.pc = "dec", !.todo = t,
                                                    !.peer = leases[t].peer, !.to = to]]
    /\ UNCHANGED <<concurrency, governor, limited, broker, now, admitted>>

\* Mutant: the entry is removed whatever its count.
LoweredToNothing(n) == 0

\* decrement_peer: a count of 1 is removed, a missing one is left alone.
Lowered(n) == IF n > 1 THEN n - 1 ELSE 0

Decrement(a) ==
    /\ Doing(a, "dec")
    /\ concurrency' = [concurrency EXCEPT ![agent[a].peer] = Lowered(@)]
    /\ IF agent[a].to = Back THEN Return(a)
       ELSE agent' = [agent EXCEPT ![a].pc = "count", ![a].peer = agent[a].to]
    /\ UNCHANGED <<leases, governor, limited, broker, now, granted, admitted>>

\* renew_lease, one critical section: only the holder, only before the end.
Renew(t, p) ==
    /\ MayHandoff
    /\ leases[t] # NoLease
    /\ leases[t].peer = p /\ leases[t].until > now
    /\ leases[t].until + LeaseLen <= MaxTime + 2 * LeaseLen
    /\ leases' = [leases EXCEPT ![t].until = @ + LeaseLen]
    /\ UNCHANGED <<concurrency, governor, limited, broker, agent, now, granted, admitted>>

Tick ==
    /\ now < MaxTime
    /\ now' = now + 1
    /\ UNCHANGED <<leases, concurrency, governor, limited, broker, agent, granted, admitted>>

SchedNext ==
    \/ \E a \in Agent, t \in Todo, p \in Peer : Claim(a, t, p)
    \/ \E a \in Agent, t \in Todo, to \in Peer \cup {Back} : Handoff(a, t, to)
    \/ \E a \in Agent :
           Admit(a) \/ Quota(a) \/ Check(a) \/ Grant(a) \/ Count(a) \/ Decrement(a)
    \/ \E t \in Todo, p \in Peer : Renew(t, p)
    \/ Tick

SchedSpec == SchedInit /\ [][SchedNext]_schedVars

-----------------------------------------------------------------------------
(* Properties.                                                             *)

SchedTypeOK ==
    /\ leases \in [Todo -> {NoLease} \cup [peer : Peer, until : 0..(MaxTime + 2 * LeaseLen)]]
    /\ concurrency \in [Peer -> Nat]
    /\ governor \in [Peer -> [idx : Window, count : Nat]]
    /\ limited \in BOOLEAN /\ broker \in BOOLEAN
    /\ agent \in [Agent -> [pc : {"idle", "admit", "quota", "check", "grant", "count", "dec"},
                            todo : Todo \cup {None}, peer : Peer \cup {None},
                            to : Peer \cup {Back, None}, at : 0..MaxTime]]
    /\ now \in 0..MaxTime
    /\ granted \subseteq Todo \X Peer
    /\ admitted \in [Peer -> [Window -> Nat]]

Held(p)       == Cardinality({t \in Todo : leases[t] # NoLease /\ leases[t].peer = p})
ToRaise(p)    == Cardinality({a \in Agent : \/ Doing(a, "count") /\ agent[a].peer = p
                                            \/ Doing(a, "dec") /\ agent[a].to = p})
ToLower(p)    == Cardinality({a \in Agent : Doing(a, "dec") /\ agent[a].peer = p})

\* The count the quota is checked against never falls below the leases a peer
\* holds, but for the calls that have written the lease and not yet the count:
\* lost updates between the two locks only ever err on the strict side, so a
\* quiet scheduler never lets a peer exceed its quota by a claim.  (It may stay
\* too high for ever: a decrement that overtakes its increment is dropped.)
NeverUndercounted ==
    \A p \in Peer : concurrency[p] + ToRaise(p) >= Held(p) + ToLower(p)

\* Behind the broker an answer Granted holds: the peer has the lease until it
\* is handed over, and nobody else was told the same.  (The bare scheduler
\* does not promise it: two claims may both pass the check before either
\* writes its lease.)
GrantHonoured ==
    broker => granted = {<<t, leases[t].peer>> : t \in {u \in Todo : leases[u] # NoLease}}

\* Behind the broker a peer is let through at most MaxClaims times per window,
\* whatever the clock does between the reading of it and the count.
RateBounded ==
    broker => \A p \in Peer, w \in Window : admitted[p][w] <= MaxClaims
=============================================================================
