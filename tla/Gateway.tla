------------------------------ MODULE Gateway ------------------------------
(***************************************************************************)
(* One vendor channel of crates/mca-gateway: VendorAdapter::invoke with    *)
(* the in-flight coalescer, the cost guard and the channel's circuit       *)
(* breaker, called by several tasks at once.                               *)
(*                                                                         *)
(* The channel has a coalescer, a cost guard with a limit and a capability *)
(* token, and no semantic cache.  Each parsed answer costs 1.  Steps that  *)
(* only one task can see are merged with the next one that others can.     *)
(***************************************************************************)
EXTENDS Integers, FiniteSets

CONSTANTS
    Invoker,       \* tasks that call invoke
    Prompt,        \* CoalesceKeys
    Limit,         \* budget_limit_micro
    Threshold,     \* BREAKER_THRESHOLD
    Attempts,      \* MAX_ATTEMPTS
    OpenLen,       \* CIRCUIT_OPEN_DURATION_SECS = BREAKER_COOLDOWN_MS
    MaxClock,      \* bound: clock
    MaxInvokes     \* bound: calls of invoke

NoKey == "nokey"
Never == -1

ASSUME GatewayAssumption ==
    /\ Limit \in Nat /\ MaxClock \in Nat /\ MaxInvokes \in Nat /\ OpenLen \in Nat
    /\ Threshold \in Nat \ {0} /\ Attempts \in Nat \ {0}
    /\ NoKey \notin Prompt \cup Invoker

VARIABLES
    invoke,        \* the calls under way
    inflight,      \* RequestCoalescer.inflight: the waiters of a key, or Absent
    token,         \* the capability token still allows the learned policy
    spent,         \* CostGuard.spent_micro
    openUntil,     \* CostGuard.circuit_open_until
    reported,      \* CostGuard.budget_exceeded_reported
    circuit,       \* CircuitBreaker.state
    failures,      \* CircuitBreaker.consecutive_failures
    openedAt,      \* CircuitBreaker.opened_at_ms
    clock,         \* the clock
    failed,        \* attempts whose failure was recorded
    invokes        \* calls made

gatewayVars == <<invoke, inflight, token, spent, openUntil, reported, circuit, failures, openedAt,
                 clock, failed, invokes>>

Absent == {NoKey}
NoCallOf == [pc |-> "idle", key |-> NoKey, tries |-> 0, half |-> FALSE, probe |-> FALSE, taken |-> {}]

GatewayInit ==
    /\ invoke = [i \in Invoker |-> NoCallOf]
    /\ inflight = [k \in Prompt |-> Absent]
    /\ token = TRUE
    /\ spent = 0 /\ openUntil = Never /\ reported = FALSE
    /\ circuit = "closed" /\ failures = 0 /\ openedAt = 0
    /\ clock = 0 /\ failed = 0 /\ invokes = 0

costGuard == <<spent, openUntil, reported>>
channel   == <<circuit, failures, openedAt, failed>>
rest      == <<token, clock, invokes>>

At(i, pc)    == invoke[i].pc = pc
GoTo(i, pc)  == invoke' = [invoke EXCEPT ![i].pc = pc]
Leave(i)     == invoke' = [invoke EXCEPT ![i] = NoCallOf]
KeyOf(i)     == invoke[i].key
Leads        == {"check", "claim", "refuse", "probe", "allow", "half", "send", "zero", "close",
                 "judge", "add", "trip", "finish"}

-----------------------------------------------------------------------------
(* The coalescer.                                                          *)

\* Mutant: the entry is only read, not held, so that a second caller leads too.
OpenToLeadUnheld(k) == inflight[k] = Absent \/ inflight[k] = {}

\* join: a vacant entry makes its caller the leader.
OpenToLead(k) == inflight[k] = Absent

\* invoke and try_join_coalesced: lead, wait, or go past the coalescer without
\* an entry when the token no longer allows it.
Invoke(i, k) ==
    /\ At(i, "idle") /\ invokes < MaxInvokes
    /\ invokes' = invokes + 1
    /\ \/ /\ ~token
          /\ invoke' = [invoke EXCEPT ![i] = [NoCallOf EXCEPT !.pc = "check", !.key = k]]
          /\ UNCHANGED inflight
       \/ /\ token /\ OpenToLead(k)
          /\ invoke' = [invoke EXCEPT ![i] = [NoCallOf EXCEPT !.pc = "check", !.key = k]]
          /\ inflight' = [inflight EXCEPT ![k] = {}]
       \/ /\ token /\ ~OpenToLead(k)
          /\ invoke' = [invoke EXCEPT ![i] = [NoCallOf EXCEPT !.pc = "wait", !.key = k]]
          /\ inflight' = [inflight EXCEPT ![k] = @ \cup {i}]
    /\ UNCHANGED <<costGuard, channel, token, clock>>

\* The wait ends with the timeout, or its caller is dropped; a sender without a
\* receiver says nothing to anybody and leaves the model.
GiveUp(i) ==
    /\ At(i, "wait")
    /\ invoke' = [j \in Invoker |->
                     IF j = i THEN NoCallOf ELSE [invoke[j] EXCEPT !.taken = @ \ {i}]]
    /\ inflight' = [k \in Prompt |-> inflight[k] \ {i}]
    /\ UNCHANGED <<costGuard, channel, rest>>

\* Mutant: one waiter is served.
RemovedOne(k) ==
    LET w == inflight[k] \ Absent IN IF w = {} THEN {} ELSE {CHOOSE j \in w : TRUE}

\* complete: the waiters of the removed entry; none when it is gone already.
Removed(k) == inflight[k] \ Absent

\* complete_session, after its publication: the entry of the key is removed,
\* whoever made it ...
Complete(i) ==
    /\ At(i, "finish")
    /\ invoke' = [invoke EXCEPT ![i].pc = "send_out", ![i].taken = Removed(KeyOf(i))]
    /\ inflight' = [inflight EXCEPT ![KeyOf(i)] = Absent]
    /\ UNCHANGED <<costGuard, channel, rest>>

\* ... and the answer goes to each of its waiters that still waits.
SendOut(i) ==
    /\ At(i, "send_out")
    /\ invoke' = [j \in Invoker |->
                     IF j = i \/ (j \in invoke[i].taken /\ At(j, "wait")) THEN NoCallOf ELSE invoke[j]]
    /\ UNCHANGED <<inflight, costGuard, channel, rest>>

\* A leader's call ends without complete: at each of the ? of invoke, or when
\* its future is dropped at an await.  The entry stays.
Abandon(i) ==
    /\ Leave(i)
    /\ UNCHANGED inflight

\* build_request, check_allowlist or auth_headers fails, or the caller is dropped
\* while it awaits an attempt or a publication.
Fail(i) ==
    /\ \E pc \in {"allow", "send", "finish"} : At(i, pc)
    /\ Abandon(i)
    /\ UNCHANGED <<costGuard, channel, rest>>

-----------------------------------------------------------------------------
(* The cost guard.                                                         *)

\* check: both loads.  spent only grows, so they may be seen as one.
CheckCost(i) ==
    /\ At(i, "check")
    /\ \/ spent < Limit /\ GoTo(i, "allow") /\ UNCHANGED inflight
       \/ spent >= Limit /\ clock < openUntil /\ Abandon(i)
       \/ spent >= Limit /\ clock >= openUntil /\ GoTo(i, "claim") /\ UNCHANGED inflight
    /\ UNCHANGED <<costGuard, channel, rest>>

\* The compare_exchange on budget_exceeded_reported.
Announces == ~reported

ClaimReport(i) ==
    /\ At(i, "claim")
    /\ reported' = (reported \/ Announces)
    /\ GoTo(i, IF Announces THEN "refuse" ELSE "probe")
    /\ UNCHANGED <<inflight, spent, openUntil, channel, rest>>

\* The store of circuit_open_until; the winner of the exchange is refused, the
\* others pass.
Reopen(i) ==
    /\ At(i, "refuse") \/ At(i, "probe")
    /\ openUntil' = clock + OpenLen
    /\ IF At(i, "refuse") THEN Abandon(i)
       ELSE /\ invoke' = [invoke EXCEPT ![i].pc = "allow", ![i].probe = TRUE]
            /\ UNCHANGED inflight
    /\ UNCHANGED <<spent, reported, channel, rest>>

-----------------------------------------------------------------------------
(* The transport and its circuit breaker.                                  *)

\* allow: closed and half-open let everybody pass.
Allow(i) ==
    /\ At(i, "allow")
    /\ \/ circuit # "open" /\ GoTo(i, "send") /\ UNCHANGED inflight
       \/ circuit = "open" /\ clock - openedAt >= OpenLen /\ GoTo(i, "half") /\ UNCHANGED inflight
       \/ circuit = "open" /\ clock - openedAt < OpenLen /\ Abandon(i)
    /\ UNCHANGED <<costGuard, channel, rest>>

\* allow: the compare_exchange from open to half-open.
HalfOpen(i) ==
    /\ At(i, "half")
    /\ IF circuit = "open" THEN circuit' = "half" /\ GoTo(i, "send") /\ UNCHANGED inflight
                           ELSE Abandon(i) /\ UNCHANGED circuit
    /\ UNCHANGED <<costGuard, failures, openedAt, failed, rest>>

\* send_once: an answer, a failure worth a retry (record_failure loads the
\* state), or one that is not.
Send(i) ==
    /\ At(i, "send")
    /\ \/ GoTo(i, "zero") /\ UNCHANGED inflight
       \/ /\ invoke' = [invoke EXCEPT ![i].pc = "add", ![i].half = (circuit = "half"),
                                      ![i].tries = @ + 1]
          /\ UNCHANGED inflight
       \/ Abandon(i)
    /\ UNCHANGED <<costGuard, channel, rest>>

\* record_failure: the limit of consecutive failures.
Enough(n) == n >= Threshold

\* The end of the attempts.
Exhausted(i) == invoke[i].tries >= Attempts

Again(i) == IF Exhausted(i) THEN Abandon(i) ELSE GoTo(i, "send") /\ UNCHANGED inflight

\* record_failure: fetch_add ...
Add(i) ==
    /\ At(i, "add")
    /\ failures' = failures + 1 /\ failed' = failed + 1
    /\ IF invoke[i].half \/ Enough(failures + 1) THEN GoTo(i, "trip") /\ UNCHANGED inflight ELSE Again(i)
    /\ UNCHANGED <<circuit, openedAt, costGuard, rest>>

\* ... and the two stores; opened_at_ms is read only behind the state.
Trip(i) ==
    /\ At(i, "trip")
    /\ circuit' = "open" /\ openedAt' = clock
    /\ Again(i)
    /\ UNCHANGED <<failures, failed, costGuard, rest>>

\* record_success: the two stores.
Zero(i) ==
    /\ At(i, "zero")
    /\ failures' = 0 /\ GoTo(i, "close")
    /\ UNCHANGED <<inflight, circuit, openedAt, failed, costGuard, rest>>

Close(i) ==
    /\ At(i, "close")
    /\ circuit' = "closed" /\ GoTo(i, "judge")
    /\ UNCHANGED <<inflight, failures, openedAt, failed, costGuard, rest>>

\* transport_invoke's status and decode_and_cost: an error status or a body that
\* does not parse ends the call, else the cost is recorded.
Account(i) ==
    /\ At(i, "judge")
    /\ \/ Abandon(i) /\ UNCHANGED spent
       \/ spent' = spent + 1 /\ GoTo(i, "finish") /\ UNCHANGED inflight
    /\ UNCHANGED <<openUntil, reported, channel, rest>>

\* Time passes; the token expires.
Later ==
    /\ clock < MaxClock
    /\ clock' = clock + 1
    /\ UNCHANGED <<invoke, inflight, token, costGuard, channel, invokes>>

Revoke ==
    /\ token
    /\ token' = FALSE
    /\ UNCHANGED <<invoke, inflight, costGuard, channel, clock, invokes>>

GatewayNext ==
    \/ \E i \in Invoker, k \in Prompt : Invoke(i, k)
    \/ \E i \in Invoker :
          \/ GiveUp(i) \/ Complete(i) \/ SendOut(i) \/ Fail(i)
          \/ CheckCost(i) \/ ClaimReport(i) \/ Reopen(i)
          \/ Allow(i) \/ HalfOpen(i) \/ Send(i) \/ Add(i) \/ Trip(i)
          \/ Zero(i) \/ Close(i) \/ Account(i)
    \/ Later \/ Revoke

GatewaySpec == GatewayInit /\ [][GatewayNext]_gatewayVars

-----------------------------------------------------------------------------
(* Properties.                                                             *)

\* The types, and the attempts of a call within MAX_ATTEMPTS.
GatewayTypeOK ==
    /\ invoke \in [Invoker -> [pc : Leads \cup {"idle", "wait", "send_out"},
                               key : Prompt \cup {NoKey}, tries : 0..Attempts,
                               half : BOOLEAN, probe : BOOLEAN, taken : SUBSET Invoker]]
    /\ inflight \in [Prompt -> {Absent} \cup SUBSET Invoker]
    /\ token \in BOOLEAN /\ reported \in BOOLEAN
    /\ spent \in Nat /\ openUntil \in {Never} \cup Nat
    /\ circuit \in {"closed", "open", "half"}
    /\ failures \in Nat /\ openedAt \in Nat /\ failed \in Nat
    /\ clock \in 0..MaxClock /\ invokes \in 0..MaxInvokes

\* Identical requests are paid once: while the token is valid, no two calls with
\* the same key are on their way to the vendor (coalescing.rs, join).
OneCallPerKey ==
    token => \A i, j \in Invoker :
        invoke[i].pc \in Leads /\ invoke[j].pc \in Leads /\ KeyOf(i) = KeyOf(j) => i = j

\* No waiter is forgotten: one that still waits is in the list of an entry in
\* flight, or of a completion that has not sent yet (coalescing.rs, complete
\* racing join and the timeout).
NoWaiterForgotten ==
    \A i \in Invoker : At(i, "wait") =>
        \/ i \in inflight[KeyOf(i)]
        \/ \E j \in Invoker : At(j, "send_out") /\ i \in invoke[j].taken

\* A call goes past the budget only after the overrun was claimed for report,
\* whatever calls meet the limit at the same moment (cost_guard.rs, check).
OverrunAnnounced ==
    \A i \in Invoker : invoke[i].probe => reported

\* The channel is never shut or on trial without as many failed attempts as the
\* threshold, with successes and failures recorded at once (transport.rs,
\* record_failure racing record_success).
BreakerEarned ==
    circuit # "closed" => failed >= Threshold

\* What coalescing.rs says of a leader that fails, "all waiters receive the same
\* error": nobody waits for a leader that is gone.
FailureReachesWaiters ==
    \A i \in Invoker : At(i, "wait") =>
        \E j \in Invoker :
            \/ invoke[j].pc \in Leads /\ KeyOf(j) = KeyOf(i)
            \/ At(j, "send_out") /\ i \in invoke[j].taken
=============================================================================
