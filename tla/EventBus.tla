------------------------------ MODULE EventBus ------------------------------
(***************************************************************************)
(* The event bus of the workspace (crates/event-bus): one broadcast ring   *)
(* every subscriber reads, an optional layer of bounded shard queues that  *)
(* carries the events whose order does not matter, credits that throttle   *)
(* that layer, down-sampling under pressure, and the side channels for     *)
(* critical events.                                                        *)
(*                                                                         *)
(* Publishers run dispatch_one_impl concurrently and hold no lock between  *)
(* its atomic operations, so each of them is a step here: taking a credit, *)
(* pushing into the shard queue, waking the worker, giving credits back,   *)
(* sampling the ring, sending.  A shard's worker pops, sends and releases  *)
(* in steps of its own.  Metrics other than the ones a decision depends on *)
(* are left out.                                                           *)
(***************************************************************************)
EXTENDS Integers, Sequences, FiniteSets

CONSTANTS
    Publisher,    \* tasks that publish
    Reader,       \* broadcast subscribers
    Listener,     \* subscribers of the critical side channel
    Shard,        \* shard queues; an event's type decides its shard
    ShardCap,     \* SHARD_CAPACITY
    WorkerBatch,  \* SHARD_WORKER_BATCH
    MaxCredits,   \* DEFAULT_CREDITS
    RingCap,      \* capacity of the broadcast ring
    CritCap,      \* CRITICAL_CHANNEL_CAPACITY
    Every,        \* under pressure one non-critical event in Every is kept
    Trigger,      \* ring occupancy that engages the latch
    Resume,       \* ring occupancy at which it lets go
    Wirings,      \* the sets of optional features an application may turn on
    MaxEvents,    \* bound: events published
    MaxCritical   \* bound: events published in a wiring with critical events

Feature == {"shards", "sampling", "critical"}

ASSUME BusAssumption ==
    /\ {ShardCap, WorkerBatch, MaxCredits, RingCap, CritCap, Every} \subseteq Nat \ {0}
    /\ {Trigger, Resume, MaxEvents, MaxCritical} \subseteq Nat /\ MaxCritical <= MaxEvents
    /\ Resume <= Trigger
    /\ {"critical", "ordered"} \cap Shard = {} /\ IsFiniteSet(Publisher)
    /\ Wirings \subseteq SUBSET Feature

VARIABLES
    published,    \* every event handed to the bus, in the order of the calls
    sharded,      \* shard_bus is Some
    credits,      \* CreditFlow.credits
    charged,      \* events for which a credit was taken and not yet returned:
                  \* credit_deducted, and on from the push to the worker's release
    queue,        \* the shard queues
    permit,       \* the permit stored in a shard's Notify
    worker,       \* the shard workers
    pub,          \* the publishers
    ring,         \* what the broadcast channel was sent, oldest first
    reader,       \* a subscriber's position in the ring, Off when there is none
    wiring,       \* what the application uses: shards and events for them, a
                  \* down-sampling policy, critical events and their listeners
    latch,        \* DsRuntime.engaged
    normalSeq,    \* DsRuntime.normal_seq, modulo Every
    unsent,       \* events down-sampled, or sent while nobody was subscribed
    critTx,       \* listeners in the list critical_tx
    critRx,       \* listeners whose receiver is alive
    inbox,        \* how many events wait in a listener's channel
    outcome       \* what became of a critical event in the side channel

busVars == <<published, sharded, credits, charged, queue, permit, worker, pub, ring, reader,
             wiring, latch, normalSeq, unsent, critTx, critRx, inbox, outcome>>

Off  == -1
Lane == {"critical", "ordered"} \cup Shard
Api  == {"one", "batch", "critical"}   \* publish, publish_batch, publish_critical
Id   == 1..Len(published)

Idle == [pc |-> "idle", ev |-> 0, extra |-> FALSE, how |-> "one", queued |-> 0]
Poll == [pc |-> "poll", batch |-> <<>>, taken |-> {}]

\* The events and the calls of an application with these features.  Without a
\* down-sampling policy publish and publish_batch take the same steps.
Lanes == {"ordered"} \cup (IF "shards" \in wiring THEN Shard ELSE {})
                     \cup (IF "critical" \in wiring THEN {"critical"} ELSE {})
Apis  == {"one"} \cup (IF "sampling" \in wiring THEN {"batch"} ELSE {})
                 \cup (IF "critical" \in wiring THEN {"critical"} ELSE {})

\* BackpressurePolicy::downsample_params is Some.
Sampling == "sampling" \in wiring

LaneOf(e) == published[e].lane

\* Mutant: the lane only keeps critical events out of the shards.
UnorderedButCritical(lane) == lane # "critical"

\* event_lane: the lane is Unordered, and the event's type picks the shard.
Unordered(lane) == lane \in Shard

ShardOf(e) == IF LaneOf(e) \in Shard THEN LaneOf(e) ELSE CHOOSE s \in Shard : TRUE

Shardable(lane) == sharded /\ Unordered(lane)

Room(e) == Len(queue[ShardOf(e)]) < ShardCap

\* Mutant: release does not cap at max_credits.
ReleasedUncapped(n) == credits + n

\* CreditFlow::release.
Released(n) == IF credits + n > MaxCredits THEN MaxCredits ELSE credits + n

BusInit ==
    /\ published = <<>> /\ sharded = FALSE /\ credits = MaxCredits /\ charged = {}
    /\ queue = [s \in Shard |-> <<>>]
    /\ permit = [s \in Shard |-> FALSE]
    /\ worker = [s \in Shard |-> Poll]
    /\ pub = [p \in Publisher |-> Idle]
    /\ ring = <<>>
    /\ reader = [r \in Reader |-> Off]
    /\ wiring \in Wirings /\ latch = FALSE /\ normalSeq = 0
    /\ unsent = {}
    /\ critTx = {} /\ critRx = {}
    /\ inbox = [l \in Listener |-> 0]
    /\ outcome = <<>>

-----------------------------------------------------------------------------
(* The publisher: dispatch_one_impl, dispatch_batch, publish_critical.     *)

At(p, pc)      == pub[p].pc = pc
Goto(p, pc)    == pub' = [pub EXCEPT ![p].pc = pc]
Done(p)        == pub' = [pub EXCEPT ![p] = Idle]
Ev(p)          == pub[p].ev

shardVars == <<queue, permit, worker>>
ringVars  == <<ring, reader, unsent>>
dsVars    == <<wiring, latch, normalSeq>>
critVars  == <<critTx, critRx, inbox, outcome>>

\* enable_sharding: the second look at shard_bus happens under enable_lock; the
\* workers are spawned and the bus is stored before the lock is released.
EnableSharding ==
    /\ ~sharded /\ "shards" \in wiring
    /\ sharded' = TRUE
    /\ UNCHANGED <<published, credits, charged, shardVars, pub, ringVars, dsVars, critVars>>

\* A call, up to the credit it takes when its event will go to a shard.
\* publish_critical skips the shards and the credits.
Publish(p, lane, how) ==
    /\ At(p, "idle")
    /\ Len(published) < IF "critical" \in wiring THEN MaxCritical ELSE MaxEvents
    /\ published' = Append(published, [by |-> p, lane |-> lane])
    /\ LET pays == how # "critical" /\ Shardable(lane) /\ credits > 0
       IN  /\ credits' = IF pays THEN credits - 1 ELSE credits
           /\ pub' = [pub EXCEPT ![p] =
                 [Idle EXCEPT !.pc = IF how = "critical" THEN "direct" ELSE "route",
                              !.ev = Len(published) + 1, !.how = how]]
           /\ charged' = IF pays THEN charged \cup {Len(published) + 1} ELSE charged
    /\ outcome' = Append(outcome, {})
    /\ UNCHANGED <<sharded, shardVars, ringVars, dsVars, critTx, critRx, inbox>>

\* shard_bus is loaded a second time: it is empty, or the lane keeps its order.
Bypass(p) ==
    /\ At(p, "route")
    /\ ~Shardable(LaneOf(Ev(p)))
    /\ Goto(p, "direct")
    /\ UNCHANGED <<published, sharded, credits, charged, shardVars, ringVars, dsVars, critVars>>

\* try_push: the lock-free queue has room, at the first or the second attempt.
Push(p) ==
    /\ At(p, "retry") \/ (At(p, "route") /\ Shardable(LaneOf(Ev(p))))
    /\ Room(Ev(p))
    /\ queue' = [queue EXCEPT ![ShardOf(Ev(p))] = Append(@, Ev(p))]
    /\ Goto(p, "notify")
    /\ UNCHANGED <<published, sharded, credits, charged, permit, worker, ringVars, dsVars, critVars>>

\* Mutant: the wake-up reaches only a worker that already waits.
WakeWaiting(s) == permit' = [permit EXCEPT ![s] = worker[s].pc = "wait"]

\* Notify::notify_one: a worker that does not wait yet finds the permit later.
Wake(s) == permit' = [permit EXCEPT ![s] = TRUE]

\* Mutant: a push that succeeded at the second attempt is reported as a refusal.
AfterNotifyForgets(p) == IF pub[p].extra THEN Goto(p, "err") ELSE Done(p)

AfterNotify(p) == IF pub[p].extra THEN Goto(p, "ok") ELSE Done(p)

NotifyWorker(p) ==
    /\ At(p, "notify")
    /\ Wake(ShardOf(Ev(p)))
    /\ AfterNotify(p)
    /\ UNCHANGED <<published, sharded, credits, charged, queue, worker, ringVars, dsVars, critVars>>

\* The first attempt found the queue full, or the second one did.
Full(p) ==
    /\ At(p, "retry") \/ (At(p, "route") /\ Shardable(LaneOf(Ev(p))))
    /\ ~Room(Ev(p))
    /\ Goto(p, IF At(p, "retry") THEN "err" ELSE "full")
    /\ UNCHANGED <<published, sharded, credits, charged, shardVars, ringVars, dsVars, critVars>>

\* try_shard_publish after a full queue: a credit buys a second attempt.
BuyRetry(p) ==
    /\ At(p, "full")
    /\ IF credits > 0
       THEN /\ credits' = credits - 1
            /\ pub' = [pub EXCEPT ![p].pc = "retry", ![p].extra = TRUE]
       ELSE /\ Goto(p, "refused")
            /\ UNCHANGED credits
    /\ UNCHANGED <<published, sharded, charged, shardVars, ringVars, dsVars, critVars>>

\* The credit of the second attempt goes back whatever came of the attempt.
ReturnExtra(p) ==
    /\ pub[p].pc \in {"ok", "err"}
    /\ credits' = Released(1)
    /\ IF At(p, "ok") THEN Done(p)
       ELSE pub' = [pub EXCEPT ![p].pc = "refused", ![p].extra = FALSE]
    /\ UNCHANGED <<published, sharded, charged, shardVars, ringVars, dsVars, critVars>>

\* Mutant: the credit taken at the entry is forgotten on the way back.
RefusedKeeps(p) ==
    /\ At(p, "refused")
    /\ charged' = charged \ {Ev(p)}
    /\ Goto(p, "direct")
    /\ UNCHANGED <<published, sharded, credits, shardVars, ringVars, dsVars, critVars>>

\* The event comes back from the shards: its credit is returned and it goes on
\* to the broadcast ring.
Refused(p) ==
    /\ At(p, "refused")
    /\ credits' = IF Ev(p) \in charged THEN Released(1) ELSE credits
    /\ charged' = charged \ {Ev(p)}
    /\ Goto(p, "direct")
    /\ UNCHANGED <<published, sharded, shardVars, ringVars, dsVars, critVars>>

\* Mutant: the fallback looks at the list as it was before the dead were removed.
NobodyListedBefore(kept, took) == critTx = {}

\* send_critical_mpsc, both places where the fallback sink gets the event.
NobodyListed(kept, took) == took = {} /\ kept = {}

\* send_critical_mpsc, one critical section: a full channel counts a drop and
\* stays listed, a channel without a receiver leaves the list.
SendCritical(e) ==
    LET kept == critTx \cap critRx
        took == {l \in kept : inbox[l] < CritCap}
    IN  /\ critTx' = kept
        /\ inbox' = [l \in Listener |-> IF l \in took THEN inbox[l] + 1 ELSE inbox[l]]
        /\ outcome' = [outcome EXCEPT ![e] =
               (IF took # {} THEN {"delivered"} ELSE {})
               \cup (IF kept # took THEN {"dropped"} ELSE {})
               \cup (IF NobodyListed(kept, took) THEN {"fallback"} ELSE {})]

\* Only publish asks ds_admit, and only a policy makes it look at the ring.
Direct(p) ==
    /\ At(p, "direct")
    /\ IF LaneOf(Ev(p)) = "critical" \/ pub[p].how = "critical"
       THEN SendCritical(Ev(p))
       ELSE UNCHANGED <<critTx, inbox, outcome>>
    /\ Goto(p, IF pub[p].how = "one" /\ Sampling THEN "sample" ELSE "send")
    /\ UNCHANGED <<published, sharded, credits, charged, shardVars, ringVars, dsVars, critRx>>

\* Sender::len: the events in the ring that some subscriber has still to read.
Behind(r) == IF reader[r] = Off THEN 0
             ELSE IF Len(ring) - reader[r] > RingCap THEN RingCap
             ELSE Len(ring) - reader[r]
SenderLen == CHOOSE n \in 0..RingCap :
                /\ \A r \in Reader : Behind(r) <= n
                /\ n = 0 \/ \E r \in Reader : Behind(r) = n

Sample(p) ==
    /\ At(p, "sample")
    /\ pub' = [pub EXCEPT ![p].pc = "admit", ![p].queued = SenderLen]
    /\ UNCHANGED <<published, sharded, credits, charged, shardVars, ringVars, dsVars, critVars>>

\* pressure_latch_next: two thresholds, so that the latch does not flutter.
LatchNext(queued) == IF latch THEN queued > Resume ELSE queued >= Trigger

\* ds_admit, with the occupancy sampled earlier.
Admit(p) ==
    /\ At(p, "admit")
    /\ LET next == LatchNext(pub[p].queued)
           rate == next /\ LaneOf(Ev(p)) # "critical"
       IN  /\ latch' = next
           /\ normalSeq' = IF rate THEN (normalSeq + 1) % Every ELSE normalSeq
           /\ IF rate /\ normalSeq # 0
              THEN /\ unsent' = unsent \cup {Ev(p)}
                   /\ Done(p)
              ELSE /\ Goto(p, "send")
                   /\ UNCHANGED unsent
    /\ UNCHANGED <<published, sharded, credits, charged, shardVars, ring, reader, wiring, critVars>>

\* broadcast::Sender::send: without a subscriber the event is dropped.
RingSend(e) ==
    IF \E r \in Reader : reader[r] # Off
    THEN ring' = Append(ring, e) /\ UNCHANGED unsent
    ELSE unsent' = unsent \cup {e} /\ UNCHANGED ring

Send(p) ==
    /\ At(p, "send")
    /\ RingSend(Ev(p))
    /\ Done(p)
    /\ UNCHANGED <<published, sharded, credits, charged, shardVars, reader, dsVars, critVars>>

PublisherStep(p) ==
    \/ Bypass(p) \/ Push(p) \/ NotifyWorker(p) \/ Full(p) \/ BuyRetry(p) \/ ReturnExtra(p)
    \/ Refused(p) \/ Direct(p) \/ Sample(p) \/ Admit(p) \/ Send(p)

-----------------------------------------------------------------------------
(* The worker of a shard: shard_worker.                                    *)

InWorker(s, pc) == sharded /\ worker[s].pc = pc

\* One pop of the batching loop.
Pop(s) ==
    /\ InWorker(s, "poll")
    /\ Len(worker[s].batch) < WorkerBatch
    /\ queue[s] # <<>>
    /\ worker' = [worker EXCEPT ![s].batch = Append(@, Head(queue[s])),
                                ![s].taken = @ \cup {Head(queue[s])}]
    /\ queue' = [queue EXCEPT ![s] = Tail(@)]
    /\ UNCHANGED <<published, sharded, credits, charged, permit, pub, ringVars, dsVars, critVars>>

\* The loop ends at a full batch or at an empty queue.
EndBatch(s) ==
    /\ InWorker(s, "poll")
    /\ Len(worker[s].batch) = WorkerBatch \/ queue[s] = <<>>
    /\ worker' = [worker EXCEPT ![s].pc = IF worker[s].batch = <<>> THEN "empty" ELSE "send"]
    /\ UNCHANGED <<published, sharded, credits, charged, queue, permit, pub, ringVars, dsVars, critVars>>

\* notified().await: created after the queue was seen empty, done once there is a permit.
Wait(s) ==
    /\ InWorker(s, "empty")
    /\ worker' = [worker EXCEPT ![s].pc = "wait"]
    /\ UNCHANGED <<published, sharded, credits, charged, queue, permit, pub, ringVars, dsVars, critVars>>

Woken(s) ==
    /\ InWorker(s, "wait")
    /\ permit[s]
    /\ permit' = [permit EXCEPT ![s] = FALSE]
    /\ worker' = [worker EXCEPT ![s].pc = "poll"]
    /\ UNCHANGED <<published, sharded, credits, charged, queue, pub, ringVars, dsVars, critVars>>

Merge(s) ==
    /\ InWorker(s, "send")
    /\ worker[s].batch # <<>>
    /\ RingSend(Head(worker[s].batch))
    /\ worker' = [worker EXCEPT ![s].batch = Tail(@)]
    /\ UNCHANGED <<published, sharded, credits, charged, queue, permit, pub, reader, dsVars, critVars>>

\* release_many(batch_len): one credit per event of the batch, paid for or not.
ReleaseBatch(s) ==
    /\ InWorker(s, "send")
    /\ worker[s].batch = <<>>
    /\ credits' = Released(Cardinality(worker[s].taken))
    /\ charged' = charged \ worker[s].taken
    /\ worker' = [worker EXCEPT ![s] = Poll]
    /\ UNCHANGED <<published, sharded, queue, permit, pub, ringVars, dsVars, critVars>>

WorkerStep(s) ==
    Pop(s) \/ EndBatch(s) \/ Wait(s) \/ Woken(s) \/ Merge(s) \/ ReleaseBatch(s)

-----------------------------------------------------------------------------
(* Subscribers.                                                            *)

\* subscribe starts at the tail of the ring.
Subscribe(r) ==
    /\ reader[r] = Off
    /\ reader' = [reader EXCEPT ![r] = Len(ring)]
    /\ UNCHANGED <<published, sharded, credits, charged, shardVars, pub, ring, unsent, dsVars, critVars>>

\* recv, recv_timeout, try_recv: the next event, or Lagged and a jump to the
\* oldest event the ring still holds.
Recv(r) ==
    /\ reader[r] # Off /\ reader[r] < Len(ring)
    /\ reader' = [reader EXCEPT ![r] =
                     IF Len(ring) - @ > RingCap THEN Len(ring) - RingCap ELSE @ + 1]
    /\ UNCHANGED <<published, sharded, credits, charged, shardVars, pub, ring, unsent, dsVars, critVars>>

DropReader(r) ==
    /\ reader[r] # Off
    /\ reader' = [reader EXCEPT ![r] = Off]
    /\ UNCHANGED <<published, sharded, credits, charged, shardVars, pub, ring, unsent, dsVars, critVars>>

\* subscribe_critical_events, and the life of the receiver it returns.
SubscribeCritical(l) ==
    /\ "critical" \in wiring /\ l \notin critTx \cup critRx
    /\ critTx' = critTx \cup {l} /\ critRx' = critRx \cup {l}
    /\ inbox' = [inbox EXCEPT ![l] = 0]
    /\ UNCHANGED <<published, sharded, credits, charged, shardVars, pub, ringVars, dsVars, outcome>>

RecvCritical(l) ==
    /\ l \in critRx /\ inbox[l] > 0
    /\ inbox' = [inbox EXCEPT ![l] = @ - 1]
    /\ UNCHANGED <<published, sharded, credits, charged, shardVars, pub, ringVars, dsVars, critTx, critRx, outcome>>

DropCritical(l) ==
    /\ l \in critRx
    /\ critRx' = critRx \ {l}
    /\ UNCHANGED <<published, sharded, credits, charged, shardVars, pub, ringVars, dsVars, critTx, inbox, outcome>>

BusNext ==
    \/ EnableSharding
    \/ \E p \in Publisher, lane \in Lanes, how \in Apis : Publish(p, lane, how)
    \/ \E p \in Publisher : PublisherStep(p)
    \/ \E s \in Shard : WorkerStep(s)
    \/ \E r \in Reader : Subscribe(r) \/ Recv(r) \/ DropReader(r)
    \/ \E l \in Listener : SubscribeCritical(l) \/ RecvCritical(l) \/ DropCritical(l)

\* A call that was made runs to its end (it never blocks), and the runtime
\* polls every worker; nobody is obliged to publish, subscribe or read.
BusFairness ==
    /\ \A p \in Publisher : WF_busVars(PublisherStep(p))
    /\ \A s \in Shard : WF_busVars(WorkerStep(s))

BusSpec == BusInit /\ [][BusNext]_busVars /\ BusFairness

-----------------------------------------------------------------------------
(* Properties.                                                             *)

PubPC    == {"idle", "route", "notify", "full", "retry", "ok", "err", "refused",
             "direct", "sample", "admit", "send"}
WorkerPC == {"poll", "empty", "wait", "send"}

\* The types, with the bounds the code gives its buffers: the queues never
\* exceed their capacity and the credits never their initial number
\* (credit_flow.rs: a release is capped).
BusTypeOK ==
    /\ published \in Seq([by : Publisher, lane : Lane]) /\ Len(published) <= MaxEvents
    /\ sharded \in BOOLEAN /\ wiring \in Wirings /\ latch \in BOOLEAN
    /\ credits \in 0..MaxCredits /\ charged \subseteq Id
    /\ queue \in [Shard -> Seq(Id)] /\ \A s \in Shard : Len(queue[s]) <= ShardCap
    /\ permit \in [Shard -> BOOLEAN]
    /\ \A s \in Shard : /\ worker[s].pc \in WorkerPC
                        /\ worker[s].batch \in Seq(Id) /\ Len(worker[s].batch) <= WorkerBatch
                        /\ worker[s].taken \subseteq Id
    /\ pub \in [Publisher -> [pc : PubPC, ev : 0..MaxEvents, extra : BOOLEAN,
                              how : Api, queued : 0..RingCap]]
    /\ ring \in Seq(Id)
    /\ reader \in [Reader -> {Off} \cup 0..Len(ring)]
    /\ normalSeq \in 0..(Every - 1)
    /\ unsent \subseteq Id
    /\ critTx \subseteq Listener /\ critRx \subseteq Listener
    /\ inbox \in [Listener -> 0..CritCap]
    /\ outcome \in Seq(SUBSET {"delivered", "dropped", "fallback"})

Occurrences(e, s) == Cardinality({i \in DOMAIN s : s[i] = e})

\* A publisher still has the event in its hands until the push succeeds.
InHand(e) == {p \in Publisher : Ev(p) = e /\ pub[p].pc \notin {"notify", "ok"}}

\* Every event handed to the bus is at every moment in exactly one place: with
\* its publisher, in a shard queue, in a worker's batch, in the ring, or among
\* those that down-sampling or a bus without subscribers let go.  The fall-back
\* from a full shard to the ring neither loses nor doubles an event (bus.rs:
\* events are not dropped on the shard path).
EachEventOnce ==
    \A e \in Id :
        LET inQueue == [s \in Shard |-> Occurrences(e, queue[s]) + Occurrences(e, worker[s].batch)]
            queued  == {s \in Shard : inQueue[s] # 0}
        IN  /\ \A s \in Shard : inQueue[s] <= 1
            /\ Cardinality(queued) + Cardinality(InHand(e)) + Occurrences(e, ring)
               + (IF e \in unsent THEN 1 ELSE 0) = 1

\* Events whose lane keeps its order reach the ring in the order in which
\* their publisher published them, however sharding, full queues and
\* down-sampling interleave with it (shard.rs: order-sensitive events stay in
\* the single stream).
OrderKept ==
    \A i, j \in DOMAIN ring :
        /\ i < j
        /\ published[ring[i]].by = published[ring[j]].by
        /\ {LaneOf(ring[i]), LaneOf(ring[j])} \cap Shard = {}
        => ring[i] < ring[j]

\* No credit leaks: what is missing from the pool was taken for an event that
\* is still in its publisher's hands or between its push and the worker's
\* release, or buys a second attempt right now.  So whenever the shards are
\* empty and no call is under way all credits are back.  (The pool may be
\* fuller than that: the worker also releases for events that took no credit.)
CreditsComeBack ==
    credits + Cardinality(charged) + Cardinality({p \in Publisher : pub[p].extra}) >= MaxCredits

\* A critical event never passes the side channel unnoticed: some listener got
\* it, or a full channel was counted, or the fallback sink was called, even
\* when the last listener has died since the event before (bus.rs,
\* send_critical_mpsc).
CriticalNoticed ==
    \A e \in Id :
        LaneOf(e) = "critical" /\ (\A p \in Publisher : Ev(p) = e => pub[p].pc \in {"sample", "admit", "send"})
        => outcome[e] # {}

Settled(e) == e \in unsent \/ \E i \in DOMAIN ring : ring[i] = e

\* Once the publishers fall silent (MaxEvents bounds them) every event that a
\* publish call accepted has been sent or let go, for good: no wake-up of a
\* worker is lost between its look at the empty queue and its wait.
EventsSettle == <>[](\A e \in Id : Settled(e))
=============================================================================
