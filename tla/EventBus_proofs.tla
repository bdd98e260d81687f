-------------------------- MODULE EventBus_proofs --------------------------
(***************************************************************************)
(* Proofs about the event bus, for any number of publishers, subscribers,  *)
(* shards and events, and any capacities.                                  *)
(*                                                                         *)
(* An event is in one place and every step moves at most one event to      *)
(* another; what a publisher has in hand is the last thing it published;   *)
(* only events of shard lanes are in the shards.  From these follow the    *)
(* order in the ring, the account of the credits and the notice of every   *)
(* critical event.                                                         *)
(***************************************************************************)
EXTENDS EventBus, TLAPS, FiniteSetTheorems, NaturalsInduction, WellFoundedInduction

PubType    == [pc : PubPC, ev : 0 .. MaxEvents, extra : BOOLEAN, how : Api, queued : 0 .. RingCap]
WorkerType == [pc : WorkerPC, batch : Seq(Id), taken : SUBSET Id]

PublishedOK ==
    /\ published \in Seq([by : Publisher, lane : Lane]) /\ Len(published) <= MaxEvents
    /\ wiring \in Wirings
FlagsOK   == sharded \in BOOLEAN /\ latch \in BOOLEAN /\ permit \in [Shard -> BOOLEAN]
CreditsOK == credits \in 0 .. MaxCredits /\ charged \subseteq Id /\ normalSeq \in 0 .. (Every - 1)
QueuesOK  == queue \in [Shard -> Seq(Id)] /\ \A s \in Shard : Len(queue[s]) <= ShardCap
WorkersOK ==
    worker \in [Shard -> WorkerType] /\ \A s \in Shard : Len(worker[s].batch) <= WorkerBatch
PubsOK    == pub \in [Publisher -> PubType]
RingOK    == ring \in Seq(Id) /\ unsent \subseteq Id
ReadersOK == reader \in [Reader -> {Off} \cup 0 .. Len(ring)]
CritOK    ==
    /\ critTx \subseteq Listener /\ critRx \subseteq Listener
    /\ inbox \in [Listener -> 0 .. CritCap]
    /\ outcome \in Seq(SUBSET {"delivered", "dropped", "fallback"})
    /\ Len(outcome) = Len(published)

\* What a publisher holds is the last event it published; the steps of the
\* shard path hold an event of a shard; an extra credit belongs to a second
\* attempt.
PubGood(p, r) ==
    /\ r.pc = "idle" => r.ev = 0
    /\ r.pc # "idle" => /\ r.ev \in Id /\ published[r.ev].by = p
                        /\ \A e \in Id : published[e].by = p => e <= r.ev
    /\ r.pc \in {"notify", "full", "retry", "ok", "err", "refused"} => LaneOf(r.ev) \in Shard
    /\ r.extra => r.pc \in {"retry", "notify", "ok", "err"}

PubsGood == \A p \in Publisher : PubGood(p, pub[p])

Types == /\ PublishedOK /\ FlagsOK /\ CreditsOK /\ QueuesOK /\ WorkersOK /\ PubsOK /\ RingOK
         /\ ReadersOK /\ CritOK

-----------------------------------------------------------------------------
(* Facts about the constants, sequences and records.                       *)

LEMMA Constants ==
    /\ ShardCap \in Nat \ {0} /\ WorkerBatch \in Nat \ {0} /\ MaxCredits \in Nat \ {0}
    /\ RingCap \in Nat \ {0} /\ CritCap \in Nat \ {0} /\ Every \in Nat \ {0}
    /\ Trigger \in Nat /\ Resume \in Nat /\ MaxEvents \in Nat /\ MaxCritical \in Nat
    /\ MaxCritical <= MaxEvents
    /\ "critical" \notin Shard /\ "ordered" \notin Shard /\ IsFiniteSet(Publisher)
BY BusAssumption

LEMMA TypesImplied == Types => BusTypeOK
<1> SUFFICES ASSUME Types PROVE BusTypeOK
  OBVIOUS
<1>1. /\ sharded \in BOOLEAN /\ latch \in BOOLEAN /\ permit \in [Shard -> BOOLEAN]
  BY DEF Types, FlagsOK
<1>2. /\ queue \in [Shard -> Seq(Id)] /\ \A s \in Shard : Len(queue[s]) <= ShardCap
  BY DEF Types, QueuesOK
<1>3. \A s \in Shard : /\ worker[s].pc \in WorkerPC
                       /\ worker[s].batch \in Seq(Id) /\ Len(worker[s].batch) <= WorkerBatch
                       /\ worker[s].taken \subseteq Id
  BY DEF Types, WorkersOK, WorkerType
<1>4. QED
  BY <1>1, <1>2, <1>3, Zenon
     DEF BusTypeOK, Types, PublishedOK, CreditsOK, PubsOK, PubType, RingOK, ReadersOK, CritOK

LEMMA IdleType ==
    /\ Idle \in PubType /\ Idle.pc = "idle" /\ Idle.ev = 0 /\ Idle.extra = FALSE
    /\ Idle.how = "one" /\ Idle.queued = 0
    /\ Poll \in WorkerType /\ Poll.pc = "poll" /\ Poll.batch = <<>> /\ Poll.taken = {}
BY Constants DEF Idle, PubType, PubPC, Api, Poll, WorkerType, WorkerPC

\* What is in a sequence, and a sequence in which nothing occurs twice.
In(e, s) == \E i \in DOMAIN s : s[i] = e
NoDup(s) == \A i, j \in DOMAIN s : s[i] = s[j] => i = j

LEMMA AppendIn ==
    ASSUME NEW T, NEW s \in Seq(T), NEW x \in T
    PROVE  /\ Append(s, x) \in Seq(T) /\ Len(Append(s, x)) = Len(s) + 1 /\ Len(s) \in Nat
           /\ \A e : In(e, Append(s, x)) <=> In(e, s) \/ e = x
           /\ NoDup(s) /\ ~ In(x, s) => NoDup(Append(s, x))
<1>1. /\ Append(s, x) \in Seq(T) /\ Len(Append(s, x)) = Len(s) + 1 /\ Len(s) \in Nat
      /\ DOMAIN s = 1 .. Len(s) /\ DOMAIN Append(s, x) = 1 .. Len(s) + 1
      /\ \A i \in 1 .. Len(s) : Append(s, x)[i] = s[i]
      /\ Append(s, x)[Len(s) + 1] = x
  OBVIOUS
<1>2. \A e : In(e, Append(s, x)) <=> In(e, s) \/ e = x
  BY <1>1 DEF In
<1>3. NoDup(s) /\ ~ In(x, s) => NoDup(Append(s, x))
  BY <1>1 DEF In, NoDup
<1>4. QED
  BY <1>1, <1>2, <1>3

LEMMA HeadTail ==
    ASSUME NEW T, NEW s \in Seq(T), s # <<>>
    PROVE  /\ Head(s) \in T /\ Tail(s) \in Seq(T) /\ Len(Tail(s)) = Len(s) - 1 /\ Len(s) \in Nat
           /\ \A e : In(e, s) <=> In(e, Tail(s)) \/ e = Head(s)
           /\ NoDup(s) => NoDup(Tail(s)) /\ ~ In(Head(s), Tail(s))
<1>1. /\ Head(s) \in T /\ Tail(s) \in Seq(T) /\ Len(Tail(s)) = Len(s) - 1 /\ Len(s) \in Nat \ {0}
      /\ DOMAIN s = 1 .. Len(s) /\ DOMAIN Tail(s) = 1 .. Len(s) - 1
      /\ \A i \in 1 .. Len(s) - 1 : Tail(s)[i] = s[i + 1]
      /\ Head(s) = s[1]
  OBVIOUS
<1>2. \A i \in 2 .. Len(s) : i - 1 \in 1 .. Len(s) - 1 /\ Tail(s)[i - 1] = s[i]
  BY <1>1
<1>3. \A e : In(e, s) <=> In(e, Tail(s)) \/ e = Head(s)
  <2> TAKE e
  <2>1. ASSUME In(e, s) PROVE In(e, Tail(s)) \/ e = Head(s)
    <3>1. PICK i \in 1 .. Len(s) : s[i] = e
      BY <1>1, <2>1 DEF In
    <3>2. CASE i = 1
      BY <1>1, <3>1, <3>2
    <3>3. CASE i # 1
      <4>1. i - 1 \in DOMAIN Tail(s) /\ Tail(s)[i - 1] = e
        BY <1>1, <1>2, <3>1, <3>3
      <4>2. QED
        BY <4>1 DEF In
    <3>4. QED
      BY <3>2, <3>3
  <2>2. ASSUME In(e, Tail(s)) PROVE In(e, s)
    <3>1. PICK i \in 1 .. Len(s) - 1 : Tail(s)[i] = e
      BY <1>1, <2>2 DEF In
    <3>2. i + 1 \in DOMAIN s /\ s[i + 1] = e
      BY <1>1, <3>1
    <3>3. QED
      BY <3>2 DEF In
  <2>3. In(Head(s), s)
    BY <1>1 DEF In
  <2>4. QED
    BY <2>1, <2>2, <2>3
<1>4. NoDup(s) => NoDup(Tail(s)) /\ ~ In(Head(s), Tail(s))
  BY <1>1 DEF In, NoDup
<1>5. QED
  BY <1>1, <1>3, <1>4

\* A set of natural numbers has a least one.
LEMMA LeastNumber ==
    ASSUME NEW M, M \subseteq Nat, M # {}
    PROVE  \E n \in M : \A m \in M : n <= m
<1>1. IsWellFoundedOn(OpToRel(<, Nat), Nat)
  BY NatLessThanWellFounded
<1>2. PICK n \in M : \A m \in M : ~ (<<m, n>> \in OpToRel(<, Nat))
  BY <1>1, WFMin
<1>3. \A m \in M : ~ (m < n)
  <2> SUFFICES ASSUME NEW m \in M, m < n PROVE FALSE
    OBVIOUS
  <2>1. <<m, n>> \in Nat \X Nat /\ <<m, n>>[1] < <<m, n>>[2]
    OBVIOUS
  <2>2. <<m, n>> \in OpToRel(<, Nat)
    BY <2>1, Zenon DEF OpToRel
  <2>3. QED
    BY <1>2, <2>2
<1>4. QED
  BY <1>3

LEMMA ReplaceIn ==
    ASSUME NEW T, NEW s \in Seq(T), NEW x \in T, NEW i \in 1 .. Len(s)
    PROVE  /\ [s EXCEPT ![i] = x] \in Seq(T) /\ Len([s EXCEPT ![i] = x]) = Len(s)
           /\ [s EXCEPT ![i] = x][i] = x
           /\ \A j \in 1 .. Len(s) : j # i => [s EXCEPT ![i] = x][j] = s[j]
OBVIOUS

LEMMA SeqGrows ==
    ASSUME NEW S, NEW T, S \subseteq T, NEW s \in Seq(S)
    PROVE  s \in Seq(T)
OBVIOUS

-----------------------------------------------------------------------------
(* The records of publishers and workers.                                  *)

\* What a step of a publisher does to its own record.
PubStep(p, r) == r \in PubType /\ pub' = [pub EXCEPT ![p] = r]

LEMMA GotoStep ==
    ASSUME PubsOK, NEW p \in Publisher, NEW pc \in PubPC, Goto(p, pc)
    PROVE  \E r : /\ PubStep(p, r) /\ r.pc = pc /\ r.ev = pub[p].ev /\ r.extra = pub[p].extra
                  /\ r.how = pub[p].how
<1> DEFINE r == [pub[p] EXCEPT !.pc = pc]
<1>1. /\ r \in PubType /\ r.pc = pc /\ r.ev = pub[p].ev /\ r.extra = pub[p].extra
      /\ r.how = pub[p].how
  BY DEF PubsOK, PubType
<1>2. pub' = [pub EXCEPT ![p] = r]
  BY DEF Goto, PubsOK
<1> HIDE DEF r
<1>3. QED
  BY <1>1, <1>2 DEF PubStep

LEMMA DoneStep ==
    ASSUME NEW p \in Publisher, Done(p)
    PROVE  PubStep(p, Idle)
BY IdleType DEF Done, PubStep

\* The publishers after the step of one of them.
LEMMA PubOthers ==
    ASSUME PubsOK, NEW p \in Publisher, NEW r, PubStep(p, r)
    PROVE  PubsOK' /\ \A q \in Publisher : pub'[q] = IF q = p THEN r ELSE pub[q]
BY DEF PubsOK, PubStep

LEMMA PubsKeep ==
    ASSUME PubsOK, PubsGood, NEW p \in Publisher, NEW r, PubStep(p, r), PubGood(p, r),
           published' = published
    PROVE  PubsOK' /\ PubsGood'
<1>1. PubsOK' /\ \A q \in Publisher : pub'[q] = IF q = p THEN r ELSE pub[q]
  BY PubOthers
<1>2. \A q \in Publisher : PubGood(q, pub'[q])
  BY <1>1 DEF PubsGood
<1>3. QED
  BY <1>1, <1>2 DEF PubsGood, PubGood, Id, LaneOf

\* Id grows with every event.
LEMMA IdFacts ==
    ASSUME PublishedOK
    PROVE  /\ Len(published) \in Nat /\ Id = 1 .. Len(published) /\ Id \subseteq 1 .. MaxEvents
           /\ DOMAIN published = Id /\ 0 \notin Id
           /\ \A e \in Id : published[e].by \in Publisher /\ LaneOf(e) \in Lane
<1>1. /\ published \in Seq([by : Publisher, lane : Lane]) /\ Len(published) <= MaxEvents
      /\ MaxEvents \in Nat
  BY Constants DEF PublishedOK
<1>2. /\ Len(published) \in Nat /\ DOMAIN published = 1 .. Len(published)
      /\ \A e \in 1 .. Len(published) : published[e] \in [by : Publisher, lane : Lane]
  <2> DEFINE T == [by : Publisher, lane : Lane]
  <2>1. published \in Seq(T)
    BY <1>1
  <2> HIDE DEF T
  <2>2. /\ Len(published) \in Nat /\ DOMAIN published = 1 .. Len(published)
        /\ \A e \in 1 .. Len(published) : published[e] \in T
    BY <2>1
  <2>3. QED
    BY <2>2 DEF T
<1>3. Id = 1 .. Len(published) /\ Id \subseteq 1 .. MaxEvents /\ 0 \notin Id
  BY <1>1, <1>2 DEF Id
<1>4. \A e \in Id : published[e].by \in Publisher /\ LaneOf(e) \in Lane
  BY <1>2, <1>3 DEF LaneOf
<1>5. QED
  BY <1>2, <1>3, <1>4

-----------------------------------------------------------------------------
(* Every step keeps the types.                                             *)

\* A part of the state that a step does not change keeps its type.
LEMMA KeepParts ==
    ASSUME Types, published' = published
    PROVE  /\ Id' = Id
           /\ wiring' = wiring => PublishedOK'
           /\ UNCHANGED <<sharded, latch, permit>> => FlagsOK'
           /\ UNCHANGED <<credits, charged, normalSeq>> => CreditsOK'
           /\ queue' = queue => QueuesOK'
           /\ worker' = worker => WorkersOK'
           /\ pub' = pub => PubsOK'
           /\ UNCHANGED <<ring, unsent>> => RingOK'
           /\ UNCHANGED <<ring, reader>> => ReadersOK'
           /\ UNCHANGED <<critTx, critRx, inbox, outcome>> => CritOK'
<1>1. Id' = Id
  BY DEF Id
<1>2. wiring' = wiring => PublishedOK'
  BY DEF Types, PublishedOK
<1>3. UNCHANGED <<sharded, latch, permit>> => FlagsOK'
  BY DEF Types, FlagsOK
<1>4. UNCHANGED <<credits, charged, normalSeq>> => CreditsOK'
  BY <1>1 DEF Types, CreditsOK
<1>5. queue' = queue => QueuesOK'
  BY <1>1 DEF Types, QueuesOK
<1>6. worker' = worker => WorkersOK'
  BY <1>1 DEF Types, WorkersOK, WorkerType
<1>7. pub' = pub => PubsOK'
  BY DEF Types, PubsOK
<1>8. UNCHANGED <<ring, unsent>> => RingOK'
  BY <1>1 DEF Types, RingOK
<1>9. UNCHANGED <<ring, reader>> => ReadersOK'
  BY DEF Types, ReadersOK
<1>10. UNCHANGED <<critTx, critRx, inbox, outcome>> => CritOK'
  BY DEF Types, CritOK
<1>11. QED
  BY <1>1, <1>2, <1>3, <1>4, <1>5, <1>6, <1>7, <1>8, <1>9, <1>10

\* A release never exceeds the pool.
LEMMA ReleasedType ==
    ASSUME CreditsOK, NEW n \in Nat
    PROVE  Released(n) \in 0 .. MaxCredits /\ (Released(n) = MaxCredits \/ Released(n) = credits + n)
BY Constants DEF CreditsOK, Released

\* What the ring holds for its slowest reader is at most its capacity.
LEMMA SenderLenType ==
    ASSUME RingOK, ReadersOK
    PROVE  SenderLen \in 0 .. RingCap
<1>1. \A r \in Reader : Behind(r) \in 0 .. RingCap
  <2> TAKE r \in Reader
  <2>1. reader[r] = Off \/ reader[r] \in 0 .. Len(ring)
    BY DEF ReadersOK
  <2>2. Len(ring) \in Nat /\ RingCap \in Nat
    BY Constants DEF RingOK
  <2>3. QED
    BY <2>1, <2>2 DEF Behind, Off
<1> DEFINE M == {n \in 0 .. RingCap : \A r \in Reader : Behind(r) <= n}
<1>2. M \subseteq Nat /\ RingCap \in M
  BY <1>1, Constants
<1>3. PICK n \in M : \A m \in M : n <= m
  BY <1>2, LeastNumber
<1>4. n = 0 \/ \E r \in Reader : Behind(r) = n
  <2> SUFFICES ASSUME n # 0, \A r \in Reader : Behind(r) # n PROVE FALSE
    OBVIOUS
  <2>1. n - 1 \in M
    BY <1>1, <1>3, Constants
  <2>2. QED
    BY <1>3, <2>1, Constants
<1>5. \E m \in 0 .. RingCap : /\ \A r \in Reader : Behind(r) <= m
                              /\ m = 0 \/ \E r \in Reader : Behind(r) = m
  BY <1>3, <1>4
<1>6. QED
  BY <1>5, Zenon DEF SenderLen

\* The ring takes an event, or lets it go.
LEMMA RingSendTypes ==
    ASSUME Types, published' = published, NEW e \in Id, RingSend(e), reader' = reader
    PROVE  RingOK' /\ ReadersOK'
<1>1. Id' = Id
  BY DEF Id
<1>2. CASE ring' = Append(ring, e) /\ unsent' = unsent
  <2>1. ring \in Seq(Id) /\ unsent \subseteq Id /\ reader \in [Reader -> {Off} \cup 0 .. Len(ring)]
    BY DEF Types, RingOK, ReadersOK
  <2>2. Append(ring, e) \in Seq(Id) /\ Len(Append(ring, e)) = Len(ring) + 1 /\ Len(ring) \in Nat
    BY <2>1, AppendIn
  <2>3. {Off} \cup 0 .. Len(ring) \subseteq {Off} \cup 0 .. Len(ring')
    BY <1>2, <2>2
  <2>4. reader' \in [Reader -> {Off} \cup 0 .. Len(ring')]
    BY <2>1, <2>3
  <2>5. QED
    BY <1>1, <1>2, <2>1, <2>2, <2>4 DEF RingOK, ReadersOK
<1>3. CASE ring' = ring /\ unsent' = unsent \cup {e}
  BY <1>1, <1>3 DEF Types, RingOK, ReadersOK
<1>4. QED
  BY <1>2, <1>3 DEF RingSend

LEMMA TypesInit == BusInit => Types
<1> SUFFICES ASSUME BusInit PROVE Types
  OBVIOUS
<1> USE DEF BusInit
<1>1. PublishedOK /\ CreditsOK /\ RingOK /\ ReadersOK /\ CritOK
  BY Constants DEF PublishedOK, CreditsOK, RingOK, ReadersOK, CritOK, Id
<1>2. FlagsOK
  BY DEF FlagsOK
<1>3. QueuesOK
  BY Constants DEF QueuesOK
<1>4. WorkersOK
  BY Constants, IdleType DEF WorkersOK
<1>5. PubsOK
  BY IdleType DEF PubsOK
<1>6. QED
  BY <1>1, <1>2, <1>3, <1>4, <1>5 DEF Types

\* The publisher's own steps: its record keeps its type and its invariant.
LEMMA PublisherGood ==
    ASSUME Types, PubsGood, NEW p \in Publisher, PublisherStep(p)
    PROVE  published' = published /\ wiring' = wiring /\ PubsOK' /\ PubsGood'
<1>0. /\ PubsOK /\ PubGood(p, pub[p]) /\ pub[p] \in PubType /\ pub[p].extra \in BOOLEAN
  BY DEF Types, PubsOK, PubsGood, PubType
<1> USE DEF PubPC
<1>1. CASE Bypass(p)
  <2>1. published' = published /\ wiring' = wiring /\ pub[p].pc = "route" /\ Goto(p, "direct")
    BY <1>1 DEF Bypass, At, dsVars
  <2>2. PICK r : PubStep(p, r) /\ r.pc = "direct" /\ r.ev = pub[p].ev /\ r.extra = pub[p].extra
    BY <1>0, <2>1, GotoStep
  <2>3. PubGood(p, r)
    BY <1>0, <2>1, <2>2 DEF PubGood
  <2>4. QED
    BY <1>0, <2>1, <2>2, <2>3, PubsKeep
<1>2. CASE Push(p)
  <2>1. /\ published' = published /\ wiring' = wiring /\ Goto(p, "notify")
        /\ pub[p].pc = "retry" \/ (pub[p].pc = "route" /\ LaneOf(pub[p].ev) \in Shard)
    BY <1>2 DEF Push, At, Ev, dsVars, Shardable, Unordered
  <2>2. PICK r : PubStep(p, r) /\ r.pc = "notify" /\ r.ev = pub[p].ev /\ r.extra = pub[p].extra
    BY <1>0, <2>1, GotoStep
  <2>3. PubGood(p, r)
    BY <1>0, <2>1, <2>2 DEF PubGood
  <2>4. QED
    BY <1>0, <2>1, <2>2, <2>3, PubsKeep
<1>3. ASSUME Done(p), published' = published, wiring' = wiring
      PROVE  published' = published /\ wiring' = wiring /\ PubsOK' /\ PubsGood'
  <2>1. PubGood(p, Idle)
    BY IdleType DEF PubGood
  <2>2. QED
    BY <1>0, <1>3, <2>1, DoneStep, PubsKeep
<1>4. CASE NotifyWorker(p)
  <2>1. published' = published /\ wiring' = wiring /\ pub[p].pc = "notify" /\ AfterNotify(p)
    BY <1>4 DEF NotifyWorker, At, dsVars
  <2>2. CASE Goto(p, "ok")
    <3>1. PICK r : PubStep(p, r) /\ r.pc = "ok" /\ r.ev = pub[p].ev /\ r.extra = pub[p].extra
      BY <1>0, <2>2, GotoStep
    <3>2. PubGood(p, r)
      BY <1>0, <2>1, <3>1 DEF PubGood
    <3>3. QED
      BY <1>0, <2>1, <3>1, <3>2, PubsKeep
  <2>3. QED
    BY <1>3, <2>1, <2>2 DEF AfterNotify
<1>5. CASE Full(p)
  <2>1. /\ published' = published /\ wiring' = wiring
        /\ \/ pub[p].pc = "retry" /\ Goto(p, "err")
           \/ pub[p].pc = "route" /\ LaneOf(pub[p].ev) \in Shard /\ Goto(p, "full")
    BY <1>5 DEF Full, At, Ev, dsVars, Shardable, Unordered
  <2>2. PICK r : /\ PubStep(p, r) /\ r.ev = pub[p].ev /\ r.extra = pub[p].extra
                 /\ \/ pub[p].pc = "retry" /\ r.pc = "err"
                    \/ pub[p].pc = "route" /\ LaneOf(pub[p].ev) \in Shard /\ r.pc = "full"
    BY <1>0, <2>1, GotoStep
  <2>3. PubGood(p, r)
    BY <1>0, <2>1, <2>2 DEF PubGood
  <2>4. QED
    BY <1>0, <2>1, <2>2, <2>3, PubsKeep
<1>6. CASE BuyRetry(p)
  <2> DEFINE r == [pub[p] EXCEPT !.pc = "retry", !.extra = TRUE]
  <2>1. published' = published /\ wiring' = wiring /\ pub[p].pc = "full"
    BY <1>6 DEF BuyRetry, At, dsVars
  <2>2. CASE pub' = [pub EXCEPT ![p].pc = "retry", ![p].extra = TRUE]
    <3>1. r \in PubType /\ r.pc = "retry" /\ r.ev = pub[p].ev
      BY <1>0 DEF PubType
    <3>2. pub' = [pub EXCEPT ![p] = r]
      BY <1>0, <2>2 DEF PubsOK
    <3> HIDE DEF r
    <3>3. PubGood(p, r)
      BY <1>0, <2>1, <3>1 DEF PubGood
    <3>4. QED
      BY <1>0, <2>1, <3>1, <3>2, <3>3, PubsKeep DEF PubStep
  <2>3. CASE Goto(p, "refused")
    <3>1. PICK q : PubStep(p, q) /\ q.pc = "refused" /\ q.ev = pub[p].ev /\ q.extra = pub[p].extra
      BY <1>0, <2>3, GotoStep
    <3>2. PubGood(p, q)
      BY <1>0, <2>1, <3>1 DEF PubGood
    <3>3. QED
      BY <1>0, <2>1, <3>1, <3>2, PubsKeep
  <2>4. QED
    BY <1>6, <2>2, <2>3 DEF BuyRetry
<1>7. CASE ReturnExtra(p)
  <2> DEFINE r == [pub[p] EXCEPT !.pc = "refused", !.extra = FALSE]
  <2>1. published' = published /\ wiring' = wiring /\ pub[p].pc \in {"ok", "err"}
    BY <1>7 DEF ReturnExtra, At, dsVars
  <2>2. CASE pub' = [pub EXCEPT ![p].pc = "refused", ![p].extra = FALSE]
    <3>1. r \in PubType /\ r.pc = "refused" /\ r.ev = pub[p].ev /\ r.extra = FALSE
      BY <1>0 DEF PubType
    <3>2. pub' = [pub EXCEPT ![p] = r]
      BY <1>0, <2>2 DEF PubsOK
    <3> HIDE DEF r
    <3>3. PubGood(p, r)
      BY <1>0, <2>1, <3>1 DEF PubGood
    <3>4. QED
      BY <1>0, <2>1, <3>1, <3>2, <3>3, PubsKeep DEF PubStep
  <2>3. QED
    BY <1>3, <1>7, <2>1, <2>2 DEF ReturnExtra
<1>8. ASSUME pub[p].pc \in {"refused", "direct", "admit"}, published' = published,
             wiring' = wiring, NEW pc \in {"direct", "sample", "send"}, Goto(p, pc)
      PROVE  published' = published /\ wiring' = wiring /\ PubsOK' /\ PubsGood'
  <2>1. PICK r : PubStep(p, r) /\ r.pc = pc /\ r.ev = pub[p].ev /\ r.extra = pub[p].extra
    BY <1>0, <1>8, GotoStep
  <2>2. PubGood(p, r)
    BY <1>0, <1>8, <2>1 DEF PubGood
  <2>3. QED
    BY <1>0, <1>8, <2>1, <2>2, PubsKeep
<1>9. CASE Refused(p)
  BY <1>8, <1>9 DEF Refused, At, dsVars
<1>10. CASE Direct(p)
  BY <1>8, <1>10 DEF Direct, At, dsVars
<1>11. CASE Sample(p)
  <2> DEFINE r == [pub[p] EXCEPT !.pc = "admit", !.queued = SenderLen]
  <2>1. /\ published' = published /\ wiring' = wiring /\ pub[p].pc = "sample"
        /\ pub' = [pub EXCEPT ![p].pc = "admit", ![p].queued = SenderLen]
    BY <1>11 DEF Sample, At, dsVars
  <2>2. SenderLen \in 0 .. RingCap
    BY SenderLenType DEF Types
  <2>3. r \in PubType /\ r.pc = "admit" /\ r.ev = pub[p].ev /\ r.extra = pub[p].extra
    BY <1>0, <2>2 DEF PubType
  <2>4. pub' = [pub EXCEPT ![p] = r]
    BY <1>0, <2>1 DEF PubsOK
  <2> HIDE DEF r
  <2>5. PubGood(p, r)
    BY <1>0, <2>1, <2>3 DEF PubGood
  <2>6. QED
    BY <1>0, <2>1, <2>3, <2>4, <2>5, PubsKeep DEF PubStep
<1>12. CASE Admit(p)
  BY <1>3, <1>8, <1>12 DEF Admit, At, dsVars
<1>13. CASE Send(p)
  BY <1>3, <1>13 DEF Send, At, dsVars
<1>14. QED
  BY <1>1, <1>2, <1>4, <1>5, <1>6, <1>7, <1>9, <1>10, <1>11, <1>12, <1>13 DEF PublisherStep

\* A publisher changes what it has at hand: credits, its shard queue, the side
\* channel, the latch or the ring.
LEMMA PublisherTypes ==
    ASSUME Types, PubsGood, NEW p \in Publisher, PublisherStep(p)
    PROVE  Types' /\ PubsGood'
<1>0. published' = published /\ wiring' = wiring /\ PubsOK' /\ PubsGood' /\ PublishedOK'
  BY PublisherGood, KeepParts
<1>1. /\ PublishedOK /\ FlagsOK /\ CreditsOK /\ QueuesOK /\ WorkersOK /\ PubsOK /\ RingOK
      /\ ReadersOK /\ CritOK
  BY DEF Types
<1>2. pub[p].pc # "idle" => Ev(p) \in Id
  BY DEF PubsGood, PubGood, Ev
<1>3. Id' = Id
  BY <1>0 DEF Id
<1> USE DEF shardVars, ringVars, dsVars, critVars
<1>4. CASE Bypass(p) \/ Full(p) \/ Sample(p)
  <2>1. UNCHANGED <<sharded, credits, charged, queue, permit, worker, ring, reader, unsent,
                    latch, normalSeq, critTx, critRx, inbox, outcome>>
    BY <1>4 DEF Bypass, Full, Sample
  <2>2. QED
    BY <1>0, <2>1, KeepParts DEF Types
<1>5. CASE Push(p)
  <2> DEFINE s == ShardOf(Ev(p))
  <2>1. /\ UNCHANGED <<sharded, credits, charged, permit, worker, ring, reader, unsent, latch,
                       normalSeq, critTx, critRx, inbox, outcome>>
        /\ queue' = [queue EXCEPT ![s] = Append(@, Ev(p))] /\ Len(queue[s]) < ShardCap
    BY <1>5 DEF Push, Room
  <2>2. Ev(p) \in Id /\ s \in Shard
    BY <1>2, <1>5 DEF Push, At, Ev, Shardable, Unordered, ShardOf, PubsGood, PubGood
  <2> HIDE DEF s
  <2>3. queue[s] \in Seq(Id)
    BY <1>1, <2>2 DEF QueuesOK
  <2>4. Append(queue[s], Ev(p)) \in Seq(Id) /\ Len(Append(queue[s], Ev(p))) <= ShardCap
    BY <2>1, <2>2, <2>3, AppendIn, Constants
  <2>5. QueuesOK'
    BY <1>1, <1>3, <2>1, <2>2, <2>4 DEF QueuesOK
  <2>6. QED
    BY <1>0, <2>1, <2>5, KeepParts DEF Types
<1>6. CASE NotifyWorker(p)
  <2>1. /\ UNCHANGED <<sharded, credits, charged, queue, worker, ring, reader, unsent, latch,
                       normalSeq, critTx, critRx, inbox, outcome>>
        /\ permit' = [permit EXCEPT ![ShardOf(Ev(p))] = TRUE]
    BY <1>6 DEF NotifyWorker, Wake
  <2>2. FlagsOK'
    <3>1. permit' \in [Shard -> BOOLEAN]
      BY <1>1, <2>1 DEF FlagsOK
    <3>2. QED
      BY <1>1, <2>1, <3>1 DEF FlagsOK
  <2>3. QED
    BY <1>0, <2>1, <2>2, KeepParts DEF Types
<1>7. CASE BuyRetry(p) \/ ReturnExtra(p) \/ Refused(p)
  <2>1. UNCHANGED <<sharded, queue, permit, worker, ring, reader, unsent, latch,
                    normalSeq, critTx, critRx, inbox, outcome>>
    BY <1>7 DEF BuyRetry, ReturnExtra, Refused
  <2>2. credits' \in 0 .. MaxCredits
    BY <1>1, <1>7, ReleasedType, Constants DEF BuyRetry, ReturnExtra, Refused, CreditsOK
  <2>3. charged' \subseteq charged
    BY <1>7 DEF BuyRetry, ReturnExtra, Refused
  <2>4. CreditsOK'
    BY <1>1, <1>3, <2>1, <2>2, <2>3 DEF CreditsOK
  <2>5. QED
    BY <1>0, <2>1, <2>4, KeepParts DEF Types
<1>8. CASE Direct(p)
  <2>1. UNCHANGED <<sharded, credits, charged, queue, permit, worker, ring, reader, unsent, latch,
                    normalSeq, critRx>>
    BY <1>8 DEF Direct
  <2>2. CritOK'
    <3>1. CASE UNCHANGED <<critTx, inbox, outcome>>
      BY <1>0, <2>1, <3>1, KeepParts
    <3>2. CASE SendCritical(Ev(p))
      <4> DEFINE kept == critTx \cap critRx
                 took == {l \in kept : inbox[l] < CritCap}
                 result == (IF took # {} THEN {"delivered"} ELSE {})
                           \cup (IF kept # took THEN {"dropped"} ELSE {})
                           \cup (IF NobodyListed(kept, took) THEN {"fallback"} ELSE {})
      <4>1. /\ critTx' = kept
            /\ inbox' = [l \in Listener |-> IF l \in took THEN inbox[l] + 1 ELSE inbox[l]]
            /\ outcome' = [outcome EXCEPT ![Ev(p)] = result]
        BY <3>2 DEF SendCritical
      <4>2. result \in SUBSET {"delivered", "dropped", "fallback"}
        OBVIOUS
      <4>3. critTx' \subseteq Listener
        BY <1>1, <4>1 DEF CritOK
      <4>4. \A l \in Listener : inbox'[l] \in 0 .. CritCap
        BY <1>1, <4>1, Constants DEF CritOK
      <4>5. inbox' \in [Listener -> 0 .. CritCap]
        BY <4>1, <4>4
      <4> HIDE DEF result
      <4> DEFINE T == SUBSET {"delivered", "dropped", "fallback"}
      <4>6. outcome \in Seq(T) /\ result \in T /\ Len(outcome) = Len(published)
        BY <1>1, <4>2 DEF CritOK
      <4> HIDE DEF T
      <4>7. outcome' \in Seq(T) /\ Len(outcome') = Len(published)
        BY <1>2, <1>8, <4>1, <4>6, ReplaceIn DEF Direct, At, Id
      <4>8. QED
        BY <1>0, <1>1, <2>1, <4>3, <4>5, <4>7 DEF CritOK, T
    <3>3. QED
      BY <1>8, <3>1, <3>2 DEF Direct
  <2>3. QED
    BY <1>0, <2>1, <2>2, KeepParts DEF Types
<1>9. CASE Admit(p)
  <2>1. /\ UNCHANGED <<sharded, credits, charged, queue, permit, worker, ring, reader,
                       critTx, critRx, inbox, outcome>>
        /\ latch' = LatchNext(pub[p].queued)
    BY <1>9 DEF Admit
  <2>2. FlagsOK'
    <3>1. latch' \in BOOLEAN
      <4>1. pub[p].queued \in Nat /\ Resume \in Nat /\ Trigger \in Nat /\ latch \in BOOLEAN
        BY <1>1, Constants DEF PubsOK, PubType, FlagsOK
      <4>2. CASE latch
        BY <2>1, <4>1, <4>2 DEF LatchNext
      <4>3. CASE ~ latch
        BY <2>1, <4>1, <4>3 DEF LatchNext
      <4>4. QED
        BY <4>2, <4>3
    <3>2. QED
      BY <1>1, <2>1, <3>1 DEF FlagsOK
  <2>3. normalSeq' = normalSeq \/ normalSeq' = (normalSeq + 1) % Every
    BY <1>9 DEF Admit
  <2>4. normalSeq' \in 0 .. (Every - 1)
    BY <1>1, <2>3, Constants DEF CreditsOK
  <2>5. CreditsOK'
    BY <1>1, <1>3, <2>1, <2>4 DEF CreditsOK
  <2>6. Ev(p) \in Id
    BY <1>2, <1>9 DEF Admit, At
  <2>7. RingOK'
    BY <1>1, <1>3, <1>9, <2>1, <2>6 DEF Admit, RingOK
  <2>8. QED
    BY <1>0, <2>1, <2>2, <2>5, <2>7, KeepParts DEF Types
<1>10. CASE Send(p)
  <2>1. /\ UNCHANGED <<sharded, credits, charged, queue, permit, worker, reader, latch,
                       normalSeq, critTx, critRx, inbox, outcome>>
        /\ RingSend(Ev(p)) /\ Ev(p) \in Id
    BY <1>2, <1>10 DEF Send, At
  <2>2. RingOK' /\ ReadersOK'
    BY <1>0, <2>1, RingSendTypes
  <2>3. QED
    BY <1>0, <2>1, <2>2, KeepParts DEF Types
<1>11. QED
  BY <1>4, <1>5, <1>6, <1>7, <1>8, <1>9, <1>10 DEF PublisherStep

\* A worker takes events from its queue to its batch, and from there to the ring.
WorkerMove(s, w) == w \in WorkerType /\ worker' = [worker EXCEPT ![s] = w]

LEMMA WorkersKeep ==
    ASSUME Types, published' = published, NEW s \in Shard, NEW w, WorkerMove(s, w),
           Len(w.batch) <= WorkerBatch
    PROVE  WorkersOK' /\ \A t \in Shard : worker'[t] = IF t = s THEN w ELSE worker[t]
BY DEF Types, WorkersOK, WorkerMove, WorkerType, Id

LEMMA WorkerPcStep ==
    ASSUME Types, published' = published, NEW s \in Shard, NEW pc \in WorkerPC,
           worker' = [worker EXCEPT ![s].pc = pc]
    PROVE  /\ WorkersOK'
           /\ \A t \in Shard : /\ worker'[t].batch = worker[t].batch
                               /\ worker'[t].taken = worker[t].taken
           /\ worker'[s].pc = pc
<1> DEFINE w == [worker[s] EXCEPT !.pc = pc]
<1>1. worker[s] \in WorkerType /\ Len(worker[s].batch) <= WorkerBatch
  BY DEF Types, WorkersOK
<1>2. w \in WorkerType /\ w.pc = pc /\ w.batch = worker[s].batch /\ w.taken = worker[s].taken
  BY <1>1 DEF WorkerType
<1>3. worker' = [worker EXCEPT ![s] = w]
  BY DEF Types, WorkersOK
<1> HIDE DEF w
<1>4. WorkersOK' /\ \A t \in Shard : worker'[t] = IF t = s THEN w ELSE worker[t]
  BY <1>1, <1>2, <1>3, WorkersKeep DEF WorkerMove
<1>5. QED
  BY <1>2, <1>4

\* One pop: the batch grows by the head of the queue.
LEMMA PopStep ==
    ASSUME Types, NEW s \in Shard, Pop(s)
    PROVE  /\ UNCHANGED <<published, sharded, credits, charged, permit, pub, ring, reader, unsent,
                          wiring, latch, normalSeq, critTx, critRx, inbox, outcome>>
           /\ queue[s] # <<>> /\ queue[s] \in Seq(Id) /\ worker[s].batch \in Seq(Id)
           /\ Head(queue[s]) \in Id
           /\ QueuesOK' /\ WorkersOK'
           /\ \A t \in Shard : queue'[t] = IF t = s THEN Tail(queue[s]) ELSE queue[t]
           /\ \A t \in Shard : worker'[t].batch = IF t = s THEN Append(worker[s].batch, Head(queue[s]))
                                                  ELSE worker[t].batch
<1> DEFINE e == Head(queue[s])
           b == Append(worker[s].batch, e)
           w == [worker[s] EXCEPT !.batch = b, !.taken = @ \cup {e}]
<1>1. /\ UNCHANGED <<published, sharded, credits, charged, permit, pub, ring, reader, unsent,
                     wiring, latch, normalSeq, critTx, critRx, inbox, outcome>>
      /\ queue[s] # <<>> /\ Len(worker[s].batch) < WorkerBatch
      /\ worker' = [worker EXCEPT ![s].batch = Append(@, e), ![s].taken = @ \cup {e}]
      /\ queue' = [queue EXCEPT ![s] = Tail(@)]
  BY DEF Pop, ringVars, dsVars, critVars
<1>2. /\ queue \in [Shard -> Seq(Id)] /\ queue[s] \in Seq(Id) /\ worker[s] \in WorkerType
      /\ worker[s].batch \in Seq(Id) /\ worker[s].taken \subseteq Id
      /\ worker \in [Shard -> WorkerType] /\ Len(queue[s]) <= ShardCap
  BY DEF Types, QueuesOK, WorkersOK, WorkerType
<1>3. /\ e \in Id /\ Tail(queue[s]) \in Seq(Id) /\ Len(Tail(queue[s])) = Len(queue[s]) - 1
      /\ Len(queue[s]) \in Nat
  BY <1>1, <1>2, HeadTail
<1> HIDE DEF e
<1>4. b \in Seq(Id) /\ Len(b) = Len(worker[s].batch) + 1 /\ Len(worker[s].batch) \in Nat
  BY <1>2, <1>3, AppendIn
<1>5. Id' = Id
  BY <1>1 DEF Id
<1>6. \A t \in Shard : queue'[t] = IF t = s THEN Tail(queue[s]) ELSE queue[t]
  BY <1>1, <1>2
<1>7. QueuesOK'
  <2>1. queue' \in [Shard -> Seq(Id)]
    BY <1>1, <1>2, <1>3
  <2>2. Len(Tail(queue[s])) <= ShardCap
    BY <1>2, <1>3, Constants
  <2>3. QED
    BY <1>5, <1>6, <2>1, <2>2 DEF Types, QueuesOK
<1>8. worker' = [worker EXCEPT ![s] = w]
  BY <1>1, <1>2
<1> HIDE DEF b
<1>9. w \in WorkerType /\ w.batch = b
  BY <1>2, <1>3, <1>4 DEF WorkerType
<1> HIDE DEF w
<1>10. Len(b) <= WorkerBatch
  BY <1>1, <1>4, Constants, SMTT(30)
<1>11. WorkersOK' /\ \A t \in Shard : worker'[t] = IF t = s THEN w ELSE worker[t]
  BY <1>1, <1>8, <1>9, <1>10, WorkersKeep DEF WorkerMove
<1>12. QED
  BY <1>1, <1>2, <1>3, <1>6, <1>7, <1>9, <1>11 DEF b, e

\* One event of the batch goes to the ring.
LEMMA MergeStep ==
    ASSUME Types, NEW s \in Shard, Merge(s)
    PROVE  /\ UNCHANGED <<published, sharded, credits, charged, queue, permit, pub, reader,
                          wiring, latch, normalSeq, critTx, critRx, inbox, outcome>>
           /\ worker[s].batch # <<>> /\ worker[s].batch \in Seq(Id)
           /\ Head(worker[s].batch) \in Id /\ RingSend(Head(worker[s].batch))
           /\ WorkersOK'
           /\ \A t \in Shard : worker'[t].batch = IF t = s THEN Tail(worker[s].batch)
                                                  ELSE worker[t].batch
<1> DEFINE b == Tail(worker[s].batch)
           w == [worker[s] EXCEPT !.batch = b]
<1>1. /\ UNCHANGED <<published, sharded, credits, charged, queue, permit, pub, reader,
                     wiring, latch, normalSeq, critTx, critRx, inbox, outcome>>
      /\ worker[s].batch # <<>> /\ RingSend(Head(worker[s].batch))
      /\ worker' = [worker EXCEPT ![s].batch = Tail(@)]
  BY DEF Merge, dsVars, critVars
<1>2. /\ worker[s] \in WorkerType /\ worker[s].batch \in Seq(Id)
      /\ worker \in [Shard -> WorkerType] /\ Len(worker[s].batch) <= WorkerBatch
  BY DEF Types, WorkersOK, WorkerType
<1>3. /\ Head(worker[s].batch) \in Id /\ b \in Seq(Id) /\ Len(b) = Len(worker[s].batch) - 1
      /\ Len(worker[s].batch) \in Nat
  BY <1>1, <1>2, HeadTail
<1>4. worker' = [worker EXCEPT ![s] = w]
  BY <1>1, <1>2
<1> HIDE DEF b
<1>5. w \in WorkerType /\ w.batch = b
  BY <1>2, <1>3 DEF WorkerType
<1> HIDE DEF w
<1>6. Len(b) <= WorkerBatch
  BY <1>2, <1>3, Constants
<1>7. WorkersOK' /\ \A t \in Shard : worker'[t] = IF t = s THEN w ELSE worker[t]
  BY <1>1, <1>4, <1>5, <1>6, WorkersKeep DEF WorkerMove
<1>8. QED
  BY <1>1, <1>2, <1>3, <1>5, <1>7 DEF b

\* The batch is done: the worker starts over.
LEMMA ReleaseStep ==
    ASSUME Types, NEW s \in Shard, ReleaseBatch(s)
    PROVE  /\ UNCHANGED <<published, sharded, queue, permit, pub, ring, reader, unsent,
                          wiring, latch, normalSeq, critTx, critRx, inbox, outcome>>
           /\ worker[s].batch = <<>> /\ WorkersOK'
           /\ \A t \in Shard : worker'[t].batch = worker[t].batch
           /\ worker[s].taken \subseteq Id /\ IsFiniteSet(worker[s].taken)
           /\ credits' = Released(Cardinality(worker[s].taken))
           /\ Cardinality(worker[s].taken) \in Nat /\ charged' = charged \ worker[s].taken
           /\ CreditsOK'
<1>1. /\ UNCHANGED <<published, sharded, queue, permit, pub, ring, reader, unsent,
                     wiring, latch, normalSeq, critTx, critRx, inbox, outcome>>
      /\ worker[s].batch = <<>> /\ worker' = [worker EXCEPT ![s] = Poll]
      /\ credits' = Released(Cardinality(worker[s].taken)) /\ charged' = charged \ worker[s].taken
  BY DEF ReleaseBatch, ringVars, dsVars, critVars
<1>2. Len(Poll.batch) <= WorkerBatch
  BY IdleType, Constants
<1>3. WorkersOK' /\ \A t \in Shard : worker'[t] = IF t = s THEN Poll ELSE worker[t]
  BY <1>1, <1>2, IdleType, WorkersKeep DEF WorkerMove
<1>4. worker[s].taken \subseteq Id
  BY DEF Types, WorkersOK, WorkerType
<1>5. IsFiniteSet(Id)
  BY IdFacts, FS_Interval DEF Types
<1>6. IsFiniteSet(worker[s].taken) /\ Cardinality(worker[s].taken) \in Nat
  BY <1>4, <1>5, FS_Subset, FS_CardinalityType
<1>7. CreditsOK'
  <2>1. credits' \in 0 .. MaxCredits
    BY <1>1, <1>6, ReleasedType DEF Types
  <2>2. QED
    BY <1>1, <2>1 DEF Types, CreditsOK, Id
<1>8. QED
  BY <1>1, <1>3, <1>4, <1>6, <1>7, IdleType

\* The end of a batch, the wait and the wake-up change only where the worker is.
LEMMA WorkerIdleStep ==
    ASSUME Types, NEW s \in Shard, EndBatch(s) \/ Wait(s) \/ Woken(s)
    PROVE  /\ UNCHANGED <<published, sharded, credits, charged, queue, pub, ring, reader, unsent,
                          wiring, latch, normalSeq, critTx, critRx, inbox, outcome>>
           /\ WorkersOK' /\ FlagsOK'
           /\ \A t \in Shard : worker'[t].batch = worker[t].batch
<1>1. UNCHANGED <<published, sharded, credits, charged, queue, pub, ring, reader, unsent,
                  wiring, latch, normalSeq, critTx, critRx, inbox, outcome>>
  BY DEF EndBatch, Wait, Woken, ringVars, dsVars, critVars
<1>2. \E pc \in WorkerPC : worker' = [worker EXCEPT ![s].pc = pc]
  BY DEF EndBatch, Wait, Woken, WorkerPC
<1>3. permit' = permit \/ permit' = [permit EXCEPT ![s] = FALSE]
  BY DEF EndBatch, Wait, Woken
<1>4. permit' \in [Shard -> BOOLEAN]
  BY <1>3 DEF Types, FlagsOK
<1>5. FlagsOK'
  BY <1>1, <1>4 DEF Types, FlagsOK
<1>6. QED
  BY <1>1, <1>2, <1>5, WorkerPcStep

LEMMA WorkerTypes ==
    ASSUME Types, PubsGood, NEW s \in Shard, WorkerStep(s)
    PROVE  Types' /\ PubsGood'
<1>0. published' = published /\ pub' = pub
  BY PopStep, MergeStep, ReleaseStep, WorkerIdleStep DEF WorkerStep
<1>1. PubsGood'
  BY <1>0 DEF PubsGood, PubGood, Id, LaneOf
<1>2. CASE Pop(s)
  BY <1>1, <1>2, PopStep, KeepParts DEF Types
<1>3. CASE Merge(s)
  <2>1. RingOK' /\ ReadersOK'
    BY <1>3, MergeStep, RingSendTypes
  <2>2. QED
    BY <1>1, <1>3, <2>1, MergeStep, KeepParts DEF Types
<1>4. CASE ReleaseBatch(s)
  BY <1>1, <1>4, ReleaseStep, KeepParts DEF Types
<1>5. CASE EndBatch(s) \/ Wait(s) \/ Woken(s)
  BY <1>1, <1>5, WorkerIdleStep, KeepParts DEF Types
<1>6. QED
  BY <1>2, <1>3, <1>4, <1>5 DEF WorkerStep

\* A new event: it gets the next number and is in its publisher's hand.
LEMMA PublishStep ==
    ASSUME Types, PubsGood, NEW p \in Publisher, NEW lane \in Lanes, NEW how \in Apis,
           Publish(p, lane, how)
    PROVE  LET n == Len(published) + 1 IN
           /\ UNCHANGED <<sharded, queue, permit, worker, ring, reader, unsent, wiring, latch,
                          normalSeq, critTx, critRx, inbox>>
           /\ n \in Nat /\ n <= MaxEvents /\ n \notin Id /\ Id' = Id \cup {n} /\ pub[p].pc = "idle"
           /\ published'[n].by = p /\ \A e \in Id : published'[e] = published[e]
           /\ outcome' = Append(outcome, {})
           /\ published'[n].lane = lane
           /\ PublishedOK'
           /\ \E r : PubStep(p, r) /\ r.pc \in {"route", "direct"} /\ r.ev = n /\ r.extra = FALSE
           /\ \/ credits' = credits /\ charged' = charged
              \/ credits > 0 /\ credits' = credits - 1 /\ charged' = charged \cup {n}
<1> DEFINE n == Len(published) + 1
           ev == [by |-> p, lane |-> lane]
           T == [by : Publisher, lane : Lane]
           pc == IF how = "critical" THEN "direct" ELSE "route"
           r == [Idle EXCEPT !.pc = pc, !.ev = n, !.how = how]
<1>1. /\ UNCHANGED <<sharded, queue, permit, worker, ring, reader, unsent, wiring, latch,
                     normalSeq, critTx, critRx, inbox>>
      /\ pub[p].pc = "idle" /\ published' = Append(published, ev)
      /\ Len(published) < IF "critical" \in wiring THEN MaxCritical ELSE MaxEvents
      /\ outcome' = Append(outcome, {}) /\ pub' = [pub EXCEPT ![p] = r]
      /\ \/ credits' = credits /\ charged' = charged
         \/ credits > 0 /\ credits' = credits - 1 /\ charged' = charged \cup {n}
  BY DEF Publish, At, shardVars, ringVars, dsVars
<1>2. Len(published) \in Nat /\ Id = 1 .. Len(published)
  BY IdFacts DEF Types
<1>3. n \in Nat /\ n <= MaxEvents /\ n \notin Id /\ n \in 0 .. MaxEvents
  BY <1>1, <1>2, Constants
<1>4. ev \in T /\ published \in Seq(T) /\ ev.by = p /\ ev.lane = lane
  BY DEF Types, PublishedOK, Lanes, Lane
<1> HIDE DEF T, ev
<1>5. /\ published' \in Seq(T) /\ Len(published') = n /\ published'[n] = ev
      /\ \A e \in 1 .. Len(published) : published'[e] = published[e]
  BY <1>1, <1>4
<1>6. PublishedOK'
  BY <1>1, <1>3, <1>5 DEF T, Types, PublishedOK
<1>7. Id' = 1 .. n
  BY <1>5 DEF Id
<1>8. Id' = Id \cup {n}
  BY <1>2, <1>7
<1>9. how \in Api /\ pc \in {"route", "direct"}
  BY DEF Apis, Api
<1>10. Idle \in PubType /\ Idle.extra = FALSE
  BY IdleType
<1> HIDE DEF Idle, n, pc
<1>11. r \in PubType /\ r.pc = pc /\ r.ev = n /\ r.extra = FALSE
  <2>1. pc \in PubPC
    BY <1>9 DEF PubPC
  <2>2. QED
    BY <1>3, <1>9, <1>10, <2>1 DEF PubType
<1> HIDE DEF r
<1>12. PubStep(p, r)
  BY <1>1, <1>11 DEF PubStep
<1>13. published'[n].lane = lane
  BY <1>4, <1>5
<1>14. QED
  BY <1>1, <1>2, <1>3, <1>4, <1>5, <1>6, <1>8, <1>9, <1>11, <1>12, <1>13 DEF n

LEMMA PublishTypes ==
    ASSUME Types, PubsGood, NEW p \in Publisher, NEW lane \in Lanes, NEW how \in Apis,
           Publish(p, lane, how)
    PROVE  Types' /\ PubsGood'
<1> DEFINE n == Len(published) + 1
<1>1. /\ UNCHANGED <<sharded, queue, permit, worker, ring, reader, unsent, wiring, latch,
                     normalSeq, critTx, critRx, inbox>>
      /\ n \in Nat /\ n <= MaxEvents /\ n \notin Id /\ Id' = Id \cup {n}
      /\ published'[n].by = p /\ \A e \in Id : published'[e] = published[e]
      /\ outcome' = Append(outcome, {}) /\ PublishedOK'
      /\ \/ credits' = credits /\ charged' = charged
         \/ credits > 0 /\ credits' = credits - 1 /\ charged' = charged \cup {n}
  BY PublishStep
<1>2. PICK r : PubStep(p, r) /\ r.pc \in {"route", "direct"} /\ r.ev = n /\ r.extra = FALSE
  BY PublishStep
<1>3. Len(published) \in Nat /\ Id = 1 .. Len(published) /\ Id \subseteq Id'
  BY <1>1, IdFacts DEF Types
<1>4. PubsOK' /\ \A q \in Publisher : pub'[q] = IF q = p THEN r ELSE pub[q]
  BY <1>2, PubOthers DEF Types
<1>5. \A e \in Id : e <= n
  BY <1>3
<1> HIDE DEF n
<1>6. ASSUME NEW q \in Publisher PROVE PubGood(q, pub[q])' 
  <2>1. CASE q = p
    <3>1. pub'[q] = r
      BY <1>4, <2>1
    <3>2. \A e \in Id' : e <= n
      BY <1>1, <1>5
    <3>3. QED
      BY <1>1, <1>2, <2>1, <3>1, <3>2 DEF PubGood
  <2>2. CASE q # p
    <3>1. pub'[q] = pub[q] /\ PubGood(q, pub[q])
      BY <1>4, <2>2 DEF PubsGood
    <3>3. pub[q].pc # "idle" =>
              pub[q].ev \in Id /\ published'[pub[q].ev] = published[pub[q].ev]
      BY <1>1, <3>1 DEF PubGood
    <3>4. \A e \in Id' : published'[e].by = q => e \in Id /\ published[e].by = q
      BY <1>1, <2>2
    <3>5. pub'[q].pc \in {"notify", "full", "retry", "ok", "err", "refused"}
              => published'[pub[q].ev].lane \in Shard
      BY <3>1, <3>3 DEF PubGood, LaneOf
    <3>6. pub[q].pc # "idle" =>
            /\ pub[q].ev \in Id' /\ published'[pub[q].ev].by = q
            /\ \A e \in Id' : published'[e].by = q => e <= pub[q].ev
      BY <1>1, <1>3, <3>1, <3>3, <3>4 DEF PubGood
    <3>7. QED
      BY <3>1, <3>5, <3>6 DEF PubGood, LaneOf
  <2>3. QED
    BY <2>1, <2>2
<1>7. PubsGood'
  BY <1>6 DEF PubsGood
<1>8. FlagsOK'
  BY <1>1 DEF Types, FlagsOK
<1>9. CreditsOK'
  BY <1>1, Constants DEF Types, CreditsOK
<1>10. QueuesOK'
  BY <1>1, <1>3, SeqGrows DEF Types, QueuesOK
<1>11. WorkersOK'
  <2>1. \A t \in Shard : worker[t] \in WorkerType'
    <3> TAKE t \in Shard
    <3>1. worker[t] \in WorkerType
      BY DEF Types, WorkersOK
    <3>2. worker[t].batch \in Seq(Id')
      BY <1>3, <3>1, SeqGrows DEF WorkerType
    <3>3. QED
      BY <1>3, <3>1, <3>2 DEF WorkerType
  <2>2. QED
    BY <1>1, <2>1 DEF Types, WorkersOK
<1>12. RingOK' /\ ReadersOK'
  BY <1>1, <1>3, SeqGrows DEF Types, RingOK, ReadersOK
<1>13. CritOK'
  <2> DEFINE T == SUBSET {"delivered", "dropped", "fallback"}
  <2>1. outcome \in Seq(T) /\ {} \in T /\ Len(outcome) = Len(published)
    BY DEF Types, CritOK
  <2> HIDE DEF T
  <2>2. outcome' \in Seq(T) /\ Len(outcome') = Len(published) + 1
    BY <1>1, <2>1, AppendIn
  <2>3. Len(published') = Len(published) + 1
    BY DEF Publish, Types, PublishedOK
  <2>4. QED
    BY <1>1, <2>2, <2>3 DEF T, Types, CritOK
<1>14. QED
  BY <1>1, <1>4, <1>7, <1>8, <1>9, <1>10, <1>11, <1>12, <1>13 DEF Types

\* Subscribers come, read and go.
SubscriberStep ==
    \/ \E r \in Reader : Subscribe(r) \/ Recv(r) \/ DropReader(r)
    \/ \E l \in Listener : SubscribeCritical(l) \/ RecvCritical(l) \/ DropCritical(l)

LEMMA SubscriberTypes ==
    ASSUME Types, PubsGood, SubscriberStep \/ EnableSharding \/ UNCHANGED busVars
    PROVE  /\ Types' /\ PubsGood'
           /\ UNCHANGED <<published, credits, charged, queue, worker, pub, ring, unsent, wiring,
                          latch, normalSeq, permit, outcome>>
<1>1. UNCHANGED <<published, credits, charged, queue, worker, pub, ring, unsent, wiring,
                  latch, normalSeq, permit, outcome>>
  BY DEF SubscriberStep, EnableSharding, Subscribe, Recv, DropReader, SubscribeCritical,
         RecvCritical, DropCritical, busVars, shardVars, ringVars, dsVars, critVars
<1>2. PubsGood'
  BY <1>1 DEF PubsGood, PubGood, Id, LaneOf
<1>3. sharded' \in BOOLEAN
  BY DEF Types, FlagsOK, SubscriberStep, EnableSharding, Subscribe, Recv, DropReader,
         SubscribeCritical, RecvCritical, DropCritical, busVars
<1>4. FlagsOK'
  BY <1>1, <1>3 DEF Types, FlagsOK
<1>5. ReadersOK'
  <2>1. Len(ring) \in Nat /\ reader \in [Reader -> {Off} \cup 0 .. Len(ring)] /\ RingCap \in Nat
    BY Constants DEF Types, RingOK, ReadersOK
  <2>2. CASE reader' = reader
    BY <1>1, <2>1, <2>2 DEF ReadersOK
  <2>3. ASSUME NEW r \in Reader, Subscribe(r) \/ Recv(r) \/ DropReader(r)
        PROVE  ReadersOK'
    <3>1. \E x \in {Off} \cup 0 .. Len(ring) : reader' = [reader EXCEPT ![r] = x]
      <4>1. CASE Subscribe(r)
        <5>1. Len(ring) \in {Off} \cup 0 .. Len(ring) /\ reader' = [reader EXCEPT ![r] = Len(ring)]
          BY <2>1, <4>1 DEF Subscribe
        <5>2. QED
          BY <5>1
      <4>2. CASE DropReader(r)
        BY <2>1, <4>2 DEF DropReader
      <4>3. CASE Recv(r)
        <5>1. reader[r] \in 0 .. Len(ring) /\ reader[r] < Len(ring)
          BY <2>1, <4>3 DEF Recv
        <5> DEFINE x == IF Len(ring) - reader[r] > RingCap THEN Len(ring) - RingCap ELSE reader[r] + 1
        <5>2. x \in 0 .. Len(ring) /\ reader' = [reader EXCEPT ![r] = x]
          BY <2>1, <4>3, <5>1 DEF Recv
        <5>3. QED
          BY <5>2
      <4>4. QED
        BY <2>3, <4>1, <4>2, <4>3
    <3>2. QED
      BY <1>1, <2>1, <3>1 DEF ReadersOK
  <2>4. QED
    BY <2>2, <2>3 DEF SubscriberStep, EnableSharding, SubscribeCritical, RecvCritical,
                      DropCritical, busVars, ringVars
<1>6. CritOK'
  <2>1. inbox \in [Listener -> 0 .. CritCap] /\ CritCap \in Nat
    BY Constants DEF Types, CritOK
  <2>2. /\ critTx' \subseteq Listener /\ critRx' \subseteq Listener
    BY DEF Types, CritOK, SubscriberStep, EnableSharding, Subscribe, Recv, DropReader,
           SubscribeCritical, RecvCritical, DropCritical, busVars, critVars
  <2>3. inbox' \in [Listener -> 0 .. CritCap]
    BY <2>1 DEF SubscriberStep, EnableSharding, Subscribe, Recv, DropReader,
           SubscribeCritical, RecvCritical, DropCritical, busVars, critVars
  <2>4. QED
    BY <1>1, <2>2, <2>3 DEF Types, CritOK
<1>7. QED
  BY <1>1, <1>2, <1>4, <1>5, <1>6, KeepParts DEF Types

LEMMA TypesNext == Types /\ PubsGood /\ [BusNext]_busVars => Types' /\ PubsGood'
BY PublisherTypes, WorkerTypes, PublishTypes, SubscriberTypes DEF BusNext, SubscriberStep

-----------------------------------------------------------------------------
(* Where an event is.                                                      *)

Holds(r, e) == r.ev = e /\ r.pc \notin {"notify", "ok"}

\* Event e is with publisher x, in the queue or the batch of shard x, in the
\* ring, or let go.
IsAt(e, k, x) ==
    \/ k = "hand" /\ x \in Publisher /\ Holds(pub[x], e)
    \/ k = "queue" /\ x \in Shard /\ In(e, queue[x])
    \/ k = "batch" /\ x \in Shard /\ In(e, worker[x].batch)
    \/ k = "ring" /\ x = "bus" /\ In(e, ring)
    \/ k = "unsent" /\ x = "bus" /\ e \in unsent

OnePlace ==
    \A e \in Id : \E k, x : IsAt(e, k, x) /\ \A l, y : IsAt(e, l, y) => l = k /\ y = x

NoDups ==
    /\ \A s \in Shard : NoDup(queue[s]) /\ NoDup(worker[s].batch)
    /\ NoDup(ring)

\* Only events of a shard's lane are in its queue and its batch.
ShardLanes ==
    \A s \in Shard, e \in Id :
        In(e, queue[s]) \/ In(e, worker[s].batch) => LaneOf(e) = s

PlaceInv == OnePlace /\ NoDups /\ ShardLanes /\ OrderKept

\* A step that moves one event from its place to another.
Moves(e0, k0, x0, k1, x1) ==
    \A e \in Id : \A k, x :
        IsAt(e, k, x)' <=> \/ IsAt(e, k, x) /\ ~ (e = e0 /\ k = k0 /\ x = x0)
                           \/ e = e0 /\ k = k1 /\ x = x1

LEMMA Moved ==
    ASSUME OnePlace, Id' = Id, NEW e0 \in Id, NEW k0, NEW x0, NEW k1, NEW x1, IsAt(e0, k0, x0),
           Moves(e0, k0, x0, k1, x1)
    PROVE  OnePlace'
<1> USE DEF Moves
<1> SUFFICES ASSUME NEW e \in Id
             PROVE  \E k, x : IsAt(e, k, x)' /\ \A l, y : IsAt(e, l, y)' => l = k /\ y = x
  BY DEF OnePlace
<1>1. PICK k, x : IsAt(e, k, x) /\ \A l, y : IsAt(e, l, y) => l = k /\ y = x
  BY DEF OnePlace
<1>2. CASE e = e0
  <2>1. k = k0 /\ x = x0
    BY <1>1, <1>2
  <2>2. IsAt(e, k1, x1)' /\ \A l, y : IsAt(e, l, y)' => l = k1 /\ y = x1
    BY <1>1, <1>2, <2>1
  <2>3. QED
    BY <2>2
<1>3. CASE e # e0
  <2>1. IsAt(e, k, x)' /\ \A l, y : IsAt(e, l, y)' => l = k /\ y = x
    BY <1>1, <1>3
  <2>2. QED
    BY <2>1
<1>4. QED
  BY <1>2, <1>3

\* An event that is in one place is in no other.
LEMMA NotElsewhere ==
    ASSUME OnePlace, NEW e \in Id, NEW k, NEW x, NEW l, NEW y, IsAt(e, k, x), l # k \/ y # x
    PROVE  ~ IsAt(e, l, y)
BY DEF OnePlace

\* A step in which no event moves.
LEMMA Quiet ==
    ASSUME PlaceInv, UNCHANGED <<published, queue, ring, unsent>>,
           \A t \in Shard : worker'[t].batch = worker[t].batch,
           \A q \in Publisher, e \in Id : Holds(pub'[q], e) <=> Holds(pub[q], e)
    PROVE  PlaceInv'
<1>1. Id' = Id /\ \A e \in Id : LaneOf(e)' = LaneOf(e)
  BY DEF Id, LaneOf
<1>2. \A e \in Id : \A k, x : IsAt(e, k, x)' <=> IsAt(e, k, x)
  BY DEF IsAt
<1>3. OnePlace'
  BY <1>1, <1>2 DEF PlaceInv, OnePlace
<1>4. NoDups' /\ ShardLanes'
  BY <1>1 DEF PlaceInv, NoDups, ShardLanes
<1>5. OrderKept'
  BY DEF PlaceInv, OrderKept, LaneOf
<1>6. QED
  BY <1>3, <1>4, <1>5 DEF PlaceInv

\* The same for the step of a publisher that keeps its event, or has none before
\* and after.
LEMMA QuietPublisher ==
    ASSUME Types, PlaceInv, NEW p \in Publisher, NEW r, PubStep(p, r),
           UNCHANGED <<published, queue, worker, ring, unsent>>,
           \/ r.ev = pub[p].ev /\ (r.pc \in {"notify", "ok"} <=> pub[p].pc \in {"notify", "ok"})
           \/ pub[p].pc \in {"notify", "ok"} /\ r.ev = 0
    PROVE  PlaceInv'
<1>1. \A q \in Publisher : pub'[q] = IF q = p THEN r ELSE pub[q]
  BY PubOthers DEF Types
<1>2. 0 \notin Id
  BY IdFacts DEF Types
<1>3. \A e \in Id : Holds(r, e) <=> Holds(pub[p], e)
  BY <1>2 DEF Holds
<1>4. \A q \in Publisher, e \in Id : Holds(pub'[q], e) <=> Holds(pub[q], e)
  BY <1>1, <1>3
<1>5. QED
  BY <1>4, Quiet

\* The ring gets an event that is not yet in it, and that is either of a shard's
\* lane or after all that its publisher has there.
LEMMA RingSendOrder ==
    ASSUME Types, PlaceInv, published' = published, NEW e \in Id, RingSend(e), ~ In(e, ring),
           \/ LaneOf(e) \in Shard
           \/ \A f \in Id : published[f].by = published[e].by => f <= e
    PROVE  /\ NoDup(ring') /\ OrderKept'
           /\ \/ /\ unsent' = unsent
                 /\ \A f : In(f, ring') <=> In(f, ring) \/ f = e
              \/ ring' = ring /\ unsent' = unsent \cup {e}
<1>1. /\ ring \in Seq(Id) /\ NoDup(ring) /\ OrderKept
  BY DEF Types, RingOK, PlaceInv, NoDups
<1>2. CASE ring' = ring /\ unsent' = unsent \cup {e}
  BY <1>1, <1>2 DEF OrderKept, LaneOf
<1>3. CASE ring' = Append(ring, e) /\ unsent' = unsent
  <2>1. NoDup(ring') /\ \A f : In(f, ring') <=> In(f, ring) \/ f = e
    BY <1>1, <1>3, AppendIn
  <2>2. /\ DOMAIN ring = 1 .. Len(ring) /\ DOMAIN ring' = 1 .. Len(ring) + 1 /\ Len(ring) \in Nat
        /\ \A i \in 1 .. Len(ring) : ring'[i] = ring[i] /\ ring[i] \in Id
        /\ ring'[Len(ring) + 1] = e
    BY <1>1, <1>3
  <2>3. OrderKept'
    <3> SUFFICES ASSUME NEW i \in DOMAIN ring', NEW j \in DOMAIN ring', i < j,
                        published[ring'[i]].by = published[ring'[j]].by,
                        {published[ring'[i]].lane, published[ring'[j]].lane} \cap Shard = {}
                 PROVE  ring'[i] < ring'[j]
      BY DEF OrderKept, LaneOf
    <3>1. i \in 1 .. Len(ring) /\ ring'[i] = ring[i]
      BY <2>2
    <3>2. CASE j \in 1 .. Len(ring)
      BY <1>1, <2>2, <3>1, <3>2 DEF OrderKept, LaneOf
    <3>3. CASE j = Len(ring) + 1
      <4>1. ring'[j] = e /\ LaneOf(e) \notin Shard
        BY <2>2, <3>3 DEF LaneOf
      <4>2. ring[i] \in Id /\ ring[i] <= e
        BY <2>2, <3>1, <4>1
      <4>3. ring[i] # e
        BY <2>2, <3>1 DEF In
      <4>4. QED
        BY <3>1, <4>1, <4>2, <4>3, IdFacts DEF Types
    <3>4. QED
      BY <2>2, <3>2, <3>3
  <2>4. QED
    BY <1>3, <2>1, <2>3
<1>4. QED
  BY <1>2, <1>3 DEF RingSend

\* The publisher lets its event go: nobody else holds it.
LEMMA LetGo ==
    ASSUME Types, NEW p \in Publisher, NEW r, PubStep(p, r), NEW e \in Id,
           Holds(pub[p], e), r.ev = 0 \/ r.pc \in {"notify", "ok"}
    PROVE  \A q \in Publisher, f \in Id :
               Holds(pub'[q], f) <=> Holds(pub[q], f) /\ ~ (q = p /\ f = e)
<1>1. \A q \in Publisher : pub'[q] = IF q = p THEN r ELSE pub[q]
  BY PubOthers DEF Types
<1>2. 0 \notin Id
  BY IdFacts DEF Types
<1>3. \A f \in Id : ~ Holds(r, f) /\ (Holds(pub[p], f) => f = e)
  BY <1>2 DEF Holds
<1>4. QED
  BY <1>1, <1>3

\* A push moves the event of the publisher to its shard.
LEMMA PushPlace ==
    ASSUME Types, PubsGood, PlaceInv, NEW p \in Publisher, Push(p)
    PROVE  PlaceInv'
<1> DEFINE e == Ev(p)
           s == ShardOf(e)
<1>1. /\ UNCHANGED <<published, worker, ring, unsent>>
      /\ queue' = [queue EXCEPT ![s] = Append(@, e)] /\ Goto(p, "notify")
      /\ pub[p].pc \in {"retry", "route"}
  BY DEF Push, At, ringVars
<1>2. PICK r : PubStep(p, r) /\ r.pc = "notify" /\ r.ev = pub[p].ev
  BY <1>1, GotoStep DEF Types, PubPC
<1>3. e \in Id /\ s \in Shard /\ LaneOf(e) = s /\ Holds(pub[p], e)
  BY <1>1 DEF Push, At, Ev, Shardable, Unordered, ShardOf, PubsGood, PubGood, Holds
<1> HIDE DEF e, s
<1>4. \A q \in Publisher, f \in Id : Holds(pub'[q], f) <=> Holds(pub[q], f) /\ ~ (q = p /\ f = e)
  BY <1>2, <1>3, LetGo
<1>5. \A t \in Shard : /\ queue[t] \in Seq(Id)
                       /\ queue'[t] = IF t = s THEN Append(queue[s], e) ELSE queue[t]
  BY <1>1, <1>3 DEF Types, QueuesOK
<1>6. IsAt(e, "hand", p)
  BY <1>3 DEF IsAt
<1>7. ~ In(e, queue[s])
  BY <1>3, <1>6, NotElsewhere DEF IsAt, PlaceInv
<1>8. \A t \in Shard, f \in Id : In(f, queue'[t]) <=> In(f, queue[t]) \/ (t = s /\ f = e)
  BY <1>3, <1>5, AppendIn
<1>9. Moves(e, "hand", p, "queue", s)
  BY <1>1, <1>3, <1>4, <1>8 DEF IsAt, Moves
<1>10. Id' = Id
  BY <1>1 DEF Id
<1>11. OnePlace'
  BY <1>3, <1>6, <1>9, <1>10, Moved DEF PlaceInv
<1>12. NoDups'
  BY <1>1, <1>3, <1>5, <1>7, AppendIn DEF PlaceInv, NoDups
<1>13. ShardLanes'
  BY <1>1, <1>3, <1>8, <1>10 DEF PlaceInv, ShardLanes, LaneOf
<1>14. OrderKept'
  BY <1>1 DEF PlaceInv, OrderKept, LaneOf
<1>15. QED
  BY <1>11, <1>12, <1>13, <1>14 DEF PlaceInv

\* The publisher sends its event, or down-sampling lets it go.
LEMMA SendPlace ==
    ASSUME Types, PubsGood, PlaceInv, NEW p \in Publisher, Done(p),
           pub[p].pc \in {"send", "admit"}, UNCHANGED <<published, queue, worker>>,
           RingSend(Ev(p)) \/ (unsent' = unsent \cup {Ev(p)} /\ ring' = ring)
    PROVE  PlaceInv'
<1> DEFINE e == Ev(p)
<1>1. e \in Id /\ Holds(pub[p], e) /\ published[e].by = p
      /\ \A f \in Id : published[f].by = p => f <= e
  BY DEF Ev, PubsGood, PubGood, Holds
<1> HIDE DEF e
<1>2. \A q \in Publisher, f \in Id : Holds(pub'[q], f) <=> Holds(pub[q], f) /\ ~ (q = p /\ f = e)
  BY <1>1, DoneStep, IdleType, LetGo
<1>3. IsAt(e, "hand", p)
  BY <1>1 DEF IsAt
<1>4. ~ In(e, ring)
  BY <1>1, <1>3, NotElsewhere DEF IsAt, PlaceInv
<1>5. Id' = Id
  BY DEF Id
<1>6. /\ NoDup(ring') /\ OrderKept'
      /\ \/ unsent' = unsent /\ \A f : In(f, ring') <=> In(f, ring) \/ f = e
         \/ ring' = ring /\ unsent' = unsent \cup {e}
  <2>1. CASE RingSend(e)
    BY <1>1, <1>4, <2>1, RingSendOrder
  <2>2. CASE unsent' = unsent \cup {e} /\ ring' = ring
    BY <2>2 DEF PlaceInv, NoDups, OrderKept, LaneOf
  <2>3. QED
    BY <2>1, <2>2 DEF e
<1>7. OnePlace'
  <2>1. CASE unsent' = unsent /\ \A f : In(f, ring') <=> In(f, ring) \/ f = e
    <3>1. Moves(e, "hand", p, "ring", "bus")
      BY <1>2, <2>1 DEF IsAt, Moves
    <3>2. QED
      BY <1>1, <1>3, <1>5, <3>1, Moved DEF PlaceInv
  <2>2. CASE ring' = ring /\ unsent' = unsent \cup {e}
    <3>1. Moves(e, "hand", p, "unsent", "bus")
      BY <1>2, <2>2 DEF IsAt, Moves
    <3>2. QED
      BY <1>1, <1>3, <1>5, <3>1, Moved DEF PlaceInv
  <2>3. QED
    BY <1>6, <2>1, <2>2
<1>8. NoDups' /\ ShardLanes'
  BY <1>5, <1>6 DEF PlaceInv, NoDups, ShardLanes, LaneOf
<1>9. QED
  BY <1>6, <1>7, <1>8 DEF PlaceInv

\* A pop moves the head of the queue to the batch of the same shard.
LEMMA PopPlace ==
    ASSUME Types, PlaceInv, NEW s \in Shard, Pop(s)
    PROVE  PlaceInv'
<1> DEFINE e == Head(queue[s])
<1>1. /\ UNCHANGED <<published, pub, ring, unsent>>
      /\ queue[s] # <<>> /\ queue[s] \in Seq(Id) /\ worker[s].batch \in Seq(Id) /\ e \in Id
      /\ \A t \in Shard : queue'[t] = IF t = s THEN Tail(queue[s]) ELSE queue[t]
      /\ \A t \in Shard : worker'[t].batch = IF t = s THEN Append(worker[s].batch, e)
                                             ELSE worker[t].batch
  BY PopStep
<1>2. /\ \A f : In(f, queue[s]) <=> In(f, Tail(queue[s])) \/ f = e
      /\ NoDup(queue[s]) /\ NoDup(Tail(queue[s])) /\ ~ In(e, Tail(queue[s]))
  BY <1>1, HeadTail DEF PlaceInv, NoDups
<1> HIDE DEF e
<1>3. IsAt(e, "queue", s)
  BY <1>2 DEF IsAt
<1>4. ~ In(e, worker[s].batch)
  BY <1>1, <1>3, NotElsewhere DEF IsAt, PlaceInv
<1>5. /\ \A f : In(f, Append(worker[s].batch, e)) <=> In(f, worker[s].batch) \/ f = e
      /\ NoDup(Append(worker[s].batch, e))
  BY <1>1, <1>4, AppendIn DEF PlaceInv, NoDups
<1>6. /\ \A t \in Shard, f \in Id : In(f, queue'[t]) <=> In(f, queue[t]) /\ ~ (t = s /\ f = e)
      /\ \A t \in Shard, f \in Id :
             In(f, worker'[t].batch) <=> In(f, worker[t].batch) \/ (t = s /\ f = e)
  BY <1>1, <1>2, <1>5
<1>7. Moves(e, "queue", s, "batch", s)
  BY <1>1, <1>6 DEF IsAt, Moves
<1>8. Id' = Id
  BY <1>1 DEF Id
<1>9. OnePlace'
  BY <1>1, <1>3, <1>7, <1>8, Moved DEF PlaceInv
<1>10. NoDups'
  BY <1>1, <1>2, <1>5 DEF PlaceInv, NoDups
<1>11. LaneOf(e) = s
  BY <1>1, <1>2 DEF PlaceInv, ShardLanes
<1>12. ShardLanes'
  BY <1>1, <1>6, <1>8, <1>11 DEF PlaceInv, ShardLanes, LaneOf
<1>13. OrderKept'
  BY <1>1 DEF PlaceInv, OrderKept, LaneOf
<1>14. QED
  BY <1>9, <1>10, <1>12, <1>13 DEF PlaceInv

\* The worker sends the head of its batch.
LEMMA MergePlace ==
    ASSUME Types, PlaceInv, NEW s \in Shard, Merge(s)
    PROVE  PlaceInv'
<1> DEFINE e == Head(worker[s].batch)
<1>1. /\ UNCHANGED <<published, pub, queue>>
      /\ worker[s].batch # <<>> /\ worker[s].batch \in Seq(Id) /\ e \in Id /\ RingSend(e)
      /\ \A t \in Shard : worker'[t].batch = IF t = s THEN Tail(worker[s].batch)
                                             ELSE worker[t].batch
  BY MergeStep
<1>2. /\ \A f : In(f, worker[s].batch) <=> In(f, Tail(worker[s].batch)) \/ f = e
      /\ NoDup(Tail(worker[s].batch)) /\ ~ In(e, Tail(worker[s].batch))
  BY <1>1, HeadTail DEF PlaceInv, NoDups
<1> HIDE DEF e
<1>3. IsAt(e, "batch", s) /\ LaneOf(e) = s
  BY <1>1, <1>2 DEF IsAt, PlaceInv, ShardLanes
<1>4. ~ In(e, ring)
  BY <1>1, <1>3, NotElsewhere DEF IsAt, PlaceInv
<1>5. /\ NoDup(ring') /\ OrderKept'
      /\ \/ unsent' = unsent /\ \A f : In(f, ring') <=> In(f, ring) \/ f = e
         \/ ring' = ring /\ unsent' = unsent \cup {e}
  BY <1>1, <1>3, <1>4, RingSendOrder
<1>6. \A t \in Shard, f \in Id :
          In(f, worker'[t].batch) <=> In(f, worker[t].batch) /\ ~ (t = s /\ f = e)
  BY <1>1, <1>2
<1>7. Id' = Id
  BY <1>1 DEF Id
<1>8. OnePlace'
  <2>1. CASE unsent' = unsent /\ \A f : In(f, ring') <=> In(f, ring) \/ f = e
    <3>1. Moves(e, "batch", s, "ring", "bus")
      BY <1>1, <1>6, <2>1 DEF IsAt, Moves
    <3>2. QED
      BY <1>1, <1>3, <1>7, <3>1, Moved DEF PlaceInv
  <2>2. CASE ring' = ring /\ unsent' = unsent \cup {e}
    <3>1. Moves(e, "batch", s, "unsent", "bus")
      BY <1>1, <1>6, <2>2 DEF IsAt, Moves
    <3>2. QED
      BY <1>1, <1>3, <1>7, <3>1, Moved DEF PlaceInv
  <2>3. QED
    BY <1>5, <2>1, <2>2
<1>9. NoDups'
  BY <1>1, <1>2, <1>5 DEF PlaceInv, NoDups
<1>10. ShardLanes'
  BY <1>1, <1>6, <1>7 DEF PlaceInv, ShardLanes, LaneOf
<1>11. QED
  BY <1>5, <1>8, <1>9, <1>10 DEF PlaceInv

\* A new event is in its publisher's hand, and nowhere else.
LEMMA PublishPlace ==
    ASSUME Types, PubsGood, PlaceInv, NEW p \in Publisher, NEW lane \in Lanes, NEW how \in Apis,
           Publish(p, lane, how)
    PROVE  PlaceInv'
<1>0. PICK n : n = Len(published) + 1
  OBVIOUS
<1>1. /\ UNCHANGED <<queue, worker, ring, unsent>>
      /\ n \notin Id /\ Id' = Id \cup {n} /\ pub[p].pc = "idle" /\ n \in Nat
      /\ \A e \in Id : published'[e] = published[e]
  BY <1>0, PublishStep
<1>2. PICK r : PubStep(p, r) /\ r.pc \in {"route", "direct"} /\ r.ev = n
  BY <1>0, PublishStep
<1>3. \A q \in Publisher : pub'[q] = IF q = p THEN r ELSE pub[q]
  BY <1>2, PubOthers DEF Types
<1>4. n # 0 /\ 0 \notin Id
  BY <1>0, IdFacts DEF Types
<1>5. \A q \in Publisher : pub[q].ev = 0 \/ pub[q].ev \in Id
  BY DEF PubsGood, PubGood
<1>6. \A q \in Publisher, e \in Id : Holds(pub'[q], e) <=> Holds(pub[q], e)
  BY <1>1, <1>2, <1>3, <1>4 DEF Holds, PubsGood, PubGood
<1>7. \A q \in Publisher : Holds(pub'[q], n) <=> q = p
  BY <1>1, <1>2, <1>3, <1>4, <1>5 DEF Holds
<1>8. /\ n \notin unsent /\ ~ In(n, ring)
      /\ \A s \in Shard : ~ In(n, queue[s]) /\ ~ In(n, worker[s].batch)
  <2>1. ring \in Seq(Id) /\ unsent \subseteq Id
        /\ \A s \in Shard : queue[s] \in Seq(Id) /\ worker[s].batch \in Seq(Id)
    BY DEF Types, RingOK, QueuesOK, WorkersOK, WorkerType
  <2>2. QED
    BY <1>1, <2>1 DEF In
<1>9. \A k, x : IsAt(n, k, x)' <=> k = "hand" /\ x = p
  BY <1>1, <1>7, <1>8 DEF IsAt
<1>10. \A e \in Id : \A k, x : IsAt(e, k, x)' <=> IsAt(e, k, x)
  BY <1>1, <1>6 DEF IsAt
<1>11. OnePlace'
  <2> SUFFICES ASSUME NEW e \in Id'
               PROVE  \E k, x : IsAt(e, k, x)' /\ \A l, y : IsAt(e, l, y)' => l = k /\ y = x
    BY DEF OnePlace
  <2>1. CASE e = n
    BY <1>9, <2>1
  <2>2. CASE e \in Id
    BY <1>10, <2>2 DEF PlaceInv, OnePlace
  <2>3. QED
    BY <1>1, <2>1, <2>2
<1>12. NoDups'
  BY <1>1 DEF PlaceInv, NoDups
<1>13. ShardLanes'
  BY <1>1, <1>8 DEF PlaceInv, ShardLanes, LaneOf
<1>14. OrderKept'
  <2>1. \A i \in DOMAIN ring : ring[i] \in Id
    BY DEF Types, RingOK
  <2>2. QED
    BY <1>1, <2>1 DEF PlaceInv, OrderKept, LaneOf
<1>15. QED
  BY <1>11, <1>12, <1>13, <1>14 DEF PlaceInv

LEMMA PlaceInit == BusInit => PlaceInv
BY DEF BusInit, PlaceInv, OnePlace, NoDups, ShardLanes, OrderKept, Id, NoDup, In, Poll

LEMMA PlaceNext == Types /\ PubsGood /\ PlaceInv /\ [BusNext]_busVars => PlaceInv'
<1> SUFFICES ASSUME Types, PubsGood, PlaceInv, [BusNext]_busVars PROVE PlaceInv'
  OBVIOUS
<1> USE DEF shardVars, ringVars
<1>1. CASE SubscriberStep \/ EnableSharding \/ UNCHANGED busVars
  BY <1>1, SubscriberTypes, Quiet
<1>2. ASSUME NEW s \in Shard, WorkerStep(s) PROVE PlaceInv'
  <2>1. CASE ReleaseBatch(s)
    BY <2>1, ReleaseStep, Quiet
  <2>2. CASE EndBatch(s) \/ Wait(s) \/ Woken(s)
    BY <2>2, WorkerIdleStep, Quiet
  <2>3. QED
    BY <1>2, <2>1, <2>2, PopPlace, MergePlace DEF WorkerStep
<1>3. ASSUME NEW p \in Publisher, PublisherStep(p) PROVE PlaceInv'
  <2>0. PubsOK
    BY DEF Types
  <2>1. CASE Bypass(p) \/ Full(p) \/ Refused(p) \/ Direct(p)
    <3>1. PICK pc \in PubPC \ {"notify", "ok"} :
              /\ Goto(p, pc) /\ UNCHANGED <<published, queue, worker, ring, unsent>>
              /\ pub[p].pc \notin {"notify", "ok"}
      BY <2>1 DEF Bypass, Full, Refused, Direct, At, PubPC
    <3>2. PICK r : PubStep(p, r) /\ r.pc = pc /\ r.ev = pub[p].ev
      BY <2>0, <3>1, GotoStep
    <3>3. QED
      BY <3>1, <3>2, QuietPublisher
  <2>2. CASE NotifyWorker(p)
    <3>1. /\ UNCHANGED <<published, queue, worker, ring, unsent>> /\ pub[p].pc = "notify"
          /\ Goto(p, "ok") \/ Done(p)
      BY <2>2 DEF NotifyWorker, AfterNotify, At
    <3>2. CASE Goto(p, "ok")
      <4>1. PICK r : PubStep(p, r) /\ r.pc = "ok" /\ r.ev = pub[p].ev
        BY <2>0, <3>2, GotoStep DEF PubPC
      <4>2. QED
        BY <3>1, <4>1, QuietPublisher
    <3>3. CASE Done(p)
      BY <3>1, <3>3, DoneStep, IdleType, QuietPublisher
    <3>4. QED
      BY <3>1, <3>2, <3>3
  <2>3. CASE BuyRetry(p)
    <3>1. UNCHANGED <<published, queue, worker, ring, unsent>> /\ pub[p].pc = "full"
      BY <2>3 DEF BuyRetry, At
    <3>2. CASE Goto(p, "refused")
      <4>1. PICK r : PubStep(p, r) /\ r.pc = "refused" /\ r.ev = pub[p].ev
        BY <2>0, <3>2, GotoStep DEF PubPC
      <4>2. QED
        BY <3>1, <4>1, QuietPublisher
    <3>3. CASE pub' = [pub EXCEPT ![p].pc = "retry", ![p].extra = TRUE]
      <4>1. \A q \in Publisher : pub'[q].ev = pub[q].ev /\ (pub'[q].pc = pub[q].pc \/ (q = p /\ pub'[q].pc = "retry"))
        BY <2>0, <3>3 DEF PubsOK, PubType
      <4>2. QED
        BY <3>1, <4>1, Quiet DEF Holds
    <3>4. QED
      BY <2>3, <3>2, <3>3 DEF BuyRetry
  <2>4. CASE ReturnExtra(p)
    <3>1. UNCHANGED <<published, queue, worker, ring, unsent>> /\ pub[p].pc \in {"ok", "err"}
      BY <2>4 DEF ReturnExtra, At
    <3>2. CASE pub[p].pc = "ok" /\ Done(p)
      BY <3>1, <3>2, DoneStep, IdleType, QuietPublisher
    <3>3. CASE pub[p].pc = "err" /\ pub' = [pub EXCEPT ![p].pc = "refused", ![p].extra = FALSE]
      <4>1. \A q \in Publisher : pub'[q].ev = pub[q].ev /\ (pub'[q].pc = pub[q].pc \/ (q = p /\ pub'[q].pc = "refused"))
        BY <2>0, <3>3 DEF PubsOK, PubType
      <4>2. QED
        BY <3>1, <3>3, <4>1, Quiet DEF Holds
    <3>4. QED
      BY <2>4, <3>1, <3>2, <3>3 DEF ReturnExtra, At
  <2>5. CASE Sample(p)
    <3>1. /\ UNCHANGED <<published, queue, worker, ring, unsent>> /\ pub[p].pc = "sample"
          /\ pub' = [pub EXCEPT ![p].pc = "admit", ![p].queued = SenderLen]
      BY <2>5 DEF Sample, At
    <3>2. \A q \in Publisher : pub'[q].ev = pub[q].ev /\ (pub'[q].pc = pub[q].pc \/ (q = p /\ pub'[q].pc = "admit"))
      BY <2>0, <3>1 DEF PubsOK, PubType
    <3>3. QED
      BY <3>1, <3>2, Quiet DEF Holds
  <2>6. CASE Admit(p)
    <3>1. UNCHANGED <<published, queue, worker, ring>> /\ pub[p].pc = "admit"
      BY <2>6 DEF Admit, At
    <3>2. CASE unsent' = unsent \cup {Ev(p)} /\ Done(p)
      BY <3>1, <3>2, SendPlace
    <3>3. CASE Goto(p, "send") /\ unsent' = unsent
      <4>1. PICK r : PubStep(p, r) /\ r.pc = "send" /\ r.ev = pub[p].ev
        BY <2>0, <3>3, GotoStep DEF PubPC
      <4>2. QED
        BY <3>1, <3>3, <4>1, QuietPublisher
    <3>4. QED
      BY <2>6, <3>2, <3>3 DEF Admit
  <2>7. CASE Send(p)
    BY <2>7, SendPlace DEF Send, At
  <2>8. QED
    BY <1>3, <2>1, <2>2, <2>3, <2>4, <2>5, <2>6, <2>7, PushPlace DEF PublisherStep
<1>4. QED
  BY <1>1, <1>2, <1>3, PublishPlace DEF BusNext, SubscriberStep

\* How often an event occurs in a sequence without duplicates.
LEMMA OccursOnce ==
    ASSUME NEW s, NoDup(s), NEW e
    PROVE  Occurrences(e, s) = IF In(e, s) THEN 1 ELSE 0
<1> DEFINE D == {i \in DOMAIN s : s[i] = e}
<1>1. CASE In(e, s)
  <2>1. PICK i \in DOMAIN s : s[i] = e
    BY <1>1 DEF In
  <2>2. D = {i}
    BY <2>1 DEF NoDup
  <2>3. QED
    BY <1>1, <2>2, FS_Singleton DEF Occurrences
<1>2. CASE ~ In(e, s)
  <2>1. D = {}
    BY <1>2 DEF In
  <2>2. QED
    BY <1>2, <2>1, FS_EmptySet DEF Occurrences
<1>3. QED
  BY <1>1, <1>2

LEMMA OnceImplied == PlaceInv => EachEventOnce
<1> SUFFICES ASSUME PlaceInv, NEW e \in Id
             PROVE  LET inQueue == [s \in Shard |-> Occurrences(e, queue[s]) + Occurrences(e, worker[s].batch)]
                        queued  == {s \in Shard : inQueue[s] # 0}
                    IN  /\ \A s \in Shard : inQueue[s] <= 1
                        /\ Cardinality(queued) + Cardinality(InHand(e)) + Occurrences(e, ring)
                           + (IF e \in unsent THEN 1 ELSE 0) = 1
  BY DEF EachEventOnce
<1> DEFINE inQueue == [s \in Shard |-> Occurrences(e, queue[s]) + Occurrences(e, worker[s].batch)]
           queued  == {s \in Shard : inQueue[s] # 0}
<1>1. PICK k, x : IsAt(e, k, x) /\ \A l, y : IsAt(e, l, y) => l = k /\ y = x
  BY DEF PlaceInv, OnePlace
<1>2. /\ \A q \in Publisher : Holds(pub[q], e) => k = "hand" /\ q = x
      /\ \A s \in Shard : In(e, queue[s]) => k = "queue" /\ s = x
      /\ \A s \in Shard : In(e, worker[s].batch) => k = "batch" /\ s = x
      /\ In(e, ring) => k = "ring"
      /\ e \in unsent => k = "unsent"
  BY <1>1 DEF IsAt
<1>3. \A s \in Shard : inQueue[s] = (IF In(e, queue[s]) THEN 1 ELSE 0)
                                    + (IF In(e, worker[s].batch) THEN 1 ELSE 0)
  BY OccursOnce DEF PlaceInv, NoDups
<1>4. \A s \in Shard : inQueue[s] <= 1
  BY <1>2, <1>3
<1>5. queued = {s \in Shard : In(e, queue[s]) \/ In(e, worker[s].batch)}
  BY <1>3
<1>6. InHand(e) = {q \in Publisher : Holds(pub[q], e)}
  BY DEF InHand, Holds, Ev
<1>7. Occurrences(e, ring) = IF In(e, ring) THEN 1 ELSE 0
  BY OccursOnce DEF PlaceInv, NoDups
<1>8. Cardinality({}) = 0 /\ \A y : Cardinality({y}) = 1
  BY FS_EmptySet, FS_Singleton
<1> HIDE DEF queued, inQueue
<1>9. Cardinality(queued) + Cardinality(InHand(e)) + Occurrences(e, ring)
      + (IF e \in unsent THEN 1 ELSE 0) = 1
  <2>1. CASE k = "hand"
    <3>1. InHand(e) = {x} /\ queued = {}
      BY <1>1, <1>2, <1>5, <1>6, <2>1 DEF IsAt
    <3>2. QED
      BY <1>2, <1>7, <1>8, <2>1, <3>1
  <2>2. CASE k \in {"queue", "batch"}
    <3>1. InHand(e) = {} /\ queued = {x}
      BY <1>1, <1>2, <1>5, <1>6, <2>2 DEF IsAt
    <3>2. ~ In(e, ring) /\ e \notin unsent
      BY <1>2, <2>2
    <3>3. Cardinality(queued) = 1 /\ Cardinality(InHand(e)) = 0
      BY <1>8, <3>1, Zenon
    <3>4. Occurrences(e, ring) = 0 /\ (IF e \in unsent THEN 1 ELSE 0) = 0
      BY <1>7, <3>2
    <3>5. QED
      BY <3>3, <3>4
  <2>3. CASE k = "ring"
    <3>1. InHand(e) = {} /\ queued = {} /\ In(e, ring)
      BY <1>1, <1>2, <1>5, <1>6, <2>3 DEF IsAt
    <3>2. QED
      BY <1>2, <1>7, <1>8, <2>3, <3>1
  <2>4. CASE k = "unsent"
    <3>1. InHand(e) = {} /\ queued = {} /\ e \in unsent
      BY <1>1, <1>2, <1>5, <1>6, <2>4 DEF IsAt
    <3>2. QED
      BY <1>2, <1>7, <1>8, <2>4, <3>1
  <2>5. QED
    BY <1>1, <2>1, <2>2, <2>3, <2>4 DEF IsAt
<1>10. QED
  BY <1>4, <1>9 DEF queued, inQueue

-----------------------------------------------------------------------------
(* Credits.                                                                *)

Extra == {p \in Publisher : pub[p].extra}

LEMMA ExtraStep ==
    ASSUME Types, NEW p \in Publisher, NEW r, PubStep(p, r)
    PROVE  /\ r.extra = TRUE => Extra' = Extra \cup {p}
           /\ r.extra = FALSE => Extra' = Extra \ {p}
           /\ r.extra = pub[p].extra => Extra' = Extra
<1>1. \A q \in Publisher : pub'[q] = IF q = p THEN r ELSE pub[q]
  BY PubOthers DEF Types
<1>2. QED
  BY <1>1 DEF Extra

LEMMA CreditSizes ==
    ASSUME Types
    PROVE  /\ IsFiniteSet(charged) /\ IsFiniteSet(Extra) /\ credits \in Nat /\ MaxCredits \in Nat
           /\ Cardinality(charged) \in Nat /\ Cardinality(Extra) \in Nat /\ credits <= MaxCredits
<1>1. IsFiniteSet(Id)
  BY IdFacts, FS_Interval DEF Types
<1>2. charged \subseteq Id /\ Extra \subseteq Publisher
  BY DEF Types, CreditsOK, Extra
<1>3. IsFiniteSet(charged) /\ IsFiniteSet(Extra)
  BY <1>1, <1>2, Constants, FS_Subset
<1>4. QED
  BY <1>3, Constants, FS_CardinalityType DEF Types, CreditsOK

\* A set loses an element at most with each element taken out.
LEMMA SetLoses ==
    ASSUME NEW S, IsFiniteSet(S), NEW x
    PROVE  /\ Cardinality(S \ {x}) \in Nat /\ Cardinality(S) \in Nat
           /\ Cardinality(S \ {x}) + 1 >= Cardinality(S)
           /\ x \in S => Cardinality(S \ {x}) + 1 = Cardinality(S)
           /\ x \notin S => Cardinality(S \ {x}) = Cardinality(S)
<1>1. CASE x \in S
  BY <1>1, FS_RemoveElement, FS_CardinalityType, SMTT(30)
<1>2. CASE x \notin S
  <2>1. S \ {x} = S
    BY <1>2
  <2>2. Cardinality(S \ {x}) = Cardinality(S)
    BY <2>1, Zenon
  <2>3. Cardinality(S) \in Nat
    BY FS_CardinalityType
  <2>4. QED
    BY <1>2, <2>2, <2>3
<1>3. QED
  BY <1>1, <1>2

LEMMA SetLosesSet ==
    ASSUME NEW S, IsFiniteSet(S), NEW T, IsFiniteSet(T)
    PROVE  /\ Cardinality(S \ T) \in Nat /\ Cardinality(T) \in Nat
           /\ Cardinality(S \ T) + Cardinality(T) >= Cardinality(S)
<1>1. /\ IsFiniteSet(S \cap T) /\ IsFiniteSet(S \ T)
  BY FS_Subset
<1>2. Cardinality(S \ T) = Cardinality(S) - Cardinality(S \cap T)
  BY FS_Difference
<1>3. Cardinality(S \cap T) <= Cardinality(T)
  BY FS_Subset
<1>4. QED
  BY <1>1, <1>2, <1>3, FS_CardinalityType

LEMMA CreditsNext == Types /\ PubsGood /\ CreditsComeBack /\ [BusNext]_busVars => CreditsComeBack'
<1> SUFFICES ASSUME Types, PubsGood, CreditsComeBack, [BusNext]_busVars PROVE CreditsComeBack'
  OBVIOUS
<1>0. /\ IsFiniteSet(charged) /\ IsFiniteSet(Extra) /\ credits \in Nat /\ MaxCredits \in Nat
      /\ Cardinality(charged) \in Nat /\ Cardinality(Extra) \in Nat /\ credits <= MaxCredits
      /\ credits + Cardinality(charged) + Cardinality(Extra) >= MaxCredits
  BY CreditSizes DEF CreditsComeBack, Extra
<1>00. Types'
  BY TypesNext
<1>000. /\ credits' \in Nat /\ Cardinality(charged') \in Nat /\ Cardinality(Extra') \in Nat
        /\ CreditsComeBack' <=> credits' + Cardinality(charged') + Cardinality(Extra') >= MaxCredits
  <2>1. published' \in Seq([by : Publisher, lane : Lane]) /\ Id' = 1 .. Len(published')
    BY <1>00 DEF Types, PublishedOK, Id
  <2>2. IsFiniteSet(Id')
    <3>1. Len(published') \in Nat
      BY <2>1
    <3>2. QED
      BY <2>1, <3>1, FS_Interval
  <2>3. credits' \in Nat /\ charged' \subseteq Id' /\ Extra' \subseteq Publisher
    BY <1>00, Constants DEF Types, CreditsOK, Extra
  <2>4. IsFiniteSet(charged') /\ IsFiniteSet(Extra')
    BY <2>2, <2>3, Constants, FS_Subset
  <2>5. Cardinality(charged') \in Nat /\ Cardinality(Extra') \in Nat
    BY <2>4, FS_CardinalityType
  <2>6. QED
    BY <2>3, <2>5 DEF CreditsComeBack, Extra
<1>1. ASSUME UNCHANGED <<credits, charged>>, Extra' = Extra PROVE CreditsComeBack'
  BY <1>0, <1>000, <1>1
<1>2. CASE SubscriberStep \/ EnableSharding \/ UNCHANGED busVars
  BY <1>1, <1>2, SubscriberTypes DEF Extra
<1>3. ASSUME NEW p \in Publisher, NEW lane \in Lanes, NEW how \in Apis, Publish(p, lane, how)
      PROVE  CreditsComeBack'
  <2> DEFINE n == Len(published) + 1
  <2>1. /\ n \notin Id
        /\ \/ credits' = credits /\ charged' = charged
           \/ credits > 0 /\ credits' = credits - 1 /\ charged' = charged \cup {n}
    BY <1>3, PublishStep
  <2>2. PICK r : PubStep(p, r) /\ r.extra = FALSE /\ pub[p].pc = "idle"
    BY <1>3, PublishStep
  <2>3. p \notin Extra
    BY <2>2 DEF Extra, PubsGood, PubGood
  <2>4. Extra' = Extra
    BY <2>2, <2>3, ExtraStep, ZenonT(30)
  <2>5. n \notin charged
    BY <2>1 DEF Types, CreditsOK
  <2> HIDE DEF n
  <2>6. Cardinality(charged \cup {n}) = Cardinality(charged) + 1
    BY <1>0, <2>5, FS_AddElement
  <2>7. Cardinality(Extra') = Cardinality(Extra)
    BY <2>4, Zenon
  <2>8. CASE credits' = credits /\ charged' = charged
    BY <1>1, <2>4, <2>8
  <2>9. CASE credits > 0 /\ credits' = credits - 1 /\ charged' = charged \cup {n}
    <3>1. Cardinality(charged') = Cardinality(charged) + 1
      BY <2>6, <2>9
    <3>2. QED
      BY <1>0, <1>000, <2>7, <2>9, <3>1
  <2>10. QED
    BY <2>1, <2>8, <2>9
<1>4. ASSUME NEW s \in Shard, WorkerStep(s) PROVE CreditsComeBack'
  <2>1. CASE ReleaseBatch(s)
    <3>1. /\ credits' = Released(Cardinality(worker[s].taken)) /\ charged' = charged \ worker[s].taken
          /\ pub' = pub /\ IsFiniteSet(worker[s].taken)
      BY <2>1, ReleaseStep
    <3>2. /\ Cardinality(worker[s].taken) \in Nat
          /\ Cardinality(charged') + Cardinality(worker[s].taken) >= Cardinality(charged)
      BY <1>0, <3>1, SetLosesSet
    <3>3. credits' = MaxCredits \/ credits' = credits + Cardinality(worker[s].taken)
      BY <3>1, <3>2, ReleasedType DEF Types
    <3>4. Extra' = Extra
      BY <3>1 DEF Extra
    <3>5. QED
      BY <1>0, <1>000, <3>2, <3>3, <3>4
  <2>2. CASE Pop(s) \/ Merge(s) \/ EndBatch(s) \/ Wait(s) \/ Woken(s)
    <3>1. UNCHANGED <<credits, charged, pub>>
      BY <2>2, PopStep, MergeStep, WorkerIdleStep
    <3>2. QED
      BY <1>1, <3>1 DEF Extra
  <2>3. QED
    BY <1>4, <2>1, <2>2 DEF WorkerStep
<1>5. ASSUME NEW p \in Publisher, PublisherStep(p) PROVE CreditsComeBack'
  <2>0. PubsOK /\ PubGood(p, pub[p]) /\ pub[p] \in PubType /\ pub[p].extra \in BOOLEAN
    BY DEF Types, PubsOK, PubsGood, PubType
  <2>1. ASSUME NEW pc \in PubPC, Goto(p, pc) PROVE Extra' = Extra
    <3>1. PICK r : PubStep(p, r) /\ r.extra = pub[p].extra
      BY <2>0, <2>1, GotoStep
    <3>2. QED
      BY <3>1, ExtraStep
  <2>2. ASSUME Done(p), pub[p].extra = FALSE PROVE Extra' = Extra
    BY <2>2, DoneStep, IdleType, ExtraStep
  <2>3. CASE Bypass(p) \/ Push(p) \/ Full(p) \/ Direct(p)
    <3>1. UNCHANGED <<credits, charged>> /\ \E pc \in PubPC : Goto(p, pc)
      BY <2>3 DEF Bypass, Push, Full, Direct, PubPC
    <3>2. QED
      BY <1>1, <2>1, <3>1
  <2>4. CASE NotifyWorker(p)
    <3>1. UNCHANGED <<credits, charged>> /\ AfterNotify(p)
      BY <2>4 DEF NotifyWorker
    <3>2. CASE pub[p].extra = TRUE
      BY <1>1, <2>1, <3>1, <3>2 DEF AfterNotify, PubPC
    <3>3. CASE pub[p].extra = FALSE
      BY <1>1, <2>2, <3>1, <3>3 DEF AfterNotify
    <3>4. QED
      BY <2>0, <3>2, <3>3
  <2>5. CASE BuyRetry(p)
    <3>1. charged' = charged /\ pub[p].pc = "full"
      BY <2>5 DEF BuyRetry, At
    <3>2. CASE Goto(p, "refused") /\ credits' = credits
      BY <1>1, <2>1, <3>1, <3>2 DEF PubPC
    <3>3. CASE /\ credits > 0 /\ credits' = credits - 1
               /\ pub' = [pub EXCEPT ![p].pc = "retry", ![p].extra = TRUE]
      <4> DEFINE r == [pub[p] EXCEPT !.pc = "retry", !.extra = TRUE]
      <4>1. r \in PubType /\ r.extra = TRUE
        BY <2>0 DEF PubType, PubPC
      <4>2. pub' = [pub EXCEPT ![p] = r]
        BY <2>0, <3>3 DEF PubsOK
      <4> HIDE DEF r
      <4>3. Extra' = Extra \cup {p}
        BY <4>1, <4>2, ExtraStep DEF PubStep
      <4>4. p \notin Extra
        BY <2>0, <3>1 DEF Extra, PubGood
      <4>5. Cardinality(Extra') = Cardinality(Extra) + 1
        BY <1>0, <4>3, <4>4, FS_AddElement
      <4>6. QED
        BY <1>0, <1>000, <3>1, <3>3, <4>5
    <3>4. QED
      BY <2>5, <3>2, <3>3 DEF BuyRetry
  <2>6. CASE ReturnExtra(p)
    <3>1. charged' = charged /\ credits' = Released(1)
      BY <2>6 DEF ReturnExtra
    <3>2. credits' = MaxCredits \/ credits' = credits + 1
      BY <3>1, ReleasedType DEF Types
    <3>3. Extra' = Extra \ {p}
      <4>1. CASE Done(p)
        BY <4>1, DoneStep, IdleType, ExtraStep
      <4>2. CASE pub' = [pub EXCEPT ![p].pc = "refused", ![p].extra = FALSE]
        <5> DEFINE r == [pub[p] EXCEPT !.pc = "refused", !.extra = FALSE]
        <5>1. r \in PubType /\ r.extra = FALSE
          BY <2>0 DEF PubType, PubPC
        <5>2. pub' = [pub EXCEPT ![p] = r]
          BY <2>0, <4>2 DEF PubsOK
        <5> HIDE DEF r
        <5>3. QED
          BY <5>1, <5>2, ExtraStep DEF PubStep
      <4>3. QED
        BY <2>6, <4>1, <4>2 DEF ReturnExtra
    <3>4. Cardinality(Extra') + 1 >= Cardinality(Extra)
      BY <1>0, <3>3, SetLoses
    <3>5. QED
      BY <1>0, <1>000, <3>1, <3>2, <3>4
  <2>7. CASE Refused(p)
    <3>1. /\ credits' = IF Ev(p) \in charged THEN Released(1) ELSE credits
          /\ charged' = charged \ {Ev(p)} /\ Goto(p, "direct")
      BY <2>7 DEF Refused
    <3>2. Extra' = Extra
      BY <2>1, <3>1 DEF PubPC
    <3>3. /\ Ev(p) \in charged => Cardinality(charged') + 1 = Cardinality(charged)
          /\ Ev(p) \notin charged => Cardinality(charged') = Cardinality(charged)
      BY <1>0, <3>1, SetLoses
    <3>4. Ev(p) \in charged => credits' = MaxCredits \/ credits' = credits + 1
      BY <3>1, ReleasedType DEF Types
    <3>5. QED
      BY <1>0, <1>000, <3>1, <3>2, <3>3, <3>4
  <2>8. CASE Sample(p)
    <3>1. /\ UNCHANGED <<credits, charged>>
          /\ pub' = [pub EXCEPT ![p].pc = "admit", ![p].queued = SenderLen]
      BY <2>8 DEF Sample
    <3>2. \A q \in Publisher : pub'[q].extra = pub[q].extra
      BY <2>0, <3>1 DEF PubsOK, PubType
    <3>3. Extra' = Extra
      BY <3>2 DEF Extra
    <3>4. QED
      BY <1>1, <3>1, <3>3
  <2>9. CASE Admit(p) \/ Send(p)
    <3>1. /\ UNCHANGED <<credits, charged>> /\ (Done(p) \/ Goto(p, "send"))
          /\ pub[p].pc \in {"admit", "send"}
      BY <2>9 DEF Admit, Send, At
    <3>2. pub[p].extra = FALSE
      BY <2>0, <3>1 DEF PubGood
    <3>3. "send" \in PubPC
      BY DEF PubPC
    <3>4. Extra' = Extra
      BY <2>1, <2>2, <3>1, <3>2, <3>3
    <3>5. QED
      BY <1>1, <3>1, <3>4
  <2>10. QED
    BY <1>5, <2>3, <2>4, <2>5, <2>6, <2>7, <2>8, <2>9 DEF PublisherStep
<1>6. QED
  BY <1>2, <1>3, <1>4, <1>5 DEF BusNext, SubscriberStep

-----------------------------------------------------------------------------
(* Critical events.                                                        *)

\* A critical event the side channel has not seen is still before it.
Ahead(e) == \E p \in Publisher : pub[p].ev = e /\ pub[p].pc \in {"route", "direct"}
CritInv  == \A e \in Id : LaneOf(e) = "critical" /\ outcome[e] = {} => Ahead(e)

LEMMA CritImplied == CritInv => CriticalNoticed
BY DEF CritInv, Ahead, CriticalNoticed, Ev

LEMMA CritQuiet ==
    ASSUME CritInv, UNCHANGED <<published, pub, outcome>>
    PROVE  CritInv'
BY DEF CritInv, Ahead, Id, LaneOf

\* What send_critical_mpsc records of an event is never nothing.
LEMMA CritSent ==
    ASSUME Types, NEW e \in Id, SendCritical(e)
    PROVE  outcome'[e] # {} /\ \A d \in Id : d # e => outcome'[d] = outcome[d]
<1> DEFINE kept == critTx \cap critRx
           took == {l \in kept : inbox[l] < CritCap}
           R == SUBSET {"delivered", "dropped", "fallback"}
           new == (IF took # {} THEN {"delivered"} ELSE {})
                  \cup (IF kept # took THEN {"dropped"} ELSE {})
                  \cup (IF NobodyListed(kept, took) THEN {"fallback"} ELSE {})
<1>1. outcome' = [outcome EXCEPT ![e] = new]
  BY DEF SendCritical
<1>2. new # {} /\ new \in R
  BY DEF NobodyListed
<1> HIDE DEF new
<1>3. outcome \in Seq(R) /\ Len(outcome) = Len(published)
  BY DEF Types, CritOK
<1>4. Id = 1 .. Len(outcome)
  BY <1>3 DEF Id
<1> HIDE DEF R
<1>5. /\ [outcome EXCEPT ![e] = new][e] = new
      /\ \A d \in Id : d # e => [outcome EXCEPT ![e] = new][d] = outcome[d]
  BY <1>2, <1>3, <1>4, ReplaceIn
<1>6. QED
  BY <1>1, <1>2, <1>5

LEMMA CritPublisher ==
    ASSUME Types, PubsGood, CritInv, NEW p \in Publisher, PublisherStep(p)
    PROVE  CritInv'
<1>1. published' = published
  BY PublisherGood
<1>2. Id' = Id /\ \A e : LaneOf(e)' = LaneOf(e)
  BY <1>1 DEF Id, LaneOf
<1>3. PubsOK /\ PubGood(p, pub[p])
  BY DEF Types, PubsGood
<1>4. SUFFICES ASSUME NEW e \in Id, LaneOf(e) = "critical", outcome'[e] = {}
               PROVE  Ahead(e)'
  BY <1>2 DEF CritInv
<1> USE DEF shardVars, ringVars, dsVars, critVars, At
<1>5. CASE Direct(p)
  <2>1. PICK r : PubStep(p, r)
    BY <1>3, <1>5, GotoStep DEF Direct, PubPC
  <2>2. \A q \in Publisher : pub'[q] = IF q = p THEN r ELSE pub[q]
    BY <1>3, <2>1, PubOthers
  <2>3. Ev(p) \in Id
    BY <1>3, <1>5 DEF Direct, PubGood, Ev
  <2>4. e # Ev(p)
    BY <1>4, <1>5, <2>3, CritSent DEF Direct
  <2>5. outcome[e] = {}
    BY <1>4, <1>5, <2>3, <2>4, CritSent DEF Direct
  <2>6. PICK q \in Publisher : pub[q].ev = e /\ pub[q].pc \in {"route", "direct"}
    BY <1>4, <2>5 DEF CritInv, Ahead
  <2>7. q # p
    BY <2>4, <2>6 DEF Ev
  <2>8. QED
    BY <2>2, <2>6, <2>7 DEF Ahead
<1>6. CASE ~ Direct(p)
  <2>1. outcome' = outcome
    BY <1>6 DEF PublisherStep, Bypass, Push, NotifyWorker, Full, BuyRetry, ReturnExtra, Refused,
                Sample, Admit, Send
  <2>2. PICK q \in Publisher : pub[q].ev = e /\ pub[q].pc \in {"route", "direct"}
    BY <1>4, <2>1 DEF CritInv, Ahead
  <2>3. CASE q # p
    <3>1. pub'[q] = pub[q]
      BY <1>3, <1>6, <2>3 DEF PublisherStep, Bypass, Push, NotifyWorker, Full, BuyRetry,
         ReturnExtra, Refused, Sample, Admit, Send, Goto, Done, AfterNotify, PubsOK
    <3>2. QED
      BY <2>2, <3>1 DEF Ahead
  <2>4. CASE q = p
    <3>1. ~ Shardable(LaneOf(Ev(p)))
      BY <1>4, <2>2, <2>4, Constants DEF Shardable, Unordered, Ev
    <3>2. Bypass(p)
      BY <1>6, <2>2, <2>4, <3>1 DEF PublisherStep, Push, NotifyWorker, Full, BuyRetry,
         ReturnExtra, Refused, Sample, Admit, Send, Direct
    <3>3. Goto(p, "direct") /\ "direct" \in PubPC
      BY <3>2 DEF Bypass, PubPC
    <3>4. PICK r : PubStep(p, r) /\ r.pc = "direct" /\ r.ev = pub[p].ev
      BY <1>3, <3>3, GotoStep
    <3>5. pub'[p] = r
      BY <1>3, <3>4, PubOthers
    <3>6. QED
      BY <2>2, <2>4, <3>4, <3>5 DEF Ahead
  <2>5. QED
    BY <2>3, <2>4
<1>7. QED
  BY <1>5, <1>6

LEMMA CritPublish ==
    ASSUME Types, PubsGood, CritInv, NEW p \in Publisher, NEW lane \in Lanes, NEW how \in Apis,
           Publish(p, lane, how)
    PROVE  CritInv'
<1>1. PICK n : /\ n \notin Id /\ Id' = Id \cup {n} /\ n = Len(published) + 1
               /\ \A e \in Id : published'[e] = published[e]
               /\ outcome' = Append(outcome, {}) /\ pub[p].pc = "idle"
               /\ \E r : PubStep(p, r) /\ r.pc \in {"route", "direct"} /\ r.ev = n
  BY PublishStep, ZenonT(30)
<1>2. PICK r : PubStep(p, r) /\ r.pc \in {"route", "direct"} /\ r.ev = n
  BY <1>1
<1>3. \A q \in Publisher : pub'[q] = IF q = p THEN r ELSE pub[q]
  BY <1>2, PubOthers DEF Types
<1>4. \A e \in Id : outcome'[e] = outcome[e]
  <2> DEFINE R == SUBSET {"delivered", "dropped", "fallback"}
  <2>1. outcome \in Seq(R) /\ Id = 1 .. Len(outcome) /\ {} \in R
    BY DEF Types, CritOK, Id
  <2> HIDE DEF R
  <2>2. QED
    BY <1>1, <2>1
<1>5. SUFFICES ASSUME NEW e \in Id', LaneOf(e)' = "critical", outcome'[e] = {}
               PROVE  Ahead(e)'
  BY DEF CritInv
<1>6. CASE e = n
  BY <1>2, <1>3, <1>6 DEF Ahead
<1>7. CASE e \in Id
  <2>1. LaneOf(e) = "critical" /\ outcome[e] = {}
    BY <1>1, <1>4, <1>5, <1>7 DEF LaneOf
  <2>2. PICK q \in Publisher : pub[q].ev = e /\ pub[q].pc \in {"route", "direct"}
    BY <1>7, <2>1 DEF CritInv, Ahead
  <2>3. q # p
    BY <1>1, <2>2
  <2>4. QED
    BY <1>3, <2>2, <2>3 DEF Ahead
<1>8. QED
  BY <1>1, <1>5, <1>6, <1>7

LEMMA CritNext == Types /\ PubsGood /\ CritInv /\ [BusNext]_busVars => CritInv'
<1> SUFFICES ASSUME Types, PubsGood, CritInv, [BusNext]_busVars PROVE CritInv'
  OBVIOUS
<1>1. CASE SubscriberStep \/ EnableSharding \/ UNCHANGED busVars
  BY <1>1, SubscriberTypes, CritQuiet
<1>2. ASSUME NEW s \in Shard, WorkerStep(s) PROVE CritInv'
  <2>1. UNCHANGED <<published, pub, outcome>>
    BY <1>2 DEF WorkerStep, Pop, EndBatch, Wait, Woken, Merge, ReleaseBatch, critVars
  <2>2. QED
    BY <2>1, CritQuiet
<1>3. QED
  BY <1>1, <1>2, CritPublisher, CritPublish DEF BusNext, SubscriberStep

-----------------------------------------------------------------------------
(* The theorems.                                                           *)

BusInv == Types /\ PubsGood /\ PlaceInv /\ CreditsComeBack /\ CritInv

LEMMA BusInvInit == BusInit => BusInv
<1> SUFFICES ASSUME BusInit PROVE BusInv
  OBVIOUS
<1>1. Types /\ PlaceInv
  BY TypesInit, PlaceInit
<1>2. PubsGood
  BY IdleType DEF BusInit, PubsGood, PubGood
<1>3. CreditsComeBack
  <2>1. charged = {} /\ Extra = {} /\ credits = MaxCredits
    BY IdleType DEF BusInit, Extra
  <2>2. Cardinality(charged) = 0 /\ Cardinality(Extra) = 0
    BY <2>1, FS_EmptySet
  <2>3. QED
    BY <2>1, <2>2, Constants DEF CreditsComeBack, Extra
<1>4. CritInv
  BY DEF BusInit, CritInv, Id
<1>5. QED
  BY <1>1, <1>2, <1>3, <1>4 DEF BusInv

\* Every event has one place, what a publisher holds is its latest event,
\* credits are accounted for and critical events are noticed: the invariant
\* the theorems below rest on.
THEOREM BusInvariant == BusSpec => []BusInv
<1>1. BusInv /\ [BusNext]_busVars => BusInv'
  BY TypesNext, PlaceNext, CreditsNext, CritNext DEF BusInv
<1>2. QED
  BY <1>1, BusInvInit, PTL DEF BusSpec

\* The queues of the shards, the batches of their workers and the pool of
\* credits keep within the bounds the code gives them.
THEOREM BusTypesProved == BusSpec => []BusTypeOK
<1>1. BusInv => BusTypeOK
  BY TypesImplied DEF BusInv
<1>2. QED
  BY <1>1, BusInvariant, PTL

\* The fall-back from a full shard to the ring neither loses nor doubles an
\* event, for any number of publishers, shards and workers.
THEOREM EachEventOnceProved == BusSpec => []EachEventOnce
<1>1. BusInv => EachEventOnce
  BY OnceImplied DEF BusInv
<1>2. QED
  BY <1>1, BusInvariant, PTL

\* Order-sensitive events of a publisher reach the ring in the order of its
\* calls.
THEOREM OrderKeptProved == BusSpec => []OrderKept
<1>1. BusInv => OrderKept
  BY DEF BusInv, PlaceInv
<1>2. QED
  BY <1>1, BusInvariant, PTL

\* No interleaving of publishers, retries and workers leaks a credit.
THEOREM CreditsProved == BusSpec => []CreditsComeBack
<1>1. BusInv => CreditsComeBack
  BY DEF BusInv
<1>2. QED
  BY <1>1, BusInvariant, PTL

\* A critical event that passed the side channel was delivered, counted as
\* dropped or handed to the fallback sink.
THEOREM CriticalNoticedProved == BusSpec => []CriticalNoticed
<1>1. BusInv => CriticalNoticed
  BY CritImplied DEF BusInv
<1>2. QED
  BY <1>1, BusInvariant, PTL
=============================================================================
