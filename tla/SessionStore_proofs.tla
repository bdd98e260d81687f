------------------------ MODULE SessionStore_proofs ------------------------
(***************************************************************************)
(* Proofs about the session store, for every number of sessions, tasks,    *)
(* events, forks and crashes, every segment and batch size.                *)
(*                                                                         *)
(* BaseInv is the types, what segment ids stand for and where forks begin; *)
(* it holds whatever fails.  FileInv supposes that writes and fsyncs do    *)
(* not fail: it says what the files are and how the open sessions fit      *)
(* them.  The files are contiguous and only grow because of it.            *)
(***************************************************************************)
EXTENDS SessionStore, Ordering_proofs, SequenceTheorems

-----------------------------------------------------------------------------
(* The types, whatever fails.                                              *)

\* What a file holds: rows below the limit, events that were appended.
Item(n) == [seq : Nat, row : 0 .. (MaxRows - 1), ev : 0 .. n]
RowOf(n) == [sess : Session, off : Nat, seg : Nat, ev : 1 .. n]
CurType == [idx : Nat, row : 0 .. MaxRows, next : Nat, first : Nat, id : Nat]
PCs == {"idle", "take", "group", "write", "sync", "index", "confirm"}

QueueOK ==
  /\ log \in Seq(Session) /\ Len(log) <= MaxEvents
  /\ pending \in Seq(1 .. Len(log)) /\ ok \subseteq 1 .. Len(log)

FlushOK ==
  /\ fpc \in [Flusher -> PCs] /\ DOMAIN sess = Flusher
  /\ groups \in [Flusher -> [Session -> Seq(1 .. Len(log))]]
  /\ rows \in [Flusher -> SUBSET RowOf(Len(log))] /\ \A f \in Flusher : IsFiniteSet(rows[f])
  /\ metas \in [Flusher -> Seq(SegmentRow)]

LockOK ==
  /\ lock \in Flusher \cup {Nobody}
  /\ \A f \in Flusher : fpc[f] \in {"write", "sync"} => lock = f
  /\ \A f \in Flusher : lock = f => fpc[f] \in {"group", "write", "sync"}

\* A flush that writes has its session open and something to write.
WritingOK ==
  \A f \in Flusher : fpc[f] \in {"write", "sync"} =>
    /\ sess[f] \in Session /\ cur[sess[f]] # NoState /\ groups[f][sess[f]] # <<>>
    /\ fpc[f] = "sync" => cur[sess[f]].row < MaxRows

FilesOK ==
  file \in [Session -> Seq(Seq(Item(Len(log))))]

OpenOK ==
  /\ cur \in [Session -> CurType] /\ dirty \in [Session -> Nat]
  /\ \A s \in Session : cur[s] # NoState =>
       cur[s].idx \in DOMAIN file[s] /\ cur[s].next = cur[s].first + cur[s].row
  /\ \A s \in Session : dirty[s] > 0 =>
       /\ cur[s] # NoState /\ cur[s].row < MaxRows
       /\ dirty[s] <= Len(file[s][cur[s].idx])

IndexOK ==
  /\ segments \subseteq SegmentRow /\ IsFiniteSet(segments)
  /\ events \subseteq RowOf(Len(log)) /\ nextId \in Nat \ {0}
  /\ lastOff \in [Session -> Nat]

GhostOK ==
  /\ base = [s \in Session |-> base[s]] /\ \A s \in Session : base[s].from \in Nat
  /\ forks \in Nat /\ crashes \in Nat

StoreTypes ==
  QueueOK /\ FlushOK /\ LockOK /\ WritingOK /\ FilesOK /\ OpenOK /\ IndexOK /\ GhostOK

-----------------------------------------------------------------------------
(* Segment ids.                                                            *)

\* Id i stands for segment k of session s, copied from row p (0: its own): in
\* the index, in the hands of a flush, or in the open session.
InIndex(i, s, k, p) == \E r \in segments : r.id = i /\ r.sess = s /\ r.idx = k /\ r.parent = p
InMetas(i, s, k, p) ==
  \E f \in Flusher : \E j \in DOMAIN metas[f] :
    metas[f][j].id = i /\ metas[f][j].sess = s /\ metas[f][j].idx = k /\ metas[f][j].parent = p
IsOpen(i, s, k, p) ==
  s \in Session /\ cur[s] # NoState /\ cur[s].id = i /\ cur[s].idx = k /\ p = 0
Stands(i, s, k, p) == InIndex(i, s, k, p) \/ InMetas(i, s, k, p) \/ IsOpen(i, s, k, p)

IdsBelow == \A i, s, k, p : Stands(i, s, k, p) => 0 < i /\ i < nextId
IdsUnique ==
  \A i, s, k, p, t, l, o : Stands(i, s, k, p) /\ Stands(i, t, l, o) => s = t /\ k = l /\ p = o
RowsUnique == \A r, q \in segments : r.id = q.id => r = q
MetasOwn == \A f \in Flusher : \A i \in DOMAIN metas[f] : metas[f][i].parent = 0

IdsOK == IdsBelow /\ IdsUnique /\ RowsUnique /\ MetasOwn

\* The copied rows of a forked session end right before its fork point.
ForkOK ==
  \A s \in Session :
    /\ file[s] = <<>> => base[s].from = 0
    /\ base[s].from = 0 => CopiedRows(s) = {}
    /\ base[s].from > 0 => \E r \in CopiedRows(s) : r.end + 1 = base[s].from
    /\ \A r \in CopiedRows(s) : r.end < base[s].from

-----------------------------------------------------------------------------
(* The files, as long as no write and no fsync fails.                      *)

\* The first sequence number of segment k.
From(s, k) == base[s].from + (k - 1) * MaxRows

\* Every record is at its place; incomplete bytes end the last file.
Places(s) ==
  \A k \in DOMAIN file[s] : \A i \in DOMAIN file[s][k] :
    /\ file[s][k][i].ev = 0 => i = Len(file[s][k]) /\ k = Len(file[s])
    /\ file[s][k][i].ev # 0 => file[s][k][i].seq = From(s, k) + i - 1 /\ file[s][k][i].row = i - 1

\* All files but the last are full.
Full(s) == \A k \in DOMAIN file[s] : k < Len(file[s]) => Len(file[s][k]) = MaxRows

Sound(q) == \A i \in DOMAIN q : q[i].ev # 0
Void(q) == \A i \in DOMAIN q : q[i].ev = 0

\* The open segment is the last file, or a full one before a file that a crash
\* left without a record.
StateFits(s) ==
  cur[s] # NoState =>
    /\ cur[s].first = From(s, cur[s].idx)
    /\ cur[s].row + dirty[s] = Len(file[s][cur[s].idx])
    /\ Sound(file[s][cur[s].idx])
    /\ \/ cur[s].idx = Len(file[s])
       \/ /\ cur[s].idx + 1 = Len(file[s]) /\ cur[s].row = MaxRows
          /\ Void(file[s][Len(file[s])])

Fits(s) == Places(s) /\ Full(s) /\ StateFits(s)

\* What is written and not synced is what the flush in between has to sync.
Written(f) ==
  /\ dirty[sess[f]] = Take(f)
  /\ \A i \in 1 .. Take(f) :
       file[sess[f]][cur[sess[f]].idx][cur[sess[f]].row + i] = Records(f, Take(f))[i]

SyncOK ==
  /\ \A f \in Flusher : fpc[f] = "sync" => Written(f)
  /\ \A s \in Session : dirty[s] > 0 => \E f \in Flusher : fpc[f] = "sync" /\ sess[f] = s

FileInv == (\A s \in Session : Fits(s)) /\ SyncOK

-----------------------------------------------------------------------------
(* The index and the events.                                               *)

\* The i-th record of segment k is on disk for good.
Kept(s, k, i) ==
  /\ k \in DOMAIN file[s] /\ i \in DOMAIN file[s][k] /\ file[s][k][i].ev # 0
  /\ k = cur[s].idx => i <= Len(file[s][k]) - dirty[s]

OnDisk(q) ==
  \E k, i \in Nat : Kept(q.sess, k, i) /\ file[q.sess][k][i].seq = q.off /\ file[q.sess][k][i].ev = q.ev

\* A segment row begins with its file and ends at a record of it.
RowOnDisk(r) ==
  /\ r.start = From(r.sess, r.idx) /\ r.start <= r.end
  /\ Kept(r.sess, r.idx, r.end - r.start + 1)

\* The last offset that a session notes is the one of a record on disk.
Noted(s) == lastOff[s] > 0 => \E k, i \in Nat : Kept(s, k, i) /\ file[s][k][i].seq + 1 = lastOff[s]

EventsOnDisk == \A q \in events : OnDisk(q)
RowsOnDisk == \A f \in Flusher : \A q \in rows[f] : OnDisk(q) /\ cur[q.sess] # NoState
SegmentsOnDisk == \A r \in segments : r.parent = 0 => RowOnDisk(r)
Elems(q) == {q[i] : i \in DOMAIN q}
MetasOnDisk == \A f \in Flusher : \A m \in Elems(metas[f]) : RowOnDisk(m) /\ cur[m.sess] # NoState
OffsetsNoted == \A s \in Session : Noted(s)

RowsOK == EventsOnDisk /\ RowsOnDisk /\ SegmentsOnDisk /\ MetasOnDisk /\ OffsetsNoted

SameKey(r, q) == r.sess = q.sess /\ r.off = q.off

KeysOK ==
  /\ \A f, g \in Flusher : f # g => \A r \in rows[f], q \in rows[g] : ~SameKey(r, q)
  /\ \A f \in Flusher : fpc[f] # "confirm" => \A r \in rows[f], q \in events : ~SameKey(r, q)
  /\ \A f \in Flusher : fpc[f] = "confirm" => rows[f] \subseteq events


-----------------------------------------------------------------------------
(* Numbers and sequences.                                                  *)

LEMMA MinIs ==
  ASSUME NEW S \in SUBSET Nat, S # {}
  PROVE  Min(S) \in S /\ \A x \in S : Min(S) <= x
<1>1. \E m \in S : \A n \in S : m <= n
  BY LeastNumber
<1>2. QED
  BY <1>1, Zenon DEF Min

LEMMA MaxIs ==
  ASSUME NEW S \in SUBSET Nat, NEW n \in S, \A x \in S : x <= n
  PROVE  Max(S) = n
<1> DEFINE m == Max(S)
<1>1. m \in S /\ \A y \in S : m >= y
  <2>1. \E k \in S : \A y \in S : k >= y
    OBVIOUS
  <2>2. QED
    BY <2>1, Zenon DEF Max
<1> HIDE DEF m
<1>2. m = n
  BY <1>1
<1>3. QED
  BY <1>2 DEF m

LEMMA MaxBelow ==
  ASSUME NEW n \in Nat, NEW S \in SUBSET (0 .. n), S # {}
  PROVE  Max(S) \in S /\ \A x \in S : x <= Max(S)
<1> DEFINE D == {n - x : x \in S}
<1>1. D \in SUBSET Nat /\ D # {}
  <2>1. D \in SUBSET Nat
    OBVIOUS
  <2>2. PICK x : x \in S
    OBVIOUS
  <2>3. n - x \in D
    BY <2>2
  <2>4. QED
    BY <2>1, <2>3
<1>2. PICK d \in D : \A e \in D : d <= e
  <2> HIDE DEF D
  <2> QED
    BY <1>1, LeastNumber
<1>3. PICK m \in S : d = n - m
  OBVIOUS
<1>4. \A x \in S : x <= m
  BY <1>2, <1>3
<1>5. S \in SUBSET Nat
  OBVIOUS
<1>6. Max(S) = m
  BY <1>4, <1>5, MaxIs
<1>7. QED
  BY <1>4, <1>6

LEMMA MinOfTwo ==
  ASSUME NEW a \in Nat, NEW b \in Nat
  PROVE  Min({a, b}) = IF a <= b THEN a ELSE b
<1> DEFINE m == Min({a, b})
<1>1. m \in {a, b} /\ \A x \in {a, b} : m <= x
  BY MinIs
<1>2. QED
  BY <1>1

\* What a reader of a file gets: the records before incomplete bytes.
LEMMA CleanIs ==
  ASSUME NEW T, NEW q \in Seq(T)
  PROVE  /\ Clean(q) \in Seq(T) /\ Len(Clean(q)) \in Nat /\ Len(Clean(q)) <= Len(q)
         /\ DOMAIN Clean(q) = 1 .. Len(Clean(q))
         /\ \A i \in 1 .. Len(Clean(q)) : Clean(q)[i] = q[i] /\ q[i].ev # 0
         /\ Len(Clean(q)) < Len(q) => q[Len(Clean(q)) + 1].ev = 0
<1> DEFINE cut == {i \in DOMAIN q : q[i].ev = 0}
<1>1. DOMAIN q = 1 .. Len(q) /\ Len(q) \in Nat
  OBVIOUS
<1>2. CASE cut = {}
  BY <1>1, <1>2 DEF Clean
<1>3. CASE cut # {}
  <2> DEFINE m == Min(cut)
  <2>1. m \in cut /\ \A x \in cut : m <= x
    <3>1. cut \in SUBSET Nat
      BY <1>1
    <3> HIDE DEF cut
    <3>2. QED
      BY <1>3, <3>1, MinIs
  <2>2. m \in 1 .. Len(q) /\ q[m].ev = 0
    BY <1>1, <2>1
  <2>3. Clean(q) = SubSeq(q, 1, m - 1)
    BY <1>3 DEF Clean
  <2>4. \A i \in 1 .. m - 1 : i \in DOMAIN q /\ q[i].ev # 0
    <3> SUFFICES ASSUME NEW i \in 1 .. m - 1 PROVE i \in DOMAIN q /\ q[i].ev # 0
      OBVIOUS
    <3>1. i \in DOMAIN q /\ ~(m <= i)
      <4> HIDE DEF m
      <4> QED
        BY <1>1, <2>2
    <3>2. i \notin cut
      BY <2>1, <3>1
    <3>3. QED
      BY <3>1, <3>2
  <2> HIDE DEF m, cut
  <2>5. /\ SubSeq(q, 1, m - 1) \in Seq(T) /\ Len(SubSeq(q, 1, m - 1)) = m - 1
        /\ \A i \in 1 .. m - 1 : SubSeq(q, 1, m - 1)[i] = q[i]
    <3>1. m - 1 \in Int /\ \A i \in 1 .. m - 1 : q[i] \in T
      BY <1>1, <2>2, <2>4
    <3>2. /\ SubSeq(q, 1, m - 1) \in Seq(T)
          /\ Len(SubSeq(q, 1, m - 1)) = IF 1 <= m - 1 THEN (m - 1) - 1 + 1 ELSE 0
          /\ \A i \in 1 .. (m - 1) - 1 + 1 : SubSeq(q, 1, m - 1)[i] = q[1 + i - 1]
      BY <3>1, SubSeqProperties
    <3>3. QED
      BY <2>2, <3>2
  <2> DEFINE c == SubSeq(q, 1, m - 1)
  <2>6. c \in Seq(T) /\ Len(c) = m - 1 /\ DOMAIN c = 1 .. Len(c) /\ \A i \in 1 .. m - 1 : c[i] = q[i]
    BY <2>5
  <2>7. Clean(q) = c
    BY <2>3
  <2> HIDE DEF c
  <2>8. m - 1 \in Nat /\ m - 1 <= Len(q) /\ m - 1 + 1 = m
    BY <1>1, <2>2
  <2>9. QED
    BY <2>2, <2>4, <2>6, <2>7, <2>8
<1>4. QED
  BY <1>2, <1>3

LEMMA CleanEmpty ==
  Clean(<<>>) = <<>>
BY DEF Clean

LEMMA MaxFinite ==
  ASSUME NEW S \in SUBSET Nat, IsFiniteSet(S), S # {}
  PROVE  Max(S) \in S /\ \A x \in S : x <= Max(S)
<1> DEFINE C == {X \in SUBSET S : X # {} /\ ~\E m \in X : \A x \in X : x <= m}
<1>1. C = {}
  <2> SUFFICES ASSUME C # {} PROVE FALSE
    OBVIOUS
  <2>1. PICK X : Minimal(X, C)
    <3>1. C \in SUBSET (SUBSET S)
      OBVIOUS
    <3> HIDE DEF C
    <3>2. QED
      BY <3>1, LeastSubset
  <2>2. X \in C /\ \A Y \in C : Y \subseteq X => Y = X
    BY <2>1 DEF Minimal
  <2>3. X \subseteq Nat /\ X # {} /\ ~\E m \in X : \A x \in X : x <= m
    BY <2>2
  <2>4. PICK y \in X : TRUE
    BY <2>3
  <2> DEFINE Y == X \ {y}
  <2>5. Y \notin C /\ Y \in SUBSET S
    <3>1. Y \subseteq X /\ Y # X
      BY <2>4
    <3>2. Y \notin C
      <4> HIDE DEF C, Y
      <4> QED
        BY <2>2, <3>1
    <3>3. QED
      BY <2>2, <3>2
  <2>6. CASE Y = {}
    <3>1. \A x \in X : x = y
      BY <2>6
    <3>2. QED
      BY <2>3, <2>4, <3>1
  <2>7. CASE Y # {}
    <3>1. PICK m \in Y : \A x \in Y : x <= m
      BY <2>5, <2>7, Zenon
    <3>2. m \in X /\ \A x \in X : x = y \/ x <= m
      BY <3>1
    <3>3. m \in Nat /\ y \in Nat
      BY <2>3, <2>4, <3>2
    <3>4. CASE m <= y
      BY <2>3, <2>4, <3>2, <3>3, <3>4
    <3>5. CASE y <= m
      BY <2>3, <2>4, <3>2, <3>3, <3>5
    <3>6. QED
      BY <3>3, <3>4, <3>5
  <2>8. QED
    BY <2>6, <2>7
<1>2. \E m \in S : \A x \in S : x <= m
  <2>1. S \notin C
    BY <1>1
  <2>2. QED
    BY <2>1, Zenon
<1>3. PICK m \in S : \A x \in S : x <= m
  BY <1>2
<1>4. Max(S) = m
  BY <1>3, MaxIs
<1>5. QED
  BY <1>3, <1>4

\* The values of a function on a finite set.
LEMMA ImageFinite ==
  ASSUME NEW S, IsFiniteSet(S), NEW h, h = [x \in S |-> h[x]]
  PROVE  IsFiniteSet({h[x] : x \in S})
<1> DEFINE T == {h[x] : x \in S}
<1>1. h \in Surjection(S, T)
  <2>1. h \in [S -> T]
    OBVIOUS
  <2>2. \A t \in T : \E x \in S : h[x] = t
    OBVIOUS
  <2>3. QED
    BY <2>1, <2>2 DEF Surjection
<1> HIDE DEF T
<1>2. IsFiniteSet(T)
  BY <1>1, FS_Surjection
<1>3. QED
  BY <1>2 DEF T

-----------------------------------------------------------------------------
(* Type correctness.                                                       *)

LEMMA RowsPositive ==
  MaxRows \in Nat /\ MaxRows > 0
BY SessionStoreAssumption

LEMMA FileType ==
  ASSUME FilesOK, NEW s \in Session
  PROVE  /\ file[s] \in Seq(Seq(Item(Len(log)))) /\ Len(file[s]) \in Nat
         /\ DOMAIN file[s] = 1 .. Len(file[s])
         /\ \A k \in DOMAIN file[s] :
              /\ file[s][k] \in Seq(Item(Len(log))) /\ Len(file[s][k]) \in Nat
              /\ DOMAIN file[s][k] = 1 .. Len(file[s][k])
              /\ \A i \in DOMAIN file[s][k] : file[s][k][i] \in Item(Len(log))
BY DEF FilesOK

LEMMA StoreInit ==
  Init => StoreTypes
<1> SUFFICES ASSUME Init PROVE StoreTypes
  OBVIOUS
<1>1. QueueOK
  BY SessionStoreAssumption DEF Init, QueueOK
<1>2. FlushOK
  BY FS_EmptySet DEF Init, FlushOK, PCs, NoGroups
<1>3. LockOK
  BY SessionStoreAssumption DEF Init, LockOK
<1>4. WritingOK
  BY DEF Init, WritingOK
<1>5. FilesOK
  BY DEF Init, FilesOK
<1>6. OpenOK
  BY RowsPositive DEF Init, OpenOK, CurType, NoState
<1>7. IndexOK
  BY FS_EmptySet DEF Init, IndexOK
<1>8. GhostOK
  BY DEF Init, GhostOK
<1>9. QED
  BY <1>1, <1>2, <1>3, <1>4, <1>5, <1>6, <1>7, <1>8 DEF StoreTypes

\* The types only ask that events were appended, so they outlive an append.
LEMMA Grown ==
  ASSUME NEW n \in Nat
  PROVE  /\ Item(n) \subseteq Item(n + 1) /\ RowOf(n) \subseteq RowOf(n + 1)
         /\ 1 .. n \subseteq 1 .. n + 1
BY DEF Item, RowOf

LEMMA AppendTypes ==
  ASSUME StoreTypes, NEW f \in Flusher, NEW s \in Session, AppendEvent(f, s)
  PROVE  StoreTypes'
<1> DEFINE n == Len(log)
<1>1. /\ n \in Nat /\ log' = Append(log, s) /\ Len(log') = n + 1 /\ n < MaxEvents
      /\ pending' = Append(pending, n + 1)
      /\ fpc' = [fpc EXCEPT ![f] = IF Len(pending) + 1 >= BatchSize THEN "take" ELSE "idle"]
      /\ fpc[f] = "idle"
      /\ UNCHANGED <<cur, lock, lastOff, groups, sess, metas, rows, diskVars, indexVars, ghostVars>>
  BY DEF StoreTypes, QueueOK, AppendEvent
<1>2. Item(n) \subseteq Item(n + 1) /\ RowOf(n) \subseteq RowOf(n + 1) /\ 1 .. n \subseteq 1 .. n + 1
  BY <1>1, Grown
<1>3. QueueOK'
  <2>1. log' \in Seq(Session) /\ n + 1 <= MaxEvents
    BY <1>1, SessionStoreAssumption DEF StoreTypes, QueueOK
  <2>2. pending' \in Seq(1 .. n + 1)
    BY <1>1, <1>2 DEF StoreTypes, QueueOK
  <2>3. ok' \subseteq 1 .. n + 1
    BY <1>1, <1>2 DEF StoreTypes, QueueOK, ghostVars
  <2>4. QED
    BY <1>1, <2>1, <2>2, <2>3 DEF QueueOK
<1>4. FlushOK'
  <2>1. fpc' \in [Flusher -> PCs] /\ DOMAIN sess' = Flusher /\ metas' \in [Flusher -> Seq(SegmentRow)]
    BY <1>1 DEF StoreTypes, FlushOK, PCs
  <2>2. groups' \in [Flusher -> [Session -> Seq(1 .. n + 1)]]
    <3>1. Seq(1 .. n) \subseteq Seq(1 .. n + 1)
      BY <1>2
    <3>2. groups \in [Flusher -> [Session -> Seq(1 .. n)]] /\ groups' = groups
      BY <1>1 DEF StoreTypes, FlushOK
    <3>3. QED
      BY <3>1, <3>2
  <2>3. rows' \in [Flusher -> SUBSET RowOf(n + 1)] /\ \A g \in Flusher : IsFiniteSet(rows'[g])
    BY <1>1, <1>2 DEF StoreTypes, FlushOK
  <2>4. QED
    BY <1>1, <2>1, <2>2, <2>3 DEF FlushOK
<1>5. LockOK'
  BY <1>1 DEF StoreTypes, LockOK, FlushOK
<1>6. WritingOK'
  BY <1>1 DEF StoreTypes, WritingOK, FlushOK
<1>7. FilesOK'
  <2>1. Seq(Seq(Item(n))) \subseteq Seq(Seq(Item(n + 1)))
    <3>1. Seq(Item(n)) \subseteq Seq(Item(n + 1))
      BY <1>2
    <3>2. QED
      BY <3>1
  <2>2. file \in [Session -> Seq(Seq(Item(n)))] /\ file' = file
    BY <1>1 DEF StoreTypes, FilesOK, diskVars
  <2>3. QED
    BY <1>1, <2>1, <2>2 DEF FilesOK
<1>8. OpenOK'
  BY <1>1 DEF StoreTypes, OpenOK, diskVars
<1>9. IndexOK'
  BY <1>1, <1>2 DEF StoreTypes, IndexOK, indexVars
<1>10. GhostOK'
  BY <1>1 DEF StoreTypes, GhostOK, ghostVars
<1>11. QED
  BY <1>3, <1>4, <1>5, <1>6, <1>7, <1>8, <1>9, <1>10 DEF StoreTypes

\* The batch of one session.
LEMMA QueuedIs ==
  ASSUME QueueOK, NEW s
  PROVE  /\ Queued(s) \in Seq(1 .. Len(log))
         /\ \A i \in DOMAIN Queued(s) : log[Queued(s)[i]] = s /\ \E j \in DOMAIN pending : Queued(s)[i] = pending[j]
         /\ (\A i, j \in DOMAIN pending : pending[i] = pending[j] => i = j)
              => \A i, j \in DOMAIN Queued(s) : Queued(s)[i] = Queued(s)[j] => i = j
<1> DEFINE P == {i \in DOMAIN pending : log[pending[i]] = s}
           at == Ascending(P)
<1>1. Queued(s) = [i \in DOMAIN at |-> pending[at[i]]]
  BY DEF Queued
<1>2. pending \in Seq(1 .. Len(log)) /\ DOMAIN pending = 1 .. Len(pending) /\ Len(pending) \in Nat
  BY DEF QueueOK
<1>3. P \subseteq 1 .. Len(pending) /\ \A i \in P : i \in DOMAIN pending /\ log[pending[i]] = s /\ pending[i] \in 1 .. Len(log)
  BY <1>2
<1> HIDE DEF P
<1>4. IsFiniteSet(P) /\ P \in SUBSET Nat
  <2>1. IsFiniteSet(1 .. Len(pending)) /\ P \in SUBSET (1 .. Len(pending))
    BY <1>2, <1>3, FS_Interval
  <2>2. IsFiniteSet(P)
    BY <2>1, FS_Subset
  <2>3. QED
    BY <1>2, <1>3, <2>2
<1>5. at \in Seq(P) /\ \A i, j \in DOMAIN at : at[i] = at[j] => i = j
  BY <1>4, AscendingThere
<1> HIDE DEF at
<1>6. DOMAIN at = 1 .. Len(at) /\ Len(at) \in Nat /\ \A i \in DOMAIN at : at[i] \in P
  BY <1>5
<1>7. DOMAIN Queued(s) = 1 .. Len(at) /\ \A i \in DOMAIN at : Queued(s)[i] = pending[at[i]]
  BY <1>1, <1>6
<1>8. Queued(s) \in Seq(1 .. Len(log))
  <2> DEFINE N == 1 .. Len(log)
  <2>1. \A i \in DOMAIN at : pending[at[i]] \in N
    BY <1>3, <1>6
  <2> HIDE DEF N
  <2>2. Queued(s) \in [1 .. Len(at) -> N]
    BY <1>1, <1>6, <2>1
  <2>3. Queued(s) \in Seq(N)
    BY <1>6, <2>2
  <2>4. QED
    BY <2>3 DEF N
<1>9. \A i \in DOMAIN Queued(s) : log[Queued(s)[i]] = s /\ \E j \in DOMAIN pending : Queued(s)[i] = pending[j]
  <2> SUFFICES ASSUME NEW i \in DOMAIN Queued(s)
               PROVE  log[Queued(s)[i]] = s /\ \E j \in DOMAIN pending : Queued(s)[i] = pending[j]
    OBVIOUS
  <2>1. at[i] \in P /\ Queued(s)[i] = pending[at[i]]
    BY <1>6, <1>7
  <2>2. at[i] \in DOMAIN pending /\ log[pending[at[i]]] = s
    BY <1>3, <2>1
  <2>3. QED
    BY <2>1, <2>2
<1>10. ASSUME \A i, j \in DOMAIN pending : pending[i] = pending[j] => i = j
       PROVE  \A i, j \in DOMAIN Queued(s) : Queued(s)[i] = Queued(s)[j] => i = j
  <2> SUFFICES ASSUME NEW i \in DOMAIN Queued(s), NEW j \in DOMAIN Queued(s), Queued(s)[i] = Queued(s)[j]
               PROVE  i = j
    OBVIOUS
  <2>1. i \in DOMAIN at /\ j \in DOMAIN at /\ pending[at[i]] = pending[at[j]]
    BY <1>6, <1>7
  <2>2. at[i] = at[j]
    BY <1>3, <1>6, <1>10, <2>1
  <2>3. QED
    BY <1>5, <2>1, <2>2
<1>11. QED
  BY <1>8, <1>9, <1>10

LEMMA TakeTypes ==
  ASSUME StoreTypes, NEW f \in Flusher, TakeBatch(f)
  PROVE  StoreTypes'
<1> DEFINE g == [s \in Session |-> Queued(s)]
<1>1. /\ log' = log /\ pending' = <<>> /\ fpc[f] \in {"idle", "take"}
      /\ fpc' = [fpc EXCEPT ![f] = "group"] /\ groups' = [groups EXCEPT ![f] = g]
      /\ UNCHANGED <<cur, lock, lastOff, sess, metas, rows, diskVars, indexVars, ghostVars>>
  BY DEF TakeBatch
<1>2. g \in [Session -> Seq(1 .. Len(log))]
  BY QueuedIs DEF StoreTypes
<1> HIDE DEF g
<1>3. QueueOK'
  BY <1>1 DEF StoreTypes, QueueOK, ghostVars
<1>4. FlushOK'
  BY <1>1, <1>2 DEF StoreTypes, FlushOK, PCs
<1>5. LockOK'
  BY <1>1 DEF StoreTypes, LockOK, FlushOK
<1>6. WritingOK'
  BY <1>1 DEF StoreTypes, WritingOK, FlushOK
<1>7. FilesOK' /\ OpenOK' /\ IndexOK' /\ GhostOK'
  BY <1>1 DEF StoreTypes, FilesOK, OpenOK, IndexOK, GhostOK, diskVars, indexVars, ghostVars
<1>8. QED
  BY <1>3, <1>4, <1>5, <1>6, <1>7 DEF StoreTypes

LEMMA NothingTypes ==
  ASSUME StoreTypes, NEW f \in Flusher, FlushNothing(f)
  PROVE  StoreTypes'
<1>1. /\ log' = log /\ fpc' = [fpc EXCEPT ![f] = "idle"] /\ fpc[f] \in {"idle", "take"}
      /\ UNCHANGED <<pending, cur, lock, lastOff, groups, sess, metas, rows, diskVars, indexVars, ghostVars>>
  BY DEF FlushNothing, memVars
<1>2. QueueOK' /\ FlushOK'
  BY <1>1 DEF StoreTypes, QueueOK, FlushOK, PCs, ghostVars
<1>3. LockOK' /\ WritingOK'
  BY <1>1 DEF StoreTypes, LockOK, WritingOK, FlushOK
<1>4. FilesOK' /\ OpenOK' /\ IndexOK' /\ GhostOK'
  BY <1>1 DEF StoreTypes, FilesOK, OpenOK, IndexOK, GhostOK, diskVars, indexVars, ghostVars
<1>5. QED
  BY <1>2, <1>3, <1>4 DEF StoreTypes

\* A flush that returns an error leaves the disk alone, or has written.
LEMMA FailTypes ==
  ASSUME StoreTypes, NEW f \in Flusher, FlushFails(f), FilesOK', OpenOK'
  PROVE  StoreTypes'
<1>1. /\ log' = log /\ fpc' = [fpc EXCEPT ![f] = "idle"]
      /\ groups' = [groups EXCEPT ![f] = NoGroups]
      /\ metas' = [metas EXCEPT ![f] = <<>>] /\ rows' = [rows EXCEPT ![f] = {}]
      /\ lock' = IF lock = f THEN Nobody ELSE lock
      /\ UNCHANGED <<pending, cur, lastOff, sess, indexVars, ghostVars>>
  BY DEF FlushFails
<1>2. QueueOK'
  BY <1>1 DEF StoreTypes, QueueOK, ghostVars
<1>3. FlushOK'
  <2>1. NoGroups \in [Session -> Seq(1 .. Len(log))]
    BY DEF NoGroups
  <2>2. \A g \in Flusher : IsFiniteSet(rows'[g])
    BY <1>1, FS_EmptySet DEF StoreTypes, FlushOK
  <2>3. QED
    BY <1>1, <2>1, <2>2 DEF StoreTypes, FlushOK, PCs
<1>4. LockOK'
  BY <1>1, SessionStoreAssumption DEF StoreTypes, LockOK, FlushOK
<1>5. WritingOK'
  BY <1>1 DEF StoreTypes, WritingOK, FlushOK
<1>6. IndexOK' /\ GhostOK'
  BY <1>1 DEF StoreTypes, IndexOK, GhostOK, indexVars, ghostVars
<1>7. QED
  BY <1>2, <1>3, <1>4, <1>5, <1>6 DEF StoreTypes

LEMMA FailsQuietly ==
  ASSUME StoreTypes, NEW f \in Flusher, FlushFails(f), file' = file
  PROVE  StoreTypes'
<1>1. FilesOK' /\ OpenOK'
  BY DEF FlushFails, StoreTypes, FilesOK, OpenOK
<1>2. QED
  BY <1>1, FailTypes

-----------------------------------------------------------------------------
(* Opening a segment.                                                      *)

LEMMA ForkPointIs ==
  ASSUME ForkOK, IndexOK, GhostOK, NEW s \in Session
  PROVE  ForkPoint(s) = base[s].from
<1>1. base[s].from \in Nat
  BY DEF GhostOK
<1>2. CASE CopiedRows(s) = {}
  BY <1>1, <1>2 DEF ForkPoint, ForkOK
<1>3. CASE CopiedRows(s) # {}
  <2> DEFINE E == {r.end : r \in CopiedRows(s)}
  <2>1. \A r \in CopiedRows(s) : r.end \in Nat /\ r.end < base[s].from
    BY DEF ForkOK, CopiedRows, IndexOK, SegmentRow
  <2>2. PICK q \in CopiedRows(s) : q.end + 1 = base[s].from
    BY <1>1, <1>3 DEF ForkOK
  <2>3. q.end \in E /\ E \in SUBSET Nat /\ \A x \in E : x <= q.end
    BY <1>1, <2>1, <2>2
  <2>4. Max(E) = q.end
    <3> HIDE DEF E
    <3> QED
      BY <2>3, MaxIs
  <2>5. QED
    BY <1>3, <2>2, <2>4 DEF ForkPoint
<1>4. QED
  BY <1>2, <1>3

LEMMA LastIs ==
  ASSUME FilesOK, NEW s \in Session
  PROVE  /\ Filled(s) = {} => LastSegment(s) = 1
         /\ Filled(s) # {} =>
              /\ LastSegment(s) \in Filled(s) /\ LastSegment(s) \in DOMAIN file[s]
              /\ \A k \in Filled(s) : k <= LastSegment(s)
         /\ LastSegment(s) \in 1 .. Len(file[s]) + 1
<1>1. Filled(s) \in SUBSET (0 .. Len(file[s])) /\ Filled(s) \subseteq DOMAIN file[s] /\ Len(file[s]) \in Nat
      /\ DOMAIN file[s] = 1 .. Len(file[s])
  BY FileType DEF Filled
<1>2. CASE Filled(s) = {}
  BY <1>1, <1>2 DEF LastSegment
<1>3. CASE Filled(s) # {}
  <2>1. Max(Filled(s)) \in Filled(s) /\ \A x \in Filled(s) : x <= Max(Filled(s))
    BY <1>1, <1>3, MaxBelow
  <2>2. LastSegment(s) = Max(Filled(s))
    BY <1>3 DEF LastSegment
  <2>3. QED
    BY <1>1, <1>3, <2>1, <2>2
<1>4. QED
  BY <1>2, <1>3

LEMMA FilledIs ==
  ASSUME FilesOK, NEW s \in Session, NEW k \in Filled(s)
  PROVE  /\ k \in DOMAIN file[s] /\ Len(file[s][k]) > 0 /\ Len(Clean(file[s][k])) > 0
         /\ file[s][k][1].ev # 0 /\ file[s][k][1] \in Item(Len(log))
         /\ Clean(file[s][k])[1] = file[s][k][1]
<1> DEFINE q == file[s][k]
           c == Clean(q)
<1>1. k \in DOMAIN file[s] /\ c # <<>>
  BY DEF Filled
<1>2. q \in Seq(Item(Len(log))) /\ \A i \in 1 .. Len(q) : q[i] \in Item(Len(log))
  BY <1>1, FileType
<1> HIDE DEF q
<1>3. /\ c \in Seq(Item(Len(log))) /\ Len(c) \in Nat /\ Len(c) <= Len(q) /\ Len(q) \in Nat
      /\ \A i \in 1 .. Len(c) : c[i] = q[i] /\ q[i].ev # 0
  BY <1>2, CleanIs
<1> HIDE DEF c
<1>4. Len(c) > 0 /\ Len(q) > 0
  BY <1>1, <1>3
<1>5. c[1] = q[1] /\ q[1].ev # 0 /\ q[1] \in Item(Len(log))
  BY <1>2, <1>3, <1>4
<1>6. QED
  BY <1>1, <1>4, <1>5 DEF q, c

LEMMA StartSeqType ==
  ASSUME FilesOK, ForkOK, IndexOK, GhostOK, NEW s \in Session
  PROVE  StartSeq(s) \in Nat
<1>1. CASE Filled(s) = {}
  BY <1>1, ForkPointIs DEF StartSeq, GhostOK
<1>2. CASE Filled(s) # {}
  <2>1. file[s][LastSegment(s)][1] \in Item(Len(log))
    BY <1>2, LastIs, FilledIs
  <2>2. QED
    BY <1>2, <2>1 DEF StartSeq, Item
<1>3. QED
  BY <1>1, <1>2

LEMMA SegmentIdIs ==
  ASSUME IndexOK, NEW s \in Session, NEW k
  PROVE  /\ SegmentId(s, k) \in Nat
         /\ \/ SegmentId(s, k) = nextId
            \/ \E r \in segments : r.sess = s /\ r.parent = 0 /\ r.idx = k /\ r.id = SegmentId(s, k)
<1>1. CASE \E r \in OwnRows(s) : r.idx = k
  <2> DEFINE r == CHOOSE r \in OwnRows(s) : r.idx = k
  <2>1. r \in OwnRows(s) /\ r.idx = k
    BY <1>1
  <2>2. SegmentId(s, k) = r.id
    BY <1>1 DEF SegmentId
  <2> HIDE DEF r
  <2>3. r \in segments /\ r.sess = s /\ r.parent = 0 /\ r.id \in Nat
    BY <2>1 DEF OwnRows, IndexOK, SegmentRow
  <2>4. QED
    BY <2>1, <2>2, <2>3
<1>2. CASE ~\E r \in OwnRows(s) : r.idx = k
  BY <1>2 DEF SegmentId, IndexOK
<1>3. QED
  BY <1>1, <1>2

\* The state a session has after open_or_create.
State(k, n, first, id) ==
  [idx |-> k, row |-> n, next |-> first + n, first |-> first, id |-> id]

LEMMA PutAt ==
  ASSUME NEW T, NEW F \in Seq(T), NEW q \in T, NEW k \in 1 .. Len(F) + 1, NEW G,
         G = IF k <= Len(F) THEN [F EXCEPT ![k] = q] ELSE Append(F, q)
  PROVE  /\ G \in Seq(T) /\ k \in DOMAIN G /\ G[k] = q /\ DOMAIN G = 1 .. Len(G)
         /\ Len(G) = IF k <= Len(F) THEN Len(F) ELSE Len(F) + 1
         /\ \A l \in DOMAIN F : l # k => l \in DOMAIN G /\ G[l] = F[l]
         /\ \A l \in DOMAIN G : l # k => l \in DOMAIN F
<1>1. Len(F) \in Nat /\ DOMAIN F = 1 .. Len(F) /\ k \in Nat
  OBVIOUS
<1>2. CASE k <= Len(F)
  BY <1>1, <1>2
<1>3. CASE k = Len(F) + 1
  BY <1>1, <1>3
<1>4. QED
  BY <1>1, <1>2, <1>3

LEMMA OpenedIs ==
  ASSUME FilesOK, OpenOK, NEW s \in Session, NEW k \in 1 .. Len(file[s]) + 1, NEW first \in Nat,
         NEW id \in Nat, Opened(s, k, first, id)
  PROVE  \E q \in Seq(Item(Len(log))) :
           /\ q = Clean(IF k <= Len(file[s]) THEN file[s][k] ELSE <<>>)
           /\ Len(q) \in 0 .. MaxRows /\ Consecutive(q, first)
           /\ file' = [file EXCEPT ![s] = IF k <= Len(file[s]) THEN [file[s] EXCEPT ![k] = q]
                                          ELSE Append(file[s], <<>>)]
           /\ file'[s] \in Seq(Seq(Item(Len(log)))) /\ k \in DOMAIN file'[s] /\ file'[s][k] = q
           /\ cur' = [cur EXCEPT ![s] = State(k, Len(q), first, id)]
           /\ State(k, Len(q), first, id) \in CurType /\ State(k, Len(q), first, id) # NoState
<1> DEFINE old == IF k <= Len(file[s]) THEN file[s][k] ELSE <<>>
           q == Clean(old)
           T == Item(Len(log))
<1>1. file[s] \in Seq(Seq(T)) /\ Len(file[s]) \in Nat /\ DOMAIN file[s] = 1 .. Len(file[s]) /\ k \in Nat \ {0}
  BY FileType
<1>2. old \in Seq(T)
  BY <1>1
<1> HIDE DEF old
<1>3. q \in Seq(T) /\ Len(q) \in Nat /\ DOMAIN q = 1 .. Len(q) /\ \A i \in 1 .. Len(q) : q[i] \in T
  BY <1>2, CleanIs
<1>4. /\ Consecutive(q, first)
      /\ file' = [file EXCEPT ![s] = IF k <= Len(file[s]) THEN [file[s] EXCEPT ![k] = q]
                                     ELSE Append(file[s], <<>>)]
      /\ cur' = [cur EXCEPT ![s] = State(k, Len(q), first, id)]
  BY DEF Opened, old, State
<1>5. k > Len(file[s]) => q = <<>>
  BY <1>1, CleanEmpty DEF old
<1> HIDE DEF q
<1>6. Len(q) <= MaxRows
  <2> SUFFICES ASSUME Len(q) > MaxRows PROVE FALSE
    BY <1>3, RowsPositive
  <2> DEFINE n == MaxRows + 1
  <2>1. n \in 1 .. Len(q) /\ n - 1 = MaxRows
    BY <1>3, RowsPositive
  <2> HIDE DEF n
  <2>2. \A i \in DOMAIN q : q[i].row = i - 1
    BY <1>4, Zenon DEF Consecutive
  <2>3. n \in DOMAIN q /\ q[n] \in T
    BY <1>3, <2>1
  <2>4. q[n].row = n - 1
    BY <2>2, <2>3, Zenon
  <2>5. q[n].row \in 0 .. MaxRows - 1
    BY <2>3 DEF Item
  <2>6. QED
    BY <2>1, <2>4, <2>5, RowsPositive
<1> HIDE DEF T
<1>7. file'[s] = IF k <= Len(file[s]) THEN [file[s] EXCEPT ![k] = q] ELSE Append(file[s], <<>>)
  BY <1>4 DEF FilesOK
<1>8. file'[s] \in Seq(Seq(T)) /\ k \in DOMAIN file'[s] /\ file'[s][k] = q
  <2> DEFINE F == file[s]
             TT == Seq(T)
             G == file'[s]
  <2>1. F \in Seq(TT) /\ q \in TT /\ k \in 1 .. Len(F) + 1
    BY <1>1, <1>3
  <2>2. G = IF k <= Len(F) THEN [F EXCEPT ![k] = q] ELSE Append(F, q)
    BY <1>1, <1>5, <1>7
  <2> HIDE DEF F, TT, G
  <2>3. G \in Seq(TT) /\ k \in DOMAIN G /\ G[k] = q
    BY <2>1, <2>2, PutAt
  <2>4. QED
    BY <2>3 DEF TT, G
<1>9. State(k, Len(q), first, id) \in CurType /\ State(k, Len(q), first, id) # NoState
  BY <1>1, <1>3, <1>6, RowsPositive DEF State, CurType, NoState
<1>10. q = Clean(IF k <= Len(file[s]) THEN file[s][k] ELSE <<>>) /\ Len(q) \in 0 .. MaxRows
  BY <1>3, <1>6, RowsPositive DEF q, old
<1>11. q \in Seq(Item(Len(log))) /\ file'[s] \in Seq(Seq(Item(Len(log))))
  BY <1>3, <1>8 DEF T
<1>12. QED
  BY <1>4, <1>8, <1>9, <1>10, <1>11, Zenon

LEMMA OpenedTypes ==
  ASSUME FilesOK, OpenOK, NEW s \in Session, NEW k \in 1 .. Len(file[s]) + 1, NEW first \in Nat,
         NEW id \in Nat, Opened(s, k, first, id), dirty[s] = 0, dirty' = dirty, log' = log
  PROVE  FilesOK' /\ OpenOK' /\ cur'[s] # NoState /\ \A t \in Session : t # s => cur'[t] = cur[t]
<1>1. PICK q \in Seq(Item(Len(log))) :
           /\ file' = [file EXCEPT ![s] = IF k <= Len(file[s]) THEN [file[s] EXCEPT ![k] = q]
                                          ELSE Append(file[s], <<>>)]
           /\ file'[s] \in Seq(Seq(Item(Len(log)))) /\ k \in DOMAIN file'[s] /\ file'[s][k] = q
           /\ cur' = [cur EXCEPT ![s] = State(k, Len(q), first, id)]
           /\ State(k, Len(q), first, id) \in CurType /\ State(k, Len(q), first, id) # NoState
  BY OpenedIs, SMTT(30)
<1> DEFINE X == file'[s]
           T == Seq(Seq(Item(Len(log))))
           st == State(k, Len(q), first, id)
<1>2. X \in T /\ file' = [file EXCEPT ![s] = X] /\ k \in DOMAIN X
  BY <1>1 DEF FilesOK
<1>3. FilesOK'
  <2>1. file \in [Session -> T]
    BY DEF FilesOK
  <2> HIDE DEF X, T
  <2>2. file' \in [Session -> T]
    BY <1>2, <2>1
  <2>3. QED
    BY <2>2 DEF FilesOK, T
<1>4. st \in CurType /\ st # NoState /\ cur' = [cur EXCEPT ![s] = st] /\ st.idx = k
      /\ st.next = st.first + st.row
  BY <1>1 DEF State
<1> HIDE DEF st, X
<1>5. /\ cur' \in [Session -> CurType] /\ cur'[s] = st
      /\ \A t \in Session : t # s => cur'[t] = cur[t] /\ file'[t] = file[t]
  BY <1>2, <1>4 DEF OpenOK, FilesOK
<1>6. OpenOK'
  <2>1. ASSUME NEW t \in Session, cur'[t] # NoState
        PROVE  cur'[t].idx \in DOMAIN file'[t] /\ cur'[t].next = cur'[t].first + cur'[t].row
    <3>1. CASE t = s
      BY <1>2, <1>4, <1>5, <3>1 DEF X
    <3>2. CASE t # s
      BY <1>5, <2>1, <3>2 DEF OpenOK
    <3>3. QED
      BY <3>1, <3>2
  <2>2. ASSUME NEW t \in Session, dirty'[t] > 0
        PROVE  cur'[t] # NoState /\ cur'[t].row < MaxRows /\ dirty'[t] <= Len(file'[t][cur'[t].idx])
    <3>1. t # s
      BY <2>2
    <3>2. QED
      BY <1>5, <2>2, <3>1 DEF OpenOK
  <2>3. QED
    BY <1>5, <2>1, <2>2 DEF OpenOK
<1>7. QED
  BY <1>3, <1>4, <1>5, <1>6

LEMMA OpenGroupTypes ==
  ASSUME StoreTypes, ForkOK, NEW f \in Flusher, NEW s \in Session, OpenGroup(f, s)
  PROVE  StoreTypes'
<1> USE DEF StoreTypes
<1>1. CASE cur[s] = NoState /\ FlushFails(f) /\ UNCHANGED file
  BY <1>1, FailsQuietly
<1>2. CASE /\ IF cur[s] # NoState
              THEN UNCHANGED <<cur, file, nextId>>
              ELSE LET k == LastSegment(s) IN
                   /\ Opened(s, k, StartSeq(s), SegmentId(s, k))
                   /\ nextId' = IF SegmentId(s, k) = nextId THEN nextId + 1 ELSE nextId
           /\ lock' = f
           /\ fpc' = [fpc EXCEPT ![f] = "write"]
           /\ sess' = [sess EXCEPT ![f] = s]
           /\ UNCHANGED <<log, pending, lastOff, groups, metas, rows, dirty, segments, events,
                          ghostVars>>
  <2>1. FilesOK' /\ OpenOK' /\ cur'[s] # NoState /\ nextId' \in Nat \ {0}
        /\ \A t \in Session : t # s => cur'[t] = cur[t]
    <3>1. CASE cur[s] # NoState
      BY <1>2, <3>1 DEF FilesOK, OpenOK, IndexOK
    <3>2. CASE cur[s] = NoState
      <4>1. dirty[s] = 0
        BY <3>2 DEF OpenOK
      <4>2. Opened(s, LastSegment(s), StartSeq(s), SegmentId(s, LastSegment(s)))
        BY <1>2, <3>2
      <4>3. SegmentId(s, LastSegment(s)) \in Nat /\ StartSeq(s) \in Nat
            /\ LastSegment(s) \in 1 .. Len(file[s]) + 1
        BY SegmentIdIs, StartSeqType, LastIs
      <4>4. nextId' \in Nat \ {0}
        BY <1>2, <3>2 DEF IndexOK
      <4>5. dirty' = dirty /\ log' = log
        BY <1>2
      <4>6. QED
        BY <4>1, <4>2, <4>3, <4>4, <4>5, OpenedTypes
    <3>3. QED
      BY <3>1, <3>2
  <2>2. QueueOK' /\ IndexOK' /\ GhostOK'
    BY <1>2, <2>1 DEF QueueOK, IndexOK, GhostOK, ghostVars
  <2>3. FlushOK'
    BY <1>2 DEF FlushOK, PCs
  <2>4. /\ fpc[f] = "group" /\ lock \in {Nobody, f} /\ groups[f][s] # <<>>
        /\ \A g \in Flusher : g # f => fpc[g] \notin {"write", "sync"}
    BY SessionStoreAssumption DEF OpenGroup, LockOK
  <2>5. LockOK'
    BY <1>2, <2>4, SessionStoreAssumption DEF LockOK, FlushOK
  <2>6. WritingOK'
    BY <1>2, <2>1, <2>4 DEF WritingOK, FlushOK
  <2>7. QED
    BY <2>1, <2>2, <2>3, <2>5, <2>6
<1>3. QED
  BY <1>1, <1>2 DEF OpenGroup

\* A flush that writes is the only one.
LEMMA OneWriter ==
  ASSUME StoreTypes, NEW f \in Flusher, fpc[f] \in {"write", "sync"}
  PROVE  /\ lock = f /\ sess[f] \in Session /\ cur[sess[f]] # NoState /\ groups[f][sess[f]] # <<>>
         /\ \A g \in Flusher : g # f => fpc[g] \notin {"write", "sync"}
         /\ cur[sess[f]] \in CurType /\ cur[sess[f]].idx \in DOMAIN file[sess[f]]
         /\ dirty[sess[f]] \in Nat /\ groups[f][sess[f]] \in Seq(1 .. Len(log))
         /\ cur[sess[f]].next = cur[sess[f]].first + cur[sess[f]].row
BY DEF StoreTypes, LockOK, WritingOK, OpenOK, FlushOK

LEMMA MetaType ==
  ASSUME NEW s \in Session, NEW st \in CurType, st.next = st.first + st.row
  PROVE  Meta(s, st) \in SegmentRow
<1>1. st.id \in Nat /\ st.idx \in Nat /\ st.first \in Nat /\ st.row \in Nat
  BY RowsPositive DEF CurType
<1>2. (IF st.row = 0 THEN st.first ELSE st.next - 1) \in Nat
  BY <1>1
<1>3. QED
  BY <1>1, <1>2 DEF Meta, SegmentRow

LEMMA RollTypes ==
  ASSUME StoreTypes, NEW f \in Flusher, Roll(f)
  PROVE  StoreTypes'
<1> USE DEF StoreTypes
<1> DEFINE s == sess[f]
           st == cur[s]
<1>1. fpc[f] = "write" /\ st.row >= MaxRows
  BY DEF Roll
<1>2. /\ lock = f /\ s \in Session /\ st # NoState /\ groups[f][s] # <<>>
      /\ \A g \in Flusher : g # f => fpc[g] \notin {"write", "sync"}
      /\ st \in CurType /\ st.idx \in DOMAIN file[s] /\ st.next = st.first + st.row
  BY <1>1, OneWriter
<1>3. CASE FlushFails(f) /\ UNCHANGED file
  BY <1>3, FailsQuietly
<1>4. CASE /\ Opened(s, st.idx + 1, st.next, nextId)
           /\ nextId' = nextId + 1
           /\ metas' = [metas EXCEPT ![f] = Append(@, Meta(s, st))]
           /\ UNCHANGED <<log, pending, lock, lastOff, fpc, groups, sess, rows, dirty,
                          segments, events, ghostVars>>
  <2>1. st.idx + 1 \in 1 .. Len(file[s]) + 1 /\ st.next \in Nat /\ nextId \in Nat /\ dirty[s] = 0
    <3>1. DOMAIN file[s] = 1 .. Len(file[s]) /\ Len(file[s]) \in Nat
      BY <1>2, FileType
    <3>2. st.idx \in Nat /\ st.next \in Nat /\ st.row \in Nat
      BY <1>2 DEF CurType
    <3>3. dirty[s] = 0
      BY <1>1, <1>2, <3>2, RowsPositive DEF OpenOK
    <3> HIDE DEF st, s
    <3>4. QED
      BY <1>2, <3>1, <3>2, <3>3 DEF IndexOK
  <2>2. FilesOK' /\ OpenOK' /\ cur'[s] # NoState /\ \A t \in Session : t # s => cur'[t] = cur[t]
    <3>1. dirty' = dirty /\ log' = log /\ Opened(s, st.idx + 1, st.next, nextId)
      BY <1>4
    <3> HIDE DEF st, s
    <3>2. QED
      BY <1>2, <2>1, <3>1, OpenedTypes
  <2>3. Meta(s, st) \in SegmentRow
    BY <1>2, MetaType
  <2>4. QueueOK' /\ IndexOK' /\ GhostOK' /\ LockOK'
    BY <1>4 DEF QueueOK, IndexOK, GhostOK, LockOK, ghostVars
  <2>5. FlushOK'
    <3> HIDE DEF st, s
    <3> QED
      BY <1>4, <2>3 DEF FlushOK
  <2>6. WritingOK'
    BY <1>1, <1>2, <1>4, <2>2 DEF WritingOK
  <2>7. QED
    BY <2>2, <2>4, <2>5, <2>6
<1>5. QED
  BY <1>3, <1>4 DEF Roll

\* How many events the open segment takes.
LEMMA TakeIs ==
  ASSUME StoreTypes, NEW f \in Flusher, fpc[f] \in {"write", "sync"}, cur[sess[f]].row < MaxRows
  PROVE  /\ Take(f) \in Nat \ {0} /\ Take(f) <= Len(groups[f][sess[f]])
         /\ cur[sess[f]].row + Take(f) <= MaxRows /\ Take(f) = Min({MaxRows - cur[sess[f]].row, Len(groups[f][sess[f]])})
         /\ Take(f) < Len(groups[f][sess[f]]) => cur[sess[f]].row + Take(f) = MaxRows
<1> DEFINE a == MaxRows - cur[sess[f]].row
           b == Len(groups[f][sess[f]])
<1>1. cur[sess[f]].row \in Nat /\ groups[f][sess[f]] \in Seq(1 .. Len(log)) /\ groups[f][sess[f]] # <<>>
  BY OneWriter, RowsPositive DEF CurType
<1>2. a \in Nat \ {0} /\ b \in Nat \ {0} /\ cur[sess[f]].row + a = MaxRows
  BY <1>1, RowsPositive, SMTT(30)
<1>3. Take(f) = Min({a, b})
  BY DEF Take
<1> HIDE DEF a, b
<1>4. Min({a, b}) = IF a <= b THEN a ELSE b
  BY <1>2, MinOfTwo
<1>5. /\ Take(f) \in Nat \ {0} /\ Take(f) <= b /\ Take(f) <= a
      /\ Take(f) < b => Take(f) = a
  BY <1>2, <1>3, <1>4
<1>6. cur[sess[f]].row + Take(f) <= MaxRows
  BY <1>1, <1>2, <1>5, RowsPositive
<1>7. QED
  BY <1>2, <1>3, <1>5, <1>6 DEF a, b

LEMMA RecordsIs ==
  ASSUME StoreTypes, NEW f \in Flusher, fpc[f] \in {"write", "sync"}, cur[sess[f]].row < MaxRows,
         NEW n \in 0 .. Take(f)
  PROVE  /\ Records(f, n) \in Seq(Item(Len(log))) /\ Len(Records(f, n)) = n /\ DOMAIN Records(f, n) = 1 .. n
         /\ \A i \in 1 .. n :
              /\ Records(f, n)[i] = [seq |-> cur[sess[f]].next + i - 1, row |-> cur[sess[f]].row + i - 1,
                                     ev |-> groups[f][sess[f]][i]]
              /\ groups[f][sess[f]][i] \in 1 .. Len(log)
<1> DEFINE st == cur[sess[f]]
           g == groups[f][sess[f]]
<1>1. st \in CurType /\ g \in Seq(1 .. Len(log)) /\ Len(log) \in Nat
  BY OneWriter DEF StoreTypes, QueueOK
<1>2. Take(f) \in Nat /\ Take(f) <= Len(g) /\ st.row + Take(f) <= MaxRows /\ Len(g) \in Nat
  <2>1. /\ Take(f) \in Nat \ {0} /\ Take(f) <= Len(groups[f][sess[f]])
        /\ cur[sess[f]].row + Take(f) <= MaxRows
    BY TakeIs
  <2>2. Len(g) \in Nat
    BY <1>1
  <2>3. QED
    BY <2>1, <2>2
<1>3. Records(f, n) = [i \in 1 .. n |-> [seq |-> st.next + i - 1, row |-> st.row + i - 1, ev |-> g[i]]]
  BY DEF Records
<1>4. st.next \in Nat /\ st.row \in Nat /\ n \in Nat /\ n <= Len(g) /\ st.row + n <= MaxRows
  BY <1>1, <1>2, RowsPositive, SMTT(30) DEF CurType
<1> HIDE DEF st, g
<1>5. \A i \in 1 .. n : g[i] \in 1 .. Len(log)
  BY <1>1, <1>4
<1>6. \A i \in 1 .. n : [seq |-> st.next + i - 1, row |-> st.row + i - 1, ev |-> g[i]] \in Item(Len(log))
  <2> SUFFICES ASSUME NEW i \in 1 .. n
               PROVE  [seq |-> st.next + i - 1, row |-> st.row + i - 1, ev |-> g[i]] \in Item(Len(log))
    OBVIOUS
  <2> DEFINE a == st.next
             b == st.row
  <2>1. a \in Nat /\ b \in Nat /\ b + n <= MaxRows /\ g[i] \in 1 .. Len(log) /\ i \in 1 .. n
    BY <1>4, <1>5
  <2> HIDE DEF a, b
  <2>2. a + i - 1 \in Nat /\ b + i - 1 \in 0 .. MaxRows - 1 /\ g[i] \in 0 .. Len(log)
    BY <1>1, <1>4, <2>1, RowsPositive
  <2>3. QED
    BY <2>2 DEF Item, a, b
<1>7. Records(f, n) \in Seq(Item(Len(log))) /\ Len(Records(f, n)) = n /\ DOMAIN Records(f, n) = 1 .. n
  BY <1>3, <1>4, <1>6
<1>8. QED
  BY <1>3, <1>5, <1>7 DEF st, g

\* Something is appended to the open file of a session.
LEMMA Extended ==
  ASSUME StoreTypes, NEW s \in Session, NEW k \in DOMAIN file[s], NEW q \in Seq(Item(Len(log))),
         file' = [file EXCEPT ![s][k] = @ \o q], log' = log
  PROVE  /\ FilesOK' /\ \A t \in Session : t # s => file'[t] = file[t]
         /\ DOMAIN file'[s] = DOMAIN file[s] /\ Len(file'[s]) = Len(file[s])
         /\ \A l \in DOMAIN file[s] : l # k => file'[s][l] = file[s][l]
         /\ file'[s][k] = file[s][k] \o q /\ Len(file'[s][k]) = Len(file[s][k]) + Len(q)
<1> DEFINE T == Item(Len(log))
           F == file[s]
           G == [F EXCEPT ![k] = @ \o q]
<1>1. F \in Seq(Seq(T)) /\ file \in [Session -> Seq(Seq(T))] /\ k \in DOMAIN F /\ q \in Seq(T)
  BY DEF StoreTypes, FilesOK
<1>2. file' = [file EXCEPT ![s] = G]
  OBVIOUS
<1> HIDE DEF T, F
<1>3. F[k] \o q \in Seq(T) /\ Len(F[k] \o q) = Len(F[k]) + Len(q)
  BY <1>1
<1>4. G \in Seq(Seq(T)) /\ DOMAIN G = DOMAIN F /\ Len(G) = Len(F) /\ G[k] = F[k] \o q
      /\ \A l \in DOMAIN F : l # k => G[l] = F[l]
  BY <1>1, <1>3
<1> HIDE DEF G
<1>5. file' \in [Session -> Seq(Seq(T))] /\ file'[s] = G /\ \A t \in Session : t # s => file'[t] = file[t]
  <2> DEFINE TT == Seq(Seq(T))
  <2>1. G \in TT /\ file \in [Session -> TT]
    BY <1>1, <1>4
  <2> HIDE DEF TT
  <2>2. file' \in [Session -> TT] /\ file'[s] = G /\ \A t \in Session : t # s => file'[t] = file[t]
    BY <1>2, <2>1
  <2>3. QED
    BY <2>2 DEF TT
<1>6. FilesOK'
  BY <1>5 DEF FilesOK, T
<1>7. QED
  BY <1>3, <1>4, <1>5, <1>6 DEF F

LEMMA WriteTypes ==
  ASSUME StoreTypes, NEW f \in Flusher, Write(f)
  PROVE  StoreTypes'
<1> USE DEF StoreTypes
<1> DEFINE s == sess[f]
           k == cur[s].idx
           q == Records(f, Take(f))
<1>1. /\ fpc[f] = "write" /\ cur[s].row < MaxRows
      /\ file' = [file EXCEPT ![s][k] = @ \o q]
      /\ dirty' = [dirty EXCEPT ![s] = @ + Take(f)]
      /\ fpc' = [fpc EXCEPT ![f] = "sync"]
      /\ UNCHANGED <<log, pending, cur, lock, lastOff, groups, sess, metas, rows, indexVars, ghostVars>>
  BY DEF Write, memVars
<1>2. /\ lock = f /\ s \in Session /\ cur[s] # NoState /\ groups[f][s] # <<>> /\ k \in DOMAIN file[s]
      /\ \A g \in Flusher : g # f => fpc[g] \notin {"write", "sync"}
      /\ dirty[s] \in Nat
  BY <1>1, OneWriter
<1>3. Take(f) \in Nat \ {0}
  BY <1>1, TakeIs
<1>4. q \in Seq(Item(Len(log))) /\ Len(q) = Take(f)
  <2>1. Take(f) \in 0 .. Take(f)
    BY <1>3
  <2>2. QED
    BY <1>1, <2>1, RecordsIs
<1> HIDE DEF s, k, q
<1>5. /\ FilesOK' /\ \A t \in Session : t # s => file'[t] = file[t]
      /\ DOMAIN file'[s] = DOMAIN file[s]
      /\ file'[s][k] = file[s][k] \o q /\ Len(file'[s][k]) = Len(file[s][k]) + Len(q)
  BY <1>1, <1>2, <1>4, Extended
<1>6. QueueOK' /\ FlushOK' /\ IndexOK' /\ GhostOK'
  BY <1>1 DEF QueueOK, FlushOK, IndexOK, GhostOK, PCs, indexVars, ghostVars
<1>7. LockOK'
  BY <1>1, <1>2 DEF LockOK, FlushOK
<1>8. WritingOK'
  BY <1>1, <1>2 DEF WritingOK, FlushOK, s
<1>9. OpenOK'
  <2>1. dirty' \in [Session -> Nat] /\ cur' = cur /\ dirty'[s] = dirty[s] + Take(f)
        /\ \A t \in Session : t # s => dirty'[t] = dirty[t]
    BY <1>1, <1>2, <1>3 DEF OpenOK
  <2>2. \A t \in Session : cur'[t] # NoState =>
          cur'[t].idx \in DOMAIN file'[t] /\ cur'[t].next = cur'[t].first + cur'[t].row
    BY <1>2, <1>5, <2>1 DEF OpenOK
  <2>3. ASSUME NEW t \in Session, dirty'[t] > 0
        PROVE  cur'[t] # NoState /\ cur'[t].row < MaxRows /\ dirty'[t] <= Len(file'[t][cur'[t].idx])
    <3>1. CASE t = s
      <4>1. dirty[s] <= Len(file[s][k]) /\ Len(file[s][k]) \in Nat
        BY <1>2, FileType DEF OpenOK, k
      <4>2. dirty[s] + Take(f) <= Len(file[s][k]) + Len(q)
        BY <1>2, <1>3, <1>4, <4>1
      <4>3. QED
        BY <1>1, <1>2, <1>5, <2>1, <3>1, <4>2 DEF k
    <3>2. CASE t # s
      BY <1>5, <2>1, <2>3, <3>2 DEF OpenOK
    <3>3. QED
      BY <3>1, <3>2
  <2>4. QED
    BY <2>1, <2>2, <2>3 DEF OpenOK
<1>10. QED
  BY <1>5, <1>6, <1>7, <1>8, <1>9

LEMMA WriteFailsTypes ==
  ASSUME StoreTypes, NEW f \in Flusher, WriteFails(f)
  PROVE  StoreTypes'
<1> USE DEF StoreTypes
<1> DEFINE s == sess[f]
           k == cur[s].idx
           T == Item(Len(log))
<1>1. fpc[f] = "write" /\ cur[s].row < MaxRows /\ FlushFails(f) /\ log' = log /\ dirty' = dirty /\ cur' = cur
  BY DEF WriteFails, FlushFails
<1>2. PICK n \in 0 .. Take(f) - 1, tail \in {<<>>, <<Torn>>} :
        file' = [file EXCEPT ![s][k] = @ \o Records(f, n) \o tail]
  BY DEF WriteFails
<1>3. s \in Session /\ k \in DOMAIN file[s] /\ Take(f) \in Nat
  BY <1>1, OneWriter, TakeIs
<1>4. Records(f, n) \in Seq(T)
  <2>1. n \in 0 .. Take(f)
    BY <1>3
  <2>2. QED
    BY <1>1, <2>1, RecordsIs
<1>5. tail \in Seq(T)
  <2>1. Torn \in T
    BY RowsPositive DEF Torn, Item, QueueOK
  <2> HIDE DEF T
  <2>2. <<>> \in Seq(T) /\ <<Torn>> \in Seq(T)
    BY <2>1
  <2>3. QED
    BY <2>2
<1> DEFINE q == Records(f, n) \o tail
<1>6. q \in Seq(T) /\ file' = [file EXCEPT ![s][k] = @ \o q]
  <2> DEFINE x == file[s][k]
             y == Records(f, n)
  <2>1. x \in Seq(T) /\ y \in Seq(T)
    BY <1>3, <1>4, FileType
  <2> HIDE DEF T, x, y
  <2>2. (x \o y) \o tail = x \o (y \o tail) /\ y \o tail \in Seq(T)
    BY <1>5, <2>1, ConcatAssociative, ConcatProperties, SMTT(30)
  <2>3. q \in Seq(T)
    BY <2>2 DEF y
  <2>4. file[s][k] \o Records(f, n) \o tail = file[s][k] \o q
    BY <2>2 DEF x, y
  <2>5. QED
    BY <1>2, <2>3, <2>4
<1> HIDE DEF s, k, q
<1>7. /\ FilesOK' /\ \A t \in Session : t # s => file'[t] = file[t]
      /\ DOMAIN file'[s] = DOMAIN file[s]
      /\ \A l \in DOMAIN file[s] : l # k => file'[s][l] = file[s][l]
      /\ Len(file'[s][k]) = Len(file[s][k]) + Len(q)
  BY <1>1, <1>3, <1>6, Extended
<1>8. Len(q) \in Nat
  BY <1>6 DEF T
<1>9. OpenOK'
  <2>1. \A t \in Session : \A l \in DOMAIN file[t] :
          l \in DOMAIN file'[t] /\ Len(file[t][l]) \in Nat /\ Len(file'[t][l]) \in Nat /\ Len(file[t][l]) <= Len(file'[t][l])
    <3> SUFFICES ASSUME NEW t \in Session, NEW l \in DOMAIN file[t]
                 PROVE  /\ l \in DOMAIN file'[t] /\ Len(file[t][l]) \in Nat
                        /\ Len(file'[t][l]) \in Nat /\ Len(file[t][l]) <= Len(file'[t][l])
      OBVIOUS
    <3>1. Len(file[t][l]) \in Nat
      BY FileType
    <3>2. CASE t = s /\ l = k
      BY <1>3, <1>7, <1>8, <3>1, <3>2
    <3>3. CASE ~(t = s /\ l = k)
      <4>1. file'[t][l] = file[t][l] /\ l \in DOMAIN file'[t]
        BY <1>7, <3>3
      <4>2. QED
        BY <3>1, <4>1
    <3>4. QED
      BY <3>2, <3>3
  <2>2. ASSUME NEW t \in Session, dirty[t] > 0
        PROVE  dirty[t] <= Len(file'[t][cur[t].idx])
    BY <2>1, <2>2 DEF OpenOK
  <2>3. QED
    BY <1>1, <2>1, <2>2 DEF OpenOK
<1>10. QED
  BY <1>1, <1>7, <1>9, FailTypes

\* append_batch has synced: n events of the group have their offsets.
Advanced(st, n) == [st EXCEPT !.row = @ + n, !.next = @ + n]

LEMMA AdvancedIs ==
  ASSUME NEW st \in CurType, NEW n \in Nat, st.row + n <= MaxRows, st.next = st.first + st.row, n > 0
  PROVE  /\ Advanced(st, n) \in CurType /\ Advanced(st, n) # NoState
         /\ Advanced(st, n).idx = st.idx /\ Advanced(st, n).id = st.id /\ Advanced(st, n).first = st.first
         /\ Advanced(st, n).row = st.row + n /\ Advanced(st, n).next = Advanced(st, n).first + Advanced(st, n).row
<1> DEFINE a == st.row
           b == st.next
           c == st.first
<1>1. st.idx \in Nat /\ a \in Nat /\ b \in Nat /\ c \in Nat /\ st.id \in Nat /\ a + n <= MaxRows /\ b = c + a
  BY RowsPositive DEF CurType
<1> DEFINE x == a + n
           y == b + n
<1>2. Advanced(st, n) = [st EXCEPT !.row = x, !.next = y]
  BY DEF Advanced
<1>3. x \in 0 .. MaxRows /\ y \in Nat /\ y = c + x /\ x # 0
  <2> HIDE DEF a, b, c
  <2> QED
    BY <1>1, RowsPositive
<1> DEFINE A == [st EXCEPT !.row = x, !.next = y]
<1> HIDE DEF x, y
<1>4. /\ A \in CurType /\ A.idx = st.idx /\ A.id = st.id /\ A.first = st.first /\ A.row = x /\ A.next = y
  BY <1>3 DEF CurType
<1>5. A # NoState
  BY <1>3, <1>4 DEF NoState
<1>6. QED
  BY <1>2, <1>3, <1>4, <1>5 DEF x

LEMMA SyncIs ==
  ASSUME StoreTypes, NEW f \in Flusher, Sync(f)
  PROVE  /\ fpc[f] = "sync" /\ cur[sess[f]].row < MaxRows
         /\ cur' = [cur EXCEPT ![sess[f]] = Advanced(cur[sess[f]], Take(f))]
         /\ dirty' = [dirty EXCEPT ![sess[f]] = 0]
         /\ groups' = [groups EXCEPT ![f] = [groups[f] EXCEPT ![sess[f]] =
                         SubSeq(groups[f][sess[f]], Take(f) + 1, Len(groups[f][sess[f]]))]]
         /\ rows' = [rows EXCEPT ![f] = rows[f] \cup
              {[sess |-> sess[f], off |-> Records(f, Take(f))[i].seq, seg |-> cur[sess[f]].id,
                ev |-> Records(f, Take(f))[i].ev] : i \in DOMAIN Records(f, Take(f))}]
         /\ \/ metas' = metas /\ fpc' = [fpc EXCEPT ![f] = "write"] /\ lock' = lock
               /\ groups'[f][sess[f]] # <<>>
            \/ /\ metas' = [metas EXCEPT ![f] = Append(metas[f], Meta(sess[f], Advanced(cur[sess[f]], Take(f))))]
               /\ \/ fpc' = [fpc EXCEPT ![f] = "index"] /\ lock' = Nobody
                  \/ fpc' = [fpc EXCEPT ![f] = "group"] /\ lock' = lock
         /\ UNCHANGED <<log, pending, lastOff, sess, file, indexVars, ghostVars>>
<1> DEFINE s == sess[f]
           left == SubSeq(groups[f][s], Take(f) + 1, Len(groups[f][s]))
           rest == [groups[f] EXCEPT ![s] = left]
           st == Advanced(cur[s], Take(f))
<1>1. fpc[f] = "sync"
  BY DEF Sync
<1>2. s \in Session /\ cur[s].row < MaxRows /\ cur[s] \in CurType
  BY <1>1, OneWriter DEF StoreTypes, WritingOK
<1>3. st.id = cur[s].id
  BY <1>2 DEF Advanced, CurType
<1>4. rest[s] = left /\ [groups EXCEPT ![f] = rest][f] = rest
  BY <1>2 DEF StoreTypes, FlushOK
<1>5. BatchWritten(f, Take(f), st)
  BY DEF Sync, Advanced
<1> HIDE DEF st
<1>6. /\ cur' = [cur EXCEPT ![s] = st]
      /\ groups' = [groups EXCEPT ![f] = rest]
      /\ rows' = [rows EXCEPT ![f] = rows[f] \cup
              {[sess |-> sess[f], off |-> Records(f, Take(f))[i].seq, seg |-> st.id,
                ev |-> Records(f, Take(f))[i].ev] : i \in DOMAIN Records(f, Take(f))}]
  BY <1>5 DEF BatchWritten
<1>7. IF left # <<>>
        THEN fpc' = [fpc EXCEPT ![f] = "write"] /\ UNCHANGED <<metas, lock>>
        ELSE /\ metas' = [metas EXCEPT ![f] = Append(@, Meta(s, st))]
             /\ IF rest = NoGroups
                THEN fpc' = [fpc EXCEPT ![f] = "index"] /\ lock' = Nobody
                ELSE fpc' = [fpc EXCEPT ![f] = "group"] /\ UNCHANGED lock
  BY <1>5 DEF BatchWritten
<1>8. groups'[f][s] = left
  BY <1>4, <1>6
<1> HIDE DEF left
<1>9. \/ metas' = metas /\ fpc' = [fpc EXCEPT ![f] = "write"] /\ lock' = lock /\ groups'[f][s] # <<>>
      \/ /\ metas' = [metas EXCEPT ![f] = Append(metas[f], Meta(s, st))]
         /\ \/ fpc' = [fpc EXCEPT ![f] = "index"] /\ lock' = Nobody
            \/ fpc' = [fpc EXCEPT ![f] = "group"] /\ lock' = lock
  BY <1>7, <1>8
<1>10. /\ dirty' = [dirty EXCEPT ![s] = 0]
       /\ UNCHANGED <<log, pending, lastOff, sess, file, indexVars, ghostVars>>
  BY DEF Sync
<1>11. QED
  BY <1>1, <1>2, <1>3, <1>6, <1>9, <1>10 DEF left, st

LEMMA SyncTypes ==
  ASSUME StoreTypes, NEW f \in Flusher, Sync(f)
  PROVE  StoreTypes'
<1> USE DEF StoreTypes
<1> DEFINE s == sess[f]
           n == Take(f)
           g == groups[f][s]
           left == SubSeq(g, n + 1, Len(g))
           new == {[sess |-> s, off |-> Records(f, n)[i].seq, seg |-> cur[s].id,
                    ev |-> Records(f, n)[i].ev] : i \in DOMAIN Records(f, n)}
           st == Advanced(cur[s], n)
           m == Meta(s, st)
<1>1. /\ fpc[f] = "sync" /\ cur[s].row < MaxRows
      /\ cur' = [cur EXCEPT ![s] = st]
      /\ dirty' = [dirty EXCEPT ![s] = 0]
      /\ groups' = [groups EXCEPT ![f] = [groups[f] EXCEPT ![s] = left]]
      /\ rows' = [rows EXCEPT ![f] = rows[f] \cup new]
      /\ \/ metas' = metas /\ fpc' = [fpc EXCEPT ![f] = "write"] /\ lock' = lock /\ groups'[f][s] # <<>>
         \/ /\ metas' = [metas EXCEPT ![f] = Append(metas[f], m)]
            /\ \/ fpc' = [fpc EXCEPT ![f] = "index"] /\ lock' = Nobody
               \/ fpc' = [fpc EXCEPT ![f] = "group"] /\ lock' = lock
      /\ UNCHANGED <<log, pending, lastOff, sess, file, indexVars, ghostVars>>
  BY SyncIs
<1>2. /\ lock = f /\ s \in Session /\ cur[s] # NoState /\ g \in Seq(1 .. Len(log)) /\ cur[s].idx \in DOMAIN file[s]
      /\ \A h \in Flusher : h # f => fpc[h] \notin {"write", "sync"}
      /\ cur[s] \in CurType /\ cur[s].next = cur[s].first + cur[s].row
  BY <1>1, OneWriter
<1>3. n \in Nat \ {0} /\ n <= Len(g) /\ cur[s].row + n <= MaxRows
  BY <1>1, TakeIs
<1>4. /\ st \in CurType /\ st # NoState /\ st.idx = cur[s].idx /\ st.id = cur[s].id
      /\ st.next = st.first + st.row
  BY <1>2, <1>3, AdvancedIs
<1>5. m \in SegmentRow
  <2> HIDE DEF st, s
  <2> QED
    BY <1>2, <1>4, MetaType
<1>6. left \in Seq(1 .. Len(log))
  <2> HIDE DEF g, n
  <2>1. n + 1 \in Int /\ Len(g) \in Int /\ \A i \in n + 1 .. Len(g) : g[i] \in 1 .. Len(log)
    BY <1>2, <1>3
  <2>2. QED
    BY <2>1, SubSeqProperties
<1>7. new \in SUBSET RowOf(Len(log)) /\ IsFiniteSet(new)
  <2>1. n \in 0 .. Take(f)
    BY <1>3
  <2>2. /\ DOMAIN Records(f, n) = 1 .. n
        /\ \A i \in 1 .. n : /\ Records(f, n)[i] = [seq |-> cur[s].next + i - 1, row |-> cur[s].row + i - 1, ev |-> g[i]]
                             /\ g[i] \in 1 .. Len(log)
    BY <1>1, <2>1, RecordsIs
  <2>3. cur[s].next \in Nat /\ cur[s].id \in Nat
    BY <1>2 DEF CurType
  <2> DEFINE row(i) == [sess |-> s, off |-> Records(f, n)[i].seq, seg |-> cur[s].id, ev |-> Records(f, n)[i].ev]
  <2>4. ASSUME NEW i \in 1 .. n PROVE row(i) \in RowOf(Len(log))
    <3>1. Records(f, n)[i].seq = cur[s].next + i - 1 /\ Records(f, n)[i].ev = g[i] /\ g[i] \in 1 .. Len(log)
      BY <2>2
    <3>2. cur[s].next + i - 1 \in Nat
      BY <1>3, <2>3
    <3>3. QED
      BY <1>2, <2>3, <3>1, <3>2 DEF RowOf
  <2>5. new = {row(i) : i \in 1 .. n}
    BY <2>2
  <2>6. IsFiniteSet(1 .. n)
    BY <1>3, FS_Interval
  <2> DEFINE h == [i \in 1 .. n |-> row(i)]
  <2> HIDE DEF row, n, new
  <2>7. h = [i \in 1 .. n |-> h[i]] /\ {row(i) : i \in 1 .. n} = {h[i] : i \in 1 .. n}
    OBVIOUS
  <2>8. IsFiniteSet({h[i] : i \in 1 .. n})
    <3> HIDE DEF h
    <3> QED
      BY <2>6, <2>7, ImageFinite
  <2>9. QED
    BY <2>4, <2>5, <2>7, <2>8
<1> HIDE DEF s, n, g, left, new, st, m
<1>8. QueueOK' /\ IndexOK' /\ GhostOK'
  BY <1>1 DEF QueueOK, IndexOK, GhostOK, indexVars, ghostVars
<1>9. FlushOK'
  <2>1. fpc' \in [Flusher -> PCs] /\ DOMAIN sess' = Flusher
    BY <1>1 DEF FlushOK, PCs
  <2>2. groups' \in [Flusher -> [Session -> Seq(1 .. Len(log'))]]
    <3> DEFINE T == Seq(1 .. Len(log))
    <3>1. groups \in [Flusher -> [Session -> T]] /\ left \in T
      BY <1>6 DEF FlushOK
    <3> HIDE DEF T
    <3>2. groups' \in [Flusher -> [Session -> T]]
      BY <1>1, <1>2, <3>1
    <3>3. QED
      BY <1>1, <3>2 DEF T
  <2>3. rows' \in [Flusher -> SUBSET RowOf(Len(log'))]
    BY <1>1, <1>7 DEF FlushOK
  <2>4. \A h \in Flusher : IsFiniteSet(rows'[h])
    <3>1. IsFiniteSet(rows[f] \cup new)
      BY <1>7, FS_Union DEF FlushOK
    <3>2. QED
      BY <1>1, <3>1 DEF FlushOK
  <2>5. metas' \in [Flusher -> Seq(SegmentRow)]
    <3>1. metas \in [Flusher -> Seq(SegmentRow)] /\ Append(metas[f], m) \in Seq(SegmentRow)
      BY <1>5 DEF FlushOK
    <3>2. QED
      BY <1>1, <3>1
  <2>6. QED
    BY <2>1, <2>2, <2>3, <2>4, <2>5 DEF FlushOK
<1>10. LockOK'
  <2>1. /\ \A h \in Flusher : h # f => fpc'[h] = fpc[h]
        /\ \/ fpc'[f] \in {"write", "group"} /\ lock' = lock
           \/ fpc'[f] = "index" /\ lock' = Nobody
    BY <1>1 DEF FlushOK
  <2>2. lock = f /\ Nobody \notin Flusher
    BY <1>2, SessionStoreAssumption
  <2>3. \A h \in Flusher : h # f => fpc'[h] \notin {"write", "sync"}
    BY <1>2, <2>1
  <2>4. QED
    BY <2>1, <2>2, <2>3 DEF LockOK
<1>11. WritingOK'
  BY <1>1, <1>2, <1>4 DEF WritingOK, FlushOK, OpenOK, s
<1>12. FilesOK' /\ OpenOK'
  <2>1. FilesOK'
    BY <1>1 DEF FilesOK
  <2>2. /\ cur' \in [Session -> CurType] /\ dirty' \in [Session -> Nat] /\ cur'[s] = st /\ dirty'[s] = 0
        /\ \A t \in Session : t # s => cur'[t] = cur[t] /\ dirty'[t] = dirty[t]
    BY <1>1, <1>2, <1>4 DEF OpenOK
  <2>3. QED
    BY <1>1, <1>2, <1>4, <2>1, <2>2 DEF OpenOK
<1>13. QED
  BY <1>8, <1>9, <1>10, <1>11, <1>12

LEMMA InsertSegmentIs ==
  ASSUME StoreTypes, NEW f \in Flusher, InsertSegment(f)
  PROVE  \E m \in SegmentRow :
           /\ fpc[f] = "index" /\ m = metas[f][1] /\ 1 \in DOMAIN metas[f]
           /\ segments' = {r \in segments : r.id # m.id} \cup
                (IF \E r \in segments : r.id = m.id
                 THEN {[r EXCEPT !.end = m.end] : r \in {r \in segments : r.id = m.id}} ELSE {m})
           /\ metas' = [metas EXCEPT ![f] = Tail(metas[f])]
           /\ Tail(metas[f]) \in Seq(SegmentRow)
           /\ \A i \in DOMAIN Tail(metas[f]) :
                i + 1 \in DOMAIN metas[f] /\ Tail(metas[f])[i] = metas[f][i + 1]
           /\ UNCHANGED <<log, memVars, fpc, groups, sess, rows, diskVars, events, nextId, ghostVars>>
<1> DEFINE m == Head(metas[f])
           q == metas[f]
<1>1. q \in Seq(SegmentRow) /\ q # <<>>
  BY DEF InsertSegment, StoreTypes, FlushOK
<1>2. Len(q) \in Nat \ {0} /\ DOMAIN q = 1 .. Len(q) /\ m = q[1] /\ m \in SegmentRow
  BY <1>1
<1>3. /\ Tail(q) \in Seq(SegmentRow)
      /\ \A i \in DOMAIN Tail(q) : i + 1 \in DOMAIN q /\ Tail(q)[i] = q[i + 1]
  BY <1>1, <1>2
<1>4. /\ fpc[f] = "index" /\ metas' = [metas EXCEPT ![f] = Tail(q)]
      /\ UNCHANGED <<log, memVars, fpc, groups, sess, rows, diskVars, events, nextId, ghostVars>>
      /\ segments' = (segments \ {r \in segments : r.id = m.id}) \cup
          (IF {r \in segments : r.id = m.id} = {} THEN {m}
           ELSE {[r EXCEPT !.end = m.end] : r \in {r \in segments : r.id = m.id}})
  BY DEF InsertSegment
<1> HIDE DEF m
<1>5. segments \ {r \in segments : r.id = m.id} = {r \in segments : r.id # m.id}
  OBVIOUS
<1>6. ({r \in segments : r.id = m.id} = {}) <=> ~\E r \in segments : r.id = m.id
  OBVIOUS
<1>7. segments' = {r \in segments : r.id # m.id} \cup
                (IF \E r \in segments : r.id = m.id
                 THEN {[r EXCEPT !.end = m.end] : r \in {r \in segments : r.id = m.id}} ELSE {m})
  BY <1>4, <1>5, <1>6
<1>8. 1 \in DOMAIN q /\ m = q[1] /\ m \in SegmentRow
  BY <1>2
<1>9. QED
  BY <1>3, <1>4, <1>7, <1>8, Zenon

LEMMA InsertSegmentTypes ==
  ASSUME StoreTypes, NEW f \in Flusher, InsertSegment(f)
  PROVE  StoreTypes'
<1> USE DEF StoreTypes
<1>1. PICK m \in SegmentRow :
           /\ fpc[f] = "index"
           /\ segments' = {r \in segments : r.id # m.id} \cup
                (IF \E r \in segments : r.id = m.id
                 THEN {[r EXCEPT !.end = m.end] : r \in {r \in segments : r.id = m.id}} ELSE {m})
           /\ metas' = [metas EXCEPT ![f] = Tail(metas[f])]
           /\ Tail(metas[f]) \in Seq(SegmentRow)
           /\ UNCHANGED <<log, memVars, fpc, groups, sess, rows, diskVars, events, nextId, ghostVars>>
  BY InsertSegmentIs
<1> DEFINE old == {r \in segments : r.id = m.id}
           h == [r \in old |-> [r EXCEPT !.end = m.end]]
<1>2. IsFiniteSet(old) /\ old \subseteq SegmentRow
  <2>1. old \in SUBSET segments /\ IsFiniteSet(segments) /\ segments \subseteq SegmentRow
    BY DEF IndexOK
  <2> HIDE DEF old
  <2>2. QED
    BY <2>1, FS_Subset
<1>3. \A r \in old : h[r] \in SegmentRow
  BY <1>2 DEF SegmentRow
<1>4. h = [r \in old |-> h[r]] /\ {[r EXCEPT !.end = m.end] : r \in old} = {h[r] : r \in old}
  OBVIOUS
<1>5. IsFiniteSet({h[r] : r \in old})
  <2> HIDE DEF h, old
  <2> QED
    BY <1>2, <1>4, ImageFinite
<1> DEFINE new == IF \E r \in segments : r.id = m.id THEN {h[r] : r \in old} ELSE {m}
           rest == {r \in segments : r.id # m.id}
<1>6. segments' = rest \cup new
  BY <1>1, <1>4
<1>7. IsFiniteSet(new) /\ new \subseteq SegmentRow
  <2>1. IsFiniteSet({m})
    BY FS_Singleton
  <2> HIDE DEF h, old
  <2>2. QED
    BY <1>3, <1>5, <2>1
<1>8. IsFiniteSet(rest) /\ rest \subseteq SegmentRow
  <2>1. rest \in SUBSET segments /\ IsFiniteSet(segments) /\ segments \subseteq SegmentRow
    BY DEF IndexOK
  <2> HIDE DEF rest
  <2>2. QED
    BY <2>1, FS_Subset
<1> HIDE DEF rest, new
<1>9. IsFiniteSet(segments') /\ segments' \subseteq SegmentRow
  BY <1>6, <1>7, <1>8, FS_Union
<1>10. QueueOK' /\ GhostOK' /\ IndexOK'
  BY <1>1, <1>9 DEF QueueOK, GhostOK, IndexOK, memVars, ghostVars
<1>11. FlushOK' /\ LockOK' /\ WritingOK'
  BY <1>1 DEF FlushOK, LockOK, WritingOK, memVars
<1>12. FilesOK' /\ OpenOK'
  BY <1>1 DEF FilesOK, OpenOK, memVars, diskVars
<1>13. QED
  BY <1>10, <1>11, <1>12

LEMMA InsertEventsTypes ==
  ASSUME StoreTypes, NEW f \in Flusher, InsertEvents(f)
  PROVE  StoreTypes'
<1> USE DEF StoreTypes
<1>1. CASE FlushFails(f) /\ UNCHANGED file
  BY <1>1, FailsQuietly
<1>2. CASE /\ events' = events \cup rows[f]
           /\ fpc' = [fpc EXCEPT ![f] = "confirm"]
           /\ UNCHANGED <<log, memVars, groups, sess, metas, rows, diskVars, segments, nextId, ghostVars>>
  <2>1. fpc[f] = "index"
    BY DEF InsertEvents
  <2>2. QueueOK' /\ FlushOK' /\ GhostOK'
    BY <1>2 DEF QueueOK, FlushOK, GhostOK, PCs, memVars, ghostVars
  <2>3. IndexOK'
    BY <1>2 DEF FlushOK, IndexOK, memVars
  <2>4. LockOK' /\ WritingOK'
    BY <1>2, <2>1 DEF FlushOK, LockOK, WritingOK, memVars
  <2>5. FilesOK' /\ OpenOK'
    BY <1>2 DEF FilesOK, OpenOK, memVars, diskVars
  <2>6. QED
    BY <2>2, <2>3, <2>4, <2>5
<1>3. QED
  BY <1>1, <1>2 DEF InsertEvents

\* The greatest offset of a flush in one session.
LEMMA LastOffset ==
  ASSUME StoreTypes, NEW f \in Flusher, NEW s, {r \in rows[f] : r.sess = s} # {}
  PROVE  \E r \in rows[f] : r.sess = s /\ r.off = Max({q.off : q \in {q \in rows[f] : q.sess = s}}) /\ r.off \in Nat
<1> DEFINE own == {r \in rows[f] : r.sess = s}
           h == [r \in own |-> r.off]
           O == {q.off : q \in own}
<1>1. IsFiniteSet(own)
  <2>1. own \in SUBSET rows[f] /\ IsFiniteSet(rows[f])
    BY DEF StoreTypes, FlushOK
  <2> HIDE DEF own
  <2>2. QED
    BY <2>1, FS_Subset
<1>2. IsFiniteSet(O)
  <2>1. h = [r \in own |-> h[r]] /\ O = {h[r] : r \in own}
    OBVIOUS
  <2> HIDE DEF own, h, O
  <2>2. IsFiniteSet({h[r] : r \in own})
    BY <1>1, <2>1, ImageFinite
  <2>3. QED
    BY <2>1, <2>2
<1>3. O \in SUBSET Nat /\ O # {}
  <2>1. \A r \in own : r.off \in Nat
    BY DEF StoreTypes, FlushOK, RowOf
  <2>2. PICK r \in own : TRUE
    OBVIOUS
  <2>3. QED
    BY <2>1, <2>2
<1>4. Max(O) \in O
  <2> HIDE DEF O
  <2> QED
    BY <1>2, <1>3, MaxFinite
<1>5. PICK r \in own : r.off = Max(O)
  BY <1>4
<1>6. QED
  BY <1>3, <1>4, <1>5

LEMMA ConfirmTypes ==
  ASSUME StoreTypes, NEW f \in Flusher, Confirm(f)
  PROVE  StoreTypes'
<1> USE DEF StoreTypes
<1> DEFINE own(s) == {r \in rows[f] : r.sess = s}
<1>1. /\ fpc[f] = "confirm"
      /\ lastOff' = [s \in Session |-> IF own(s) = {} THEN lastOff[s] ELSE Max({r.off : r \in own(s)}) + 1]
      /\ ok' = ok \cup {r.ev : r \in rows[f]}
      /\ rows' = [rows EXCEPT ![f] = {}]
      /\ fpc' = [fpc EXCEPT ![f] = "idle"]
      /\ UNCHANGED <<log, pending, cur, lock, groups, sess, metas, diskVars, indexVars, base, forks, crashes>>
  BY DEF Confirm
<1>2. lastOff' \in [Session -> Nat]
  <2> DEFINE lo(s) == IF own(s) = {} THEN lastOff[s] ELSE Max({r.off : r \in own(s)}) + 1
  <2>1. ASSUME NEW s \in Session PROVE lo(s) \in Nat
    <3>1. own(s) # {} => Max({r.off : r \in own(s)}) \in Nat
      BY LastOffset
    <3>2. QED
      BY <3>1 DEF IndexOK
  <2>2. lastOff' = [s \in Session |-> lo(s)]
    BY <1>1
  <2> HIDE DEF lo
  <2>3. QED
    BY <2>1, <2>2
<1>3. QueueOK'
  <2>1. \A r \in rows[f] : r.ev \in 1 .. Len(log)
    BY DEF FlushOK, RowOf
  <2>2. QED
    BY <1>1, <2>1 DEF QueueOK
<1>4. IndexOK' /\ GhostOK'
  BY <1>1, <1>2 DEF IndexOK, GhostOK, indexVars
<1>5. FlushOK'
  BY <1>1, FS_EmptySet DEF FlushOK, PCs
<1>6. LockOK' /\ WritingOK'
  BY <1>1 DEF FlushOK, LockOK, WritingOK
<1>7. FilesOK' /\ OpenOK'
  BY <1>1 DEF FilesOK, OpenOK, diskVars
<1>8. QED
  BY <1>3, <1>4, <1>5, <1>6, <1>7

LEMMA QuietTypes ==
  ASSUME StoreTypes, NEW f \in Flusher, Refuse(f) \/ SyncFails(f) \/ IndexFails(f)
  PROVE  StoreTypes'
BY FailsQuietly DEF Refuse, SyncFails, IndexFails

\* The rows that a fork copies, and the copies.
Old(p, n) == {r \in segments : r.sess = p /\ r.start < n}
CopyId(p, n, r) == nextId + Cardinality({q \in Old(p, n) : q.id < r.id})
CopyOf(p, n, c, r) ==
  [id |-> CopyId(p, n, r), sess |-> c, idx |-> r.idx, parent |-> r.id, start |-> r.start,
   end |-> Min({r.end, n - 1})]
Copy(p, n, c) == {CopyOf(p, n, c, r) : r \in Old(p, n)}

LEMMA ForkIs ==
  ASSUME NEW p, NEW n, NEW c, Fork(p, n, c)
  PROVE  /\ p # c /\ file[c] = <<>> /\ cur[c] = NoState /\ \A e \in DOMAIN log : log[e] # c
         /\ segments' = segments \cup Copy(p, n, c)
         /\ n > 0 => \E r \in Old(p, n) : Min({r.end, n - 1}) = n - 1
         /\ nextId' = nextId + Cardinality(Old(p, n)) + 1
         /\ file' = [file EXCEPT ![c] = << << >> >>]
         /\ cur' = [cur EXCEPT ![c] = State(1, 0, n, nextId + Cardinality(Old(p, n)))] \/ n \notin Nat
         /\ base' = [base EXCEPT ![c] = [from |-> n, seen |-> {x \in Replay(p) : x.seq < n}]]
         /\ forks' = forks + 1
         /\ UNCHANGED <<log, pending, lock, lastOff, flushVars, dirty, events, ok, crashes>>
<1>1. /\ p # c /\ file[c] = <<>> /\ cur[c] = NoState /\ \A e \in DOMAIN log : log[e] # c
      /\ nextId' = nextId + Cardinality(Old(p, n)) + 1
      /\ file' = [file EXCEPT ![c] = << << >> >>]
      /\ base' = [base EXCEPT ![c] = [from |-> n, seen |-> {x \in Replay(p) : x.seq < n}]]
      /\ forks' = forks + 1
      /\ UNCHANGED <<log, pending, lock, lastOff, flushVars, dirty, events, ok, crashes>>
  BY DEF Fork, Fresh, Old
<1>2. segments' = segments \cup Copy(p, n, c)
  BY DEF Fork, Copy, CopyOf, CopyId, Old
<1>3. n > 0 => \E r \in Old(p, n) : Min({r.end, n - 1}) = n - 1
  BY DEF Fork, Old
<1>4. ASSUME n \in Nat PROVE cur' = [cur EXCEPT ![c] = State(1, 0, n, nextId + Cardinality(Old(p, n)))]
  <2>1. cur' = [cur EXCEPT ![c] = [NoState EXCEPT !.idx = 1, !.next = n, !.first = n,
                                                  !.id = nextId + Cardinality(Old(p, n))]]
    BY DEF Fork, Old
  <2> DEFINE i == nextId + Cardinality(Old(p, n))
  <2>2. [NoState EXCEPT !.idx = 1, !.next = n, !.first = n, !.id = i] = State(1, 0, n, i)
    <3> HIDE DEF i
    <3>1. n + 0 = n
      BY <1>4
    <3>2. State(1, 0, n, i) = [idx |-> 1, row |-> 0, next |-> n, first |-> n, id |-> i]
      BY <3>1 DEF State
    <3>3. [NoState EXCEPT !.idx = 1] = [idx |-> 1, row |-> 0, next |-> 0, first |-> 0, id |-> 0]
      BY DEF NoState
    <3>4. [[idx |-> 1, row |-> 0, next |-> 0, first |-> 0, id |-> 0] EXCEPT !.next = n]
            = [idx |-> 1, row |-> 0, next |-> n, first |-> 0, id |-> 0]
      OBVIOUS
    <3>8. [[idx |-> 1, row |-> 0, next |-> n, first |-> 0, id |-> 0] EXCEPT !.first = n]
            = [idx |-> 1, row |-> 0, next |-> n, first |-> n, id |-> 0]
      OBVIOUS
    <3>5. [[idx |-> 1, row |-> 0, next |-> n, first |-> n, id |-> 0] EXCEPT !.id = i]
            = [idx |-> 1, row |-> 0, next |-> n, first |-> n, id |-> i]
      OBVIOUS
    <3>6. [NoState EXCEPT !.idx = 1, !.next = n, !.first = n, !.id = i]
            = [[[[NoState EXCEPT !.idx = 1] EXCEPT !.next = n] EXCEPT !.first = n] EXCEPT !.id = i]
      OBVIOUS
    <3>7. QED
      BY <3>2, <3>3, <3>4, <3>5, <3>6, <3>8
  <2>3. QED
    BY <2>1, <2>2
<1>5. QED
  BY <1>1, <1>2, <1>3, <1>4

LEMMA OldIs ==
  ASSUME StoreTypes, NEW p, NEW n \in Nat
  PROVE  /\ Old(p, n) \subseteq segments /\ IsFiniteSet(Old(p, n)) /\ Cardinality(Old(p, n)) \in Nat
         /\ \A r \in Old(p, n) :
              /\ r \in SegmentRow /\ Cardinality({q \in Old(p, n) : q.id < r.id}) \in Nat
              /\ Cardinality({q \in Old(p, n) : q.id < r.id}) < Cardinality(Old(p, n))
              /\ Min({r.end, n - 1}) \in Nat /\ Min({r.end, n - 1}) < n /\ n - 1 \in Nat
              /\ Min({r.end, n - 1}) = IF r.end <= n - 1 THEN r.end ELSE n - 1
<1> DEFINE O == Old(p, n)
<1>1. O \in SUBSET segments /\ IsFiniteSet(segments) /\ segments \subseteq SegmentRow
  BY DEF StoreTypes, IndexOK, Old
<1>2. \A r \in O : r.start < n
  BY DEF Old
<1> HIDE DEF O
<1>3. IsFiniteSet(O) /\ Cardinality(O) \in Nat
  BY <1>1, FS_Subset, FS_CardinalityType
<1>4. ASSUME NEW r \in O
      PROVE  /\ r \in SegmentRow /\ Cardinality({q \in O : q.id < r.id}) \in Nat
             /\ Cardinality({q \in O : q.id < r.id}) < Cardinality(O)
             /\ Min({r.end, n - 1}) \in Nat /\ Min({r.end, n - 1}) < n /\ n - 1 \in Nat
             /\ Min({r.end, n - 1}) = IF r.end <= n - 1 THEN r.end ELSE n - 1
  <2> DEFINE L == {q \in O : q.id < r.id}
             e == r.end
             l == n - 1
  <2>1. r \in SegmentRow
    BY <1>1
  <2>2. r.id \in Nat /\ e \in Nat /\ r.start \in Nat
    BY <2>1 DEF SegmentRow
  <2>3. L \in SUBSET O /\ L # O
    BY <2>2
  <2>4. Cardinality(L) \in Nat /\ Cardinality(L) < Cardinality(O)
    <3> HIDE DEF L
    <3>1. Cardinality(L) \in Nat /\ Cardinality(L) <= Cardinality(O) /\ Cardinality(L) # Cardinality(O)
      BY <1>3, <2>3, FS_Subset, FS_CardinalityType
    <3>2. QED
      BY <1>3, <3>1
  <2>5. l \in Nat /\ l < n
    BY <1>2, <2>2
  <2> HIDE DEF e, l
  <2>6. Min({e, l}) = IF e <= l THEN e ELSE l
    BY <2>2, <2>5, MinOfTwo
  <2>7. Min({e, l}) \in Nat /\ Min({e, l}) < n
    BY <2>2, <2>5, <2>6
  <2>8. QED
    BY <2>1, <2>4, <2>5, <2>6, <2>7 DEF e, l
<1>5. QED
  BY <1>1, <1>3, <1>4 DEF O

LEMMA ForkTypes ==
  ASSUME StoreTypes, NEW p \in Session, NEW n \in Nat, NEW c \in Session, Fork(p, n, c)
  PROVE  StoreTypes'
<1> USE DEF StoreTypes
<1> DEFINE N == Cardinality(Old(p, n))
           st == State(1, 0, n, nextId + N)
           bs == [from |-> n, seen |-> {x \in Replay(p) : x.seq < n}]
           O == Old(p, n)
<1>1. /\ cur[c] = NoState /\ segments' = segments \cup Copy(p, n, c)
      /\ nextId' = nextId + N + 1
      /\ file' = [file EXCEPT ![c] = << << >> >>]
      /\ cur' = [cur EXCEPT ![c] = st]
      /\ base' = [base EXCEPT ![c] = bs]
      /\ forks' = forks + 1
      /\ UNCHANGED <<log, pending, lock, lastOff, fpc, groups, sess, metas, rows, dirty, events, ok, crashes>>
  BY ForkIs DEF flushVars
<1>2. N \in Nat /\ nextId \in Nat \ {0} /\ nextId + N \in Nat /\ nextId + N + 1 \in Nat \ {0}
  BY OldIs DEF IndexOK
<1>3. st \in CurType /\ st # NoState /\ st.idx = 1 /\ st.next = st.first + st.row
  <2> DEFINE i == nextId + N
  <2>1. i \in Nat
    BY <1>2
  <2> HIDE DEF i
  <2>2. State(1, 0, n, i) \in CurType /\ State(1, 0, n, i) # NoState
    BY <2>1, RowsPositive DEF State, CurType, NoState
  <2>3. QED
    BY <2>2 DEF i, State
<1>4. bs.from = n
  OBVIOUS
<1>5. Copy(p, n, c) \subseteq SegmentRow /\ IsFiniteSet(Copy(p, n, c))
  <2>1. ASSUME NEW r \in O PROVE CopyOf(p, n, c, r) \in SegmentRow
    <3> DEFINE i == CopyId(p, n, r)
               e == Min({r.end, n - 1})
    <3>1. i \in Nat /\ r \in SegmentRow /\ e \in Nat
      <4>1. Cardinality({q \in Old(p, n) : q.id < r.id}) \in Nat /\ r \in SegmentRow /\ e \in Nat
        BY OldIs
      <4>2. i \in Nat
        BY <1>2, <4>1 DEF CopyId
      <4>3. QED
        BY <4>1, <4>2
    <3>2. r.idx \in Nat /\ r.id \in Nat /\ r.start \in Nat
      BY <3>1 DEF SegmentRow
    <3>3. CopyOf(p, n, c, r) = [id |-> i, sess |-> c, idx |-> r.idx, parent |-> r.id, start |-> r.start, end |-> e]
      BY DEF CopyOf
    <3> HIDE DEF i, e
    <3>4. QED
      BY <3>1, <3>2, <3>3 DEF SegmentRow
  <2> DEFINE h == [r \in O |-> CopyOf(p, n, c, r)]
  <2>2. h = [r \in O |-> h[r]] /\ Copy(p, n, c) = {h[r] : r \in O}
    BY DEF Copy
  <2>3. IsFiniteSet(O)
    BY OldIs
  <2>4. IsFiniteSet({h[r] : r \in O})
    <3> HIDE DEF h, O
    <3> QED
      BY <2>2, <2>3, ImageFinite
  <2>5. QED
    BY <2>1, <2>2, <2>4 DEF Copy
<1> HIDE DEF N, st, bs, O
<1>6. QueueOK' /\ FlushOK' /\ LockOK'
  BY <1>1 DEF QueueOK, FlushOK, LockOK
<1>7. IndexOK'
  <2>1. IsFiniteSet(segments \cup Copy(p, n, c))
    BY <1>5, FS_Union DEF IndexOK
  <2>2. QED
    BY <1>1, <1>2, <1>5, <2>1 DEF IndexOK
<1>8. GhostOK'
  BY <1>1, <1>4 DEF GhostOK
<1>9. FilesOK'
  <2> DEFINE T == Seq(Seq(Item(Len(log))))
  <2>1. << << >> >> \in T /\ file \in [Session -> T]
    BY DEF FilesOK
  <2> HIDE DEF T
  <2>2. file' \in [Session -> T]
    BY <1>1, <2>1
  <2>3. QED
    BY <1>1, <2>2 DEF FilesOK, T
<1>10. /\ cur' \in [Session -> CurType] /\ cur'[c] = st /\ file'[c] = << << >> >> /\ dirty[c] = 0
       /\ \A t \in Session : t # c => cur'[t] = cur[t] /\ file'[t] = file[t]
  BY <1>1, <1>3 DEF OpenOK, FilesOK
<1>11. OpenOK'
  <2>1. ASSUME NEW t \in Session, cur'[t] # NoState
        PROVE  cur'[t].idx \in DOMAIN file'[t] /\ cur'[t].next = cur'[t].first + cur'[t].row
    <3>1. CASE t = c
      <4>1. 1 \in DOMAIN << << >> >>
        OBVIOUS
      <4>2. QED
        BY <1>3, <1>10, <3>1, <4>1
    <3>2. CASE t # c
      BY <1>10, <2>1, <3>2 DEF OpenOK
    <3>3. QED
      BY <3>1, <3>2
  <2>2. ASSUME NEW t \in Session, dirty'[t] > 0
        PROVE  cur'[t] # NoState /\ cur'[t].row < MaxRows /\ dirty'[t] <= Len(file'[t][cur'[t].idx])
    <3>1. t # c
      BY <1>1, <1>10, <2>2
    <3>2. QED
      BY <1>1, <1>10, <2>2, <3>1 DEF OpenOK
  <2>3. QED
    BY <1>1, <1>10, <2>1, <2>2 DEF OpenOK
<1>12. WritingOK'
  BY <1>1, <1>10 DEF WritingOK
<1>13. QED
  BY <1>6, <1>7, <1>8, <1>9, <1>11, <1>12

\* rebuild_index: the id, the row and the events of segment k.
HasRow(s, k) == \E r \in OwnRows(s) : r.idx = k
RowFor(s, k) == CHOOSE r \in OwnRows(s) : r.idx = k
NewId(s, k) == IF HasRow(s, k) THEN RowFor(s, k).id ELSE nextId + k
NewStart(s, k) == IF HasRow(s, k) THEN RowFor(s, k).start ELSE Clean(file[s][k])[1].seq
NewRow(s, k) ==
  [id |-> NewId(s, k), sess |-> s, idx |-> k, parent |-> 0, start |-> NewStart(s, k),
   end |-> Clean(file[s][k])[Len(Clean(file[s][k]))].seq]
NewEvents(s, k) ==
  {[sess |-> s, off |-> x.seq, seg |-> NewId(s, k), ev |-> x.ev] : x \in RecordSet(Clean(file[s][k]))}

LEMMA RebuildIs ==
  ASSUME NEW s, Rebuild(s)
  PROVE  /\ cur[s] = NoState /\ \A f \in Flusher : groups[f][s] = <<>>
         /\ segments' = {r \in segments : \A k \in Filled(s) : r.id # NewId(s, k)}
                          \cup {NewRow(s, k) : k \in Filled(s)}
         /\ events' = events \cup {q \in UNION {NewEvents(s, k) : k \in Filled(s)} :
                                     \A o \in events : o.sess = s => o.off # q.off}
         /\ nextId' = IF \A k \in Filled(s) : NewId(s, k) < nextId THEN nextId
                      ELSE nextId + Len(file[s]) + 1
         /\ UNCHANGED <<log, memVars, flushVars, diskVars, ghostVars>>
<1>1. \A k : NewId(s, k) = IF \E r \in OwnRows(s) : r.idx = k THEN SegmentId(s, k) ELSE nextId + k
  BY DEF NewId, HasRow, RowFor, SegmentId
<1>2. /\ cur[s] = NoState /\ \A f \in Flusher : groups[f][s] = <<>>
      /\ UNCHANGED <<log, memVars, flushVars, diskVars, ghostVars>>
      /\ nextId' = IF \A k \in Filled(s) : NewId(s, k) < nextId THEN nextId
                      ELSE nextId + Len(file[s]) + 1
  BY <1>1 DEF Rebuild
<1>3. segments' = {r \in segments : \A k \in Filled(s) : r.id # NewId(s, k)}
                          \cup {NewRow(s, k) : k \in Filled(s)}
  <2>1. \A k : NewRow(s, k) = [id |-> NewId(s, k), sess |-> s, idx |-> k, parent |-> 0,
                               start |-> IF \E r \in OwnRows(s) : r.idx = k
                                         THEN (CHOOSE r \in OwnRows(s) : r.idx = k).start
                                         ELSE Clean(file[s][k])[1].seq,
                               end |-> Clean(file[s][k])[Len(Clean(file[s][k]))].seq]
    BY DEF NewRow, NewStart, HasRow, RowFor
  <2> DEFINE id(k) == IF \E r \in OwnRows(s) : r.idx = k THEN SegmentId(s, k) ELSE nextId + k
             row(k) == [id |-> id(k), sess |-> s, idx |-> k, parent |-> 0,
                        start |-> IF \E r \in OwnRows(s) : r.idx = k
                                  THEN (CHOOSE r \in OwnRows(s) : r.idx = k).start
                                  ELSE Clean(file[s][k])[1].seq,
                        end |-> Clean(file[s][k])[Len(Clean(file[s][k]))].seq]
  <2>2. segments' = {r \in segments : \A k \in Filled(s) : r.id # id(k)} \cup {row(k) : k \in Filled(s)}
    BY DEF Rebuild
  <2>3. \A k : id(k) = NewId(s, k)
    BY <1>1
  <2>4. \A k : row(k) = NewRow(s, k)
    BY <2>1, <2>3
  <2> HIDE DEF id, row
  <2>5. QED
    BY <2>2, <2>3, <2>4
<1>4. events' = events \cup {q \in UNION {NewEvents(s, k) : k \in Filled(s)} :
                               \A o \in events : o.sess = s => o.off # q.off}
  <2> DEFINE id(k) == IF \E r \in OwnRows(s) : r.idx = k THEN SegmentId(s, k) ELSE nextId + k
             evs(k) == {[sess |-> s, off |-> x.seq, seg |-> id(k), ev |-> x.ev] :
                          x \in RecordSet(Clean(file[s][k]))}
             found == UNION {evs(k) : k \in Filled(s)}
             known == {q.off : q \in {q \in events : q.sess = s}}
  <2>1. events' = events \cup {q \in found : q.off \notin known}
    BY DEF Rebuild
  <2>2. \A k : evs(k) = NewEvents(s, k)
    BY <1>1 DEF NewEvents
  <2>3. \A v : (v \notin known) <=> \A o \in events : o.sess = s => o.off # v
    OBVIOUS
  <2> HIDE DEF evs, known
  <2>4. found = UNION {NewEvents(s, k) : k \in Filled(s)}
    BY <2>2
  <2> HIDE DEF found
  <2>5. QED
    BY <2>1, <2>3, <2>4
<1>5. QED
  BY <1>2, <1>3, <1>4

LEMMA RowForIs ==
  ASSUME IndexOK, NEW s, NEW k, HasRow(s, k)
  PROVE  /\ RowFor(s, k) \in segments /\ RowFor(s, k).sess = s /\ RowFor(s, k).parent = 0
         /\ RowFor(s, k).idx = k /\ RowFor(s, k).id \in Nat /\ RowFor(s, k).start \in Nat
<1> DEFINE r == RowFor(s, k)
<1>1. r \in OwnRows(s) /\ r.idx = k
  BY DEF HasRow, RowFor
<1> HIDE DEF r
<1>2. r \in segments /\ r.sess = s /\ r.parent = 0 /\ r.idx = k /\ r.id \in Nat /\ r.start \in Nat
  BY <1>1 DEF OwnRows, IndexOK, SegmentRow
<1>3. QED
  BY <1>2 DEF r

\* The records of a file that has some.
LEMMA FilledRecords ==
  ASSUME StoreTypes, NEW s \in Session, NEW k \in Filled(s)
  PROVE  /\ k \in Nat \ {0} /\ k <= Len(file[s]) /\ k \in DOMAIN file[s]
         /\ Clean(file[s][k])[1].seq \in Nat /\ Clean(file[s][k])[Len(Clean(file[s][k]))].seq \in Nat
         /\ NewId(s, k) \in Nat /\ NewStart(s, k) \in Nat
         /\ \A x \in RecordSet(Clean(file[s][k])) : x.seq \in Nat /\ x.ev \in 1 .. Len(log)
<1> DEFINE q == file[s][k]
           c == Clean(q)
           T == Item(Len(log))
<1>1. k \in Nat \ {0} /\ k <= Len(file[s]) /\ k \in DOMAIN file[s] /\ q \in Seq(T)
  BY FileType DEF Filled, StoreTypes
<1>2. Len(c) > 0
  BY FilledIs DEF StoreTypes
<1> HIDE DEF q
<1>3. /\ c \in Seq(T) /\ Len(c) \in Nat /\ DOMAIN c = 1 .. Len(c)
      /\ \A i \in 1 .. Len(c) : c[i] = q[i] /\ q[i].ev # 0
  BY <1>1, CleanIs
<1> HIDE DEF c
<1>4. \A i \in 1 .. Len(c) : c[i].seq \in Nat /\ c[i].ev \in 1 .. Len(log)
  <2> SUFFICES ASSUME NEW i \in 1 .. Len(c) PROVE c[i].seq \in Nat /\ c[i].ev \in 1 .. Len(log)
    OBVIOUS
  <2>1. c[i] \in T /\ c[i].ev # 0
    BY <1>3
  <2>2. c[i].seq \in Nat /\ c[i].ev \in 0 .. Len(log) /\ Len(log) \in Nat
    BY <2>1 DEF Item, StoreTypes, QueueOK
  <2>3. QED
    BY <2>1, <2>2
<1>5. c[1].seq \in Nat /\ c[Len(c)].seq \in Nat
  BY <1>2, <1>3, <1>4
<1>6. \A x \in RecordSet(c) : x.seq \in Nat /\ x.ev \in 1 .. Len(log)
  BY <1>3, <1>4 DEF RecordSet
<1>7. NewId(s, k) \in Nat
  BY <1>1, RowForIs DEF NewId, StoreTypes, IndexOK
<1>8. NewStart(s, k) \in Nat
  BY <1>5, RowForIs DEF NewStart, StoreTypes, c, q
<1>9. QED
  BY <1>1, <1>5, <1>6, <1>7, <1>8 DEF c, q

LEMMA RebuildTypes ==
  ASSUME StoreTypes, NEW s \in Session, Rebuild(s)
  PROVE  StoreTypes'
<1> USE DEF StoreTypes
<1> DEFINE rest == {r \in segments : \A k \in Filled(s) : r.id # NewId(s, k)}
           new == {NewRow(s, k) : k \in Filled(s)}
           found == {q \in UNION {NewEvents(s, k) : k \in Filled(s)} :
                       \A o \in events : o.sess = s => o.off # q.off}
<1>1. /\ segments' = rest \cup new /\ events' = events \cup found
      /\ nextId' = IF \A k \in Filled(s) : NewId(s, k) < nextId THEN nextId
                   ELSE nextId + Len(file[s]) + 1
      /\ UNCHANGED <<log, pending, cur, lock, lastOff, fpc, groups, sess, metas, rows, file, dirty, ghostVars>>
  BY RebuildIs DEF memVars, flushVars, diskVars
<1>2. IsFiniteSet(rest) /\ rest \subseteq SegmentRow
  <2>1. rest \in SUBSET segments /\ IsFiniteSet(segments) /\ segments \subseteq SegmentRow
    BY DEF IndexOK
  <2> HIDE DEF rest
  <2>2. QED
    BY <2>1, FS_Subset
<1>3. IsFiniteSet(new) /\ new \subseteq SegmentRow
  <2>1. Filled(s) \in SUBSET (1 .. Len(file[s])) /\ Len(file[s]) \in Nat
    BY FileType DEF Filled
  <2>2. IsFiniteSet(Filled(s))
    <3>1. IsFiniteSet(1 .. Len(file[s]))
      BY <2>1, FS_Interval
    <3>2. QED
      BY <2>1, <3>1, FS_Subset
  <2> DEFINE h == [k \in Filled(s) |-> NewRow(s, k)]
  <2>3. h = [k \in Filled(s) |-> h[k]] /\ new = {h[k] : k \in Filled(s)}
    OBVIOUS
  <2>4. IsFiniteSet(new)
    <3> HIDE DEF h, new
    <3> QED
      BY <2>2, <2>3, ImageFinite
  <2>5. ASSUME NEW k \in Filled(s) PROVE NewRow(s, k) \in SegmentRow
    <3> DEFINE e == Clean(file[s][k])[Len(Clean(file[s][k]))].seq
    <3>1. k \in Nat /\ NewId(s, k) \in Nat /\ NewStart(s, k) \in Nat /\ e \in Nat
      BY FilledRecords
    <3>2. NewRow(s, k) = [id |-> NewId(s, k), sess |-> s, idx |-> k, parent |-> 0,
                          start |-> NewStart(s, k), end |-> e]
      BY DEF NewRow
    <3> HIDE DEF e
    <3>3. QED
      BY <3>1, <3>2 DEF SegmentRow
  <2>6. QED
    BY <2>4, <2>5
<1>4. found \subseteq RowOf(Len(log))
  <2>1. ASSUME NEW k \in Filled(s) PROVE NewEvents(s, k) \subseteq RowOf(Len(log))
    <3>1. NewId(s, k) \in Nat /\ \A x \in RecordSet(Clean(file[s][k])) : x.seq \in Nat /\ x.ev \in 1 .. Len(log)
      BY FilledRecords
    <3>2. QED
      BY <3>1 DEF NewEvents, RowOf
  <2>2. QED
    BY <2>1
<1>5. nextId' \in Nat \ {0}
  BY <1>1, FileType DEF IndexOK
<1> HIDE DEF rest, new, found
<1>6. IndexOK'
  <2>1. IsFiniteSet(rest \cup new) /\ rest \cup new \subseteq SegmentRow
    BY <1>2, <1>3, FS_Union
  <2>2. QED
    BY <1>1, <1>4, <1>5, <2>1 DEF IndexOK
<1>7. QueueOK' /\ FlushOK' /\ LockOK' /\ WritingOK' /\ GhostOK'
  BY <1>1 DEF QueueOK, FlushOK, LockOK, WritingOK, GhostOK, ghostVars
<1>8. FilesOK' /\ OpenOK'
  BY <1>1 DEF FilesOK, OpenOK
<1>9. QED
  BY <1>6, <1>7, <1>8

\* What a crash leaves of the files of a session.
LEMMA LeftIs ==
  ASSUME StoreTypes, NEW s \in Session, NEW F \in Left(s)
  PROVE  /\ F \in Seq(Seq(Item(Len(log)))) /\ Len(F) = Len(file[s]) /\ DOMAIN F = DOMAIN file[s]
         /\ dirty[s] = 0 => F = file[s]
         /\ dirty[s] > 0 =>
              /\ \A k \in DOMAIN file[s] : k # cur[s].idx => F[k] = file[s][k]
              /\ \E i \in Len(file[s][cur[s].idx]) - dirty[s] .. Len(file[s][cur[s].idx]),
                    tail \in {<<>>, <<Torn>>} :
                   F[cur[s].idx] = SubSeq(file[s][cur[s].idx], 1, i) \o tail
<1> DEFINE T == Item(Len(log))
           k == cur[s].idx
           q == file[s][k]
<1>1. file[s] \in Seq(Seq(T)) /\ dirty[s] \in Nat
  BY DEF StoreTypes, FilesOK, OpenOK
<1>2. CASE dirty[s] = 0
  BY <1>1, <1>2 DEF Left
<1>3. CASE dirty[s] > 0
  <2>1. k \in DOMAIN file[s] /\ q \in Seq(T) /\ dirty[s] <= Len(q) /\ Len(q) \in Nat
    BY <1>3, FileType DEF StoreTypes, OpenOK
  <2>2. PICK i \in Len(q) - dirty[s] .. Len(q), tail \in {<<>>, <<Torn>>} :
          F = [file[s] EXCEPT ![k] = SubSeq(q, 1, i) \o tail]
    <3>1. dirty[s] # 0
      BY <1>1, <1>3
    <3>2. Left(s) = {[file[s] EXCEPT ![k] = SubSeq(q, 1, i) \o tail] :
                       i \in Len(q) - dirty[s] .. Len(q), tail \in {<<>>, <<Torn>>}}
      BY <3>1 DEF Left
    <3>3. QED
      BY <3>2
  <2>3. SubSeq(q, 1, i) \in Seq(T)
    <3> HIDE DEF q, T
    <3>1. i \in Int /\ \A j \in 1 .. i : q[j] \in T
      BY <1>1, <2>1
    <3>2. QED
      BY <3>1, SubSeqProperties
  <2>4. tail \in Seq(T)
    <3>1. Torn \in T
      BY RowsPositive DEF Torn, Item, StoreTypes, QueueOK
    <3> HIDE DEF T
    <3>2. <<>> \in Seq(T) /\ <<Torn>> \in Seq(T)
      BY <3>1
    <3>3. QED
      BY <3>2
  <2> DEFINE x == SubSeq(q, 1, i)
             y == x \o tail
             G == file[s]
             TT == Seq(T)
  <2>5. y \in TT
    <3> HIDE DEF x, T
    <3> QED
      BY <2>3, <2>4, ConcatProperties DEF x
  <2>6. G \in Seq(TT) /\ k \in DOMAIN G /\ F = [G EXCEPT ![k] = y]
    BY <1>1, <2>1, <2>2
  <2> HIDE DEF G, TT, y, k
  <2>7. F \in Seq(TT) /\ Len(F) = Len(G) /\ DOMAIN F = DOMAIN G /\ F[k] = y /\ \A l \in DOMAIN G : l # k => F[l] = G[l]
    BY <2>5, <2>6
  <2>8. F \in Seq(Seq(T)) /\ Len(F) = Len(file[s]) /\ DOMAIN F = DOMAIN file[s]
        /\ F[k] = SubSeq(q, 1, i) \o tail /\ \A l \in DOMAIN file[s] : l # k => F[l] = file[s][l]
    BY <2>7 DEF G, TT, y
  <2>9. \E j \in Len(q) - dirty[s] .. Len(q), z \in {<<>>, <<Torn>>} : F[k] = SubSeq(q, 1, j) \o z
    BY <2>2, <2>8, Zenon
  <2>10. dirty[s] # 0
    BY <1>1, <1>3
  <2>11. QED
    BY <2>8, <2>9, <2>10, Zenon DEF k
<1>4. dirty[s] = 0 \/ dirty[s] > 0
  BY <1>1
<1>5. QED
  BY <1>2, <1>3, <1>4, Zenon

LEMMA CrashTypes ==
  ASSUME StoreTypes, Crash
  PROVE  StoreTypes'
<1> USE DEF StoreTypes
<1>1. /\ crashes' = crashes + 1 /\ pending' = <<>> /\ cur' = [s \in Session |-> NoState]
      /\ lock' = Nobody /\ lastOff' = [s \in Session |-> 0] /\ fpc' = [f \in Flusher |-> "idle"]
      /\ groups' = [f \in Flusher |-> NoGroups] /\ metas' = [f \in Flusher |-> <<>>]
      /\ rows' = [f \in Flusher |-> {}] /\ dirty' = [s \in Session |-> 0]
      /\ UNCHANGED <<log, sess, segments, events, nextId, base, forks, ok>>
  BY DEF Crash, indexVars
<1>2. \A s \in Session : file'[s] \in Left(s)
  BY DEF Crash
<1>3. DOMAIN file' = Session /\ file' = [s \in Session |-> file'[s]]
  BY DEF Crash
<1>4. QueueOK' /\ LockOK' /\ WritingOK'
  BY <1>1, SessionStoreAssumption DEF QueueOK, LockOK, WritingOK
<1>5. FlushOK'
  BY <1>1, FS_EmptySet DEF FlushOK, PCs, NoGroups
<1>6. IndexOK' /\ GhostOK'
  BY <1>1 DEF IndexOK, GhostOK
<1>7. FilesOK'
  <2>1. \A s \in Session : file'[s] \in Seq(Seq(Item(Len(log))))
    BY <1>2, LeftIs
  <2> DEFINE T == Seq(Seq(Item(Len(log))))
  <2>2. file' \in [Session -> T]
    <3>1. \A s \in Session : file'[s] \in T
      BY <2>1
    <3> HIDE DEF T
    <3>2. QED
      BY <1>3, <3>1
  <2>3. QED
    BY <1>1, <2>2 DEF FilesOK
<1>8. OpenOK'
  BY <1>1, RowsPositive DEF OpenOK, CurType, NoState
<1>9. QED
  BY <1>4, <1>5, <1>6, <1>7, <1>8

-----------------------------------------------------------------------------
(* An id stands for one segment, and copied rows are left alone.           *)

LEMMA StandsType ==
  ASSUME StoreTypes, NEW i, NEW s, NEW k, NEW p, Stands(i, s, k, p)
  PROVE  i \in Nat
<1>1. CASE InIndex(i, s, k, p)
  BY <1>1 DEF InIndex, StoreTypes, IndexOK, SegmentRow
<1>2. CASE InMetas(i, s, k, p)
  <2>1. PICK f \in Flusher : \E j \in DOMAIN metas[f] : metas[f][j].id = i
    BY <1>2 DEF InMetas
  <2>5. PICK j \in DOMAIN metas[f] : metas[f][j].id = i
    BY <2>1
  <2>2. metas[f] \in Seq(SegmentRow)
    BY DEF StoreTypes, FlushOK
  <2>3. metas[f][j] \in SegmentRow
    BY <2>2, <2>5
  <2>4. QED
    BY <2>3, <2>5 DEF SegmentRow
<1>3. CASE IsOpen(i, s, k, p)
  BY <1>3 DEF IsOpen, StoreTypes, OpenOK, CurType
<1>4. QED
  BY <1>1, <1>2, <1>3 DEF Stands

\* The ids that a step gives out.
NewIdsIn(N) == \A i, s, k, p : Stands(i, s, k, p)' => Stands(i, s, k, p) \/ <<i, s, k, p>> \in N
NoNewIds == \A i, s, k, p : Stands(i, s, k, p)' => Stands(i, s, k, p)

\* New ids are fresh and different.
LEMMA IdsStep ==
  ASSUME StoreTypes, IdsOK, nextId' \in Nat, nextId <= nextId', NEW N,
         \A i, s, k, p : Stands(i, s, k, p)' => Stands(i, s, k, p) \/ <<i, s, k, p>> \in N,
         \A i, s, k, p : <<i, s, k, p>> \in N => i \in Nat /\ nextId <= i /\ i < nextId',
         \A i, s, k, p, t, l, o : <<i, s, k, p>> \in N /\ <<i, t, l, o>> \in N => s = t /\ k = l /\ p = o,
         RowsUnique', MetasOwn'
  PROVE  IdsOK'
<1>1. nextId \in Nat \ {0} /\ IdsBelow /\ IdsUnique
  BY DEF StoreTypes, IndexOK, IdsOK
<1>2. ASSUME NEW i, NEW s, NEW k, NEW p, Stands(i, s, k, p) PROVE i \in Nat /\ 0 < i /\ i < nextId
  BY <1>1, <1>2, StandsType DEF IdsBelow
<1>3. ASSUME NEW i, NEW s, NEW k, NEW p, Stands(i, s, k, p)' PROVE 0 < i /\ i < nextId'
  <2>1. CASE Stands(i, s, k, p)
    BY <1>1, <1>2, <2>1
  <2>2. CASE <<i, s, k, p>> \in N
    <3>1. i \in Nat /\ nextId <= i /\ i < nextId'
      BY <2>2
    <3>2. QED
      BY <1>1, <3>1
  <2>3. QED
    BY <1>3, <2>1, <2>2
<1>4. ASSUME NEW i, NEW s, NEW k, NEW p, NEW t, NEW l, NEW o, Stands(i, s, k, p)', Stands(i, t, l, o)'
      PROVE  s = t /\ k = l /\ p = o
  <2>1. CASE Stands(i, s, k, p) /\ Stands(i, t, l, o)
    BY <1>1, <2>1 DEF IdsUnique
  <2>2. CASE <<i, s, k, p>> \in N /\ <<i, t, l, o>> \in N
    BY <2>2
  <2>3. ASSUME Stands(i, s, k, p) \/ Stands(i, t, l, o), <<i, s, k, p>> \in N \/ <<i, t, l, o>> \in N PROVE FALSE
    <3>1. i \in Nat /\ i < nextId
      BY <1>2, <2>3
    <3>2. nextId <= i
      BY <2>3
    <3>3. QED
      BY <1>1, <3>1, <3>2
  <2>4. QED
    BY <1>4, <2>1, <2>2, <2>3
<1>5. IdsBelow' /\ IdsUnique'
  BY <1>3, <1>4, Zenon DEF IdsBelow, IdsUnique
<1>6. QED
  BY <1>5 DEF IdsOK

LEMMA IdsKept ==
  ASSUME StoreTypes, IdsOK, nextId' = nextId,
         \A i, s, k, p : Stands(i, s, k, p)' => Stands(i, s, k, p),
         RowsUnique', MetasOwn'
  PROVE  IdsOK'
<1>1. nextId' \in Nat /\ nextId <= nextId'
  BY DEF StoreTypes, IndexOK
<1> DEFINE N == {}
<1>2. \A x : x \notin N
  OBVIOUS
<1> HIDE DEF N
<1>3. QED
  BY <1>1, <1>2, IdsStep

LEMMA ForkKept ==
  ASSUME ForkOK, base' = base, \A s \in Session : CopiedRows(s)' = CopiedRows(s),
         \A s \in Session : file'[s] = <<>> => file[s] = <<>>
  PROVE  ForkOK'
BY DEF ForkOK

LEMMA SameRows ==
  ASSUME segments' = segments
  PROVE  \A s : CopiedRows(s)' = CopiedRows(s)
BY DEF CopiedRows

\* The queue and the event rows have no ids.
LEMMA NoIds ==
  ASSUME StoreTypes, IdsOK, ForkOK, UNCHANGED <<segments, cur, metas, nextId, base>>,
         \A s \in Session : file'[s] = <<>> => file[s] = <<>>
  PROVE  IdsOK' /\ ForkOK' /\ NoNewIds
<1>1. IdsOK'
  BY DEF IdsOK, IdsBelow, IdsUnique, RowsUnique, MetasOwn, Stands, InIndex, InMetas, IsOpen
<1>2. ForkOK'
  BY ForkKept, SameRows
<1>3. NoNewIds
  BY DEF NoNewIds, Stands, InIndex, InMetas, IsOpen
<1>4. QED
  BY <1>1, <1>2, <1>3

LEMMA FailIds ==
  ASSUME StoreTypes, IdsOK, ForkOK, NEW f \in Flusher, FlushFails(f),
         \A s \in Session : file'[s] = <<>> => file[s] = <<>>
  PROVE  IdsOK' /\ ForkOK' /\ NoNewIds
<1>1. metas' = [metas EXCEPT ![f] = <<>>] /\ UNCHANGED <<cur, segments, nextId, base>>
  BY DEF FlushFails, indexVars, ghostVars
<1>2. \A g \in Flusher : \A j \in DOMAIN metas'[g] : g # f /\ metas'[g] = metas[g]
  <2>1. DOMAIN metas = Flusher
    BY DEF StoreTypes, FlushOK
  <2>2. metas'[f] = <<>> /\ \A g \in Flusher : g # f => metas'[g] = metas[g]
    BY <1>1, <2>1
  <2>3. DOMAIN << >> = {}
    OBVIOUS
  <2>4. QED
    BY <2>2, <2>3
<1>3. \A i, s, k, p : Stands(i, s, k, p)' => Stands(i, s, k, p)
  BY <1>1, <1>2 DEF Stands, InIndex, InMetas, IsOpen
<1>4. RowsUnique' /\ MetasOwn'
  BY <1>1, <1>2 DEF IdsOK, RowsUnique, MetasOwn
<1>5. IdsOK'
  BY <1>1, <1>3, <1>4, IdsKept
<1>6. ForkOK'
  BY <1>1, ForkKept, SameRows
<1>7. QED
  BY <1>3, <1>5, <1>6 DEF NoNewIds

\* A session is opened.
LEMMA OpenIds ==
  ASSUME StoreTypes, IdsOK, NEW s \in Session, NEW st \in CurType, cur' = [cur EXCEPT ![s] = st],
         segments' = segments, \A g \in Flusher : metas'[g] = metas[g],
         nextId' \in Nat, nextId <= nextId',
         Stands(st.id, s, st.idx, 0) \/ (nextId <= st.id /\ st.id < nextId')
  PROVE  IdsOK' /\ NewIdsIn({<<st.id, s, st.idx, 0>>})
<1> DEFINE N == IF Stands(st.id, s, st.idx, 0) THEN {} ELSE {<<st.id, s, st.idx, 0>>}
<1>1. \A i, t, k, p : Stands(i, t, k, p)' => Stands(i, t, k, p) \/ <<i, t, k, p>> \in N
  <2> SUFFICES ASSUME NEW i, NEW t, NEW k, NEW p, Stands(i, t, k, p)'
               PROVE  Stands(i, t, k, p) \/ <<i, t, k, p>> \in N
    OBVIOUS
  <2>1. CASE InIndex(i, t, k, p)'
    BY <2>1 DEF InIndex, Stands
  <2>2. CASE InMetas(i, t, k, p)'
    BY <2>2 DEF InMetas, Stands
  <2>3. CASE IsOpen(i, t, k, p)'
    <3>1. /\ cur'[s] = st /\ \A z \in Session : z # s => cur'[z] = cur[z]
      BY DEF StoreTypes, OpenOK
    <3>2. CASE t = s
      BY <2>3, <3>1, <3>2 DEF IsOpen
    <3>3. CASE t # s
      BY <2>3, <3>1, <3>3 DEF IsOpen, Stands
    <3>4. QED
      BY <3>2, <3>3
  <2>4. QED
    BY <2>1, <2>2, <2>3 DEF Stands
<1>2. st.id \in Nat
  BY DEF CurType
<1>3. \A i, t, k, p : <<i, t, k, p>> \in N => i \in Nat /\ nextId <= i /\ i < nextId'
  BY <1>2
<1>4. \A i, z, k, p, t, l, o : <<i, z, k, p>> \in N /\ <<i, t, l, o>> \in N => z = t /\ k = l /\ p = o
  OBVIOUS
<1>5. RowsUnique' /\ MetasOwn'
  BY DEF IdsOK, RowsUnique, MetasOwn
<1>6. \A x \in N : x \in {<<st.id, s, st.idx, 0>>}
  OBVIOUS
<1> HIDE DEF N
<1>7. QED
  BY <1>1, <1>3, <1>4, <1>5, <1>6, IdsStep DEF NewIdsIn

LEMMA OpenGroupIds ==
  ASSUME StoreTypes, IdsOK, ForkOK, NEW f \in Flusher, NEW s \in Session, OpenGroup(f, s)
  PROVE  /\ IdsOK' /\ ForkOK'
         /\ \/ NoNewIds
            \/ /\ cur[s] = NoState
               /\ NewIdsIn({<<SegmentId(s, LastSegment(s)), s, LastSegment(s), 0>>})
<1>1. CASE FlushFails(f) /\ UNCHANGED file
  BY <1>1, FailIds
<1>2. CASE /\ cur[s] # NoState /\ UNCHANGED <<cur, file, nextId, metas, segments, ghostVars>>
  BY <1>2, NoIds DEF ghostVars
<1>3. CASE /\ cur[s] = NoState
           /\ Opened(s, LastSegment(s), StartSeq(s), SegmentId(s, LastSegment(s)))
           /\ nextId' = IF SegmentId(s, LastSegment(s)) = nextId THEN nextId + 1 ELSE nextId
           /\ UNCHANGED <<metas, segments, ghostVars>>
  <2> DEFINE k == LastSegment(s)
             id == SegmentId(s, k)
             first == StartSeq(s)
  <2>1. id \in Nat /\ first \in Nat /\ k \in 1 .. Len(file[s]) + 1
    BY SegmentIdIs, StartSeqType, LastIs DEF StoreTypes
  <2>2. id = nextId \/ Stands(id, s, k, 0)
    <3>1. \/ id = nextId
          \/ \E r \in segments : r.sess = s /\ r.parent = 0 /\ r.idx = k /\ r.id = id
      BY SegmentIdIs DEF StoreTypes
    <3>2. QED
      BY <3>1 DEF Stands, InIndex
  <2>3. Opened(s, k, first, id) /\ nextId' = (IF id = nextId THEN nextId + 1 ELSE nextId)
    BY <1>3
  <2> HIDE DEF k, id, first
  <2>4. PICK q \in Seq(Item(Len(log))) :
           /\ file' = [file EXCEPT ![s] = IF k <= Len(file[s]) THEN [file[s] EXCEPT ![k] = q]
                                          ELSE Append(file[s], <<>>)]
           /\ k \in DOMAIN file'[s]
           /\ cur' = [cur EXCEPT ![s] = State(k, Len(q), first, id)]
           /\ State(k, Len(q), first, id) \in CurType
    BY <2>1, <2>3, OpenedIs DEF StoreTypes
  <2>5. State(k, Len(q), first, id).id = id /\ State(k, Len(q), first, id).idx = k
    BY DEF State
  <2>6. nextId \in Nat /\ nextId' \in Nat /\ nextId <= nextId'
    BY <2>3 DEF StoreTypes, IndexOK
  <2>7. Stands(id, s, k, 0) \/ (nextId <= id /\ id < nextId')
    BY <2>2, <2>3, <2>6
  <2>8. IdsOK' /\ NewIdsIn({<<id, s, k, 0>>})
    BY <1>3, <2>4, <2>5, <2>6, <2>7, OpenIds
  <2>9. \A t \in Session : file'[t] = <<>> => file[t] = <<>>
    <3>1. file'[s] # <<>>
      BY <2>4
    <3>2. \A t \in Session : t # s => file'[t] = file[t]
      BY <2>4 DEF StoreTypes, FilesOK
    <3>3. QED
      BY <3>1, <3>2
  <2>10. ForkOK'
    BY <1>3, <2>9, ForkKept, SameRows DEF ghostVars
  <2>11. QED
    BY <1>3, <2>8, <2>10 DEF id, k
<1>4. QED
  BY <1>1, <1>2, <1>3 DEF OpenGroup

\* A flush remembers the segment it leaves: its id is the one of the open session.
LEMMA MetaIds ==
  ASSUME StoreTypes, NEW f \in Flusher, NEW m, metas' = [metas EXCEPT ![f] = Append(metas[f], m)],
         MetasOwn, m.parent = 0, Stands(m.id, m.sess, m.idx, 0)
  PROVE  /\ \A i, s, k, p : InMetas(i, s, k, p)' => Stands(i, s, k, p)
         /\ MetasOwn'
<1>1. metas[f] \in Seq(SegmentRow) /\ metas'[f] = Append(metas[f], m)
      /\ \A g \in Flusher : g # f => metas'[g] = metas[g]
  BY DEF StoreTypes, FlushOK
<1>2. \A j \in DOMAIN metas'[f] :
        metas'[f][j] = m \/ (j \in DOMAIN metas[f] /\ metas'[f][j] = metas[f][j])
  BY <1>1
<1>3. ASSUME NEW i, NEW s, NEW k, NEW p, InMetas(i, s, k, p)' PROVE Stands(i, s, k, p)
  <2>1. PICK g \in Flusher : \E j \in DOMAIN metas'[g] :
          metas'[g][j].id = i /\ metas'[g][j].sess = s /\ metas'[g][j].idx = k /\ metas'[g][j].parent = p
    BY <1>3 DEF InMetas
  <2>2. PICK j \in DOMAIN metas'[g] :
          metas'[g][j].id = i /\ metas'[g][j].sess = s /\ metas'[g][j].idx = k /\ metas'[g][j].parent = p
    BY <2>1
  <2>3. CASE g = f /\ metas'[g][j] = m
    BY <2>2, <2>3
  <2>4. CASE j \in DOMAIN metas[g] /\ metas'[g][j] = metas[g][j]
    <3>1. InMetas(i, s, k, p)
      BY <2>2, <2>4 DEF InMetas
    <3>2. QED
      BY <3>1 DEF Stands
  <2>5. QED
    BY <1>1, <1>2, <2>2, <2>3, <2>4
<1>4. MetasOwn'
  BY <1>1, <1>2 DEF MetasOwn
<1>5. QED
  BY <1>3, <1>4

LEMMA RollIds ==
  ASSUME StoreTypes, IdsOK, ForkOK, NEW f \in Flusher, Roll(f)
  PROVE  /\ IdsOK' /\ ForkOK'
         /\ \/ NoNewIds
            \/ NewIdsIn({<<nextId, sess[f], cur[sess[f]].idx + 1, 0>>})
<1> DEFINE s == sess[f]
           st == cur[s]
<1>1. CASE FlushFails(f) /\ UNCHANGED file
  BY <1>1, FailIds
<1>2. CASE /\ Opened(s, st.idx + 1, st.next, nextId)
           /\ nextId' = nextId + 1
           /\ metas' = [metas EXCEPT ![f] = Append(@, Meta(s, st))]
           /\ UNCHANGED <<segments, ghostVars>>
  <2>1. /\ s \in Session /\ st # NoState /\ st \in CurType /\ st.idx \in DOMAIN file[s]
    BY OneWriter DEF Roll
  <2> DEFINE k == st.idx + 1
             n == st.next
             m == Meta(s, st)
  <2>2. k \in 1 .. Len(file[s]) + 1 /\ n \in Nat /\ nextId \in Nat /\ st.idx \in Nat
    <3>1. DOMAIN file[s] = 1 .. Len(file[s]) /\ Len(file[s]) \in Nat
      BY <2>1, FileType DEF StoreTypes
    <3>2. st.idx \in Nat /\ st.next \in Nat
      BY <2>1 DEF CurType
    <3>3. QED
      BY <2>1, <3>1, <3>2 DEF StoreTypes, IndexOK
  <2>3. m.id = st.id /\ m.sess = s /\ m.idx = st.idx /\ m.parent = 0
    BY DEF Meta
  <2>4. Stands(m.id, m.sess, m.idx, 0)
    BY <2>1, <2>3 DEF Stands, IsOpen
  <2>5. Opened(s, k, n, nextId) /\ metas' = [metas EXCEPT ![f] = Append(metas[f], m)]
    BY <1>2
  <2> HIDE DEF k, n, m, st, s
  <2>6. PICK q \in Seq(Item(Len(log))) :
           /\ file' = [file EXCEPT ![s] = IF k <= Len(file[s]) THEN [file[s] EXCEPT ![k] = q]
                                          ELSE Append(file[s], <<>>)]
           /\ k \in DOMAIN file'[s]
           /\ cur' = [cur EXCEPT ![s] = State(k, Len(q), n, nextId)]
           /\ State(k, Len(q), n, nextId) \in CurType
    BY <2>1, <2>2, <2>5, OpenedIs DEF StoreTypes
  <2> DEFINE N == {<<nextId, s, k, 0>>}
  <2>7. (\A i, t, l, p : InMetas(i, t, l, p)' => Stands(i, t, l, p)) /\ MetasOwn'
    BY <2>3, <2>4, <2>5, MetaIds DEF IdsOK
  <2>8. \A i, t, l, p : Stands(i, t, l, p)' => Stands(i, t, l, p) \/ <<i, t, l, p>> \in N
    <3> SUFFICES ASSUME NEW i, NEW t, NEW l, NEW p, Stands(i, t, l, p)'
                 PROVE  Stands(i, t, l, p) \/ <<i, t, l, p>> \in N
      OBVIOUS
    <3>1. CASE InIndex(i, t, l, p)'
      BY <1>2, <3>1 DEF InIndex, Stands
    <3>2. CASE InMetas(i, t, l, p)'
      BY <2>7, <3>2
    <3>3. CASE IsOpen(i, t, l, p)'
      <4>1. /\ cur'[s] = State(k, Len(q), n, nextId) /\ \A z \in Session : z # s => cur'[z] = cur[z]
        BY <2>1, <2>6 DEF StoreTypes, OpenOK
      <4>2. CASE t = s
        BY <3>3, <4>1, <4>2 DEF IsOpen, State
      <4>3. CASE t # s
        BY <3>3, <4>1, <4>3 DEF IsOpen, Stands
      <4>4. QED
        BY <4>2, <4>3
    <3>4. QED
      BY <3>1, <3>2, <3>3 DEF Stands
  <2>9. \A i, t, l, p : <<i, t, l, p>> \in N => i \in Nat /\ nextId <= i /\ i < nextId'
    BY <1>2, <2>2
  <2>10. \A i, z, x, p, t, l, o : <<i, z, x, p>> \in N /\ <<i, t, l, o>> \in N => z = t /\ x = l /\ p = o
    OBVIOUS
  <2>11. nextId' \in Nat /\ nextId <= nextId' /\ RowsUnique'
    BY <1>2, <2>2 DEF IdsOK, RowsUnique
  <2> HIDE DEF N
  <2>12. IdsOK'
    BY <2>7, <2>8, <2>9, <2>10, <2>11, IdsStep
  <2>13. \A t \in Session : file'[t] = <<>> => file[t] = <<>>
    <3>1. file'[s] # <<>>
      BY <2>6
    <3>2. \A t \in Session : t # s => file'[t] = file[t]
      BY <2>6 DEF StoreTypes, FilesOK
    <3>3. QED
      BY <3>1, <3>2
  <2>14. ForkOK'
    BY <1>2, <2>13, ForkKept, SameRows DEF ghostVars
  <2>15. QED
    BY <2>8, <2>12, <2>14 DEF NewIdsIn, N, k, st, s
<1>3. QED
  BY <1>1, <1>2 DEF Roll

LEMMA SyncIds ==
  ASSUME StoreTypes, IdsOK, ForkOK, NEW f \in Flusher, Sync(f)
  PROVE  IdsOK' /\ ForkOK' /\ NoNewIds
<1> DEFINE s == sess[f]
           st == Advanced(cur[s], Take(f))
           m == Meta(s, st)
<1>1. /\ fpc[f] = "sync" /\ cur[s].row < MaxRows
      /\ cur' = [cur EXCEPT ![s] = st]
      /\ metas' = metas \/ metas' = [metas EXCEPT ![f] = Append(metas[f], m)]
      /\ UNCHANGED <<file, segments, nextId, base>>
  BY SyncIs DEF indexVars, ghostVars
<1>2. /\ s \in Session /\ cur[s] # NoState
      /\ cur[s] \in CurType /\ cur[s].next = cur[s].first + cur[s].row
  BY <1>1, OneWriter
<1>3. Take(f) \in Nat \ {0} /\ cur[s].row + Take(f) <= MaxRows
  BY <1>1, TakeIs
<1>4. st # NoState /\ st.idx = cur[s].idx /\ st.id = cur[s].id
  BY <1>2, <1>3, AdvancedIs
<1>5. m.id = cur[s].id /\ m.sess = s /\ m.idx = cur[s].idx /\ m.parent = 0
  BY <1>4 DEF Meta
<1>6. Stands(m.id, m.sess, m.idx, 0)
  BY <1>2, <1>5 DEF Stands, IsOpen
<1> HIDE DEF st, s, m
<1>7. (\A i, t, l, p : InMetas(i, t, l, p)' => Stands(i, t, l, p)) /\ MetasOwn'
  <2>1. CASE metas' = metas
    BY <2>1 DEF InMetas, Stands, IdsOK, MetasOwn
  <2>2. CASE metas' = [metas EXCEPT ![f] = Append(metas[f], m)]
    BY <1>5, <1>6, <2>2, MetaIds DEF IdsOK
  <2>3. QED
    BY <1>1, <2>1, <2>2
<1>8. \A i, t, k, p : Stands(i, t, k, p)' => Stands(i, t, k, p)
  <2> SUFFICES ASSUME NEW i, NEW t, NEW k, NEW p, Stands(i, t, k, p)' PROVE Stands(i, t, k, p)
    OBVIOUS
  <2>1. CASE InIndex(i, t, k, p)'
    BY <1>1, <2>1 DEF InIndex, Stands
  <2>2. CASE InMetas(i, t, k, p)'
    BY <1>7, <2>2
  <2>3. CASE IsOpen(i, t, k, p)'
    <3>1. cur'[s] = st /\ \A z \in Session : z # s => cur'[z] = cur[z]
      BY <1>1, <1>2 DEF StoreTypes, OpenOK
    <3>2. CASE t = s
      BY <1>2, <1>4, <2>3, <3>1, <3>2 DEF IsOpen, Stands
    <3>3. CASE t # s
      BY <2>3, <3>1, <3>3 DEF IsOpen, Stands
    <3>4. QED
      BY <3>2, <3>3
  <2>4. QED
    BY <2>1, <2>2, <2>3 DEF Stands
<1>9. RowsUnique'
  BY <1>1 DEF IdsOK, RowsUnique
<1>10. IdsOK'
  BY <1>1, <1>7, <1>8, <1>9, IdsKept
<1>11. ForkOK'
  BY <1>1, ForkKept, SameRows
<1>12. QED
  BY <1>8, <1>10, <1>11 DEF NoNewIds

LEMMA InsertSegmentIds ==
  ASSUME StoreTypes, IdsOK, ForkOK, NEW f \in Flusher, InsertSegment(f)
  PROVE  IdsOK' /\ ForkOK' /\ NoNewIds
<1>1. PICK m \in SegmentRow :
           /\ m = metas[f][1] /\ 1 \in DOMAIN metas[f]
           /\ segments' = {r \in segments : r.id # m.id} \cup
                (IF \E r \in segments : r.id = m.id
                 THEN {[r EXCEPT !.end = m.end] : r \in {r \in segments : r.id = m.id}} ELSE {m})
           /\ metas' = [metas EXCEPT ![f] = Tail(metas[f])]
           /\ \A i \in DOMAIN Tail(metas[f]) :
                i + 1 \in DOMAIN metas[f] /\ Tail(metas[f])[i] = metas[f][i + 1]
           /\ UNCHANGED <<cur, file, nextId, base>>
  BY InsertSegmentIs DEF memVars, diskVars, ghostVars
<1>2. m.parent = 0 /\ Stands(m.id, m.sess, m.idx, 0)
  <2>1. m.parent = 0
    BY <1>1 DEF IdsOK, MetasOwn
  <2>2. InMetas(m.id, m.sess, m.idx, 0)
    BY <1>1, <2>1 DEF InMetas
  <2>3. QED
    BY <2>1, <2>2 DEF Stands
\* The row of this id is the session's own.
<1>3. ASSUME NEW r \in segments, r.id = m.id PROVE r.sess = m.sess /\ r.idx = m.idx /\ r.parent = 0
  <2>1. Stands(m.id, r.sess, r.idx, r.parent)
    BY <1>3 DEF Stands, InIndex
  <2>2. QED
    BY <1>2, <2>1, Zenon DEF IdsOK, IdsUnique
<1>4. ASSUME NEW r \in segments'
      PROVE  \/ r \in segments /\ r.id # m.id
             \/ r.id = m.id /\ r.sess = m.sess /\ r.idx = m.idx /\ r.parent = 0
  <2>1. CASE \E q \in segments : q.id = m.id
    <3>1. CASE r \in segments /\ r.id # m.id
      BY <3>1
    <3>2. CASE \E q \in segments : q.id = m.id /\ r = [q EXCEPT !.end = m.end]
      <4>1. PICK q \in segments : q.id = m.id /\ r = [q EXCEPT !.end = m.end]
        BY <3>2
      <4>2. q \in SegmentRow
        BY DEF StoreTypes, IndexOK
      <4>3. r.id = q.id /\ r.sess = q.sess /\ r.idx = q.idx /\ r.parent = q.parent
        BY <4>1, <4>2 DEF SegmentRow
      <4>4. QED
        BY <1>3, <4>1, <4>3
    <3>3. QED
      BY <1>1, <2>1, <3>1, <3>2
  <2>2. CASE ~\E q \in segments : q.id = m.id
    BY <1>1, <1>2, <2>2
  <2>3. QED
    BY <2>1, <2>2
<1>5. RowsUnique'
  <2> SUFFICES ASSUME NEW r \in segments', NEW q \in segments', r.id = q.id PROVE r = q
    BY DEF RowsUnique
  <2>1. CASE r.id # m.id
    BY <1>4, <2>1 DEF IdsOK, RowsUnique
  <2>2. CASE r.id = m.id
    <3>1. CASE \E x \in segments : x.id = m.id
      <4>1. PICK x \in segments : x.id = m.id
        BY <3>1
      <4>2. \A y \in segments : y.id = m.id => y = x
        BY <4>1 DEF IdsOK, RowsUnique
      <4>3. ASSUME NEW z \in segments', z.id = m.id PROVE z = [x EXCEPT !.end = m.end]
        BY <1>1, <3>1, <4>2, <4>3
      <4>4. QED
        BY <2>2, <4>3
    <3>2. CASE ~\E x \in segments : x.id = m.id
      BY <1>1, <2>2, <3>2
    <3>3. QED
      BY <3>1, <3>2
  <2>3. QED
    BY <2>1, <2>2
<1>6. /\ metas'[f] = Tail(metas[f]) /\ \A g \in Flusher : g # f => metas'[g] = metas[g]
  BY <1>1 DEF StoreTypes, FlushOK
<1>7. \A g \in Flusher : \A j \in DOMAIN metas'[g] : \E l \in DOMAIN metas[g] : metas'[g][j] = metas[g][l]
  BY <1>1, <1>6
<1>8. MetasOwn'
  BY <1>7 DEF IdsOK, MetasOwn
<1>9. \A i, s, k, p : Stands(i, s, k, p)' => Stands(i, s, k, p)
  <2> SUFFICES ASSUME NEW i, NEW s, NEW k, NEW p, Stands(i, s, k, p)' PROVE Stands(i, s, k, p)
    OBVIOUS
  <2>1. CASE InIndex(i, s, k, p)'
    <3>1. PICK r \in segments' : r.id = i /\ r.sess = s /\ r.idx = k /\ r.parent = p
      BY <2>1 DEF InIndex
    <3>2. CASE r \in segments
      BY <3>1, <3>2 DEF Stands, InIndex
    <3>3. CASE r.id = m.id /\ r.sess = m.sess /\ r.idx = m.idx /\ r.parent = 0
      BY <1>2, <3>1, <3>3
    <3>4. QED
      BY <1>4, <3>2, <3>3
  <2>2. CASE InMetas(i, s, k, p)'
    <3>1. InMetas(i, s, k, p)
      BY <1>7, <2>2 DEF InMetas
    <3>2. QED
      BY <3>1 DEF Stands
  <2>3. CASE IsOpen(i, s, k, p)'
    BY <1>1, <2>3 DEF IsOpen, Stands
  <2>4. QED
    BY <2>1, <2>2, <2>3 DEF Stands
<1>10. IdsOK'
  BY <1>1, <1>5, <1>8, <1>9, IdsKept
<1>11. \A s \in Session : CopiedRows(s)' = CopiedRows(s)
  <2> SUFFICES ASSUME NEW s \in Session, NEW r PROVE r \in CopiedRows(s)' <=> r \in CopiedRows(s)
    OBVIOUS
  <2>1. ASSUME r \in segments', r.parent # 0 PROVE r \in segments
    BY <1>4, <2>1
  <2>2. ASSUME r \in segments, r.parent # 0 PROVE r \in segments'
    BY <1>1, <1>3, <2>2
  <2>3. QED
    BY <2>1, <2>2 DEF CopiedRows
<1>12. ForkOK'
  BY <1>1, <1>11, ForkKept
<1>13. QED
  BY <1>9, <1>10, <1>12 DEF NoNewIds

\* The copies of a fork have different ids.
LEMMA CopyIdIs ==
  ASSUME StoreTypes, IdsOK, NEW p, NEW n \in Nat
  PROVE  /\ \A r \in Old(p, n) : /\ CopyId(p, n, r) \in Nat /\ nextId <= CopyId(p, n, r)
                                 /\ CopyId(p, n, r) < nextId + Cardinality(Old(p, n))
         /\ \A r, q \in Old(p, n) : CopyId(p, n, r) = CopyId(p, n, q) => r = q
<1> DEFINE O == Old(p, n)
           Lower(r) == {q \in O : q.id < r.id}
<1>1. nextId \in Nat /\ IsFiniteSet(O) /\ O \subseteq segments /\ Cardinality(O) \in Nat
  BY OldIs DEF StoreTypes, IndexOK
<1>2. \A r \in O : /\ CopyId(p, n, r) = nextId + Cardinality(Lower(r)) /\ Cardinality(Lower(r)) \in Nat
                   /\ Cardinality(Lower(r)) < Cardinality(O) /\ r.id \in Nat
  <2>1. \A r \in O : r \in SegmentRow /\ Cardinality(Lower(r)) \in Nat /\ Cardinality(Lower(r)) < Cardinality(O)
    BY OldIs
  <2>2. QED
    BY <2>1 DEF CopyId, SegmentRow
<1> HIDE DEF O
<1>3. ASSUME NEW r \in O, NEW q \in O, r.id < q.id PROVE Cardinality(Lower(r)) < Cardinality(Lower(q))
  <2>1. Lower(r) \in SUBSET Lower(q) /\ r \in Lower(q) /\ r \notin Lower(r) /\ Lower(q) \in SUBSET O
    <3>1. \A z \in O : z.id \in Nat
      BY <1>2
    <3>2. \A z \in O : z.id < r.id => z.id < q.id
      BY <1>3, <3>1
    <3>3. ~(r.id < r.id)
      BY <3>1
    <3>4. QED
      BY <1>3, <3>2, <3>3, Zenon
  <2> DEFINE A == Lower(r)
             B == Lower(q)
  <2>2. A \in SUBSET B /\ A # B /\ B \in SUBSET O
    BY <2>1
  <2>3. Cardinality(A) \in Nat /\ Cardinality(B) \in Nat
    BY <1>2
  <2> HIDE DEF A, B
  <2>4. IsFiniteSet(B)
    BY <1>1, <2>2, FS_Subset
  <2>5. Cardinality(A) <= Cardinality(B) /\ Cardinality(A) # Cardinality(B)
    BY <2>2, <2>4, FS_Subset
  <2>6. Cardinality(A) < Cardinality(B)
    BY <2>3, <2>5
  <2>7. QED
    BY <2>6 DEF A, B
<1> HIDE DEF Lower
<1>4. ASSUME NEW r \in O, NEW q \in O, CopyId(p, n, r) = CopyId(p, n, q) PROVE r = q
  <2>1. Cardinality(Lower(r)) = Cardinality(Lower(q))
    BY <1>1, <1>2, <1>4
  <2>2. ~(r.id < q.id) /\ ~(q.id < r.id)
    BY <1>2, <1>3, <2>1
  <2>3. r.id = q.id
    BY <1>2, <2>2
  <2>4. QED
    BY <1>1, <2>3 DEF IdsOK, RowsUnique
<1>5. ASSUME NEW r \in O
      PROVE  CopyId(p, n, r) \in Nat /\ nextId <= CopyId(p, n, r) /\ CopyId(p, n, r) < nextId + Cardinality(O)
  BY <1>1, <1>2
<1>6. QED
  BY <1>4, <1>5 DEF O

LEMMA ForkIds ==
  ASSUME StoreTypes, IdsOK, ForkOK, NEW p \in Session, NEW n \in Nat, NEW c \in Session, Fork(p, n, c)
  PROVE  /\ IdsOK' /\ ForkOK'
         /\ \A i, t, k, o : Stands(i, t, k, o)' =>
              Stands(i, t, k, o) \/ (t = c /\ (o # 0 \/ i = nextId + Cardinality(Old(p, n))))
<1> DEFINE O == Old(p, n)
           last == nextId + Cardinality(O)
           st == State(1, 0, n, last)
<1>1. /\ file[c] = <<>> /\ cur[c] = NoState /\ segments' = segments \cup Copy(p, n, c)
      /\ nextId' = last + 1
      /\ n > 0 => \E r \in O : Min({r.end, n - 1}) = n - 1
      /\ file' = [file EXCEPT ![c] = << << >> >>]
      /\ cur' = [cur EXCEPT ![c] = st]
      /\ base' = [base EXCEPT ![c] = [from |-> n, seen |-> {x \in Replay(p) : x.seq < n}]]
      /\ metas' = metas
  <2>1. /\ file[c] = <<>> /\ cur[c] = NoState /\ segments' = segments \cup Copy(p, n, c)
        /\ nextId' = nextId + Cardinality(Old(p, n)) + 1
        /\ file' = [file EXCEPT ![c] = << << >> >>]
        /\ cur' = [cur EXCEPT ![c] = State(1, 0, n, nextId + Cardinality(Old(p, n)))]
    BY ForkIs
  <2>2. /\ n > 0 => \E r \in Old(p, n) : Min({r.end, n - 1}) = n - 1
        /\ base' = [base EXCEPT ![c] = [from |-> n, seen |-> {x \in Replay(p) : x.seq < n}]]
        /\ UNCHANGED flushVars
    <3>1. n > 0 => \E r \in Old(p, n) : Min({r.end, n - 1}) = n - 1
      BY ForkIs, Zenon
    <3>2. base' = [base EXCEPT ![c] = [from |-> n, seen |-> {x \in Replay(p) : x.seq < n}]]
      BY DEF Fork
    <3>3. UNCHANGED flushVars
      BY ForkIs
    <3>4. QED
      BY <3>1, <3>2, <3>3
  <2>3. metas' = metas
    BY <2>2 DEF flushVars
  <2>4. QED
    BY <2>1, <2>2, <2>3, Zenon
<1>2. nextId \in Nat \ {0} /\ last \in Nat /\ nextId <= last /\ O \subseteq segments
  BY OldIs DEF StoreTypes, IndexOK
<1>3. \A r \in O : /\ CopyId(p, n, r) \in Nat /\ nextId <= CopyId(p, n, r) /\ CopyId(p, n, r) < last
                   /\ r \in SegmentRow /\ r.id > 0
  <2>1. \A r \in O : /\ CopyId(p, n, r) \in Nat /\ nextId <= CopyId(p, n, r) /\ CopyId(p, n, r) < last
    BY CopyIdIs
  <2>2. \A r \in O : r \in SegmentRow
    BY OldIs
  <2>3. \A r \in segments : r.id > 0
    <3> SUFFICES ASSUME NEW r \in segments PROVE r.id > 0
      OBVIOUS
    <3>1. Stands(r.id, r.sess, r.idx, r.parent)
      BY DEF Stands, InIndex
    <3>2. 0 < r.id
      BY <3>1 DEF IdsOK, IdsBelow
    <3>3. r.id \in Nat
      BY DEF StoreTypes, IndexOK, SegmentRow
    <3>4. QED
      BY <3>2, <3>3
  <2>4. QED
    BY <1>2, <2>1, <2>2, <2>3
<1>4. \A r, q \in O : CopyId(p, n, r) = CopyId(p, n, q) => r = q
  BY CopyIdIs
<1>5. \A x \in Copy(p, n, c) : \E r \in O :
        /\ x.id = CopyId(p, n, r) /\ x.sess = c /\ x.idx = r.idx /\ x.parent = r.id
        /\ x.end = Min({r.end, n - 1}) /\ x = CopyOf(p, n, c, r)
  BY DEF Copy, CopyOf
<1>6. \A r \in O : CopyOf(p, n, c, r) \in Copy(p, n, c)
  BY DEF Copy
<1>7. st.id = last /\ st.idx = 1
  BY DEF State
<1> DEFINE N == {<<CopyId(p, n, r), c, r.idx, r.id>> : r \in O} \cup {<<last, c, 1, 0>>}
<1> HIDE DEF O, last, st
<1>8. \A i, t, k, o : Stands(i, t, k, o)' => Stands(i, t, k, o) \/ <<i, t, k, o>> \in N
  <2> SUFFICES ASSUME NEW i, NEW t, NEW k, NEW o, Stands(i, t, k, o)'
               PROVE  Stands(i, t, k, o) \/ <<i, t, k, o>> \in N
    OBVIOUS
  <2>1. CASE InIndex(i, t, k, o)'
    <3>1. PICK x \in segments' : x.id = i /\ x.sess = t /\ x.idx = k /\ x.parent = o
      BY <2>1 DEF InIndex
    <3>2. CASE x \in segments
      BY <3>1, <3>2 DEF Stands, InIndex
    <3>3. CASE x \in Copy(p, n, c)
      <4>1. PICK r \in O : x.id = CopyId(p, n, r) /\ x.sess = c /\ x.idx = r.idx /\ x.parent = r.id
        BY <1>5, <3>3
      <4>2. <<CopyId(p, n, r), c, r.idx, r.id>> \in N
        OBVIOUS
      <4> HIDE DEF N
      <4>3. QED
        BY <3>1, <4>1, <4>2
    <3>4. QED
      BY <1>1, <3>1, <3>2, <3>3
  <2>2. CASE InMetas(i, t, k, o)'
    BY <1>1, <2>2 DEF InMetas, Stands
  <2>3. CASE IsOpen(i, t, k, o)'
    <3>1. cur'[c] = st /\ \A z \in Session : z # c => cur'[z] = cur[z]
      BY <1>1 DEF StoreTypes, OpenOK
    <3>2. CASE t = c
      <4>1. i = last /\ k = 1 /\ o = 0
        BY <1>7, <2>3, <3>1, <3>2 DEF IsOpen
      <4>2. QED
        BY <3>2, <4>1
    <3>3. CASE t # c
      BY <2>3, <3>1, <3>3 DEF IsOpen, Stands
    <3>4. QED
      BY <3>2, <3>3
  <2>4. QED
    BY <2>1, <2>2, <2>3 DEF Stands
<1>9. \A i, t, k, o : <<i, t, k, o>> \in N =>
        \/ i = last /\ t = c /\ k = 1 /\ o = 0
        \/ \E r \in O : i = CopyId(p, n, r) /\ t = c /\ k = r.idx /\ o = r.id
  OBVIOUS
<1> HIDE DEF N
<1>10. \A i, t, k, o : <<i, t, k, o>> \in N => i \in Nat /\ nextId <= i /\ i < nextId'
  BY <1>1, <1>2, <1>3, <1>9
<1>11. \A i, s, k, q, t, l, o : <<i, s, k, q>> \in N /\ <<i, t, l, o>> \in N => s = t /\ k = l /\ q = o
  <2> SUFFICES ASSUME NEW i, NEW s, NEW k, NEW q, NEW t, NEW l, NEW o, <<i, s, k, q>> \in N, <<i, t, l, o>> \in N
               PROVE  s = t /\ k = l /\ q = o
    OBVIOUS
  <2>1. CASE i = last
    <3>1. \A r \in O : CopyId(p, n, r) # last
      BY <1>2, <1>3
    <3>2. QED
      BY <1>9, <2>1, <3>1
  <2>2. CASE i # last
    BY <1>4, <1>9, <2>2
  <2>3. QED
    BY <2>1, <2>2
<1>12. RowsUnique'
  <2> SUFFICES ASSUME NEW x \in segments', NEW y \in segments', x.id = y.id PROVE x = y
    BY DEF RowsUnique
  <2>1. \A r \in segments : r.id \in Nat /\ r.id < nextId
    <3> SUFFICES ASSUME NEW r \in segments PROVE r.id \in Nat /\ r.id < nextId
      OBVIOUS
    <3>1. Stands(r.id, r.sess, r.idx, r.parent)
      BY DEF Stands, InIndex
    <3>2. QED
      BY <3>1 DEF IdsOK, IdsBelow, StoreTypes, IndexOK, SegmentRow
  <2>2. \A r \in Copy(p, n, c) : r.id \in Nat /\ nextId <= r.id
    BY <1>3, <1>5
  <2>3. CASE x \in segments /\ y \in segments
    BY <2>3 DEF IdsOK, RowsUnique
  <2>4. CASE x \in Copy(p, n, c) /\ y \in Copy(p, n, c)
    <3>1. PICK r \in O : x.id = CopyId(p, n, r) /\ x = CopyOf(p, n, c, r)
      BY <1>5, <2>4, Zenon
    <3>2. PICK q \in O : y.id = CopyId(p, n, q) /\ y = CopyOf(p, n, c, q)
      BY <1>5, <2>4, Zenon
    <3>3. r = q
      BY <1>4, <3>1, <3>2, Zenon
    <3>4. QED
      BY <3>1, <3>2, <3>3, Zenon
  <2>5. QED
    BY <1>1, <1>2, <2>1, <2>2, <2>3, <2>4
<1>13. IdsOK'
  <2>1. nextId' \in Nat /\ nextId <= nextId' /\ MetasOwn'
    BY <1>1, <1>2 DEF IdsOK, MetasOwn
  <2>2. QED
    BY <1>8, <1>10, <1>11, <1>12, <2>1, IdsStep
<1>14. base'[c].from = n /\ file'[c] # <<>> /\ \A t \in Session : t # c => base'[t] = base[t] /\ file'[t] = file[t]
  <2>1. << << >> >> # << >>
    OBVIOUS
  <2>2. QED
    BY <1>1, <2>1 DEF StoreTypes, GhostOK, FilesOK
<1>15. \A t \in Session : t # c => CopiedRows(t)' = CopiedRows(t)
  BY <1>1, <1>5 DEF CopiedRows
<1>16. CopiedRows(c)' = Copy(p, n, c)
  <2>1. CopiedRows(c) = {}
    BY <1>1 DEF ForkOK
  <2>2. \A x \in Copy(p, n, c) : x.sess = c /\ x.parent # 0
    <3> SUFFICES ASSUME NEW x \in Copy(p, n, c) PROVE x.sess = c /\ x.parent # 0
      OBVIOUS
    <3>1. PICK r \in O : x.sess = c /\ x.parent = r.id
      BY <1>5
    <3>2. r.id \in Nat /\ r.id > 0
      BY <1>3 DEF SegmentRow
    <3>3. QED
      BY <3>1, <3>2
  <2>3. QED
    BY <1>1, <2>1, <2>2 DEF CopiedRows
<1>17. n = 0 => Copy(p, n, c) = {}
  <2> SUFFICES ASSUME n = 0, NEW r \in O PROVE FALSE
    BY <1>5
  <2>1. r.start \in Nat /\ r.start < n
    BY <1>3 DEF O, Old, SegmentRow
  <2>2. QED
    BY <2>1
<1>18. \A x \in Copy(p, n, c) : x.end < n
  <2>1. \A r \in O : Min({r.end, n - 1}) < n
    BY OldIs DEF O
  <2>2. QED
    BY <1>5, <2>1
<1>19. n > 0 => \E x \in Copy(p, n, c) : x.end + 1 = n
  <2> SUFFICES ASSUME n > 0 PROVE \E x \in Copy(p, n, c) : x.end + 1 = n
    OBVIOUS
  <2>1. PICK r \in O : Min({r.end, n - 1}) = n - 1
    BY <1>1
  <2>2. CopyOf(p, n, c, r).end = n - 1
    BY <2>1 DEF CopyOf
  <2>3. CopyOf(p, n, c, r).end + 1 = n
    BY <2>2
  <2>4. QED
    BY <1>6, <2>3
<1>20. ForkOK'
  <2> SUFFICES ASSUME NEW t \in Session
               PROVE  /\ file'[t] = <<>> => base'[t].from = 0
                      /\ base'[t].from = 0 => CopiedRows(t)' = {}
                      /\ base'[t].from > 0 => \E r \in CopiedRows(t)' : r.end + 1 = base'[t].from
                      /\ \A r \in CopiedRows(t)' : r.end < base'[t].from
    BY DEF ForkOK
  <2>1. CASE t = c
    BY <1>14, <1>16, <1>17, <1>18, <1>19, <2>1
  <2>2. CASE t # c
    BY <1>14, <1>15, <2>2 DEF ForkOK
  <2>3. QED
    BY <2>1, <2>2
<1>21. ASSUME NEW i, NEW t, NEW k, NEW o, Stands(i, t, k, o)', ~Stands(i, t, k, o)
       PROVE  t = c /\ (o # 0 \/ i = last)
  <2>1. <<i, t, k, o>> \in N
    BY <1>8, <1>21, Zenon
  <2>2. \/ i = last /\ t = c
        \/ \E r \in O : t = c /\ o = r.id
    BY <1>9, <2>1
  <2>3. ASSUME NEW r \in O, t = c, o = r.id PROVE o # 0
    BY <1>3, <2>3
  <2>4. QED
    BY <2>2, <2>3
<1>22. QED
  BY <1>13, <1>20, <1>21 DEF last, O

LEMMA RebuildIds ==
  ASSUME StoreTypes, IdsOK, ForkOK, NEW s \in Session, Rebuild(s)
  PROVE  /\ IdsOK' /\ ForkOK'
         /\ NewIdsIn({<<nextId + k, s, k, 0>> : k \in {l \in Filled(s) : ~HasRow(s, l)}})
<1>1. /\ segments' = {r \in segments : \A k \in Filled(s) : r.id # NewId(s, k)}
                          \cup {NewRow(s, k) : k \in Filled(s)}
      /\ nextId' = IF \A k \in Filled(s) : NewId(s, k) < nextId THEN nextId
                   ELSE nextId + Len(file[s]) + 1
      /\ UNCHANGED <<cur, metas, file, base>>
  BY RebuildIs DEF memVars, flushVars, diskVars, ghostVars
<1>2. nextId \in Nat \ {0} /\ Len(file[s]) \in Nat
  BY FileType DEF StoreTypes, IndexOK
<1>3. \A r \in segments : r.id \in Nat /\ r.id < nextId /\ Stands(r.id, r.sess, r.idx, r.parent)
  <2> SUFFICES ASSUME NEW r \in segments
               PROVE  r.id \in Nat /\ r.id < nextId /\ Stands(r.id, r.sess, r.idx, r.parent)
    OBVIOUS
  <2>1. Stands(r.id, r.sess, r.idx, r.parent)
    BY DEF Stands, InIndex
  <2>2. QED
    BY <2>1 DEF IdsOK, IdsBelow, StoreTypes, IndexOK, SegmentRow
\* Segment k keeps its own row's id, or gets a fresh one.
<1>4. ASSUME NEW k \in Filled(s)
      PROVE  /\ k \in Nat \ {0} /\ k <= Len(file[s])
             /\ \/ /\ HasRow(s, k) /\ RowFor(s, k) \in segments /\ RowFor(s, k).id = NewId(s, k)
                   /\ RowFor(s, k).sess = s /\ RowFor(s, k).idx = k /\ RowFor(s, k).parent = 0
                \/ ~HasRow(s, k) /\ NewId(s, k) = nextId + k
  <2>1. k \in Nat \ {0} /\ k <= Len(file[s])
    BY FilledRecords
  <2>2. QED
    BY <2>1, RowForIs DEF NewId, StoreTypes
<1>5. \A k \in Filled(s) : NewRow(s, k).id = NewId(s, k) /\ NewRow(s, k).sess = s
                           /\ NewRow(s, k).idx = k /\ NewRow(s, k).parent = 0
  BY DEF NewRow
<1>6. \A k \in Filled(s) : ~HasRow(s, k) => nextId' = nextId + Len(file[s]) + 1
  BY <1>1, <1>2, <1>4
<1> DEFINE N == {<<nextId + k, s, k, 0>> : k \in {l \in Filled(s) : ~HasRow(s, l)}}
<1>7. \A i, t, k, p : Stands(i, t, k, p)' => Stands(i, t, k, p) \/ <<i, t, k, p>> \in N
  <2> SUFFICES ASSUME NEW i, NEW t, NEW k, NEW p, Stands(i, t, k, p)'
               PROVE  Stands(i, t, k, p) \/ <<i, t, k, p>> \in N
    OBVIOUS
  <2>1. CASE InIndex(i, t, k, p)'
    <3>1. PICK x \in segments' : x.id = i /\ x.sess = t /\ x.idx = k /\ x.parent = p
      BY <2>1 DEF InIndex
    <3>2. CASE x \in segments
      BY <3>1, <3>2 DEF Stands, InIndex
    <3>3. CASE \E l \in Filled(s) : x = NewRow(s, l)
      <4>1. PICK l \in Filled(s) : x = NewRow(s, l)
        BY <3>3
      <4>2. i = NewId(s, l) /\ t = s /\ k = l /\ p = 0
        BY <1>5, <3>1, <4>1
      <4>3. CASE HasRow(s, l)
        <5>1. Stands(NewId(s, l), s, l, 0)
          BY <1>3, <1>4, <4>3
        <5>2. QED
          BY <4>2, <5>1
      <4>4. CASE ~HasRow(s, l)
        BY <1>4, <4>2, <4>4
      <4>5. QED
        BY <4>3, <4>4
    <3>4. QED
      BY <1>1, <3>1, <3>2, <3>3
  <2>2. CASE InMetas(i, t, k, p)'
    BY <1>1, <2>2 DEF InMetas, Stands
  <2>3. CASE IsOpen(i, t, k, p)'
    BY <1>1, <2>3 DEF IsOpen, Stands
  <2>4. QED
    BY <2>1, <2>2, <2>3 DEF Stands
<1>8. \A i, t, k, p : <<i, t, k, p>> \in N => k \in Filled(s) /\ ~HasRow(s, k) /\ i = nextId + k /\ t = s /\ p = 0
  OBVIOUS
<1> HIDE DEF N
<1>9. \A i, t, k, p : <<i, t, k, p>> \in N => i \in Nat /\ nextId <= i /\ i < nextId'
  <2> SUFFICES ASSUME NEW i, NEW t, NEW k, NEW p, <<i, t, k, p>> \in N
               PROVE  i \in Nat /\ nextId <= i /\ i < nextId'
    OBVIOUS
  <2>1. k \in Filled(s) /\ ~HasRow(s, k) /\ i = nextId + k
    BY <1>8
  <2>2. k \in Nat /\ k <= Len(file[s]) /\ nextId' = nextId + Len(file[s]) + 1
    BY <1>4, <1>6, <2>1
  <2>3. QED
    BY <1>2, <2>1, <2>2
<1>10. \A i, z, k, q, t, l, o : <<i, z, k, q>> \in N /\ <<i, t, l, o>> \in N => z = t /\ k = l /\ q = o
  <2> SUFFICES ASSUME NEW i, NEW z, NEW k, NEW q, NEW t, NEW l, NEW o, <<i, z, k, q>> \in N, <<i, t, l, o>> \in N
               PROVE  z = t /\ k = l /\ q = o
    OBVIOUS
  <2>1. k \in Filled(s) /\ l \in Filled(s) /\ nextId + k = nextId + l /\ z = t /\ q = o
    BY <1>8
  <2>2. k \in Nat /\ l \in Nat
    BY <1>4, <2>1
  <2>3. QED
    BY <1>2, <2>1, <2>2
<1>11. RowsUnique'
  <2> SUFFICES ASSUME NEW x \in segments', NEW y \in segments', x.id = y.id PROVE x = y
    BY DEF RowsUnique
  <2> DEFINE rest == {r \in segments : \A k \in Filled(s) : r.id # NewId(s, k)}
  <2>1. CASE x \in rest /\ y \in rest
    BY <2>1 DEF IdsOK, RowsUnique
  <2>2. ASSUME NEW k \in Filled(s), NEW l \in Filled(s), NewId(s, k) = NewId(s, l) PROVE k = l
    <3>1. CASE HasRow(s, k) /\ HasRow(s, l)
      BY <1>4, <2>2, <3>1 DEF IdsOK, RowsUnique
    <3>2. CASE ~HasRow(s, k) /\ ~HasRow(s, l)
      BY <1>2, <1>4, <2>2, <3>2
    <3>3. ASSUME NEW a \in Filled(s), NEW b \in Filled(s), HasRow(s, a), ~HasRow(s, b) PROVE NewId(s, a) # NewId(s, b)
      <4>1. NewId(s, a) \in Nat /\ NewId(s, a) < nextId
        BY <1>3, <1>4, <3>3
      <4>2. NewId(s, b) = nextId + b /\ b \in Nat
        BY <1>4, <3>3
      <4>3. QED
        BY <1>2, <4>1, <4>2
    <3>4. QED
      BY <2>2, <3>1, <3>2, <3>3
  <2>3. \A z \in segments' : z \in rest \/ \E k \in Filled(s) : z = NewRow(s, k)
    BY <1>1
  <2>4. QED
    BY <1>5, <2>1, <2>2, <2>3
<1>12. IdsOK'
  <2>1. nextId' \in Nat /\ nextId <= nextId' /\ MetasOwn'
    BY <1>1, <1>2 DEF IdsOK, MetasOwn
  <2>2. QED
    BY <1>7, <1>9, <1>10, <1>11, <2>1, IdsStep
<1>13. \A t \in Session : CopiedRows(t)' = CopiedRows(t)
  <2> SUFFICES ASSUME NEW t \in Session, NEW r PROVE r \in CopiedRows(t)' <=> r \in CopiedRows(t)
    OBVIOUS
  <2>1. ASSUME r \in segments', r.parent # 0 PROVE r \in segments
    BY <1>1, <1>5, <2>1
  <2>2. ASSUME r \in segments, r.parent # 0 PROVE r \in segments'
    <3>1. ASSUME NEW k \in Filled(s), r.id = NewId(s, k) PROVE FALSE
      <4>1. CASE HasRow(s, k)
        BY <1>4, <2>2, <3>1, <4>1 DEF IdsOK, RowsUnique
      <4>2. CASE ~HasRow(s, k)
        <5>1. r.id \in Nat /\ r.id < nextId /\ r.id = nextId + k /\ k \in Nat
          BY <1>3, <1>4, <2>2, <3>1, <4>2
        <5>2. QED
          BY <1>2, <5>1
      <4>3. QED
        BY <4>1, <4>2
    <3>2. QED
      BY <1>1, <2>2, <3>1
  <2>3. QED
    BY <2>1, <2>2 DEF CopiedRows
<1>14. ForkOK'
  BY <1>1, <1>13, ForkKept
<1>15. QED
  BY <1>7, <1>12, <1>14 DEF NewIdsIn, N

LEMMA CrashIds ==
  ASSUME StoreTypes, IdsOK, ForkOK, Crash
  PROVE  IdsOK' /\ ForkOK' /\ NoNewIds
<1>1. /\ cur' = [s \in Session |-> NoState] /\ metas' = [f \in Flusher |-> <<>>]
      /\ UNCHANGED <<segments, nextId, base>> /\ \A s \in Session : file'[s] \in Left(s)
  BY DEF Crash, indexVars
<1>2. \A g \in Flusher : DOMAIN metas'[g] = {}
  BY <1>1
<1>3. \A i, s, k, p : Stands(i, s, k, p)' => Stands(i, s, k, p)
  BY <1>1, <1>2 DEF Stands, InIndex, InMetas, IsOpen
<1>4. RowsUnique' /\ MetasOwn'
  BY <1>1, <1>2 DEF IdsOK, RowsUnique, MetasOwn
<1>5. IdsOK'
  BY <1>1, <1>3, <1>4, IdsKept
<1>6. \A s \in Session : file'[s] = <<>> => file[s] = <<>>
  <2> SUFFICES ASSUME NEW s \in Session, file'[s] = <<>> PROVE file[s] = <<>>
    OBVIOUS
  <2>1. Len(file'[s]) = Len(file[s]) /\ file[s] \in Seq(Seq(Item(Len(log))))
    BY <1>1, LeftIs DEF StoreTypes, FilesOK
  <2>2. QED
    BY <2>1
<1>7. ForkOK'
  BY <1>1, <1>6, ForkKept, SameRows
<1>8. QED
  BY <1>3, <1>5, <1>7 DEF NoNewIds

-----------------------------------------------------------------------------
(* The invariant of the types, whatever fails.                             *)

BaseInv == StoreTypes /\ IdsOK /\ ForkOK

LEMMA BaseInit ==
  Init => BaseInv
<1> SUFFICES ASSUME Init PROVE BaseInv
  OBVIOUS
<1>1. StoreTypes
  BY StoreInit
<1>2. IdsOK
  BY DEF Init, IdsOK, IdsBelow, IdsUnique, RowsUnique, MetasOwn, Stands, InIndex, InMetas, IsOpen
<1>3. ForkOK
  BY DEF Init, ForkOK, CopiedRows
<1>4. QED
  BY <1>1, <1>2, <1>3 DEF BaseInv

LEMMA SameFiles ==
  ASSUME file' = file
  PROVE  \A s \in Session : file'[s] = <<>> => file[s] = <<>>
OBVIOUS

LEMMA BaseStep ==
  BaseInv /\ [Next]_vars => BaseInv'
<1> SUFFICES ASSUME BaseInv, [Next]_vars PROVE BaseInv'
  OBVIOUS
<1> USE DEF BaseInv
<1>1. ASSUME NEW f \in Flusher, NEW s \in Session, AppendEvent(f, s) PROVE BaseInv'
  <2>1. UNCHANGED <<segments, cur, metas, nextId, base, file>>
    BY <1>1 DEF AppendEvent, indexVars, diskVars, ghostVars
  <2>2. QED
    BY <1>1, <2>1, AppendTypes, NoIds, SameFiles
<1>2. ASSUME NEW f \in Flusher, TakeBatch(f) PROVE BaseInv'
  <2>1. UNCHANGED <<segments, cur, metas, nextId, base, file>>
    BY <1>2 DEF TakeBatch, indexVars, diskVars, ghostVars
  <2>2. QED
    BY <1>2, <2>1, TakeTypes, NoIds, SameFiles
<1>3. ASSUME NEW f \in Flusher, FlushNothing(f) PROVE BaseInv'
  <2>1. UNCHANGED <<segments, cur, metas, nextId, base, file>>
    BY <1>3 DEF FlushNothing, indexVars, diskVars, ghostVars, memVars
  <2>2. QED
    BY <1>3, <2>1, NothingTypes, NoIds, SameFiles
<1>4. ASSUME NEW f \in Flusher, NEW s \in Session, OpenGroup(f, s) PROVE BaseInv'
  BY <1>4, OpenGroupTypes, OpenGroupIds
<1>5. ASSUME NEW f \in Flusher, Roll(f) PROVE BaseInv'
  BY <1>5, RollTypes, RollIds
<1>6. ASSUME NEW f \in Flusher, Write(f) PROVE BaseInv'
  <2>1. UNCHANGED <<segments, cur, metas, nextId, base>>
    BY <1>6 DEF Write, indexVars, ghostVars, memVars
  <2>2. \A s \in Session : file'[s] = <<>> => file[s] = <<>>
    <3>1. file' = [file EXCEPT ![sess[f]] = file'[sess[f]]] /\ sess[f] \in Session
      <4>1. sess[f] \in Session
        BY <1>6, OneWriter DEF Write
      <4>2. QED
        BY <1>6, <4>1 DEF Write, StoreTypes, FilesOK
    <3>2. DOMAIN file'[sess[f]] = DOMAIN file[sess[f]]
      BY <1>6, <3>1 DEF Write, StoreTypes, FilesOK
    <3>3. QED
      BY <3>1, <3>2 DEF StoreTypes, FilesOK
  <2>3. QED
    BY <1>6, <2>1, <2>2, WriteTypes, NoIds
<1>7. ASSUME NEW f \in Flusher, Sync(f) PROVE BaseInv'
  BY <1>7, SyncTypes, SyncIds
<1>8. ASSUME NEW f \in Flusher, InsertSegment(f) PROVE BaseInv'
  BY <1>8, InsertSegmentTypes, InsertSegmentIds
<1>9. ASSUME NEW f \in Flusher, InsertEvents(f) PROVE BaseInv'
  <2>1. CASE FlushFails(f) /\ UNCHANGED file
    BY <2>1, FailsQuietly, FailIds, SameFiles
  <2>2. CASE UNCHANGED <<memVars, metas, diskVars, segments, nextId, ghostVars>>
    <3>1. UNCHANGED <<segments, cur, metas, nextId, base, file>>
      BY <2>2 DEF diskVars, ghostVars, memVars
    <3>2. QED
      BY <1>9, <3>1, InsertEventsTypes, NoIds, SameFiles
  <2>3. QED
    BY <1>9, <2>1, <2>2 DEF InsertEvents
<1>10. ASSUME NEW f \in Flusher, Confirm(f) PROVE BaseInv'
  <2>1. UNCHANGED <<segments, cur, metas, nextId, base, file>>
    BY <1>10 DEF Confirm, indexVars, diskVars
  <2>2. QED
    BY <1>10, <2>1, ConfirmTypes, NoIds, SameFiles
<1>11. ASSUME NEW f \in Flusher, Refuse(f) \/ SyncFails(f) \/ IndexFails(f) PROVE BaseInv'
  <2>1. FlushFails(f) /\ file' = file
    BY <1>11 DEF Refuse, SyncFails, IndexFails
  <2>2. QED
    BY <2>1, FailsQuietly, FailIds, SameFiles
<1>12. ASSUME NEW f \in Flusher, WriteFails(f) PROVE BaseInv'
  <2>1. FlushFails(f)
    BY <1>12 DEF WriteFails
  <2>2. \A s \in Session : file'[s] = <<>> => file[s] = <<>>
    <3>1. PICK n \in 0 .. Take(f) - 1, tail \in {<<>>, <<Torn>>} :
            file' = [file EXCEPT ![sess[f]][cur[sess[f]].idx] = @ \o Records(f, n) \o tail]
      BY <1>12 DEF WriteFails
    <3>2. \A s \in Session : DOMAIN file'[s] = DOMAIN file[s]
      BY <3>1 DEF StoreTypes, FilesOK
    <3>3. QED
      BY <3>2 DEF StoreTypes, FilesOK
  <2>3. QED
    BY <1>12, <2>1, <2>2, WriteFailsTypes, FailIds
<1>13. ASSUME NEW p \in Session, NEW c \in Session, NEW n \in 0 .. MaxEvents, Fork(p, n, c) PROVE BaseInv'
  <2>1. n \in Nat
    BY SessionStoreAssumption
  <2>2. QED
    BY <1>13, <2>1, ForkTypes, ForkIds
<1>14. ASSUME NEW s \in Session, Rebuild(s) PROVE BaseInv'
  BY <1>14, RebuildTypes, RebuildIds
<1>15. ASSUME Crash PROVE BaseInv'
  BY <1>15, CrashTypes, CrashIds
<1>16. ASSUME UNCHANGED vars PROVE BaseInv'
  <2> USE <1>16 DEF vars, memVars, flushVars, diskVars, indexVars, ghostVars
  <2>1. QueueOK' /\ FlushOK' /\ LockOK' /\ WritingOK' /\ FilesOK'
    BY DEF StoreTypes, QueueOK, FlushOK, LockOK, WritingOK, FilesOK
  <2>2. OpenOK' /\ IndexOK' /\ GhostOK'
    BY DEF StoreTypes, OpenOK, IndexOK, GhostOK
  <2>3. IdsOK' /\ ForkOK'
    BY NoIds, SameFiles
  <2>4. QED
    BY <2>1, <2>2, <2>3 DEF StoreTypes
<1>17. QED
  BY <1>1, <1>2, <1>3, <1>4, <1>5, <1>6, <1>7, <1>8, <1>9, <1>10, <1>11, <1>12, <1>13, <1>14, <1>15, <1>16
  DEF Next, FlushStep

\* The types give those that the runs check.
LEMMA TypesAreTypes ==
  BaseInv => TypeOK
<1> SUFFICES ASSUME BaseInv PROVE TypeOK
  OBVIOUS
<1> USE DEF BaseInv, StoreTypes
<1>1. log \in Seq(Session) /\ Len(log) <= MaxEvents /\ Len(log) \in Nat /\ DOMAIN log = 1 .. Len(log)
  BY DEF QueueOK
<1>2. \A i \in DOMAIN pending : pending[i] \in DOMAIN log
  BY <1>1 DEF QueueOK
<1>3. RowOf(Len(log)) \subseteq EventRow
  BY <1>1, SessionStoreAssumption DEF RowOf, EventRow
<1>4. ASSUME NEW s \in Session
      PROVE  /\ cur[s] \in [idx : Nat, row : Nat, next : Nat, first : Nat, id : Nat]
             /\ cur[s].row <= MaxRows
             /\ dirty[s] > 0 => cur[s].idx \in DOMAIN file[s]
             /\ \A k \in DOMAIN file[s] : file[s][k] \in Seq(Record)
  <2>1. cur[s] \in [idx : Nat, row : Nat, next : Nat, first : Nat, id : Nat] /\ cur[s].row <= MaxRows
    BY RowsPositive DEF OpenOK, CurType
  <2>2. dirty[s] > 0 => cur[s].idx \in DOMAIN file[s]
    BY DEF OpenOK
  <2>3. ASSUME NEW k \in DOMAIN file[s] PROVE file[s][k] \in Seq(Record)
    <3> DEFINE q == file[s][k]
               T == Item(Len(log))
    <3>1. q \in Seq(T)
      BY FileType
    <3>2. T \subseteq Record
      BY <1>1, RowsPositive DEF Item, Record
    <3> HIDE DEF q, T
    <3>3. q \in Seq(Record)
      BY <3>1, <3>2
    <3>4. QED
      BY <3>3 DEF q
  <2>4. QED
    BY <2>1, <2>2, <2>3
<1>5. ASSUME NEW f \in Flusher
      PROVE  /\ fpc[f] \in {"idle", "take", "group", "write", "sync", "index", "confirm"}
             /\ fpc[f] \in {"write", "sync"} => lock = f
             /\ lock = f => fpc[f] \in {"group", "write", "sync"}
             /\ rows[f] \subseteq EventRow
  BY <1>3 DEF FlushOK, LockOK, PCs
<1>6. lock \in Flusher \cup {Nobody} /\ lastOff \in [Session -> Nat]
  BY DEF LockOK, IndexOK
<1>7. segments \subseteq SegmentRow /\ events \subseteq EventRow /\ ok \subseteq DOMAIN log
  BY <1>1, <1>3 DEF IndexOK, QueueOK
<1>8. QED
  BY <1>1, <1>2, <1>4, <1>5, <1>6, <1>7 DEF TypeOK

\* Every variable of the store has its type and the mutex is held only by a
\* flush that writes, whatever writes, fsyncs and index updates fail.
THEOREM StoreTypesProved == Spec => []TypeOK
<1>1. Init => BaseInv
  BY BaseInit
<1>2. BaseInv /\ [Next]_vars => BaseInv'
  BY BaseStep
<1>3. BaseInv => TypeOK
  BY TypesAreTypes
<1>4. QED
  BY <1>1, <1>2, <1>3, PTL DEF Spec

-----------------------------------------------------------------------------
(* The files, as long as no write, fsync or index update fails.            *)

LEMMA FromNext ==
  ASSUME BaseInv, NEW s \in Session, NEW k \in Nat \ {0}
  PROVE  From(s, k) \in Nat /\ From(s, k + 1) = From(s, k) + MaxRows /\ From(s, 1) = base[s].from
<1>1. base[s].from \in Nat
  BY DEF BaseInv, StoreTypes, GhostOK
<1> DEFINE b == base[s].from
<1>2. b \in Nat /\ MaxRows \in Nat
  BY <1>1, RowsPositive
<1> HIDE DEF b
<1>3. (k - 1) * MaxRows \in Nat /\ (k + 1 - 1) * MaxRows = (k - 1) * MaxRows + MaxRows /\ (1 - 1) * MaxRows = 0
  BY <1>2
<1> DEFINE x == (k - 1) * MaxRows
<1>4. x \in Nat /\ From(s, k) = b + x /\ From(s, k + 1) = b + (x + MaxRows) /\ From(s, 1) = b + 0
  BY <1>3 DEF From, b
<1> HIDE DEF x
<1>5. From(s, k) \in Nat /\ From(s, k + 1) = From(s, k) + MaxRows /\ From(s, 1) = b
  BY <1>2, <1>4
<1>6. QED
  BY <1>5 DEF b

\* The records that are on disk for good stay where they are.
StaysPut(s) ==
  \A k, i : Kept(s, k, i) => Kept(s, k, i)' /\ file'[s][k][i] = file[s][k][i]

LEMMA SameFits ==
  ASSUME NEW s \in Session, Fits(s), file'[s] = file[s], cur'[s] = cur[s], dirty'[s] = dirty[s],
         base'[s] = base[s]
  PROVE  Fits(s)' /\ StaysPut(s)
<1>1. \A k : From(s, k)' = From(s, k)
  BY DEF From
<1>2. Places(s)'
  BY <1>1 DEF Fits, Places
<1>3. Full(s)'
  BY DEF Fits, Full
<1>4. StateFits(s)'
  BY <1>1 DEF Fits, StateFits, Sound, Void
<1>5. StaysPut(s)
  BY DEF StaysPut, Kept
<1>6. QED
  BY <1>2, <1>3, <1>4, <1>5 DEF Fits

LEMMA SameSync ==
  ASSUME BaseInv, SyncOK, UNCHANGED <<file, cur, dirty>>,
         \A f \in Flusher : (fpc'[f] = "sync") <=> (fpc[f] = "sync"),
         \A f \in Flusher : fpc[f] = "sync" => groups'[f] = groups[f] /\ sess'[f] = sess[f]
  PROVE  SyncOK'
<1>1. ASSUME NEW f \in Flusher, fpc'[f] = "sync" PROVE Written(f)'
  <2>1. fpc[f] = "sync" /\ groups'[f] = groups[f] /\ sess'[f] = sess[f] /\ Written(f)
    BY <1>1 DEF SyncOK
  <2>2. Take(f)' = Take(f) /\ \A n : Records(f, n)' = Records(f, n)
    BY <2>1 DEF Take, Records
  <2>3. QED
    BY <2>1, <2>2 DEF Written
<1>2. ASSUME NEW s \in Session, dirty'[s] > 0 PROVE \E f \in Flusher : fpc'[f] = "sync" /\ sess'[f] = s
  BY <1>2 DEF SyncOK
<1>3. QED
  BY <1>1, <1>2 DEF SyncOK

LEMMA SameInv ==
  ASSUME BaseInv, FileInv, UNCHANGED <<file, cur, dirty, base>>,
         \A f \in Flusher : (fpc'[f] = "sync") <=> (fpc[f] = "sync"),
         \A f \in Flusher : fpc[f] = "sync" => groups'[f] = groups[f] /\ sess'[f] = sess[f]
  PROVE  FileInv' /\ \A s \in Session : StaysPut(s)
<1>1. \A s \in Session : Fits(s)' /\ StaysPut(s)
  BY SameFits DEF FileInv
<1>2. SyncOK'
  BY SameSync DEF FileInv
<1>3. QED
  BY <1>1, <1>2 DEF FileInv

\* A file whose records are all complete is read as it is, one without a
\* complete record as empty.
LEMMA CleanSound ==
  ASSUME NEW T, NEW q \in Seq(T), Sound(q)
  PROVE  Clean(q) = q
<1>1. {i \in DOMAIN q : q[i].ev = 0} = {}
  BY DEF Sound
<1>2. QED
  BY <1>1 DEF Clean

LEMMA CleanVoid ==
  ASSUME NEW T, NEW q \in Seq(T), Void(q)
  PROVE  Clean(q) = <<>>
<1> DEFINE c == Clean(q)
<1>1. c \in Seq(T) /\ Len(c) \in Nat /\ Len(c) <= Len(q) /\ \A i \in 1 .. Len(c) : c[i] = q[i] /\ q[i].ev # 0
  BY CleanIs
<1> HIDE DEF c
<1>2. Len(c) = 0
  <2> SUFFICES ASSUME Len(c) > 0 PROVE FALSE
    BY <1>1
  <2>1. 1 \in 1 .. Len(c) /\ 1 \in DOMAIN q
    BY <1>1
  <2>2. QED
    BY <1>1, <2>1 DEF Void
<1>3. QED
  BY <1>1, <1>2 DEF c

\* Incomplete bytes are only at the end.
LEMMA CleanAtEnd ==
  ASSUME NEW T, NEW q \in Seq(T), \A i \in DOMAIN q : q[i].ev = 0 => i = Len(q)
  PROVE  /\ \A i \in DOMAIN q : q[i].ev # 0 => i \in DOMAIN Clean(q)
         /\ Clean(q) = <<>> => Void(q)
<1> DEFINE c == Clean(q)
<1>1. /\ c \in Seq(T) /\ Len(c) \in Nat /\ Len(c) <= Len(q) /\ Len(q) \in Nat /\ DOMAIN q = 1 .. Len(q)
      /\ DOMAIN c = 1 .. Len(c)
      /\ Len(c) < Len(q) => q[Len(c) + 1].ev = 0
  BY CleanIs
<1> HIDE DEF c
<1>2. Len(c) < Len(q) => Len(c) + 1 = Len(q)
  <2> SUFFICES ASSUME Len(c) < Len(q) PROVE Len(c) + 1 = Len(q)
    OBVIOUS
  <2>1. Len(c) + 1 \in DOMAIN q
    BY <1>1
  <2>2. QED
    BY <1>1, <2>1
<1>3. ASSUME NEW i \in DOMAIN q, q[i].ev # 0 PROVE i \in DOMAIN c
  <2>1. CASE i <= Len(c)
    BY <1>1, <2>1
  <2>2. CASE i > Len(c)
    <3>1. Len(c) < Len(q) /\ i = Len(q)
      <4> DEFINE a == Len(c)
                 b == Len(q)
      <4>1. a \in Nat /\ b \in Nat /\ i \in 1 .. b /\ i > a /\ (a < b => a + 1 = b)
        BY <1>1, <1>2, <2>2
      <4> HIDE DEF a, b
      <4>2. a < b /\ i = b
        BY <4>1
      <4>3. QED
        BY <4>2 DEF a, b
    <3>2. QED
      BY <1>1, <1>2, <1>3, <3>1
  <2>3. QED
    BY <1>1, <2>1, <2>2
<1>4. ASSUME c = <<>> PROVE Void(q)
  <2>1. DOMAIN c = {}
    BY <1>4
  <2>2. QED
    BY <1>3, <2>1 DEF Void
<1>5. QED
  BY <1>3, <1>4 DEF c

OpenedAs(s, k, first, id, q) ==
  /\ q = Clean(IF k <= Len(file[s]) THEN file[s][k] ELSE <<>>)
  /\ Len(q) \in 0 .. MaxRows /\ Consecutive(q, first)
  /\ file' = [file EXCEPT ![s] = IF k <= Len(file[s]) THEN [file[s] EXCEPT ![k] = q]
                                 ELSE Append(file[s], <<>>)]
  /\ file'[s] \in Seq(Seq(Item(Len(log)))) /\ k \in DOMAIN file'[s] /\ file'[s][k] = q
  /\ cur' = [cur EXCEPT ![s] = State(k, Len(q), first, id)]
  /\ State(k, Len(q), first, id) \in CurType /\ State(k, Len(q), first, id) # NoState

LEMMA OpenedThus ==
  ASSUME FilesOK, OpenOK, NEW s \in Session, NEW k \in 1 .. Len(file[s]) + 1, NEW first \in Nat,
         NEW id \in Nat, Opened(s, k, first, id)
  PROVE  \E q \in Seq(Item(Len(log))) : OpenedAs(s, k, first, id, q)
BY OpenedIs DEF OpenedAs

\* A file that is opened: what came before it is complete.
LEMMA OpenedFits ==
  ASSUME BaseInv, NEW s \in Session, Fits(s), NEW k \in 1 .. Len(file[s]) + 1, NEW id \in Nat,
         Opened(s, k, From(s, k), id), dirty[s] = 0, dirty' = dirty, base' = base,
         k = Len(file[s]) + 1 => k = 1 \/ (Sound(file[s][k - 1]) /\ Len(file[s][k - 1]) = MaxRows),
         k < Len(file[s]) => k + 1 = Len(file[s]) /\ Void(file[s][k + 1])
  PROVE  Fits(s)' /\ StaysPut(s) /\ \A t \in Session : t # s => file'[t] = file[t] /\ cur'[t] = cur[t]
<1> DEFINE F == file[s]
           G == file'[s]
           T == Item(Len(log))
           old == IF k <= Len(file[s]) THEN file[s][k] ELSE <<>>
<1>1. F \in Seq(Seq(T)) /\ Len(F) \in Nat /\ DOMAIN F = 1 .. Len(F) /\ k \in Nat \ {0}
  BY FileType DEF BaseInv, StoreTypes
<1>2. From(s, k) \in Nat
  BY <1>1, FromNext
<1>3. PICK q \in Seq(T) :
           /\ q = Clean(old) /\ Len(q) \in 0 .. MaxRows /\ Consecutive(q, From(s, k))
           /\ file' = [file EXCEPT ![s] = IF k <= Len(file[s]) THEN [file[s] EXCEPT ![k] = q]
                                          ELSE Append(file[s], <<>>)]
           /\ cur' = [cur EXCEPT ![s] = State(k, Len(q), From(s, k), id)]
           /\ State(k, Len(q), From(s, k), id) # NoState
  <2> DEFINE first == From(s, k)
  <2>1. first \in Nat /\ Opened(s, k, first, id) /\ FilesOK /\ OpenOK
    BY <1>2 DEF BaseInv, StoreTypes
  <2> HIDE DEF first
  <2>2. PICK q \in Seq(Item(Len(log))) :
           /\ q = Clean(IF k <= Len(file[s]) THEN file[s][k] ELSE <<>>)
           /\ Len(q) \in 0 .. MaxRows /\ Consecutive(q, first)
           /\ file' = [file EXCEPT ![s] = IF k <= Len(file[s]) THEN [file[s] EXCEPT ![k] = q]
                                          ELSE Append(file[s], <<>>)]
           /\ file'[s] \in Seq(Seq(Item(Len(log)))) /\ k \in DOMAIN file'[s] /\ file'[s][k] = q
           /\ cur' = [cur EXCEPT ![s] = State(k, Len(q), first, id)]
           /\ State(k, Len(q), first, id) \in CurType /\ State(k, Len(q), first, id) # NoState
    <3>1. \E q \in Seq(Item(Len(log))) : OpenedAs(s, k, first, id, q)
      BY <2>1, OpenedThus
    <3>2. QED
      BY <3>1, Zenon DEF OpenedAs
  <2>3. QED
    BY <2>2, Zenon DEF first
<1>4. old \in Seq(T)
  BY <1>1
<1>5. /\ Len(q) <= Len(old) /\ Len(old) \in Nat /\ DOMAIN q = 1 .. Len(q) /\ DOMAIN old = 1 .. Len(old)
      /\ \A i \in 1 .. Len(q) : q[i] = old[i] /\ old[i].ev # 0
  <2> HIDE DEF old, T
  <2> QED
    BY <1>3, <1>4, CleanIs
<1>6. k = Len(F) + 1 => q = <<>>
  <2>1. k = Len(F) + 1 => old = <<>>
    BY <1>1
  <2> HIDE DEF old
  <2>2. QED
    BY <1>3, <2>1, CleanEmpty
<1>7. G = IF k <= Len(F) THEN [F EXCEPT ![k] = q] ELSE Append(F, q)
  <2>1. G = IF k <= Len(F) THEN [F EXCEPT ![k] = q] ELSE Append(F, <<>>)
    BY <1>3 DEF BaseInv, StoreTypes, FilesOK
  <2>2. ~(k <= Len(F)) => k = Len(F) + 1
    BY <1>1
  <2> HIDE DEF F, G
  <2>3. QED
    BY <1>6, <2>1, <2>2
<1>8. /\ DOMAIN G = 1 .. Len(G) /\ k \in DOMAIN G /\ G[k] = q
      /\ Len(G) = IF k <= Len(F) THEN Len(F) ELSE Len(F) + 1
      /\ \A l \in DOMAIN F : l # k => l \in DOMAIN G /\ G[l] = F[l]
      /\ \A l \in DOMAIN G : l # k => l \in DOMAIN F
  <2> DEFINE TT == Seq(T)
  <2>1. F \in Seq(TT) /\ q \in TT /\ k \in 1 .. Len(F) + 1
    BY <1>1
  <2> HIDE DEF F, G, TT
  <2>2. QED
    BY <1>7, <2>1, PutAt
<1>9. /\ cur'[s] = State(k, Len(q), From(s, k), id)
      /\ \A t \in Session : t # s => file'[t] = file[t] /\ cur'[t] = cur[t]
  BY <1>3 DEF BaseInv, StoreTypes, FilesOK, OpenOK
<1>10. k \in DOMAIN F => old = F[k]
  BY <1>1
<1>11. /\ Places(s) /\ Full(s)
       /\ k = Len(F) + 1 => k = 1 \/ (Sound(F[k - 1]) /\ Len(F[k - 1]) = MaxRows)
       /\ k < Len(F) => k + 1 = Len(F) /\ Void(F[k + 1])
  BY DEF Fits
<1>12. \A l : From(s, l)' = From(s, l)
  BY DEF From
<1>13. k \in DOMAIN F => \A i \in DOMAIN F[k] : F[k][i].ev = 0 => i = Len(F[k]) /\ k = Len(F)
  BY <1>11 DEF Places
\* Nothing is cut off a file that is not the last one.
<1>14. k < Len(F) => q = F[k] /\ Len(q) = MaxRows
  <2> SUFFICES ASSUME k < Len(F) PROVE q = F[k] /\ Len(q) = MaxRows
    OBVIOUS
  <2>1. k \in DOMAIN F /\ k # Len(F) /\ old = F[k]
    BY <1>1, <1>10
  <2>2. Sound(old)
    BY <1>13, <2>1 DEF Sound
  <2>3. Len(F[k]) = MaxRows
    BY <1>11, <2>1 DEF Full
  <2> HIDE DEF old
  <2>4. q = old
    BY <1>3, <1>4, <2>2, CleanSound
  <2>5. QED
    BY <2>1, <2>3, <2>4
<1> HIDE DEF F, G, old, T
<1>15. Places(s)'
  <2> SUFFICES ASSUME NEW l \in DOMAIN G, NEW i \in DOMAIN G[l]
               PROVE  /\ G[l][i].ev = 0 => i = Len(G[l]) /\ l = Len(G)
                      /\ G[l][i].ev # 0 => G[l][i].seq = From(s, l) + i - 1 /\ G[l][i].row = i - 1
    BY <1>12 DEF Places, G
  <2>1. CASE l = k
    <3>1. i \in 1 .. Len(q) /\ G[l][i] = old[i] /\ old[i].ev # 0 /\ G[l][i] = q[i] /\ i \in DOMAIN q
      BY <1>5, <1>8, <2>1
    <3>2. q[i].seq = From(s, k) + i - 1 /\ q[i].row = i - 1
      BY <1>3, <3>1, Zenon DEF Consecutive
    <3>3. QED
      BY <2>1, <3>1, <3>2
  <2>2. CASE l # k
    <3>1. l \in DOMAIN F /\ G[l] = F[l]
      BY <1>8, <2>2
    <3>2. /\ F[l][i].ev = 0 => i = Len(F[l]) /\ l = Len(F)
          /\ F[l][i].ev # 0 => F[l][i].seq = From(s, l) + i - 1 /\ F[l][i].row = i - 1
      BY <1>11, <3>1 DEF Places, F
    <3>3. ASSUME F[l][i].ev = 0 PROVE l = Len(G)
      <4>1. l = Len(F) /\ i \in DOMAIN F[l]
        BY <3>1, <3>2, <3>3
      <4>2. CASE k = Len(F) + 1
        <5>1. k # 1 /\ k - 1 = l
          BY <1>1, <3>1, <4>1, <4>2
        <5>2. Sound(F[l])
          BY <1>11, <4>2, <5>1
        <5>3. QED
          BY <3>3, <4>1, <5>2 DEF Sound
      <4>3. CASE k <= Len(F)
        BY <1>8, <4>1, <4>3
      <4>4. k <= Len(F) \/ k = Len(F) + 1
        BY <1>1 DEF F
      <4>5. QED
        BY <4>2, <4>3, <4>4
    <3>4. QED
      BY <3>1, <3>2, <3>3
  <2>3. QED
    BY <2>1, <2>2
<1>16. Full(s)'
  <2> SUFFICES ASSUME NEW l \in DOMAIN G, l < Len(G) PROVE Len(G[l]) = MaxRows
    BY DEF Full, G
  <2>1. l \in Nat /\ Len(G) \in Nat
    BY <1>1, <1>8
  <2>2. CASE l = k
    <3>1. k < Len(F)
      BY <1>1, <1>8, <2>1, <2>2
    <3>2. QED
      BY <1>8, <1>14, <2>2, <3>1
  <2>3. CASE l # k
    <3>1. l \in DOMAIN F /\ G[l] = F[l]
      BY <1>8, <2>3
    <3>2. CASE l < Len(F)
      BY <1>11, <3>1, <3>2 DEF Full, F
    <3>3. CASE l = Len(F)
      <4>1. k = Len(F) + 1 /\ k # 1 /\ k - 1 = l
        BY <1>1, <1>8, <2>1, <3>1, <3>3
      <4>2. QED
        BY <1>11, <3>1, <4>1
    <3>4. QED
      BY <1>1, <2>1, <3>1, <3>2, <3>3
  <2>4. QED
    BY <2>2, <2>3
<1>17. StateFits(s)'
  <2> DEFINE st == State(k, Len(q), From(s, k), id)
  <2>1. st.first = From(s, k) /\ st.row = Len(q) /\ st.idx = k
    BY DEF State
  <2>2. Sound(q)
    BY <1>5 DEF Sound
  <2>3. Len(q) + 0 = Len(q)
    BY <1>5
  <2>4. \/ k = Len(G)
        \/ k + 1 = Len(G) /\ Len(q) = MaxRows /\ Void(G[Len(G)])
    <3> DEFINE a == Len(F)
               b == Len(G)
    <3>1. a \in Nat /\ k \in 1 .. a + 1 /\ b = (IF k <= a THEN a ELSE a + 1)
      BY <1>1, <1>8 DEF F
    <3>2. k < a => k + 1 = a /\ Void(F[k + 1]) /\ Len(q) = MaxRows
      BY <1>11, <1>14
    <3>3. k < a => G[k + 1] = F[k + 1]
      <4> SUFFICES ASSUME k < a PROVE G[k + 1] = F[k + 1]
        OBVIOUS
      <4>1. k + 1 \in DOMAIN F /\ k + 1 # k
        BY <1>1
      <4>2. QED
        BY <1>8, <4>1
    <3> HIDE DEF a, b
    <3>4. CASE k < a
      <4>1. b = a
        BY <3>1, <3>4
      <4>2. QED
        BY <3>2, <3>3, <3>4, <4>1 DEF b
    <3>5. CASE ~(k < a)
      <4>1. k = b
        BY <3>1, <3>5
      <4>2. QED
        BY <4>1 DEF b
    <3>6. QED
      BY <3>4, <3>5
  <2> HIDE DEF st
  <2>5. QED
    BY <1>8, <1>9, <1>12, <2>1, <2>2, <2>3, <2>4 DEF StateFits, G, st
<1>18. StaysPut(s)
  <2> SUFFICES ASSUME NEW l, NEW i, Kept(s, l, i) PROVE Kept(s, l, i)' /\ G[l][i] = F[l][i]
    BY DEF StaysPut, F, G
  <2>1. l \in DOMAIN F /\ i \in DOMAIN F[l] /\ F[l][i].ev # 0
    BY DEF Kept, F
  <2>2. l \in DOMAIN G /\ i \in DOMAIN G[l] /\ G[l][i] = F[l][i]
    <3>1. CASE l = k
      <4>1. old = F[k]
        BY <1>10, <2>1, <3>1
      <4>2. \A j \in DOMAIN old : old[j].ev = 0 => j = Len(old)
        BY <1>13, <2>1, <3>1, <4>1
      <4>3. i \in DOMAIN Clean(old)
        BY <1>4, <2>1, <3>1, <4>1, <4>2, CleanAtEnd
      <4>4. QED
        BY <1>3, <1>5, <1>8, <3>1, <4>1, <4>3
    <3>2. CASE l # k
      BY <1>8, <2>1, <3>2
    <3>3. QED
      BY <3>1, <3>2
  <2>3. i <= Len(G[l]) - dirty'[s]
    <3>1. DOMAIN G[l] = 1 .. Len(G[l]) /\ Len(G[l]) \in Nat
      <4>1. CASE l = k
        BY <1>3, <1>5, <1>8, <4>1
      <4>2. CASE l # k
        <5>1. l \in DOMAIN F /\ G[l] = F[l]
          BY <1>8, <2>1, <4>2
        <5>2. F[l] \in Seq(T)
          BY <1>1, <2>1
        <5>3. QED
          BY <5>1, <5>2
      <4>3. QED
        BY <4>1, <4>2
    <3>2. QED
      BY <2>2, <3>1
  <2>4. QED
    BY <2>1, <2>2, <2>3 DEF Kept, G
<1>19. QED
  BY <1>9, <1>15, <1>16, <1>17, <1>18 DEF Fits

\* One session changes its state or its files, the others do not.
LEMMA OneFits ==
  ASSUME FileInv, NEW s \in Session, Fits(s)', StaysPut(s),
         \A t \in Session : t # s => /\ file'[t] = file[t] /\ cur'[t] = cur[t] /\ dirty'[t] = dirty[t]
                                     /\ base'[t] = base[t]
  PROVE  \A t \in Session : Fits(t)' /\ StaysPut(t)
<1> SUFFICES ASSUME NEW t \in Session PROVE Fits(t)' /\ StaysPut(t)
  OBVIOUS
<1>1. CASE t = s
  BY <1>1
<1>2. CASE t # s
  <2>1. Fits(t) /\ file'[t] = file[t] /\ cur'[t] = cur[t] /\ dirty'[t] = dirty[t] /\ base'[t] = base[t]
    BY <1>2 DEF FileInv
  <2>2. QED
    BY <2>1, SameFits
<1>3. QED
  BY <1>1, <1>2

\* No flush is between its write and its fsync.
LEMMA NoSync ==
  ASSUME BaseInv, FileInv, \A f \in Flusher : fpc[f] # "sync"
  PROVE  \A s \in Session : dirty[s] = 0
<1>1. \A s \in Session : dirty[s] \in Nat /\ ~(dirty[s] > 0)
  BY DEF BaseInv, StoreTypes, OpenOK, FileInv, SyncOK
<1>2. QED
  BY <1>1

\* A session that is recovered continues its last file.
LEMMA RecoverAt ==
  ASSUME BaseInv, NEW s \in Session, Fits(s)
  PROVE  /\ StartSeq(s) = From(s, LastSegment(s))
         /\ LastSegment(s) \in 1 .. Len(file[s]) + 1
         /\ LastSegment(s) = Len(file[s]) + 1 => LastSegment(s) = 1
         /\ LastSegment(s) < Len(file[s]) =>
              LastSegment(s) + 1 = Len(file[s]) /\ Void(file[s][LastSegment(s) + 1])
<1> DEFINE k == LastSegment(s)
           F == file[s]
<1>1. F \in Seq(Seq(Item(Len(log)))) /\ Len(F) \in Nat /\ DOMAIN F = 1 .. Len(F)
      /\ \A l \in DOMAIN F : F[l] \in Seq(Item(Len(log)))
  BY FileType DEF BaseInv, StoreTypes
<1>2. /\ Filled(s) = {} => k = 1
      /\ Filled(s) # {} => k \in Filled(s) /\ k \in DOMAIN F /\ \A l \in Filled(s) : l <= k
      /\ k \in 1 .. Len(F) + 1
  BY LastIs DEF BaseInv, StoreTypes
<1>3. StartSeq(s) = From(s, k)
  <2>1. CASE Filled(s) = {}
    <3>1. StartSeq(s) = base[s].from
      BY <2>1, ForkPointIs DEF StartSeq, BaseInv, StoreTypes
    <3>2. From(s, 1) = base[s].from
      BY FromNext
    <3>3. QED
      BY <1>2, <2>1, <3>1, <3>2
  <2>2. CASE Filled(s) # {}
    <3>1. StartSeq(s) = F[k][1].seq /\ k \in Filled(s)
      BY <1>2, <2>2 DEF StartSeq
    <3>2. k \in DOMAIN F /\ Len(F[k]) > 0 /\ F[k][1].ev # 0
      BY <3>1, FilledIs DEF BaseInv, StoreTypes
    <3>3. 1 \in DOMAIN F[k]
      BY <1>1, <3>2
    <3>4. F[k][1].seq = From(s, k) + 1 - 1
      BY <3>2, <3>3, Zenon DEF Fits, Places
    <3>5. From(s, k) \in Nat
      BY <1>1, <3>2, FromNext
    <3> HIDE DEF k, F
    <3>6. QED
      BY <3>1, <3>4, <3>5 DEF k
  <2>3. QED
    BY <2>1, <2>2
\* A file before the last one holds records.
<1>4. ASSUME NEW l \in DOMAIN F, l < Len(F) PROVE l \in Filled(s)
  <2>1. Len(F[l]) = MaxRows /\ \A i \in DOMAIN F[l] : F[l][i].ev # 0
    <3>1. l # Len(F)
      BY <1>1, <1>4
    <3>2. QED
      BY <1>4, <3>1 DEF Fits, Full, Places
  <2>2. Clean(F[l]) = F[l]
    BY <1>1, <2>1, CleanSound DEF Sound
  <2>3. F[l] # <<>>
    BY <2>1, RowsPositive
  <2>4. QED
    BY <2>2, <2>3 DEF Filled
<1>5. k = Len(F) + 1 => k = 1
  BY <1>1, <1>2
<1>6. ASSUME k < Len(F) PROVE k + 1 = Len(F) /\ Void(F[k + 1])
  <2>1. k \in Nat /\ k \in DOMAIN F /\ k + 1 \in DOMAIN F
    BY <1>1, <1>2, <1>6
  <2>2. k + 1 \notin Filled(s)
    <3>1. k \in Filled(s)
      BY <1>4, <1>6, <2>1
    <3>2. QED
      BY <1>2, <2>1, <3>1
  <2>3. k + 1 = Len(F)
    <3>1. ~(k + 1 < Len(F))
      BY <1>4, <2>1, <2>2
    <3>2. QED
      BY <1>1, <1>6, <2>1, <3>1
  <2>4. Clean(F[k + 1]) = <<>>
    BY <2>1, <2>2 DEF Filled
  <2>5. \A i \in DOMAIN F[k + 1] : F[k + 1][i].ev = 0 => i = Len(F[k + 1])
    BY <2>1 DEF Fits, Places
  <2> DEFINE q == F[k + 1]
  <2>6. q \in Seq(Item(Len(log))) /\ Clean(q) = <<>> /\ \A i \in DOMAIN q : q[i].ev = 0 => i = Len(q)
    BY <1>1, <2>1, <2>4, <2>5
  <2> HIDE DEF q
  <2>7. Void(q)
    BY <2>6, CleanAtEnd
  <2>8. QED
    BY <2>3, <2>7 DEF q
<1>7. QED
  BY <1>2, <1>3, <1>5, <1>6

\* Neither the flushes between write and fsync nor their batches change.
LEMMA OtherSync ==
  ASSUME BaseInv, FileInv, NEW s \in Session, \A f \in Flusher : fpc'[f] # "sync",
         \A f \in Flusher : fpc[f] # "sync", dirty' = dirty
  PROVE  SyncOK'
BY NoSync DEF SyncOK

LEMMA OpenGroupFits ==
  ASSUME BaseInv, BaseInv', FileInv, ~IoErrors, NEW f \in Flusher, NEW s \in Session, OpenGroup(f, s)
  PROVE  FileInv' /\ \A t \in Session : StaysPut(t)
<1>1. /\ fpc[f] = "group" /\ \A g \in Flusher : fpc[g] # "sync"
  BY SessionStoreAssumption DEF OpenGroup, BaseInv, StoreTypes, LockOK
<1>2. CASE FlushFails(f) /\ UNCHANGED file
  <2>1. UNCHANGED <<file, cur, dirty, base>> /\ \A g \in Flusher : fpc'[g] # "sync"
    BY <1>1, <1>2 DEF FlushFails, ghostVars, BaseInv, StoreTypes, FlushOK
  <2>2. QED
    BY <1>1, <2>1, SameInv
<1>3. CASE UNCHANGED <<cur, file, dirty, ghostVars>> /\ fpc' = [fpc EXCEPT ![f] = "write"]
  <2>1. UNCHANGED <<file, cur, dirty, base>> /\ \A g \in Flusher : fpc'[g] # "sync"
    BY <1>1, <1>3 DEF ghostVars, BaseInv, StoreTypes, FlushOK
  <2>2. QED
    BY <1>1, <2>1, SameInv
<1>4. CASE /\ Opened(s, LastSegment(s), StartSeq(s), SegmentId(s, LastSegment(s)))
           /\ UNCHANGED <<dirty, ghostVars>> /\ fpc' = [fpc EXCEPT ![f] = "write"]
  <2> DEFINE k == LastSegment(s)
             id == SegmentId(s, k)
  <2>1. /\ StartSeq(s) = From(s, k) /\ k \in 1 .. Len(file[s]) + 1
        /\ k = Len(file[s]) + 1 => k = 1
        /\ k < Len(file[s]) => k + 1 = Len(file[s]) /\ Void(file[s][k + 1])
    BY RecoverAt DEF FileInv
  <2>2. id \in Nat /\ dirty[s] = 0 /\ Fits(s) /\ dirty' = dirty /\ base' = base
    BY <1>1, <1>4, SegmentIdIs, NoSync DEF BaseInv, StoreTypes, FileInv, ghostVars
  <2>3. Opened(s, k, From(s, k), id)
    BY <1>4, <2>1
  <2> HIDE DEF k, id
  <2>4. Fits(s)' /\ StaysPut(s) /\ \A t \in Session : t # s => file'[t] = file[t] /\ cur'[t] = cur[t]
    BY <2>1, <2>2, <2>3, OpenedFits
  <2>5. \A t \in Session : Fits(t)' /\ StaysPut(t)
    BY <2>2, <2>4, OneFits
  <2>6. \A g \in Flusher : fpc'[g] # "sync"
    BY <1>1, <1>4 DEF BaseInv, StoreTypes, FlushOK
  <2>7. SyncOK'
    BY <1>1, <2>2, <2>6, OtherSync
  <2>8. QED
    BY <2>5, <2>7 DEF FileInv
<1>5. QED
  BY <1>2, <1>3, <1>4 DEF OpenGroup

LEMMA RollFits ==
  ASSUME BaseInv, BaseInv', FileInv, ~IoErrors, NEW f \in Flusher, Roll(f)
  PROVE  FileInv' /\ \A t \in Session : StaysPut(t)
<1>0. sess[f] \in Session /\ fpc[f] = "write"
  BY OneWriter DEF Roll, BaseInv
<1> PICK s \in Session : s = sess[f]
  BY <1>0
<1> DEFINE st == cur[s]
<1>1. fpc[f] = "write" /\ st.row >= MaxRows
  BY DEF Roll
<1>2. /\ s \in Session /\ st # NoState /\ st \in CurType /\ st.idx \in DOMAIN file[s]
      /\ st.next = st.first + st.row /\ \A g \in Flusher : g # f => fpc[g] \notin {"write", "sync"}
  BY <1>1, OneWriter DEF BaseInv
<1>3. \A g \in Flusher : fpc[g] # "sync"
  BY <1>1, <1>2
<1>4. CASE FlushFails(f) /\ UNCHANGED file
  <2>1. UNCHANGED <<file, cur, dirty, base>> /\ \A g \in Flusher : fpc'[g] # "sync"
    BY <1>3, <1>4 DEF FlushFails, ghostVars, BaseInv, StoreTypes, FlushOK
  <2>2. QED
    BY <1>3, <2>1, SameInv
<1>5. CASE /\ Opened(s, st.idx + 1, st.next, nextId)
           /\ UNCHANGED <<fpc, dirty, ghostVars>>
  <2> DEFINE k == st.idx + 1
             i == st.idx
  <2>1. i \in Nat \ {0} /\ i \in DOMAIN file[s] /\ i <= Len(file[s]) /\ Len(file[s]) \in Nat /\ k = i + 1
    BY <1>2, FileType DEF BaseInv, StoreTypes
  <2>2. st.row = MaxRows /\ nextId \in Nat
    BY <1>1, <1>2, RowsPositive DEF CurType, BaseInv, StoreTypes, IndexOK
  <2>3. dirty[s] = 0 /\ Fits(s) /\ dirty' = dirty /\ base' = base
    BY <1>2, <1>3, <1>5, NoSync DEF FileInv, ghostVars
  <2>4. /\ st.first = From(s, i) /\ st.row + dirty[s] = Len(file[s][i]) /\ Sound(file[s][i])
        /\ \/ i = Len(file[s])
           \/ i + 1 = Len(file[s]) /\ Void(file[s][Len(file[s])])
    BY <1>2, <2>3 DEF Fits, StateFits
  <2>5. st.next = From(s, k)
    <3>1. From(s, k) = From(s, i) + MaxRows
      BY <1>2, <2>1, FromNext
    <3>2. QED
      BY <1>2, <2>2, <2>4, <3>1
  <2>6. Len(file[s][i]) = MaxRows
    BY <2>2, <2>3, <2>4, RowsPositive
  <2>7. Opened(s, k, From(s, k), nextId)
    BY <1>5, <2>5
  <2> HIDE DEF i, k, st
  <2>8. k \in 1 .. Len(file[s]) + 1 /\ k - 1 = i
    BY <2>1
  <2>9. k < Len(file[s]) => k + 1 = Len(file[s]) /\ Void(file[s][k + 1])
    BY <2>1, <2>4
  <2>9a. k = Len(file[s]) + 1 => k = 1 \/ (Sound(file[s][k - 1]) /\ Len(file[s][k - 1]) = MaxRows)
    BY <2>4, <2>6, <2>8
  <2>10. Fits(s)' /\ StaysPut(s) /\ \A t \in Session : t # s => file'[t] = file[t] /\ cur'[t] = cur[t]
    BY <2>2, <2>3, <2>7, <2>8, <2>9, <2>9a, OpenedFits
  <2>11. \A t \in Session : Fits(t)' /\ StaysPut(t)
    <3>1. \A t \in Session : t # s => /\ file'[t] = file[t] /\ cur'[t] = cur[t] /\ dirty'[t] = dirty[t]
                                      /\ base'[t] = base[t]
      BY <2>3, <2>10
    <3>2. QED
      BY <2>10, <3>1, OneFits
  <2>12. SyncOK'
    BY <1>2, <1>3, <1>5, <2>3, OtherSync
  <2>13. QED
    BY <2>11, <2>12 DEF FileInv
<1>6. QED
  BY <1>4, <1>5 DEF Roll

Enlarged(s, k, q) ==
  /\ \A t \in Session : t # s => file'[t] = file[t]
  /\ DOMAIN file'[s] = DOMAIN file[s] /\ Len(file'[s]) = Len(file[s])
  /\ \A l \in DOMAIN file[s] : l # k => file'[s][l] = file[s][l]
  /\ file'[s][k] = file[s][k] \o q

LEMMA ExtendedThus ==
  ASSUME StoreTypes, NEW s \in Session, NEW k \in DOMAIN file[s], NEW q \in Seq(Item(Len(log))),
         file' = [file EXCEPT ![s][k] = @ \o q], log' = log
  PROVE  Enlarged(s, k, q)
BY Extended DEF Enlarged

LEMMA WriteFits ==
  ASSUME BaseInv, FileInv, NEW f \in Flusher, Write(f)
  PROVE  FileInv' /\ \A t \in Session : StaysPut(t)
<1>0. sess[f] \in Session /\ fpc[f] = "write"
  BY OneWriter DEF Write, BaseInv
<1> PICK s \in Session : s = sess[f]
  BY <1>0
<1> DEFINE st == cur[s]
           k == st.idx
           n == Take(f)
           q == Records(f, n)
           x == file[s][k]
           T == Item(Len(log))
<1>1. /\ fpc[f] = "write" /\ st.row < MaxRows
      /\ file' = [file EXCEPT ![s][k] = @ \o q]
      /\ dirty' = [dirty EXCEPT ![s] = @ + n]
      /\ fpc' = [fpc EXCEPT ![f] = "sync"]
      /\ UNCHANGED <<log, cur, groups, sess, base>>
  BY DEF Write, memVars, ghostVars
<1>2. /\ s \in Session /\ st # NoState /\ k \in DOMAIN file[s] /\ st \in CurType
      /\ \A g \in Flusher : g # f => fpc[g] \notin {"write", "sync"}
      /\ st.next = st.first + st.row
  BY <1>1, OneWriter DEF BaseInv
<1>3. \A t \in Session : dirty[t] = 0
  BY <1>1, <1>2, NoSync
<1>4. n \in Nat \ {0} /\ st.row + n <= MaxRows
  BY <1>1, TakeIs DEF BaseInv
<1>5. /\ q \in Seq(T) /\ Len(q) = n /\ DOMAIN q = 1 .. n
      /\ \A i \in 1 .. n : /\ q[i] = [seq |-> st.next + i - 1, row |-> st.row + i - 1, ev |-> groups[f][s][i]]
                           /\ groups[f][s][i] \in 1 .. Len(log)
  <2>1. n \in 0 .. Take(f)
    BY <1>4
  <2>2. QED
    BY <1>1, <2>1, RecordsIs DEF BaseInv
<1>6. /\ \A t \in Session : t # s => file'[t] = file[t]
      /\ DOMAIN file'[s] = DOMAIN file[s] /\ Len(file'[s]) = Len(file[s])
      /\ \A l \in DOMAIN file[s] : l # k => file'[s][l] = file[s][l]
      /\ file'[s][k] = x \o q
  <2>1. StoreTypes /\ k \in DOMAIN file[s] /\ q \in Seq(Item(Len(log))) /\ log' = log
        /\ file' = [file EXCEPT ![s][k] = @ \o q]
    BY <1>1, <1>2, <1>5 DEF BaseInv
  <2> HIDE DEF q, k
  <2>2. Enlarged(s, k, q)
    BY <2>1, ExtendedThus
  <2>3. QED
    BY <2>2 DEF Enlarged
<1>7. /\ st.first = From(s, k) /\ st.row = Len(x) /\ Sound(x) /\ k = Len(file[s])
  <2>1. Fits(s)
    BY <1>2 DEF FileInv
  <2>2. /\ st.first = From(s, k) /\ st.row + dirty[s] = Len(x) /\ Sound(x) /\ (k = Len(file[s]) \/ st.row = MaxRows)
    BY <1>2, <2>1 DEF Fits, StateFits
  <2>3. st.row \in Nat /\ st.row # MaxRows
    <3> HIDE DEF k, n, q, x, T
    <3>1. st.row < MaxRows /\ st \in CurType
      BY <1>1, <1>2, Zenon
    <3> HIDE DEF st
    <3>2. QED
      BY <3>1, RowsPositive DEF CurType
  <2>4. QED
    BY <1>2, <1>3, <2>2, <2>3
<1>8. x \in Seq(T) /\ Len(x) \in Nat /\ DOMAIN x = 1 .. Len(x)
  BY <1>2, FileType DEF BaseInv, StoreTypes
<1>9. /\ Len(x \o q) = Len(x) + n /\ DOMAIN (x \o q) = 1 .. Len(x) + n
      /\ \A i \in DOMAIN x : (x \o q)[i] = x[i]
      /\ \A i \in 1 .. n : (x \o q)[Len(x) + i] = q[i]
  <2> HIDE DEF x, q, n, T
  <2>1. /\ x \o q \in Seq(T) /\ Len(x \o q) = Len(x) + Len(q)
        /\ \A i \in 1 .. Len(x) + Len(q) : (x \o q)[i] = IF i <= Len(x) THEN x[i] ELSE q[i - Len(x)]
    BY <1>5, <1>8, ConcatProperties
  <2>2. QED
    BY <1>4, <1>5, <1>8, <2>1
<1> DEFINE y == file'[s][k]
<1>10. /\ y = x \o q /\ Len(y) = Len(x) + n /\ DOMAIN y = 1 .. Len(x) + n
       /\ \A i \in DOMAIN x : y[i] = x[i]
       /\ \A i \in 1 .. n : y[Len(x) + i] = q[i]
  BY <1>6, <1>9
<1>11. \A l : From(s, l)' = From(s, l)
  BY <1>1 DEF From
<1>12. From(s, k) \in Nat
  <2>1. k \in Nat \ {0}
    BY <1>2, FileType DEF BaseInv, StoreTypes
  <2>2. QED
    BY <1>2, <2>1, FromNext
<1>13. dirty'[s] = n /\ \A t \in Session : t # s => dirty'[t] = dirty[t]
  <2>1. dirty \in [Session -> Nat]
    BY DEF BaseInv, StoreTypes, OpenOK
  <2> HIDE DEF n
  <2>2. dirty'[s] = dirty[s] + n /\ \A t \in Session : t # s => dirty'[t] = dirty[t]
    BY <1>1, <2>1
  <2>3. QED
    BY <1>3, <1>4, <2>2
\* The new records are at their places.
<1>14. \A i \in DOMAIN y : y[i].ev # 0 /\ y[i].seq = From(s, k) + i - 1 /\ y[i].row = i - 1
  <2> SUFFICES ASSUME NEW i \in DOMAIN y
               PROVE  y[i].ev # 0 /\ y[i].seq = From(s, k) + i - 1 /\ y[i].row = i - 1
    OBVIOUS
  <2>1. CASE i \in DOMAIN x
    <3>1. y[i] = x[i] /\ x[i].ev # 0
      BY <1>7, <1>10, <2>1 DEF Sound
    <3>2. Places(s)
      BY <1>2 DEF FileInv, Fits
    <3>3. x[i].seq = From(s, k) + i - 1 /\ x[i].row = i - 1
      BY <1>2, <2>1, <3>1, <3>2, Zenon DEF Places
    <3> HIDE DEF y
    <3>4. QED
      BY <3>1, <3>3
  <2>2. CASE i \notin DOMAIN x
    <3> DEFINE j == i - Len(x)
               a == st.next
               b == st.row
               ev == groups[f][s][j]
    <3>1. j \in 1 .. n /\ i = Len(x) + j
      <4> HIDE DEF x, y, n
      <4> QED
        BY <1>4, <1>8, <1>10, <2>2
    <3>2. y[i] = q[j] /\ q[j] = [seq |-> a + j - 1, row |-> b + j - 1, ev |-> ev] /\ ev \in 1 .. Len(log)
      <4>1. y[Len(x) + j] = q[j]
        BY <1>10, <3>1
      <4>2. q[j] = [seq |-> st.next + j - 1, row |-> st.row + j - 1, ev |-> groups[f][s][j]]
            /\ groups[f][s][j] \in 1 .. Len(log)
        BY <1>5, <3>1, Zenon
      <4> HIDE DEF j, y, q
      <4>3. QED
        BY <3>1, <4>1, <4>2
    <3>3. a = From(s, k) + Len(x) /\ b = Len(x)
      BY <1>2, <1>7
    <3> DEFINE F == From(s, k)
               lx == Len(x)
    <3>4. F \in Nat /\ lx \in Nat /\ a = F + lx /\ b = lx /\ i = lx + j /\ j \in Nat /\ n \in Nat
      BY <1>4, <1>8, <1>12, <3>1, <3>3
    <3> HIDE DEF F, lx, a, b, ev, y, j, x, q, n
    <3>5. a + j - 1 = F + i - 1 /\ b + j - 1 = i - 1
      BY <3>4
    <3>6. y[i].seq = a + j - 1 /\ y[i].row = b + j - 1 /\ y[i].ev = ev /\ ev # 0
      <4>1. ev # 0
        BY <3>2
      <4>2. QED
        BY <3>2, <4>1
    <3>7. QED
      BY <3>5, <3>6 DEF F
  <2>3. QED
    BY <2>1, <2>2
<1>15. Places(s)'
  <2> SUFFICES ASSUME NEW l \in DOMAIN file'[s], NEW i \in DOMAIN file'[s][l]
               PROVE  /\ file'[s][l][i].ev = 0 => i = Len(file'[s][l]) /\ l = Len(file'[s])
                      /\ file'[s][l][i].ev # 0 =>
                           file'[s][l][i].seq = From(s, l) + i - 1 /\ file'[s][l][i].row = i - 1
    BY <1>11 DEF Places
  <2>1. CASE l = k
    BY <1>14, <2>1
  <2>2. CASE l # k
    <3>1. file'[s][l] = file[s][l] /\ l \in DOMAIN file[s] /\ Places(s) /\ Len(file'[s]) = Len(file[s])
      BY <1>2, <1>6, <2>2 DEF FileInv, Fits
    <3>2. QED
      BY <3>1 DEF Places
  <2>3. QED
    BY <2>1, <2>2
<1>16. Full(s)'
  <2>1. Full(s)
    BY <1>2 DEF FileInv, Fits
  <2> SUFFICES ASSUME NEW l \in DOMAIN file'[s], l < Len(file'[s]) PROVE Len(file'[s][l]) = MaxRows
    BY DEF Full
  <2>2. l # k /\ l \in DOMAIN file[s] /\ Len(file'[s]) = Len(file[s])
    BY <1>2, <1>6, <1>7, FileType DEF BaseInv, StoreTypes
  <2>3. QED
    BY <1>6, <2>1, <2>2 DEF Full
<1>17. StateFits(s)'
  <2>1. cur'[s] = st /\ cur[s].idx = k /\ cur[s].first = From(s, k)
    BY <1>1, <1>7
  <2>2. cur[s].row + dirty'[s] = Len(y) /\ Sound(y)
    BY <1>7, <1>10, <1>13, <1>14 DEF Sound
  <2>3. k = Len(file'[s])
    BY <1>6, <1>7
  <2>4. QED
    BY <1>1, <1>11, <2>1, <2>2, <2>3 DEF StateFits
<1>18. StaysPut(s)
  <2> SUFFICES ASSUME NEW l, NEW i, Kept(s, l, i) PROVE Kept(s, l, i)' /\ file'[s][l][i] = file[s][l][i]
    BY DEF StaysPut
  <2>1. l \in DOMAIN file[s] /\ i \in DOMAIN file[s][l] /\ file[s][l][i].ev # 0
    BY DEF Kept
  <2>2. CASE l = k
    <3>1. i \in DOMAIN x /\ i \in DOMAIN y /\ y[i] = x[i] /\ i <= Len(y) - dirty'[s]
      <4>1. i \in DOMAIN x /\ y[i] = x[i]
        BY <1>10, <2>1, <2>2
      <4> DEFINE a == Len(x)
                 b == Len(y)
                 d == dirty'[s]
      <4>2. a \in Nat /\ i \in 1 .. a /\ b = a + n /\ d = n /\ n \in Nat /\ DOMAIN y = 1 .. b
        BY <1>4, <1>8, <1>10, <1>13, <4>1
      <4> HIDE DEF a, b, d, n
      <4>3. i \in 1 .. b /\ i <= b - d
        BY <4>2
      <4>4. QED
        BY <4>1, <4>2, <4>3 DEF b, d
    <3>2. QED
      BY <1>6, <2>1, <2>2, <3>1 DEF Kept
  <2>3. CASE l # k
    BY <1>1, <1>6, <2>1, <2>3 DEF Kept
  <2>4. QED
    BY <2>2, <2>3
<1>19. \A t \in Session : Fits(t)' /\ StaysPut(t)
  <2>1. \A t \in Session : t # s => file'[t] = file[t] /\ cur'[t] = cur[t] /\ dirty'[t] = dirty[t] /\ base'[t] = base[t]
    BY <1>1, <1>6, <1>13
  <2>2. Fits(s)'
    BY <1>15, <1>16, <1>17 DEF Fits
  <2>3. QED
    BY <1>2, <1>18, <2>1, <2>2, OneFits
<1>20. SyncOK'
  <2>1. \A g \in Flusher : (fpc'[g] = "sync") <=> g = f
    BY <1>1, <1>2 DEF BaseInv, StoreTypes, FlushOK
  <2>2. Take(f)' = n /\ \A m : Records(f, m)' = Records(f, m)
    BY <1>1 DEF Take, Records
  <2>3. Written(f)'
    <3>1. \A i \in 1 .. n : y[cur[s].row + i] = q[i]
      BY <1>7, <1>10
    <3>2. sess'[f] = s /\ cur' = cur /\ dirty'[s] = n /\ Records(f, n)' = q
      BY <1>1, <1>13, <2>2
    <3>3. QED
      BY <2>2, <3>1, <3>2 DEF Written
  <2>4. ASSUME NEW t \in Session, dirty'[t] > 0 PROVE t = s
    BY <1>3, <1>13, <2>4
  <2>5. sess'[f] = s
    BY <1>1
  <2>6. QED
    BY <2>1, <2>3, <2>4, <2>5 DEF SyncOK
<1>21. QED
  BY <1>19, <1>20 DEF FileInv

LEMMA SyncFits ==
  ASSUME BaseInv, FileInv, NEW f \in Flusher, Sync(f)
  PROVE  FileInv' /\ \A t \in Session : StaysPut(t)
<1>0. sess[f] \in Session /\ fpc[f] = "sync"
  BY OneWriter DEF Sync, BaseInv
<1> PICK s \in Session : s = sess[f]
  BY <1>0
<1> DEFINE st == cur[s]
           k == st.idx
           n == Take(f)
           new == Advanced(st, n)
<1>1. /\ st.row < MaxRows /\ cur' = [cur EXCEPT ![s] = new] /\ dirty' = [dirty EXCEPT ![s] = 0]
      /\ UNCHANGED <<sess, file, base>>
      /\ \/ fpc' = [fpc EXCEPT ![f] = "write"] \/ fpc' = [fpc EXCEPT ![f] = "index"]
         \/ fpc' = [fpc EXCEPT ![f] = "group"]
  BY SyncIs DEF BaseInv, ghostVars
<1>2. /\ st # NoState /\ k \in DOMAIN file[s] /\ st \in CurType
      /\ \A g \in Flusher : g # f => fpc[g] \notin {"write", "sync"}
      /\ st.next = st.first + st.row
  BY <1>0, OneWriter DEF BaseInv
<1>3. n \in Nat \ {0} /\ st.row + n <= MaxRows
  BY <1>0, <1>1, TakeIs DEF BaseInv
<1>4. new.idx = k /\ new.first = st.first /\ new.row = st.row + n
  <2> HIDE DEF st, n
  <2> QED
    BY <1>2, <1>3, AdvancedIs DEF st
<1>5. dirty[s] = n
  BY <1>0 DEF FileInv, SyncOK, Written
<1>6. /\ cur'[s] = new /\ dirty'[s] = 0 /\ \A t \in Session : dirty[t] \in Nat
      /\ \A t \in Session : t # s => /\ file'[t] = file[t] /\ cur'[t] = cur[t] /\ dirty'[t] = dirty[t]
                                     /\ base'[t] = base[t]
  BY <1>1 DEF BaseInv, StoreTypes, OpenOK
<1>7. \A l : From(s, l)' = From(s, l)
  BY <1>1 DEF From
<1>8. Places(s) /\ Full(s) /\ StateFits(s)
  BY DEF FileInv, Fits
<1>9. Places(s)' /\ Full(s)'
  BY <1>1, <1>7, <1>8 DEF Places, Full
<1>10. StateFits(s)'
  <2>1. /\ st.first = From(s, k) /\ st.row + n = Len(file[s][k]) /\ Sound(file[s][k])
        /\ (k = Len(file[s]) \/ st.row = MaxRows)
    BY <1>2, <1>5, <1>8 DEF StateFits
  <2>2. st.row \in Nat /\ st.row # MaxRows
    BY <1>1, <1>2, RowsPositive DEF CurType
  <2>3. /\ new.first = From(s, k) /\ new.row + 0 = Len(file[s][k]) /\ new.idx = Len(file[s])
    BY <1>3, <1>4, <2>1, <2>2
  <2> HIDE DEF new, k
  <2>4. QED
    BY <1>1, <1>4, <1>6, <1>7, <2>1, <2>3 DEF StateFits
<1>11. StaysPut(s)
  <2> SUFFICES ASSUME NEW l, NEW i, Kept(s, l, i) PROVE Kept(s, l, i)' /\ file'[s][l][i] = file[s][l][i]
    BY DEF StaysPut
  <2>1. l \in DOMAIN file[s] /\ i \in DOMAIN file[s][l] /\ file[s][l][i].ev # 0
    BY DEF Kept
  <2>2. DOMAIN file[s][l] = 1 .. Len(file[s][l]) /\ Len(file[s][l]) \in Nat
    BY <2>1, FileType DEF BaseInv, StoreTypes
  <2>3. i <= Len(file[s][l]) - 0
    BY <2>1, <2>2
  <2>4. QED
    BY <1>1, <1>6, <2>1, <2>3 DEF Kept
<1>12. \A t \in Session : Fits(t)' /\ StaysPut(t)
  <2>1. Fits(s)'
    BY <1>9, <1>10 DEF Fits
  <2>2. QED
    BY <1>6, <1>11, <2>1, OneFits
<1>13. SyncOK'
  <2>1. \A g \in Flusher : fpc'[g] # "sync"
    BY <1>0, <1>1, <1>2 DEF BaseInv, StoreTypes, FlushOK
  <2>2. \A t \in Session : ~(dirty'[t] > 0)
    <3> SUFFICES ASSUME NEW t \in Session, t # s PROVE ~(dirty[t] > 0)
      BY <1>6
    <3>1. \A g \in Flusher : fpc[g] = "sync" => sess[g] # t
      BY <1>2
    <3>2. QED
      BY <3>1 DEF FileInv, SyncOK
  <2>3. QED
    BY <2>1, <2>2 DEF SyncOK
<1>14. QED
  BY <1>12, <1>13 DEF FileInv

LEMMA ForkFits ==
  ASSUME BaseInv, FileInv, NEW p \in Session, NEW c \in Session, NEW n \in Nat, Fork(p, n, c)
  PROVE  FileInv' /\ \A t \in Session : StaysPut(t)
<1> DEFINE id == nextId + Cardinality(Old(p, n))
           seen == {x \in Replay(p) : x.seq < n}
<1>1. /\ file[c] = <<>> /\ cur[c] = NoState
      /\ file' = [file EXCEPT ![c] = << << >> >>] /\ cur' = [cur EXCEPT ![c] = State(1, 0, n, id)]
      /\ base' = [base EXCEPT ![c] = [from |-> n, seen |-> seen]]
      /\ UNCHANGED <<log, flushVars, dirty>>
  BY ForkIs
<1> HIDE DEF id, seen
<1>2. /\ file'[c] = << << >> >> /\ cur'[c] = State(1, 0, n, id) /\ base'[c].from = n
      /\ \A t \in Session : t # c => /\ file'[t] = file[t] /\ cur'[t] = cur[t] /\ dirty'[t] = dirty[t]
                                     /\ base'[t] = base[t]
  BY <1>1 DEF BaseInv, StoreTypes, FilesOK, OpenOK, GhostOK
<1>3. dirty[c] = 0
  BY <1>1 DEF BaseInv, StoreTypes, OpenOK
<1>4. DOMAIN file'[c] = {1} /\ Len(file'[c]) = 1 /\ file'[c][1] = <<>> /\ Len(<<>>) = 0 /\ DOMAIN <<>> = {}
  BY <1>2
<1>5. From(c, 1)' = n
  <2>1. (1 - 1) * MaxRows = 0
    BY RowsPositive
  <2>2. n + 0 = n
    OBVIOUS
  <2>3. QED
    BY <1>2, <2>1, <2>2 DEF From
<1>6. Places(c)' /\ Full(c)'
  BY <1>4 DEF Places, Full
<1>7. StateFits(c)'
  <2>1. State(1, 0, n, id).first = n /\ State(1, 0, n, id).row = 0 /\ State(1, 0, n, id).idx = 1
    BY DEF State
  <2> DEFINE st == State(1, 0, n, id)
  <2> HIDE DEF st
  <2>2. cur'[c].first = n /\ cur'[c].row + dirty'[c] = 0 /\ cur'[c].idx = 1
    BY <1>1, <1>2, <1>3, <2>1
  <2>3. QED
    BY <1>4, <1>5, <2>2 DEF StateFits, Sound
<1>8. StaysPut(c)
  BY <1>1 DEF StaysPut, Kept
<1>9. \A t \in Session : Fits(t)' /\ StaysPut(t)
  <2>1. Fits(c)'
    BY <1>6, <1>7 DEF Fits
  <2>2. QED
    BY <1>2, <1>8, <2>1, OneFits
<1>10. SyncOK'
  <2>1. ASSUME NEW f \in Flusher, fpc'[f] = "sync" PROVE Written(f)'
    <3>1. fpc[f] = "sync" /\ groups' = groups /\ sess' = sess /\ Written(f)
      BY <1>1, <2>1 DEF flushVars, FileInv, SyncOK
    <3>2. sess[f] \in Session /\ sess[f] # c
      BY <1>1, <3>1, OneWriter DEF BaseInv
    <3>3. cur'[sess[f]] = cur[sess[f]] /\ file'[sess[f]] = file[sess[f]] /\ dirty'[sess[f]] = dirty[sess[f]]
      BY <1>2, <3>2
    <3>4. Take(f)' = Take(f) /\ \A m : Records(f, m)' = Records(f, m)
      BY <3>1, <3>3 DEF Take, Records
    <3>5. QED
      BY <3>1, <3>3, <3>4 DEF Written
  <2>2. QED
    BY <1>1, <2>1 DEF flushVars, FileInv, SyncOK
<1>11. QED
  BY <1>9, <1>10 DEF FileInv

\* What a crash leaves of a file that was being written.
Remains(x, d, y) ==
  /\ DOMAIN y = 1 .. Len(y) /\ Len(y) \in Nat
  /\ \A j \in DOMAIN y : y[j].ev = 0 => j = Len(y)
  /\ \A j \in DOMAIN y : y[j].ev # 0 => j \in DOMAIN x /\ y[j] = x[j]
  /\ \A j \in 1 .. Len(x) - d : j \in DOMAIN y /\ y[j] = x[j]

LEMMA LeftFits ==
  ASSUME NEW T, NEW x \in Seq(T), NEW d \in Nat, d <= Len(x), Sound(x), NEW i \in Len(x) - d .. Len(x),
         NEW tail \in {<<>>, <<Torn>>}, NEW y, y = SubSeq(x, 1, i) \o tail
  PROVE  Remains(x, d, y)
<1>1. Len(x) \in Nat /\ DOMAIN x = 1 .. Len(x) /\ i \in Nat /\ i <= Len(x) /\ Len(x) - d <= i
  BY LenProperties
<1> DEFINE z == SubSeq(x, 1, i)
           D == T \cup {Torn}
<1>2. /\ z \in Seq(D) /\ Len(z) = i /\ \A j \in 1 .. i : z[j] = x[j]
  <2>1. /\ z \in Seq(T) /\ Len(z) = i /\ \A j \in 1 .. i : z[j] = x[j]
    <3>1. \A j \in 1 .. i : x[j] \in T
      BY <1>1
    <3>2. QED
      BY <1>1, <3>1, SubSeqProperties
  <2>2. QED
    BY <2>1
<1>3. tail \in Seq(D) /\ (Len(tail) = 0 \/ (Len(tail) = 1 /\ tail[1] = Torn))
  <2>1. CASE tail = <<>>
    BY <2>1
  <2>2. CASE tail = <<Torn>>
    <3>1. Torn \in D
      OBVIOUS
    <3> HIDE DEF D
    <3>2. QED
      BY <2>2, <3>1
  <2>3. QED
    BY <2>1, <2>2
<1> HIDE DEF z, D
<1>4. /\ z \o tail \in Seq(D) /\ Len(z \o tail) = Len(z) + Len(tail)
      /\ \A j \in 1 .. Len(z) + Len(tail) : (z \o tail)[j] = IF j <= Len(z) THEN z[j] ELSE tail[j - Len(z)]
  BY <1>2, <1>3, ConcatProperties
<1>5. y = z \o tail
  BY DEF z
<1>6. /\ DOMAIN y = 1 .. Len(y) /\ Len(y) \in Nat /\ (Len(y) = i \/ (Len(y) = i + 1 /\ y[i + 1] = Torn))
      /\ \A j \in 1 .. i : y[j] = x[j]
  <2>1. DOMAIN y = 1 .. Len(y) /\ Len(y) = i + Len(tail) /\ Len(y) \in Nat
    BY <1>1, <1>2, <1>3, <1>4, <1>5
  <2>2. \A j \in 1 .. i : y[j] = x[j]
    BY <1>1, <1>2, <1>3, <1>4, <1>5
  <2>3. ASSUME Len(tail) = 1, tail[1] = Torn PROVE y[i + 1] = Torn
    <3>1. i + 1 \in 1 .. Len(z) + Len(tail) /\ ~(i + 1 <= Len(z)) /\ i + 1 - Len(z) = 1
      BY <1>1, <1>2, <2>3
    <3>2. QED
      BY <1>4, <1>5, <2>3, <3>1
  <2>4. Len(y) = i \/ (Len(y) = i + 1 /\ y[i + 1] = Torn)
    <3>1. CASE Len(tail) = 0
      BY <1>1, <2>1, <3>1
    <3>2. CASE Len(tail) = 1 /\ tail[1] = Torn
      BY <2>1, <2>3, <3>2
    <3>3. QED
      BY <1>3, <3>1, <3>2
  <2>5. QED
    BY <2>1, <2>2, <2>4
<1>7. Torn.ev = 0
  BY DEF Torn
<1>8. ASSUME NEW j \in DOMAIN y PROVE (j \in 1 .. i /\ j \in DOMAIN x) \/ (j = Len(y) /\ y[j] = Torn)
  <2> DEFINE a == Len(y)
             b == Len(x)
  <2>1. a \in Nat /\ b \in Nat /\ j \in 1 .. a /\ (a = i \/ a = i + 1) /\ i <= b /\ i \in Nat
    BY <1>1, <1>6, <1>8
  <2> HIDE DEF a, b
  <2>2. (j \in 1 .. i /\ j \in 1 .. b) \/ (j = a /\ a = i + 1)
    BY <2>1
  <2>3. i + 1 # i
    BY <1>1
  <2>4. QED
    BY <1>1, <1>6, <2>2, <2>3 DEF a, b
<1>9. \A j \in DOMAIN y : y[j].ev = 0 => j = Len(y)
  BY <1>6, <1>8 DEF Sound
<1>10. \A j \in DOMAIN y : y[j].ev # 0 => j \in DOMAIN x /\ y[j] = x[j]
  BY <1>6, <1>7, <1>8
<1>11. \A j \in 1 .. Len(x) - d : j \in DOMAIN y /\ y[j] = x[j]
  <2> SUFFICES ASSUME NEW j \in 1 .. Len(x) - d PROVE j \in 1 .. i /\ j \in 1 .. Len(y)
    BY <1>6
  <2> DEFINE a == Len(y)
             b == Len(x)
  <2>1. a \in Nat /\ b \in Nat /\ j \in 1 .. b - d /\ b - d <= i /\ (a = i \/ a = i + 1) /\ i \in Nat
    BY <1>1, <1>6
  <2> HIDE DEF a, b
  <2>2. j \in 1 .. i /\ j \in 1 .. a
    BY <2>1
  <2>3. QED
    BY <2>2 DEF a
<1>12. QED
  BY <1>6, <1>9, <1>10, <1>11 DEF Remains

LEMMA CrashFits ==
  ASSUME BaseInv, FileInv, Crash
  PROVE  FileInv' /\ \A t \in Session : StaysPut(t)
<1>1. /\ cur' = [s \in Session |-> NoState] /\ fpc' = [f \in Flusher |-> "idle"]
      /\ dirty' = [s \in Session |-> 0] /\ base' = base
  BY DEF Crash
<1>2. \A s \in Session : file'[s] \in Left(s)
  BY DEF Crash
<1>3. SyncOK'
  BY <1>1 DEF SyncOK
<1>4. ASSUME NEW s \in Session PROVE Fits(s)' /\ StaysPut(s)
  <2>1. /\ Places(s) /\ Full(s) /\ StateFits(s) /\ \A l : From(s, l)' = From(s, l)
    BY <1>1, <1>4 DEF FileInv, Fits, From
  <2>2. cur'[s] = NoState /\ dirty'[s] = 0 /\ StateFits(s)' /\ dirty[s] \in Nat
    BY <1>1, <1>4 DEF StateFits, BaseInv, StoreTypes, OpenOK
  <2> DEFINE F == file[s]
             G == file'[s]
             T == Item(Len(log))
  <2>3. /\ Len(G) = Len(F) /\ DOMAIN G = DOMAIN F /\ (dirty[s] = 0 => G = F) /\ G \in Seq(Seq(T))
    BY <1>2, <1>4, LeftIs DEF BaseInv, StoreTypes
  <2>4. /\ F \in Seq(Seq(T)) /\ Len(F) \in Nat /\ DOMAIN F = 1 .. Len(F)
        /\ \A l \in DOMAIN F : F[l] \in Seq(T) /\ Len(F[l]) \in Nat /\ DOMAIN F[l] = 1 .. Len(F[l])
    BY <1>4, FileType DEF BaseInv, StoreTypes
  <2>5. CASE dirty[s] = 0
    <3>1. Places(s)' /\ Full(s)'
      BY <2>1, <2>3, <2>5 DEF Places, Full
    <3>2. StaysPut(s)
      <4> SUFFICES ASSUME NEW l, NEW i, Kept(s, l, i) PROVE Kept(s, l, i)' /\ G[l][i] = F[l][i]
        BY DEF StaysPut
      <4>1. l \in DOMAIN F /\ i \in DOMAIN F[l] /\ F[l][i].ev # 0
        BY DEF Kept
      <4>2. i <= Len(F[l]) - 0
        BY <2>4, <4>1
      <4>3. QED
        BY <2>2, <2>3, <2>5, <4>1, <4>2 DEF Kept
    <3>3. QED
      BY <2>2, <3>1, <3>2 DEF Fits
  <2>6. CASE dirty[s] > 0
    <3> DEFINE k == cur[s].idx
               x == file[s][k]
               y == file'[s][k]
               d == dirty[s]
    <3>1. /\ cur[s] # NoState /\ cur[s].row < MaxRows /\ d <= Len(x) /\ k \in DOMAIN F /\ cur[s] \in CurType
      BY <1>4, <2>6 DEF BaseInv, StoreTypes, OpenOK
    <3>2. Sound(x) /\ k = Len(F)
      <4>1. Sound(x) /\ (k = Len(F) \/ cur[s].row = MaxRows)
        BY <2>1, <3>1 DEF StateFits
      <4>2. cur[s].row # MaxRows
        BY <3>1, RowsPositive DEF CurType
      <4>3. QED
        BY <4>1, <4>2
    <3>3. \A l \in DOMAIN F : l # k => G[l] = F[l]
      BY <1>2, <1>4, <2>6, LeftIs DEF BaseInv, StoreTypes
    <3>4. PICK i \in Len(x) - d .. Len(x), tail \in {<<>>, <<Torn>>} : y = SubSeq(x, 1, i) \o tail
      BY <1>2, <1>4, <2>6, LeftIs DEF BaseInv, StoreTypes
    <3>5. x \in Seq(T) /\ d \in Nat
      BY <2>2, <2>4, <3>1
    <3> HIDE DEF x, y, d, T
    <3>6. /\ DOMAIN y = 1 .. Len(y) /\ Len(y) \in Nat
          /\ \A j \in DOMAIN y : y[j].ev = 0 => j = Len(y)
          /\ \A j \in DOMAIN y : y[j].ev # 0 => j \in DOMAIN x /\ y[j] = x[j]
          /\ \A j \in 1 .. Len(x) - d : j \in DOMAIN y /\ y[j] = x[j]
      <4>1. Remains(x, d, y)
        BY <3>1, <3>2, <3>4, <3>5, LeftFits
      <4>2. QED
        BY <4>1 DEF Remains
    <3>7. G[k] = y /\ F[k] = x
      BY DEF x, y
    <3> HIDE DEF F, G, k
    <3>8. Places(s)'
      <4> SUFFICES ASSUME NEW l \in DOMAIN G, NEW j \in DOMAIN G[l]
                   PROVE  /\ G[l][j].ev = 0 => j = Len(G[l]) /\ l = Len(G)
                          /\ G[l][j].ev # 0 => G[l][j].seq = From(s, l) + j - 1 /\ G[l][j].row = j - 1
        BY <2>1 DEF Places, G
      <4>1. CASE l = k
        <5>1. /\ x[j].ev # 0 /\ j \in DOMAIN x => x[j].seq = From(s, k) + j - 1 /\ x[j].row = j - 1
          BY <2>1, <3>1, <3>7, Zenon DEF Places, F
        <5>2. QED
          BY <2>3, <3>2, <3>6, <3>7, <4>1, <5>1
      <4>2. CASE l # k
        <5>1. G[l] = F[l] /\ l \in DOMAIN F
          BY <2>3, <3>3, <4>2
        <5>2. QED
          BY <2>1, <2>3, <5>1 DEF Places, F
      <4>3. QED
        BY <4>1, <4>2
    <3>9. Full(s)'
      <4> SUFFICES ASSUME NEW l \in DOMAIN G, l < Len(G) PROVE Len(G[l]) = MaxRows
        BY DEF Full, G
      <4>1. l # k /\ l \in DOMAIN F /\ l < Len(F)
        BY <2>3, <2>4, <3>2
      <4>2. QED
        BY <2>1, <3>3, <4>1 DEF Full, F
    <3>10. StaysPut(s)
      <4> SUFFICES ASSUME NEW l, NEW j, Kept(s, l, j) PROVE Kept(s, l, j)' /\ G[l][j] = F[l][j]
        BY DEF StaysPut, F, G
      <4>1. l \in DOMAIN F /\ j \in DOMAIN F[l] /\ F[l][j].ev # 0 /\ (l = k => j <= Len(F[l]) - d)
        BY DEF Kept, F, d, k
      <4>2. l # NoState.idx
        BY <2>4, <4>1 DEF NoState
      <4>3. l \in DOMAIN G /\ j \in DOMAIN G[l] /\ G[l][j] = F[l][j]
        <5>1. CASE l = k
          <6>1. j \in 1 .. Len(x) - d
            BY <2>4, <3>1, <3>5, <3>7, <4>1, <5>1
          <6>2. QED
            BY <2>3, <3>6, <3>7, <4>1, <5>1, <6>1
        <5>2. CASE l # k
          BY <2>3, <3>3, <4>1, <5>2
        <5>3. QED
          BY <5>1, <5>2
      <4>4. QED
        BY <2>2, <4>1, <4>2, <4>3 DEF Kept, G
    <3>11. QED
      BY <2>2, <3>8, <3>9, <3>10 DEF Fits
  <2>7. QED
    BY <2>2, <2>5, <2>6
<1>5. QED
  BY <1>3, <1>4 DEF FileInv

LEMMA FileInit ==
  Init => FileInv
<1> SUFFICES ASSUME Init PROVE FileInv
  OBVIOUS
<1>1. ASSUME NEW s \in Session PROVE file[s] = <<>> /\ DOMAIN file[s] = {} /\ cur[s] = NoState /\ dirty[s] = 0
  BY <1>1 DEF Init
<1>2. \A s \in Session : Fits(s)
  BY <1>1 DEF Fits, Places, Full, StateFits
<1>3. \A f \in Flusher : fpc[f] # "sync"
  BY DEF Init
<1>4. SyncOK
  BY <1>1, <1>3 DEF SyncOK
<1>5. QED
  BY <1>2, <1>4 DEF FileInv

\* A flush that gives up outside of a write leaves the files alone.
LEMMA GivesUpFits ==
  ASSUME BaseInv, FileInv, NEW f \in Flusher, FlushFails(f), file' = file, fpc[f] # "sync"
  PROVE  FileInv' /\ \A t \in Session : StaysPut(t)
<1>1. /\ UNCHANGED <<file, cur, dirty, base, sess>>
      /\ fpc' = [fpc EXCEPT ![f] = "idle"] /\ groups' = [groups EXCEPT ![f] = NoGroups]
  BY DEF FlushFails, ghostVars
<1>2. /\ \A g \in Flusher : (fpc'[g] = "sync") <=> (fpc[g] = "sync")
      /\ \A g \in Flusher : fpc[g] = "sync" => groups'[g] = groups[g] /\ sess'[g] = sess[g]
  BY <1>1 DEF BaseInv, StoreTypes, FlushOK
<1>3. QED
  BY <1>1, <1>2, SameInv

\* A step of a flush that touches neither the files nor the open sessions.
LEMMA QuietFits ==
  ASSUME BaseInv, FileInv, NEW f \in Flusher, UNCHANGED <<file, cur, dirty, base, sess>>, fpc[f] # "sync",
         NEW p, p # "sync", fpc' = [fpc EXCEPT ![f] = p],
         \A g \in Flusher : g # f => groups'[g] = groups[g]
  PROVE  FileInv' /\ \A t \in Session : StaysPut(t)
<1>1. /\ \A g \in Flusher : (fpc'[g] = "sync") <=> (fpc[g] = "sync")
      /\ \A g \in Flusher : fpc[g] = "sync" => groups'[g] = groups[g] /\ sess'[g] = sess[g]
  BY DEF BaseInv, StoreTypes, FlushOK
<1>2. QED
  BY <1>1, SameInv

LEMMA FileStep ==
  ASSUME BaseInv, BaseInv', FileInv, ~IoErrors, [Next]_vars
  PROVE  FileInv' /\ \A t \in Session : StaysPut(t)
<1> DEFINE Good == FileInv' /\ \A t \in Session : StaysPut(t)
<1> USE DEF memVars, diskVars, ghostVars
<1>1. ASSUME NEW f \in Flusher, NEW s \in Session, AppendEvent(f, s) PROVE Good
  <2> DEFINE p == IF Len(pending) + 1 >= BatchSize THEN "take" ELSE "idle"
  <2>1. /\ UNCHANGED <<file, cur, dirty, base, sess, groups>> /\ fpc[f] = "idle" /\ p # "sync"
        /\ fpc' = [fpc EXCEPT ![f] = p]
    BY <1>1 DEF AppendEvent
  <2> HIDE DEF p
  <2>2. QED
    BY <2>1, QuietFits
<1>2. ASSUME NEW f \in Flusher, TakeBatch(f) PROVE Good
  <2>1. /\ UNCHANGED <<file, cur, dirty, base, sess>> /\ fpc[f] # "sync"
        /\ fpc' = [fpc EXCEPT ![f] = "group"] /\ \A g \in Flusher : g # f => groups'[g] = groups[g]
    BY <1>2 DEF TakeBatch, BaseInv, StoreTypes, FlushOK
  <2>2. QED
    BY <2>1, QuietFits
<1>3. ASSUME NEW f \in Flusher, FlushNothing(f) PROVE Good
  <2>1. /\ UNCHANGED <<file, cur, dirty, base, sess, groups>> /\ fpc[f] # "sync"
        /\ fpc' = [fpc EXCEPT ![f] = "idle"]
    BY <1>3 DEF FlushNothing
  <2>2. QED
    BY <2>1, QuietFits
<1>4. ASSUME NEW f \in Flusher, NEW s \in Session, OpenGroup(f, s) PROVE Good
  BY <1>4, OpenGroupFits
<1>5. ASSUME NEW f \in Flusher, Roll(f) PROVE Good
  BY <1>5, RollFits
<1>6. ASSUME NEW f \in Flusher, Write(f) PROVE Good
  BY <1>6, WriteFits
<1>7. ASSUME NEW f \in Flusher, Sync(f) PROVE Good
  BY <1>7, SyncFits
<1>8. ASSUME NEW f \in Flusher, InsertSegment(f) PROVE Good
  <2>1. UNCHANGED <<file, cur, dirty, base, sess, groups, fpc>>
    BY <1>8 DEF InsertSegment
  <2>2. QED
    BY <2>1, SameInv
<1>9. ASSUME NEW f \in Flusher, InsertEvents(f) PROVE Good
  <2>1. CASE FlushFails(f) /\ UNCHANGED file
    <3>1. fpc[f] # "sync"
      BY <1>9 DEF InsertEvents
    <3>2. QED
      BY <2>1, <3>1, GivesUpFits
  <2>2. CASE UNCHANGED <<memVars, groups, sess, diskVars, ghostVars>> /\ fpc' = [fpc EXCEPT ![f] = "confirm"]
    <3>1. UNCHANGED <<file, cur, dirty, base, sess, groups>> /\ fpc[f] # "sync"
      BY <1>9, <2>2 DEF InsertEvents
    <3>2. QED
      BY <2>2, <3>1, QuietFits
  <2>3. QED
    BY <1>9, <2>1, <2>2 DEF InsertEvents
<1>10. ASSUME NEW f \in Flusher, Confirm(f) PROVE Good
  <2>1. /\ UNCHANGED <<file, cur, dirty, base, sess, groups>> /\ fpc[f] # "sync"
        /\ fpc' = [fpc EXCEPT ![f] = "idle"]
    BY <1>10 DEF Confirm
  <2>2. QED
    BY <2>1, QuietFits
<1>11. ASSUME NEW f \in Flusher, Refuse(f) PROVE Good
  <2>1. FlushFails(f) /\ file' = file /\ fpc[f] # "sync"
    BY <1>11 DEF Refuse
  <2>2. QED
    BY <2>1, GivesUpFits
<1>12. ASSUME NEW f \in Flusher, WriteFails(f) \/ SyncFails(f) \/ IndexFails(f) PROVE FALSE
  BY <1>12 DEF WriteFails, SyncFails, IndexFails
<1>13. ASSUME NEW p \in Session, NEW c \in Session, NEW n \in 0 .. MaxEvents, Fork(p, n, c) PROVE Good
  <2>1. n \in Nat
    BY SessionStoreAssumption
  <2>2. QED
    BY <1>13, <2>1, ForkFits
<1>14. ASSUME NEW s \in Session, Rebuild(s) PROVE Good
  <2>1. UNCHANGED <<file, cur, dirty, base, sess, groups, fpc>>
    BY <1>14 DEF Rebuild, flushVars
  <2>2. QED
    BY <2>1, SameInv
<1>15. ASSUME Crash PROVE Good
  BY <1>15, CrashFits
<1>16. ASSUME UNCHANGED vars PROVE Good
  <2>1. UNCHANGED <<file, cur, dirty, base, sess, groups, fpc>>
    BY <1>16 DEF vars, flushVars
  <2>2. QED
    BY <2>1, SameInv
<1> HIDE DEF Good
<1>17. Good
  BY <1>1, <1>2, <1>3, <1>4, <1>5, <1>6, <1>7, <1>8, <1>9, <1>10, <1>11, <1>12, <1>13, <1>14, <1>15, <1>16
  DEF Next, FlushStep
<1>18. QED
  BY <1>17 DEF Good

\* The records of the files before segment k fill them.
LEMMA EarlierIs ==
  ASSUME BaseInv, FileInv, NEW s \in Session, NEW k \in DOMAIN file[s]
  PROVE  Cardinality(Earlier(s, k)) = (k - 1) * MaxRows
<1> DEFINE F == file[s]
           T == Item(Len(log))
<1>1. /\ Len(F) \in Nat /\ DOMAIN F = 1 .. Len(F)
      /\ \A l \in DOMAIN F : F[l] \in Seq(T) /\ Len(F[l]) \in Nat /\ DOMAIN F[l] = 1 .. Len(F[l])
  BY FileType DEF BaseInv, StoreTypes
<1>2. Places(s) /\ Full(s)
  BY DEF FileInv, Fits
<1>3. ASSUME NEW l \in 1 .. k - 1 PROVE DOMAIN Clean(F[l]) = 1 .. MaxRows
  <2>1. l \in DOMAIN F /\ l < Len(F) /\ l # Len(F)
    BY <1>1, <1>3
  <2>2. Sound(F[l]) /\ Len(F[l]) = MaxRows
    BY <1>2, <2>1 DEF Places, Full, Sound
  <2> DEFINE q == F[l]
  <2>3. q \in Seq(T) /\ Sound(q)
    BY <1>1, <2>1, <2>2
  <2> HIDE DEF q, T
  <2>4. Clean(q) = q
    BY <2>3, CleanSound
  <2>5. QED
    BY <1>1, <2>1, <2>2, <2>4 DEF q
<1>4. Earlier(s, k) = (1 .. k - 1) \X (1 .. MaxRows)
  <2> SUFFICES ASSUME NEW x \in (1 .. k - 1) \X (1 .. MaxRows) PROVE x[2] \in DOMAIN Clean(F[x[1]])
    BY DEF Earlier
  <2>1. x[1] \in 1 .. k - 1 /\ x[2] \in 1 .. MaxRows
    OBVIOUS
  <2>2. QED
    BY <1>3, <2>1
<1>5. k \in Nat /\ k - 1 \in Nat /\ MaxRows \in Nat
  BY <1>1, RowsPositive
<1>6. /\ IsFiniteSet(1 .. k - 1) /\ Cardinality(1 .. k - 1) = k - 1
      /\ IsFiniteSet(1 .. MaxRows) /\ Cardinality(1 .. MaxRows) = MaxRows
  <2>1. IsFiniteSet(1 .. k - 1) /\ Cardinality(1 .. k - 1) = IF 1 > k - 1 THEN 0 ELSE k - 1 - 1 + 1
    BY <1>5, FS_Interval
  <2>2. IsFiniteSet(1 .. MaxRows) /\ Cardinality(1 .. MaxRows) = IF 1 > MaxRows THEN 0 ELSE MaxRows - 1 + 1
    BY <1>5, FS_Interval
  <2>3. QED
    BY <1>5, <2>1, <2>2
<1> DEFINE A == 1 .. k - 1
           B == 1 .. MaxRows
<1>7. IsFiniteSet(A) /\ IsFiniteSet(B) /\ Cardinality(A) = k - 1 /\ Cardinality(B) = MaxRows /\ Earlier(s, k) = A \X B
  BY <1>4, <1>6
<1> HIDE DEF A, B
<1>8. Cardinality(A \X B) = Cardinality(A) * Cardinality(B)
  BY <1>7, FS_Product
<1>9. QED
  BY <1>7, <1>8

LEMMA FilesAreContiguous ==
  ASSUME BaseInv, FileInv
  PROVE  FilesContiguous
<1> SUFFICES ASSUME NEW s \in Session, NEW k \in DOMAIN file[s]
             PROVE  /\ Consecutive(Clean(file[s][k]), base[s].from + Cardinality(Earlier(s, k)))
                    /\ Len(Clean(file[s][k])) <= MaxRows
  BY DEF FilesContiguous
<1> DEFINE q == file[s][k]
           c == Clean(q)
           T == Item(Len(log))
<1>1. q \in Seq(T)
  BY FileType DEF BaseInv, StoreTypes
<1>2. base[s].from + Cardinality(Earlier(s, k)) = From(s, k)
  BY EarlierIs DEF From
<1>3. Places(s)
  BY DEF FileInv, Fits
<1>4. \A i \in DOMAIN q : q[i].ev # 0 => q[i].seq = From(s, k) + i - 1 /\ q[i].row = i - 1
  BY <1>3 DEF Places
<1>5. \A i \in DOMAIN q : q[i].row \in 0 .. (MaxRows - 1)
  <2>1. \A i \in DOMAIN q : q[i] \in T
    BY <1>1
  <2>2. QED
    BY <2>1 DEF Item
<1> HIDE DEF q, T
<1>6. /\ c \in Seq(T) /\ Len(c) \in Nat /\ Len(c) <= Len(q) /\ DOMAIN c = 1 .. Len(c)
      /\ \A i \in 1 .. Len(c) : c[i] = q[i] /\ q[i].ev # 0
  BY <1>1, CleanIs
<1>7. DOMAIN q = 1 .. Len(q) /\ Len(q) \in Nat
  BY <1>1
<1> HIDE DEF c
<1>8. \A i \in DOMAIN c : i \in DOMAIN q /\ c[i] = q[i] /\ q[i].ev # 0
  BY <1>6, <1>7
<1>9. Consecutive(c, From(s, k))
  BY <1>4, <1>8 DEF Consecutive
<1>10. Len(c) <= MaxRows
  <2>1. CASE Len(c) = 0
    BY <2>1, RowsPositive
  <2>2. CASE Len(c) # 0
    <3> DEFINE n == Len(c)
    <3>1. n \in DOMAIN c
      BY <1>6, <2>2
    <3>2. q[n].row = n - 1 /\ q[n].row \in 0 .. (MaxRows - 1)
      BY <1>4, <1>5, <1>8, <3>1
    <3>3. n \in Nat
      BY <1>6
    <3> HIDE DEF n
    <3>4. n <= MaxRows
      BY <3>2, <3>3, RowsPositive
    <3>5. QED
      BY <3>4 DEF n
  <2>3. QED
    BY <2>1, <2>2
<1>11. QED
  BY <1>2, <1>9, <1>10 DEF c, q

\* As long as writes, fsyncs and the index work, whatever crashes, refusals and
\* forks there are, the sequence numbers of a session run without a gap from
\* its fork point through all its files and no file outgrows the limit.
THEOREM FilesContiguousProved ==
  ASSUME ~IoErrors
  PROVE  Spec => []FilesContiguous
<1>1. Init => BaseInv /\ FileInv
  BY BaseInit, FileInit
<1>2. BaseInv /\ FileInv /\ [Next]_vars => BaseInv' /\ FileInv'
  BY BaseStep, FileStep
<1>3. BaseInv /\ FileInv => FilesContiguous
  BY FilesAreContiguous
<1>4. QED
  BY <1>1, <1>2, <1>3, PTL DEF Spec

-----------------------------------------------------------------------------
(* Records that survive a crash.                                           *)

\* Durable(s) as a function of the files, the open segment and its unsynced end.
Stored(F, c, d) ==
  UNION {LET n == IF k = c THEN d ELSE 0
         IN RecordSet(Clean(SubSeq(F[k], 1, Len(F[k]) - n))) : k \in DOMAIN F}

StoredAt(F, c, d, k, i) ==
  k \in DOMAIN F /\ i \in DOMAIN F[k] /\ F[k][i].ev # 0 /\ (k = c => i <= Len(F[k]) - d)

\* The part of a file that is read.
LEMMA CutIs ==
  ASSUME NEW T, NEW q \in Seq(T), NEW n \in Nat, n <= Len(q),
         \A i \in DOMAIN q : q[i].ev = 0 => i = Len(q), NEW x
  PROVE  x \in RecordSet(Clean(SubSeq(q, 1, Len(q) - n))) <=>
           \E i \in DOMAIN q : q[i].ev # 0 /\ i <= Len(q) - n /\ x = q[i]
<1> DEFINE m == Len(q) - n
           z == SubSeq(q, 1, m)
           c == Clean(z)
<1>1. Len(q) \in Nat /\ DOMAIN q = 1 .. Len(q) /\ m \in Nat /\ m <= Len(q)
  BY LenProperties
<1> HIDE DEF m
<1>2. z \in Seq(T) /\ Len(z) = m /\ DOMAIN z = 1 .. m /\ \A i \in 1 .. m : z[i] = q[i]
  <2>1. \A i \in 1 .. m : q[i] \in T
    BY <1>1
  <2>2. z \in Seq(T) /\ Len(z) = m /\ \A i \in 1 .. m : z[i] = q[i]
    BY <1>1, <2>1, SubSeqProperties
  <2> HIDE DEF z
  <2>3. QED
    BY <2>2
<1> HIDE DEF z
<1>3. \A i \in DOMAIN z : z[i].ev = 0 => i = Len(z)
  <2> SUFFICES ASSUME NEW i \in DOMAIN z, z[i].ev = 0 PROVE i = Len(z)
    OBVIOUS
  <2>1. i \in DOMAIN q /\ q[i].ev = 0 /\ i \in 1 .. m
    BY <1>1, <1>2
  <2>2. i = Len(q)
    BY <2>1
  <2> DEFINE a == Len(q)
  <2>3. a \in Nat /\ m \in Nat /\ m <= a /\ i = a /\ i \in 1 .. m
    BY <1>1, <2>1, <2>2
  <2> HIDE DEF a
  <2>4. i = m
    BY <2>3
  <2>5. QED
    BY <1>2, <2>4
<1>4. \A i \in DOMAIN z : z[i].ev # 0 => i \in DOMAIN c
  BY <1>2, <1>3, CleanAtEnd
<1>5. /\ Len(c) \in Nat /\ Len(c) <= Len(z) /\ DOMAIN c = 1 .. Len(c)
      /\ \A i \in 1 .. Len(c) : c[i] = z[i] /\ z[i].ev # 0
  BY <1>2, CleanIs
<1> HIDE DEF c
<1>6. ASSUME x \in RecordSet(c) PROVE \E i \in DOMAIN q : q[i].ev # 0 /\ i <= m /\ x = q[i]
  <2>1. PICK i \in DOMAIN c : x = c[i]
    BY <1>6 DEF RecordSet
  <2>2. i \in 1 .. m /\ i \in DOMAIN q /\ c[i] = z[i] /\ z[i] = q[i] /\ z[i].ev # 0 /\ i <= m
    BY <1>1, <1>2, <1>5
  <2>3. QED
    BY <2>1, <2>2
<1>7. ASSUME NEW i \in DOMAIN q, q[i].ev # 0, i <= m, x = q[i] PROVE x \in RecordSet(c)
  <2>1. i \in 1 .. m
    BY <1>1, <1>7
  <2>2. i \in DOMAIN z /\ z[i] = q[i]
    BY <1>2, <2>1
  <2>3. i \in DOMAIN c /\ c[i] = z[i]
    BY <1>4, <1>5, <1>7, <2>2
  <2>4. QED
    BY <1>7, <2>2, <2>3 DEF RecordSet
<1>8. QED
  BY <1>6, <1>7 DEF c, z, m

LEMMA StoredIs ==
  ASSUME NEW T, NEW F \in Seq(Seq(T)), NEW c, NEW d \in Nat, c \in DOMAIN F => d <= Len(F[c]),
         \A k \in DOMAIN F : \A i \in DOMAIN F[k] : F[k][i].ev = 0 => i = Len(F[k]), NEW x
  PROVE  x \in Stored(F, c, d) <=> \E k, i : StoredAt(F, c, d, k, i) /\ x = F[k][i]
<1> DEFINE n(k) == IF k = c THEN d ELSE 0
           S(k) == RecordSet(Clean(SubSeq(F[k], 1, Len(F[k]) - n(k))))
<1>1. \A k \in DOMAIN F : F[k] \in Seq(T) /\ Len(F[k]) \in Nat /\ DOMAIN F[k] = 1 .. Len(F[k])
  <2> SUFFICES ASSUME NEW k \in DOMAIN F PROVE F[k] \in Seq(T) /\ Len(F[k]) \in Nat /\ DOMAIN F[k] = 1 .. Len(F[k])
    OBVIOUS
  <2>1. F[k] \in Seq(T)
    OBVIOUS
  <2>2. QED
    BY <2>1, LenProperties
<1>2. x \in Stored(F, c, d) <=> \E k \in DOMAIN F : x \in S(k)
  BY DEF Stored
<1>3. ASSUME NEW k \in DOMAIN F
      PROVE  x \in S(k) <=> \E i : StoredAt(F, c, d, k, i) /\ x = F[k][i]
  <2> DEFINE q == F[k]
             m == n(k)
  <2>1. q \in Seq(T) /\ m \in Nat /\ m <= Len(q) /\ \A i \in DOMAIN q : q[i].ev = 0 => i = Len(q)
    BY <1>1, <1>3
  <2>2. \A i \in DOMAIN q : (k = c => i <= Len(q) - d) <=> i <= Len(q) - m
    BY <1>1, <1>3
  <2>3. S(k) = RecordSet(Clean(SubSeq(q, 1, Len(q) - m)))
    OBVIOUS
  <2> HIDE DEF q, m, S
  <2>4. x \in RecordSet(Clean(SubSeq(q, 1, Len(q) - m))) <=>
          \E i \in DOMAIN q : q[i].ev # 0 /\ i <= Len(q) - m /\ x = q[i]
    BY <2>1, CutIs
  <2>5. x \in S(k) <=> \E i \in DOMAIN q : q[i].ev # 0 /\ i <= Len(q) - m /\ x = q[i]
    BY <2>3, <2>4, Zenon
  <2>6. QED
    BY <1>3, <2>2, <2>5 DEF StoredAt, q
<1> HIDE DEF S
<1>4. QED
  BY <1>2, <1>3 DEF StoredAt

LEMMA DurableStays ==
  ASSUME BaseInv, BaseInv', FileInv, FileInv', NEW s \in Session, StaysPut(s)
  PROVE  Durable(s) \subseteq Durable(s)'
<1> SUFFICES ASSUME NEW x, x \in Durable(s) PROVE x \in Durable(s)'
  OBVIOUS
<1>1. /\ file[s] \in Seq(Seq(Item(Len(log)))) /\ dirty[s] \in Nat
      /\ cur[s].idx \in DOMAIN file[s] => dirty[s] <= Len(file[s][cur[s].idx])
      /\ \A k \in DOMAIN file[s] : \A i \in DOMAIN file[s][k] : file[s][k][i].ev = 0 => i = Len(file[s][k])
  <2>1. file[s] \in Seq(Seq(Item(Len(log)))) /\ dirty[s] \in Nat /\ (dirty[s] > 0 => dirty[s] <= Len(file[s][cur[s].idx]))
    BY DEF BaseInv, StoreTypes, FilesOK, OpenOK
  <2>2. cur[s].idx \in DOMAIN file[s] => Len(file[s][cur[s].idx]) \in Nat
    BY FileType DEF BaseInv, StoreTypes
  <2>3. Places(s)
    BY DEF FileInv, Fits
  <2>4. QED
    BY <2>1, <2>2, <2>3 DEF Places
<1>2. /\ file'[s] \in Seq(Seq(Item(Len(log')))) /\ dirty'[s] \in Nat
      /\ cur'[s].idx \in DOMAIN file'[s] => dirty'[s] <= Len(file'[s][cur'[s].idx])
      /\ \A k \in DOMAIN file'[s] : \A i \in DOMAIN file'[s][k] : file'[s][k][i].ev = 0 => i = Len(file'[s][k])
  <2> DEFINE G == file'[s]
             T == Item(Len(log'))
  <2>1. G \in Seq(Seq(T)) /\ dirty'[s] \in Nat /\ (dirty'[s] > 0 => dirty'[s] <= Len(G[cur'[s].idx]))
    BY DEF BaseInv, StoreTypes, FilesOK, OpenOK, Item
  <2>2. cur'[s].idx \in DOMAIN G => Len(G[cur'[s].idx]) \in Nat
    <3> HIDE DEF G, T
    <3>1. cur'[s].idx \in DOMAIN G => G[cur'[s].idx] \in Seq(T)
      BY <2>1
    <3>2. QED
      BY <3>1, LenProperties
  <2>3. Places(s)'
    BY DEF FileInv, Fits
  <2>4. \A k \in DOMAIN G : \A i \in DOMAIN G[k] : G[k][i].ev = 0 => i = Len(G[k])
    BY <2>3 DEF Places
  <2> HIDE DEF G, T
  <2>5. cur'[s].idx \in DOMAIN G => dirty'[s] <= Len(G[cur'[s].idx])
    BY <2>1, <2>2
  <2>6. QED
    BY <2>1, <2>4, <2>5 DEF G, T
<1>3. Durable(s) = Stored(file[s], cur[s].idx, dirty[s])
  BY DEF Durable, Stored
<1>4. Durable(s)' = Stored(file'[s], cur'[s].idx, dirty'[s])
  BY DEF Durable, Stored, RecordSet, Clean
<1> DEFINE F == file[s]
           G == file'[s]
           c == cur[s].idx
           e == cur'[s].idx
           d == dirty[s]
           h == dirty'[s]
           T == Item(Len(log))
           U == Item(Len(log'))
<1>5. \A k, i : StoredAt(F, c, d, k, i) <=> Kept(s, k, i)
  BY DEF StoredAt, Kept
<1>6. \A k, i : StoredAt(G, e, h, k, i) <=> Kept(s, k, i)'
  BY DEF StoredAt, Kept
<1>7. PICK k, i : StoredAt(F, c, d, k, i) /\ x = F[k][i]
  <2>1. x \in Stored(F, c, d)
    BY <1>3
  <2> HIDE DEF F, c, d, T
  <2>2. /\ F \in Seq(Seq(T)) /\ d \in Nat /\ (c \in DOMAIN F => d <= Len(F[c]))
        /\ \A l \in DOMAIN F : \A j \in DOMAIN F[l] : F[l][j].ev = 0 => j = Len(F[l])
    BY <1>1 DEF F, c, d, T
  <2>3. QED
    BY <2>1, <2>2, StoredIs
<1>8. StoredAt(G, e, h, k, i) /\ x = G[k][i]
  <2>1. Kept(s, k, i)
    BY <1>5, <1>7
  <2>2. Kept(s, k, i)' /\ G[k][i] = F[k][i]
    BY <2>1 DEF StaysPut
  <2>3. QED
    BY <1>6, <1>7, <2>2
<1>9. x \in Stored(G, e, h)
  <2>1. /\ G \in Seq(Seq(U)) /\ h \in Nat /\ (e \in DOMAIN G => h <= Len(G[e]))
        /\ \A l \in DOMAIN G : \A j \in DOMAIN G[l] : G[l][j].ev = 0 => j = Len(G[l])
    BY <1>2
  <2> HIDE DEF G, e, h, U
  <2>2. QED
    BY <1>8, <2>1, StoredIs
<1>10. QED
  BY <1>4, <1>9

\* As long as writes, fsyncs and the index work, no step of a flush, a fork, a
\* rebuild, a recovery or a crash changes or removes a record that was synced.
THEOREM AppendOnlyProved ==
  ASSUME ~IoErrors
  PROVE  Spec => AppendOnly
<1>1. Init => BaseInv /\ FileInv
  BY BaseInit, FileInit
<1>2. BaseInv /\ FileInv /\ [Next]_vars => BaseInv' /\ FileInv'
  BY BaseStep, FileStep
<1>3. BaseInv /\ FileInv /\ [Next]_vars => [\A s \in Session : Durable(s) \subseteq Durable(s)']_vars
  <2> SUFFICES ASSUME BaseInv, FileInv, [Next]_vars, NEW s \in Session
               PROVE  Durable(s) \subseteq Durable(s)'
    OBVIOUS
  <2>1. BaseInv' /\ FileInv' /\ StaysPut(s)
    BY BaseStep, FileStep
  <2>2. QED
    BY <2>1, DurableStays
<1>4. QED
  BY <1>1, <1>2, <1>3, PTL DEF Spec, AppendOnly
=============================================================================
